----------------------------- MODULE SoundCard -----------------------------
(***************************************************************************)
(* NEMU's local sound card (nemu/src/device/dev/audio.c without PA_ONLINE) *)
(* and the guest program that feeds it (game/src/credits/credits.c).  Two  *)
(* chunks are used in turn: the guest fills one while the card plays the   *)
(* other.                                                                  *)
(*                                                                         *)
(* Three threads: Main runs the guest and the port handler, Callback is    *)
(* SDL's audio thread in fill_audio, Monitor turns switch_buf into the     *)
(* card's interrupt.  Each access to a variable that another thread writes *)
(* is a step of its own.                                                   *)
(*                                                                         *)
(* A buffer of the music is a number.  Each of the two copy threads takes  *)
(* every second byte of a chunk, a lane; a chunk is the set of the buffers *)
(* that its lanes hold, the one of both or two different ones.             *)
(***************************************************************************)
EXTENDS I8259

CONSTANTS
  Main, Monitor, Callback,
  Free,        \* the mutex is not held
  NrBuffers,   \* buffers in the music file
  BufferLen    \* calls of fill_audio that play one buffer

ASSUME SoundAssumption ==
  /\ NrBuffers \in Nat /\ BufferLen \in Nat \ {0}
  /\ {TIMER_IRQ, AUDIO_IRQ} \subseteq Irqs

ASSUME OwnersAssumption ==
  /\ Main # Monitor /\ Main # Callback /\ Monitor # Callback
  /\ Free \notin {Main, Monitor, Callback}

VARIABLES
  \* audio.c
  audio_chunk_fill_idx, audio_chunk_play_idx,
  audio_len,           \* of each chunk, in calls of fill_audio
  audio_chunk_ready,
  audio_mutex,         \* the owner of each chunk's mutex
  switch_buf, audio_active,
  audio_pos,           \* the position in the chunk that is played
  audio_chunk,         \* the buffers that each chunk holds
  \* SDL
  calling,             \* SDL calls fill_audio
  \* the machine and the guest
  nemu_state,
  i8259_intr_no, intr_no,
  audio_reload,
  fread_cnt,           \* buffers read from the music file
  locked,              \* the mutex Main waits for
  back,                \* where the interrupted guest goes on
  pc,
  heard                \* history: units of the music played so far

idx     == <<audio_chunk_fill_idx, audio_chunk_play_idx>>
chunks  == <<audio_len, audio_chunk_ready, audio_chunk>>
flags   == <<switch_buf, audio_active, calling, nemu_state>>
machine == <<i8259_intr_no, intr_no, back>>
guest   == <<audio_reload, fread_cnt, locked>>
sound   == <<audio_pos, heard>>
vars    == <<idx, chunks, flags, machine, guest, sound, audio_mutex, pc>>

Chunks  == {0, 1}
Threads == {Main, Monitor, Callback}
Workers == 0 .. 1      \* AUDIO_CP_Thread
Lanes   == 0 .. 1

(* The last buffer that was copied to a chunk, to one of its lanes or both.*)
Newest(c) ==
  CHOOSE b \in audio_chunk[c] : \A older \in audio_chunk[c] : older <= b

(* One call of fill_audio plays one unit.                                  *)
Unit(buffer, pos) == (buffer - 1) * BufferLen + pos + 1

Goto(t, label) == pc' = [pc EXCEPT ![t] = label]

(* SDL's mutexes are recursive; unlocking another thread's does nothing.   *)
Lock(t, c) ==
  /\ audio_mutex[c] \in {Free, t}
  /\ audio_mutex' = [audio_mutex EXCEPT ![c] = t]

Unlock(t, c) ==
  audio_mutex' = [audio_mutex EXCEPT ![c] = IF @ = t THEN Free ELSE @]

(* audio_start.                                                            *)
Init ==
  /\ audio_chunk_fill_idx = 0 /\ audio_chunk_play_idx = 0
  /\ audio_len = [c \in Chunks |-> 0]
  /\ audio_chunk_ready = [c \in Chunks |-> FALSE]
  /\ audio_chunk = [c \in Chunks |-> {0}]
  /\ audio_mutex = [c \in Chunks |-> Free]
  /\ switch_buf = FALSE /\ audio_active = FALSE
  /\ audio_pos = 0
  /\ calling = FALSE
  /\ nemu_state = "RUN"
  /\ i8259_intr_no = I8259_NO_INTR /\ intr_no = I8259_NO_INTR
  /\ audio_reload = FALSE
  /\ fread_cnt = 0
  /\ locked = 0
  /\ back = "wait_intr"
  /\ pc = [t \in Threads |-> IF t = Main THEN "play" ELSE "idle"]
  /\ heard = 0

-----------------------------------------------------------------------------
(* Main: the guest.                                                        *)

(* audio_pause(0): the port handler starts the card.  SDL calls nothing    *)
(* before that, so this is one step.                                       *)
AudioPlay ==
  /\ pc[Main] = "play"
  /\ audio_chunk_fill_idx' = 1
  /\ audio_active' = TRUE /\ switch_buf' = TRUE /\ calling' = TRUE
  /\ pc' = [pc EXCEPT ![Main] = "wait_intr", ![Monitor] = "active"]
  /\ UNCHANGED <<audio_chunk_play_idx, nemu_state, chunks, machine, guest,
                 sound, audio_mutex>>

WaitIntr ==
  /\ pc[Main] = "wait_intr"
  /\ Goto(Main, "halted")
  /\ UNCHANGED <<idx, chunks, flags, machine, guest, sound, audio_mutex>>

TestReload ==
  /\ pc[Main] = "reload"
  /\ Goto(Main, IF audio_reload THEN "write_audio_data" ELSE "wait_intr")
  /\ UNCHANGED <<idx, chunks, flags, machine, guest, sound, audio_mutex>>

(* fread, which reads nothing at the end of the file, and the out that     *)
(* enters the port handler; the handler picks the mutex.                   *)
WriteAudioData ==
  /\ pc[Main] = "write_audio_data"
  /\ fread_cnt' = IF fread_cnt <= NrBuffers THEN fread_cnt + 1 ELSE fread_cnt
  /\ locked' = audio_chunk_fill_idx
  /\ Goto(Main, "lock")
  /\ UNCHANGED <<idx, chunks, flags, machine, audio_reload, sound, audio_mutex>>

ClearReload ==
  /\ pc[Main] = "clear_reload"
  /\ audio_reload' = FALSE
  /\ Goto(Main, "wait_intr")
  /\ UNCHANGED <<idx, chunks, flags, machine, fread_cnt, locked, sound,
                 audio_mutex>>

(* The port handler: each statement reads the index again.                 *)
LockFill ==
  /\ pc[Main] = "lock"
  /\ Lock(Main, locked)
  /\ Goto(Main, "copy")
  /\ UNCHANGED <<idx, chunks, flags, machine, guest, sound>>

(* The workers are handed the address of the loop's i and not its value,   *)
(* and read it while the loop goes on, or starts again to wait for them:   *)
(* each reads 0, 1 or 2 and copies to the lane of that parity, perhaps     *)
(* both to one, so that the other keeps what it held.  (A worker that      *)
(* reads 2 misses the chunk's first byte, which is left out.)  At the end  *)
(* of the file there is nothing to copy.                                   *)
CopyAudioData ==
  /\ pc[Main] = "copy"
  /\ \E i \in [Workers -> 0 .. 2], kept \in audio_chunk[audio_chunk_fill_idx] :
       LET copied == {i[w] % 2 : w \in Workers}
           stale  == IF copied = Lanes THEN {} ELSE {kept}
       IN  audio_chunk' = IF fread_cnt > NrBuffers THEN audio_chunk
                          ELSE [audio_chunk EXCEPT ![audio_chunk_fill_idx] =
                                  {fread_cnt} \cup stale]
  /\ Goto(Main, "ready")
  /\ UNCHANGED <<idx, audio_len, audio_chunk_ready, flags, machine, guest,
                 sound, audio_mutex>>

SetReady ==
  /\ pc[Main] = "ready"
  /\ audio_chunk_ready' = [audio_chunk_ready EXCEPT ![audio_chunk_fill_idx] = TRUE]
  /\ Goto(Main, "len")
  /\ UNCHANGED <<idx, audio_len, audio_chunk, flags, machine, guest, sound,
                 audio_mutex>>

SetLen ==
  /\ pc[Main] = "len"
  /\ audio_len' = [audio_len EXCEPT ![audio_chunk_fill_idx] =
                     IF fread_cnt <= NrBuffers THEN BufferLen ELSE 0]
  /\ Goto(Main, "unlock")
  /\ UNCHANGED <<idx, audio_chunk_ready, audio_chunk, flags, machine, guest,
                 sound, audio_mutex>>

UnlockFill ==
  /\ pc[Main] = "unlock"
  /\ Unlock(Main, audio_chunk_fill_idx)
  /\ Goto(Main, "clear_reload")
  /\ UNCHANGED <<idx, chunks, flags, machine, guest, sound>>

GuestStep ==
  \/ AudioPlay \/ WaitIntr \/ TestReload \/ WriteAudioData \/ ClearReload
  \/ LockFill \/ CopyAudioData \/ SetReady \/ SetLen \/ UnlockFill

-----------------------------------------------------------------------------
(* Main: devices and interrupts, between two instructions of the guest.    *)
BetweenInsts ==
  pc[Main] \in {"wait_intr", "halted", "reload", "write_audio_data",
                "clear_reload"}

TimerTick ==
  /\ BetweenInsts
  /\ i8259_intr_no' = SlotAfterRaise(i8259_intr_no, TIMER_IRQ)
  /\ UNCHANGED <<idx, chunks, flags, intr_no, back, guest, sound, audio_mutex,
                 pc>>

QueryIntr ==
  /\ BetweenInsts
  /\ i8259_intr_no # I8259_NO_INTR
  /\ intr_no' = i8259_intr_no
  /\ back' = IF pc[Main] = "halted" THEN "reload" ELSE pc[Main]
  /\ Goto(Main, "ack")
  /\ UNCHANGED <<idx, chunks, flags, i8259_intr_no, guest, sound, audio_mutex>>

AckIntr ==
  /\ pc[Main] = "ack"
  /\ i8259_intr_no' = I8259_NO_INTR
  /\ Goto(Main, "handle")
  /\ UNCHANGED <<idx, chunks, flags, intr_no, back, guest, sound, audio_mutex>>

(* audio_event; timer_event does nothing.                                  *)
HandleIntr ==
  /\ pc[Main] = "handle"
  /\ audio_reload' = (audio_reload \/ intr_no = IRQ_BASE + AUDIO_IRQ)
  /\ Goto(Main, back)
  /\ UNCHANGED <<idx, chunks, flags, machine, fread_cnt, locked, sound,
                 audio_mutex>>

Quit ==
  /\ BetweenInsts
  /\ nemu_state' = "STOP"
  /\ Goto(Main, "stop")
  /\ UNCHANGED <<idx, chunks, switch_buf, audio_active, calling, machine, guest,
                 sound, audio_mutex>>

(* audio_stop; SDL_CloseAudio waits for the call it is in to return.       *)
AudioStop ==
  /\ pc[Main] = "stop"
  /\ audio_active' = FALSE /\ calling' = FALSE
  /\ Goto(Main, "close")
  /\ UNCHANGED <<idx, chunks, switch_buf, nemu_state, machine, guest, sound,
                 audio_mutex>>

CloseAudio ==
  /\ pc[Main] = "close" /\ pc[Callback] = "idle"
  /\ Goto(Main, "closed")
  /\ UNCHANGED <<idx, chunks, flags, machine, guest, sound, audio_mutex>>

InterruptStep == QueryIntr \/ AckIntr \/ HandleIntr
StopStep == AudioStop \/ CloseAudio

-----------------------------------------------------------------------------
(* Monitor: AUDIO_Monitor_Thread.                                          *)
TestActive ==
  /\ pc[Monitor] = "active"
  /\ Goto(Monitor, IF audio_active THEN "switch" ELSE "done")
  /\ UNCHANGED <<idx, chunks, flags, machine, guest, sound, audio_mutex>>

TestSwitch ==
  /\ pc[Monitor] = "switch"
  /\ Goto(Monitor, IF switch_buf THEN "raise" ELSE "active")
  /\ UNCHANGED <<idx, chunks, flags, machine, guest, sound, audio_mutex>>

RaiseAudio ==
  /\ pc[Monitor] = "raise"
  /\ i8259_intr_no' = SlotAfterRaise(i8259_intr_no, AUDIO_IRQ)
  /\ Goto(Monitor, "clear")
  /\ UNCHANGED <<idx, chunks, flags, intr_no, back, guest, sound, audio_mutex>>

ClearSwitch ==
  /\ pc[Monitor] = "clear"
  /\ switch_buf' = FALSE
  /\ Goto(Monitor, "active")
  /\ UNCHANGED <<idx, chunks, audio_active, calling, nemu_state, machine, guest,
                 sound, audio_mutex>>

MonitorStep == TestActive \/ TestSwitch \/ RaiseAudio \/ ClearSwitch

-----------------------------------------------------------------------------
(* Callback: fill_audio.                                                   *)
Enter ==
  /\ pc[Callback] = "idle" /\ calling
  /\ Goto(Callback, "assert")
  /\ UNCHANGED <<idx, chunks, flags, machine, guest, sound, audio_mutex>>

LockPlay ==
  /\ pc[Callback] = "assert"
  /\ Lock(Callback, audio_chunk_play_idx)
  /\ Goto(Callback, "test_play")
  /\ UNCHANGED <<idx, chunks, flags, machine, guest, sound>>

TestPlay ==
  /\ pc[Callback] = "test_play"
  /\ LET p == audio_chunk_play_idx IN
       IF audio_len[p] > 0 /\ audio_chunk_ready[p]
       THEN Goto(Callback, "mix") /\ UNCHANGED audio_chunk_ready
       ELSE /\ audio_chunk_ready' = [audio_chunk_ready EXCEPT ![p] = FALSE]
            /\ Goto(Callback, "lock_next")
  /\ UNCHANGED <<idx, audio_len, audio_chunk, flags, machine, guest, sound,
                 audio_mutex>>

(* Mutant of LockNext: the next chunk is taken without its mutex.          *)
LockNext_NoWait ==
  /\ pc[Callback] = "lock_next"
  /\ Goto(Callback, "test_next")
  /\ UNCHANGED <<idx, chunks, flags, machine, guest, sound, audio_mutex>>

LockNext ==
  /\ pc[Callback] = "lock_next"
  /\ Lock(Callback, audio_chunk_fill_idx)
  /\ Goto(Callback, "test_next")
  /\ UNCHANGED <<idx, chunks, flags, machine, guest, sound>>

TestNext ==
  /\ pc[Callback] = "test_next"
  /\ IF audio_chunk_ready[audio_chunk_fill_idx]
     THEN Goto(Callback, "test_stop") /\ UNCHANGED audio_mutex
     ELSE Goto(Callback, "retry") /\ Unlock(Callback, audio_chunk_fill_idx)
  /\ UNCHANGED <<idx, chunks, flags, machine, guest, sound>>

(* Mutant of TestStop: the loop does not ask whether NEMU has stopped.     *)
TestStop_Never ==
  /\ pc[Callback] \in {"test_stop", "retry"}
  /\ Goto(Callback, IF pc[Callback] = "retry" THEN "lock_next" ELSE "swap_fill")
  /\ UNCHANGED <<idx, chunks, flags, machine, guest, sound, audio_mutex>>

(* fill_audio returns, with its mutexes held, when NEMU has stopped.       *)
TestStop ==
  /\ pc[Callback] \in {"test_stop", "retry"}
  /\ Goto(Callback, CASE nemu_state = "STOP"      -> "idle"
                      [] pc[Callback] = "retry"   -> "lock_next"
                      [] OTHER                    -> "swap_fill")
  /\ UNCHANGED <<idx, chunks, flags, machine, guest, sound, audio_mutex>>

SwapFill ==
  /\ pc[Callback] = "swap_fill"
  /\ audio_chunk_fill_idx' = audio_chunk_play_idx
  /\ Goto(Callback, "swap_play")
  /\ UNCHANGED <<audio_chunk_play_idx, chunks, flags, machine, guest, sound,
                 audio_mutex>>

SwapPlay ==
  /\ pc[Callback] = "swap_play"
  /\ audio_chunk_play_idx' = (audio_chunk_play_idx + 1) % 2
  /\ audio_pos' = 0
  /\ Goto(Callback, "unlock_old")
  /\ UNCHANGED <<audio_chunk_fill_idx, chunks, flags, machine, guest, heard,
                 audio_mutex>>

UnlockOld ==
  /\ pc[Callback] = "unlock_old"
  /\ Unlock(Callback, audio_chunk_fill_idx)
  /\ Goto(Callback, "set_switch")
  /\ UNCHANGED <<idx, chunks, flags, machine, guest, sound>>

SetSwitch ==
  /\ pc[Callback] = "set_switch"
  /\ switch_buf' = TRUE
  /\ Goto(Callback, "mix")
  /\ UNCHANGED <<idx, chunks, audio_active, calling, nemu_state, machine, guest,
                 sound, audio_mutex>>

(* Mutant of MixAudio: the position in the chunk stays.                    *)
MixAudio_KeepsPos ==
  /\ pc[Callback] = "mix"
  /\ LET p == audio_chunk_play_idx IN
       IF audio_len[p] > 0
       THEN /\ heard' = Unit(Newest(p), audio_pos)
            /\ audio_len' = [audio_len EXCEPT ![p] = @ - 1]
       ELSE UNCHANGED <<heard, audio_len>>
  /\ Goto(Callback, "unlock_play")
  /\ UNCHANGED <<idx, audio_chunk_ready, audio_chunk, audio_pos, flags, machine,
                 guest, audio_mutex>>

MixAudio ==
  /\ pc[Callback] = "mix"
  /\ LET p == audio_chunk_play_idx IN
       IF audio_len[p] > 0
       THEN /\ heard' = Unit(Newest(p), audio_pos)
            /\ audio_pos' = audio_pos + 1
            /\ audio_len' = [audio_len EXCEPT ![p] = @ - 1]
       ELSE UNCHANGED <<heard, audio_pos, audio_len>>
  /\ Goto(Callback, "unlock_play")
  /\ UNCHANGED <<idx, audio_chunk_ready, audio_chunk, flags, machine, guest,
                 audio_mutex>>

UnlockPlay ==
  /\ pc[Callback] = "unlock_play"
  /\ Unlock(Callback, audio_chunk_play_idx)
  /\ Goto(Callback, "idle")
  /\ UNCHANGED <<idx, chunks, flags, machine, guest, sound>>

CallbackStep ==
  \/ Enter \/ LockPlay \/ TestPlay \/ LockNext \/ TestNext \/ TestStop
  \/ SwapFill \/ SwapPlay \/ UnlockOld \/ SetSwitch \/ MixAudio \/ UnlockPlay

Next ==
  \/ GuestStep \/ TimerTick \/ InterruptStep \/ Quit \/ StopStep
  \/ MonitorStep \/ CallbackStep

Spec == Init /\ [][Next]_vars

(* The threads run, and a mutex that is free again and again is obtained.  *)
Fairness ==
  /\ WF_vars(StopStep)
  /\ WF_vars(GuestStep \/ InterruptStep)
  /\ WF_vars(CallbackStep)
  /\ SF_vars(LockFill) /\ SF_vars(LockPlay) /\ SF_vars(LockNext)

FairSpec == Spec /\ Fairness

-----------------------------------------------------------------------------
MainLabels ==
  {"play", "wait_intr", "halted", "reload", "write_audio_data", "clear_reload",
   "lock", "copy", "ready", "len", "unlock", "ack", "handle", "stop", "close",
   "closed"}
MonitorLabels == {"idle", "active", "switch", "raise", "clear", "done"}
CallbackLabels ==
  {"idle", "assert", "test_play", "lock_next", "test_next", "test_stop",
   "retry", "swap_fill", "swap_play", "unlock_old", "set_switch", "mix",
   "unlock_play"}

TypeOK ==
  /\ audio_chunk_fill_idx \in Chunks /\ audio_chunk_play_idx \in Chunks
  /\ audio_len \in [Chunks -> 0 .. BufferLen]
  /\ audio_chunk_ready \in [Chunks -> BOOLEAN]
  /\ audio_chunk \in [Chunks -> SUBSET (0 .. NrBuffers)]
  /\ audio_mutex \in [Chunks -> {Free, Main, Callback}]
  /\ switch_buf \in BOOLEAN /\ audio_active \in BOOLEAN /\ calling \in BOOLEAN
  /\ audio_pos \in 0 .. BufferLen
  /\ nemu_state \in {"RUN", "STOP"}
  /\ i8259_intr_no \in Slots /\ intr_no \in Slots
  /\ audio_reload \in BOOLEAN
  /\ fread_cnt \in 0 .. NrBuffers + 1
  /\ locked \in Chunks
  /\ pc[Main] \in MainLabels /\ back \in MainLabels
  /\ pc[Monitor] \in MonitorLabels /\ pc[Callback] \in CallbackLabels
  /\ heard \in 0 .. NrBuffers * BufferLen

(* The port handler reads the index of the chunk to fill again and again,  *)
(* each time without asking which mutex it holds: it is always the mutex of*)
(* the chunk it is writing, and the callback is not playing that chunk.    *)
(* The assertion on entry of fill_audio, read before any mutex is taken,   *)
(* holds too: the chunk to play is not the chunk to fill.                  *)
FillsLockedChunk ==
  /\ TypeOK
  /\ pc[Main] \in {"copy", "ready", "len", "unlock"} =>
       /\ audio_mutex[audio_chunk_fill_idx] = Main
       /\ pc[Callback] \in {"mix", "unlock_play"} =>
            audio_chunk_play_idx # audio_chunk_fill_idx
  /\ pc[Callback] = "assert" => audio_chunk_play_idx # audio_chunk_fill_idx

(* The music is played from its start, no unit twice and none left out:    *)
(* no buffer is overwritten before it has been played to its end.  What a  *)
(* chunk plays is the newest buffer in it: its other lane may be stale,    *)
(* which is one disorder of which credits.c:35 complains.                  *)
PlayedInOrder == [][heard' # heard => heard' = heard + 1]_vars

(* NEMU can close the card: the callback does not wait for a chunk that a  *)
(* stopped guest will not fill, and no mutex keeps it.                     *)
StopCloses == nemu_state = "STOP" ~> pc[Main] = "closed"

(* audio_event's comment: "need to load new audio data".  While the card   *)
(* waits for a chunk, the request to fill it is still on its way.          *)
RefillRequested ==
  (nemu_state = "RUN" /\ pc[Callback] = "retry"
     /\ ~audio_chunk_ready[audio_chunk_fill_idx]) =>
    \/ switch_buf
    \/ pc[Monitor] = "raise"
    \/ i8259_intr_no = IRQ_BASE + AUDIO_IRQ
    \/ intr_no = IRQ_BASE + AUDIO_IRQ /\ pc[Main] \in {"ack", "handle"}
    \/ audio_reload
=============================================================================
