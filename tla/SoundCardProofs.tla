-------------------------- MODULE SoundCardProofs --------------------------
(***************************************************************************)
(* Proofs about the sound card, for music of any length and buffers of any *)
(* size: guest and callback are never at the same chunk, and the music is  *)
(* played in order.                                                        *)
(*                                                                         *)
(* Neither follows from the mutexes alone, since the port handler reads    *)
(* the index of the chunk to fill before it takes the mutex.  The index    *)
(* stays because the callback swaps the chunks only when the one to fill   *)
(* is ready, and the guest fills it only on a request: at any time one     *)
(* request is on its way, from switch_buf through the monitor thread, the  *)
(* interrupt controller and the handler to the guest, or none, and none    *)
(* while the chunk is ready (OneRequest, AskedBeforeReady).                *)
(***************************************************************************)
EXTENDS SoundCard, TLAPS

(* Where the guest is, or where the handler returns to.                    *)
Guest == IF pc[Main] \in {"ack", "handle"} THEN back ELSE pc[Main]

(* The places where a request to fill a chunk can be.  A flag that will be *)
(* reset before it is read again is none.                                  *)
SwitchAsks  == switch_buf /\ pc[Monitor] \notin {"raise", "clear"}
MonitorAsks == pc[Monitor] = "raise"
SlotAsks    == i8259_intr_no = IRQ_BASE + AUDIO_IRQ
HandlerAsks == pc[Main] = "handle" /\ intr_no = IRQ_BASE + AUDIO_IRQ
GuestAsks   == audio_reload /\ Guest \in {"wait_intr", "halted", "reload",
                                       "write_audio_data", "lock", "copy", "ready"}

Asked == SwitchAsks \/ MonitorAsks \/ SlotAsks \/ HandlerAsks \/ GuestAsks

OneRequest ==
  /\ SwitchAsks  => ~SlotAsks /\ ~HandlerAsks /\ ~GuestAsks
  /\ MonitorAsks => ~SlotAsks /\ ~HandlerAsks /\ ~GuestAsks
  /\ SlotAsks    => ~HandlerAsks /\ ~GuestAsks
  /\ HandlerAsks => ~GuestAsks

AskedBeforeReady ==
  /\ Asked => /\ ~audio_chunk_ready[audio_chunk_fill_idx]
              /\ pc[Callback] \notin {"test_stop", "swap_fill", "swap_play",
                                      "unlock_old", "set_switch"}
  /\ Guest \in {"write_audio_data", "lock", "copy", "ready"} => audio_reload
  /\ pc[Main] = "ack" /\ intr_no = IRQ_BASE + AUDIO_IRQ => SlotAsks

Labels == MainLabels \cup MonitorLabels \cup CallbackLabels

Types ==
  /\ TypeOK
  /\ pc \in [Threads -> Labels]
  /\ pc[Main] \in {"ack", "handle"} =>
       back \in {"wait_intr", "reload", "write_audio_data", "clear_reload"}

(* Nothing happens before the guest starts the card.                       *)
BeforePlay ==
  pc[Main] = "play" =>
    /\ audio_chunk_fill_idx = 0 /\ audio_chunk_play_idx = 0
    /\ ~audio_chunk_ready[0] /\ ~audio_chunk_ready[1]
    /\ pc[Callback] = "idle" /\ ~calling
    /\ pc[Monitor] = "idle"
    /\ i8259_intr_no = I8259_NO_INTR /\ ~audio_reload

(* The other chunk of the two is the one to fill, but between the two      *)
(* assignments of a swap.                                                  *)
Turns ==
  audio_chunk_fill_idx = audio_chunk_play_idx
    <=> pc[Main] = "play" \/ pc[Callback] = "swap_play"

MutexesHeld ==
  /\ pc[Callback] \in {"test_play", "lock_next", "test_next", "test_stop",
                       "retry", "swap_fill", "swap_play", "unlock_old",
                       "set_switch", "mix", "unlock_play"} =>
       audio_mutex[audio_chunk_play_idx] = Callback
  /\ pc[Callback] \in {"test_next", "test_stop", "swap_fill"} =>
       audio_mutex[audio_chunk_fill_idx] = Callback
  /\ pc[Callback] = "swap_play" => \A c \in Chunks : audio_mutex[c] = Callback
  /\ pc[Main] = "lock" => locked = audio_chunk_fill_idx
  /\ pc[Main] \in {"copy", "ready", "len", "unlock"} =>
       audio_mutex[audio_chunk_fill_idx] = Main

(* The chunk that is not played, and whether the buffer read last is for   *)
(* it or for the chunk that is.                                            *)
Other == 1 - audio_chunk_play_idx

Filling == pc[Main] \in {"lock", "copy", "ready"} \/ audio_chunk_ready[Other]

Playing == IF Filling THEN fread_cnt - 1 ELSE fread_cnt

(* A buffer is the newest in a chunk.                                      *)
Holds(c, buffer) ==
  /\ buffer \in audio_chunk[c]
  /\ \A older \in audio_chunk[c] : older <= buffer

InMusic(buffer) == IF buffer <= NrBuffers THEN buffer ELSE NrBuffers

Lengths ==
  /\ \A c \in Chunks : audio_len[c] > 0 => audio_chunk_ready[c]
  /\ pc[Callback] \in {"lock_next", "test_next", "test_stop", "retry",
                       "swap_fill", "swap_play"} =>
       ~audio_chunk_ready[audio_chunk_play_idx]
  /\ pc[Callback] \in {"test_stop", "swap_fill", "swap_play"} =>
       audio_chunk_ready[Other]
  /\ pc[Callback] \in {"unlock_old", "set_switch"} => ~audio_chunk_ready[Other]
  /\ pc[Main] = "len" => audio_chunk_ready[Other]
  /\ audio_chunk_ready[Other] /\ pc[Main] # "len" =>
       audio_len[Other] = IF fread_cnt <= NrBuffers THEN BufferLen ELSE 0

Buffers ==
  /\ Filling => fread_cnt >= 1
  /\ \A c \in Chunks : \A b \in audio_chunk[c] : b <= fread_cnt
  /\ (pc[Main] = "ready" \/ audio_chunk_ready[Other]) /\ fread_cnt <= NrBuffers =>
       Holds(Other, fread_cnt)

(* What has been heard is the music up to the position in the chunk that   *)
(* is played.                                                              *)
Position ==
  LET p == audio_chunk_play_idx IN
  IF audio_len[p] > 0
  THEN /\ Playing \in 1 .. NrBuffers /\ Holds(p, Playing)
       /\ audio_pos + audio_len[p] = BufferLen
       /\ heard = (Playing - 1) * BufferLen + audio_pos
  ELSE heard = InMusic(Playing) * BufferLen

IInv ==
  /\ Types /\ BeforePlay /\ Turns /\ MutexesHeld
  /\ OneRequest /\ AskedBeforeReady
  /\ Lengths /\ Buffers /\ Position

-----------------------------------------------------------------------------
(* A raise of the timer or the card leaves the slot as it is or fills it   *)
(* with that line's number.                                                *)
LEMMA SlotLemma ==
  ASSUME NEW slot \in Slots, NEW q \in {TIMER_IRQ, AUDIO_IRQ}
  PROVE  /\ SlotAfterRaise(slot, q) \in Slots
         /\ SlotAfterRaise(slot, q) \in {slot, q + IRQ_BASE}
  BY SoundAssumption, IrqsAssumption
  DEF SlotAfterRaise, Slots, IntrNos, IRQ_BASE, I8259_NO_INTR, TIMER_IRQ, AUDIO_IRQ

LEMMA NoIntrLemma == I8259_NO_INTR \in Slots
  BY DEF Slots

(* Clearing one of two flags leaves two flags.                             *)
LEMMA ClearLemma ==
  ASSUME NEW ready \in [Chunks -> BOOLEAN], NEW p \in Chunks
  PROVE  [ready EXCEPT ![p] = FALSE] \in [Chunks -> BOOLEAN]
  BY Zenon

(* A unit of a buffer of the music is a unit of the music.                 *)
LEMMA Bound ==
  ASSUME NEW buffer \in 1 .. NrBuffers, NEW pos \in 0 .. BufferLen - 1
  PROVE  (buffer - 1) * BufferLen + pos + 1 \in 0 .. NrBuffers * BufferLen
<1>1. /\ (buffer - 1) * BufferLen \in Nat
      /\ buffer * BufferLen = (buffer - 1) * BufferLen + BufferLen
      /\ (NrBuffers - buffer) * BufferLen \in Nat
      /\ NrBuffers * BufferLen = buffer * BufferLen + (NrBuffers - buffer) * BufferLen
  BY SoundAssumption
<1> QED
  BY <1>1, SoundAssumption

(* The newest buffer in a chunk is found.                                  *)
LEMMA NewestFound ==
  ASSUME NEW c \in Chunks, TypeOK, NEW buffer \in Nat, Holds(c, buffer)
  PROVE  Newest(c) = buffer
<1>1. audio_chunk[c] \subseteq Int
  BY SoundAssumption DEF TypeOK
<1>2. \A b \in audio_chunk[c] :
        (\A older \in audio_chunk[c] : older <= b) => b = buffer
  BY <1>1 DEF Holds
<1>3. \E b \in audio_chunk[c] : \A older \in audio_chunk[c] : older <= b
  BY DEF Holds
<1> QED
  BY <1>2, <1>3, Zenon DEF Newest

LEMMA InitIInv == ASSUME Init PROVE IInv
<1> USE OwnersAssumption, SoundAssumption
    DEF Init, Threads, Chunks, I8259_NO_INTR
<1>1. BeforePlay
  BY DEF BeforePlay
<1>2. Types
  <2>1. NrBuffers * BufferLen \in Nat
    OBVIOUS
  <2>2. /\ switch_buf \in BOOLEAN /\ audio_active \in BOOLEAN
        /\ calling \in BOOLEAN /\ audio_reload \in BOOLEAN
        /\ audio_chunk_ready \in [Chunks -> BOOLEAN]
    BY Zenon
  <2> QED
    BY <2>1, <2>2
    DEF Types, TypeOK, Labels, MainLabels, MonitorLabels, CallbackLabels, Slots
<1>3. Turns /\ MutexesHeld /\ Lengths /\ Buffers
  BY DEF Turns, MutexesHeld, Lengths, Buffers, Other, Filling, Playing, Holds
<1>4. OneRequest /\ AskedBeforeReady
  BY DEF OneRequest, AskedBeforeReady, Asked, SwitchAsks, MonitorAsks, SlotAsks,
         HandlerAsks, GuestAsks, Guest, IRQ_BASE, AUDIO_IRQ
<1>5. Position
  BY DEF Position, InMusic, Filling, Playing, Other
<1> QED
  BY <1>1, <1>2, <1>3, <1>4, <1>5 DEF IInv

(* The guest and the port handler.                                         *)
LEMMA GuestKeeps == ASSUME IInv, GuestStep PROVE IInv'
<1> USE OwnersAssumption, SoundAssumption, SlotLemma
    DEF IInv, BeforePlay, Types, TypeOK, Turns, MutexesHeld, OneRequest,
        AskedBeforeReady, Lengths, Buffers, Position, Asked, SwitchAsks,
        MonitorAsks, SlotAsks, HandlerAsks, GuestAsks, Guest, Other,
        Filling, Playing, Holds, InMusic, Threads, Chunks, Labels, MainLabels, MonitorLabels,
        CallbackLabels, IRQ_BASE, AUDIO_IRQ, TIMER_IRQ, I8259_NO_INTR,
        Goto, idx, chunks, flags, machine, guest, sound, Lock, Unlock
<1>1. CASE AudioPlay
  BY <1>1, SMTT(20) DEF AudioPlay
<1>2. CASE WaitIntr
  BY <1>2, SMTT(20) DEF WaitIntr
<1>3. CASE TestReload
  BY <1>3, SMTT(20) DEF TestReload
<1>4. CASE WriteAudioData
  BY <1>4, SMTT(20) DEF WriteAudioData
<1>5. CASE ClearReload
  <2>1. audio_reload' \in BOOLEAN
    BY <1>5, Zenon DEF ClearReload
  <2> QED
    BY <1>5, <2>1, SMTT(20) DEF ClearReload
<1>6. CASE LockFill
  BY <1>6, SMTT(20) DEF LockFill
<1>7. CASE CopyAudioData
  BY <1>7, SMTT(20) DEF CopyAudioData
<1>8. CASE SetReady
  BY <1>8, SMTT(20) DEF SetReady
<1>9. CASE SetLen
  BY <1>9, SMTT(20) DEF SetLen
<1>10. CASE UnlockFill
  BY <1>10, SMTT(20) DEF UnlockFill
<1> QED
  BY <1>1, <1>2, <1>3, <1>4, <1>5, <1>6, <1>7, <1>8, <1>9, <1>10 DEF GuestStep

(* Interrupts and the end of the emulator.                                 *)
LEMMA InterruptsKeep ==
  ASSUME IInv, TimerTick \/ InterruptStep \/ Quit \/ StopStep
  PROVE  IInv'
<1> USE OwnersAssumption, SoundAssumption, SlotLemma
    DEF IInv, BeforePlay, Types, TypeOK, Turns, MutexesHeld, OneRequest,
        AskedBeforeReady, Lengths, Buffers, Position, Asked, SwitchAsks,
        MonitorAsks, SlotAsks, HandlerAsks, GuestAsks, Guest, Other,
        Filling, Playing, Holds, InMusic, Threads, Chunks, Labels, MainLabels, MonitorLabels,
        CallbackLabels, IRQ_BASE, AUDIO_IRQ, TIMER_IRQ, I8259_NO_INTR,
        Goto, idx, chunks, flags, machine, guest, sound, BetweenInsts
<1>1. CASE TimerTick
  BY <1>1, SMTT(20) DEF TimerTick
<1>2. CASE QueryIntr
  BY <1>2, SMTT(20) DEF QueryIntr
<1>3. CASE AckIntr
  <2>1. i8259_intr_no' \in Slots
    BY <1>3, NoIntrLemma DEF AckIntr
  <2> QED
    BY <1>3, <2>1, SMTT(20) DEF AckIntr
<1>4. CASE HandleIntr
  BY <1>4, SMTT(20) DEF HandleIntr
<1>5. CASE Quit
  BY <1>5, SMTT(20) DEF Quit
<1>6. CASE AudioStop
  <2>1. audio_active' \in BOOLEAN /\ calling' \in BOOLEAN
    BY <1>6, Zenon DEF AudioStop
  <2> QED
    BY <1>6, <2>1, SMTT(20) DEF AudioStop
<1>7. CASE CloseAudio
  BY <1>7, SMTT(20) DEF CloseAudio
<1> QED
  BY <1>1, <1>2, <1>3, <1>4, <1>5, <1>6, <1>7 DEF InterruptStep, StopStep

(* The monitor thread.                                                     *)
LEMMA MonitorKeeps == ASSUME IInv, MonitorStep PROVE IInv'
<1> USE OwnersAssumption, SoundAssumption, SlotLemma
    DEF IInv, BeforePlay, Types, TypeOK, Turns, MutexesHeld, OneRequest,
        AskedBeforeReady, Lengths, Buffers, Position, Asked, SwitchAsks,
        MonitorAsks, SlotAsks, HandlerAsks, GuestAsks, Guest, Other,
        Filling, Playing, Holds, InMusic, Threads, Chunks, Labels, MainLabels, MonitorLabels,
        CallbackLabels, IRQ_BASE, AUDIO_IRQ, TIMER_IRQ, I8259_NO_INTR,
        Goto, idx, chunks, flags, machine, guest, sound
<1>1. CASE TestActive
  BY <1>1, SMTT(20) DEF TestActive
<1>2. CASE TestSwitch
  BY <1>2, SMTT(20) DEF TestSwitch
<1>3. CASE RaiseAudio
  BY <1>3, SMTT(20) DEF RaiseAudio
<1>4. CASE ClearSwitch
  <2>1. switch_buf' \in BOOLEAN
    BY <1>4, Zenon DEF ClearSwitch
  <2> QED
    BY <1>4, <2>1, SMTT(20) DEF ClearSwitch
<1> QED
  BY <1>1, <1>2, <1>3, <1>4 DEF MonitorStep

(* The callback.                                                           *)
LEMMA CallbackKeeps == ASSUME IInv, CallbackStep PROVE IInv'
<1> USE OwnersAssumption, SoundAssumption, SlotLemma
    DEF IInv, BeforePlay, Types, TypeOK, Turns, MutexesHeld, OneRequest,
        AskedBeforeReady, Lengths, Buffers, Position, Asked, SwitchAsks,
        MonitorAsks, SlotAsks, HandlerAsks, GuestAsks, Guest, Other,
        Filling, Playing, Holds, InMusic, Threads, Chunks, Labels, MainLabels, MonitorLabels,
        CallbackLabels, IRQ_BASE, AUDIO_IRQ, TIMER_IRQ, I8259_NO_INTR,
        Goto, idx, chunks, flags, machine, guest, sound, Lock, Unlock, Unit
<1>1. CASE Enter
  BY <1>1, SMTT(20) DEF Enter
<1>2. CASE LockPlay
  BY <1>2, SMTT(20) DEF LockPlay
<1>3. CASE TestPlay
  <2>1. audio_chunk_ready' \in [Chunks -> BOOLEAN]
    <3>1. CASE UNCHANGED audio_chunk_ready
      BY <3>1
    <3>2. CASE audio_chunk_ready' =
                 [audio_chunk_ready EXCEPT ![audio_chunk_play_idx] = FALSE]
      BY <3>2, ClearLemma
    <3> QED
      BY <1>3, <3>1, <3>2 DEF TestPlay
  <2> QED
    BY <1>3, <2>1, SMTT(20) DEF TestPlay
<1>4. CASE LockNext
  BY <1>4, SMTT(20) DEF LockNext
<1>5. CASE TestNext
  BY <1>5, SMTT(20) DEF TestNext
<1>6. CASE TestStop
  BY <1>6, SMTT(20) DEF TestStop
<1>7. CASE SwapFill
  BY <1>7, SMTT(20) DEF SwapFill
<1>8. CASE SwapPlay
  BY <1>8, SMTT(20) DEF SwapPlay
<1>9. CASE UnlockOld
  BY <1>9, SMTT(20) DEF UnlockOld
<1>10. CASE SetSwitch
  BY <1>10, SMTT(20) DEF SetSwitch
<1>11. CASE MixAudio
  <2>1. audio_len[audio_chunk_play_idx] > 0 =>
          /\ Newest(audio_chunk_play_idx) = Playing
          /\ Unit(Playing, audio_pos) \in 0 .. NrBuffers * BufferLen
    <3>1. SUFFICES ASSUME audio_len[audio_chunk_play_idx] > 0
                   PROVE  /\ Newest(audio_chunk_play_idx) = Playing
                          /\ Unit(Playing, audio_pos) \in 0 .. NrBuffers * BufferLen
      OBVIOUS
    <3>2. /\ Playing \in 1 .. NrBuffers /\ audio_pos \in 0 .. BufferLen - 1
          /\ Playing \in Nat /\ audio_chunk_play_idx \in Chunks
          /\ Holds(audio_chunk_play_idx, Playing) /\ TypeOK
      BY <3>1
    <3> HIDE DEF Playing, Holds, TypeOK, IInv, Chunks
    <3>3. Newest(audio_chunk_play_idx) = Playing
      BY <3>2, NewestFound
    <3>4. Unit(Playing, audio_pos) \in 0 .. NrBuffers * BufferLen
      BY <3>2, Bound, Zenon DEF Unit
    <3> QED
      BY <3>3, <3>4
  <2>2. IF audio_len[audio_chunk_play_idx] > 0
        THEN /\ heard' = Unit(Playing, audio_pos)
             /\ heard' \in 0 .. NrBuffers * BufferLen
        ELSE heard' = heard
    <3> HIDE DEF Playing, Unit, IInv
    <3> QED
      BY <1>11, <2>1 DEF MixAudio
  <2>3. heard' \in 0 .. NrBuffers * BufferLen
    BY <2>2
  <2> QED
    BY <1>11, <2>2, <2>3, SMTT(20) DEF MixAudio
<1>12. CASE UnlockPlay
  BY <1>12, SMTT(20) DEF UnlockPlay
<1> QED
  BY <1>1, <1>2, <1>3, <1>4, <1>5, <1>6, <1>7, <1>8, <1>9, <1>10, <1>11, <1>12
  DEF CallbackStep

LEMMA NextIInv == IInv /\ [Next]_vars => IInv'
<1> SUFFICES ASSUME IInv, [Next]_vars PROVE IInv'
  OBVIOUS
<1>1. CASE Next
  BY <1>1, GuestKeeps, InterruptsKeep, MonitorKeeps, CallbackKeeps DEF Next
<1>2. CASE UNCHANGED vars
  BY <1>2
  DEF vars, idx, chunks, flags, machine, guest, sound, IInv, BeforePlay, Types,
      TypeOK, Turns, MutexesHeld, OneRequest, AskedBeforeReady, Lengths,
      Buffers, Position, Asked, SwitchAsks, MonitorAsks, SlotAsks,
      HandlerAsks, GuestAsks, Guest, Other, Filling, Playing, Holds
<1> QED
  BY <1>1, <1>2

LEMMA Invariance == Spec => []IInv
<1> QED
  BY InitIInv, NextIInv, PTL DEF Spec

-----------------------------------------------------------------------------
(* The port handler of audio.c writes only the chunk whose mutex it holds, *)
(* although it reads the index anew for every statement, and fill_audio's  *)
(* assertion on entry holds although it is read without a mutex.           *)
THEOREM FillsLocked == Spec => []FillsLockedChunk
<1>1. IInv => FillsLockedChunk
  BY OwnersAssumption
  DEF IInv, BeforePlay, Types, TypeOK, Turns, MutexesHeld,
      FillsLockedChunk, Chunks, Threads
<1> QED
  BY <1>1, Invariance, PTL

(* The two threads of audio.c play every buffer of the music once, in      *)
(* order and to its end: what is played is the newest buffer of its chunk, *)
(* whichever halves the copy threads copied.                               *)
THEOREM InOrder == Spec => PlayedInOrder
<1>1. IInv /\ [Next]_vars => [heard' # heard => heard' = heard + 1]_vars
  <2> SUFFICES ASSUME IInv, Next, heard' # heard PROVE heard' = heard + 1
    OBVIOUS
  <2>1. MixAudio
    BY DEF Next, GuestStep, InterruptStep, StopStep, MonitorStep, CallbackStep,
           sound, AudioPlay, WaitIntr, TestReload, WriteAudioData,
           ClearReload, LockFill, CopyAudioData, SetReady, SetLen,
           UnlockFill, TimerTick, QueryIntr, AckIntr, HandleIntr, Quit,
           AudioStop, CloseAudio, TestActive, TestSwitch, RaiseAudio,
           ClearSwitch, Enter, LockPlay, TestPlay, LockNext, TestNext,
           TestStop, SwapFill, SwapPlay, UnlockOld, SetSwitch, UnlockPlay
  <2>2. audio_len[audio_chunk_play_idx] > 0
    BY <2>1 DEF MixAudio
  <2>3. /\ heard = (Playing - 1) * BufferLen + audio_pos
        /\ Playing \in 1 .. NrBuffers /\ Playing \in Nat /\ audio_pos \in Nat
        /\ audio_chunk_play_idx \in Chunks /\ TypeOK
        /\ Holds(audio_chunk_play_idx, Playing)
    BY <2>2, SoundAssumption DEF IInv, Types, TypeOK, Position
  <2>4. Newest(audio_chunk_play_idx) = Playing
    BY <2>3, NewestFound
  <2>5. heard' = (Playing - 1) * BufferLen + audio_pos + 1
    BY <2>1, <2>2, <2>4 DEF MixAudio, Unit
  <2>6. (Playing - 1) * BufferLen \in Nat
    BY <2>3, SoundAssumption
  <2> HIDE DEF Playing
  <2> QED
    BY <2>3, <2>5, <2>6
<1> QED
  BY <1>1, Invariance, PTL DEF Spec, PlayedInOrder
=============================================================================
