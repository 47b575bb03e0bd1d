------------------------------- MODULE Typing -------------------------------
(***************************************************************************)
(* The typing game (game/src/typing) on NEMU: the main loop, the list of   *)
(* letters on the screen, and the handlers of the timer and the keyboard   *)
(* that may interrupt the loop, and each other, between any two accesses   *)
(* to what they share (tick, letter_pressed, key_code).                    *)
(*                                                                         *)
(* The game is compiled without optimisation: tick++ is a load and a store,*)
(* and each C statement that touches a shared variable is a step.  Steps   *)
(* that touch none of them are joined to the next one that does.  The      *)
(* display (redraw_screen, the frame rate) only reads this state and is    *)
(* left out.                                                               *)
(***************************************************************************)
EXTENDS I8259, LinkList, Sequences, FiniteSets

CONSTANTS
  Keys,          \* the letters of the game, 26 in the code
  Typed,         \* the keys among them that the player uses
  CreatePeriod,  \* HZ / CHARACTER_PER_SECOND, 33 in the code
  Rise,          \* a struck letter's speed, 6 (v = -3) in the code
  Bottom,        \* the last position on the screen, 384 in the code
  MaxLag,        \* bound: no tick comes to a running game that is so far behind
  MaxEvents,     \* bound: key events between two instructions of the main loop
  MaxDepth,      \* bound: handlers nested in one another
  NoKey, NoLetter

(* Positions and speeds are counted in half pixels: (rand() % 1000) / 2000 *)
(* is an integer division, so every letter falls at v = 0.5.               *)
Fall == 1

ASSUME TypingAssumption ==
  /\ CreatePeriod \in Nat \ {0} /\ Rise \in Nat \ {0}
  /\ Bottom \in Nat \ {0} /\ MaxLag \in Nat \ {0} /\ MaxEvents \in Nat
  /\ MaxDepth \in Nat \ {0}
  /\ Typed \subseteq Keys /\ NoKey \notin Keys
  /\ NoLetter \notin [x : 0 .. Bottom, v : {Fall, -Rise}, text : Keys]
  /\ {TIMER_IRQ, KEYBOARD_IRQ} \subseteq Irqs

(* What fly_new's assertion depends on: a letter stays for at most Bottom  *)
(* updates until it is struck and Bottom \div Rise after, and the pool has *)
(* room for the letters that come meanwhile (448 <= 33 * 999 in the code). *)
ASSUME RoomAssumption == Bottom + Bottom \div Rise <= CreatePeriod * (PoolSize - 1)

VARIABLES
  i8259_intr_no, is_nemu_hlt, IF_,
  scan_code_buf,  \* the keyboard's data port: a key, or NoKey for any other code
  events,         \* key events since the main loop's last instruction
  frames,         \* the handlers that are running, the innermost last
  pc,             \* where main_loop is
  now,            \* now % CreatePeriod, all that main_loop uses it for
  lag,            \* tick - now
  todo,           \* target - now
  key_code, letter_pressed,
  pool, head,     \* the list of letters
  letter,         \* the fields of each node of the list
  hit, miss,      \* what the step adds to these counters, which are only shown
  owed,           \* history: the last event was this key going down, unhandled yet
  fresh           \* history: letters whose key has not been pressed since they appeared

machine == <<i8259_intr_no, is_nemu_hlt, IF_>>
clock   == <<now, lag, todo>>
screen  == <<pool, head, letter>>
vars == <<machine, scan_code_buf, events, frames, pc, clock, key_code,
          letter_pressed, screen, hit, miss, owed, fresh>>

OnScreen  == On(pool, head)
Fell(l)   == l # NoLetter /\ l.v > 0     \* a letter that falls
Struck(l) == l # NoLetter /\ l.v < 0     \* a letter that was struck

Init ==
  /\ i8259_intr_no = I8259_NO_INTR
  /\ is_nemu_hlt = FALSE
  /\ IF_ = TRUE                      \* the kernel starts the game with sti done
  /\ scan_code_buf = NoKey /\ key_code = NoKey
  /\ events = 0
  /\ frames = <<>>
  /\ pc = "wait_intr"
  /\ now = 0 /\ lag = 0 /\ todo = 0
  /\ letter_pressed = [k \in Keys |-> FALSE]
  /\ pool = ZeroPool /\ head = NULL
  /\ letter = [n \in Nodes |-> NoLetter]
  /\ hit = 0 /\ miss = 0
  /\ owed = NoKey /\ fresh = {}

-----------------------------------------------------------------------------
(* main_loop.                                                              *)

(* hlt: the CPU sleeps until the next interrupt has been handled.          *)
WaitIntr ==
  /\ pc = "wait_intr"
  /\ is_nemu_hlt' = TRUE
  /\ pc' = "cli"
  /\ UNCHANGED <<i8259_intr_no, IF_, frames, clock, key_code, letter_pressed,
                 screen, fresh>>

Cli ==
  /\ pc = "cli"
  /\ IF_' = FALSE
  /\ pc' = "target"
  /\ UNCHANGED <<i8259_intr_no, is_nemu_hlt, frames, clock, key_code,
                 letter_pressed, screen, fresh>>

(* Mutant of SetTarget: the early continue leaves interrupts off.          *)
SetTarget_NoSti ==
  /\ pc = "target"
  /\ todo' = lag
  /\ pc' = IF lag = 0 THEN "wait_intr" ELSE "keys"
  /\ IF_' = (lag # 0)
  /\ UNCHANGED <<i8259_intr_no, is_nemu_hlt, frames, now, lag, key_code,
                 letter_pressed, screen, fresh>>

(* if (now == tick) { sti; continue; }  target = tick;  sti                *)
SetTarget ==
  /\ pc = "target"
  /\ todo' = lag
  /\ pc' = IF lag = 0 THEN "wait_intr" ELSE "keys"
  /\ IF_' = TRUE
  /\ UNCHANGED <<i8259_intr_no, is_nemu_hlt, frames, now, lag, key_code,
                 letter_pressed, screen, fresh>>

(* update_keypress, entered again and again while it returns true.         *)
KeypressCli ==
  /\ pc = "keys"
  /\ IF_' = FALSE
  /\ pc' = "search"
  /\ UNCHANGED <<i8259_intr_no, is_nemu_hlt, frames, clock, key_code,
                 letter_pressed, screen, fresh>>

(* The letters whose key is pressed that are not struck yet; of those the  *)
(* search keeps the first one on the list among the lowest.                *)
Candidates == {n \in OnScreen : Fell(letter[n]) /\ letter_pressed[letter[n].text]}
Lowest(N)  == {n \in N : \A m \in N : letter[m].x <= letter[n].x}
Target ==
  LET list == Chain(pool, head)
      i    == CHOOSE i \in 1 .. Len(list) :
                /\ list[i] \in Lowest(Candidates)
                /\ \A j \in 1 .. i - 1 : list[j] \notin Lowest(Candidates)
  IN  list[i]

(* A struck letter's key is released, and the function returns with        *)
(* interrupts still off: the call that finds nothing turns them on.        *)
Strike ==
  /\ pc = "search"
  /\ Candidates # {}
  /\ letter_pressed' = [letter_pressed EXCEPT ![letter[Target].text] = FALSE]
  /\ letter' = [letter EXCEPT ![Target].v = -Rise]
  /\ pc' = "keys"
  /\ UNCHANGED <<machine, frames, clock, key_code, pool, head, fresh>>

KeypressDone ==
  /\ pc = "search"
  /\ Candidates = {}
  /\ IF_' = TRUE
  /\ pc' = "simulate"
  /\ UNCHANGED <<i8259_intr_no, is_nemu_hlt, frames, clock, key_code,
                 letter_pressed, screen, fresh>>
(* create_new_letter for the random key k, at the head of the list.        *)
WithNewLetter(s, k) ==
  LET n == NewNode(s.pool)
      p == AfterNew(s.pool)
  IN  [s EXCEPT !.pool = IF s.head = NULL THEN p ELSE AfterInsert(p, NULL, s.head, n),
                !.head = n,
                !.letter[n] = [x |-> 0, v |-> Fall, text |-> k]]

(* One step of update_letter_pos, at node n of the list.  A node's fields  *)
(* are dead once it is free.                                               *)
WithoutLetter(s, n) ==
  [s EXCEPT !.pool = AfterFree(AfterRemove(s.pool, n), n),
            !.head = IF n = @ THEN s.pool.next[n] ELSE @,
            !.letter[n] = NoLetter]

(* Mutant of LetterMoved: a letter that leaves at the top is not counted.  *)
LetterMoved_NoHit(s, n) ==
  LET x == s.letter[n].x + s.letter[n].v IN
    CASE x < 0      -> WithoutLetter(s, n)
      [] x > Bottom -> [WithoutLetter(s, n) EXCEPT !.miss = @ + 1]
      [] OTHER      -> [s EXCEPT !.letter[n].x = x]

LetterMoved(s, n) ==
  LET x == s.letter[n].x + s.letter[n].v IN
    CASE x < 0      -> [WithoutLetter(s, n) EXCEPT !.hit = @ + 1]
      [] x > Bottom -> [WithoutLetter(s, n) EXCEPT !.miss = @ + 1]
      [] OTHER      -> [s EXCEPT !.letter[n].x = x]

(* update_letter_pos reads _next before it frees the node: it visits the   *)
(* list as it was.                                                         *)
Visited(s, list) ==
  LET after[i \in 0 .. Len(list)] ==
        IF i = 0 THEN s ELSE LetterMoved(after[i - 1], list[i])
  IN  after

LettersMoved(s) == LET list == Chain(s.pool, s.head) IN Visited(s, list)[Len(list)]

ThisTick == [pool |-> pool, head |-> head, letter |-> letter, hit |-> 0, miss |-> 0]

Creates == now = 0

(* Mutant of ReleaseNew: a new letter does not clear past presses.         *)
ReleaseNew_Missing(k) == UNCHANGED letter_pressed

ReleaseNew(k) == letter_pressed' = [letter_pressed EXCEPT ![k] = FALSE]

(* Mutant of LastTick: while (now <= target).                              *)
LastTick_OneMore == todo = 0

LastTick == todo = 1

(* The loop over the ticks behind, HZ / UPDATE_PER_SECOND of which is one  *)
(* update of the positions.                                                *)
Simulate ==
  /\ pc = "simulate"
  /\ Creates => NewAsserts(pool)
  /\ \E k \in Keys :
       LET created == IF Creates THEN WithNewLetter(ThisTick, k) ELSE ThisTick
           s       == LettersMoved(created)
       IN  /\ pool' = s.pool /\ head' = s.head /\ letter' = s.letter
           /\ hit' = s.hit /\ miss' = s.miss
           /\ IF Creates THEN ReleaseNew(k) ELSE UNCHANGED letter_pressed
           /\ fresh' = (fresh \cup (IF Creates THEN {created.head} ELSE {}))
                          \cap On(s.pool, s.head)
  /\ now' = (now + 1) % CreatePeriod
  /\ lag' = lag - 1 /\ todo' = todo - 1
  /\ pc' = IF LastTick THEN "wait_intr" ELSE "simulate"
  /\ UNCHANGED <<machine, frames, key_code>>

NoScore == hit' = 0 /\ miss' = 0

MainStep ==
  \/ /\ WaitIntr \/ Cli \/ SetTarget \/ KeypressCli \/ Strike \/ KeypressDone
     /\ NoScore
  \/ Simulate

-----------------------------------------------------------------------------
(* The handlers.  Interrupts are only taken with IF set, so the iret that  *)
(* ends a handler sets it.                                                 *)
top       == frames[Len(frames)]
At(label) == frames # <<>> /\ top.pc = label
Step(label, r) == frames' = [frames EXCEPT ![Len(frames)] = [pc |-> label, r |-> r]]
Iret == /\ frames' = SubSeq(frames, 1, Len(frames) - 1)
        /\ IF_' = TRUE

(* timer_event: tick++.                                                    *)
LoadTick ==
  /\ At("load_tick")
  /\ Step("store_tick", lag)
  /\ UNCHANGED <<IF_, lag, key_code, letter_pressed, fresh>>

StoreTick ==
  /\ At("store_tick")
  /\ lag' = top.r + 1
  /\ Iret
  /\ UNCHANGED <<key_code, letter_pressed, fresh>>

(* keyboard_event: key_code = in_byte(0x60); press_key(key_code).          *)
InByte ==
  /\ At("in_byte")
  /\ Step("set_code", scan_code_buf)
  /\ UNCHANGED <<IF_, lag, key_code, letter_pressed, fresh>>

SetCode ==
  /\ At("set_code")
  /\ key_code' = top.r
  /\ Step("press_key", NoKey)
  /\ UNCHANGED <<IF_, lag, letter_pressed, fresh>>

PressKey ==
  /\ At("press_key")
  /\ letter_pressed' = [k \in Keys |-> letter_pressed[k] \/ k = key_code]
  /\ fresh' = {n \in fresh : letter[n].text # key_code}
  /\ Iret
  /\ UNCHANGED <<lag, key_code>>

HandlerStep ==
  /\ LoadTick \/ StoreTick \/ InByte \/ SetCode \/ PressKey
  /\ NoScore
  /\ UNCHANGED <<i8259_intr_no, is_nemu_hlt, pc, now, todo, screen>>

-----------------------------------------------------------------------------
(* The turns of exec()'s loop.  Many instructions lie between two steps of *)
(* the game, so the devices may be polled any number of times in between;  *)
(* a turn that leaves a deliverable interrupt ends with its delivery, over *)
(* whatever handlers are running.                                          *)
HandlerOf(slot) == IF slot = IRQ_BASE + KEYBOARD_IRQ
                   THEN {"in_byte", "set_code", "press_key"}
                   ELSE {"load_tick", "store_tick"}

Deliverable ==
  /\ i8259_intr_no # I8259_NO_INTR /\ IF_
  /\ Len(frames) < MaxDepth

ExecInst ==
  /\ ~is_nemu_hlt /\ ~Deliverable
  /\ IF frames = <<>> THEN MainStep ELSE HandlerStep
  /\ owed' = IF At("press_key") /\ key_code = owed THEN NoKey ELSE owed
  /\ events' = IF frames = <<>> THEN 0 ELSE events
  /\ UNCHANGED scan_code_buf

TimerFrames == {i \in 1 .. Len(frames) : frames[i].pc \in {"load_tick", "store_tick"}}

(* do_devices: the timer, then the keyboard, which takes all the events    *)
(* there are and keeps the code of the last one.  The codes of released    *)
(* and of other keys mean nothing to the game.                             *)
PollTimer(slot) ==
  IF is_nemu_hlt \/ lag + Cardinality(TimerFrames) < MaxLag
  THEN {slot, SlotAfterRaise(slot, TIMER_IRQ)} ELSE {slot}

Devices ==
  /\ ~Deliverable
  /\ NoScore
  /\ \E slot \in PollTimer(i8259_intr_no) :
       \/ /\ i8259_intr_no' = slot
          /\ UNCHANGED <<scan_code_buf, events, owed>>
       \/ /\ events < MaxEvents /\ events' = events + 1
          /\ \E code \in Typed \cup {NoKey} : scan_code_buf' = code /\ owed' = code
          /\ i8259_intr_no' = SlotAfterRaise(slot, KEYBOARD_IRQ)
  /\ UNCHANGED <<is_nemu_hlt, IF_, frames, pc, clock, key_code, letter_pressed,
                 screen, fresh>>

(* do_intr, and the kernel's dispatch to the game's handler.               *)
DoIntr ==
  /\ Deliverable
  /\ NoScore
  /\ is_nemu_hlt' = FALSE
  /\ i8259_intr_no' = I8259_NO_INTR
  /\ IF_' = IFAfterGate(i8259_intr_no, IF_)
  /\ \E entry \in HandlerOf(i8259_intr_no) \cap {"in_byte", "load_tick"} :
       frames' = Append(frames, [pc |-> entry, r |-> NoKey])
  /\ UNCHANGED <<scan_code_buf, events, pc, clock, key_code, letter_pressed,
                 screen, owed, fresh>>

Next == ExecInst \/ Devices \/ DoIntr

Spec == Init /\ [][Next]_vars

(* A turn of the loop in which the timer's interrupt gets through.         *)
Tick == Devices /\ Deliverable' /\ i8259_intr_no' = IRQ_BASE + TIMER_IRQ

(* exec() keeps looping (this is WF_vars(ExecInst \/ DoIntr), with what     *)
(* enables the two actions written out), and the player cannot put a key   *)
(* event into every turn in which the timer raises.                        *)
Running == ~is_nemu_hlt \/ Deliverable

FairSpec ==
  /\ Spec
  /\ <>[]Running => []<><<ExecInst \/ DoIntr>>_vars
  /\ SF_vars(Tick)

-----------------------------------------------------------------------------
(* The assertion of main_loop: now < tick.  A handler that another one     *)
(* interrupts between load and store takes tick back, but never to where   *)
(* main_loop's target is (game.c).                                         *)
TicksBehind == pc = "simulate" => todo \in 1 .. lag

TypeOK ==
  /\ i8259_intr_no \in Slots
  /\ is_nemu_hlt \in BOOLEAN /\ IF_ \in BOOLEAN
  /\ {scan_code_buf, key_code, owed} \subseteq Typed \cup {NoKey}
  /\ events \in 0 .. MaxEvents
  /\ Len(frames) <= MaxDepth
  /\ \A i \in 1 .. Len(frames) :
       \/ frames[i].pc \in {"load_tick", "in_byte", "press_key"}
       \/ frames[i].pc = "store_tick" /\ frames[i].r \in 0 .. MaxLag
       \/ frames[i].pc = "set_code" /\ frames[i].r \in Typed \cup {NoKey}
  /\ pc \in {"wait_intr", "cli", "target", "keys", "search", "simulate"}
  /\ now \in 0 .. CreatePeriod - 1 /\ lag \in 0 .. MaxLag + 1 /\ todo \in 0 .. MaxLag + 1
  /\ TicksBehind
  /\ letter_pressed \in [Keys -> BOOLEAN]
  /\ pool \in Pools /\ head \in Nodes \cup {NULL}
  /\ letter \in [Nodes -> [x : 0 .. Bottom, v : {Fall, -Rise}, text : Keys]
                         \cup {NoLetter}]
  /\ hit \in Nat /\ miss \in Nat
  /\ fresh \subseteq Nodes

(* The list of letters and the free list of its pool never share a node,   *)
(* lose one or point past one, and the pool always has a letter to give:   *)
(* fly_new's assertion holds.                                              *)
LettersSound ==
  /\ PoolSound(pool, head)
  /\ OnScreen = {n \in Nodes : letter[n] # NoLetter}
  /\ pc = "simulate" => NewAsserts(pool)

(* The last key that went down is never lost: until the game has seen it,  *)
(* its interrupt is pending or its handler is on the way.                  *)
PressNotLost ==
  owed # NoKey =>
    \/ i8259_intr_no = IRQ_BASE + KEYBOARD_IRQ
    \/ \E i \in 1 .. Len(frames) :
         \/ frames[i].pc = "in_byte"
         \/ frames[i].pc = "set_code" /\ frames[i].r = owed
         \/ frames[i].pc = "press_key" /\ key_code = owed

(* A letter is struck by a press of its key that came after it appeared,   *)
(* and it is the lowest letter of that key that is not struck yet.         *)
StrikesFairly ==
  [][\A n \in Nodes : Fell(letter[n]) /\ Struck(letter'[n]) =>
       /\ n \notin fresh
       /\ \A m \in Nodes : Fell(letter[m]) /\ letter[m].text = letter[n].text =>
                            letter[m].x <= letter[n].x]_vars

(* Every letter that leaves the screen is counted once: as a hit if it was *)
(* struck, as a miss if it was not.                                        *)
ScoreHonest ==
  [][pc = "simulate" /\ todo' # todo =>
       LET gone == {n \in Nodes : letter[n] # NoLetter /\ letter'[n] = NoLetter} IN
         /\ hit'  = Cardinality({n \in gone : Struck(letter[n])})
         /\ miss' = Cardinality({n \in gone : Fell(letter[n])})]_vars

(* The game never hangs: as long as the timer ticks, letters go on leaving *)
(* the screen.                                                             *)
GameGoesOn == []<>(hit + miss > 0)
=============================================================================
