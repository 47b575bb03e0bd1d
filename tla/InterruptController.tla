------------------------ MODULE InterruptController ------------------------
(***************************************************************************)
(* The interrupt path of NEMU: the emulation loop of the main thread       *)
(* (cpu.c: exec, do_intr; intr.c: raise_intr; hlt, sti, cli, iret), the    *)
(* devices it polls (sdl.c, timer.c, keyboard.c), the threads of the sound *)
(* card that raise interrupts on their own (audio.c), and the interrupt    *)
(* controller they share (i8259_pic.c).                                    *)
(*                                                                         *)
(* i8259_raise_intr and i8259_ack_intr write i8259_intr_no and cpu.intr    *)
(* one after the other under a mutex; do_intr reads both without it.  Each *)
(* of these accesses is a step of its own.                                 *)
(***************************************************************************)
EXTENDS I8259

CONSTANTS
  Main,         \* the thread that runs exec()
  Raisers,      \* audio threads; {} unless HAS_DEVICE_AUDIO is defined
  HasKeyboard,  \* HAS_DEVICE_KEYBOARD is defined
  Free,         \* the mutex is not held
  Destroyed     \* SDL_DestroyMutex has been called

ASSUME ThreadsAssumption ==
  /\ Main \notin Raisers
  /\ Free \notin Raisers \cup {Main}
  /\ Destroyed \notin Raisers \cup {Main, Free}
  /\ HasKeyboard \in BOOLEAN
  /\ {TIMER_IRQ, KEYBOARD_IRQ, AUDIO_IRQ, IDE_IRQ} \subseteq Irqs

VARIABLES
  i8259_intr_no,  \* the pending vector
  intr,           \* cpu.intr, the INTR pin
  mutex,          \* i8259_mutex: Free, its owner, or Destroyed
  nemu_state,     \* RUN or STOP
  is_nemu_hlt,
  IF_,            \* cpu.eflags.IF
  intr_no,        \* do_intr's local variable
  pc,             \* where each thread is
  irq,            \* the argument of the raise each thread is in
  ret             \* where the main thread's raise returns to

vars == <<i8259_intr_no, intr, mutex, nemu_state, is_nemu_hlt, IF_, intr_no,
          pc, irq, ret>>

pic == <<i8259_intr_no, intr>>
cpu == <<nemu_state, is_nemu_hlt, IF_, intr_no>>

Threads == Raisers \cup {Main}

Init ==
  /\ i8259_intr_no = I8259_NO_INTR
  /\ intr = FALSE
  /\ mutex = Free
  /\ nemu_state = "RUN"
  /\ is_nemu_hlt = FALSE
  /\ IF_ = FALSE
  /\ intr_no = I8259_NO_INTR
  /\ pc = [p \in Threads |-> IF p = Main THEN "inst" ELSE "idle"]
  /\ irq = [p \in Threads |-> TIMER_IRQ]
  /\ ret = "timer"

Goto(p, label) == pc' = [pc EXCEPT ![p] = label]

(***************************************************************************)
(* i8259_raise_intr, called by any thread.                                 *)
(***************************************************************************)
CallRaise(p, q, label) ==
  /\ Goto(p, "raise_lock")
  /\ irq' = [irq EXCEPT ![p] = q]
  /\ ret' = IF p = Main THEN label ELSE ret

Return(p) == Goto(p, IF p = Main THEN ret ELSE "idle")

RaiseLock(p) ==
  /\ pc[p] = "raise_lock"
  /\ \/ /\ mutex = Free
        /\ mutex' = p
        /\ Goto(p, "raise_slot")
     \* Locking a destroyed mutex is undefined: it fails, and the loop returns
     \* because NEMU has stopped, or it seems to succeed.
     \/ /\ mutex = Destroyed
        /\ Return(p) \/ Goto(p, "raise_slot")
        /\ UNCHANGED mutex
  /\ UNCHANGED <<pic, cpu, irq, ret>>

RaiseSlot(p) ==
  /\ pc[p] = "raise_slot"
  /\ i8259_intr_no' = SlotAfterRaise(i8259_intr_no, irq[p])
  /\ Goto(p, "raise_intr")
  /\ UNCHANGED <<intr, mutex, cpu, irq, ret>>

RaiseIntr(p) ==
  /\ pc[p] = "raise_intr"
  /\ intr' = TRUE
  /\ Goto(p, "raise_unlock")
  /\ UNCHANGED <<i8259_intr_no, mutex, cpu, irq, ret>>

RaiseUnlock(p) ==
  /\ pc[p] = "raise_unlock"
  /\ mutex' = IF mutex = p THEN Free ELSE mutex
  /\ Return(p)
  /\ UNCHANGED <<pic, cpu, irq, ret>>

(* Mutant of Raise: the pin is set before the slot is written.             *)
Raise_PinFirst(p) ==
  \/ RaiseLock(p)
  \/ /\ pc[p] = "raise_slot"
     /\ intr' = TRUE
     /\ Goto(p, "raise_intr")
     /\ UNCHANGED <<i8259_intr_no, mutex, cpu, irq, ret>>
  \/ /\ pc[p] = "raise_intr"
     /\ i8259_intr_no' = SlotAfterRaise(i8259_intr_no, irq[p])
     /\ Goto(p, "raise_unlock")
     /\ UNCHANGED <<intr, mutex, cpu, irq, ret>>
  \/ RaiseUnlock(p)

Raise(p) == RaiseLock(p) \/ RaiseSlot(p) \/ RaiseIntr(p) \/ RaiseUnlock(p)

(* An audio thread decides to raise: the heart beat of the web variant     *)
(* once a second, the monitor thread of the local one after a buffer switch*)
AudioRaises(t) ==
  /\ pc[t] = "idle"
  /\ CallRaise(t, AUDIO_IRQ, ret)
  /\ UNCHANGED <<pic, mutex, cpu>>

(***************************************************************************)
(* One turn of the loop in exec(): an instruction unless the CPU is halted,*)
(* then do_devices, then do_intr.                                          *)
(***************************************************************************)
InstHalted ==
  /\ is_nemu_hlt
  /\ Goto(Main, "timer")
  /\ UNCHANGED <<cpu, irq, ret>>

InstPlain ==
  /\ ~is_nemu_hlt
  /\ Goto(Main, "timer")
  /\ UNCHANGED <<cpu, irq, ret>>

InstHlt ==
  /\ ~is_nemu_hlt
  /\ is_nemu_hlt' = TRUE
  /\ Goto(Main, "timer")
  /\ UNCHANGED <<nemu_state, IF_, intr_no, irq, ret>>

(* sti, cli, and the EFLAGS that iret pops.                                *)
InstSetIF ==
  /\ ~is_nemu_hlt
  /\ IF_' \in BOOLEAN
  /\ Goto(Main, "timer")
  /\ UNCHANGED <<nemu_state, is_nemu_hlt, intr_no, irq, ret>>

InstNemuTrap ==
  /\ ~is_nemu_hlt
  /\ nemu_state' = "STOP"
  /\ Goto(Main, "timer")
  /\ UNCHANGED <<is_nemu_hlt, IF_, intr_no, irq, ret>>

(* An out to the IDE command port: handler_ide raises IRQ 14.              *)
InstIdeCommand ==
  /\ ~is_nemu_hlt
  /\ CallRaise(Main, IDE_IRQ, "timer")
  /\ UNCHANGED cpu

ExecInst ==
  /\ pc[Main] = "inst"
  /\ \/ InstHalted \/ InstPlain \/ InstHlt \/ InstSetIF
     \/ InstNemuTrap \/ InstIdeCommand
  /\ UNCHANGED <<pic, mutex>>

(* do_timer: the interval has elapsed.                                     *)
TimerTick ==
  /\ pc[Main] = "timer"
  /\ nemu_state = "RUN"
  /\ CallRaise(Main, TIMER_IRQ, "keyboard")
  /\ UNCHANGED <<pic, mutex, cpu>>

NoTimerTick ==
  /\ pc[Main] = "timer"
  /\ Goto(Main, "keyboard")
  /\ UNCHANGED <<pic, mutex, cpu, irq, ret>>

(* do_keyboard polls until SDL has no event left.                          *)
KeyEvent ==
  /\ pc[Main] = "keyboard"
  /\ HasKeyboard
  /\ CallRaise(Main, KEYBOARD_IRQ, "keyboard")
  /\ UNCHANGED <<pic, mutex, cpu>>

QuitEvent ==
  /\ pc[Main] = "keyboard"
  /\ HasKeyboard
  /\ nemu_state' = "STOP"
  /\ UNCHANGED <<pic, mutex, is_nemu_hlt, IF_, intr_no, pc, irq, ret>>

NoMoreEvents ==
  /\ pc[Main] = "keyboard"
  /\ Goto(Main, "check")
  /\ UNCHANGED <<pic, mutex, cpu, irq, ret>>

(***************************************************************************)
(* do_intr.                                                                *)
(***************************************************************************)
LoopHead == IF nemu_state = "RUN" THEN "inst" ELSE "destroy"

(* Mutant of DoIntrCheck: an interrupt does not end the halt.              *)
DoIntrCheck_StayHalted ==
  /\ pc[Main] = "check"
  /\ Goto(Main, IF intr /\ IF_ THEN "query" ELSE LoopHead)
  /\ UNCHANGED <<pic, mutex, cpu, irq, ret>>

DoIntrCheck ==
  /\ pc[Main] = "check"
  /\ IF intr /\ IF_
     THEN Goto(Main, "query") /\ is_nemu_hlt' = FALSE
     ELSE Goto(Main, LoopHead) /\ UNCHANGED is_nemu_hlt
  /\ UNCHANGED <<pic, mutex, nemu_state, IF_, intr_no, irq, ret>>

(* Mutant of QueryIntrNo: the number of the first query is kept.           *)
QueryIntrNo_Cached ==
  /\ pc[Main] = "query"
  /\ intr_no' = IF intr_no = I8259_NO_INTR THEN i8259_intr_no ELSE intr_no
  /\ Goto(Main, "ack_lock")
  /\ UNCHANGED <<pic, mutex, nemu_state, is_nemu_hlt, IF_, irq, ret>>

QueryIntrNo ==
  /\ pc[Main] = "query"
  /\ intr_no' = i8259_intr_no
  /\ Goto(Main, "ack_lock")
  /\ UNCHANGED <<pic, mutex, nemu_state, is_nemu_hlt, IF_, irq, ret>>

(* Mutant of AckLock: the acknowledge does not wait for the mutex.         *)
AckLock_NoWait ==
  /\ pc[Main] = "ack_lock"
  /\ mutex' = Main
  /\ Goto(Main, "ack_slot")
  /\ UNCHANGED <<pic, cpu, irq, ret>>

AckLock ==
  /\ pc[Main] = "ack_lock"
  /\ mutex = Free
  /\ mutex' = Main
  /\ Goto(Main, "ack_slot")
  /\ UNCHANGED <<pic, cpu, irq, ret>>

AckSlot ==
  /\ pc[Main] = "ack_slot"
  /\ i8259_intr_no' = I8259_NO_INTR
  /\ Goto(Main, "ack_intr")
  /\ UNCHANGED <<intr, mutex, cpu, irq, ret>>

AckIntr ==
  /\ pc[Main] = "ack_intr"
  /\ intr' = FALSE
  /\ Goto(Main, "ack_unlock")
  /\ UNCHANGED <<i8259_intr_no, mutex, cpu, irq, ret>>

AckUnlock ==
  /\ pc[Main] = "ack_unlock"
  /\ mutex' = Free
  /\ Goto(Main, "deliver")
  /\ UNCHANGED <<pic, cpu, irq, ret>>

(* raise_intr: the vector's handler is entered.                            *)
Deliver ==
  /\ pc[Main] = "deliver"
  /\ IF_' = IFAfterGate(intr_no, IF_)
  /\ Goto(Main, LoopHead)
  /\ UNCHANGED <<pic, mutex, nemu_state, is_nemu_hlt, intr_no, irq, ret>>

(* exec() has left its loop because NEMU stopped.                          *)
I8259Destroy ==
  /\ pc[Main] = "destroy"
  /\ mutex' = Destroyed
  /\ Goto(Main, "done")
  /\ UNCHANGED <<pic, cpu, irq, ret>>

MainStep ==
  \/ ExecInst \/ TimerTick \/ NoTimerTick \/ KeyEvent \/ QuitEvent
  \/ NoMoreEvents \/ DoIntrCheck \/ QueryIntrNo \/ AckLock \/ AckSlot
  \/ AckIntr \/ AckUnlock \/ Deliver \/ I8259Destroy

Next ==
  \/ MainStep
  \/ \E p \in Threads : Raise(p)
  \/ \E t \in Raisers : AudioRaises(t)

Spec == Init /\ [][Next]_vars

(* Every thread runs, the keyboard queue runs dry, and the wall clock that *)
(* do_timer reads advances past the interval again and again.  A raising   *)
(* thread sleeps a millisecond or more between two raises, so it does not  *)
(* keep the main thread from the mutex for good.                           *)
Fairness ==
  /\ WF_vars(MainStep)
  /\ SF_vars(AckLock)
  /\ SF_vars(TimerTick)
  /\ SF_vars(NoMoreEvents)
  /\ \A p \in Threads : WF_vars(Raise(p)) /\ SF_vars(RaiseLock(p))

FairSpec == Spec /\ Fairness

-----------------------------------------------------------------------------
MainLabels ==
  {"inst", "timer", "keyboard", "check", "query", "ack_lock", "ack_slot",
   "ack_intr", "ack_unlock", "deliver", "destroy", "done"}
RaiseLabels == {"raise_lock", "raise_slot", "raise_intr", "raise_unlock"}

TypeOK ==
  /\ i8259_intr_no \in Slots
  /\ intr \in BOOLEAN
  /\ mutex \in Threads \cup {Free, Destroyed}
  /\ nemu_state \in {"RUN", "STOP"}
  /\ is_nemu_hlt \in BOOLEAN
  /\ IF_ \in BOOLEAN
  /\ intr_no \in Slots
  /\ pc \in [Threads -> MainLabels \cup RaiseLabels \cup {"idle"}]
  /\ irq \in [Threads -> Irqs]
  /\ ret \in {"timer", "keyboard"}

(* The assertion in do_intr: once the INTR pin has been seen set, the      *)
(* unlocked query of the controller finds a vector, whatever other threads *)
(* are in the middle of raising.                                           *)
QueryFindsVector ==
  pc[Main] = "ack_lock" => intr_no # I8259_NO_INTR

(* The pin and the slot agree whenever nobody holds the mutex: a pin       *)
(* without a vector would trip do_intr's assertion, a vector without the   *)
(* pin would never be delivered.                                           *)
PinMatchesSlot ==
  mutex = Free => (intr <=> i8259_intr_no # I8259_NO_INTR)

(* The acknowledge clears the request that was queried, or one that has    *)
(* displaced it since: it never finds the slot empty or a lower line there.*)
AckCoversQueried ==
  pc[Main] = "ack_slot" => i8259_intr_no \in IntrNos /\ i8259_intr_no >= intr_no

(* Without raising threads it clears the very request that was queried;    *)
(* with one, a request that arrives after the query is cleared unseen.     *)
AckClearsQueried ==
  pc[Main] = "ack_slot" => i8259_intr_no = intr_no

(* A pending request goes away only by the acknowledge or by a request on  *)
(* a line with a higher number.                                            *)
PriorityStep ==
  (i8259_intr_no' # i8259_intr_no /\ i8259_intr_no # I8259_NO_INTR)
    => \/ i8259_intr_no' = I8259_NO_INTR /\ pc[Main] = "ack_slot"
       \/ i8259_intr_no' \in IntrNos /\ i8259_intr_no' > i8259_intr_no

PriorityKept == [][PriorityStep]_vars

(* A CPU halted with interrupts enabled is woken while NEMU runs: hlt is   *)
(* how the kernel waits (wait_ide_intr, and the idle loops of the games).  *)
HaltedCpuWakes ==
  (is_nemu_hlt /\ IF_) ~> (~is_nemu_hlt \/ nemu_state = "STOP")
=============================================================================
