--------------------- MODULE InterruptControllerProofs ---------------------
(***************************************************************************)
(* Proofs about the interrupt path, for any number of raising threads.     *)
(***************************************************************************)
EXTENDS InterruptController, TLAPS

(* The labels at which a thread is between LockMutex and UnlockMutex.      *)
Critical == {"raise_slot", "raise_intr", "raise_unlock",
             "ack_slot", "ack_intr", "ack_unlock"}

(* While the mutex exists, exactly its owner is in a critical section; it  *)
(* is destroyed only after the main thread has finished.                   *)
MutexInv ==
  /\ mutex # Destroyed => \A p \in Threads : pc[p] \in Critical <=> mutex = p
  /\ mutex = Destroyed => pc[Main] = "done"
  /\ \A t \in Raisers : pc[t] \in RaiseLabels \cup {"idle"}
  /\ pc[Main] # "idle"

(* How far the two writes of a raise or of an acknowledge have come.       *)
ProgressInv ==
  /\ intr => i8259_intr_no # I8259_NO_INTR \/ pc[Main] = "ack_intr"
  /\ i8259_intr_no # I8259_NO_INTR =>
       intr \/ \E p \in Threads : pc[p] = "raise_intr"
  /\ \A p \in Threads : pc[p] = "raise_intr" => i8259_intr_no # I8259_NO_INTR
  /\ pc[Main] = "query" => i8259_intr_no # I8259_NO_INTR
  /\ pc[Main] = "ack_intr" => i8259_intr_no = I8259_NO_INTR

IInv == TypeOK /\ MutexInv /\ ProgressInv /\ QueryFindsVector

-----------------------------------------------------------------------------
(* A raise never empties the slot, and never lowers what is pending.       *)
LEMMA SlotAfterRaiseLemma ==
  ASSUME NEW slot \in Slots, NEW q \in Irqs
  PROVE  /\ SlotAfterRaise(slot, q) \in IntrNos
         /\ SlotAfterRaise(slot, q) # I8259_NO_INTR
         /\ slot # I8259_NO_INTR =>
              SlotAfterRaise(slot, q) = slot \/ SlotAfterRaise(slot, q) > slot
  BY IrqsAssumption DEF SlotAfterRaise, Slots, IntrNos, IRQ_BASE, I8259_NO_INTR

(* No vector is the number that stands for "nothing pending".              *)
LEMMA IntrNosLemma ==
  /\ IntrNos \subseteq Slots
  /\ I8259_NO_INTR \in Slots
  /\ I8259_NO_INTR \notin IntrNos
  BY IrqsAssumption DEF Slots, IntrNos, IRQ_BASE, I8259_NO_INTR

LEMMA InitIInv == Init => IInv
  BY ThreadsAssumption, IntrNosLemma
  DEF Init, IInv, TypeOK, MutexInv, ProgressInv, QueryFindsVector, Threads,
      MainLabels, RaiseLabels, Critical

(* Every step of the main thread preserves the invariant.                  *)
LEMMA MainStepIInv == IInv /\ MainStep => IInv'
<1> SUFFICES ASSUME IInv, MainStep PROVE IInv'
  OBVIOUS
<1> USE ThreadsAssumption, IntrNosLemma
    DEF IInv, TypeOK, MutexInv, ProgressInv, QueryFindsVector, Threads,
        MainLabels, RaiseLabels, Critical, Goto, pic, cpu
<1>1. CASE ExecInst
  <2> SUFFICES ASSUME pc[Main] = "inst", UNCHANGED <<pic, mutex>>,
                      \/ InstHalted \/ InstPlain \/ InstHlt \/ InstSetIF
                      \/ InstNemuTrap \/ InstIdeCommand
               PROVE  IInv'
    BY <1>1 DEF ExecInst
  <2>1. CASE InstHalted
    BY <2>1 DEF InstHalted
  <2>2. CASE InstPlain
    BY <2>2 DEF InstPlain
  <2>3. CASE InstHlt
    BY <2>3 DEF InstHlt
  <2>4. CASE InstSetIF
    BY <2>4 DEF InstSetIF
  <2>5. CASE InstNemuTrap
    BY <2>5 DEF InstNemuTrap
  <2>6. CASE InstIdeCommand
    BY <2>6 DEF InstIdeCommand, CallRaise
  <2>7. QED
    BY <2>1, <2>2, <2>3, <2>4, <2>5, <2>6
<1>2. CASE TimerTick
  BY <1>2 DEF TimerTick, CallRaise
<1>3. CASE NoTimerTick
  BY <1>3 DEF NoTimerTick
<1>4. CASE KeyEvent
  BY <1>4 DEF KeyEvent, CallRaise
<1>5. CASE QuitEvent
  BY <1>5 DEF QuitEvent
<1>6. CASE NoMoreEvents
  BY <1>6 DEF NoMoreEvents
<1>7. CASE DoIntrCheck
  BY ZenonT(40), <1>7 DEF DoIntrCheck, LoopHead
<1>8. CASE QueryIntrNo
  BY <1>8 DEF QueryIntrNo
<1>9. CASE AckLock
  BY <1>9 DEF AckLock
<1>10. CASE AckSlot
  BY <1>10 DEF AckSlot
<1>11. CASE AckIntr
  BY <1>11 DEF AckIntr
<1>12. CASE AckUnlock
  BY <1>12 DEF AckUnlock
<1>13. CASE Deliver
  BY <1>13 DEF Deliver, LoopHead, IFAfterGate
<1>14. CASE I8259Destroy
  BY <1>14 DEF I8259Destroy
<1>15. QED
  BY <1>1, <1>2, <1>3, <1>4, <1>5, <1>6, <1>7, <1>8, <1>9, <1>10, <1>11,
     <1>12, <1>13, <1>14 DEF MainStep

(* So does every step of a raise, in any thread.                           *)
LEMMA RaiseIInv == ASSUME IInv, NEW p \in Threads, Raise(p) PROVE IInv'
<1> USE ThreadsAssumption, IntrNosLemma
    DEF IInv, TypeOK, MutexInv, ProgressInv, QueryFindsVector, Threads,
        MainLabels, RaiseLabels, Critical, Goto, pic, cpu, Return
<1>1. CASE RaiseLock(p)
  BY <1>1 DEF RaiseLock
<1>2. CASE RaiseSlot(p)
  <2>1. i8259_intr_no' \in IntrNos
    BY <1>2, SlotAfterRaiseLemma DEF RaiseSlot
  <2>2. QED
    BY <1>2, <2>1 DEF RaiseSlot
<1>3. CASE RaiseIntr(p)
  BY <1>3 DEF RaiseIntr
<1>4. CASE RaiseUnlock(p)
  BY <1>4 DEF RaiseUnlock
<1>5. QED
  BY <1>1, <1>2, <1>3, <1>4 DEF Raise

LEMMA NextIInv == IInv /\ [Next]_vars => IInv'
<1> SUFFICES ASSUME IInv, [Next]_vars PROVE IInv'
  OBVIOUS
<1>1. CASE MainStep
  BY <1>1, MainStepIInv
<1>2. ASSUME NEW p \in Threads, Raise(p) PROVE IInv'
  BY <1>2, RaiseIInv
<1>3. ASSUME NEW t \in Raisers, AudioRaises(t) PROVE IInv'
  BY <1>3, ThreadsAssumption
  DEF AudioRaises, CallRaise, Goto, pic, cpu, IInv, TypeOK, MutexInv,
      ProgressInv, QueryFindsVector, Threads, MainLabels, RaiseLabels, Critical
<1>4. CASE UNCHANGED vars
  BY <1>4 DEF vars, IInv, TypeOK, MutexInv, ProgressInv, QueryFindsVector,
              Threads, Critical
<1>5. QED
  BY <1>1, <1>2, <1>3, <1>4 DEF Next

(* The variables keep their types, for every set of raising threads.       *)
THEOREM TypeCorrect == Spec => []TypeOK
<1>1. IInv => TypeOK
  BY DEF IInv
<1>2. QED
  BY InitIInv, NextIInv, <1>1, PTL DEF Spec

(* do_intr's assertion never fires: although cpu.intr and the slot are read*)
(* without the mutex, the order of the two writes in i8259_raise_intr and  *)
(* in i8259_ack_intr, and the fact that only the main thread acknowledges, *)
(* make the queried vector a real one.                                     *)
THEOREM QuerySafe == Spec => []QueryFindsVector
<1>1. IInv => QueryFindsVector
  BY DEF IInv
<1>2. QED
  BY InitIInv, NextIInv, <1>1, PTL DEF Spec

(* The INTR pin and the slot agree whenever the mutex is free.             *)
THEOREM PinSlotAgree == Spec => []PinMatchesSlot
<1>1. IInv => PinMatchesSlot
  BY ThreadsAssumption
  DEF IInv, TypeOK, MutexInv, ProgressInv, PinMatchesSlot, Critical, Threads
<1>2. QED
  BY InitIInv, NextIInv, <1>1, PTL DEF Spec

(* A pending request is displaced only by a higher line or acknowledged.   *)
THEOREM PrioritySafe == Spec => PriorityKept
<1>1. IInv /\ [Next]_vars => [PriorityStep]_vars
  <2> SUFFICES ASSUME IInv, Next PROVE PriorityStep
    OBVIOUS
  <2>1. CASE MainStep
    <3>1. CASE AckSlot
      BY <3>1 DEF AckSlot, PriorityStep
    <3>2. CASE ~AckSlot
      BY <2>1, <3>2
      DEF MainStep, ExecInst, TimerTick, NoTimerTick, KeyEvent, QuitEvent,
          NoMoreEvents, DoIntrCheck, QueryIntrNo, AckLock, AckIntr, AckUnlock,
          Deliver, I8259Destroy, pic, PriorityStep
    <3>3. QED
      BY <3>1, <3>2
  <2>2. ASSUME NEW p \in Threads, Raise(p) PROVE PriorityStep
    <3>1. CASE RaiseSlot(p)
      <4>1. i8259_intr_no \in Slots /\ irq[p] \in Irqs
        BY DEF IInv, TypeOK
      <4>2. QED
        BY <3>1, <4>1, SlotAfterRaiseLemma DEF RaiseSlot, PriorityStep
    <3>2. CASE ~RaiseSlot(p)
      BY <2>2, <3>2
      DEF Raise, RaiseLock, RaiseIntr, RaiseUnlock, pic, PriorityStep
    <3>3. QED
      BY <3>1, <3>2
  <2>3. ASSUME NEW t \in Raisers, AudioRaises(t) PROVE PriorityStep
    BY <2>3 DEF AudioRaises, pic, PriorityStep
  <2>4. QED
    BY <2>1, <2>2, <2>3 DEF Next
<1>2. QED
  BY InitIInv, NextIInv, <1>1, PTL DEF Spec, PriorityKept

(* From the query to the acknowledge the slot can only rise, for any number*)
(* of raising threads.                                                     *)
CoverInv ==
  pc[Main] \in {"ack_lock", "ack_slot"} =>
    i8259_intr_no \in IntrNos /\ i8259_intr_no >= intr_no

THEOREM AckCovers == Spec => []AckCoversQueried
<1>1. Init => CoverInv
  BY DEF Init, CoverInv, Threads
<1>2. IInv /\ CoverInv /\ [Next]_vars => CoverInv'
  <2> SUFFICES ASSUME IInv, CoverInv, [Next]_vars PROVE CoverInv'
    OBVIOUS
  <2>1. CASE MainStep
    BY <2>1, IntrNosLemma, IrqsAssumption
    DEF CoverInv, IInv, TypeOK, MutexInv, ProgressInv, Threads, Goto, pic, cpu,
        Slots, IntrNos, IRQ_BASE,
        MainStep, ExecInst, InstHalted, InstPlain, InstHlt, InstSetIF,
        InstNemuTrap, InstIdeCommand, CallRaise, TimerTick, NoTimerTick, KeyEvent,
        QuitEvent, NoMoreEvents, DoIntrCheck, LoopHead, QueryIntrNo, AckLock,
        AckSlot, AckIntr, AckUnlock, Deliver, I8259Destroy
  <2>2. ASSUME NEW p \in Threads, RaiseSlot(p) PROVE CoverInv'
    <3>1. pc[Main]' \in {"ack_lock", "ack_slot"} =>
            pc[Main] \in {"ack_lock", "ack_slot"} /\ i8259_intr_no \in IntrNos
      BY <2>2 DEF RaiseSlot, Goto, CoverInv, IInv, TypeOK
    <3>2. i8259_intr_no \in Slots /\ irq[p] \in Irqs
      BY <2>2 DEF IInv, TypeOK
    <3>3. i8259_intr_no \in IntrNos =>
            i8259_intr_no' \in IntrNos /\ i8259_intr_no' >= i8259_intr_no
      <4>1. i8259_intr_no' = SlotAfterRaise(i8259_intr_no, irq[p])
        BY <2>2 DEF RaiseSlot
      <4>2. IntrNos \subseteq Int
        BY IrqsAssumption DEF IntrNos, IRQ_BASE
      <4>3. /\ i8259_intr_no' \in IntrNos
            /\ i8259_intr_no \in IntrNos =>
                 i8259_intr_no' = i8259_intr_no \/ i8259_intr_no' > i8259_intr_no
        BY <3>2, <4>1, SlotAfterRaiseLemma, IntrNosLemma, Zenon
      <4>4. QED
        BY <4>2, <4>3
    <3>4. intr_no' = intr_no /\ intr_no \in Slots
      BY <2>2 DEF RaiseSlot, cpu, IInv, TypeOK
    <3>5. QED
      BY <3>1, <3>3, <3>4, IrqsAssumption
      DEF CoverInv, Slots, IntrNos, IRQ_BASE, I8259_NO_INTR
  <2>3. ASSUME NEW p \in Threads, RaiseLock(p) \/ RaiseIntr(p) \/ RaiseUnlock(p)
        PROVE  CoverInv'
    <3>1. i8259_intr_no' = i8259_intr_no /\ intr_no' = intr_no
      BY <2>3 DEF RaiseLock, RaiseIntr, RaiseUnlock, pic, cpu
    <3>2. pc[Main]' \in {"ack_lock", "ack_slot"} => pc[Main]' = pc[Main]
      BY <2>3
      DEF RaiseLock, RaiseIntr, RaiseUnlock, Return, Goto, IInv, TypeOK, Threads
    <3>3. QED
      BY <3>1, <3>2 DEF CoverInv
  <2>4. ASSUME NEW t \in Raisers, AudioRaises(t) PROVE CoverInv'
    BY <2>4, ThreadsAssumption
    DEF AudioRaises, CallRaise, Goto, pic, cpu, CoverInv, IInv, TypeOK, Threads
  <2>5. CASE UNCHANGED vars
    BY <2>5 DEF vars, CoverInv
  <2>6. QED
    BY <2>1, <2>2, <2>3, <2>4, <2>5 DEF Next, Raise
<1>3. CoverInv => AckCoversQueried
  BY DEF CoverInv, AckCoversQueried
<1>4. QED
  BY InitIInv, NextIInv, <1>1, <1>2, <1>3, PTL DEF Spec

(* Without audio threads (the default configuration) the acknowledge clears*)
(* exactly the request whose handler is about to run.                      *)
AckInv ==
  pc[Main] \in {"ack_lock", "ack_slot"} => i8259_intr_no = intr_no

THEOREM AckMatches ==
  ASSUME Raisers = {} PROVE Spec => []AckClearsQueried
<1>1. Init => AckInv
  BY DEF Init, AckInv, Threads
<1>2. IInv /\ AckInv /\ [Next]_vars => AckInv'
  <2> SUFFICES ASSUME IInv, AckInv, [Next]_vars PROVE AckInv'
    OBVIOUS
  <2> USE DEF AckInv, IInv, TypeOK, MutexInv, Threads, Goto, pic, cpu,
              RaiseLabels
  <2>1. CASE MainStep
    BY <2>1 DEF MainStep, ExecInst, InstHalted, InstPlain, InstHlt, InstSetIF,
       InstNemuTrap, InstIdeCommand, CallRaise, TimerTick, NoTimerTick, KeyEvent,
       QuitEvent, NoMoreEvents, DoIntrCheck, LoopHead, QueryIntrNo, AckLock,
       AckSlot, AckIntr, AckUnlock, Deliver, I8259Destroy
  <2>2. ASSUME NEW p \in Threads, Raise(p) PROVE AckInv'
    BY <2>2 DEF Raise, RaiseLock, RaiseSlot, RaiseIntr, RaiseUnlock, Return
  <2>3. CASE UNCHANGED vars
    BY <2>3 DEF vars
  <2>4. QED
    BY <2>1, <2>2, <2>3 DEF Next
<1>3. AckInv => AckClearsQueried
  BY DEF AckInv, AckClearsQueried
<1>4. QED
  BY InitIInv, NextIInv, <1>1, <1>2, <1>3, PTL DEF Spec
=============================================================================
