---------------------------- MODULE TypingProofs ----------------------------
(***************************************************************************)
(* Proofs about the typing game, for every pool, period and screen.  The   *)
(* handlers and the main loop they interrupt: no press is lost, and the    *)
(* loop never runs ahead of the ticks.  The list of letters: it and the    *)
(* free list share the pool, and there is always a node left.  The score:  *)
(* a press strikes the letter it should, and every letter counts once.     *)
(* Last the types, with the bounds on the clock.                           *)
(***************************************************************************)
EXTENDS Typing, FiniteSetTheorems, TLAPS

TimerNo == IRQ_BASE + TIMER_IRQ
KeyNo   == IRQ_BASE + KEYBOARD_IRQ

Labels == {"load_tick", "store_tick", "in_byte", "set_code", "press_key"}

(* A running handler: what it has loaded is a number of ticks or a key.    *)
Frame == [pc : Labels, r : Nat \cup Typed \cup {NoKey}]

(* What handlers and devices write, letters apart.                         *)
MachineOK ==
  /\ i8259_intr_no \in {I8259_NO_INTR, TimerNo, KeyNo}
  /\ frames \in Seq(Frame)
  /\ scan_code_buf \in Typed \cup {NoKey}
  /\ lag \in Nat /\ todo \in Int
  /\ \A i \in 1 .. Len(frames) : frames[i].pc = "store_tick" => frames[i].r \in Nat

(* Two numbers that handlers compute from a stale `tick` too: a handler    *)
(* interrupted by another one stores the tick it loaded before, which is   *)
(* still not behind the target.                                            *)
TickInv ==
  pc \in {"keys", "search", "simulate"} =>
    /\ 1 <= todo /\ todo <= lag
    /\ \A i \in 1 .. Len(frames) : frames[i].pc = "store_tick" => todo <= frames[i].r

(* The press that is owed is in the port, and the controller or a handler  *)
(* has it.  PressNotLost is not inductive alone: a handler above that one  *)
(* stores its own code over key_code, so it must not have read an older    *)
(* one.                                                                    *)
Has(i) ==
  \/ frames[i].pc = "in_byte"
  \/ frames[i].pc = "set_code" /\ frames[i].r = owed
  \/ frames[i].pc = "press_key" /\ key_code = owed

KeepsCode(i) == frames[i].pc = "set_code" => frames[i].r = owed

OnTheWay ==
  \/ i8259_intr_no = KeyNo
  \/ \E i \in 1 .. Len(frames) :
       Has(i) /\ \A j \in 1 .. Len(frames) : i < j => KeepsCode(j)

PressInv == owed # NoKey => scan_code_buf = owed /\ OnTheWay

IInv == MachineOK /\ TickInv /\ PressInv

-----------------------------------------------------------------------------
(* The stack of handlers: its top is replaced, popped, or pushed.          *)
LEMMA TopReplaced ==
  ASSUME MachineOK, frames # <<>>, NEW label \in Labels,
         NEW r \in Nat \cup Typed \cup {NoKey}, Step(label, r)
  PROVE  /\ Len(frames) \in Nat \ {0} /\ Len(frames') = Len(frames)
         /\ frames' \in Seq(Frame)
         /\ frames'[Len(frames)] = [pc |-> label, r |-> r]
         /\ \A i \in 1 .. Len(frames) : i # Len(frames) => frames'[i] = frames[i]
<1>1. frames \in Seq(Frame) /\ Len(frames) \in Nat \ {0}
  BY DEF MachineOK
<1>2. [pc |-> label, r |-> r] \in Frame
  BY DEF Frame
<1>3. QED
  BY <1>1, <1>2 DEF Step

LEMMA TopPopped ==
  ASSUME MachineOK, frames # <<>>, Iret
  PROVE  /\ Len(frames) \in Nat \ {0} /\ Len(frames') = Len(frames) - 1
         /\ frames' \in Seq(Frame)
         /\ \A i \in 1 .. Len(frames') : i \in 1 .. Len(frames) /\ i # Len(frames)
                                        /\ frames'[i] = frames[i]
<1>1. frames \in Seq(Frame) /\ Len(frames) \in Nat \ {0}
  BY DEF MachineOK
<1>2. frames' = SubSeq(frames, 1, Len(frames) - 1)
  BY DEF Iret
<1>3. /\ frames' \in Seq(Frame) /\ Len(frames') = Len(frames) - 1
      /\ \A i \in 1 .. Len(frames) - 1 : frames'[i] = frames[i]
  <2> DEFINE m == Len(frames) - 1
  <2>1. m \in Nat /\ \A i \in 1 .. m : frames[i] \in Frame
    BY <1>1
  <2> HIDE DEF m
  <2>2. SubSeq(frames, 1, m) \in Seq(Frame) /\ Len(SubSeq(frames, 1, m)) = m
    BY <2>1
  <2>3. \A i \in 1 .. m : SubSeq(frames, 1, m)[i] = frames[i]
    BY <2>1
  <2>4. QED
    BY <1>2, <2>2, <2>3 DEF m
<1>4. \A i \in 1 .. Len(frames) - 1 : i \in 1 .. Len(frames) /\ i # Len(frames)
  BY <1>1
<1>5. QED
  BY <1>1, <1>3, <1>4

LEMMA TopPushed ==
  ASSUME MachineOK, NEW label \in Labels,
         frames' = Append(frames, [pc |-> label, r |-> NoKey])
  PROVE  /\ Len(frames) \in Nat /\ Len(frames') = Len(frames) + 1
         /\ frames' \in Seq(Frame)
         /\ frames'[Len(frames) + 1] = [pc |-> label, r |-> NoKey]
         /\ \A i \in 1 .. Len(frames) : frames'[i] = frames[i]
<1>1. frames \in Seq(Frame) /\ Len(frames) \in Nat
  BY DEF MachineOK
<1>2. [pc |-> label, r |-> NoKey] \in Frame
  BY DEF Frame
<1>3. QED
  BY <1>1, <1>2

(* The priority rule, for the game's two lines.                            *)
LEMMA Raised ==
  ASSUME NEW slot \in {I8259_NO_INTR, TimerNo, KeyNo}
  PROVE  /\ SlotAfterRaise(slot, KEYBOARD_IRQ) = KeyNo
         /\ SlotAfterRaise(slot, TIMER_IRQ) \in {TimerNo, KeyNo}
         /\ slot = KeyNo => SlotAfterRaise(slot, TIMER_IRQ) = KeyNo
BY DEF SlotAfterRaise, TimerNo, KeyNo, I8259_NO_INTR, IRQ_BASE, TIMER_IRQ,
       KEYBOARD_IRQ

-----------------------------------------------------------------------------
(* A step of the main loop: no handler is running.                         *)
LEMMA MainKeeps ==
  ASSUME IInv, ExecInst, frames = <<>>
  PROVE  IInv'
<1>1. Len(frames) = 0
  OBVIOUS
<1>2. UNCHANGED <<i8259_intr_no, frames, scan_code_buf, key_code, owed>>
  <2>1. owed' = owed /\ scan_code_buf' = scan_code_buf
    BY DEF ExecInst, At
  <2>2. MainStep
    BY DEF ExecInst
  <2>3. UNCHANGED <<i8259_intr_no, frames, key_code>>
    BY <2>2 DEF MainStep, WaitIntr, Cli, SetTarget, KeypressCli, Strike,
                KeypressDone, Simulate, machine
  <2>4. QED
    BY <2>1, <2>3
<1>3. lag' \in Nat /\ todo' \in Int
      /\ (pc' \in {"keys", "search", "simulate"} => 1 <= todo' /\ todo' <= lag')
  <2>1. lag \in Nat /\ todo \in Int
    BY DEF IInv, MachineOK
  <2>2. pc \in {"keys", "search", "simulate"} => 1 <= todo /\ todo <= lag
    BY DEF IInv, TickInv
  <2>3. MainStep
    BY DEF ExecInst
  <2>4. CASE WaitIntr \/ Cli \/ KeypressCli \/ Strike \/ KeypressDone
    BY <2>1, <2>2, <2>4 DEF WaitIntr, Cli, KeypressCli, Strike, KeypressDone, clock
  <2>5. CASE SetTarget
    BY <2>1, <2>5 DEF SetTarget
  <2>6. CASE Simulate
    <3>1. /\ pc = "simulate" /\ lag' = lag - 1 /\ todo' = todo - 1
          /\ pc' = IF todo = 1 THEN "wait_intr" ELSE "simulate"
      BY <2>6 DEF Simulate, LastTick
    <3>2. QED
      BY <2>1, <2>2, <3>1
  <2>7. QED
    BY <2>3, <2>4, <2>5, <2>6 DEF MainStep
<1>4. MachineOK'
  BY <1>1, <1>2, <1>3 DEF IInv, MachineOK
<1>5. TickInv'
  BY <1>1, <1>2, <1>3 DEF TickInv
<1>6. PressInv'
  BY <1>1, <1>2 DEF IInv, PressInv, OnTheWay, Has, KeepsCode
<1>7. QED
  BY <1>4, <1>5, <1>6 DEF IInv

(* The timer's handler.                                                    *)
LEMMA TimerKeeps ==
  ASSUME IInv, ExecInst, frames # <<>>, LoadTick \/ StoreTick
  PROVE  IInv'
<1>1. MachineOK /\ TickInv /\ PressInv
  BY DEF IInv
<1>2. HandlerStep
  BY DEF ExecInst
<1>3. UNCHANGED <<i8259_intr_no, scan_code_buf, key_code, pc, todo>>
  BY <1>2 DEF ExecInst, HandlerStep, LoadTick, StoreTick
<1>4. frames[Len(frames)].pc \in {"load_tick", "store_tick"} /\ owed' = owed
  BY DEF LoadTick, StoreTick, At, top, ExecInst
<1>5. CASE LoadTick
  <2>1. Step("store_tick", lag) /\ lag' = lag /\ lag \in Nat
    BY <1>1, <1>5 DEF LoadTick, MachineOK
  <2>2. /\ Len(frames) \in Nat \ {0} /\ Len(frames') = Len(frames)
        /\ frames' \in Seq(Frame)
        /\ frames'[Len(frames)] = [pc |-> "store_tick", r |-> lag]
        /\ \A i \in 1 .. Len(frames) : i # Len(frames) => frames'[i] = frames[i]
    BY <1>1, <2>1, TopReplaced DEF Labels
  <2>3. MachineOK'
    BY <1>1, <1>3, <2>1, <2>2 DEF MachineOK
  <2>4. TickInv'
    BY <1>1, <1>3, <2>1, <2>2 DEF TickInv
  <2>5. PressInv'
    <3>1. ASSUME NEW i \in 1 .. Len(frames), owed # NoKey
          PROVE  (Has(i) => Has(i)') /\ (KeepsCode(i) => KeepsCode(i)')
      BY <1>3, <1>4, <2>2, <3>1 DEF Has, KeepsCode
    <3>2. QED
      BY <1>1, <1>3, <1>4, <2>2, <3>1 DEF PressInv, OnTheWay
  <2>6. QED
    BY <2>3, <2>4, <2>5 DEF IInv
<1>6. CASE StoreTick
  <2>1. /\ Iret /\ lag' = frames[Len(frames)].r + 1
        /\ frames[Len(frames)].pc = "store_tick"
    BY <1>6 DEF StoreTick, At, top
  <2>2. /\ Len(frames) \in Nat \ {0} /\ Len(frames') = Len(frames) - 1
        /\ frames' \in Seq(Frame)
        /\ \A i \in 1 .. Len(frames') : i \in 1 .. Len(frames) /\ i # Len(frames)
                                       /\ frames'[i] = frames[i]
    BY <1>1, <2>1, TopPopped
  <2>3. frames[Len(frames)].r \in Nat
    BY <1>1, <2>1, <2>2 DEF MachineOK
  <2>4. MachineOK'
    <3>1. lag' \in Nat
      BY <2>1, <2>3
    <3>2. \A i \in 1 .. Len(frames') :
            frames'[i].pc = "store_tick" => frames'[i].r \in Nat
      BY <1>1, <2>2 DEF MachineOK
    <3>3. QED
      BY <1>1, <1>3, <2>2, <3>1, <3>2 DEF MachineOK
  <2>5. TickInv'
    <3>1. ASSUME pc \in {"keys", "search", "simulate"}
          PROVE  1 <= todo /\ todo <= frames[Len(frames)].r
      BY <1>1, <2>1, <2>2, <3>1 DEF TickInv
    <3>2. todo \in Int
      BY <1>1 DEF MachineOK
    <3>3. ASSUME pc \in {"keys", "search", "simulate"}
          PROVE  1 <= todo /\ todo <= lag'
      BY <2>1, <2>3, <3>1, <3>2, <3>3
    <3>4. ASSUME pc \in {"keys", "search", "simulate"},
                 NEW i \in 1 .. Len(frames'), frames'[i].pc = "store_tick"
          PROVE  todo <= frames'[i].r
      BY <1>1, <2>2, <3>4 DEF TickInv
    <3>5. QED
      BY <1>3, <3>3, <3>4 DEF TickInv
  <2>6. PressInv'
    <3>1. ~Has(Len(frames))
      BY <1>4 DEF Has
    <3>2. ASSUME NEW i \in 1 .. Len(frames')
          PROVE  (Has(i) => Has(i)') /\ (KeepsCode(i) => KeepsCode(i)')
      BY <1>3, <1>4, <2>2, <3>2 DEF Has, KeepsCode
    <3>3. \A i \in 1 .. Len(frames) : i # Len(frames) => i \in 1 .. Len(frames')
      BY <2>2
    <3>4. QED
      BY <1>1, <1>3, <1>4, <2>2, <3>1, <3>2, <3>3 DEF PressInv, OnTheWay
  <2>7. QED
    BY <2>4, <2>5, <2>6 DEF IInv
<1>7. QED
  BY <1>5, <1>6

(* The keyboard's handler.                                                 *)
LEMMA KeyKeeps ==
  ASSUME IInv, ExecInst, frames # <<>>, InByte \/ SetCode \/ PressKey
  PROVE  IInv'
<1>1. MachineOK /\ TickInv /\ PressInv
  BY DEF IInv
<1>2. UNCHANGED <<i8259_intr_no, scan_code_buf, pc, todo, lag>>
  BY DEF ExecInst, HandlerStep, InByte, SetCode, PressKey
<1>3. CASE InByte
  <2>1. /\ Step("set_code", scan_code_buf) /\ scan_code_buf \in Typed \cup {NoKey}
        /\ key_code' = key_code /\ frames[Len(frames)].pc = "in_byte"
    BY <1>1, <1>3 DEF InByte, MachineOK, At, top
  <2>2. owed' = owed
    BY <2>1 DEF ExecInst, At, top
  <2>3. /\ Len(frames) \in Nat \ {0} /\ Len(frames') = Len(frames)
        /\ frames' \in Seq(Frame)
        /\ frames'[Len(frames)] = [pc |-> "set_code", r |-> scan_code_buf]
        /\ \A i \in 1 .. Len(frames) : i # Len(frames) => frames'[i] = frames[i]
    BY <1>1, <2>1, TopReplaced DEF Labels
  <2>4. MachineOK'
    BY <1>1, <1>2, <2>1, <2>3 DEF MachineOK
  <2>5. TickInv'
    BY <1>1, <1>2, <2>1, <2>3 DEF TickInv
  <2>6. PressInv'
    <3>1. ASSUME owed # NoKey
          PROVE  scan_code_buf' = owed' /\ OnTheWay'
      <4>1. Has(Len(frames))'
        BY <1>1, <2>2, <2>3, <3>1 DEF Has, PressInv
      <4>2. Len(frames) \in 1 .. Len(frames') /\ \A j \in 1 .. Len(frames') : ~(Len(frames) < j)
        BY <2>3
      <4>3. OnTheWay'
        BY <2>3, <4>1, <4>2 DEF OnTheWay
      <4>4. QED
        BY <1>1, <1>2, <2>2, <3>1, <4>3 DEF PressInv
    <3>2. QED
      BY <2>2, <3>1 DEF PressInv
  <2>7. QED
    BY <2>4, <2>5, <2>6 DEF IInv
<1>4. CASE SetCode
  <2>1. /\ Step("press_key", NoKey) /\ frames[Len(frames)].pc = "set_code"
        /\ key_code' = frames[Len(frames)].r
    BY <1>4 DEF SetCode, At, top
  <2>2. owed' = owed
    BY <2>1 DEF ExecInst, At, top
  <2>3. /\ Len(frames) \in Nat \ {0} /\ Len(frames') = Len(frames)
        /\ frames' \in Seq(Frame)
        /\ frames'[Len(frames)] = [pc |-> "press_key", r |-> NoKey]
        /\ \A i \in 1 .. Len(frames) : i # Len(frames) => frames'[i] = frames[i]
    BY <1>1, <2>1, TopReplaced DEF Labels
  <2>4. MachineOK'
    BY <1>1, <1>2, <2>1, <2>3 DEF MachineOK
  <2>5. TickInv'
    BY <1>1, <1>2, <2>1, <2>3 DEF TickInv
  <2>6. PressInv'
    <3>1. ASSUME owed # NoKey, i8259_intr_no # KeyNo
          PROVE  OnTheWay'
      <4>1. PICK i \in 1 .. Len(frames) :
              Has(i) /\ \A j \in 1 .. Len(frames) : i < j => KeepsCode(j)
        BY <1>1, <3>1 DEF PressInv, OnTheWay
      <4>2. frames[Len(frames)].r = owed
        BY <2>1, <2>3, <4>1 DEF Has, KeepsCode
      <4>3. Has(Len(frames))'
        BY <2>1, <2>2, <2>3, <4>2 DEF Has
      <4>4. Len(frames) \in 1 .. Len(frames') /\ \A j \in 1 .. Len(frames') : ~(Len(frames) < j)
        BY <2>3
      <4>5. QED
        BY <2>3, <4>3, <4>4 DEF OnTheWay
    <3>2. i8259_intr_no = KeyNo => OnTheWay'
      BY <1>2 DEF OnTheWay
    <3>3. QED
      BY <1>1, <1>2, <2>2, <3>1, <3>2 DEF PressInv
  <2>7. QED
    BY <2>4, <2>5, <2>6 DEF IInv
<1>5. CASE PressKey
  <2>1. Iret /\ frames[Len(frames)].pc = "press_key" /\ key_code' = key_code
    BY <1>5 DEF PressKey, At, top
  <2>2. owed' = IF key_code = owed THEN NoKey ELSE owed
    BY <2>1 DEF ExecInst, At, top
  <2>3. /\ Len(frames) \in Nat \ {0} /\ Len(frames') = Len(frames) - 1
        /\ frames' \in Seq(Frame)
        /\ \A i \in 1 .. Len(frames') : i \in 1 .. Len(frames) /\ i # Len(frames)
                                       /\ frames'[i] = frames[i]
    BY <1>1, <2>1, TopPopped
  <2>4. MachineOK'
    BY <1>1, <1>2, <2>1, <2>3 DEF MachineOK
  <2>5. TickInv'
    BY <1>1, <1>2, <2>1, <2>3 DEF TickInv
  <2>6. PressInv'
    <3>1. ASSUME owed' # NoKey
          PROVE  OnTheWay'
      <4>1. owed' = owed /\ key_code # owed
        BY <2>2, <3>1
      <4>2. ~Has(Len(frames))
        BY <2>1, <4>1 DEF Has
      <4>3. ASSUME NEW i \in 1 .. Len(frames')
            PROVE  (Has(i) => Has(i)') /\ (KeepsCode(i) => KeepsCode(i)')
        BY <2>1, <2>3, <4>1, <4>3 DEF Has, KeepsCode
      <4>4. \A i \in 1 .. Len(frames) : i # Len(frames) => i \in 1 .. Len(frames')
        BY <2>3
      <4>5. OnTheWay
        BY <1>1, <3>1, <4>1 DEF PressInv
      <4>6. QED
        BY <1>2, <2>3, <4>2, <4>3, <4>4, <4>5 DEF OnTheWay
    <3>2. QED
      BY <1>1, <1>2, <2>2, <3>1 DEF PressInv
  <2>7. QED
    BY <2>4, <2>5, <2>6 DEF IInv
<1>6. QED
  BY <1>3, <1>4, <1>5

(* Devices raise, whatever the loop and the handlers are doing.            *)
LEMMA DevicesKeep ==
  ASSUME IInv, Devices
  PROVE  IInv'
<1>1. MachineOK /\ TickInv /\ PressInv
  BY DEF IInv
<1>2. UNCHANGED <<frames, pc, lag, todo, key_code>>
  BY DEF Devices, clock
<1>3. PICK slot \in PollTimer(i8259_intr_no) :
        \/ i8259_intr_no' = slot /\ UNCHANGED <<scan_code_buf, owed>>
        \/ /\ \E code \in Typed \cup {NoKey} : scan_code_buf' = code /\ owed' = code
           /\ i8259_intr_no' = SlotAfterRaise(slot, KEYBOARD_IRQ)
  BY DEF Devices
<1>4. slot \in {I8259_NO_INTR, TimerNo, KeyNo} /\ (i8259_intr_no = KeyNo => slot = KeyNo)
  BY <1>1, <1>3, Raised DEF PollTimer, MachineOK
<1>5. CASE i8259_intr_no' = slot /\ UNCHANGED <<scan_code_buf, owed>>
  BY <1>1, <1>2, <1>4, <1>5
  DEF IInv, MachineOK, TickInv, PressInv, OnTheWay, Has, KeepsCode
<1>6. CASE /\ \E code \in Typed \cup {NoKey} : scan_code_buf' = code /\ owed' = code
           /\ i8259_intr_no' = SlotAfterRaise(slot, KEYBOARD_IRQ)
  <2>1. i8259_intr_no' = KeyNo
    BY <1>4, <1>6, Raised
  <2>2. QED
    BY <1>1, <1>2, <1>6, <2>1 DEF IInv, MachineOK, TickInv, PressInv, OnTheWay
<1>7. QED
  BY <1>3, <1>5, <1>6

(* A delivery enters a handler above those that are running.               *)
LEMMA DeliveryKeeps ==
  ASSUME IInv, DoIntr
  PROVE  IInv'
<1>1. MachineOK /\ TickInv /\ PressInv
  BY DEF IInv
<1>2. UNCHANGED <<pc, lag, todo, key_code, scan_code_buf, owed>>
  BY DEF DoIntr, clock
<1>3. PICK entry \in HandlerOf(i8259_intr_no) \cap {"in_byte", "load_tick"} :
        frames' = Append(frames, [pc |-> entry, r |-> NoKey])
  BY DEF DoIntr
<1>4. entry \in {"in_byte", "load_tick"} /\ entry \in Labels
  BY <1>3 DEF Labels
<1>5. /\ Len(frames) \in Nat /\ Len(frames') = Len(frames) + 1
      /\ frames' \in Seq(Frame)
      /\ frames'[Len(frames) + 1] = [pc |-> entry, r |-> NoKey]
      /\ \A i \in 1 .. Len(frames) : frames'[i] = frames[i]
  BY <1>1, <1>3, <1>4, TopPushed
<1>6. \A i \in 1 .. Len(frames') : i \in 1 .. Len(frames) \/ i = Len(frames) + 1
  BY <1>5
<1>7. frames'[Len(frames) + 1].pc \notin {"store_tick", "set_code"}
  BY <1>4, <1>5
<1>8. i8259_intr_no' = I8259_NO_INTR
  BY DEF DoIntr
<1>9. MachineOK'
  BY <1>1, <1>2, <1>5, <1>6, <1>7, <1>8 DEF MachineOK
<1>10. TickInv'
  BY <1>1, <1>2, <1>5, <1>6, <1>7 DEF TickInv
<1>11. ASSUME owed # NoKey
       PROVE  OnTheWay'
  <2>1. CASE i8259_intr_no = KeyNo
    <3>1. entry = "in_byte"
      BY <1>3, <2>1 DEF HandlerOf, KeyNo
    <3>2. Has(Len(frames))'
      BY <1>5, <3>1 DEF Has
    <3>3. Len(frames') \in 1 .. Len(frames')
          /\ \A j \in 1 .. Len(frames') : ~(Len(frames') < j)
      BY <1>5
    <3>4. QED
      BY <1>5, <3>2, <3>3 DEF OnTheWay
  <2>2. CASE i8259_intr_no # KeyNo
    <3>1. PICK i \in 1 .. Len(frames) :
            Has(i) /\ \A j \in 1 .. Len(frames) : i < j => KeepsCode(j)
      BY <1>1, <1>11, <2>2 DEF PressInv, OnTheWay
    <3>2. Has(i)' /\ i \in 1 .. Len(frames')
      BY <1>2, <1>5, <3>1 DEF Has
    <3>3. \A j \in 1 .. Len(frames') : i < j => KeepsCode(j)'
      BY <1>2, <1>5, <1>6, <1>7, <3>1 DEF KeepsCode
    <3>4. QED
      BY <3>2, <3>3 DEF OnTheWay
  <2>3. QED
    BY <2>1, <2>2
<1>12. PressInv'
  BY <1>1, <1>2, <1>11 DEF PressInv
<1>13. QED
  BY <1>9, <1>10, <1>12 DEF IInv

LEMMA Inductive == Spec => []IInv
<1>1. Init => IInv
  BY DEF Init, IInv, MachineOK, TickInv, PressInv
<1>2. IInv /\ [Next]_vars => IInv'
  <2> SUFFICES ASSUME IInv, [Next]_vars PROVE IInv'
    OBVIOUS
  <2>1. CASE ExecInst
    <3>1. CASE frames = <<>>
      BY <2>1, <3>1, MainKeeps
    <3>2. CASE frames # <<>>
      <4>1. HandlerStep
        BY <2>1, <3>2 DEF ExecInst
      <4>2. QED
        BY <2>1, <3>2, <4>1, TimerKeeps, KeyKeeps DEF HandlerStep
    <3>3. QED
      BY <3>1, <3>2
  <2>2. CASE UNCHANGED vars
    BY <2>2 DEF vars, machine, clock, IInv, MachineOK, TickInv, PressInv,
                OnTheWay, Has, KeepsCode
  <2>3. QED
    BY <2>1, <2>2, DevicesKeep, DeliveryKeeps DEF Next
<1>3. QED
  BY <1>1, <1>2, PTL DEF Spec

(* No press is lost: until the game has seen the last key that went down,  *)
(* its interrupt is pending or a handler that will see it is running,      *)
(* however timer and keyboard interrupt the loop, one another and          *)
(* themselves, up to any MaxDepth of handlers.                             *)
THEOREM PressSafe == Spec => []PressNotLost
<1>1. IInv => PressNotLost
  BY DEF IInv, PressInv, OnTheWay, Has, PressNotLost, KeyNo
<1>2. QED
  BY Inductive, <1>1, PTL

(* main_loop's assertion now < tick holds, although handlers that          *)
(* interrupt one another between load and store lose ticks, up to any      *)
(* MaxDepth of handlers.                                                   *)
THEOREM AssertHolds == Spec => []TicksBehind
<1>1. IInv => TicksBehind
  BY DEF IInv, MachineOK, TickInv, TicksBehind
<1>2. QED
  BY Inductive, <1>1, PTL
-----------------------------------------------------------------------------
(* The list template.  A set of numbers that is not empty has a least one: *)
(* what the inductions below rest on.                                      *)
LEMMA Smallest ==
  ASSUME NEW I \in SUBSET Nat, I # {}
  PROVE  \E i \in I : \A j \in I : i <= j
<1>1. PICK i \in I : \A j \in I : <<j, i>> \notin OpToRel(<, Nat)
  BY NatLessThanWellFounded, WFMin, Zenon
<1>2. \A i1, j1 \in Nat : <<i1, j1>> \in OpToRel(<, Nat) <=> i1 < j1
  BY SMT DEF OpToRel
<1>3. \A j \in I : ~(j < i)
  BY <1>1, <1>2, Zenon
<1>4. QED
  BY <1>3

LEMMA NodeIsNotNull == PoolSize \in Nat /\ (\A n \in Nodes : n # NULL /\ n \in Nat)
BY PoolAssumption DEF Nodes, NULL

(* c holds, in order, the nodes that _next leads through from `start`.     *)
Linked(p, start, c) ==
  /\ c \in Seq(Nodes)
  /\ start = IF Len(c) = 0 THEN NULL ELSE c[1]
  /\ \A i \in 1 .. Len(c) : p.next[c[i]] = IF i = Len(c) THEN NULL ELSE c[i + 1]

Distinct(c) == \A i, j \in 1 .. Len(c) : c[i] = c[j] => i = j

LEMMA WalkAlong ==
  ASSUME NEW p, NEW start, NEW c, Linked(p, start, c)
  PROVE  \A k \in 0 .. PoolSize + 1 :
           Walk(p, start)[k] = IF k < Len(c) THEN c[k + 1] ELSE NULL
<1> DEFINE Rec(f) == f = [k \in 0 .. PoolSize + 1 |->
                            IF k = 0 THEN start ELSE Following(p, f[k - 1])]
           w == [k \in 0 .. PoolSize + 1 |-> IF k < Len(c) THEN c[k + 1] ELSE NULL]
<1>1. Len(c) \in Nat /\ (\A i \in 1 .. Len(c) : c[i] \in Nodes) /\ PoolSize \in Nat
  BY PoolAssumption DEF Linked
<1>2. Rec(w)
  <2>1. ASSUME NEW k \in 0 .. PoolSize + 1
        PROVE  w[k] = IF k = 0 THEN start ELSE Following(p, w[k - 1])
    <3>1. CASE k = 0
      BY <1>1, <3>1 DEF Linked
    <3>2. CASE k # 0
      <4>1. k - 1 \in 0 .. PoolSize + 1 /\ k \in 1 .. PoolSize + 1
        BY <1>1, <3>2
      <4>2. w[k - 1] = IF k <= Len(c) THEN c[k] ELSE NULL
        BY <1>1, <4>1
      <4>3. CASE k <= Len(c)
        <5>1. c[k] # NULL /\ p.next[c[k]] = IF k = Len(c) THEN NULL ELSE c[k + 1]
          <6>1. k \in 1 .. Len(c)
            BY <1>1, <4>1, <4>3
          <6>2. QED
            BY <1>1, <6>1, NodeIsNotNull DEF Linked
        <5>2. QED
          BY <1>1, <4>1, <4>2, <4>3, <5>1 DEF Following
      <4>4. CASE ~(k <= Len(c))
        BY <1>1, <4>1, <4>2, <4>4 DEF Following
      <4>5. QED
        BY <4>3, <4>4
    <3>3. QED
      BY <3>1, <3>2
  <2>2. QED
    BY <2>1
<1>3. Walk(p, start) = CHOOSE f : Rec(f)
  BY DEF Walk
<1>4. Rec(Walk(p, start))
  BY <1>2, <1>3
<1> DEFINE bad == {k \in 0 .. PoolSize + 1 : Walk(p, start)[k] # w[k]}
<1>5. ASSUME bad # {}
      PROVE  FALSE
  <2>1. PICK k \in bad : \A j \in bad : k <= j
    <3>1. bad \in SUBSET Nat
      BY <1>1
    <3>2. QED
      BY <1>5, <3>1, Smallest
  <2>2. k # 0
    BY <1>2, <1>4
  <2>3. k - 1 \in 0 .. PoolSize + 1 /\ k - 1 \notin bad
    BY <1>1, <2>1, <2>2
  <2>4. Walk(p, start)[k] = Following(p, Walk(p, start)[k - 1])
    BY <1>4, <2>1, <2>2
  <2>5. w[k] = Following(p, w[k - 1])
    BY <1>2, <2>1, <2>2
  <2>6. QED
    BY <2>1, <2>3, <2>4, <2>5
<1>6. QED
  BY <1>5

(* Chain gives back any chain that ends.                                   *)
LEMMA ChainIs ==
  ASSUME NEW p, NEW start, NEW c, Linked(p, start, c), Len(c) <= PoolSize + 1
  PROVE  Chain(p, start) = c
<1> DEFINE steps == {k \in 0 .. PoolSize + 1 : Walk(p, start)[k] # NULL}
<1>1. c \in Seq(Nodes) /\ Len(c) \in Nat /\ PoolSize \in Nat
  BY PoolAssumption DEF Linked
<1>2. \A k \in 0 .. PoolSize + 1 :
        Walk(p, start)[k] = IF k < Len(c) THEN c[k + 1] ELSE NULL
  BY WalkAlong
<1>3. steps = 0 .. Len(c) - 1
  <2>1. ASSUME NEW k \in 0 .. PoolSize + 1, k < Len(c)
        PROVE  Walk(p, start)[k] # NULL
    <3>1. Walk(p, start)[k] = c[k + 1] /\ k + 1 \in 1 .. Len(c)
      BY <1>1, <1>2, <2>1
    <3>2. QED
      BY <1>1, <3>1, NodeIsNotNull
  <2>2. ASSUME NEW k \in 0 .. PoolSize + 1, ~(k < Len(c))
        PROVE  Walk(p, start)[k] = NULL
    BY <1>2, <2>2
  <2>3. QED
    BY <1>1, <2>1, <2>2
<1>4. Cardinality(steps) = Len(c)
  <2>1. 0 \in Int /\ Len(c) - 1 \in Int
    BY <1>1
  <2>2. Cardinality(0 .. Len(c) - 1) = IF 0 > Len(c) - 1 THEN 0 ELSE (Len(c) - 1) - 0 + 1
    BY <2>1, FS_Interval
  <2>3. Cardinality(0 .. Len(c) - 1) = Len(c)
    BY <1>1, <2>2
  <2>4. QED
    BY <1>3, <2>3
<1>5. Chain(p, start) = [k \in 1 .. Len(c) |-> Walk(p, start)[k - 1]]
  BY <1>4 DEF Chain
<1>6. \A k \in 1 .. Len(c) : Walk(p, start)[k - 1] = c[k]
  <2>1. ASSUME NEW k \in 1 .. Len(c)
        PROVE  Walk(p, start)[k - 1] = c[k]
    <3>1. k - 1 \in 0 .. PoolSize + 1 /\ k - 1 < Len(c) /\ (k - 1) + 1 = k
      BY <1>1
    <3>2. Walk(p, start)[k - 1] = c[(k - 1) + 1]
      BY <1>2, <3>1
    <3>3. QED
      BY <3>1, <3>2
  <2>2. QED
    BY <2>1
<1>7. c = [k \in 1 .. Len(c) |-> c[k]]
  BY <1>1
<1>8. QED
  BY <1>5, <1>6, <1>7

Of(c) == {c[i] : i \in 1 .. Len(c)}

(* Sequences with a node put in front, the first one or the i-th left out. *)
Cons(n, c)    == [k \in 1 .. Len(c) + 1 |-> IF k = 1 THEN n ELSE c[k - 1]]
Rest(c)       == [k \in 1 .. Len(c) - 1 |-> c[k + 1]]
Without(c, i) == [k \in 1 .. Len(c) - 1 |-> IF k < i THEN c[k] ELSE c[k + 1]]

LEMMA ConsIs ==
  ASSUME NEW n \in Nodes, NEW c \in Seq(Nodes)
  PROVE  /\ Cons(n, c) \in Seq(Nodes) /\ Len(Cons(n, c)) = Len(c) + 1
         /\ Cons(n, c)[1] = n
         /\ \A k \in 2 .. Len(c) + 1 : Cons(n, c)[k] = c[k - 1]
         /\ Of(Cons(n, c)) = Of(c) \cup {n}
<1> DEFINE d == Cons(n, c)
<1>1. Len(c) \in Nat /\ \A k \in 1 .. Len(c) : c[k] \in Nodes
  OBVIOUS
<1>2. \A k \in 1 .. Len(c) + 1 : d[k] = IF k = 1 THEN n ELSE c[k - 1]
  BY DEF Cons
<1>3. d[1] = n /\ \A k \in 2 .. Len(c) + 1 : d[k] = c[k - 1]
  BY <1>1, <1>2
<1>4. \A k \in 1 .. Len(c) + 1 : d[k] \in Nodes
  <2>1. \A k \in 1 .. Len(c) + 1 : k = 1 \/ k - 1 \in 1 .. Len(c)
    BY <1>1
  <2>2. QED
    BY <1>1, <1>2, <2>1
<1>5. d \in Seq(Nodes) /\ Len(d) = Len(c) + 1
  <2>1. d = [k \in 1 .. Len(c) + 1 |-> d[k]] /\ Len(c) + 1 \in Nat
    BY <1>1 DEF Cons
  <2> HIDE DEF d
  <2>2. d \in [1 .. Len(c) + 1 -> Nodes]
    BY <1>4, <2>1
  <2>3. QED
    BY <2>1, <2>2
<1>6. Of(d) = Of(c) \cup {n}
  <2>1. ASSUME NEW k \in 1 .. Len(d)
        PROVE  d[k] \in Of(c) \cup {n}
    <3>1. k = 1 \/ k - 1 \in 1 .. Len(c)
      BY <1>1, <1>5
    <3>2. QED
      BY <1>2, <1>5, <3>1 DEF Of
  <2>2. ASSUME NEW k \in 1 .. Len(c)
        PROVE  c[k] \in Of(d)
    <3>1. k + 1 \in 1 .. Len(d) /\ k + 1 \in 2 .. Len(c) + 1 /\ (k + 1) - 1 = k
      BY <1>1, <1>5
    <3>2. d[k + 1] = c[k]
      BY <1>3, <3>1
    <3>3. QED
      BY <3>1, <3>2 DEF Of
  <2>3. n \in Of(d)
    <3>1. 1 \in 1 .. Len(d)
      BY <1>1, <1>5
    <3>2. QED
      BY <1>3, <3>1 DEF Of
  <2> HIDE DEF d
  <2>4. QED
    BY <2>1, <2>2, <2>3 DEF Of
<1>7. QED
  BY <1>3, <1>5, <1>6

LEMMA WithoutIs ==
  ASSUME NEW c \in Seq(Nodes), NEW i \in 1 .. Len(c), Distinct(c)
  PROVE  /\ Without(c, i) \in Seq(Nodes) /\ Len(Without(c, i)) = Len(c) - 1
         /\ \A k \in 1 .. Len(c) - 1 :
              Without(c, i)[k] = IF k < i THEN c[k] ELSE c[k + 1]
         /\ Distinct(Without(c, i))
         /\ Of(Without(c, i)) = Of(c) \ {c[i]}
<1> DEFINE d == Without(c, i)
<1>1. Len(c) \in Nat \ {0} /\ \A k \in 1 .. Len(c) : c[k] \in Nodes
  OBVIOUS
<1>2. \A k \in 1 .. Len(c) - 1 : d[k] = IF k < i THEN c[k] ELSE c[k + 1]
  BY DEF Without
<1>3. \A k \in 1 .. Len(c) - 1 : k \in 1 .. Len(c) /\ k + 1 \in 1 .. Len(c)
  BY <1>1
<1>4. d \in Seq(Nodes) /\ Len(d) = Len(c) - 1
  <2>1. d = [k \in 1 .. Len(c) - 1 |-> d[k]] /\ Len(c) - 1 \in Nat
    BY <1>1 DEF Without
  <2>2. \A k \in 1 .. Len(c) - 1 : d[k] \in Nodes
    BY <1>1, <1>2, <1>3
  <2> HIDE DEF d
  <2>3. d \in [1 .. Len(c) - 1 -> Nodes]
    BY <2>1, <2>2
  <2>4. QED
    BY <2>1, <2>3
<1>5. Distinct(d)
  <2>1. ASSUME NEW k \in 1 .. Len(c) - 1, NEW m \in 1 .. Len(c) - 1, d[k] = d[m]
        PROVE  k = m
    <3>1. (IF k < i THEN k ELSE k + 1) = (IF m < i THEN m ELSE m + 1)
      BY <1>2, <1>3, <2>1 DEF Distinct
    <3>2. QED
      BY <1>1, <3>1
  <2> HIDE DEF d
  <2>2. QED
    BY <1>4, <2>1 DEF Distinct
<1>6. Of(d) = Of(c) \ {c[i]}
  <2>1. ASSUME NEW k \in 1 .. Len(c) - 1
        PROVE  d[k] \in Of(c) /\ d[k] # c[i]
    <3>1. CASE k < i
      BY <1>2, <1>3, <3>1 DEF Of, Distinct
    <3>2. CASE ~(k < i)
      <4>1. k + 1 # i /\ k + 1 \in 1 .. Len(c)
        BY <1>1, <3>2
      <4>2. QED
        BY <1>2, <3>2, <4>1 DEF Of, Distinct
    <3>3. QED
      BY <3>1, <3>2
  <2>2. ASSUME NEW k \in 1 .. Len(c), c[k] # c[i]
        PROVE  c[k] \in Of(d)
    <3>1. CASE k < i
      <4>1. k \in 1 .. Len(d)
        BY <1>1, <1>4, <3>1
      <4>2. QED
        BY <1>2, <1>4, <3>1, <4>1 DEF Of
    <3>2. CASE ~(k < i)
      <4>1. k - 1 \in 1 .. Len(d) /\ ~(k - 1 < i) /\ (k - 1) + 1 = k
        BY <1>1, <1>4, <2>2, <3>2
      <4>2. d[k - 1] = c[k]
        BY <1>2, <1>4, <4>1
      <4>3. QED
        BY <4>1, <4>2 DEF Of
    <3>3. QED
      BY <3>1, <3>2
  <2> HIDE DEF d
  <2>3. QED
    BY <1>4, <2>1, <2>2 DEF Of
<1>7. QED
  BY <1>2, <1>4, <1>5, <1>6

LEMMA RestIs ==
  ASSUME NEW c \in Seq(Nodes), Len(c) > 0, Distinct(c)
  PROVE  /\ Rest(c) \in Seq(Nodes) /\ Len(Rest(c)) = Len(c) - 1
         /\ \A k \in 1 .. Len(c) - 1 : Rest(c)[k] = c[k + 1]
         /\ Distinct(Rest(c))
         /\ Of(Rest(c)) = Of(c) \ {c[1]}
<1>1. Len(c) \in Nat /\ 1 \in 1 .. Len(c)
  OBVIOUS
<1>2. Rest(c) = Without(c, 1)
  <2>1. \A k \in 1 .. Len(c) - 1 : ~(k < 1)
    BY <1>1
  <2>2. QED
    BY <2>1 DEF Rest, Without
<1>3. \A k \in 1 .. Len(c) - 1 : Rest(c)[k] = c[k + 1]
  BY DEF Rest
<1>4. QED
  BY <1>1, <1>2, <1>3, WithoutIs

(* A pool in use: u holds the list from h, f the free list.                *)
Lists(p, h, u, f) ==
  /\ p \in Pools
  /\ Linked(p, h, u) /\ Linked(p, p.free, f)
  /\ Distinct(u) /\ Distinct(f)
  /\ Of(u) \cap Of(f) = {}
  /\ Of(u) \cup Of(f) = Nodes
  /\ \A i \in 1 .. Len(u) : p.prev[u[i]] = IF i = 1 THEN NULL ELSE u[i - 1]

LEMMA ShortList ==
  ASSUME NEW c \in Seq(Nodes), Distinct(c)
  PROVE  Len(c) <= PoolSize + 1
<1>1. Len(c) \in Nat /\ PoolSize \in Nat
  BY NodeIsNotNull
<1>2. c \in [1 .. Len(c) -> Nodes]
  OBVIOUS
<1>3. c \in Injection(1 .. Len(c), Nodes)
  BY <1>2 DEF Injection, IsInjective, Distinct
<1>4. IsFiniteSet(Nodes) /\ Cardinality(Nodes) = PoolSize + 1
  BY <1>1, FS_Interval DEF Nodes
<1>5. Cardinality(1 .. Len(c)) = Len(c)
  <2>1. \A m \in Nat : Cardinality(1 .. m) = m
    BY FS_Interval
  <2>2. QED
    BY <1>1, <2>1
<1>6. Cardinality(1 .. Len(c)) <= Cardinality(Nodes)
  BY <1>3, <1>4, FS_Injection
<1>7. QED
  BY <1>4, <1>5, <1>6

LEMMA ListsAreChains ==
  ASSUME NEW p, NEW h, NEW u, NEW f, Lists(p, h, u, f)
  PROVE  /\ Chain(p, h) = u /\ Chain(p, p.free) = f
         /\ On(p, h) = Of(u)
         /\ Len(u) <= PoolSize + 1 /\ Len(f) <= PoolSize + 1
<1>1. Linked(p, h, u) /\ Linked(p, p.free, f) /\ Distinct(u) /\ Distinct(f)
  BY DEF Lists
<1>2. u \in Seq(Nodes) /\ f \in Seq(Nodes)
  BY <1>1 DEF Linked
<1>3. Len(u) <= PoolSize + 1 /\ Len(f) <= PoolSize + 1
  BY <1>1, <1>2, ShortList
<1>4. Chain(p, h) = u /\ Chain(p, p.free) = f
  BY <1>1, <1>3, ChainIs
<1>5. On(p, h) = Of(u)
  <2>1. DOMAIN u = 1 .. Len(u)
    BY <1>2
  <2>2. QED
    BY <1>4, <2>1 DEF On, Of
<1>6. QED
  BY <1>3, <1>4, <1>5

(* The first call of new() chains the whole pool.                          *)
LEMMA FirstChained ==
  ASSUME NEW p, p = ZeroPool
  PROVE  \E f : /\ Lists(Chained(p), NULL, <<>>, f) /\ Len(f) = PoolSize + 1
                /\ Chained(p).free # NULL
<1> DEFINE f == [k \in 1 .. PoolSize + 1 |-> k - 1]
           q == Chained(p)
<1>1. PoolSize \in Nat \ {0} /\ (\A n \in Nodes : n # NULL /\ n \in Nat)
  BY NodeIsNotNull, PoolAssumption
<1>2. /\ q.free = 0 /\ q.prev = [n \in Nodes |-> NULL]
      /\ q.next = [n \in Nodes |-> IF n < PoolSize THEN n + 1 ELSE NULL]
      /\ q = [next |-> q.next, prev |-> q.prev, free |-> q.free]
  BY DEF Chained, ZeroPool
<1>3. /\ f \in Seq(Nodes) /\ Len(f) = PoolSize + 1
      /\ \A k \in 1 .. PoolSize + 1 : f[k] = k - 1 /\ f[k] \in Nodes
  <2>1. \A k \in 1 .. PoolSize + 1 : k - 1 \in Nodes
    BY <1>1 DEF Nodes
  <2>2. f \in [1 .. PoolSize + 1 -> Nodes] /\ PoolSize + 1 \in Nat
    BY <1>1, <2>1
  <2>3. QED
    BY <1>1, <2>1, <2>2
<1>4. q \in Pools
  <2>1. q.next \in [Nodes -> Nodes \cup {NULL}]
    <3>1. \A n \in Nodes : n < PoolSize => n + 1 \in Nodes
      BY <1>1 DEF Nodes
    <3>2. QED
      BY <1>2, <3>1
  <2>2. q.free \in Nodes
    BY <1>1, <1>2 DEF Nodes
  <2>3. QED
    BY <1>2, <2>1, <2>2 DEF Pools
<1>5. Linked(q, q.free, f)
  <2>1. ASSUME NEW i \in 1 .. PoolSize + 1
        PROVE  q.next[f[i]] = IF i = PoolSize + 1 THEN NULL ELSE f[i + 1]
    <3>1. q.next[f[i]] = IF i - 1 < PoolSize THEN (i - 1) + 1 ELSE NULL
      BY <1>2, <1>3
    <3>2. i # PoolSize + 1 => i + 1 \in 1 .. PoolSize + 1 /\ i - 1 < PoolSize
      BY <1>1
    <3>3. i = PoolSize + 1 => ~(i - 1 < PoolSize)
      BY <1>1
    <3>4. i # PoolSize + 1 => f[i + 1] = (i - 1) + 1
      BY <1>1, <1>3, <3>2
    <3>5. QED
      BY <3>1, <3>2, <3>3, <3>4
  <2>2. f[1] = 0
    BY <1>1, <1>3
  <2> HIDE DEF f, q
  <2>3. QED
    BY <1>1, <1>2, <1>3, <2>1, <2>2 DEF Linked
<1>6. Distinct(f)
  <2> HIDE DEF f
  <2>1. QED
    BY <1>3 DEF Distinct
<1>7. Of(f) = Nodes
  <2>1. ASSUME NEW n \in Nodes
        PROVE  n \in Of(f)
    <3>1. n + 1 \in 1 .. PoolSize + 1 /\ (n + 1) - 1 = n
      BY <1>1 DEF Nodes
    <3>2. f[n + 1] = n /\ n + 1 \in 1 .. Len(f)
      BY <1>3, <3>1
    <3>3. QED
      BY <3>2 DEF Of
  <2> HIDE DEF f
  <2>2. QED
    BY <1>3, <2>1 DEF Of
<1>8. /\ <<>> \in Seq(Nodes) /\ Len(<<>>) = 0 /\ Of(<<>>) = {}
      /\ Distinct(<<>>) /\ Linked(q, NULL, <<>>)
  BY DEF Of, Distinct, Linked
<1>9. Lists(q, NULL, <<>>, f)
  <2>1. \A i \in 1 .. Len(<<>>) : FALSE
    BY <1>8
  <2> HIDE DEF f, q
  <2>2. QED
    BY <1>4, <1>5, <1>6, <1>7, <1>8, <2>1 DEF Lists
<1>10. QED
  <2>1. q.free # NULL
    BY <1>2 DEF NULL
  <2> HIDE DEF f
  <2>2. QED
    BY <1>3, <1>9, <2>1

(* A node moves from the front of the free list to the front of the list.  *)
LEMMA NodeTaken ==
  ASSUME NEW p, NEW h, NEW u, NEW f, Lists(p, h, u, f), Len(f) > 0,
         NEW q \in Pools, q.free = p.next[p.free],
         \A m \in Nodes : q.next[m] = IF m = p.free THEN h ELSE p.next[m],
         \A m \in Nodes : q.prev[m] = IF m = p.free THEN NULL
                                      ELSE IF m = h THEN p.free ELSE p.prev[m]
  PROVE  Lists(q, p.free, Cons(p.free, u), Rest(f))
<1> DEFINE n == f[1]
           v == Cons(n, u)
           g == Rest(f)
<1>1. /\ Linked(p, h, u) /\ Linked(p, p.free, f) /\ Distinct(u) /\ Distinct(f)
      /\ Of(u) \cap Of(f) = {} /\ Of(u) \cup Of(f) = Nodes
      /\ \A i \in 1 .. Len(u) : p.prev[u[i]] = IF i = 1 THEN NULL ELSE u[i - 1]
  BY DEF Lists
<1>2. /\ u \in Seq(Nodes) /\ Len(u) \in Nat /\ \A i \in 1 .. Len(u) : u[i] \in Nodes
      /\ f \in Seq(Nodes) /\ Len(f) \in Nat /\ \A i \in 1 .. Len(f) : f[i] \in Nodes
  BY <1>1 DEF Linked
<1>3. p.free = n /\ n \in Nodes /\ 1 \in 1 .. Len(f) /\ n \in Of(f)
  BY <1>1, <1>2 DEF Linked, Of
<1>4. /\ v \in Seq(Nodes) /\ Len(v) = Len(u) + 1 /\ v[1] = n
      /\ \A k \in 2 .. Len(u) + 1 : v[k] = u[k - 1]
      /\ Of(v) = Of(u) \cup {n}
  <2> HIDE DEF n
  <2>1. u \in Seq(Nodes) /\ n \in Nodes
    BY <1>2, <1>3
  <2>2. QED
    BY <2>1, ConsIs
<1>5. /\ g \in Seq(Nodes) /\ Len(g) = Len(f) - 1
      /\ \A k \in 1 .. Len(f) - 1 : g[k] = f[k + 1]
      /\ Distinct(g) /\ Of(g) = Of(f) \ {n}
  BY <1>1, <1>2, RestIs
<1>6. \A i \in 1 .. Len(u) : u[i] # n /\ u[i] \in Of(u)
  BY <1>1, <1>3 DEF Of
<1> HIDE DEF n, v, g
<1>7. Linked(q, n, v)
  <2>1. h = IF Len(u) = 0 THEN NULL ELSE u[1]
    BY <1>1 DEF Linked
  <2>2. q.next[v[1]] = IF 1 = Len(v) THEN NULL ELSE v[2]
    <3>1. q.next[v[1]] = h
      BY <1>3, <1>4
    <3>2. Len(u) # 0 => v[2] = u[1]
      <4>1. Len(u) # 0 => 2 \in 2 .. Len(u) + 1
        BY <1>2
      <4>2. QED
        BY <1>4, <4>1
    <3>3. QED
      BY <1>2, <1>4, <2>1, <3>1, <3>2
  <2>3. ASSUME NEW i \in 2 .. Len(v)
        PROVE  q.next[v[i]] = IF i = Len(v) THEN NULL ELSE v[i + 1]
    <3>1. i - 1 \in 1 .. Len(u) /\ v[i] = u[i - 1]
      <4>1. Len(u) \in Nat /\ Len(v) = Len(u) + 1
        BY <1>2, <1>4
      <4>2. i \in 2 .. Len(u) + 1 /\ i - 1 \in 1 .. Len(u)
        BY <4>1
      <4>3. QED
        BY <1>4, <4>2
    <3>2. q.next[v[i]] = p.next[u[i - 1]]
      BY <1>2, <1>3, <1>6, <3>1
    <3>3. p.next[u[i - 1]] = IF i - 1 = Len(u) THEN NULL ELSE u[(i - 1) + 1]
      BY <1>1, <3>1 DEF Linked
    <3>4. i # Len(v) => v[i + 1] = u[i]
      <4>1. i # Len(v) => i + 1 \in 2 .. Len(u) + 1 /\ (i + 1) - 1 = i
        BY <1>2, <1>4
      <4>2. QED
        BY <1>4, <4>1
    <3>5. i - 1 = Len(u) <=> i = Len(v)
      BY <1>2, <1>4
    <3>6. (i - 1) + 1 = i
      OBVIOUS
    <3>7. QED
      BY <3>2, <3>3, <3>4, <3>5, <3>6
  <2>4. \A i \in 1 .. Len(v) : i = 1 \/ i \in 2 .. Len(v)
    BY <1>2, <1>4
  <2>5. Len(v) # 0
    BY <1>2, <1>4
  <2>6. QED
    BY <1>4, <2>2, <2>3, <2>4, <2>5 DEF Linked
<1>8. Linked(q, q.free, g)
  <2>1. q.free = IF Len(g) = 0 THEN NULL ELSE g[1]
    <3>1. q.free = IF 1 = Len(f) THEN NULL ELSE f[1 + 1]
      <4>1. p.next[f[1]] = IF 1 = Len(f) THEN NULL ELSE f[1 + 1]
        BY <1>1, <1>3 DEF Linked
      <4>2. q.free = p.next[f[1]]
        BY <1>1, <1>3 DEF n
      <4>3. QED
        BY <4>1, <4>2
    <3>2. Len(f) # 1 => g[1] = f[1 + 1]
      BY <1>2, <1>3, <1>5
    <3>3. QED
      BY <1>2, <1>5, <3>1, <3>2
  <2>2. ASSUME NEW i \in 1 .. Len(g)
        PROVE  q.next[g[i]] = IF i = Len(g) THEN NULL ELSE g[i + 1]
    <3>1. i + 1 \in 1 .. Len(f) /\ g[i] = f[i + 1] /\ f[i + 1] \in Nodes
      BY <1>2, <1>5
    <3>2. f[i + 1] # n
      BY <1>1, <1>2, <1>3, <3>1 DEF Distinct, n
    <3>3. q.next[g[i]] = IF i + 1 = Len(f) THEN NULL ELSE f[(i + 1) + 1]
      <4>1. p.next[f[i + 1]] = IF i + 1 = Len(f) THEN NULL ELSE f[(i + 1) + 1]
        BY <1>1, <3>1 DEF Linked
      <4>2. q.next[f[i + 1]] = p.next[f[i + 1]]
        BY <1>3, <3>1, <3>2
      <4>3. QED
        BY <3>1, <4>1, <4>2
    <3>4. i # Len(g) => g[i + 1] = f[(i + 1) + 1]
      <4>1. i # Len(g) => i + 1 \in 1 .. Len(f) - 1
        BY <1>2, <1>5
      <4>2. QED
        BY <1>5, <4>1
    <3>5. i + 1 = Len(f) <=> i = Len(g)
      BY <1>2, <1>5
    <3>6. QED
      BY <3>3, <3>4, <3>5
  <2>3. QED
    BY <1>5, <2>1, <2>2 DEF Linked
<1>9. Distinct(v)
  <2>1. ASSUME NEW i \in 2 .. Len(v), NEW j \in 2 .. Len(v), v[i] = v[j]
        PROVE  i = j
    <3>1. i - 1 \in 1 .. Len(u) /\ j - 1 \in 1 .. Len(u) /\ u[i - 1] = u[j - 1]
      BY <1>2, <1>4, <2>1
    <3>2. i - 1 = j - 1
      BY <1>1, <3>1 DEF Distinct
    <3>3. QED
      BY <3>2
  <2>2. ASSUME NEW i \in 2 .. Len(v)
        PROVE  v[i] # v[1]
    <3>1. i - 1 \in 1 .. Len(u) /\ v[i] = u[i - 1]
      <4>1. Len(u) \in Nat /\ Len(v) = Len(u) + 1
        BY <1>2, <1>4
      <4>2. i \in 2 .. Len(u) + 1 /\ i - 1 \in 1 .. Len(u)
        BY <4>1
      <4>3. QED
        BY <1>4, <4>2
    <3>2. QED
      BY <1>4, <1>6, <3>1
  <2>3. \A i \in 1 .. Len(v) : i = 1 \/ i \in 2 .. Len(v)
    BY <1>2, <1>4
  <2>4. QED
    BY <2>1, <2>2, <2>3 DEF Distinct
<1>10. Of(v) \cap Of(g) = {} /\ Of(v) \cup Of(g) = Nodes
  BY <1>1, <1>3, <1>4, <1>5
<1>11. ASSUME NEW i \in 1 .. Len(v)
       PROVE  q.prev[v[i]] = IF i = 1 THEN NULL ELSE v[i - 1]
  <2>1. CASE i = 1
    BY <1>3, <1>4, <2>1
  <2>2. CASE i = 2
    <3>1. 1 \in 1 .. Len(u) /\ v[2] = u[1] /\ h = u[1] /\ 2 - 1 = 1
      BY <1>1, <1>2, <1>4, <2>2 DEF Linked
    <3>2. q.prev[v[2]] = n
      BY <1>2, <1>3, <1>6, <3>1
    <3>3. QED
      BY <1>4, <2>2, <3>1, <3>2
  <2>3. CASE i > 2
    <3>1. /\ i - 1 \in 1 .. Len(u) /\ i - 1 # 1 /\ 1 \in 1 .. Len(u)
          /\ i \in 2 .. Len(u) + 1 /\ i - 1 \in 2 .. Len(u) + 1
      BY <1>2, <1>4, <2>3
    <3>2. v[i] = u[i - 1] /\ v[i - 1] = u[(i - 1) - 1]
      BY <1>4, <3>1
    <3>3. h = u[1] /\ u[i - 1] # u[1]
      BY <1>1, <1>2, <3>1 DEF Linked, Distinct
    <3>4. q.prev[v[i]] = p.prev[u[i - 1]]
      BY <1>2, <1>3, <1>6, <3>1, <3>2, <3>3
    <3>5. QED
      BY <1>1, <3>1, <3>2, <3>4, <2>3
  <2>4. QED
    BY <1>2, <1>4, <2>1, <2>2, <2>3
<1>12. Lists(q, n, v, g)
  BY <1>1, <1>5, <1>7, <1>8, <1>9, <1>10, <1>11 DEF Lists
<1>13. QED
  BY <1>3, <1>12 DEF v, g, n

(* A node leaves the list, wherever it is, for the front of the free list. *)
LEMMA NodeGone ==
  ASSUME NEW p, NEW h, NEW u, NEW f, Lists(p, h, u, f), NEW i \in 1 .. Len(u),
         NEW q, q = AfterFree(AfterRemove(p, u[i]), u[i])
  PROVE  Lists(q, IF u[i] = h THEN p.next[u[i]] ELSE h, Without(u, i), Cons(u[i], f))
<1> DEFINE n == u[i]
           v == Without(u, i)
           g == Cons(n, f)
           pv == p.prev[n]
           nx == p.next[n]
<1>1. /\ Linked(p, h, u) /\ Linked(p, p.free, f) /\ Distinct(u) /\ Distinct(f)
      /\ Of(u) \cap Of(f) = {} /\ Of(u) \cup Of(f) = Nodes
      /\ \A k \in 1 .. Len(u) : p.prev[u[k]] = IF k = 1 THEN NULL ELSE u[k - 1]
      /\ p \in Pools
  BY DEF Lists
<1>2. /\ u \in Seq(Nodes) /\ Len(u) \in Nat /\ \A k \in 1 .. Len(u) : u[k] \in Nodes
      /\ f \in Seq(Nodes) /\ Len(f) \in Nat /\ \A k \in 1 .. Len(f) : f[k] \in Nodes
  BY <1>1 DEF Linked
<1>3. n \in Nodes /\ n \in Of(u) /\ NULL \notin Nodes
  BY <1>2, NodeIsNotNull DEF Of
<1>4. /\ v \in Seq(Nodes) /\ Len(v) = Len(u) - 1
      /\ \A k \in 1 .. Len(u) - 1 : v[k] = IF k < i THEN u[k] ELSE u[k + 1]
      /\ Distinct(v) /\ Of(v) = Of(u) \ {n}
  BY <1>1, <1>2, WithoutIs
<1>5. /\ g \in Seq(Nodes) /\ Len(g) = Len(f) + 1 /\ g[1] = n
      /\ \A k \in 2 .. Len(f) + 1 : g[k] = f[k - 1]
      /\ Of(g) = Of(f) \cup {n}
  <2> HIDE DEF n
  <2>1. QED
    BY <1>2, <1>3, ConsIs
<1>6. /\ pv = IF i = 1 THEN NULL ELSE u[i - 1]
      /\ nx = IF i = Len(u) THEN NULL ELSE u[i + 1]
      /\ pv \in Nodes \cup {NULL} /\ nx \in Nodes \cup {NULL}
  BY <1>1, <1>3 DEF Linked, Pools
<1>7. \A k \in 1 .. Len(f) : f[k] # n /\ f[k] # pv
  <2>1. \A k \in 1 .. Len(f) : f[k] \in Of(f)
    BY DEF Of
  <2>2. pv = NULL \/ pv \in Of(u)
    BY <1>2, <1>6 DEF Of
  <2>3. QED
    BY <1>1, <1>2, <1>3, <2>1, <2>2
<1>8. /\ q \in Pools /\ q.free = n
      /\ \A m \in Nodes : q.next[m] = IF m = n THEN p.free
                                      ELSE IF m = pv THEN nx ELSE p.next[m]
      /\ \A m \in Nodes : m # n => q.prev[m] = IF m = nx THEN pv ELSE p.prev[m]
  <2> DEFINE r == AfterRemove(p, n)
  <2> HIDE DEF n
  <2>1. /\ p.next \in [Nodes -> Nodes \cup {NULL}]
        /\ p.prev \in [Nodes -> Nodes \cup {NULL}]
        /\ p.free \in Nodes \cup {NULL}
        /\ p = [next |-> p.next, prev |-> p.prev, free |-> p.free]
    BY <1>1 DEF Pools
  <2>2. /\ r.next = Point(p.next, pv, nx) /\ r.prev = Point(p.prev, nx, pv)
        /\ r.free = p.free
    BY <2>1 DEF AfterRemove
  <2>3. /\ r.next \in [Nodes -> Nodes \cup {NULL}]
        /\ \A m \in Nodes : r.next[m] = IF m = pv THEN nx ELSE p.next[m]
    BY <1>3, <1>6, <2>1, <2>2 DEF Point
  <2>4. /\ r.prev \in [Nodes -> Nodes \cup {NULL}]
        /\ \A m \in Nodes : r.prev[m] = IF m = nx THEN pv ELSE p.prev[m]
    BY <1>3, <1>6, <2>1, <2>2 DEF Point
  <2>5. q = [next |-> [r.next EXCEPT ![n] = r.free],
             prev |-> [r.prev EXCEPT ![n] = NULL], free |-> n]
    BY DEF AfterFree, n
  <2> HIDE DEF r, pv, nx
  <2>6. q \in Pools
    BY <1>3, <2>1, <2>2, <2>3, <2>4, <2>5 DEF Pools
  <2>7. QED
    BY <1>3, <2>2, <2>3, <2>4, <2>5, <2>6
<1> HIDE DEF v, g
<1>9. ASSUME NEW k \in 1 .. Len(v)
      PROVE  /\ v[k] \in Nodes /\ v[k] # n
             /\ q.next[v[k]] = IF k = Len(v) THEN NULL ELSE v[k + 1]
             /\ q.prev[v[k]] = IF k = 1 THEN NULL ELSE v[k - 1]
  <2>1. k \in 1 .. Len(u) /\ k + 1 \in 1 .. Len(u) /\ k \in 1 .. Len(u) - 1
    BY <1>2, <1>4
  <2>2. k # Len(v) => k + 1 \in 1 .. Len(u) - 1 /\ k + 2 \in 1 .. Len(u)
    BY <1>2, <1>4
  <2>3. k # 1 => k - 1 \in 1 .. Len(u) - 1
    BY <1>2, <1>4
  <2>4. \A a, b \in 1 .. Len(u) : u[a] = u[b] => a = b
    BY <1>1 DEF Distinct
  <2>5. CASE k < i
    <3>1. v[k] = u[k] /\ k # i
      BY <1>4, <2>1, <2>5
    <3>2. v[k] # n /\ v[k] \in Nodes
      BY <1>2, <2>1, <2>4, <3>1
    <3>3. q.prev[v[k]] = IF k = 1 THEN NULL ELSE v[k - 1]
      <4>1. v[k] # nx
        BY <1>2, <1>3, <1>6, <2>1, <2>4, <2>5, <3>1, <3>2
      <4>2. q.prev[v[k]] = IF k = 1 THEN NULL ELSE u[k - 1]
        <5>1. p.prev[u[k]] = IF k = 1 THEN NULL ELSE u[k - 1]
          BY <1>1, <2>1
        <5>2. q.prev[v[k]] = p.prev[v[k]]
          BY <1>8, <3>2, <4>1
        <5>3. QED
          BY <3>1, <5>1, <5>2
      <4>3. k # 1 => v[k - 1] = u[k - 1]
        BY <1>4, <2>3, <2>5
      <4>4. QED
        BY <4>2, <4>3
    <3>4. CASE k = i - 1
      <4>1. i # 1 /\ u[i - 1] = u[k]
        BY <1>2, <2>1, <3>4
      <4>2. q.next[v[k]] = nx
        BY <1>6, <1>8, <3>1, <3>2, <4>1
      <4>3. k = Len(v) <=> i = Len(u)
        BY <1>2, <1>4, <3>4
      <4>4. k # Len(v) => v[k + 1] = u[i + 1]
        <5>1. k # Len(v) => ~(k + 1 < i) /\ (k + 1) + 1 = i + 1
          BY <3>4
        <5>2. QED
          BY <1>4, <2>2, <5>1
      <4>5. QED
        BY <1>6, <3>2, <3>3, <4>2, <4>3, <4>4
    <3>5. CASE k # i - 1
      <4>1. v[k] # pv
        <5>1. i # 1 => i - 1 \in 1 .. Len(u)
          BY <1>2
        <5>2. QED
          BY <1>3, <1>6, <2>1, <2>4, <3>1, <3>2, <3>5, <5>1
      <4>2. q.next[v[k]] = p.next[u[k]]
        BY <1>8, <3>1, <3>2, <4>1
      <4>3. k # Len(u) /\ k # Len(v) /\ k + 1 < i
        BY <1>2, <1>4, <2>1, <2>5, <3>5
      <4>4. p.next[u[k]] = u[k + 1]
        BY <1>1, <2>1, <4>3 DEF Linked
      <4>5. v[k + 1] = u[k + 1]
        BY <1>4, <2>2, <4>3
      <4>6. QED
        BY <3>2, <3>3, <4>2, <4>3, <4>4, <4>5
    <3>6. QED
      BY <3>4, <3>5
  <2>6. CASE ~(k < i)
    <3>1. v[k] = u[k + 1] /\ k + 1 # i
      BY <1>2, <1>4, <2>1, <2>6
    <3>2. v[k] # n /\ v[k] \in Nodes
      BY <1>2, <2>1, <2>4, <3>1
    <3>3. v[k] # pv
      <4>1. i # 1 => i - 1 \in 1 .. Len(u) /\ i - 1 # k + 1
        BY <1>2, <2>6
      <4>2. QED
        BY <1>3, <1>6, <2>1, <2>4, <3>1, <3>2, <4>1
    <3>4. q.next[v[k]] = IF k = Len(v) THEN NULL ELSE v[k + 1]
      <4>1. q.next[v[k]] = p.next[u[k + 1]]
        BY <1>8, <3>1, <3>2, <3>3
      <4>2. p.next[u[k + 1]] = IF k + 1 = Len(u) THEN NULL ELSE u[(k + 1) + 1]
        BY <1>1, <2>1 DEF Linked
      <4>3. k + 1 = Len(u) <=> k = Len(v)
        BY <1>2, <1>4
      <4>4. k # Len(v) => v[k + 1] = u[(k + 1) + 1]
        <5>1. ~(k + 1 < i)
          BY <1>2, <2>6
        <5>2. QED
          BY <1>4, <2>2, <5>1
      <4>5. QED
        BY <4>1, <4>2, <4>3, <4>4
    <3>5. q.prev[v[k]] = IF k = 1 THEN NULL ELSE v[k - 1]
      <4>1. CASE k = i
        <5>1. i # Len(u) /\ nx = v[k]
          BY <1>2, <1>6, <2>1, <3>1, <4>1
        <5>2. q.prev[v[k]] = pv
          BY <1>8, <3>2, <5>1
        <5>3. k # 1 => v[k - 1] = u[i - 1]
          <6>1. k - 1 < i
            BY <1>2, <4>1
          <6>2. QED
            BY <1>4, <2>3, <4>1, <6>1
        <5>4. QED
          BY <1>6, <4>1, <5>2, <5>3
      <4>2. CASE k # i
        <5>1. v[k] # nx
          <6>1. i # Len(u) => i + 1 \in 1 .. Len(u) /\ i + 1 # k + 1
            BY <1>2, <4>2
          <6>2. QED
            BY <1>3, <1>6, <2>1, <2>4, <3>1, <3>2, <6>1
        <5>2. q.prev[v[k]] = p.prev[u[k + 1]]
          BY <1>8, <3>1, <3>2, <5>1
        <5>3. k + 1 # 1 /\ k # 1 /\ ~(k - 1 < i) /\ (k - 1) + 1 = k /\ (k + 1) - 1 = k
          BY <1>2, <2>6, <4>2
        <5>4. p.prev[u[k + 1]] = u[k]
          BY <1>1, <2>1, <5>3
        <5>5. v[k - 1] = u[k]
          BY <1>4, <2>3, <5>3
        <5>6. QED
          BY <5>2, <5>3, <5>4, <5>5
      <4>3. QED
        BY <4>1, <4>2
    <3>6. QED
      BY <3>2, <3>4, <3>5
  <2>7. QED
    BY <2>5, <2>6
<1> DEFINE h2 == IF n = h THEN p.next[n] ELSE h
<1>10. h2 = IF Len(v) = 0 THEN NULL ELSE v[1]
  <2>1. Len(u) # 0 /\ h = u[1] /\ 1 \in 1 .. Len(u)
    BY <1>1, <1>2 DEF Linked
  <2>2. n = h <=> i = 1
    BY <1>1, <2>1 DEF Distinct
  <2>3. CASE i = 1
    <3>1. Len(v) # 0 => v[1] = u[1 + 1] /\ i # Len(u)
      <4>1. Len(v) # 0 => 1 \in 1 .. Len(u) - 1 /\ ~(1 < i) /\ i # Len(u)
        BY <1>2, <1>4, <2>3
      <4>2. QED
        BY <1>4, <4>1
    <3>2. Len(v) = 0 <=> i = Len(u)
      BY <1>2, <1>4, <2>3
    <3>3. QED
      BY <1>6, <2>2, <2>3, <3>1, <3>2
  <2>4. CASE i # 1
    <3>1. Len(v) # 0 /\ 1 \in 1 .. Len(u) - 1 /\ 1 < i
      BY <1>2, <1>4, <2>4
    <3>2. v[1] = u[1]
      BY <1>4, <3>1
    <3>3. QED
      BY <2>1, <2>2, <2>4, <3>1, <3>2
  <2>5. QED
    BY <2>3, <2>4
<1>11. Linked(q, h2, v)
  <2> HIDE DEF h2
  <2>1. QED
    BY <1>4, <1>9, <1>10 DEF Linked
<1>12. Linked(q, q.free, g)
  <2>1. ASSUME NEW k \in 1 .. Len(g)
        PROVE  q.next[g[k]] = IF k = Len(g) THEN NULL ELSE g[k + 1]
    <3>1. CASE k = 1
      <4>1. q.next[g[k]] = p.free
        BY <1>3, <1>5, <1>8, <3>1
      <4>2. p.free = IF Len(f) = 0 THEN NULL ELSE f[1]
        BY <1>1 DEF Linked
      <4>3. Len(f) # 0 => g[1 + 1] = f[1]
        <5>1. Len(f) # 0 => 2 \in 2 .. Len(f) + 1 /\ 2 - 1 = 1 /\ 1 + 1 = 2
          BY <1>2
        <5>2. QED
          BY <1>5, <5>1
      <4>4. Len(f) = 0 <=> k = Len(g)
        BY <1>2, <1>5, <3>1
      <4>5. QED
        BY <3>1, <4>1, <4>2, <4>3, <4>4
    <3>2. CASE k # 1
      <4>1. k \in 2 .. Len(f) + 1 /\ k - 1 \in 1 .. Len(f) /\ (k - 1) + 1 = k
        BY <1>2, <1>5, <3>2
      <4>2. g[k] = f[k - 1] /\ f[k - 1] \in Nodes /\ f[k - 1] # n /\ f[k - 1] # pv
        BY <1>2, <1>5, <1>7, <4>1
      <4>3. q.next[g[k]] = p.next[f[k - 1]]
        BY <1>8, <4>2
      <4>4. p.next[f[k - 1]] = IF k - 1 = Len(f) THEN NULL ELSE f[k]
        BY <1>1, <4>1 DEF Linked
      <4>5. k # Len(g) => g[k + 1] = f[k]
        <5>1. k # Len(g) => k + 1 \in 2 .. Len(f) + 1 /\ (k + 1) - 1 = k
          BY <1>2, <1>5, <4>1
        <5>2. QED
          BY <1>5, <5>1
      <4>6. k - 1 = Len(f) <=> k = Len(g)
        BY <1>2, <1>5, <4>1
      <4>7. QED
        BY <4>3, <4>4, <4>5, <4>6
    <3>3. QED
      BY <3>1, <3>2
  <2>2. q.free = g[1] /\ Len(g) # 0
    BY <1>2, <1>5, <1>8
  <2>3. QED
    BY <1>5, <2>1, <2>2 DEF Linked
<1>13. Distinct(g)
  <2>1. ASSUME NEW a \in 2 .. Len(g), NEW b \in 2 .. Len(g), g[a] = g[b]
        PROVE  a = b
    <3>1. a \in 2 .. Len(f) + 1 /\ b \in 2 .. Len(f) + 1
      BY <1>5
    <3>2. a - 1 \in 1 .. Len(f) /\ b - 1 \in 1 .. Len(f)
      BY <1>2, <3>1
    <3>3. g[a] = f[a - 1] /\ g[b] = f[b - 1]
      BY <1>5, <3>1
    <3>4. a - 1 = b - 1
      BY <1>1, <2>1, <3>2, <3>3 DEF Distinct
    <3>5. QED
      BY <3>4
  <2>2. ASSUME NEW a \in 2 .. Len(g)
        PROVE  g[a] # g[1]
    <3>1. a - 1 \in 1 .. Len(f) /\ g[a] = f[a - 1]
      BY <1>2, <1>5
    <3>2. QED
      BY <1>5, <1>7, <3>1
  <2>3. \A a \in 1 .. Len(g) : a = 1 \/ a \in 2 .. Len(g)
    BY <1>2, <1>5
  <2>4. QED
    BY <2>1, <2>2, <2>3 DEF Distinct
<1>14. Of(v) \cap Of(g) = {} /\ Of(v) \cup Of(g) = Nodes
  BY <1>1, <1>3, <1>4, <1>5
<1>15. \A k \in 1 .. Len(v) : q.prev[v[k]] = IF k = 1 THEN NULL ELSE v[k - 1]
  BY <1>9
<1>16. Lists(q, h2, v, g)
  <2> HIDE DEF h2
  <2>1. QED
    BY <1>4, <1>8, <1>11, <1>12, <1>13, <1>14, <1>15 DEF Lists
<1>17. QED
  BY <1>16 DEF v, g

-----------------------------------------------------------------------------
(* The letters on the screen, and update_letter_pos's walk along them.     *)
Letters == [x : 0 .. Bottom, v : {Fall, -Rise}, text : Keys]

Screens == [pool : Pools, head : Nodes \cup {NULL},
            letter : [Nodes -> Letters \cup {NoLetter}], hit : Nat, miss : Nat]

(* The nodes of the list are those that hold a letter, and the pool is in  *)
(* use.                                                                    *)
Shows(s, u, f) ==
  /\ s \in Screens
  /\ Lists(s.pool, s.head, u, f) /\ Len(f) > 0
  /\ \A n \in Nodes : n \in Of(u) <=> s.letter[n] # NoLetter

(* Where a letter goes in one step.                                        *)
Place(l) == l.x + l.v
OneOn(l) == IF Place(l) \in 0 .. Bottom THEN [l EXCEPT !.x = Place(l)] ELSE NoLetter

LEMMA LetterFacts ==
  /\ Bottom \in Nat \ {0} /\ Rise \in Nat \ {0} /\ NoLetter \notin Letters
  /\ \A l \in Letters : /\ l.x \in 0 .. Bottom /\ (l.v = 1 \/ l.v = -Rise)
                        /\ l.text \in Keys /\ Place(l) \in Int
                        /\ OneOn(l) \in Letters \cup {NoLetter}
                        /\ OneOn(l) = NoLetter <=> Place(l) < 0 \/ Place(l) > Bottom
                        /\ OneOn(l) # NoLetter =>
                             /\ OneOn(l).x = Place(l) /\ OneOn(l).v = l.v
                             /\ OneOn(l).text = l.text
<1>1. Bottom \in Nat \ {0} /\ Rise \in Nat \ {0} /\ NoLetter \notin Letters
  BY TypingAssumption DEF Letters
<1>2. ASSUME NEW l \in Letters
      PROVE  /\ l.x \in 0 .. Bottom /\ (l.v = 1 \/ l.v = -Rise)
             /\ l.text \in Keys /\ Place(l) \in Int
  BY <1>1 DEF Letters, Fall, Place
<1>3. ASSUME NEW l \in Letters, Place(l) \in 0 .. Bottom
      PROVE  /\ OneOn(l) \in Letters /\ OneOn(l).x = Place(l)
             /\ OneOn(l).v = l.v /\ OneOn(l).text = l.text
  BY <1>3 DEF Letters, OneOn
<1>4. ASSUME NEW l \in Letters, Place(l) \notin 0 .. Bottom
      PROVE  OneOn(l) = NoLetter
  BY <1>4 DEF OneOn
<1>5. \A l \in Letters : Place(l) \in 0 .. Bottom <=> ~(Place(l) < 0 \/ Place(l) > Bottom)
  BY <1>1, <1>2
<1>6. QED
  BY <1>1, <1>2, <1>3, <1>4, <1>5

(* A letter leaves: its node goes back to the pool.                        *)
LEMMA LetterLeaves ==
  ASSUME NEW s, NEW u, NEW f, Shows(s, u, f), NEW n \in Of(u)
  PROVE  LET t == WithoutLetter(s, n) IN
           /\ \E v, g : Shows(t, v, g)
           /\ t.letter = [s.letter EXCEPT ![n] = NoLetter]
           /\ t.hit = s.hit /\ t.miss = s.miss /\ t \in Screens
<1> DEFINE t == WithoutLetter(s, n)
           q == AfterFree(AfterRemove(s.pool, n), n)
           h2 == IF n = s.head THEN s.pool.next[n] ELSE s.head
<1>1. /\ s \in Screens /\ Lists(s.pool, s.head, u, f) /\ Len(f) > 0
      /\ \A m \in Nodes : m \in Of(u) <=> s.letter[m] # NoLetter
  BY DEF Shows
<1>2. PICK i \in 1 .. Len(u) : u[i] = n
  BY DEF Of
<1>3. /\ u \in Seq(Nodes) /\ f \in Seq(Nodes) /\ Distinct(u)
      /\ Of(u) \cup Of(f) = Nodes /\ Of(u) \cap Of(f) = {}
  BY <1>1 DEF Lists, Linked
<1>4. n \in Nodes
  BY <1>3
<1>5. Lists(q, h2, Without(u, i), Cons(n, f))
  BY <1>1, <1>2, NodeGone
<1>6. /\ t.pool = q /\ t.head = h2 /\ t.letter = [s.letter EXCEPT ![n] = NoLetter]
      /\ t.hit = s.hit /\ t.miss = s.miss
      /\ t = [pool |-> t.pool, head |-> t.head, letter |-> t.letter,
              hit |-> t.hit, miss |-> t.miss]
  <2>1. t = [s EXCEPT !.pool = q, !.head = h2, !.letter = [s.letter EXCEPT ![n] = NoLetter]]
    <3>1. s = [pool |-> s.pool, head |-> s.head, letter |-> s.letter,
               hit |-> s.hit, miss |-> s.miss]
      BY <1>1 DEF Screens
    <3>2. QED
      BY <3>1 DEF WithoutLetter
  <2> HIDE DEF t, q, h2
  <2>2. QED
    BY <1>1, <2>1 DEF Screens
<1>7. q \in Pools /\ h2 \in Nodes \cup {NULL}
  <2>1. q \in Pools
    BY <1>5 DEF Lists
  <2>2. s.pool \in Pools /\ s.head \in Nodes \cup {NULL}
    BY <1>1 DEF Screens
  <2>3. s.pool.next[n] \in Nodes \cup {NULL}
    BY <1>4, <2>2 DEF Pools
  <2>4. QED
    BY <2>1, <2>2, <2>3
<1>8. /\ t.letter \in [Nodes -> Letters \cup {NoLetter}]
      /\ \A m \in Nodes : t.letter[m] = IF m = n THEN NoLetter ELSE s.letter[m]
  BY <1>1, <1>4, <1>6 DEF Screens
<1>9. Of(Without(u, i)) = Of(u) \ {n} /\ Len(Cons(n, f)) > 0
  <2>1. Of(Without(u, i)) = Of(u) \ {u[i]}
    BY <1>3, WithoutIs
  <2>2. Len(Cons(n, f)) = Len(f) + 1 /\ Len(f) \in Nat
    BY <1>3, <1>4, ConsIs
  <2>3. QED
    BY <1>2, <2>1, <2>2
<1> HIDE DEF t, q, h2
<1>10. t \in Screens
  BY <1>1, <1>6, <1>7, <1>8 DEF Screens
<1>11. Shows(t, Without(u, i), Cons(n, f))
  BY <1>1, <1>5, <1>6, <1>8, <1>9, <1>10 DEF Shows
<1>12. QED
  BY <1>6, <1>10, <1>11 DEF t

(* One step of update_letter_pos.                                          *)
LEMMA LetterStep ==
  ASSUME NEW s, NEW u, NEW f, Shows(s, u, f), NEW n \in Of(u)
  PROVE  LET t == LetterMoved(s, n)
             l == s.letter[n]
         IN  /\ \E v, g : Shows(t, v, g)
             /\ n \in Nodes /\ l \in Letters
             /\ t.letter = [s.letter EXCEPT ![n] = OneOn(l)]
             /\ t.hit = IF Place(l) < 0 THEN s.hit + 1 ELSE s.hit
             /\ t.miss = IF Place(l) > Bottom THEN s.miss + 1 ELSE s.miss
<1> DEFINE t == LetterMoved(s, n)
           l == s.letter[n]
           w == WithoutLetter(s, n)
<1>1. /\ s \in Screens /\ Lists(s.pool, s.head, u, f) /\ Len(f) > 0
      /\ \A m \in Nodes : m \in Of(u) <=> s.letter[m] # NoLetter
  BY DEF Shows
<1>2. n \in Nodes
  BY <1>1 DEF Lists
<1>3. l \in Letters
  BY <1>1, <1>2 DEF Screens
<1>4. /\ \E v, g : Shows(w, v, g)
      /\ w.letter = [s.letter EXCEPT ![n] = NoLetter]
      /\ w.hit = s.hit /\ w.miss = s.miss /\ w \in Screens
  BY LetterLeaves
<1>5. Place(l) \in Int /\ Bottom \in Nat /\ Place(l) = s.letter[n].x + s.letter[n].v
  BY <1>3, LetterFacts DEF Place
<1>6. CASE Place(l) < 0
  <2>1. ~(Place(l) > Bottom) /\ OneOn(l) = NoLetter
    BY <1>3, <1>5, <1>6, LetterFacts
  <2>2. t = [w EXCEPT !.hit = @ + 1]
    BY <1>5, <1>6, <2>1 DEF LetterMoved
  <2> HIDE DEF w
  <2>3. /\ t.pool = w.pool /\ t.head = w.head /\ t.letter = w.letter
        /\ t.hit = s.hit + 1 /\ t.miss = s.miss /\ t \in Screens
    BY <1>1, <1>4, <2>2 DEF Screens
  <2> HIDE DEF t
  <2>4. \E v, g : Shows(t, v, g)
    BY <1>4, <2>3 DEF Shows
  <2>5. t.letter = [s.letter EXCEPT ![n] = OneOn(l)]
    BY <1>4, <2>1, <2>3
  <2>6. QED
    BY <1>2, <1>3, <1>6, <2>1, <2>3, <2>4, <2>5 DEF t
<1>7. CASE Place(l) > Bottom
  <2>1. ~(Place(l) < 0) /\ OneOn(l) = NoLetter
    BY <1>3, <1>5, <1>7, LetterFacts
  <2>2. t = [w EXCEPT !.miss = @ + 1]
    BY <1>5, <1>7, <2>1 DEF LetterMoved
  <2> HIDE DEF w
  <2>3. /\ t.pool = w.pool /\ t.head = w.head /\ t.letter = w.letter
        /\ t.miss = s.miss + 1 /\ t.hit = s.hit /\ t \in Screens
    BY <1>1, <1>4, <2>2 DEF Screens
  <2> HIDE DEF t
  <2>4. \E v, g : Shows(t, v, g)
    BY <1>4, <2>3 DEF Shows
  <2>5. t.letter = [s.letter EXCEPT ![n] = OneOn(l)]
    BY <1>4, <2>1, <2>3
  <2>6. QED
    BY <1>2, <1>3, <1>7, <2>1, <2>3, <2>4, <2>5 DEF t
<1>8. CASE ~(Place(l) < 0) /\ ~(Place(l) > Bottom)
  <2>1. OneOn(l) \in Letters /\ OneOn(l) # NoLetter /\ OneOn(l) = [l EXCEPT !.x = Place(l)]
    <3>1. OneOn(l) # NoLetter /\ OneOn(l) \in Letters \cup {NoLetter}
      BY <1>3, <1>8, LetterFacts
    <3>2. QED
      BY <3>1 DEF OneOn
  <2>2. t = [s EXCEPT !.letter[n].x = Place(l)]
    BY <1>5, <1>8 DEF LetterMoved
  <2>3. /\ t.pool = s.pool /\ t.head = s.head
        /\ t.letter = [s.letter EXCEPT ![n] = OneOn(l)]
        /\ t.miss = s.miss /\ t.hit = s.hit
        /\ t = [pool |-> t.pool, head |-> t.head, letter |-> t.letter,
                hit |-> t.hit, miss |-> t.miss]
    BY <1>1, <1>2, <2>1, <2>2 DEF Screens
  <2>4. /\ t.letter \in [Nodes -> Letters \cup {NoLetter}]
        /\ \A m \in Nodes : t.letter[m] = IF m = n THEN OneOn(l) ELSE s.letter[m]
    BY <1>1, <1>2, <2>1, <2>3 DEF Screens
  <2> HIDE DEF t
  <2>5. t \in Screens
    BY <1>1, <2>3, <2>4 DEF Screens
  <2>6. Shows(t, u, f)
    BY <1>1, <2>1, <2>3, <2>4, <2>5 DEF Shows
  <2>7. QED
    BY <1>2, <1>3, <1>8, <2>3, <2>6 DEF t
<1>9. QED
  BY <1>6, <1>7, <1>8

(* The states after each node of a walk.                                   *)
LEMMA VisitedIs ==
  ASSUME NEW s, NEW list \in Seq(Nodes)
  PROVE  \A i \in 0 .. Len(list) :
           Visited(s, list)[i] =
             IF i = 0 THEN s ELSE LetterMoved(Visited(s, list)[i - 1], list[i])
<1> DEFINE Rec(f, n) == f = [i \in 0 .. n |->
                               IF i = 0 THEN s ELSE LetterMoved(f[i - 1], list[i])]
           bad == {n \in 0 .. Len(list) : ~\E f : Rec(f, n)}
<1>1. Len(list) \in Nat
  OBVIOUS
<1>2. ASSUME bad # {}
      PROVE  FALSE
  <2>1. bad \in SUBSET Nat
    BY <1>1
  <2>2. PICK n \in bad : \A j \in bad : n <= j
    BY <1>2, <2>1, Smallest
  <2>3. n \in Nat /\ n <= Len(list)
    BY <1>1, <2>2
  <2>4. n # 0
    <3>1. Rec([i \in 0 .. 0 |-> s], 0)
      OBVIOUS
    <3>2. QED
      BY <2>2, <3>1
  <2>5. n - 1 \in 0 .. Len(list) /\ n - 1 \notin bad
    BY <2>2, <2>3, <2>4
  <2>6. PICK g : Rec(g, n - 1)
    BY <2>5
  <2> DEFINE h == [i \in 0 .. n |-> IF i = n THEN LetterMoved(g[n - 1], list[n]) ELSE g[i]]
  <2>7. ASSUME NEW i \in 0 .. n
        PROVE  h[i] = IF i = 0 THEN s ELSE LetterMoved(h[i - 1], list[i])
    <3>1. CASE i = n
      <4>1. n - 1 \in 0 .. n /\ n - 1 # n
        BY <2>3, <2>4
      <4>2. h[n - 1] = g[n - 1] /\ h[n] = LetterMoved(g[n - 1], list[n])
        BY <2>3, <4>1
      <4>3. QED
        BY <2>4, <3>1, <4>2
    <3>2. CASE i # n
      <4>1. i \in 0 .. n - 1
        BY <2>3, <3>2
      <4>2. h[i] = g[i] /\ g[i] = IF i = 0 THEN s ELSE LetterMoved(g[i - 1], list[i])
        BY <2>6, <3>2, <4>1
      <4>3. i # 0 => i - 1 \in 0 .. n /\ i - 1 # n
        BY <2>3, <4>1
      <4>4. i # 0 => h[i - 1] = g[i - 1]
        BY <4>3
      <4>5. QED
        BY <4>2, <4>4
    <3>3. QED
      BY <3>1, <3>2
  <2>8. Rec(h, n)
    BY <2>7
  <2>9. QED
    BY <2>2, <2>8
<1>3. \E f : Rec(f, Len(list))
  <2>1. Len(list) \in 0 .. Len(list)
    BY <1>1
  <2>2. QED
    BY <1>2, <2>1
<1>4. Visited(s, list) = CHOOSE f : Rec(f, Len(list))
  BY DEF Visited
<1>5. Rec(Visited(s, list), Len(list))
  BY <1>3, <1>4
<1> HIDE DEF bad
<1>6. QED
  BY <1>5

(* update_letter_pos moves every letter once and counts those that leave.  *)
TopLeavers(s)    == {n \in Nodes : s.letter[n] # NoLetter /\ Place(s.letter[n]) < 0}
BottomLeavers(s) == {n \in Nodes : s.letter[n] # NoLetter /\ Place(s.letter[n]) > Bottom}

LEMMA AllMoved ==
  ASSUME NEW s, NEW u, NEW f, Shows(s, u, f), s.hit = 0, s.miss = 0
  PROVE  LET t == LettersMoved(s) IN
           /\ \E v, g : Shows(t, v, g)
           /\ \A n \in Nodes : t.letter[n] = IF s.letter[n] = NoLetter THEN NoLetter
                                             ELSE OneOn(s.letter[n])
           /\ t.hit = Cardinality(TopLeavers(s))
           /\ t.miss = Cardinality(BottomLeavers(s))
<1> DEFINE A(i) == Visited(s, u)[i]
           Past(i) == {u[j] : j \in 1 .. i}
           Good(i) ==
             /\ \E v, g : Shows(A(i), v, g)
             /\ \A n \in Nodes : A(i).letter[n] = IF n \in Past(i) THEN OneOn(s.letter[n])
                                                  ELSE s.letter[n]
             /\ IsFiniteSet(TopLeavers(s) \cap Past(i))
             /\ IsFiniteSet(BottomLeavers(s) \cap Past(i))
             /\ A(i).hit = Cardinality(TopLeavers(s) \cap Past(i))
             /\ A(i).miss = Cardinality(BottomLeavers(s) \cap Past(i))
<1>1. /\ s \in Screens /\ Lists(s.pool, s.head, u, f)
      /\ \A n \in Nodes : n \in Of(u) <=> s.letter[n] # NoLetter
  BY DEF Shows
<1>2. /\ u \in Seq(Nodes) /\ Distinct(u) /\ Len(u) \in Nat
      /\ Chain(s.pool, s.head) = u
      /\ \A i \in 1 .. Len(u) : u[i] \in Nodes /\ u[i] \in Of(u)
  <2>1. u \in Seq(Nodes) /\ Distinct(u)
    BY <1>1 DEF Lists, Linked
  <2>2. Chain(s.pool, s.head) = u
    BY <1>1, ListsAreChains
  <2>3. QED
    BY <2>1, <2>2 DEF Of
<1>3. \A i \in 0 .. Len(u) : A(i) = IF i = 0 THEN s ELSE LetterMoved(A(i - 1), u[i])
  BY <1>2, VisitedIs
<1>4. LettersMoved(s) = A(Len(u))
  BY <1>2 DEF LettersMoved
<1> HIDE DEF A
<1>5. Good(0)
  <2>1. A(0) = s
    BY <1>2, <1>3
  <2>2. Past(0) = {}
    OBVIOUS
  <2> HIDE DEF Past
  <2>3. TopLeavers(s) \cap Past(0) = {} /\ BottomLeavers(s) \cap Past(0) = {}
    BY <2>2
  <2>4. QED
    BY <2>1, <2>2, <2>3, FS_EmptySet
<1>6. ASSUME NEW i \in 1 .. Len(u), Good(i - 1)
      PROVE  Good(i)
  <2> DEFINE n == u[i]
             l == s.letter[n]
  <2>1. n \in Nodes /\ n \in Of(u) /\ s.letter[n] # NoLetter /\ l \in Letters
    BY <1>1, <1>2 DEF Screens
  <2>2. n \notin Past(i - 1)
    <3>1. ASSUME NEW j \in 1 .. i - 1
          PROVE  u[j] # u[i]
      <4>1. j \in 1 .. Len(u) /\ j # i
        BY <1>2
      <4>2. QED
        BY <1>2, <4>1 DEF Distinct
    <3>2. QED
      BY <3>1
  <2>3. Past(i) = Past(i - 1) \cup {n}
    <3>1. \A j \in 1 .. i : j = i \/ j \in 1 .. i - 1
      BY <1>2
    <3>2. \A j \in 1 .. i - 1 : j \in 1 .. i
      BY <1>2
    <3>3. i \in 1 .. i
      BY <1>2
    <3>4. QED
      BY <3>1, <3>2, <3>3
  <2> HIDE DEF Past, n
  <2>4. PICK v, g : Shows(A(i - 1), v, g)
    BY <1>6
  <2>5. A(i - 1).letter[n] = s.letter[n]
    BY <1>6, <2>1, <2>2
  <2>6. n \in Of(v)
    BY <2>1, <2>4, <2>5 DEF Shows
  <2>7. A(i) = LetterMoved(A(i - 1), n)
    <3>1. i \in 0 .. Len(u) /\ i # 0
      BY <1>2
    <3>2. QED
      BY <1>3, <3>1 DEF n
  <2>8. /\ \E v1, g1 : Shows(A(i), v1, g1)
        /\ A(i).letter = [A(i - 1).letter EXCEPT ![n] = OneOn(l)]
        /\ A(i).hit = IF Place(l) < 0 THEN A(i - 1).hit + 1 ELSE A(i - 1).hit
        /\ A(i).miss = IF Place(l) > Bottom THEN A(i - 1).miss + 1 ELSE A(i - 1).miss
    BY <2>4, <2>5, <2>6, <2>7, LetterStep
  <2>9. ASSUME NEW m \in Nodes
        PROVE  A(i).letter[m] = IF m \in Past(i) THEN OneOn(s.letter[m]) ELSE s.letter[m]
    <3>1. A(i - 1).letter \in [Nodes -> Letters \cup {NoLetter}]
      BY <2>4 DEF Shows, Screens
    <3>2. A(i).letter[m] = IF m = n THEN OneOn(l) ELSE A(i - 1).letter[m]
      BY <2>8, <3>1
    <3>3. QED
      BY <1>6, <2>3, <3>2
  <2>10. /\ IsFiniteSet(TopLeavers(s) \cap Past(i))
         /\ A(i).hit = Cardinality(TopLeavers(s) \cap Past(i))
    <3> DEFINE T == TopLeavers(s) \cap Past(i - 1)
    <3>1. n \notin T /\ IsFiniteSet(T) /\ A(i - 1).hit = Cardinality(T)
      BY <1>6, <2>2
    <3>2. CASE Place(l) < 0
      <4>1. TopLeavers(s) \cap Past(i) = T \cup {n}
        BY <2>1, <2>3, <3>2 DEF TopLeavers
      <4>2. IsFiniteSet(T \cup {n}) /\ Cardinality(T \cup {n}) = Cardinality(T) + 1
        BY <3>1, FS_AddElement
      <4> HIDE DEF T
      <4>3. QED
        BY <2>8, <3>1, <3>2, <4>1, <4>2
    <3>3. CASE ~(Place(l) < 0)
      <4>1. TopLeavers(s) \cap Past(i) = T
        BY <2>1, <2>3, <3>3 DEF TopLeavers
      <4> HIDE DEF T
      <4>2. QED
        BY <2>8, <3>1, <3>3, <4>1
    <3>4. QED
      BY <3>2, <3>3
  <2>11. /\ IsFiniteSet(BottomLeavers(s) \cap Past(i))
         /\ A(i).miss = Cardinality(BottomLeavers(s) \cap Past(i))
    <3> DEFINE T == BottomLeavers(s) \cap Past(i - 1)
    <3>1. n \notin T /\ IsFiniteSet(T) /\ A(i - 1).miss = Cardinality(T)
      BY <1>6, <2>2
    <3>2. CASE Place(l) > Bottom
      <4>1. BottomLeavers(s) \cap Past(i) = T \cup {n}
        BY <2>1, <2>3, <3>2 DEF BottomLeavers
      <4>2. IsFiniteSet(T \cup {n}) /\ Cardinality(T \cup {n}) = Cardinality(T) + 1
        BY <3>1, FS_AddElement
      <4> HIDE DEF T
      <4>3. QED
        BY <2>8, <3>1, <3>2, <4>1, <4>2
    <3>3. CASE ~(Place(l) > Bottom)
      <4>1. BottomLeavers(s) \cap Past(i) = T
        BY <2>1, <2>3, <3>3 DEF BottomLeavers
      <4> HIDE DEF T
      <4>2. QED
        BY <2>8, <3>1, <3>3, <4>1
    <3>4. QED
      BY <3>2, <3>3
  <2>12. QED
    BY <2>8, <2>9, <2>10, <2>11
<1> DEFINE bad == {i \in 0 .. Len(u) : ~Good(i)}
<1>7. bad = {}
  <2> HIDE DEF Good
  <2>1. SUFFICES ASSUME bad # {} PROVE FALSE
    OBVIOUS
  <2>2. bad \in SUBSET Nat
    BY <1>2
  <2>3. PICK i \in bad : \A j \in bad : i <= j
    BY <2>1, <2>2, Smallest
  <2>4. i # 0
    BY <1>5, <2>3
  <2>5. i \in 1 .. Len(u) /\ i - 1 \in 0 .. Len(u) /\ i - 1 \notin bad
    BY <1>2, <2>3, <2>4
  <2>6. Good(i - 1)
    BY <2>5
  <2>7. QED
    BY <1>6, <2>3, <2>5, <2>6
<1>8. Good(Len(u))
  <2> HIDE DEF Good
  <2>1. Len(u) \in 0 .. Len(u)
    BY <1>2
  <2>2. QED
    BY <1>7, <2>1
<1>9. Past(Len(u)) = Of(u)
  BY DEF Of
<1>10. /\ TopLeavers(s) \cap Of(u) = TopLeavers(s)
       /\ BottomLeavers(s) \cap Of(u) = BottomLeavers(s)
  BY <1>1 DEF TopLeavers, BottomLeavers
<1> HIDE DEF Past, bad
<1>11. \E v, g : Shows(LettersMoved(s), v, g)
  BY <1>4, <1>8
<1>12. ASSUME NEW n \in Nodes
       PROVE  LettersMoved(s).letter[n] = IF s.letter[n] = NoLetter THEN NoLetter
                                          ELSE OneOn(s.letter[n])
  <2>1. A(Len(u)).letter[n] = IF n \in Past(Len(u)) THEN OneOn(s.letter[n])
                              ELSE s.letter[n]
    BY <1>8
  <2>2. QED
    BY <1>1, <1>4, <1>9, <2>1
<1>13. /\ LettersMoved(s).hit = Cardinality(TopLeavers(s))
       /\ LettersMoved(s).miss = Cardinality(BottomLeavers(s))
  BY <1>4, <1>8, <1>9, <1>10
<1>14. QED
  BY <1>11, <1>12, <1>13

-----------------------------------------------------------------------------
(* Before the first letter the pool is as the program was loaded.          *)
Unused == /\ pool = ZeroPool /\ head = NULL /\ now = 0
          /\ letter = [n \in Nodes |-> NoLetter]

ScreenInv == Unused \/ \E u, f : Shows(ThisTick, u, f)

NewLetter(k) == [x |-> 0, v |-> Fall, text |-> k]

LEMMA NewLetterFacts ==
  ASSUME NEW k \in Keys
  PROVE  /\ NewLetter(k) \in Letters /\ NewLetter(k) # NoLetter
         /\ Place(NewLetter(k)) = 1 /\ OneOn(NewLetter(k)) # NoLetter
         /\ OneOn(NewLetter(k)).x = 1 /\ OneOn(NewLetter(k)).v = 1
         /\ OneOn(NewLetter(k)).text = k
<1>1. Bottom \in Nat \ {0} /\ NoLetter \notin Letters
  BY LetterFacts
<1>2. NewLetter(k) \in Letters
  BY <1>1 DEF NewLetter, Letters, Fall
<1>3. NewLetter(k).v = 1 /\ NewLetter(k).text = k /\ Place(NewLetter(k)) = 1
  BY DEF NewLetter, Place, Fall
<1>4. OneOn(NewLetter(k)) # NoLetter
  BY <1>1, <1>2, <1>3, LetterFacts
<1>5. QED
  BY <1>1, <1>2, <1>3, <1>4, LetterFacts

(* create_new_letter, with the assertion of fly_new: the new letter is in  *)
(* front, in a node that held none.                                        *)
LEMMA Created ==
  ASSUME ScreenInv, NewAsserts(pool), NEW k \in Keys
  PROVE  LET s == WithNewLetter(ThisTick, k) IN
           /\ \E u, f : Shows(s, u, f)
           /\ s.hit = 0 /\ s.miss = 0
           /\ s.head \in Nodes /\ letter[s.head] = NoLetter
           /\ s.letter = [letter EXCEPT ![s.head] = NewLetter(k)]
<1> DEFINE s == WithNewLetter(ThisTick, k)
           c == Chained(pool)
           n == NewNode(pool)
           q == IF head = NULL THEN AfterNew(pool)
                ELSE AfterInsert(AfterNew(pool), NULL, head, n)
<1>1. PICK u, f : /\ Lists(c, head, u, f) /\ Len(f) > 0
                  /\ letter \in [Nodes -> Letters \cup {NoLetter}]
                  /\ \A m \in Nodes : m \in Of(u) <=> letter[m] # NoLetter
  <2>1. CASE Unused
    <3>1. PICK f : Lists(c, NULL, <<>>, f) /\ Len(f) = PoolSize + 1
      BY <2>1, FirstChained DEF Unused
    <3>2. Of(<<>>) = {}
      BY DEF Of
    <3>3. Len(f) > 0
      BY <3>1, NodeIsNotNull
    <3>4. QED
      BY <2>1, <3>1, <3>2, <3>3 DEF Unused
  <2>2. CASE \E u, f : Shows(ThisTick, u, f)
    <3>1. PICK u, f : Shows(ThisTick, u, f)
      BY <2>2
    <3>2. /\ ThisTick.pool = pool /\ ThisTick.head = head /\ ThisTick.letter = letter
          /\ ThisTick \in Screens
      BY <3>1 DEF ThisTick, Shows
    <3>3. /\ Lists(pool, head, u, f) /\ Len(f) > 0
          /\ \A m \in Nodes : m \in Of(u) <=> letter[m] # NoLetter
      BY <3>1, <3>2 DEF Shows
    <3>4. letter \in [Nodes -> Letters \cup {NoLetter}]
      BY <3>2 DEF Screens
    <3>5. c = pool
      <4>1. Linked(pool, pool.free, f)
        BY <3>3 DEF Lists
      <4>2. f \in Seq(Nodes) /\ pool.free = f[1] /\ 1 \in 1 .. Len(f)
        BY <3>3, <4>1 DEF Linked
      <4>3. pool.free # NULL
        BY <4>2, NodeIsNotNull
      <4>4. QED
        BY <4>3 DEF Chained
    <3>6. QED
      BY <3>3, <3>4, <3>5
  <2>3. QED
    BY <2>1, <2>2 DEF ScreenInv
<1>2. /\ c \in Pools /\ Linked(c, head, u) /\ Linked(c, c.free, f)
      /\ Of(u) \cap Of(f) = {} /\ Of(u) \cup Of(f) = Nodes
      /\ u \in Seq(Nodes) /\ f \in Seq(Nodes) /\ Distinct(f)
  BY <1>1 DEF Lists, Linked
<1>3. n = c.free /\ n = f[1] /\ n \in Nodes /\ n \in Of(f) /\ NULL \notin Nodes
  <2>1. 1 \in 1 .. Len(f)
    BY <1>1, <1>2
  <2>2. c.free = f[1]
    BY <1>1, <1>2, <2>1 DEF Linked
  <2>3. QED
    BY <1>2, <2>1, <2>2, NodeIsNotNull DEF NewNode, Of
<1>4. head = NULL \/ (head \in Nodes /\ head # n)
  <2>1. ASSUME head # NULL
        PROVE  head \in Of(u)
    <3>1. Len(u) # 0 /\ head = u[1]
      BY <1>2, <2>1 DEF Linked
    <3>2. 1 \in 1 .. Len(u)
      BY <1>2, <3>1
    <3>3. QED
      BY <3>1, <3>2 DEF Of
  <2>2. QED
    BY <1>2, <1>3, <2>1
<1>5. c.next[n] # NULL
  BY <1>3 DEF NewAsserts
<1>6. /\ c.next \in [Nodes -> Nodes \cup {NULL}] /\ c.prev \in [Nodes -> Nodes \cup {NULL}]
      /\ c.next[n] \in Nodes
  BY <1>2, <1>3, <1>5 DEF Pools
<1> HIDE DEF c, n
<1>7. /\ q \in Pools /\ q.free = c.next[n]
      /\ \A m \in Nodes : q.next[m] = IF m = n THEN head ELSE c.next[m]
      /\ \A m \in Nodes : q.prev[m] = IF m = n THEN NULL
                                      ELSE IF m = head THEN n ELSE c.prev[m]
  <2> DEFINE p1 == AfterNew(pool)
  <2>1. p1 = [next |-> [c.next EXCEPT ![n] = NULL], prev |-> [c.prev EXCEPT ![n] = NULL],
              free |-> c.next[n]]
    BY <1>3 DEF AfterNew, c
  <2> HIDE DEF p1
  <2>2. CASE head = NULL
    <3>1. q = p1
      BY <2>2 DEF p1
    <3>2. QED
      BY <1>3, <1>6, <2>1, <2>2, <3>1 DEF Pools
  <2>3. CASE head # NULL
    <3>1. q = AfterInsert(p1, NULL, head, n)
      BY <2>3 DEF p1
    <3>2. q = [next |-> [c.next EXCEPT ![n] = head],
               prev |-> [[c.prev EXCEPT ![n] = NULL] EXCEPT ![head] = n],
               free |-> c.next[n]]
      <4>1. q = [p1 EXCEPT !.next = [@ EXCEPT ![n] = head],
                           !.prev = [[@ EXCEPT ![n] = NULL] EXCEPT ![head] = n]]
        BY <2>3, <3>1 DEF AfterInsert, Point
      <4>2. /\ [[c.next EXCEPT ![n] = NULL] EXCEPT ![n] = head] = [c.next EXCEPT ![n] = head]
            /\ [[c.prev EXCEPT ![n] = NULL] EXCEPT ![n] = NULL] = [c.prev EXCEPT ![n] = NULL]
        BY <1>3, <1>6
      <4>3. q = [next |-> [[c.next EXCEPT ![n] = NULL] EXCEPT ![n] = head],
                 prev |-> [[[c.prev EXCEPT ![n] = NULL] EXCEPT ![n] = NULL]
                            EXCEPT ![head] = n],
                 free |-> c.next[n]]
        BY <2>1, <4>1
      <4>4. QED
        BY <4>2, <4>3, Zenon
    <3>3. head \in Nodes /\ head # n
      BY <1>4, <2>3
    <3> HIDE DEF q
    <3>4. QED
      BY <1>3, <1>6, <3>2, <3>3 DEF Pools
  <2>4. QED
    BY <2>2, <2>3
<1> HIDE DEF q
<1>8. Lists(q, n, Cons(n, u), Rest(f))
  <2>1. /\ q \in Pools /\ q.free = c.next[c.free]
        /\ \A m \in Nodes : q.next[m] = IF m = c.free THEN head ELSE c.next[m]
        /\ \A m \in Nodes : q.prev[m] = IF m = c.free THEN NULL
                                        ELSE IF m = head THEN c.free ELSE c.prev[m]
    BY <1>3, <1>7
  <2>2. Lists(q, c.free, Cons(c.free, u), Rest(f))
    BY <1>1, <2>1, NodeTaken
  <2>3. QED
    BY <1>3, <2>2
<1>9. Of(Cons(n, u)) = Of(u) \cup {n}
  BY <1>2, <1>3, ConsIs
<1>10. Len(Rest(f)) > 0
  <2>1. Len(Rest(f)) = Len(f) - 1
    BY <1>1, <1>2, RestIs
  <2>2. Len(f) # 1
    <3>1. 1 \in 1 .. Len(f)
      BY <1>1, <1>2
    <3>2. c.next[f[1]] = IF 1 = Len(f) THEN NULL ELSE f[1 + 1]
      BY <1>2, <3>1 DEF Linked
    <3>3. QED
      BY <1>3, <1>5, <3>2
  <2>3. QED
    BY <1>1, <1>2, <2>1, <2>2
<1>11. /\ s.pool = q /\ s.head = n /\ s.letter = [letter EXCEPT ![n] = NewLetter(k)]
       /\ s.hit = 0 /\ s.miss = 0
       /\ s = [pool |-> s.pool, head |-> s.head, letter |-> s.letter,
               hit |-> s.hit, miss |-> s.miss]
  <2>1. s = [ThisTick EXCEPT !.pool = q, !.head = n, !.letter[n] = NewLetter(k)]
    BY DEF WithNewLetter, NewLetter, ThisTick, q, n
  <2> HIDE DEF s
  <2>2. QED
    BY <2>1 DEF ThisTick
<1> HIDE DEF s
<1>12. NewLetter(k) \in Letters /\ NewLetter(k) # NoLetter
  BY NewLetterFacts
<1>13. /\ s.letter \in [Nodes -> Letters \cup {NoLetter}]
       /\ \A m \in Nodes : s.letter[m] = IF m = n THEN NewLetter(k) ELSE letter[m]
  BY <1>1, <1>3, <1>11, <1>12
<1>14. s \in Screens
  BY <1>3, <1>7, <1>11, <1>13 DEF Screens
<1>15. \A m \in Nodes : m \in Of(Cons(n, u)) <=> s.letter[m] # NoLetter
  BY <1>1, <1>9, <1>12, <1>13
<1>16. Shows(s, Cons(n, u), Rest(f))
  BY <1>8, <1>10, <1>11, <1>14, <1>15 DEF Shows
<1>17. letter[n] = NoLetter
  BY <1>1, <1>2, <1>3
<1>18. QED
  BY <1>3, <1>11, <1>16, <1>17 DEF s

-----------------------------------------------------------------------------
(* A letter's age in updates: a falling one is that far down, and a struck *)
(* one has gone up for k updates since it was.                             *)
Aged(l, a) ==
  IF l.v > 0 THEN a = l.x
  ELSE \E k \in Nat : a = l.x + k * Rise + k /\ l.x + k * Rise <= Bottom

(* One letter per period: the letters on the screen are of different ages, *)
(* each a number of periods older than the newest can be.                  *)
SinceNew == IF now = 0 THEN CreatePeriod ELSE now

AgedApart(idx) ==
  /\ idx \in [Nodes -> Nat]
  /\ \A n \in Nodes : letter[n] # NoLetter =>
                        Aged(letter[n], SinceNew + CreatePeriod * idx[n])
  /\ \A n, m \in Nodes : letter[n] # NoLetter /\ letter[m] # NoLetter /\ idx[n] = idx[m]
                           => n = m

AgesInv == /\ now \in 0 .. CreatePeriod - 1
           /\ letter \in [Nodes -> Letters \cup {NoLetter}]
           /\ \E idx : AgedApart(idx)

LEMMA Quotient ==
  ASSUME NEW a \in Nat, NEW b \in Nat, NEW r \in Nat \ {0}, a * r <= b
  PROVE  a <= b \div r /\ b \div r \in Nat
<1> DEFINE q == b \div r
<1>1. q \in Int /\ r * q <= b /\ b < r * (q + 1)
  BY SMT
<1> HIDE DEF q
<1>2. CASE a >= q + 1
  <2>1. r * (q + 1) <= r * a
    BY <1>1, <1>2
  <2>2. r * a = a * r
    BY SMT
  <2>3. QED
    BY <1>1, <2>1, <2>2
<1>3. CASE a < q + 1
  <2>1. q \in Nat
    <3>1. CASE q < 0
      <4>1. q + 1 <= 0 /\ r * (q + 1) <= 0
        BY <1>1, <3>1
      <4>2. QED
        BY <1>1, <4>1
    <3>2. QED
      BY <1>1, <3>1
  <2>2. QED
    BY <1>1, <1>3, <2>1 DEF q
<1>4. QED
  BY <1>1, <1>2, <1>3

LEMMA OldestAge ==
  ASSUME NEW l \in Letters, NEW a \in Nat, Aged(l, a)
  PROVE  a <= CreatePeriod * (PoolSize - 1)
<1>1. /\ l.x \in 0 .. Bottom /\ Bottom \in Nat /\ Rise \in Nat \ {0}
      /\ PoolSize \in Nat \ {0} /\ CreatePeriod \in Nat \ {0}
  BY LetterFacts, PoolAssumption, TypingAssumption
<1>2. Bottom + Bottom \div Rise <= CreatePeriod * (PoolSize - 1)
  BY RoomAssumption
<1> DEFINE L == CreatePeriod * (PoolSize - 1)
<1>3. L \in Int
  BY <1>1
<1> HIDE DEF L
<1>4. CASE l.v > 0
  <2>1. 0 * Rise <= Bottom
    BY <1>1
  <2>2. Bottom \div Rise \in Nat
    BY <1>1, <2>1, Quotient
  <2>3. QED
    BY <1>1, <1>2, <1>3, <1>4, <2>2 DEF Aged, L
<1>5. CASE ~(l.v > 0)
  <2>1. PICK k \in Nat : a = l.x + k * Rise + k /\ l.x + k * Rise <= Bottom
    BY <1>5 DEF Aged
  <2>2. k * Rise \in Nat /\ k * Rise <= Bottom
    BY <1>1, <2>1
  <2>3. k <= Bottom \div Rise /\ Bottom \div Rise \in Nat
    BY <1>1, <2>2, Quotient
  <2>4. QED
    BY <1>1, <1>2, <1>3, <2>1, <2>2, <2>3 DEF L
<1>6. QED
  BY <1>4, <1>5

(* So the pool always has a node to spare.                                 *)
LEMMA Room ==
  ASSUME ScreenInv, AgesInv
  PROVE  NewAsserts(pool)
<1>1. PoolSize \in Nat \ {0} /\ CreatePeriod \in Nat \ {0}
  BY PoolAssumption, TypingAssumption
<1>2. CASE Unused
  <2>1. Chained(pool).free = 0 /\ Chained(pool).next[0] = 1
    BY <1>1, <1>2 DEF Unused, Chained, ZeroPool, Nodes
  <2>2. QED
    BY <2>1 DEF NewAsserts, NULL
<1>3. CASE \E u, f : Shows(ThisTick, u, f)
  <2>1. PICK u, f : Shows(ThisTick, u, f)
    BY <1>3
  <2>2. /\ ThisTick.pool = pool /\ ThisTick.head = head /\ ThisTick.letter = letter
    BY DEF ThisTick
  <2>3. /\ Lists(pool, head, u, f) /\ Len(f) > 0
        /\ \A m \in Nodes : m \in Of(u) <=> letter[m] # NoLetter
    BY <2>1, <2>2 DEF Shows
  <2>4. /\ Linked(pool, pool.free, f) /\ f \in Seq(Nodes)
        /\ Of(u) \cup Of(f) = Nodes
    BY <2>3 DEF Lists, Linked
  <2>5. PICK idx : AgedApart(idx)
    BY DEF AgesInv
  <2>6. ASSUME NEW n \in Of(u)
        PROVE  idx[n] \in 0 .. PoolSize - 2
    <3>1. n \in Nodes /\ letter[n] # NoLetter /\ idx[n] \in Nat
      BY <2>3, <2>4, <2>5 DEF AgedApart
    <3>2. letter[n] \in Letters
      BY <3>1 DEF AgesInv
    <3>3. SinceNew \in Nat /\ SinceNew > 0
      BY <1>1 DEF SinceNew, AgesInv
    <3> DEFINE c == CreatePeriod * idx[n]
               a == SinceNew + c
    <3>4. c \in Nat /\ a \in Nat
      BY <1>1, <3>1, <3>3
    <3>5. Aged(letter[n], a)
      BY <2>5, <3>1 DEF AgedApart
    <3>6. a <= CreatePeriod * (PoolSize - 1)
      <4> HIDE DEF a
      <4>1. QED
        BY <3>2, <3>4, <3>5, OldestAge
    <3>7. CreatePeriod * idx[n] < CreatePeriod * (PoolSize - 1)
      <4>1. CreatePeriod * (PoolSize - 1) \in Int
        BY <1>1
      <4>2. QED
        BY <3>3, <3>4, <3>6, <4>1
    <3>8. idx[n] < PoolSize - 1
      <4>1. ASSUME idx[n] >= PoolSize - 1
            PROVE  CreatePeriod * (PoolSize - 1) <= CreatePeriod * idx[n]
        BY <1>1, <3>1, <4>1
      <4>2. CreatePeriod * (PoolSize - 1) \in Int /\ CreatePeriod * idx[n] \in Int
        BY <1>1, <3>1
      <4>3. QED
        BY <1>1, <3>1, <3>7, <4>1, <4>2
    <3>9. QED
      BY <1>1, <3>1, <3>8
  <2> DEFINE g == [n \in Of(u) |-> idx[n]]
             I == 0 .. PoolSize - 2
  <2>7. g \in Injection(Of(u), I)
    <3>1. \A n, m \in Of(u) : g[n] = g[m] => n = m
      BY <2>3, <2>4, <2>5 DEF AgedApart
    <3>2. g \in [Of(u) -> I]
      BY <2>6
    <3> HIDE DEF g, I
    <3>3. QED
      BY <3>1, <3>2 DEF Injection, IsInjective
  <2>8. IsFiniteSet(I) /\ Cardinality(I) = PoolSize - 1
    <3>1. 0 \in Int /\ PoolSize - 2 \in Int
      BY <1>1
    <3>2. IsFiniteSet(I) /\ Cardinality(I) = IF 0 > PoolSize - 2 THEN 0
                                              ELSE PoolSize - 2 - 0 + 1
      BY <3>1, FS_Interval
    <3> HIDE DEF I
    <3>3. QED
      BY <1>1, <3>2
  <2> HIDE DEF I, g
  <2>9. IsFiniteSet(Of(u)) /\ Cardinality(Of(u)) <= PoolSize - 1
    BY <2>7, <2>8, FS_Injection
  <2>10. Cardinality(Nodes) = PoolSize + 1
    BY <1>1, FS_Interval DEF Nodes
  <2>11. Len(f) # 1
    <3>1. SUFFICES ASSUME Len(f) = 1 PROVE FALSE
      OBVIOUS
    <3>2. Of(f) = {f[1]}
      BY <3>1 DEF Of
    <3>3. Nodes = Of(u) \cup {f[1]}
      BY <2>4, <3>2
    <3>4. Cardinality(Nodes) = IF f[1] \in Of(u) THEN Cardinality(Of(u))
                               ELSE Cardinality(Of(u)) + 1
      BY <2>9, <3>3, FS_AddElement
    <3>5. Cardinality(Of(u)) \in Nat
      BY <2>9, FS_CardinalityType
    <3>6. QED
      BY <1>1, <2>9, <2>10, <3>4, <3>5
  <2>12. 1 \in 1 .. Len(f) /\ 2 \in 1 .. Len(f)
    <3>1. Len(f) \in Nat /\ Len(f) > 0
      BY <2>3, <2>4
    <3>2. \A k \in Nat : k > 0 /\ k # 1 => 1 \in 1 .. k /\ 2 \in 1 .. k
      OBVIOUS
    <3>3. QED
      BY <2>11, <3>1, <3>2
  <2>13. /\ pool.free = f[1] /\ pool.next[f[1]] = f[1 + 1] /\ 1 + 1 = 2
         /\ f[1] # NULL /\ f[2] # NULL
    BY <2>4, <2>11, <2>12, NodeIsNotNull DEF Linked
  <2>14. Chained(pool) = pool
    BY <2>13 DEF Chained
  <2>15. QED
    BY <2>13, <2>14 DEF NewAsserts
<1>4. QED
  BY <1>2, <1>3 DEF ScreenInv

-----------------------------------------------------------------------------
(* What the screen is like between two steps of the loop.                  *)
FreshInv == \A n \in fresh : /\ n \in Nodes /\ letter[n] # NoLetter
                             /\ ~letter_pressed[letter[n].text]

ScreenOK == /\ ScreenInv /\ AgesInv /\ FreshInv
            /\ letter_pressed \in [Keys -> BOOLEAN]

Shown == {n \in Nodes : letter[n] # NoLetter}

(* The list visits exactly the nodes that hold a letter.                   *)
LEMMA OnScreenIs ==
  ASSUME ScreenInv, letter \in [Nodes -> Letters \cup {NoLetter}]
  PROVE  \E u \in Seq(Nodes) : Chain(pool, head) = u /\ OnScreen = Of(u) /\ Of(u) = Shown
<1>1. CASE Unused
  <2>1. Linked(pool, head, <<>>) /\ Len(<<>>) <= PoolSize + 1
    BY <1>1, NodeIsNotNull DEF Unused, Linked
  <2>2. Chain(pool, head) = <<>>
    BY <2>1, ChainIs
  <2>3. OnScreen = {} /\ Of(<<>>) = {}
    BY <2>2 DEF OnScreen, On, Of
  <2>4. Shown = {}
    BY <1>1 DEF Unused, Shown
  <2>5. <<>> \in Seq(Nodes) /\ Of(<<>>) = Shown
    BY <2>3, <2>4
  <2>6. QED
    BY <2>2, <2>3, <2>5
<1>2. CASE \E u, f : Shows(ThisTick, u, f)
  <2>1. PICK u, f : Shows(ThisTick, u, f)
    BY <1>2
  <2>2. ThisTick.pool = pool /\ ThisTick.head = head /\ ThisTick.letter = letter
    BY DEF ThisTick
  <2>3. /\ Lists(pool, head, u, f)
        /\ \A m \in Nodes : m \in Of(u) <=> letter[m] # NoLetter
    BY <2>1, <2>2 DEF Shows
  <2>4. u \in Seq(Nodes) /\ Of(u) \subseteq Nodes
    BY <2>3 DEF Lists, Linked
  <2>5. Chain(pool, head) = u /\ OnScreen = Of(u)
    BY <2>3, ListsAreChains DEF OnScreen
  <2>6. Of(u) = Shown
    BY <2>3, <2>4 DEF Shown
  <2>7. QED
    BY <2>4, <2>5, <2>6
<1>3. QED
  BY <1>1, <1>2 DEF ScreenInv

(* The letters when update_letter_pos starts: one more at the first tick   *)
(* of a period.                                                            *)
Before(base, n, k) ==
  IF Creates
  THEN /\ n \in Nodes /\ k \in Keys /\ letter[n] = NoLetter
       /\ base = [letter EXCEPT ![n] = NewLetter(k)]
       /\ letter_pressed' = [letter_pressed EXCEPT ![k] = FALSE]
       /\ fresh' = (fresh \cup {n}) \cap Shown'
  ELSE base = letter /\ letter_pressed' = letter_pressed /\ fresh' = fresh \cap Shown'

After(base) ==
  /\ base \in [Nodes -> Letters \cup {NoLetter}]
  /\ letter' \in [Nodes -> Letters \cup {NoLetter}]
  /\ \A m \in Nodes : letter'[m] = IF base[m] = NoLetter THEN NoLetter ELSE OneOn(base[m])
  /\ hit' = Cardinality({m \in Nodes : base[m] # NoLetter /\ Place(base[m]) < 0})
  /\ miss' = Cardinality({m \in Nodes : base[m] # NoLetter /\ Place(base[m]) > Bottom})
  /\ hit' \in Nat /\ miss' \in Nat

LEMMA Simulated ==
  ASSUME ScreenOK, Simulate
  PROVE  /\ \E base, n, k : Before(base, n, k) /\ After(base)
         /\ \E u, f : Shows(ThisTick', u, f)
<1>1. PICK k \in Keys :
        LET created == IF Creates THEN WithNewLetter(ThisTick, k) ELSE ThisTick
            s       == LettersMoved(created)
        IN  /\ pool' = s.pool /\ head' = s.head /\ letter' = s.letter
            /\ hit' = s.hit /\ miss' = s.miss
            /\ IF Creates THEN ReleaseNew(k) ELSE UNCHANGED letter_pressed
            /\ fresh' = (fresh \cup (IF Creates THEN {created.head} ELSE {}))
                           \cap On(s.pool, s.head)
  BY DEF Simulate
<1> DEFINE created == IF Creates THEN WithNewLetter(ThisTick, k) ELSE ThisTick
           s == LettersMoved(created)
           base == created.letter
           n == created.head
<1>2. /\ pool' = s.pool /\ head' = s.head /\ letter' = s.letter
      /\ hit' = s.hit /\ miss' = s.miss
      /\ IF Creates THEN ReleaseNew(k) ELSE UNCHANGED letter_pressed
      /\ fresh' = (fresh \cup (IF Creates THEN {n} ELSE {})) \cap On(s.pool, s.head)
  BY <1>1, Zenon
<1>3. ScreenInv /\ letter \in [Nodes -> Letters \cup {NoLetter}]
  BY DEF ScreenOK, AgesInv
<1>4. /\ \E u, f : Shows(created, u, f)
      /\ created.hit = 0 /\ created.miss = 0
      /\ IF Creates
         THEN n \in Nodes /\ letter[n] = NoLetter /\ base = [letter EXCEPT ![n] = NewLetter(k)]
         ELSE base = letter
  <2>1. CASE Creates
    <3>1. NewAsserts(pool)
      BY <2>1 DEF Simulate
    <3>2. created = WithNewLetter(ThisTick, k)
      BY <2>1
    <3>3. QED
      BY <1>3, <2>1, <3>1, <3>2, Created
  <2>2. CASE ~Creates
    <3>1. \E u, f : Shows(ThisTick, u, f)
      BY <1>3, <2>2 DEF ScreenInv, Unused, Creates
    <3>2. created = ThisTick
      BY <2>2
    <3> HIDE DEF created
    <3>3. QED
      BY <2>2, <3>1, <3>2 DEF ThisTick
  <2>3. QED
    BY <2>1, <2>2
<1> HIDE DEF created
<1>5. /\ \E v, g : Shows(s, v, g)
      /\ \A m \in Nodes : s.letter[m] = IF base[m] = NoLetter THEN NoLetter
                                        ELSE OneOn(base[m])
      /\ s.hit = Cardinality(TopLeavers(created))
      /\ s.miss = Cardinality(BottomLeavers(created))
  BY <1>4, AllMoved
<1> HIDE DEF s
<1>6. PICK v, g : Shows(s, v, g)
  BY <1>5
<1>7. /\ s \in Screens /\ Lists(s.pool, s.head, v, g) /\ Len(g) > 0
      /\ \A m \in Nodes : m \in Of(v) <=> s.letter[m] # NoLetter
  BY <1>6 DEF Shows
<1>8. base \in [Nodes -> Letters \cup {NoLetter}]
  BY <1>4 DEF Shows, Screens
<1>9. /\ letter' \in [Nodes -> Letters \cup {NoLetter}] /\ hit' \in Nat /\ miss' \in Nat
      /\ pool' \in Pools /\ head' \in Nodes \cup {NULL}
  BY <1>2, <1>7 DEF Screens
<1>10. After(base)
  <2>1. /\ s.hit = Cardinality({m \in Nodes : base[m] # NoLetter /\ Place(base[m]) < 0})
        /\ s.miss = Cardinality({m \in Nodes : base[m] # NoLetter /\ Place(base[m]) > Bottom})
    BY <1>5 DEF TopLeavers, BottomLeavers
  <2> HIDE DEF base
  <2>2. QED
    BY <1>2, <1>5, <1>8, <1>9, <2>1 DEF After
<1>11. On(s.pool, s.head) = Shown'
  <2>1. On(s.pool, s.head) = Of(v) /\ Of(v) \subseteq Nodes
    <3>1. On(s.pool, s.head) = Of(v)
      BY <1>7, ListsAreChains
    <3>2. QED
      BY <1>7, <3>1 DEF Lists
  <2>2. QED
    BY <1>2, <1>7, <2>1 DEF Shown
<1>12. Before(base, n, k)
  <2> HIDE DEF base, n
  <2>1. CASE Creates
    BY <1>2, <1>4, <1>11, <2>1 DEF Before, ReleaseNew
  <2>2. CASE ~Creates
    BY <1>2, <1>4, <1>11, <2>2 DEF Before
  <2>3. QED
    BY <2>1, <2>2
<1>13. Shows(ThisTick', v, g)
  <2>1. /\ ThisTick'.pool = s.pool /\ ThisTick'.head = s.head /\ ThisTick'.letter = s.letter
        /\ ThisTick' = [pool |-> pool', head |-> head', letter |-> letter', hit |-> 0, miss |-> 0]
    BY <1>2 DEF ThisTick
  <2>2. ThisTick' \in Screens
    BY <1>9, <2>1 DEF Screens
  <2>3. QED
    BY <1>7, <2>1, <2>2 DEF Shows
<1>14. QED
  BY <1>10, <1>12, <1>13

LEMMA AgeStep ==
  ASSUME NEW l \in Letters, NEW a \in Nat, Aged(l, a), OneOn(l) # NoLetter
  PROVE  Aged(OneOn(l), a + 1)
<1>1. /\ l.x \in Nat /\ l.x <= Bottom /\ Bottom \in Nat /\ Rise \in Nat \ {0}
      /\ OneOn(l).x = l.x + l.v /\ OneOn(l).v = l.v /\ (l.v = 1 \/ l.v = -Rise)
  BY LetterFacts DEF Place
<1>2. CASE l.v = 1
  BY <1>1, <1>2 DEF Aged
<1>3. CASE l.v = -Rise
  <2>1. ~(l.v > 0)
    BY <1>1, <1>3
  <2>2. PICK k \in Nat : a = l.x + k * Rise + k /\ l.x + k * Rise <= Bottom
    BY <2>1 DEF Aged
  <2>3. (k + 1) * Rise = k * Rise + Rise /\ k * Rise \in Nat
    BY <1>1
  <2>4. /\ a + 1 = OneOn(l).x + (k + 1) * Rise + (k + 1)
        /\ OneOn(l).x + (k + 1) * Rise <= Bottom
    BY <1>1, <1>3, <2>2, <2>3
  <2>5. k + 1 \in Nat
    OBVIOUS
  <2>6. QED
    BY <1>1, <2>1, <2>4, <2>5 DEF Aged
<1>4. QED
  BY <1>1, <1>2, <1>3

(* A tick: the clock goes on, every letter is one update older.            *)
LEMMA TickAges ==
  ASSUME AgesInv, Simulate, NEW base, NEW n, NEW k, Before(base, n, k), After(base)
  PROVE  AgesInv'
<1>1. CreatePeriod \in Nat \ {0} /\ now \in 0 .. CreatePeriod - 1
  BY TypingAssumption DEF AgesInv
<1>2. now' = (now + 1) % CreatePeriod /\ (Creates <=> now = 0)
  BY DEF Simulate, Creates
<1>3. /\ now' \in 0 .. CreatePeriod - 1
      /\ SinceNew' = IF Creates THEN 1 ELSE SinceNew + 1
      /\ Creates => SinceNew = CreatePeriod
      /\ SinceNew \in Nat
  <2>1. CASE now + 1 = CreatePeriod
    <3>1. now' = 0
      BY <1>1, <1>2, <2>1
    <3>2. SinceNew' = CreatePeriod
      BY <3>1 DEF SinceNew
    <3>3. QED
      BY <1>1, <1>2, <2>1, <3>1, <3>2 DEF SinceNew
  <2>2. CASE now + 1 # CreatePeriod
    <3>1. now + 1 \in 0 .. CreatePeriod - 1
      BY <1>1, <2>2
    <3>2. now' = now + 1
      BY <1>1, <1>2, <3>1
    <3>3. QED
      BY <1>1, <1>2, <3>1, <3>2 DEF SinceNew
  <2>3. QED
    BY <2>1, <2>2
<1>4. PICK idx : AgedApart(idx)
  BY DEF AgesInv
<1>5. /\ idx \in [Nodes -> Nat]
      /\ \A m \in Nodes : letter[m] # NoLetter =>
                            Aged(letter[m], SinceNew + CreatePeriod * idx[m])
      /\ \A m1, m2 \in Nodes : letter[m1] # NoLetter /\ letter[m2] # NoLetter
                                /\ idx[m1] = idx[m2] => m1 = m2
      /\ letter \in [Nodes -> Letters \cup {NoLetter}]
  BY <1>4 DEF AgedApart, AgesInv
<1> DEFINE new == [m \in Nodes |-> IF ~Creates THEN idx[m]
                                  ELSE IF m = n THEN 0 ELSE idx[m] + 1]
<1>6. new \in [Nodes -> Nat]
  BY <1>5
<1>7. ASSUME NEW m \in Nodes, letter'[m] # NoLetter
      PROVE  /\ base[m] # NoLetter /\ letter'[m] = OneOn(base[m])
             /\ ~(Creates /\ m = n) => letter[m] # NoLetter /\ base[m] = letter[m]
             /\ Creates /\ m = n => base[m] = NewLetter(k)
  <2>1. base[m] # NoLetter /\ letter'[m] = OneOn(base[m])
    BY <1>7 DEF After
  <2>2. CASE Creates
    BY <1>5, <2>1, <2>2 DEF Before
  <2>3. CASE ~Creates
    BY <1>5, <2>1, <2>3 DEF Before
  <2>4. QED
    BY <2>1, <2>2, <2>3
<1>8. ASSUME NEW m \in Nodes, letter'[m] # NoLetter
      PROVE  Aged(letter'[m], SinceNew' + CreatePeriod * new[m])
  <2>1. CASE Creates /\ m = n
    <3>1. letter'[m] = OneOn(NewLetter(k)) /\ k \in Keys
      BY <1>7, <1>8, <2>1 DEF Before
    <3>2. letter'[m].x = 1 /\ letter'[m].v = 1
      BY <3>1, NewLetterFacts
    <3>3. SinceNew' + CreatePeriod * new[m] = 1
      BY <1>1, <1>3, <2>1
    <3>4. QED
      BY <3>2, <3>3 DEF Aged
  <2>2. CASE ~(Creates /\ m = n)
    <3> DEFINE a == SinceNew + CreatePeriod * idx[m]
    <3>1. /\ letter[m] \in Letters /\ letter'[m] = OneOn(letter[m])
          /\ Aged(letter[m], a) /\ OneOn(letter[m]) # NoLetter
      BY <1>5, <1>7, <1>8, <2>2
    <3>2. idx[m] \in Nat /\ CreatePeriod * idx[m] \in Nat /\ a \in Nat
      BY <1>1, <1>3, <1>5
    <3>3. Aged(OneOn(letter[m]), a + 1)
      <4> HIDE DEF a
      <4>1. QED
        BY <3>1, <3>2, AgeStep
    <3>4. SinceNew' + CreatePeriod * new[m] = a + 1
      <4>1. CASE Creates
        <5>1. new[m] = idx[m] + 1
          BY <2>2, <4>1
        <5>2. CreatePeriod * (idx[m] + 1) = CreatePeriod * idx[m] + CreatePeriod
          BY <1>1, <3>2
        <5>3. QED
          BY <1>1, <1>3, <3>2, <4>1, <5>1, <5>2
      <4>2. CASE ~Creates
        <5>1. new[m] = idx[m]
          BY <4>2
        <5>2. QED
          BY <1>3, <3>2, <4>2, <5>1
      <4>3. QED
        BY <4>1, <4>2
    <3> HIDE DEF a, new
    <3>5. QED
      BY <3>1, <3>3, <3>4
  <2>3. QED
    BY <2>1, <2>2
<1>9. ASSUME NEW m1 \in Nodes, NEW m2 \in Nodes, letter'[m1] # NoLetter,
             letter'[m2] # NoLetter, new[m1] = new[m2]
      PROVE  m1 = m2
  <2>1. CASE ~Creates
    BY <1>5, <1>7, <1>9, <2>1
  <2>2. CASE Creates /\ (m1 = n \/ m2 = n)
    <3>1. idx[m1] + 1 # 0 /\ idx[m2] + 1 # 0
      BY <1>5
    <3>2. QED
      BY <1>9, <2>2, <3>1
  <2>3. CASE Creates /\ m1 # n /\ m2 # n
    <3>1. idx[m1] + 1 = idx[m2] + 1 /\ idx[m1] \in Nat /\ idx[m2] \in Nat
      BY <1>5, <1>9, <2>3
    <3>2. idx[m1] = idx[m2]
      BY <3>1
    <3>3. QED
      BY <1>5, <1>7, <1>9, <2>3, <3>2
  <2>4. QED
    BY <2>1, <2>2, <2>3
<1> HIDE DEF new
<1>10. PICK i : i = new
  OBVIOUS
<1>11. AgedApart(i)'
  BY <1>6, <1>8, <1>9, <1>10 DEF AgedApart
<1>12. QED
  BY <1>3, <1>11 DEF AgesInv, After

(* The candidate that is struck is one of the lowest.                      *)
LEMMA TargetIs ==
  ASSUME ScreenOK, Candidates # {}
  PROVE  /\ Target \in Candidates
         /\ \A m \in Candidates : letter[m].x <= letter[Target].x
<1>1. letter \in [Nodes -> Letters \cup {NoLetter}] /\ Bottom \in Nat
  BY LetterFacts DEF ScreenOK, AgesInv
<1>2. PICK u \in Seq(Nodes) : Chain(pool, head) = u /\ OnScreen = Of(u) /\ Of(u) = Shown
  BY <1>1, OnScreenIs DEF ScreenOK
<1>3. \A m \in Candidates : /\ m \in Nodes /\ m \in Of(u) /\ letter[m] \in Letters
                            /\ letter[m].x \in 0 .. Bottom
  BY <1>1, <1>2, LetterFacts DEF Candidates, Shown
<1> DEFINE I == {Bottom - letter[m].x : m \in Candidates}
<1>4. I \in SUBSET Nat /\ I # {}
  BY <1>1, <1>3
<1>5. PICK b \in I : \A j \in I : b <= j
  <2> HIDE DEF I
  <2>1. QED
    BY <1>4, Smallest
<1>6. PICK low \in Candidates : b = Bottom - letter[low].x
  BY <1>5
<1>7. low \in Lowest(Candidates)
  <2>1. ASSUME NEW m \in Candidates
        PROVE  letter[m].x <= letter[low].x
    <3>1. Bottom - letter[low].x <= Bottom - letter[m].x
      BY <1>5, <1>6
    <3>2. QED
      BY <1>1, <1>3, <3>1
  <2>2. QED
    BY <2>1 DEF Lowest
<1> HIDE DEF I
<1> DEFINE N == Lowest(Candidates)
           J == {i \in 1 .. Len(u) : u[i] \in N}
<1>8. J \in SUBSET Nat /\ J # {}
  <2>1. PICK i \in 1 .. Len(u) : u[i] = low
    BY <1>3 DEF Of
  <2>2. i \in J
    BY <1>7, <2>1
  <2>3. Len(u) \in Nat
    OBVIOUS
  <2>4. QED
    BY <2>2, <2>3
<1>9. PICK i \in J : \A j \in J : i <= j
  <2> HIDE DEF J
  <2>1. QED
    BY <1>8, Smallest
<1> DEFINE First(a) == a \in 1 .. Len(u) /\ u[a] \in N /\ \A j \in 1 .. a - 1 : u[j] \notin N
<1>10. First(i)
  <2>1. i \in 1 .. Len(u) /\ Len(u) \in Nat
    OBVIOUS
  <2>2. ASSUME NEW j \in 1 .. i - 1
        PROVE  u[j] \notin N
    <3>1. j \in 1 .. Len(u) /\ ~(i <= j)
      BY <2>1
    <3>2. QED
      BY <1>9, <3>1
  <2>3. QED
    BY <2>1, <2>2
<1>11. Target = u[CHOOSE a \in 1 .. Len(u) : u[a] \in N /\ \A j \in 1 .. a - 1 : u[j] \notin N]
  BY <1>2 DEF Target
<1> HIDE DEF N
<1>12. Target \in N
  BY <1>10, <1>11
<1>13. QED
  BY <1>12 DEF N, Lowest

LEMMA StrikeKeeps ==
  ASSUME ScreenOK, Strike
  PROVE  /\ ScreenOK'
         /\ Target \in Candidates /\ Target \in Nodes
         /\ letter[Target] \in Letters /\ letter[Target].v = 1
         /\ \A m \in Candidates : letter[m].x <= letter[Target].x
         /\ \A m \in Nodes : m # Target => letter'[m] = letter[m]
<1> DEFINE n == Target
<1>1. /\ pool' = pool /\ head' = head /\ now' = now /\ fresh' = fresh
      /\ letter_pressed' = [letter_pressed EXCEPT ![letter[n].text] = FALSE]
      /\ letter' = [letter EXCEPT ![n].v = -Rise]
      /\ Candidates # {}
  BY DEF Strike, clock
<1>2. n \in Candidates /\ \A m \in Candidates : letter[m].x <= letter[n].x
  BY <1>1, TargetIs
<1> HIDE DEF n
<1>3. /\ letter \in [Nodes -> Letters \cup {NoLetter}] /\ ScreenInv /\ FreshInv
      /\ letter_pressed \in [Keys -> BOOLEAN] /\ AgesInv
  BY DEF ScreenOK, AgesInv
<1>4. /\ n \in Nodes /\ letter[n] # NoLetter /\ letter[n].v > 0 /\ letter_pressed[letter[n].text]
  <2>1. OnScreen \subseteq Nodes
    BY <1>3, OnScreenIs DEF Shown
  <2>2. QED
    BY <1>2, <2>1 DEF Candidates, Fell
<1>5. /\ letter[n] \in Letters /\ letter[n].v = 1 /\ Rise \in Nat \ {0}
      /\ letter[n].x \in 0 .. Bottom /\ letter[n].text \in Keys /\ Bottom \in Nat
  BY <1>3, <1>4, LetterFacts
<1> DEFINE l == [letter[n] EXCEPT !.v = -Rise]
<1>6. /\ l \in Letters /\ l # NoLetter /\ l.x = letter[n].x /\ l.v = -Rise
      /\ l.text = letter[n].text
  BY <1>5, LetterFacts DEF Letters
<1>7. /\ letter' \in [Nodes -> Letters \cup {NoLetter}]
      /\ \A m \in Nodes : letter'[m] = IF m = n THEN l ELSE letter[m]
  BY <1>1, <1>3, <1>4, <1>6
<1> HIDE DEF l
<1>8. \A m \in Nodes : letter'[m] # NoLetter <=> letter[m] # NoLetter
  BY <1>4, <1>6, <1>7
<1>9. ScreenInv'
  <2>1. ~Unused
    BY <1>4 DEF Unused
  <2>2. PICK u, f : Shows(ThisTick, u, f)
    BY <1>3, <2>1 DEF ScreenInv
  <2>3. /\ ThisTick \in Screens /\ Lists(pool, head, u, f) /\ Len(f) > 0
        /\ \A m \in Nodes : m \in Of(u) <=> letter[m] # NoLetter
        /\ pool \in Pools /\ head \in Nodes \cup {NULL}
    BY <2>2 DEF Shows, ThisTick, Screens
  <2>4. ThisTick' = [pool |-> pool, head |-> head, letter |-> letter', hit |-> 0, miss |-> 0]
    BY <1>1 DEF ThisTick
  <2>5. ThisTick' \in Screens
    BY <1>7, <2>3, <2>4 DEF Screens
  <2>6. Shows(ThisTick', u, f)
    BY <1>8, <2>3, <2>4, <2>5 DEF Shows
  <2>7. QED
    BY <2>6 DEF ScreenInv
<1>10. AgesInv'
  <2>1. PICK idx : AgedApart(idx)
    BY <1>3 DEF AgesInv
  <2>2. SinceNew' = SinceNew
    BY <1>1 DEF SinceNew
  <2>3. ASSUME NEW m \in Nodes, letter'[m] # NoLetter
        PROVE  Aged(letter'[m], SinceNew + CreatePeriod * idx[m])
    <3>1. Aged(letter[m], SinceNew + CreatePeriod * idx[m])
      BY <1>8, <2>1, <2>3 DEF AgedApart
    <3>2. CASE m = n
      <4> DEFINE a == SinceNew + CreatePeriod * idx[m]
      <4>1. a = l.x /\ letter'[m] = l
        BY <1>5, <1>6, <1>7, <3>1, <3>2 DEF Aged
      <4>2. ~(l.v > 0)
        BY <1>5, <1>6
      <4>3. l.x = l.x + 0 * Rise + 0 /\ l.x + 0 * Rise <= Bottom
        BY <1>5, <1>6
      <4> HIDE DEF a
      <4>4. Aged(l, a)
        BY <4>1, <4>2, <4>3 DEF Aged
      <4>5. QED
        BY <4>1, <4>4 DEF a
    <3>3. CASE m # n
      BY <1>7, <3>1, <3>3
    <3>4. QED
      BY <3>2, <3>3
  <2>4. AgedApart(idx)'
    BY <1>8, <2>1, <2>2, <2>3 DEF AgedApart
  <2>5. QED
    BY <1>1, <1>3, <1>7, <2>4 DEF AgesInv
<1>11. /\ letter_pressed' \in [Keys -> BOOLEAN]
       /\ \A k \in Keys : letter_pressed'[k] => letter_pressed[k]
  BY <1>1, <1>3, <1>5
<1>12. FreshInv'
  <2>1. ASSUME NEW m \in fresh
        PROVE  m \in Nodes /\ letter'[m] # NoLetter /\ ~letter_pressed'[letter'[m].text]
    <3>1. m \in Nodes /\ letter[m] # NoLetter /\ ~letter_pressed[letter[m].text]
      BY <1>3 DEF FreshInv
    <3>2. letter'[m].text = letter[m].text
      BY <1>6, <1>7, <3>1
    <3>3. letter[m].text \in Keys
      BY <1>3, <3>1, LetterFacts
    <3>4. QED
      BY <1>8, <1>11, <3>1, <3>2, <3>3
  <2>2. QED
    BY <1>1, <2>1 DEF FreshInv
<1>13. QED
  BY <1>2, <1>4, <1>5, <1>7, <1>9, <1>10, <1>11, <1>12 DEF ScreenOK, n

LEMMA TickKeeps ==
  ASSUME ScreenOK, Simulate
  PROVE  ScreenOK'
<1>1. /\ letter \in [Nodes -> Letters \cup {NoLetter}] /\ ScreenInv /\ FreshInv
      /\ letter_pressed \in [Keys -> BOOLEAN] /\ AgesInv
  BY DEF ScreenOK, AgesInv
<1>2. PICK base, n, k : Before(base, n, k) /\ After(base)
  BY Simulated
<1>3. ScreenInv'
  BY Simulated DEF ScreenInv
<1>4. AgesInv'
  BY <1>1, <1>2, TickAges
<1>5. /\ letter_pressed' \in [Keys -> BOOLEAN]
      /\ \A x \in Keys : letter_pressed'[x] => letter_pressed[x]
      /\ Creates => ~letter_pressed'[k] /\ k \in Keys
  BY <1>1, <1>2 DEF Before
<1>6. FreshInv'
  <2>1. ASSUME NEW m \in fresh'
        PROVE  m \in Nodes /\ letter'[m] # NoLetter /\ ~letter_pressed'[letter'[m].text]
    <3>1. m \in Nodes /\ letter'[m] # NoLetter
      BY <1>2 DEF Before, Shown
    <3>2. base[m] \in Letters /\ letter'[m] = OneOn(base[m])
      BY <1>2, <3>1 DEF After
    <3>3. letter'[m].text = base[m].text
      BY <3>1, <3>2, LetterFacts
    <3>4. CASE Creates /\ m = n
      <4>1. base[m] = NewLetter(k)
        BY <1>1, <1>2, <3>1, <3>4 DEF Before
      <4>2. QED
        BY <1>5, <3>1, <3>3, <3>4, <4>1 DEF NewLetter
    <3>5. CASE ~(Creates /\ m = n)
      <4>1. m \in fresh /\ base[m] = letter[m]
        BY <1>1, <1>2, <3>1, <3>5 DEF Before
      <4>2. ~letter_pressed[letter[m].text] /\ letter[m].text \in Keys
        BY <1>1, <3>2, <4>1, LetterFacts DEF FreshInv
      <4>3. QED
        BY <1>5, <3>1, <3>3, <4>1, <4>2
    <3>6. QED
      BY <3>4, <3>5
  <2>2. QED
    BY <2>1 DEF FreshInv
<1>7. QED
  BY <1>3, <1>4, <1>5, <1>6 DEF ScreenOK

(* The keyboard's handler marks a key, and its letters are fresh no more.  *)
LEMMA PressKeeps ==
  ASSUME ScreenOK, PressKey, UNCHANGED <<screen, now>>
  PROVE  ScreenOK'
<1>1. /\ letter_pressed' = [k \in Keys |-> letter_pressed[k] \/ k = key_code]
      /\ fresh' = {n \in fresh : letter[n].text # key_code}
      /\ pool' = pool /\ head' = head /\ letter' = letter /\ now' = now
  BY DEF PressKey, screen
<1>2. /\ letter \in [Nodes -> Letters \cup {NoLetter}] /\ ScreenInv /\ FreshInv
      /\ letter_pressed \in [Keys -> BOOLEAN] /\ AgesInv
  BY DEF ScreenOK, AgesInv
<1>3. letter_pressed' \in [Keys -> BOOLEAN]
  <2>1. \A k \in Keys : (letter_pressed[k] \/ k = key_code) \in BOOLEAN
    BY <1>2, Zenon
  <2>2. QED
    BY <1>1, <2>1
<1>4. FreshInv'
  <2>1. ASSUME NEW m \in fresh'
        PROVE  m \in Nodes /\ letter[m] # NoLetter /\ ~letter_pressed'[letter[m].text]
    <3>1. m \in fresh /\ letter[m].text # key_code
      BY <1>1
    <3>2. m \in Nodes /\ letter[m] # NoLetter /\ ~letter_pressed[letter[m].text]
      BY <1>2, <3>1 DEF FreshInv
    <3>3. letter[m].text \in Keys
      BY <1>2, <3>2, LetterFacts
    <3>4. letter_pressed'[letter[m].text] = (letter_pressed[letter[m].text] \/ letter[m].text = key_code)
      BY <1>1, <3>3
    <3>5. QED
      BY <3>1, <3>2, <3>4
  <2>2. QED
    BY <1>1, <2>1 DEF FreshInv
<1>5. ScreenInv' /\ AgesInv'
  BY <1>1, <1>2 DEF ScreenInv, Unused, ThisTick, AgesInv, AgedApart, SinceNew
<1>6. QED
  BY <1>3, <1>4, <1>5 DEF ScreenOK

LEMMA ScreenUnchanged ==
  ASSUME ScreenOK, UNCHANGED <<pool, head, letter, now, letter_pressed, fresh>>
  PROVE  ScreenOK'
BY DEF ScreenOK, ScreenInv, Unused, ThisTick, AgesInv, AgedApart, SinceNew, FreshInv

(* Who changes the screen: Simulate, Strike, and the keyboard's handler.   *)
LEMMA WhoActs ==
  ASSUME [Next]_vars
  PROVE  \/ UNCHANGED <<pool, head, letter, now, todo, letter_pressed, fresh>>
         \/ /\ UNCHANGED <<pool, head, letter, now, letter_pressed, fresh>>
            /\ pc # "simulate"
         \/ Strike /\ pc = "search"
         \/ Simulate /\ pc = "simulate"
         \/ PressKey /\ UNCHANGED <<screen, now, todo>>
<1>1. CASE ExecInst
  <2>1. CASE frames = <<>>
    <3>1. MainStep
      BY <1>1, <2>1 DEF ExecInst
    <3>2. QED
      BY <3>1 DEF MainStep, WaitIntr, Cli, SetTarget, KeypressCli, Strike, KeypressDone,
                  Simulate, screen, clock
  <2>2. CASE frames # <<>>
    <3>1. HandlerStep
      BY <1>1, <2>2 DEF ExecInst
    <3>2. CASE PressKey
      BY <3>1, <3>2 DEF HandlerStep
    <3>3. CASE ~PressKey
      BY <3>1, <3>3 DEF HandlerStep, LoadTick, StoreTick, InByte, SetCode, screen
    <3>4. QED
      BY <3>2, <3>3
  <2>3. QED
    BY <2>1, <2>2
<1>2. CASE Devices
  BY <1>2 DEF Devices, screen, clock
<1>3. CASE DoIntr
  BY <1>3 DEF DoIntr, screen, clock
<1>4. CASE UNCHANGED vars
  BY <1>4 DEF vars, screen, clock
<1>5. QED
  BY <1>1, <1>2, <1>3, <1>4 DEF Next

LEMMA ScreenInductive == Spec => []ScreenOK
<1>1. Init => ScreenOK
  <2> SUFFICES ASSUME Init PROVE ScreenOK
    OBVIOUS
  <2>1. Unused /\ fresh = {} /\ letter_pressed = [k \in Keys |-> FALSE]
    BY DEF Init, Unused
  <2>2. CreatePeriod \in Nat \ {0}
    BY TypingAssumption
  <2>3. PICK idx : idx = [n \in Nodes |-> 0]
    OBVIOUS
  <2>4. AgedApart(idx)
    BY <2>1, <2>3 DEF Unused, AgedApart
  <2>5. AgesInv
    BY <2>1, <2>2, <2>4 DEF AgesInv, Unused
  <2>6. QED
    BY <2>1, <2>5 DEF ScreenOK, ScreenInv, FreshInv
<1>2. ScreenOK /\ [Next]_vars => ScreenOK'
  <2> SUFFICES ASSUME ScreenOK, [Next]_vars PROVE ScreenOK'
    OBVIOUS
  <2>1. CASE UNCHANGED <<pool, head, letter, now, letter_pressed, fresh>>
    BY <2>1, ScreenUnchanged
  <2>2. CASE PressKey /\ UNCHANGED <<screen, now, todo>>
    BY <2>2, PressKeeps
  <2>3. QED
    BY <2>1, <2>2, WhoActs, StrikeKeeps, TickKeeps
<1>3. QED
  BY <1>1, <1>2, PTL DEF Spec

(* The pool of letters: the list and the free list end, share no node and  *)
(* lose none however letters are created in front and leave from anywhere, *)
(* _prev is the converse of _next, and fly_new's assertion holds: letters  *)
(* come one per period, and none stays longer than the pool has periods.   *)
THEOREM PoolIsSound == Spec => []LettersSound
<1>1. ScreenOK => LettersSound
  <2> SUFFICES ASSUME ScreenOK PROVE LettersSound
    OBVIOUS
  <2>1. ScreenInv /\ AgesInv /\ letter \in [Nodes -> Letters \cup {NoLetter}]
    BY DEF ScreenOK, AgesInv
  <2>2. OnScreen = {n \in Nodes : letter[n] # NoLetter}
    BY <2>1, OnScreenIs DEF Shown
  <2>3. NewAsserts(pool)
    BY <2>1, Room
  <2>4. PoolSound(pool, head)
    <3>1. CASE Unused
      <4>1. pool.free = NULL /\ head = NULL
        BY <3>1 DEF Unused, ZeroPool
      <4>2. Linked(pool, NULL, <<>>) /\ Len(<<>>) = 0 /\ Len(<<>>) <= PoolSize + 1
        BY NodeIsNotNull DEF Linked
      <4>3. Chain(pool, NULL) = <<>>
        BY <4>2, ChainIs
      <4>4. \A i \in DOMAIN <<>> : FALSE
        BY <4>2
      <4>5. QED
        BY <4>1, <4>2, <4>3, <4>4 DEF PoolSound
    <3>2. CASE \E u, f : Shows(ThisTick, u, f)
      <4>1. PICK u, f : Shows(ThisTick, u, f)
        BY <3>2
      <4>2. Lists(pool, head, u, f)
        BY <4>1 DEF Shows, ThisTick
      <4>3. /\ Chain(pool, head) = u /\ Chain(pool, pool.free) = f
            /\ Len(u) <= PoolSize + 1 /\ Len(f) <= PoolSize + 1
        BY <4>2, ListsAreChains
      <4>4. DOMAIN u = 1 .. Len(u) /\ DOMAIN f = 1 .. Len(f)
        BY <4>2 DEF Lists, Linked
      <4>5. /\ Of(u) \cap Of(f) = {} /\ Of(u) \cup Of(f) = Nodes
            /\ \A i \in 1 .. Len(u) : pool.prev[u[i]] = IF i = 1 THEN NULL ELSE u[i - 1]
        BY <4>2 DEF Lists
      <4>6. /\ {u[i] : i \in DOMAIN u} = Of(u) /\ {f[i] : i \in DOMAIN f} = Of(f)
        BY <4>4 DEF Of
      <4> HIDE DEF Of
      <4>7. /\ Len(u) <= PoolSize + 1 /\ Len(f) <= PoolSize + 1
            /\ {u[i] : i \in DOMAIN u} \cap {f[i] : i \in DOMAIN f} = {}
            /\ {u[i] : i \in DOMAIN u} \cup {f[i] : i \in DOMAIN f} = Nodes
            /\ \A i \in DOMAIN u : pool.prev[u[i]] = IF i = 1 THEN NULL ELSE u[i - 1]
        BY <4>3, <4>4, <4>5, <4>6, Zenon
      <4>8. Chain(pool, head) = u /\ Chain(pool, pool.free) = f
        BY <4>3
      <4>9. QED
        BY <4>7, <4>8 DEF PoolSound
    <3>3. QED
      BY <2>1, <3>1, <3>2 DEF ScreenInv
  <2>5. QED
    BY <2>2, <2>3, <2>4 DEF LettersSound
<1>2. QED
  BY ScreenInductive, <1>1, PTL

(* A letter is struck only by a press that came after it appeared, and is  *)
(* the lowest unstruck letter of its key.                                  *)
THEOREM Fair == Spec => StrikesFairly
<1> DEFINE A == \A n \in Nodes : Fell(letter[n]) /\ Struck(letter'[n]) =>
                  /\ n \notin fresh
                  /\ \A m \in Nodes : Fell(letter[m]) /\ letter[m].text = letter[n].text =>
                                        letter[m].x <= letter[n].x
<1>1. ScreenOK /\ [Next]_vars => A
  <2> SUFFICES ASSUME ScreenOK, [Next]_vars,
                      NEW n \in Nodes, Fell(letter[n]), Struck(letter'[n])
               PROVE  /\ n \notin fresh
                      /\ \A m \in Nodes :
                           Fell(letter[m]) /\ letter[m].text = letter[n].text =>
                             letter[m].x <= letter[n].x
    OBVIOUS
  <2>1. letter \in [Nodes -> Letters \cup {NoLetter}] /\ ScreenInv /\ FreshInv
    BY DEF ScreenOK, AgesInv
  <2>2. letter[n] \in Letters /\ letter[n].v = 1
    BY <2>1, LetterFacts DEF Fell
  <2>3. letter'[n] # letter[n]
    BY <2>2 DEF Struck
  <2>4. CASE Strike
    <3>1. n = Target
      BY <2>3, <2>4, StrikeKeeps
    <3>2. n \in Candidates /\ \A m \in Candidates : letter[m].x <= letter[n].x
      BY <2>4, <3>1, StrikeKeeps
    <3>3. letter_pressed[letter[n].text]
      BY <3>2 DEF Candidates
    <3>4. n \notin fresh
      BY <2>1, <3>3 DEF FreshInv
    <3>5. ASSUME NEW m \in Nodes, Fell(letter[m]), letter[m].text = letter[n].text
          PROVE  m \in Candidates
      <4>1. m \in OnScreen
        BY <2>1, <3>5, OnScreenIs DEF Shown, Fell
      <4>2. QED
        BY <3>3, <3>5, <4>1 DEF Candidates
    <3>6. QED
      BY <3>2, <3>4, <3>5
  <2>5. CASE Simulate
    <3>1. PICK base, n0, k : Before(base, n0, k) /\ After(base)
      BY <2>5, Simulated
    <3>2. base[n] = letter[n]
      BY <2>1, <2>2, <3>1, LetterFacts DEF Before
    <3>3. letter'[n] = OneOn(letter[n]) /\ letter'[n] # NoLetter
      BY <2>2, <3>1, <3>2 DEF After, Struck
    <3>4. letter'[n].v = 1
      BY <2>2, <3>3, LetterFacts
    <3>5. QED
      BY <3>4 DEF Struck
  <2>6. QED
    BY <2>3, <2>4, <2>5, WhoActs DEF screen
<1>2. ScreenOK /\ [Next]_vars => [A]_vars
  BY <1>1
<1>3. Spec => [][A]_vars
  BY ScreenInductive, <1>2, PTL DEF Spec
<1>4. QED
  BY <1>3 DEF StrikesFairly

(* Every letter that leaves the screen is counted once, as what it is.     *)
THEOREM Honest == Spec => ScoreHonest
<1> DEFINE A == pc = "simulate" /\ todo' # todo =>
                  LET gone == {n \in Nodes : letter[n] # NoLetter /\ letter'[n] = NoLetter} IN
                    /\ hit'  = Cardinality({n \in gone : Struck(letter[n])})
                    /\ miss' = Cardinality({n \in gone : Fell(letter[n])})
<1>1. ScreenOK /\ [Next]_vars => A
  <2> DEFINE gone == {n \in Nodes : letter[n] # NoLetter /\ letter'[n] = NoLetter}
  <2> SUFFICES ASSUME ScreenOK, [Next]_vars, pc = "simulate", todo' # todo
               PROVE  /\ hit'  = Cardinality({n \in gone : Struck(letter[n])})
                      /\ miss' = Cardinality({n \in gone : Fell(letter[n])})
    OBVIOUS
  <2>1. letter \in [Nodes -> Letters \cup {NoLetter}]
    BY DEF ScreenOK, AgesInv
  <2>2. Simulate
    BY WhoActs
  <2>3. PICK base, n0, k : Before(base, n0, k) /\ After(base)
    BY <2>2, Simulated
  <2>4. \A n \in Nodes : \/ base[n] = letter[n]
                         \/ letter[n] = NoLetter /\ \E x \in Keys : base[n] = NewLetter(x)
    BY <2>1, <2>3 DEF Before
  <2>5. \A x \in Keys : /\ NewLetter(x) # NoLetter /\ OneOn(NewLetter(x)) # NoLetter
                        /\ ~(Place(NewLetter(x)) < 0) /\ ~(Place(NewLetter(x)) > Bottom)
    <3>1. ASSUME NEW x \in Keys
          PROVE  /\ NewLetter(x) # NoLetter /\ OneOn(NewLetter(x)) # NoLetter
                 /\ ~(Place(NewLetter(x)) < 0) /\ ~(Place(NewLetter(x)) > Bottom)
      <4>1. Place(NewLetter(x)) = 1 /\ Bottom \in Nat \ {0}
        BY NewLetterFacts, LetterFacts
      <4>2. QED
        BY <4>1, NewLetterFacts
    <3>2. QED
      BY <3>1
  <2>6. ASSUME NEW n \in Nodes
        PROVE  /\ base[n] # NoLetter /\ Place(base[n]) < 0
                    <=> n \in gone /\ Struck(letter[n])
               /\ base[n] # NoLetter /\ Place(base[n]) > Bottom
                    <=> n \in gone /\ Fell(letter[n])
    <3>1. letter'[n] = IF base[n] = NoLetter THEN NoLetter ELSE OneOn(base[n])
      BY <2>3 DEF After
    <3>2. CASE letter[n] = NoLetter
      <4>1. n \notin gone
        BY <3>2
      <4>2. base[n] = NoLetter \/ \E x \in Keys : base[n] = NewLetter(x)
        BY <2>4, <3>2
      <4>3. QED
        BY <2>5, <4>1, <4>2
    <3>3. CASE letter[n] # NoLetter
      <4>1. letter[n] \in Letters /\ base[n] = letter[n] /\ letter'[n] = OneOn(letter[n])
        BY <2>1, <2>4, <3>1, <3>3
      <4>2. n \in gone <=> Place(letter[n]) < 0 \/ Place(letter[n]) > Bottom
        BY <3>3, <4>1, LetterFacts
      <4>3. /\ Place(letter[n]) < 0 <=> (Place(letter[n]) < 0 \/ Place(letter[n]) > Bottom)
                                           /\ letter[n].v < 0
            /\ Place(letter[n]) > Bottom <=> (Place(letter[n]) < 0 \/ Place(letter[n]) > Bottom)
                                           /\ letter[n].v > 0
        <5>1. /\ letter[n].x \in Nat /\ letter[n].x <= Bottom /\ Bottom \in Nat
              /\ (letter[n].v = 1 \/ letter[n].v = -Rise) /\ Rise \in Nat \ {0}
          BY <4>1, LetterFacts
        <5>2. Place(letter[n]) = letter[n].x + letter[n].v
          BY DEF Place
        <5>3. QED
          BY <5>1, <5>2
      <4>4. QED
        BY <3>3, <4>1, <4>2, <4>3 DEF Struck, Fell
    <3>4. QED
      BY <3>2, <3>3
  <2>7. /\ {n \in Nodes : base[n] # NoLetter /\ Place(base[n]) < 0}
             = {n \in gone : Struck(letter[n])}
        /\ {n \in Nodes : base[n] # NoLetter /\ Place(base[n]) > Bottom}
             = {n \in gone : Fell(letter[n])}
    <3>1. gone \subseteq Nodes
      OBVIOUS
    <3> HIDE DEF gone
    <3>2. QED
      BY <2>6, <3>1
  <2>8. QED
    BY <2>3, <2>7 DEF After
<1>2. ScreenOK /\ [Next]_vars => [A]_vars
  BY <1>1
<1>3. Spec => [][A]_vars
  BY ScreenInductive, <1>2, PTL DEF Spec
<1>4. QED
  BY <1>3, PTL DEF ScoreHonest

-----------------------------------------------------------------------------
(* The clock: the ticks that lie ahead of main_loop, those a handler has   *)
(* yet to count and the one the controller holds.  The bound on lag is     *)
(* inductive only for their sum, and a handler interrupted between load    *)
(* and store must not have loaded more than a later one.                   *)
Waiting == IF i8259_intr_no = TimerNo THEN 1 ELSE 0
Ticks   == lag + Cardinality(TimerFrames) + Waiting

Stored(i) == frames[i].pc = "store_tick"

ClockInv ==
  /\ Ticks <= MaxLag + 1
  /\ pc = "wait_intr" => Ticks <= MaxLag
  /\ is_nemu_hlt => frames = <<>> /\ lag <= MaxLag /\ pc = "cli"
  /\ todo \in 0 .. MaxLag + 1
  /\ \A i \in 1 .. Len(frames) : Stored(i) => frames[i].r <= lag
  /\ \A i, j \in 1 .. Len(frames) : Stored(i) /\ Stored(j) /\ j <= i =>
                                      frames[j].r <= frames[i].r

LEMMA TicksType ==
  ASSUME MachineOK
  PROVE  /\ IsFiniteSet(TimerFrames) /\ Cardinality(TimerFrames) \in Nat
         /\ Waiting \in {0, 1} /\ Ticks \in Nat /\ MaxLag \in Nat \ {0}
         /\ frames = <<>> => Cardinality(TimerFrames) = 0
         /\ TimerFrames # {} => Cardinality(TimerFrames) > 0
<1>1. frames \in Seq(Frame) /\ lag \in Nat /\ MaxLag \in Nat \ {0}
  BY TypingAssumption DEF MachineOK
<1>2. IsFiniteSet(1 .. Len(frames))
  BY <1>1, FS_Interval
<1>3. IsFiniteSet(TimerFrames) /\ Cardinality(TimerFrames) \in Nat
  <2>1. TimerFrames \in SUBSET (1 .. Len(frames))
    BY DEF TimerFrames
  <2>2. QED
    BY <1>2, <2>1, FS_Subset, FS_CardinalityType
<1>4. Waiting \in {0, 1}
  BY DEF Waiting
<1>5. Ticks \in Nat
  BY <1>1, <1>3, <1>4 DEF Ticks
<1>6. Cardinality(TimerFrames) = 0 <=> TimerFrames = {}
  BY <1>3, FS_EmptySet
<1>7. frames = <<>> => TimerFrames = {}
  BY DEF TimerFrames
<1>8. QED
  BY <1>1, <1>3, <1>4, <1>5, <1>6, <1>7

(* main_loop only counts ticks down.                                       *)
LEMMA MainClock ==
  ASSUME IInv, IInv', ClockInv, ExecInst, frames = <<>>
  PROVE  ClockInv'
<1>1. MachineOK /\ MachineOK' /\ TickInv /\ TickInv'
  BY DEF IInv
<1>2. MainStep /\ ~is_nemu_hlt
  BY DEF ExecInst
<1>3. frames' = frames /\ i8259_intr_no' = i8259_intr_no
  BY <1>2 DEF MainStep, WaitIntr, Cli, SetTarget, KeypressCli, Strike, KeypressDone,
              Simulate, machine
<1>4. /\ Cardinality(TimerFrames) = 0 /\ Cardinality(TimerFrames)' = 0
      /\ Waiting' = Waiting /\ Waiting \in {0, 1} /\ MaxLag \in Nat \ {0}
      /\ lag \in Nat /\ lag' \in Nat /\ todo' \in Int
      /\ Ticks = lag + Waiting /\ Ticks' = lag' + Waiting
  <2>1. TimerFrames' = TimerFrames /\ Waiting' = Waiting
    BY <1>3 DEF TimerFrames, Waiting
  <2>2. Cardinality(TimerFrames) = 0 /\ Waiting \in {0, 1} /\ MaxLag \in Nat \ {0}
    BY <1>1, TicksType
  <2>3. lag \in Nat /\ lag' \in Nat /\ todo' \in Int
    BY <1>1 DEF MachineOK
  <2>4. QED
    BY <2>1, <2>2, <2>3 DEF Ticks
<1>5. Len(frames) = 0 /\ Len(frames') = 0
  BY <1>3
<1>6. /\ lag + Waiting <= MaxLag + 1
      /\ pc = "wait_intr" => lag + Waiting <= MaxLag
      /\ todo \in 0 .. MaxLag + 1
  BY <1>4 DEF ClockInv
<1>7. /\ lag' + Waiting <= MaxLag + 1
      /\ pc' = "wait_intr" => lag' + Waiting <= MaxLag
      /\ is_nemu_hlt' => lag' <= MaxLag /\ pc' = "cli"
      /\ todo' \in 0 .. MaxLag + 1
  <2>1. CASE WaitIntr
    <3>1. pc = "wait_intr" /\ pc' = "cli" /\ lag' = lag /\ todo' = todo
      BY <2>1 DEF WaitIntr, clock
    <3>2. QED
      BY <1>4, <1>6, <3>1
  <2>2. CASE Cli \/ KeypressCli \/ Strike \/ KeypressDone
    <3>1. pc' # "wait_intr" /\ lag' = lag /\ todo' = todo /\ ~is_nemu_hlt'
      BY <1>2, <2>2 DEF Cli, KeypressCli, Strike, KeypressDone, clock, machine
    <3>2. QED
      BY <1>4, <1>6, <3>1
  <2>3. CASE SetTarget
    <3>1. /\ lag' = lag /\ todo' = lag /\ ~is_nemu_hlt'
          /\ pc' = "wait_intr" => lag = 0
      BY <1>2, <2>3 DEF SetTarget
    <3>2. QED
      BY <1>4, <1>6, <3>1
  <2>4. CASE Simulate
    <3>1. /\ lag' = lag - 1 /\ todo' = todo - 1 /\ ~is_nemu_hlt' /\ pc = "simulate"
      BY <1>2, <2>4 DEF Simulate, machine
    <3>2. 1 <= todo
      BY <1>1, <3>1 DEF TickInv
    <3>3. QED
      BY <1>4, <1>6, <3>1, <3>2
  <2>5. QED
    BY <1>2, <2>1, <2>2, <2>3, <2>4 DEF MainStep
<1>8. is_nemu_hlt' => frames' = <<>>
  BY <1>3
<1>9. \A i \in 1 .. Len(frames') : FALSE
  BY <1>5
<1>10. /\ Ticks' <= MaxLag + 1
       /\ pc' = "wait_intr" => Ticks' <= MaxLag
       /\ is_nemu_hlt' => frames' = <<>> /\ lag' <= MaxLag /\ pc' = "cli"
       /\ todo' \in 0 .. MaxLag + 1
  BY <1>4, <1>7, <1>8
<1>11. QED
  BY <1>9, <1>10 DEF ClockInv

(* The timer's handler: what it stores is one more than what it loaded,    *)
(* and what it loaded was not more than tick.                              *)
LEMMA TimerClock ==
  ASSUME IInv, IInv', ClockInv, ExecInst, frames # <<>>, LoadTick \/ StoreTick
  PROVE  ClockInv'
<1>1. MachineOK /\ MachineOK' /\ TickInv
  BY DEF IInv
<1>2. /\ HandlerStep /\ ~is_nemu_hlt /\ UNCHANGED <<i8259_intr_no, is_nemu_hlt, pc, todo>>
      /\ Waiting' = Waiting
  BY DEF ExecInst, HandlerStep, Waiting
<1>3. /\ Cardinality(TimerFrames) \in Nat /\ Cardinality(TimerFrames)' \in Nat
      /\ IsFiniteSet(TimerFrames) /\ Waiting \in {0, 1} /\ MaxLag \in Nat \ {0}
      /\ lag \in Nat /\ lag' \in Nat
  <2>1. IsFiniteSet(TimerFrames) /\ Waiting \in {0, 1} /\ MaxLag \in Nat \ {0}
        /\ Cardinality(TimerFrames) \in Nat
    BY <1>1, TicksType
  <2>2. Cardinality(TimerFrames)' \in Nat
    <3>1. frames' \in Seq(Frame)
      BY <1>1 DEF MachineOK
    <3>2. IsFiniteSet(1 .. Len(frames'))
      BY <3>1, FS_Interval
    <3>3. TimerFrames' \in SUBSET (1 .. Len(frames'))
      BY DEF TimerFrames
    <3>4. IsFiniteSet(TimerFrames')
      BY <3>2, <3>3, FS_Subset
    <3>5. QED
      BY <3>4, FS_CardinalityType
  <2>3. QED
    BY <1>1, <2>1, <2>2 DEF MachineOK
<1>4. /\ lag + Cardinality(TimerFrames) + Waiting <= MaxLag + 1
      /\ pc = "wait_intr" => lag + Cardinality(TimerFrames) + Waiting <= MaxLag
      /\ todo \in 0 .. MaxLag + 1
      /\ \A i \in 1 .. Len(frames) : Stored(i) => frames[i].r <= lag
      /\ \A i, j \in 1 .. Len(frames) : Stored(i) /\ Stored(j) /\ j <= i =>
                                          frames[j].r <= frames[i].r
  BY DEF ClockInv, Ticks
<1>5. CASE LoadTick
  <2>1. Step("store_tick", lag) /\ lag' = lag /\ top.pc = "load_tick"
    BY <1>5 DEF LoadTick, At
  <2>2. /\ Len(frames) \in Nat \ {0} /\ Len(frames') = Len(frames)
        /\ frames'[Len(frames)] = [pc |-> "store_tick", r |-> lag]
        /\ \A i \in 1 .. Len(frames) : i # Len(frames) => frames'[i] = frames[i]
    BY <1>1, <1>3, <2>1, TopReplaced DEF Labels
  <2>3. TimerFrames' = TimerFrames
    <3>1. ASSUME NEW i \in 1 .. Len(frames)
          PROVE  frames'[i].pc \in {"load_tick", "store_tick"}
                   <=> frames[i].pc \in {"load_tick", "store_tick"}
      <4>1. CASE i = Len(frames)
        BY <2>1, <2>2, <4>1 DEF top
      <4>2. CASE i # Len(frames)
        BY <2>2, <4>2
      <4>3. QED
        BY <4>1, <4>2
    <3>2. QED
      BY <2>2, <3>1 DEF TimerFrames
  <2>4. Ticks' = lag + Cardinality(TimerFrames) + Waiting
    BY <1>2, <2>1, <2>3 DEF Ticks
  <2>5. ASSUME NEW i \in 1 .. Len(frames'), Stored(i)'
        PROVE  frames'[i].r <= lag'
    <3>1. CASE i = Len(frames)
      BY <1>3, <2>1, <2>2, <3>1
    <3>2. CASE i # Len(frames)
      BY <1>4, <2>1, <2>2, <2>5, <3>2 DEF Stored
    <3>3. QED
      BY <3>1, <3>2
  <2>6. ASSUME NEW i \in 1 .. Len(frames'), NEW j \in 1 .. Len(frames'),
               Stored(i)', Stored(j)', j <= i
        PROVE  frames'[j].r <= frames'[i].r
    <3>1. CASE i = Len(frames)
      BY <2>1, <2>2, <2>5, <2>6, <3>1
    <3>2. CASE i # Len(frames)
      <4>1. j # Len(frames) /\ i \in 1 .. Len(frames) /\ j \in 1 .. Len(frames)
        BY <2>2, <2>6, <3>2
      <4>2. frames'[i] = frames[i] /\ frames'[j] = frames[j]
        BY <2>2, <3>2, <4>1
      <4>3. Stored(i) /\ Stored(j)
        BY <2>6, <4>2 DEF Stored
      <4>4. QED
        BY <1>4, <2>6, <4>1, <4>2, <4>3
    <3>3. QED
      BY <3>1, <3>2
  <2>7. QED
    BY <1>2, <1>4, <2>4, <2>5, <2>6 DEF ClockInv
<1>6. CASE StoreTick
  <2>1. Iret /\ lag' = frames[Len(frames)].r + 1 /\ frames[Len(frames)].pc = "store_tick"
    BY <1>6 DEF StoreTick, At, top
  <2>2. /\ Len(frames) \in Nat \ {0} /\ Len(frames') = Len(frames) - 1
        /\ \A i \in 1 .. Len(frames') : i \in 1 .. Len(frames) /\ i # Len(frames)
                                       /\ frames'[i] = frames[i]
    BY <1>1, <2>1, TopPopped
  <2> DEFINE n == Len(frames)
  <2>3. n \in 1 .. Len(frames) /\ Stored(n) /\ frames[n].r \in Nat /\ frames[n].r <= lag
    <3>1. n \in 1 .. Len(frames) /\ Stored(n)
      BY <2>1, <2>2 DEF Stored
    <3>2. QED
      BY <1>1, <1>4, <3>1 DEF MachineOK, Stored
  <2>4. Cardinality(TimerFrames') = Cardinality(TimerFrames) - 1
    <3>1. n \in TimerFrames
      BY <2>1, <2>3 DEF TimerFrames
    <3>2. TimerFrames' = TimerFrames \ {n}
      <4>1. \A i \in 1 .. Len(frames) : i # n => i \in 1 .. Len(frames')
        BY <2>2
      <4>2. QED
        BY <2>2, <4>1 DEF TimerFrames
    <3>3. QED
      BY <1>3, <3>1, <3>2, FS_RemoveElement
  <2>5. Ticks' <= lag + Cardinality(TimerFrames) + Waiting
    <3>1. Ticks' = frames[n].r + 1 + (Cardinality(TimerFrames) - 1) + Waiting
      BY <1>2, <2>1, <2>4 DEF Ticks
    <3>2. /\ Cardinality(TimerFrames) \in Int /\ Waiting \in Int /\ lag \in Int
          /\ frames[n].r \in Int /\ frames[n].r <= lag
      BY <1>3, <2>3
    <3> HIDE DEF n
    <3>3. QED
      BY <3>1, <3>2
  <2>6. Ticks' \in Nat
    BY <1>1, <1>2, <1>3, <2>4 DEF Ticks
  <2>7. ASSUME NEW i \in 1 .. Len(frames'), Stored(i)'
        PROVE  frames'[i].r <= lag'
    <3>1. i \in 1 .. Len(frames) /\ frames'[i] = frames[i] /\ Stored(i) /\ i <= n
      BY <2>2, <2>7 DEF Stored
    <3>2. frames[i].r <= frames[n].r /\ frames[i].r \in Nat
      BY <1>1, <1>4, <2>3, <3>1 DEF MachineOK, Stored
    <3>3. QED
      BY <2>1, <2>3, <3>1, <3>2
  <2>8. ASSUME NEW i \in 1 .. Len(frames'), NEW j \in 1 .. Len(frames'),
               Stored(i)', Stored(j)', j <= i
        PROVE  frames'[j].r <= frames'[i].r
    <3>1. /\ i \in 1 .. Len(frames) /\ frames'[i] = frames[i] /\ Stored(i)
          /\ j \in 1 .. Len(frames) /\ frames'[j] = frames[j] /\ Stored(j)
      BY <2>2, <2>8 DEF Stored
    <3>2. QED
      BY <1>4, <2>8, <3>1
  <2> HIDE DEF n
  <2>9. /\ Ticks' <= MaxLag + 1
        /\ pc' = "wait_intr" => Ticks' <= MaxLag
    BY <1>2, <1>3, <1>4, <2>5, <2>6
  <2>10. QED
    BY <1>2, <1>4, <2>7, <2>8, <2>9 DEF ClockInv
<1>7. QED
  BY <1>5, <1>6

(* The keyboard's handler does not touch the clock.                        *)
LEMMA KeyClock ==
  ASSUME IInv, IInv', ClockInv, ExecInst, frames # <<>>, InByte \/ SetCode \/ PressKey
  PROVE  ClockInv'
<1>1. MachineOK
  BY DEF IInv
<1>2. /\ ~is_nemu_hlt /\ UNCHANGED <<i8259_intr_no, is_nemu_hlt, pc, todo, lag>>
      /\ Waiting' = Waiting
  BY DEF ExecInst, HandlerStep, InByte, SetCode, PressKey, Waiting
<1>3. /\ \A i \in 1 .. Len(frames') : /\ i \in 1 .. Len(frames)
                                      /\ frames'[i] = frames[i] \/ ~Stored(i)'
      /\ TimerFrames' = TimerFrames
  <2>1. CASE InByte \/ SetCode
    <3>1. PICK label \in {"set_code", "press_key"}, r \in Nat \cup Typed \cup {NoKey} :
            Step(label, r)
      <4>1. CASE InByte
        BY <1>1, <4>1 DEF InByte, MachineOK
      <4>2. CASE SetCode
        BY <4>2 DEF SetCode
      <4>3. QED
        BY <2>1, <4>1, <4>2
    <3>2. frames[Len(frames)].pc \in {"in_byte", "set_code"}
      BY <2>1 DEF InByte, SetCode, At, top
    <3>3. label \in Labels
      BY DEF Labels
    <3>4. /\ Len(frames) \in Nat \ {0} /\ Len(frames') = Len(frames)
          /\ frames'[Len(frames)] = [pc |-> label, r |-> r]
          /\ \A i \in 1 .. Len(frames) : i # Len(frames) => frames'[i] = frames[i]
      BY <1>1, <3>1, <3>3, TopReplaced
    <3>5. ASSUME NEW i \in 1 .. Len(frames)
          PROVE  /\ frames'[i] = frames[i] \/ ~Stored(i)'
                 /\ frames'[i].pc \in {"load_tick", "store_tick"}
                      <=> frames[i].pc \in {"load_tick", "store_tick"}
      <4>1. CASE i = Len(frames)
        BY <3>1, <3>2, <3>4, <4>1 DEF Stored
      <4>2. CASE i # Len(frames)
        BY <3>4, <4>2
      <4>3. QED
        BY <4>1, <4>2
    <3>6. QED
      BY <3>4, <3>5 DEF TimerFrames
  <2>2. CASE PressKey
    <3>1. Iret /\ frames[Len(frames)].pc = "press_key"
      BY <2>2 DEF PressKey, At, top
    <3>2. /\ Len(frames) \in Nat \ {0} /\ Len(frames') = Len(frames) - 1
          /\ \A i \in 1 .. Len(frames') : i \in 1 .. Len(frames) /\ i # Len(frames)
                                         /\ frames'[i] = frames[i]
      BY <1>1, <3>1, TopPopped
    <3>3. \A i \in 1 .. Len(frames) : i = Len(frames) \/ i \in 1 .. Len(frames')
      BY <3>2
    <3>4. QED
      BY <3>1, <3>2, <3>3 DEF TimerFrames
  <2>3. QED
    BY <2>1, <2>2
<1>4. Ticks' = Ticks
  BY <1>2, <1>3 DEF Ticks
<1>5. \A i \in 1 .. Len(frames') : Stored(i)' => /\ i \in 1 .. Len(frames)
                                                 /\ frames'[i] = frames[i] /\ Stored(i)
  BY <1>3 DEF Stored
<1>6. QED
  BY <1>2, <1>4, <1>5 DEF ClockInv

(* A tick comes only to a game that is not too far behind.                 *)
LEMMA DevicesClock ==
  ASSUME IInv, IInv', ClockInv, Devices
  PROVE  ClockInv'
<1>1. MachineOK
  BY DEF IInv
<1>2. UNCHANGED <<frames, pc, lag, todo, is_nemu_hlt>>
  BY DEF Devices, clock
<1>3. PICK slot \in PollTimer(i8259_intr_no) :
        i8259_intr_no' = slot \/ i8259_intr_no' = SlotAfterRaise(slot, KEYBOARD_IRQ)
  BY DEF Devices
<1>4. /\ Cardinality(TimerFrames) \in Nat /\ Cardinality(TimerFrames)' = Cardinality(TimerFrames)
      /\ Waiting \in {0, 1} /\ Waiting' \in {0, 1} /\ MaxLag \in Nat \ {0} /\ lag \in Nat
      /\ frames = <<>> => Cardinality(TimerFrames) = 0
  <2>1. TimerFrames' = TimerFrames
    BY <1>2 DEF TimerFrames
  <2>2. Waiting' \in {0, 1}
    BY DEF Waiting
  <2>3. QED
    BY <1>1, <2>1, <2>2, TicksType DEF MachineOK
<1>5. \/ Waiting' <= Waiting
      \/ is_nemu_hlt \/ lag + Cardinality(TimerFrames) < MaxLag
  <2>1. CASE is_nemu_hlt \/ lag + Cardinality(TimerFrames) < MaxLag
    BY <2>1
  <2>2. CASE ~(is_nemu_hlt \/ lag + Cardinality(TimerFrames) < MaxLag)
    <3>1. slot = i8259_intr_no
      BY <1>3, <2>2 DEF PollTimer
    <3>2. slot \in {I8259_NO_INTR, TimerNo, KeyNo}
      BY <1>1, <3>1 DEF MachineOK
    <3>3. i8259_intr_no' = slot \/ i8259_intr_no' = KeyNo
      BY <1>3, <3>2, Raised
    <3>4. KeyNo # TimerNo
      BY DEF KeyNo, TimerNo, TIMER_IRQ, KEYBOARD_IRQ, IRQ_BASE
    <3>5. QED
      BY <3>1, <3>3, <3>4, <1>4 DEF Waiting
  <2>3. QED
    BY <2>1, <2>2
<1>6. /\ lag + Cardinality(TimerFrames) + Waiting <= MaxLag + 1
      /\ pc = "wait_intr" => lag + Cardinality(TimerFrames) + Waiting <= MaxLag
      /\ is_nemu_hlt => frames = <<>> /\ lag <= MaxLag /\ pc = "cli"
  BY DEF ClockInv, Ticks
<1>7. /\ lag + Cardinality(TimerFrames) + Waiting' <= MaxLag + 1
      /\ pc = "wait_intr" => lag + Cardinality(TimerFrames) + Waiting' <= MaxLag
  BY <1>4, <1>5, <1>6
<1>8. Ticks' = lag + Cardinality(TimerFrames) + Waiting'
  BY <1>2, <1>4 DEF Ticks
<1>9. QED
  BY <1>2, <1>7, <1>8 DEF ClockInv, Stored

(* A delivery moves a tick from the controller to a handler.               *)
LEMMA DeliveryClock ==
  ASSUME IInv, IInv', ClockInv, DoIntr
  PROVE  ClockInv'
<1>1. MachineOK
  BY DEF IInv
<1>2. /\ UNCHANGED <<pc, lag, todo>> /\ ~is_nemu_hlt'
      /\ i8259_intr_no' = I8259_NO_INTR
  BY DEF DoIntr, clock
<1>3. PICK entry \in HandlerOf(i8259_intr_no) \cap {"in_byte", "load_tick"} :
        frames' = Append(frames, [pc |-> entry, r |-> NoKey])
  BY DEF DoIntr
<1>4. entry \in {"in_byte", "load_tick"} /\ entry \in Labels
  BY <1>3 DEF Labels
<1>5. /\ Len(frames) \in Nat /\ Len(frames') = Len(frames) + 1
      /\ frames'[Len(frames) + 1] = [pc |-> entry, r |-> NoKey]
      /\ \A i \in 1 .. Len(frames) : frames'[i] = frames[i]
  BY <1>1, <1>3, <1>4, TopPushed
<1>6. /\ \A i \in 1 .. Len(frames') : i \in 1 .. Len(frames) \/ i = Len(frames) + 1
      /\ \A i \in 1 .. Len(frames) : i \in 1 .. Len(frames') /\ i # Len(frames) + 1
      /\ Len(frames) + 1 \in 1 .. Len(frames')
  BY <1>5
<1>7. /\ Cardinality(TimerFrames) \in Nat /\ IsFiniteSet(TimerFrames)
      /\ Waiting \in {0, 1} /\ MaxLag \in Nat \ {0} /\ lag \in Nat
  BY <1>1, TicksType DEF MachineOK
<1>8. Waiting' = 0
  BY <1>2 DEF Waiting, TimerNo, I8259_NO_INTR, IRQ_BASE, TIMER_IRQ
<1>9. Cardinality(TimerFrames)' + Waiting' <= Cardinality(TimerFrames) + Waiting
      /\ Cardinality(TimerFrames)' \in Nat
  <2>1. CASE entry = "load_tick"
    <3>1. i8259_intr_no = TimerNo
      <4>1. i8259_intr_no \in {TimerNo, KeyNo}
        BY <1>1 DEF MachineOK, DoIntr, Deliverable
      <4>2. i8259_intr_no # KeyNo
        BY <1>3, <2>1 DEF HandlerOf, KeyNo
      <4>3. QED
        BY <4>1, <4>2
    <3>2. TimerFrames' = TimerFrames \cup {Len(frames) + 1}
      BY <1>5, <1>6, <2>1 DEF TimerFrames
    <3>3. Len(frames) + 1 \notin TimerFrames
      BY <1>6 DEF TimerFrames
    <3>4. Cardinality(TimerFrames') = Cardinality(TimerFrames) + 1
      BY <1>7, <3>2, <3>3, FS_AddElement
    <3>5. Waiting = 1
      BY <3>1 DEF Waiting
    <3>6. QED
      BY <1>7, <1>8, <3>4, <3>5
  <2>2. CASE entry = "in_byte"
    <3>1. TimerFrames' = TimerFrames
      BY <1>5, <1>6, <2>2 DEF TimerFrames
    <3>2. QED
      BY <1>7, <1>8, <3>1
  <2>3. QED
    BY <1>4, <2>1, <2>2
<1>10. Ticks' <= Ticks /\ Ticks' \in Nat /\ Ticks \in Nat
  BY <1>2, <1>7, <1>8, <1>9 DEF Ticks
<1>11. \A i \in 1 .. Len(frames') : Stored(i)' => /\ i \in 1 .. Len(frames)
                                                  /\ frames'[i] = frames[i] /\ Stored(i)
  BY <1>4, <1>5, <1>6 DEF Stored
<1>12. /\ Ticks' <= MaxLag + 1
       /\ pc' = "wait_intr" => Ticks' <= MaxLag
  BY <1>2, <1>7, <1>10 DEF ClockInv
<1>13. QED
  BY <1>2, <1>11, <1>12 DEF ClockInv

LEMMA ClockInductive == Spec => []ClockInv
<1>1. Init => ClockInv
  <2> SUFFICES ASSUME Init PROVE ClockInv
    OBVIOUS
  <2>1. /\ frames = <<>> /\ lag = 0 /\ todo = 0 /\ ~is_nemu_hlt
        /\ i8259_intr_no = I8259_NO_INTR /\ MachineOK
    BY DEF Init, MachineOK
  <2>2. Cardinality(TimerFrames) = 0 /\ MaxLag \in Nat \ {0}
    BY <2>1, TicksType
  <2>3. Waiting = 0
    BY <2>1 DEF Waiting, TimerNo, I8259_NO_INTR, IRQ_BASE, TIMER_IRQ
  <2>4. Ticks = 0
    BY <2>1, <2>2, <2>3 DEF Ticks
  <2>5. \A i \in 1 .. Len(frames) : FALSE
    BY <2>1
  <2>6. QED
    BY <2>1, <2>2, <2>4, <2>5 DEF ClockInv
<1>2. IInv /\ IInv' /\ ClockInv /\ [Next]_vars => ClockInv'
  <2> SUFFICES ASSUME IInv, IInv', ClockInv, [Next]_vars PROVE ClockInv'
    OBVIOUS
  <2>1. CASE ExecInst
    <3>1. CASE frames = <<>>
      BY <2>1, <3>1, MainClock
    <3>2. CASE frames # <<>>
      <4>1. HandlerStep
        BY <2>1, <3>2 DEF ExecInst
      <4>2. QED
        BY <2>1, <3>2, <4>1, TimerClock, KeyClock DEF HandlerStep
    <3>3. QED
      BY <3>1, <3>2
  <2>2. CASE UNCHANGED vars
    BY <2>2 DEF vars, machine, clock, ClockInv, Ticks, Waiting, TimerFrames, Stored
  <2>3. QED
    BY <2>1, <2>2, DevicesClock, DeliveryClock DEF Next
<1>3. QED
  BY <1>1, <1>2, Inductive, PTL DEF Spec

-----------------------------------------------------------------------------
(* What is left of the type invariant: registers, keys, and the stack.     *)
Deep == /\ Len(frames) <= MaxDepth
        /\ \A i \in 1 .. Len(frames) :
             frames[i].pc = "set_code" => frames[i].r \in Typed \cup {NoKey}

RestInv ==
  /\ is_nemu_hlt \in BOOLEAN /\ IF_ \in BOOLEAN
  /\ key_code \in Typed \cup {NoKey} /\ owed \in Typed \cup {NoKey}
  /\ events \in 0 .. MaxEvents
  /\ Deep
  /\ pc \in {"wait_intr", "cli", "target", "keys", "search", "simulate"}
  /\ hit \in Nat /\ miss \in Nat

LEMMA MainRest ==
  ASSUME ScreenOK, RestInv, ExecInst, frames = <<>>
  PROVE  RestInv'
<1>1. MainStep /\ UNCHANGED scan_code_buf /\ owed' = owed /\ events' = 0
  BY DEF ExecInst, At
<1>2. UNCHANGED <<frames, key_code>>
  BY <1>1 DEF MainStep, WaitIntr, Cli, SetTarget, KeypressCli, Strike, KeypressDone,
              Simulate
<1>3. /\ is_nemu_hlt' \in BOOLEAN /\ IF_' \in BOOLEAN
      /\ pc' \in {"wait_intr", "cli", "target", "keys", "search", "simulate"}
  BY <1>1 DEF RestInv, MainStep, WaitIntr, Cli, SetTarget, KeypressCli, Strike,
              KeypressDone, Simulate, machine
<1>4. hit' \in Nat /\ miss' \in Nat
  <2>1. CASE NoScore
    BY <2>1 DEF NoScore
  <2>2. CASE Simulate
    BY <2>2, Simulated DEF After
  <2>3. QED
    BY <1>1, <2>1, <2>2 DEF MainStep
<1>5. Deep'
  BY <1>2 DEF RestInv, Deep
<1>6. events' \in 0 .. MaxEvents
  BY <1>1, TypingAssumption
<1>7. QED
  BY <1>1, <1>2, <1>3, <1>4, <1>5, <1>6 DEF RestInv

LEMMA HandlerRest ==
  ASSUME IInv, RestInv, ExecInst, frames # <<>>
  PROVE  RestInv'
<1>1. MachineOK
  BY DEF IInv
<1>2. HandlerStep /\ owed' \in {owed, NoKey} /\ events' = events
  BY DEF ExecInst
<1>3. /\ UNCHANGED <<is_nemu_hlt, pc>> /\ hit' = 0 /\ miss' = 0
  BY <1>2 DEF HandlerStep, NoScore
<1>4. IF_' \in BOOLEAN /\ key_code' \in Typed \cup {NoKey}
  <2>1. CASE SetCode
    <3>1. frames \in Seq(Frame) /\ Len(frames) \in 1 .. Len(frames)
      BY <1>1 DEF MachineOK
    <3>2. frames[Len(frames)].pc = "set_code" /\ key_code' = frames[Len(frames)].r
      BY <2>1 DEF SetCode, At, top
    <3>3. key_code' \in Typed \cup {NoKey}
      BY <3>1, <3>2 DEF RestInv, Deep
    <3>4. QED
      BY <2>1, <3>3 DEF SetCode, RestInv
  <2>2. QED
    BY <1>2, <2>1 DEF HandlerStep, LoadTick, StoreTick, InByte, PressKey, Iret, RestInv
<1>5. Deep'
  <2>1. CASE Iret
    <3>1. /\ Len(frames) \in Nat /\ Len(frames') = Len(frames) - 1
          /\ \A i \in 1 .. Len(frames') : i \in 1 .. Len(frames) /\ frames'[i] = frames[i]
      BY <1>1, <2>1, TopPopped
    <3>2. QED
      BY <3>1, TypingAssumption DEF RestInv, Deep
  <2>2. CASE LoadTick \/ InByte \/ SetCode
    <3>1. PICK label \in Labels, r \in Nat \cup Typed \cup {NoKey} :
            Step(label, r) /\ (label = "set_code" => r \in Typed \cup {NoKey})
      BY <1>1, <2>2 DEF LoadTick, InByte, SetCode, MachineOK, Labels
    <3>2. /\ Len(frames) \in Nat /\ Len(frames') = Len(frames)
          /\ frames'[Len(frames)] = [pc |-> label, r |-> r]
          /\ \A i \in 1 .. Len(frames) : i # Len(frames) => frames'[i] = frames[i]
      BY <1>1, <3>1, TopReplaced
    <3>3. ASSUME NEW i \in 1 .. Len(frames'), frames'[i].pc = "set_code"
          PROVE  frames'[i].r \in Typed \cup {NoKey}
      <4>1. CASE i = Len(frames)
        BY <3>1, <3>2, <3>3, <4>1
      <4>2. CASE i # Len(frames)
        BY <3>2, <3>3, <4>2 DEF RestInv, Deep
      <4>3. QED
        BY <4>1, <4>2
    <3>4. QED
      BY <3>2, <3>3 DEF RestInv, Deep
  <2>3. QED
    BY <1>2, <2>1, <2>2 DEF HandlerStep, StoreTick, PressKey
<1>6. QED
  BY <1>2, <1>3, <1>4, <1>5 DEF RestInv

LEMMA DevicesRest ==
  ASSUME RestInv, Devices
  PROVE  RestInv'
<1>1. UNCHANGED <<is_nemu_hlt, IF_, frames, pc, key_code>> /\ hit' = 0 /\ miss' = 0
  BY DEF Devices, NoScore
<1>2. owed' \in Typed \cup {NoKey} /\ events' \in 0 .. MaxEvents
  <2>1. MaxEvents \in Nat
    BY TypingAssumption
  <2>2. \/ events' = events /\ owed' = owed
        \/ events < MaxEvents /\ events' = events + 1 /\ owed' \in Typed \cup {NoKey}
    BY DEF Devices
  <2>3. QED
    BY <2>1, <2>2 DEF RestInv
<1>3. QED
  BY <1>1, <1>2 DEF RestInv, Deep

LEMMA DeliveryRest ==
  ASSUME IInv, RestInv, DoIntr
  PROVE  RestInv'
<1>1. MachineOK
  BY DEF IInv
<1>2. /\ UNCHANGED <<events, pc, key_code, owed>> /\ hit' = 0 /\ miss' = 0
      /\ is_nemu_hlt' = FALSE /\ IF_' = IFAfterGate(i8259_intr_no, IF_)
  BY DEF DoIntr, NoScore
<1>3. IF_' \in BOOLEAN
  BY <1>2 DEF IFAfterGate, RestInv
<1>4. PICK entry \in {"in_byte", "load_tick"} :
        frames' = Append(frames, [pc |-> entry, r |-> NoKey])
  BY DEF DoIntr
<1>5. /\ Len(frames) \in Nat /\ Len(frames') = Len(frames) + 1
      /\ frames'[Len(frames) + 1] = [pc |-> entry, r |-> NoKey]
      /\ \A i \in 1 .. Len(frames) : frames'[i] = frames[i]
  <2>1. entry \in Labels
    BY DEF Labels
  <2>2. QED
    BY <1>1, <1>4, <2>1, TopPushed
<1>6. Deep'
  <2>1. Len(frames) < MaxDepth
    BY DEF DoIntr, Deliverable
  <2>2. ASSUME NEW i \in 1 .. Len(frames'), frames'[i].pc = "set_code"
        PROVE  frames'[i].r \in Typed \cup {NoKey}
    <3>1. i # Len(frames) + 1
      BY <1>5, <2>2
    <3>2. i \in 1 .. Len(frames)
      BY <1>5, <3>1
    <3>3. QED
      BY <1>5, <2>2, <3>2 DEF RestInv, Deep
  <2>3. QED
    BY <1>5, <2>1, <2>2, TypingAssumption DEF Deep
<1>7. QED
  BY <1>2, <1>3, <1>6 DEF RestInv

LEMMA RestInductive == Spec => []RestInv
<1>1. Init => RestInv
  <2> SUFFICES ASSUME Init PROVE RestInv
    OBVIOUS
  <2>1. frames = <<>> /\ Len(frames) = 0
    BY DEF Init
  <2>2. Deep
    BY <2>1, TypingAssumption DEF Deep
  <2>3. events \in 0 .. MaxEvents
    BY TypingAssumption DEF Init
  <2>4. QED
    BY <2>2, <2>3 DEF Init, RestInv
<1>2. IInv /\ ScreenOK /\ RestInv /\ [Next]_vars => RestInv'
  <2> SUFFICES ASSUME IInv, ScreenOK, RestInv, [Next]_vars PROVE RestInv'
    OBVIOUS
  <2>1. CASE UNCHANGED vars
    BY <2>1 DEF vars, machine, RestInv, Deep
  <2>2. QED
    BY <2>1, MainRest, HandlerRest, DevicesRest, DeliveryRest DEF Next
<1>3. QED
  BY <1>1, <1>2, Inductive, ScreenInductive, PTL DEF Spec

(* The types, with the bounds on the clock: the game is never more ticks   *)
(* behind than it may be, also when a handler stores a tick it loaded      *)
(* before others were counted, and it is inside `simulate` only with a     *)
(* target that lies ahead; no letter leaves the screen uncounted, and a    *)
(* node holds a letter with a place on the screen or none.                 *)
THEOREM TypesOK == Spec => []TypeOK
<1>1. IInv /\ ClockInv /\ RestInv /\ ScreenOK => TypeOK
  <2> SUFFICES ASSUME IInv, ClockInv, RestInv, ScreenOK PROVE TypeOK
    OBVIOUS
  <2>1. MachineOK /\ TicksBehind
    BY DEF IInv, MachineOK, TickInv, TicksBehind
  <2>2. i8259_intr_no \in Slots
    <3>1. TIMER_IRQ \in Irqs /\ KEYBOARD_IRQ \in Irqs
      BY TypingAssumption
    <3>2. TimerNo \in IntrNos /\ KeyNo \in IntrNos
      BY <3>1 DEF TimerNo, KeyNo, IntrNos
    <3>3. QED
      BY <2>1, <3>2 DEF MachineOK, Slots
  <2>3. /\ lag \in Nat /\ MaxLag \in Nat \ {0} /\ Cardinality(TimerFrames) \in Nat
        /\ Waiting \in {0, 1}
        /\ TimerFrames # {} => Cardinality(TimerFrames) > 0
        /\ lag + Cardinality(TimerFrames) + Waiting <= MaxLag + 1
    BY <2>1, TicksType DEF MachineOK, ClockInv, Ticks
  <2>4. lag \in 0 .. MaxLag + 1
    BY <2>3
  <2>5. ASSUME NEW i \in 1 .. Len(frames)
        PROVE  \/ frames[i].pc \in {"load_tick", "in_byte", "press_key"}
               \/ frames[i].pc = "store_tick" /\ frames[i].r \in 0 .. MaxLag
               \/ frames[i].pc = "set_code" /\ frames[i].r \in Typed \cup {NoKey}
    <3>1. frames[i].pc \in Labels
      <4>1. frames \in Seq(Frame)
        BY <2>1 DEF MachineOK
      <4>2. frames[i] \in Frame
        BY <4>1
      <4>3. QED
        BY <4>2 DEF Frame
    <3>2. CASE frames[i].pc = "store_tick"
      <4>1. frames[i].r \in Nat /\ frames[i].r <= lag
        BY <2>1, <3>2 DEF MachineOK, ClockInv, Stored
      <4>2. i \in TimerFrames
        BY <3>2 DEF TimerFrames
      <4>3. lag <= MaxLag
        BY <2>3, <4>2
      <4>4. QED
        BY <2>3, <3>2, <4>1, <4>3
    <3>3. CASE frames[i].pc = "set_code"
      BY <3>3 DEF RestInv, Deep
    <3>4. QED
      BY <3>1, <3>2, <3>3 DEF Labels
  <2>6. pool \in Pools /\ head \in Nodes \cup {NULL}
    <3>1. CASE Unused
      BY <3>1, NodeIsNotNull DEF Unused, ZeroPool, Pools
    <3>2. CASE \E u, f : Shows(ThisTick, u, f)
      <4>1. ThisTick.pool = pool /\ ThisTick.head = head
        BY DEF ThisTick
      <4>2. QED
        BY <3>2, <4>1 DEF Shows, Screens
    <3>3. QED
      BY <3>1, <3>2 DEF ScreenOK, ScreenInv
  <2>7. /\ letter \in [Nodes -> Letters \cup {NoLetter}] /\ now \in 0 .. CreatePeriod - 1
        /\ letter_pressed \in [Keys -> BOOLEAN] /\ fresh \subseteq Nodes
    BY DEF ScreenOK, AgesInv, FreshInv
  <2>8. /\ scan_code_buf \in Typed \cup {NoKey} /\ todo \in 0 .. MaxLag + 1
    BY <2>1 DEF MachineOK, ClockInv
  <2>9. QED
    BY <2>1, <2>2, <2>4, <2>5, <2>6, <2>7, <2>8 DEF TypeOK, RestInv, Deep, Letters
<1>2. QED
  BY <1>1, Inductive, ClockInductive, RestInductive, ScreenInductive, PTL
=============================================================================
