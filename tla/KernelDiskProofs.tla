-------------------------- MODULE KernelDiskProofs --------------------------
(***************************************************************************)
(* Proofs about the disk driver, for caches, disks and write-back periods  *)
(* of any size, for handlers nested to any depth MaxDepth, and for every   *)
(* use of the driver that either only reads, wherever ticks and system     *)
(* calls come in, or that is a quiet one (SafeUse): ticks come in anywhere *)
(* in its reads and writes too, except that the one which starts a         *)
(* write-back finds the caller replacing no entry.  No other use is safe:  *)
(* a timer handler that writes a sector back in the middle of a caller's   *)
(* transfer takes the device away from it.                                 *)
(*                                                                         *)
(* The argument: a frame that talks to the device is the running one, or   *)
(* lies below handlers that do not (CallerFrame, HandlerFrames), so the    *)
(* device is where that frame left it (DeviceInv) and the cache entry it   *)
(* works on is as far as its own loop (CacheInv, WriteBackInv).            *)
(***************************************************************************)
EXTENDS KernelDisk, SequenceTheorems, TLAPS

MayWrite == "write" \in use.ops

SafeUse(u) == "write" \in u.ops => u.preempt = "quiet"

(* The positions of disk_do_read and wait_ide_intr, of the end of a        *)
(* refill, of the rest of the caller's code, and of handlers.              *)
ReadLabels   == {"r_waitdisk", "r_ports", "issue_read", "wait_ide_intr",
                 "wait_intr", "clear_ide_intr", "in_long"}
FilledLabels == {"set_used", "set_sector", "set_clean"}
CallerLabels == {"idle", "lookup", "refill", "use", "mark_dirty"}
                  \cup ReadLabels \cup FilledLabels
HandlerLabels == {"load_counter", "store_counter", "test_counter", "scan",
                  "clean", "reset_counter", "ide_intr", "iret"}

Wanted == pending[2][1]      \* the sector the caller's request is about

Types ==
  /\ TypeOK
  /\ SafeUse(use)

(* The code at the bottom of the stack serves the pending request: its     *)
(* locals are what that request makes them.                                *)
CallerFrame ==
  LET f == stack[1] IN
  /\ f.pc \in CallerLabels \cup WriteLabels
  /\ f.IF_
  /\ IF f.pc = "idle" THEN pending = NoRequest /\ IF_
                      ELSE pending \in use.ops \X Addrs
  /\ f.pc \in ReadLabels =>
       f.ret = "set_used" /\ f.sec = Wanted /\ f.e = Slot(Wanted)
  /\ f.pc \in FilledLabels => f.e = Slot(Wanted)
  /\ f.pc \in WriteLabels => f.ret = "refill" /\ f.e = Slot(Wanted) /\ MayWrite
  /\ f.pc = "mark_dirty" => MayWrite

(* A timer handler in the tick that writes back: it does, or it is about   *)
(* to find that the counter, which is at c, has reached the period.        *)
Syncing(f, c) ==
  \/ f.pc \in {"scan", "clean", "reset_counter"} \cup WriteLabels
  \/ f.pc = "test_counter" /\ c = TicksPerSync
  \/ f.pc = "store_counter" /\ f.r + 1 = TicksPerSync
  \/ f.pc = "load_counter" /\ c + 1 = TicksPerSync

(* A frame above it is a handler: the timer's, which may write back where  *)
(* writes are allowed, or the disk's, above a caller that waits for it.    *)
HandlerAt(k) ==
  LET f == stack[k] IN
  /\ f.pc \in HandlerLabels \cup WriteLabels
  /\ f.IF_
  /\ f.pc \in WriteLabels => f.ret = "clean"
  /\ f.pc \in WriteLabels \cup {"clean"} => MayWrite /\ f.e \in Entries
  /\ f.pc = "ide_intr" =>
       k = 2 /\ stack[1].pc = "wait_ide_intr" /\ has_ide_intr = 0
  /\ use.preempt = "quiet" /\ Syncing(f, counter) => ~Replacing

HandlerFrames == \A k \in 2 .. Len(stack) : HandlerAt(k)

(* Interrupts: where a raised one is delivered, how deep handlers nest.    *)
LoopInv ==
  /\ ~IF_ => Len(stack) = 1
  /\ use.preempt # "handler" => Len(stack) <= 2
  /\ i8259_intr_no \in {I8259_NO_INTR, IRQ_BASE + TIMER_IRQ, IRQ_BASE + IDE_IRQ}
  /\ phase = "inst" /\ IF_ => i8259_intr_no = I8259_NO_INTR
  /\ i8259_intr_no = IRQ_BASE + TIMER_IRQ =>
       /\ Len(stack) < MaxDepth
       /\ use.preempt # "handler" => Len(stack) = 1
       /\ use.preempt = "quiet" /\ IF_ /\ Replacing => ~NextSyncs
  /\ i8259_intr_no = IRQ_BASE + IDE_IRQ =>
       /\ Len(stack) = 1 /\ has_ide_intr = 0
       /\ stack[1].pc \in (IF IF_ THEN {"wait_ide_intr"}
                            ELSE {"wait_ide_intr", "wait_intr"})
  /\ has_ide_intr = 1 => stack[1].pc \in {"wait_ide_intr", "clear_ide_intr"}
  /\ IdeIntrNotLost

(* The ports hold the whole number of sector s.                            *)
SectorSent(s) == \A p \in SectorPorts : sectorPorts[p] = PortByte(s, p)

(* How the device stands to a frame that uses it: the ports hold its       *)
(* sector as far as they have been written, and position and byte count    *)
(* are those of its next word.                                             *)
DeviceAt(f) ==
  /\ f.pc \in {"r_ports", "w_ports"} =>
       \A p \in SectorPorts : p < f.port => sectorPorts[p] = PortByte(f.sec, p)
  /\ f.pc \in {"issue_read", "issue_write"} => SectorSent(f.sec)
  /\ f.pc \in (ReadLabels \cup WriteLabels) \ {"in_long", "out_long"} => f.w = 0
  /\ f.pc \in {"wait_ide_intr", "wait_intr", "clear_ide_intr", "in_long"} =>
       /\ ~ide_write
       /\ byte_cnt = f.w /\ file_pos = DiskWord(f.sec, f.w)
  /\ f.pc = "out_long" =>
       /\ ide_write
       /\ byte_cnt = f.w /\ file_pos = DiskWord(f.sec, 0)
  /\ f.pc \in {"in_long", "out_long"} => f.w \in Words

DeviceInv ==
  /\ ~abort
  /\ status # READY => "out_long" \in {stack[1].pc, top.pc}
  /\ \A k \in 1 .. Len(stack) : DeviceAt(stack[k])

(* Entry e holds the words of sector s.                                    *)
Holds(e, s) ==
  \A w \in Words : \/ cache[e].content[w] = DiskWord(s, w)
                   \/ cache[e].content[w] = Written /\ MayWrite

(* What the entries hold, in the middle of the caller's own refill too.    *)
CacheInv ==
  LET f == stack[1] IN
  /\ \A e \in Entries : cache[e].used /\ ~Refilling(e) => Holds(e, cache[e].sector)
  /\ f.pc = "in_long" =>
       \A v \in 0 .. f.w - 1 : cache[f.e].content[v] = DiskWord(Wanted, v)
  /\ f.pc \in FilledLabels =>
       \A v \in Words : cache[f.e].content[v] = DiskWord(Wanted, v)
  /\ f.pc \in {"set_sector", "set_clean", "use", "mark_dirty"} => Entry.used
  /\ f.pc \in {"set_clean", "use", "mark_dirty"} => Entry.sector = Wanted
  /\ f.pc = "mark_dirty" => Entry.content[pending[2][2]] = Written
  /\ ~MayWrite => /\ \A e \in Entries : ~cache[e].dirty
                  /\ latest = ImageWord

(* The words of entry e below w that callers wrote are on the device.      *)
SentBelow(e, s, w) ==
  \A v \in Words : v < w /\ cache[e].content[v] = Written => <<s, v>> \in sent

WriteBackAt(f) ==
  /\ f.pc \in WriteLabels => f.sec = cache[f.e].sector
  /\ f.pc = "out_long" => SentBelow(f.e, f.sec, f.w)
  /\ f.pc = "clean" => SentBelow(f.e, cache[f.e].sector, NrWords)

WriteBackInv ==
  /\ \A k \in 1 .. Len(stack) : WriteBackAt(stack[k])
  /\ stack[1].pc \in RefillLabels =>
       \A a \in Addrs : Slot(a[1]) = Slot(Wanted) /\ latest[a] = Written => a \in sent
  /\ NoWriteDropped

CounterInv ==
  use.preempt # "handler" =>
    /\ \/ counter < TicksPerSync
       \/ Len(stack) = 2 /\ stack[2].pc \in {"test_counter", "scan", "clean",
                              "reset_counter"} \cup WriteLabels
    /\ \A k \in 2 .. Len(stack) :
         /\ stack[k].pc = "store_counter" => stack[k].r < TicksPerSync
         /\ stack[k].pc = "test_counter" => counter <= TicksPerSync

IInv ==
  /\ Types /\ CallerFrame /\ HandlerFrames /\ LoopInv
  /\ DeviceInv /\ CacheInv /\ WriteBackInv /\ CounterInv

-----------------------------------------------------------------------------
(* Arithmetic of the sizes.                                                *)
LEMMA Sizes ==
  /\ NrSectors \in Nat \ {0} /\ NrWords \in Nat \ {0}
  /\ NrSecCache \in Nat \ {0} /\ TicksPerSync \in Nat \ {0}
  /\ CounterMod \in Nat /\ CounterMod > TicksPerSync
  /\ \A s \in Sectors : Slot(s) \in Entries
  /\ 0 \in Sectors /\ 0 \in Words /\ 0 \in Entries
  /\ MaxDepth \in Nat /\ MaxDepth >= 2
  BY DiskAssumption, DriverAssumption DEF Sectors, Words, Entries, Slot

(* The words of a sector: their positions in the image.                    *)
LEMMA DiskWords ==
  ASSUME NEW s \in Sectors, NEW w \in 0 .. NrWords
  PROVE  /\ DiskWord(s, w) \in 0 .. NrSectors * NrWords
         /\ DiskWord(s, 0) \div NrWords = s
         /\ DiskWord(s, w) + 1 = DiskWord(s, w + 1)
         /\ w \in Words => <<s, w>> \in Addrs /\ DiskWord(s, w) \in Data
<1>1. /\ NrSectors \in Nat /\ NrWords \in Nat \ {0}
      /\ s \in Nat /\ s + 1 <= NrSectors /\ w \in Nat /\ w <= NrWords
  BY Sizes DEF Sectors
<1>2. (s + 1) * NrWords = s * NrWords + NrWords
  BY <1>1
<1>3. (s + 1) * NrWords <= NrSectors * NrWords
  BY <1>1
<1>4. s * NrWords \in Nat /\ NrSectors * NrWords \in Nat
  BY <1>1
<1>5. (s * NrWords) \div NrWords = s
  BY <1>1
<1>6. DiskWord(s, w) \in 0 .. NrSectors * NrWords
  BY <1>1, <1>2, <1>3, <1>4 DEF DiskWord
<1>7. w \in Words => DiskWord(s, w) \in Data
  <2> SUFFICES ASSUME w \in Words
               PROVE  DiskWord(s, w) \in Data
    OBVIOUS
  <2>1. <<s, w>> \in Addrs
    BY DEF Addrs
  <2>2. ImageWord[<<s, w>>] = DiskWord(s, w)
    BY <2>1 DEF ImageWord
  <2>3. QED
    BY <2>1, <2>2 DEF Data
<1>8. QED
  BY <1>1, <1>4, <1>5, <1>6, <1>7 DEF DiskWord, Addrs

(* A number of any width by its lowest digit and the rest.                 *)
LEMMA LowDigit ==
  ASSUME NEW x \in Nat
  PROVE  /\ x \div PortBase \in Nat /\ x % PortBase \in Nat
         /\ x \div PortBase <= x /\ x % PortBase <= x
         /\ x = (x % PortBase) + PortBase * (x \div PortBase)
<1>1. PortBase \in Nat \ {0}
  BY DiskAssumption
<1>2. QED
  BY <1>1

(* The bytes of a sector number make it up.                                *)
LEMMA PortBytes ==
  ASSUME NEW s \in Sectors
  PROVE  /\ \A p \in SectorPorts : PortByte(s, p) \in Sectors
         /\ SectorSent(s) => sector = s
<1> DEFINE high == s \div PortBase
           top2 == high \div PortBase
<1>1. PortBase \in Nat \ {0} /\ s \in Nat /\ s < NrSectors /\ NrSectors \in Nat
  BY DiskAssumption DEF Sectors
<1>2. /\ high \in Nat /\ s % PortBase \in Nat /\ high <= s /\ s % PortBase <= s
      /\ s = (s % PortBase) + PortBase * high
  BY <1>1, LowDigit
<1>3. /\ top2 \in Nat /\ high % PortBase \in Nat /\ top2 <= high
      /\ high % PortBase <= high /\ high = (high % PortBase) + PortBase * top2
  BY <1>2, LowDigit
<1>4. /\ top2 \div PortBase \in Nat /\ top2 % PortBase \in Nat
      /\ top2 \div PortBase <= top2 /\ top2 % PortBase <= top2
      /\ top2 = (top2 % PortBase) + PortBase * (top2 \div PortBase)
  BY <1>3, LowDigit
<1>5. /\ PortByte(s, 3) = s % PortBase /\ PortByte(s, 4) = high % PortBase
      /\ PortByte(s, 5) = top2 % PortBase /\ PortByte(s, 6) = top2 \div PortBase
  BY DEF PortByte
<1> HIDE DEF high, top2
<1>6. ASSUME NEW p \in SectorPorts
      PROVE  PortByte(s, p) \in Sectors
  <2>1. p \in {3, 4, 5, 6}
    BY DEF SectorPorts
  <2>2. \A x \in Nat : x <= s => x \in Sectors
    BY <1>1 DEF Sectors
  <2>3. QED
    BY <1>1, <1>2, <1>3, <1>4, <1>5, <2>1, <2>2
<1>7. ASSUME SectorSent(s)
      PROVE  sector = s
  <2>1. \A p \in {3, 4, 5, 6} : sectorPorts[p] = PortByte(s, p)
    BY <1>7 DEF SectorSent, SectorPorts
  <2>2. sectorPorts[5] + PortBase * sectorPorts[6] = top2
    BY ZenonT(20), <1>4, <1>5, <2>1
  <2>3. sectorPorts[4] + PortBase * (sectorPorts[5] + PortBase * sectorPorts[6]) = high
    BY ZenonT(20), <1>3, <1>5, <2>1, <2>2
  <2>4. QED
    BY ZenonT(20), <1>2, <1>5, <2>1, <2>3 DEF sector
<1>8. QED
  BY <1>6, <1>7

(* The running frame is replaced.                                          *)
LEMMA Replaced ==
  ASSUME stack \in Seq(Frames), Len(stack) \in 1 .. MaxDepth,
         NEW f \in Frames, Become(f)
  PROVE  /\ stack' \in Seq(Frames) /\ Len(stack') = Len(stack)
         /\ stack'[Len(stack)] = f /\ top' = f
         /\ \A k \in 1 .. Len(stack) : k # Len(stack) => stack'[k] = stack[k]
<1>1. Len(stack) \in 1 .. Len(stack)
  BY SMTT(20), Sizes
<1>2. stack' = [stack EXCEPT ![Len(stack)] = f]
  BY DEF Become
<1>3. QED
  BY <1>1, <1>2, ExceptSeq DEF top

(* Where a position of the stack can be.                                   *)
LEMMA Positions ==
  ASSUME NEW n \in Nat \ {0}
  PROVE  /\ 1 \in 1 .. n /\ n \in 1 .. n /\ n + 1 \in Nat \ {0, 1}
         /\ n # 1 => n \in 2 .. n /\ n - 1 \in Nat \ {0}
         /\ n <= 2 => \A k \in 1 .. n : k # 1 => k = 2 /\ n = 2
<1>1. n \in Nat /\ n >= 1
  BY SMTT(20)
<1>2. n # 1 => n >= 2
  BY <1>1
<1>3. n \in 1 .. n /\ 1 \in 1 .. n /\ n + 1 \in Nat \ {0, 1}
  BY <1>1
<1>4. n # 1 => n \in 2 .. n /\ n - 1 \in Nat \ {0}
  BY <1>1, <1>2
<1>5. n <= 2 => \A k \in 1 .. n : k # 1 => k = 2 /\ n = 2
  BY <1>1
<1>6. QED
  BY <1>3, <1>4, <1>5

(* The frames are of their type, the running one among them.               *)
LEMMA TopFrame ==
  ASSUME TypeOK
  PROVE  /\ Len(stack) \in 1 .. Len(stack) /\ Len(stack) \in Nat \ {0}
         /\ Len(stack) # 1 => Len(stack) \in 2 .. Len(stack)
         /\ top \in Frames /\ top = stack[Len(stack)]
         /\ stack[1] \in Frames
         /\ \A k \in 1 .. Len(stack) : stack[k] \in Frames
<1>1. stack \in Seq(Frames) /\ Len(stack) \in Nat \ {0}
  BY Sizes DEF TypeOK
<1>2. \A k \in 1 .. Len(stack) : stack[k] \in Frames
  BY <1>1, ElementOfSeq
<1>3. /\ 1 \in 1 .. Len(stack) /\ Len(stack) \in 1 .. Len(stack)
      /\ Len(stack) # 1 => Len(stack) \in 2 .. Len(stack)
  BY <1>1, Positions
<1>4. QED
  BY <1>1, <1>2, <1>3 DEF top

(* Only the frame at the bottom runs the caller's own code.                *)
LEMMA CallerTop ==
  ASSUME IInv, top.pc \in CallerLabels
  PROVE  Len(stack) = 1 /\ top = stack[1]
<1>1. CASE Len(stack) = 1
  BY <1>1 DEF top
<1>2. CASE Len(stack) # 1
  <2>1. Len(stack) \in 2 .. Len(stack) /\ top = stack[Len(stack)]
    BY <1>2, TopFrame DEF IInv, Types
  <2>2. top.pc \in HandlerLabels \cup WriteLabels
    BY <2>1 DEF IInv, HandlerFrames, HandlerAt
  <2>3. QED
    BY <2>2 DEF CallerLabels, HandlerLabels, WriteLabels, ReadLabels, FilledLabels
<1>3. QED
  BY <1>1, <1>2

(* The caller's frame is at no position of a handler's code.               *)
LEMMA CallerClean ==
  ASSUME IInv
  PROVE  stack[1].pc \notin HandlerLabels
  BY DEF IInv, CallerFrame, HandlerLabels, CallerLabels, WriteLabels, ReadLabels,
     FilledLabels

(* A handler runs over a caller, with interrupts enabled.                  *)
LEMMA HandlerTop ==
  ASSUME IInv, top.pc \in HandlerLabels
  PROVE  Len(stack) \in Nat \ {0, 1} /\ IF_
<1>1. Len(stack) # 1
  BY DEF IInv, CallerFrame, top, HandlerLabels, CallerLabels, WriteLabels,
         ReadLabels, FilledLabels
<1>2. QED
  BY <1>1, TopFrame DEF IInv, Types, LoopInv

(* Only one frame writes a sector: the caller, below handlers that do not, *)
(* or a handler over a caller that replaces no entry.                      *)
LEMMA WriterTop ==
  ASSUME IInv, NEW k \in 1 .. Len(stack), stack[k].pc \in WriteLabels \cup {"clean"}
  PROVE  /\ MayWrite /\ use.preempt = "quiet" /\ Len(stack) <= 2
         /\ k = 1 \/ (k = 2 /\ Len(stack) = 2 /\ ~Replacing)
<1>1. Len(stack) \in Nat \ {0}
  BY TopFrame DEF IInv, Types
<1>2. MayWrite
  <2>1. CASE k = 1
    BY <2>1 DEF IInv, CallerFrame, CallerLabels, ReadLabels, FilledLabels, WriteLabels
  <2>2. CASE k # 1
    BY <2>2, <1>1 DEF IInv, HandlerFrames, HandlerAt
  <2>3. QED
    BY <2>1, <2>2
<1>3. use.preempt = "quiet" /\ Len(stack) <= 2
  BY <1>2 DEF IInv, Types, SafeUse, MayWrite, LoopInv
<1>4. k # 1 => k = 2 /\ Len(stack) = 2
  BY <1>1, <1>3, Positions
<1>5. ASSUME k = 2
      PROVE  ~Replacing
  <2>1. HandlerAt(2)
    BY <1>1, <1>5 DEF IInv, HandlerFrames
  <2>2. Syncing(stack[2], counter)
    BY <1>5 DEF Syncing
  <2>3. QED
    BY <1>3, <2>1, <2>2 DEF HandlerAt
<1>6. QED
  BY <1>2, <1>3, <1>4, <1>5

(* The frame after the last word of a sector.                              *)
Done(g) == [g EXCEPT !.pc = g.ret, !.w = 0, !.sec = 0, !.ret = "idle"]

(* What Done leaves of a frame.                                            *)
LEMMA Finished ==
  ASSUME NEW g \in Frames
  PROVE  /\ Done(g) \in Frames /\ Done(g).pc = g.ret /\ Done(g).e = g.e
         /\ Done(g).w = 0 /\ Done(g).IF_ = g.IF_
<1>1. /\ g.ret \in FrameLabels /\ 0 \in 0 .. NrWords /\ 0 \in Sectors
      /\ "idle" \in {"idle", "refill", "set_used", "clean"}
  BY Sizes DEF Frames, FrameLabels
<1>2. QED
  BY <1>1 DEF Done, Frames

-----------------------------------------------------------------------------
(* The instructions.  What ExecInst does around each of them.              *)
Turn ==
  /\ phase = "inst" /\ ~abort
  /\ ~is_nemu_hlt
  /\ phase' = "devices"
  /\ ran' = (ran \/ Len(stack) = 1)
  /\ UNCHANGED use

(* The caller runs: nothing is above it, and its request is well formed.   *)
LEMMA Caller ==
  ASSUME IInv, top.pc \in CallerLabels
  PROVE  /\ Len(stack) = 1 /\ top = stack[1] /\ stack[1] \in Frames
         /\ top.pc # "idle" => /\ pending \in use.ops \X Addrs
                              /\ Wanted \in Sectors /\ Slot(Wanted) \in Entries
                              /\ pending[2] \in Addrs /\ pending[2][2] \in Words
                              /\ pending # NoRequest
<1>1. Len(stack) = 1 /\ top = stack[1] /\ stack[1] \in Frames
  BY CallerTop, TopFrame DEF IInv, Types
<1>2. ASSUME top.pc # "idle"
      PROVE  /\ pending \in use.ops \X Addrs /\ pending[2] \in Addrs
             /\ Wanted \in Sectors /\ pending[2][2] \in Words
             /\ Slot(Wanted) \in Entries
  <2>1. pending \in use.ops \X Addrs
    BY <1>1, <1>2 DEF IInv, CallerFrame
  <2>2. /\ pending[2] \in Addrs
        /\ Wanted \in Sectors /\ pending[2][2] \in Words
    BY <2>1 DEF Addrs, Wanted
  <2>3. QED
    BY <2>1, <2>2, Sizes
<1>3. ASSUME pending \in use.ops \X Addrs
      PROVE  pending # NoRequest
  <2>1. use.ops \subseteq {"read", "write"}
    BY DriverAssumption DEF IInv, Types, TypeOK
  <2>2. QED
    BY <1>3, <2>1, TokensAssumption DEF Addrs
<1>4. QED
  BY <1>1, <1>2, <1>3

(* The caller's frame is replaced.                                         *)
LEMMA CallerMoves ==
  ASSUME IInv, Len(stack) = 1, NEW f \in Frames, Become(f)
  PROVE  Len(stack') = 1 /\ stack' \in Seq(Frames) /\ stack'[1] = f /\ top' = f
<1>1. stack \in Seq(Frames) /\ Len(stack) \in 1 .. MaxDepth
  BY DEF IInv, Types, TypeOK
<1>2. QED
  BY <1>1, Replaced

(* The vectors the driver knows.                                           *)
LEMMA Raises ==
  /\ IRQ_BASE + TIMER_IRQ \in Slots /\ IRQ_BASE + IDE_IRQ \in Slots
  /\ I8259_NO_INTR \in Slots
  /\ I8259_NO_INTR = 255 /\ IRQ_BASE + TIMER_IRQ = 32 /\ IRQ_BASE + IDE_IRQ = 46
<1>1. TIMER_IRQ \in Irqs /\ IDE_IRQ \in Irqs
  BY DriverAssumption
<1>2. QED
  BY <1>1 DEF Slots, IntrNos, IRQ_BASE, TIMER_IRQ, IDE_IRQ, I8259_NO_INTR

(* The frame that enters disk_do_read or disk_do_write.                    *)
Calling(g, label, e, sec, ret) ==
  [g EXCEPT !.pc = label, !.e = e, !.sec = sec, !.w = 0, !.ret = ret]

(* What Calling leaves of a frame.                                         *)
LEMMA Called ==
  ASSUME NEW g \in Frames, NEW label \in FrameLabels, NEW e \in Entries,
         NEW sec \in Sectors, NEW ret \in {"refill", "set_used", "clean"}
  PROVE  /\ Calling(g, label, e, sec, ret) \in Frames
         /\ Calling(g, label, e, sec, ret).pc = label
         /\ Calling(g, label, e, sec, ret).e = e
         /\ Calling(g, label, e, sec, ret).sec = sec
         /\ Calling(g, label, e, sec, ret).w = 0
         /\ Calling(g, label, e, sec, ret).ret = ret
         /\ Calling(g, label, e, sec, ret).IF_ = g.IF_
<1>1. e \in 0 .. NrSecCache /\ 0 \in 0 .. NrWords
  BY Sizes DEF Entries
<1>2. QED
  BY <1>1 DEF Calling, Frames

(* A step of a write leaves the entries and what they have to hold.        *)
LEMMA CacheKept ==
  ASSUME CacheInv, UNCHANGED <<use, cache, latest, pending>>,
         \/ stack[1].pc \notin RefillLabels /\ stack'[1].pc = stack[1].pc
         \/ stack[1].pc \in WriteLabels /\ stack'[1].pc \in WriteLabels \cup {"refill"}
  PROVE  CacheInv'
<1>1. Wanted' = Wanted /\ MayWrite' = MayWrite
  BY DEF Wanted, MayWrite
<1>2. \A e \in Entries : ~Refilling(e)
  BY DEF Refilling, WriteLabels, RefillLabels
<1>3. \A e \in Entries : cache'[e].used /\ ~Refilling(e)' => Holds(e, cache[e].sector)'
  BY <1>1, <1>2 DEF CacheInv, Holds
<1>4. /\ stack'[1].pc \notin {"in_long"} \cup FilledLabels
      /\ stack'[1].pc \in {"use", "mark_dirty"} => stack'[1].pc = stack[1].pc
  BY DEF WriteLabels, FilledLabels, RefillLabels
<1>5. ~MayWrite => latest' = ImageWord /\ \A e \in Entries : ~cache'[e].dirty
  BY DEF CacheInv
<1>6. Entry' = Entry /\ pending' = pending
  BY DEF Entry
<1>7. QED
  BY <1>1, <1>3, <1>4, <1>5, <1>6 DEF CacheInv, FilledLabels

(* A step that neither writes an entry nor goes to the device with one.    *)
LEMMA WritesKept ==
  ASSUME WriteBackInv, UNCHANGED <<cache, latest, sent, pending>>,
         \A k \in 1 .. Len(stack') : stack'[k].pc \notin WriteLabels \cup {"clean"},
         stack'[1].pc \in RefillLabels => stack[1].pc \in RefillLabels
  PROVE  WriteBackInv'
<1>1. \A k \in 1 .. Len(stack') : WriteBackAt(stack[k])'
  BY DEF WriteBackAt, WriteLabels
<1>2. NoWriteDropped'
  BY DEF WriteBackInv, NoWriteDropped
<1>3. QED
  BY <1>1, <1>2 DEF WriteBackInv, Wanted

(* A turn that leaves all but the loop's own state alone.                  *)
LEMMA OnlyPhase ==
  ASSUME IInv,
         UNCHANGED <<use, device, driver, caller, i8259_intr_no, is_nemu_hlt, IF_,
                     stack>>,
         ran' \in BOOLEAN,
         \/ phase = "inst" /\ phase' = "devices"
         \/ phase = "devices" /\ phase' = "intr"
  PROVE  IInv'
<1>1. UNCHANGED <<use, status, sectorPorts, ide_write, file_pos, byte_cnt, abort,
                  has_ide_intr, counter, cache, pending, reply, latest, sent,
                  i8259_intr_no, is_nemu_hlt, IF_, stack>>
  BY DEF device, driver, caller, history
<1>2. Types'
  BY <1>1, Sizes DEF IInv, Types, TypeOK, DeviceTypeOK, SafeUse
<1>3. CallerFrame' /\ HandlerFrames'
  BY <1>1 DEF IInv, CallerFrame, HandlerFrames, HandlerAt, MayWrite, Wanted, Syncing,
     NextSyncs, Replacing
<1>4. LoopInv'
  BY <1>1 DEF IInv, LoopInv, IdeIntrNotLost, NextSyncs, Replacing
<1>5. DeviceInv' /\ CounterInv'
  BY <1>1 DEF IInv, DeviceInv, DeviceAt, SectorSent, top, CounterInv
<1>6. CacheInv'
  BY <1>1 DEF IInv, CacheInv, Holds, Refilling, RefillLabels, Entry, MayWrite, Wanted
<1>7. WriteBackInv'
  BY <1>1 DEF IInv, WriteBackInv, WriteBackAt, SentBelow, NoWriteDropped, Wanted
<1>8. QED
  BY <1>2, <1>3, <1>4, <1>5, <1>6, <1>7 DEF IInv

(* The caller computes.                                                    *)
LEMMA CallerIdlesKeeps ==
  ASSUME IInv, Turn, CallerIdles
  PROVE  IInv'
  BY OnlyPhase DEF Turn, CallerIdles, IInv, Types, TypeOK

(* The data port has the word the refill loop wants.                       *)
LEMMA InLongAt ==
  ASSUME IInv, InLong
  PROVE  /\ Len(stack) = 1 /\ top = stack[1] /\ stack[1].pc = "in_long"
         /\ stack[1] \in Frames
         /\ stack[1].e = Slot(Wanted) /\ Slot(Wanted) \in Entries
         /\ stack[1].sec = Wanted /\ stack[1].ret = "set_used" /\ stack[1].w \in Words
         /\ byte_cnt = stack[1].w /\ file_pos = DiskWord(Wanted, stack[1].w)
         /\ ide_write = FALSE /\ status = READY
         /\ InWord /\ NextWord
         /\ cache' = [cache EXCEPT ![Slot(Wanted)] =
                      [cache[Slot(Wanted)] EXCEPT !.content[stack[1].w] = file_pos]]
         /\ pending \in use.ops \X Addrs /\ pending # NoRequest
         /\ pending[2] \in Addrs /\ Wanted \in Sectors /\ pending[2][2] \in Words
<1>1. /\ Len(stack) = 1 /\ top = stack[1] /\ stack[1].pc = "in_long"
      /\ stack[1] \in Frames /\ Slot(Wanted) \in Entries
      /\ pending \in use.ops \X Addrs /\ pending # NoRequest
      /\ pending[2] \in Addrs /\ Wanted \in Sectors /\ pending[2][2] \in Words
  BY Caller DEF InLong, At, CallerLabels, ReadLabels
<1>2. /\ stack[1].e = Slot(Wanted) /\ stack[1].sec = Wanted
      /\ stack[1].ret = "set_used"
  BY <1>1 DEF IInv, CallerFrame, ReadLabels
<1>3. /\ byte_cnt = stack[1].w /\ file_pos = DiskWord(stack[1].sec, stack[1].w)
      /\ ide_write = FALSE /\ status = READY /\ stack[1].w \in Words
  BY <1>1 DEF IInv, Types, TypeOK, DeviceTypeOK, DeviceInv, DeviceAt
<1>4. DataPortAsserts(FALSE)
  <2>1. stack[1].w <= NrWords
    BY <1>3, Sizes DEF Words
  <2>2. QED
    BY <1>3, <2>1 DEF DataPortAsserts
<1>5. QED
  BY <1>1, <1>2, <1>3, <1>4 DEF InLong, SetEntry

(* The first store after a refill: the entry counts as used.               *)
LEMMA SetUsedKeeps ==
  ASSUME IInv, Turn, SetUsed
  PROVE  IInv'
<1> DEFINE f == [stack[1] EXCEPT !.pc = "set_sector"]
<1>1. /\ Len(stack) = 1 /\ top = stack[1] /\ stack[1].pc = "set_used"
      /\ stack[1] \in Frames
      /\ stack[1].e = Slot(Wanted) /\ Slot(Wanted) \in Entries
      /\ pending \in use.ops \X Addrs /\ pending # NoRequest
      /\ pending[2] \in Addrs /\ Wanted \in Sectors /\ pending[2][2] \in Words
  BY Caller, Sizes DEF SetUsed, At, IInv, CallerFrame, CallerLabels, FilledLabels,
     ReadLabels
<1>2. f \in Frames /\ f.pc = "set_sector" /\ f.e = stack[1].e /\ f.IF_ = stack[1].IF_
  BY <1>1, Sizes DEF Frames, FrameLabels
<1>3. Len(stack') = 1 /\ stack' \in Seq(Frames) /\ stack'[1] = f /\ top' = f
  BY <1>1, <1>2, CallerMoves DEF SetUsed, Goto, CallDisk, Wanted
<1> HIDE DEF f
<1>4. /\ cache' = [cache EXCEPT ![Slot(Wanted)] =
               [cache[Slot(Wanted)] EXCEPT !.used = TRUE]]
      /\ UNCHANGED <<status, sectorPorts, ide_write, file_pos, byte_cnt, abort,
                     has_ide_intr, counter, pending, reply, latest, sent, i8259_intr_no,
                     is_nemu_hlt, IF_, use>>
      /\ phase = "inst" /\ phase' = "devices" /\ ran' \in BOOLEAN
  BY <1>1 DEF SetUsed, SetEntry, Turn, IInv, Types, TypeOK, device, driver, caller,
     history
<1>5. Types'
  <2>1. cache' \in [Entries -> [sector : Sectors, used : BOOLEAN, dirty : BOOLEAN,
                               content : [Words -> Data]]]
    BY <1>1, <1>4 DEF IInv, Types, TypeOK
  <2>2. Len(stack') \in 1 .. MaxDepth /\ phase' \in {"inst", "devices", "intr"}
    BY <1>3, <1>4, Sizes
  <2>3. QED
    BY <1>3, <1>4, <2>1, <2>2 DEF IInv, Types, TypeOK, DeviceTypeOK, SafeUse
<1>6. CallerFrame'
  BY <1>1, <1>2, <1>3, <1>4 DEF IInv, CallerFrame, CallerLabels, FilledLabels,
     WriteLabels, ReadLabels, MayWrite, Wanted
<1>7. HandlerFrames'
  BY <1>1, <1>2, <1>3, <1>4 DEF IInv, HandlerFrames, HandlerAt
<1>8. LoopInv'
  BY <1>1, <1>2, <1>3, <1>4, Raises
  DEF IInv, Types, TypeOK, LoopInv, IdeIntrNotLost
<1>9. DeviceInv'
  BY <1>1, <1>2, <1>3, <1>4 DEF IInv, DeviceInv, DeviceAt, ReadLabels, WriteLabels
<1>10. CacheInv'
  BY <1>1, <1>2, <1>3, <1>4 DEF IInv, Types, TypeOK, CacheInv, Holds, Refilling, RefillLabels, Entry,
     MayWrite, Wanted, FilledLabels
<1>11. WriteBackInv'
  <2>1. /\ \A e \in Entries : e # Slot(Wanted) => cache'[e] = cache[e]
        /\ cache'[Slot(Wanted)].used
        /\ cache'[Slot(Wanted)].sector = cache[Slot(Wanted)].sector
        /\ cache'[Slot(Wanted)].dirty = cache[Slot(Wanted)].dirty
        /\ cache'[Slot(Wanted)].content = cache[Slot(Wanted)].content
    BY <1>1, <1>4 DEF IInv, Types, TypeOK
  <2>2. \A k \in 1 .. Len(stack') : WriteBackAt(stack[k])'
    BY <1>2, <1>3 DEF WriteBackAt, WriteLabels
  <2>3. ASSUME stack'[1].pc \in RefillLabels, NEW a \in Addrs,
               (Slot(a[1]) = Slot(Wanted))', latest'[a] = Written
        PROVE  a \in sent'
    BY <1>1, <1>2, <1>3, <1>4, <2>3
    DEF IInv, WriteBackInv, RefillLabels, ReadLabels, FilledLabels, Wanted
  <2>4. NoWriteDropped'
    BY <1>1, <1>4, <2>1
    DEF IInv, WriteBackInv, NoWriteDropped, RefillLabels, FilledLabels, Addrs, Sectors,
        Entries
  <2>5. QED
    BY <2>2, <2>3, <2>4 DEF WriteBackInv
<1>12. CounterInv'
  BY <1>1, <1>2, <1>3, <1>4 DEF IInv, CounterInv
<1>13. QED
  BY <1>5, <1>6, <1>7, <1>8, <1>9, <1>10, <1>11, <1>12 DEF IInv

(* The second: it is tagged with the sector that was read.                 *)
LEMMA SetSectorKeeps ==
  ASSUME IInv, Turn, SetSector
  PROVE  IInv'
<1> DEFINE f == [stack[1] EXCEPT !.pc = "set_clean"]
<1>1. /\ Len(stack) = 1 /\ top = stack[1] /\ stack[1].pc = "set_sector"
      /\ stack[1] \in Frames
      /\ stack[1].e = Slot(Wanted) /\ Slot(Wanted) \in Entries
      /\ pending \in use.ops \X Addrs /\ pending # NoRequest
      /\ pending[2] \in Addrs /\ Wanted \in Sectors /\ pending[2][2] \in Words
  BY Caller, Sizes DEF SetSector, At, IInv, CallerFrame, CallerLabels, FilledLabels,
     ReadLabels
<1>2. f \in Frames /\ f.pc = "set_clean" /\ f.e = stack[1].e /\ f.IF_ = stack[1].IF_
  BY <1>1, Sizes DEF Frames, FrameLabels
<1>3. Len(stack') = 1 /\ stack' \in Seq(Frames) /\ stack'[1] = f /\ top' = f
  BY <1>1, <1>2, CallerMoves DEF SetSector, Goto, CallDisk, Wanted
<1> HIDE DEF f
<1>4. /\ cache' = [cache EXCEPT ![Slot(Wanted)] =
               [cache[Slot(Wanted)] EXCEPT !.sector = Wanted]]
      /\ UNCHANGED <<status, sectorPorts, ide_write, file_pos, byte_cnt, abort,
                     has_ide_intr, counter, pending, reply, latest, sent, i8259_intr_no,
                     is_nemu_hlt, IF_, use>>
      /\ phase = "inst" /\ phase' = "devices" /\ ran' \in BOOLEAN
  BY <1>1 DEF SetSector, SetEntry, Turn, IInv, Types, TypeOK, device, driver, caller,
     history, Wanted
<1>5. Types'
  BY <1>1, <1>2, <1>3, <1>4, Sizes DEF IInv, Types, TypeOK, DeviceTypeOK, SafeUse
<1>6. CallerFrame'
  BY <1>1, <1>2, <1>3, <1>4 DEF IInv, CallerFrame, CallerLabels, FilledLabels,
     WriteLabels, ReadLabels, MayWrite, Wanted
<1>7. HandlerFrames'
  BY <1>1, <1>2, <1>3, <1>4 DEF IInv, HandlerFrames, HandlerAt
<1>8. LoopInv'
  BY <1>1, <1>2, <1>3, <1>4, Raises
  DEF IInv, Types, TypeOK, LoopInv, IdeIntrNotLost
<1>9. DeviceInv'
  BY <1>1, <1>2, <1>3, <1>4 DEF IInv, DeviceInv, DeviceAt, ReadLabels, WriteLabels
<1>10. CacheInv'
  BY <1>1, <1>2, <1>3, <1>4 DEF IInv, Types, TypeOK, CacheInv, Holds, Refilling, RefillLabels, Entry,
     MayWrite, Wanted, FilledLabels
<1>11. WriteBackInv'
  <2>1. /\ \A e \in Entries : e # Slot(Wanted) => cache'[e] = cache[e]
        /\ cache'[Slot(Wanted)].used = cache[Slot(Wanted)].used
        /\ cache'[Slot(Wanted)].sector = Wanted
        /\ cache'[Slot(Wanted)].dirty = cache[Slot(Wanted)].dirty
        /\ cache'[Slot(Wanted)].content = cache[Slot(Wanted)].content
    BY <1>1, <1>4 DEF IInv, Types, TypeOK
  <2>2. \A k \in 1 .. Len(stack') : WriteBackAt(stack[k])'
    BY <1>2, <1>3 DEF WriteBackAt, WriteLabels
  <2>3. ASSUME stack'[1].pc \in RefillLabels, NEW a \in Addrs,
               (Slot(a[1]) = Slot(Wanted))', latest'[a] = Written
        PROVE  a \in sent'
    BY <1>1, <1>2, <1>3, <1>4, <2>3
    DEF IInv, WriteBackInv, RefillLabels, ReadLabels, FilledLabels, Wanted
  <2>4. NoWriteDropped'
    BY <1>1, <1>4, <2>1
    DEF IInv, CacheInv, WriteBackInv, NoWriteDropped, RefillLabels, FilledLabels, Addrs,
        Sectors, Entry, Entries
  <2>5. QED
    BY <2>2, <2>3, <2>4 DEF WriteBackInv
<1>12. CounterInv'
  BY <1>1, <1>2, <1>3, <1>4 DEF IInv, CounterInv
<1>13. QED
  BY <1>5, <1>6, <1>7, <1>8, <1>9, <1>10, <1>11, <1>12 DEF IInv

(* The third: it is clean, and the caller goes on to use it.               *)
LEMMA SetCleanKeeps ==
  ASSUME IInv, Turn, SetClean
  PROVE  IInv'
<1> DEFINE f == [stack[1] EXCEPT !.pc = "use"]
<1>1. /\ Len(stack) = 1 /\ top = stack[1] /\ stack[1].pc = "set_clean"
      /\ stack[1] \in Frames
      /\ stack[1].e = Slot(Wanted) /\ Slot(Wanted) \in Entries
      /\ pending \in use.ops \X Addrs /\ pending # NoRequest
      /\ pending[2] \in Addrs /\ Wanted \in Sectors /\ pending[2][2] \in Words
  BY Caller, Sizes DEF SetClean, At, IInv, CallerFrame, CallerLabels, FilledLabels,
     ReadLabels
<1>2. f \in Frames /\ f.pc = "use" /\ f.e = stack[1].e /\ f.IF_ = stack[1].IF_
  BY <1>1, Sizes DEF Frames, FrameLabels
<1>3. Len(stack') = 1 /\ stack' \in Seq(Frames) /\ stack'[1] = f /\ top' = f
  BY <1>1, <1>2, CallerMoves DEF SetClean, Goto, CallDisk, Wanted
<1> HIDE DEF f
<1>4. /\ cache' = [cache EXCEPT ![Slot(Wanted)] =
               [cache[Slot(Wanted)] EXCEPT !.dirty = FALSE]]
      /\ UNCHANGED <<status, sectorPorts, ide_write, file_pos, byte_cnt, abort,
                     has_ide_intr, counter, pending, reply, latest, sent, i8259_intr_no,
                     is_nemu_hlt, IF_, use>>
      /\ phase = "inst" /\ phase' = "devices" /\ ran' \in BOOLEAN
  BY <1>1 DEF SetClean, SetEntry, Turn, IInv, Types, TypeOK, device, driver, caller,
     history
<1>5. Types'
  BY ZenonT(40), <1>1, <1>2, <1>3, <1>4, Sizes DEF IInv, Types, TypeOK, DeviceTypeOK, SafeUse
<1>6. CallerFrame'
  BY <1>1, <1>2, <1>3, <1>4 DEF IInv, CallerFrame, CallerLabels, FilledLabels,
     WriteLabels, ReadLabels, MayWrite, Wanted
<1>7. HandlerFrames'
  BY <1>1, <1>2, <1>3, <1>4 DEF IInv, HandlerFrames, HandlerAt
<1>8. LoopInv'
  BY <1>1, <1>2, <1>3, <1>4, Raises
  DEF IInv, Types, TypeOK, LoopInv, IdeIntrNotLost
<1>9. DeviceInv'
  BY <1>1, <1>2, <1>3, <1>4 DEF IInv, DeviceInv, DeviceAt, ReadLabels, WriteLabels
<1>10. CacheInv'
  BY SMTT(20), <1>1, <1>2, <1>3, <1>4 DEF IInv, Types, TypeOK, CacheInv, Holds,
     Refilling, RefillLabels, Entry, MayWrite, Wanted, FilledLabels
<1>11. WriteBackInv'
  <2>1. /\ \A e \in Entries : e # Slot(Wanted) => cache'[e] = cache[e]
        /\ cache'[Slot(Wanted)].used = cache[Slot(Wanted)].used
        /\ cache'[Slot(Wanted)].sector = cache[Slot(Wanted)].sector
        /\ ~cache'[Slot(Wanted)].dirty
        /\ cache'[Slot(Wanted)].content = cache[Slot(Wanted)].content
    BY <1>1, <1>4 DEF IInv, Types, TypeOK
  <2>2. \A k \in 1 .. Len(stack') : WriteBackAt(stack[k])'
    BY <1>2, <1>3 DEF WriteBackAt, WriteLabels
  <2>3. ASSUME stack'[1].pc \in RefillLabels, NEW a \in Addrs,
               (Slot(a[1]) = Slot(Wanted))', latest'[a] = Written
        PROVE  a \in sent'
    BY <1>1, <1>2, <1>3, <1>4, <2>3
    DEF IInv, WriteBackInv, RefillLabels, ReadLabels, FilledLabels, Wanted
  <2>4. NoWriteDropped'
    BY <1>1, <1>4, <2>1
    DEF IInv, CacheInv, WriteBackInv, NoWriteDropped, RefillLabels, FilledLabels, Addrs,
        Sectors, Entry, Entries
  <2>5. QED
    BY <2>2, <2>3, <2>4 DEF WriteBackInv
<1>12. CounterInv'
  BY <1>1, <1>2, <1>3, <1>4 DEF IInv, CounterInv
<1>13. QED
  BY <1>5, <1>6, <1>7, <1>8, <1>9, <1>10, <1>11, <1>12 DEF IInv

(* write_byte stores the data in the entry of its sector.                  *)
LEMMA WriteByteKeeps ==
  ASSUME IInv, Turn, WriteByte
  PROVE  IInv'
<1> DEFINE f == [stack[1] EXCEPT !.pc = "mark_dirty"]
<1>1. /\ Len(stack) = 1 /\ top = stack[1] /\ stack[1].pc = "use"
      /\ stack[1] \in Frames
      /\ pending \in use.ops \X Addrs /\ pending # NoRequest
      /\ pending[2] \in Addrs /\ Wanted \in Sectors /\ pending[2][2] \in Words
      /\ Slot(Wanted) \in Entries /\ MayWrite
  BY Caller, Sizes DEF WriteByte, At, IInv, CallerFrame, CallerLabels, FilledLabels,
     ReadLabels, MayWrite
<1>2. f \in Frames /\ f.pc = "mark_dirty" /\ f.e = stack[1].e /\ f.IF_ = stack[1].IF_
  BY <1>1, Sizes DEF Frames, FrameLabels
<1>3. Len(stack') = 1 /\ stack' \in Seq(Frames) /\ stack'[1] = f /\ top' = f
  BY <1>1, <1>2, CallerMoves DEF WriteByte, Goto, CallDisk, Wanted
<1> HIDE DEF f
<1>4. /\ cache' = [cache EXCEPT ![Slot(Wanted)] =
               [cache[Slot(Wanted)] EXCEPT !.content[pending[2][2]] = Written]]
      /\ UNCHANGED <<status, sectorPorts, ide_write, file_pos, byte_cnt, abort,
                     has_ide_intr, counter, pending, reply, latest, sent, i8259_intr_no,
                     is_nemu_hlt, IF_, use>>
      /\ phase = "inst" /\ phase' = "devices" /\ ran' \in BOOLEAN
  BY <1>1 DEF WriteByte, SetEntry, Turn, IInv, Types, TypeOK, device, driver, caller,
     history, Wanted, Entry
<1>5. Types'
  BY ZenonT(40), <1>1, <1>2, <1>3, <1>4, Sizes DEF IInv, Types, TypeOK, DeviceTypeOK, SafeUse, Data
<1>6. CallerFrame'
  BY <1>1, <1>2, <1>3, <1>4 DEF IInv, CallerFrame, CallerLabels, FilledLabels,
     WriteLabels, ReadLabels, MayWrite, Wanted
<1>7. HandlerFrames'
  BY <1>1, <1>2, <1>3, <1>4 DEF IInv, HandlerFrames, HandlerAt
<1>8. LoopInv'
  BY <1>1, <1>2, <1>3, <1>4, Raises
  DEF IInv, Types, TypeOK, LoopInv, IdeIntrNotLost
<1>9. DeviceInv'
  BY <1>1, <1>2, <1>3, <1>4 DEF IInv, DeviceInv, DeviceAt, ReadLabels, WriteLabels
<1>10. CacheInv'
  <2>1. /\ \A e \in Entries : e # Slot(Wanted) => cache'[e] = cache[e]
        /\ cache'[Slot(Wanted)].used = cache[Slot(Wanted)].used
        /\ cache'[Slot(Wanted)].sector = cache[Slot(Wanted)].sector
        /\ \A v \in Words : cache'[Slot(Wanted)].content[v] =
             IF v = pending[2][2] THEN Written ELSE cache[Slot(Wanted)].content[v]
    BY <1>1, <1>4 DEF IInv, Types, TypeOK
  <2>2. Wanted' = Wanted /\ MayWrite' = MayWrite
    BY <1>4 DEF Wanted, MayWrite
  <2>3. \A e \in Entries : ~Refilling(e)
    BY <1>1 DEF Refilling, RefillLabels
  <2>4. ASSUME NEW e \in Entries, cache'[e].used
        PROVE  Holds(e, cache[e].sector)'
    BY <1>1, <2>1, <2>2, <2>3, <2>4 DEF IInv, CacheInv, Holds
  <2>5. cache[Slot(Wanted)].used /\ cache[Slot(Wanted)].sector = Wanted
    BY <1>1 DEF IInv, CacheInv, Entry, Wanted
  <2>6. QED
    BY <1>1, <1>2, <1>3, <1>4, <2>1, <2>2, <2>4, <2>5
    DEF CacheInv, Entry, Wanted, FilledLabels
<1>11. WriteBackInv'
  <2>1. /\ \A e \in Entries : e # Slot(Wanted) => cache'[e] = cache[e]
        /\ cache'[Slot(Wanted)].used = cache[Slot(Wanted)].used
        /\ cache'[Slot(Wanted)].sector = cache[Slot(Wanted)].sector
        /\ cache'[Slot(Wanted)].dirty = cache[Slot(Wanted)].dirty
        /\ \A v \in Words : cache'[Slot(Wanted)].content[v] =
             IF v = pending[2][2] THEN Written ELSE cache[Slot(Wanted)].content[v]
    BY <1>1, <1>4 DEF IInv, Types, TypeOK
  <2>2. \A k \in 1 .. Len(stack') : WriteBackAt(stack[k])'
    BY <1>2, <1>3 DEF WriteBackAt, WriteLabels
  <2>3. ASSUME stack'[1].pc \in RefillLabels, NEW a \in Addrs,
               (Slot(a[1]) = Slot(Wanted))', latest'[a] = Written
        PROVE  a \in sent'
    BY <1>1, <1>2, <1>3, <1>4, <2>3
    DEF IInv, WriteBackInv, RefillLabels, ReadLabels, FilledLabels, Wanted
  <2>4. NoWriteDropped'
    BY <1>1, <1>4, <2>1
    DEF IInv, CacheInv, WriteBackInv, NoWriteDropped, RefillLabels, FilledLabels, Addrs,
        Sectors, Entry, Entries
  <2>5. QED
    BY <2>2, <2>3, <2>4 DEF WriteBackInv
<1>12. CounterInv'
  BY <1>1, <1>2, <1>3, <1>4 DEF IInv, CounterInv
<1>13. QED
  BY <1>5, <1>6, <1>7, <1>8, <1>9, <1>10, <1>11, <1>12 DEF IInv

(* read_byte returns.                                                      *)
LEMMA ReadByteKeeps ==
  ASSUME IInv, Turn, ReadByte
  PROVE  IInv'
<1> DEFINE f == Frame("idle", TRUE)
<1>1. /\ Len(stack) = 1 /\ top = stack[1] /\ stack[1].pc = "use"
      /\ stack[1] \in Frames
      /\ stack[1].IF_ = TRUE
      /\ pending \in use.ops \X Addrs /\ pending # NoRequest
      /\ pending[2] \in Addrs /\ Wanted \in Sectors /\ pending[2][2] \in Words
      /\ Slot(Wanted) \in Entries
  BY Caller, Sizes, TopFrame DEF ReadByte, At, IInv, CallerFrame, CallerLabels,
     FilledLabels, ReadLabels, Frames
<1>2. f \in Frames /\ f.pc = "idle" /\ f.IF_ = TRUE
  BY <1>1, Sizes DEF Frames, FrameLabels, Frame, Ports
<1>3. Len(stack') = 1 /\ stack' \in Seq(Frames) /\ stack'[1] = f /\ top' = f
  BY <1>1, <1>2, CallerMoves DEF ReadByte, Goto, CallDisk, Wanted, ReturnToCaller
<1> HIDE DEF f
<1>4. /\ pending' = NoRequest /\ IF_' = TRUE
      /\ reply' = cache[Slot(Wanted)].content[pending[2][2]]
      /\ UNCHANGED <<status, sectorPorts, ide_write, file_pos, byte_cnt, abort,
                     has_ide_intr, counter, cache, latest, sent, i8259_intr_no,
                     is_nemu_hlt, use>>
      /\ phase = "inst" /\ phase' = "devices" /\ ran' \in BOOLEAN
  BY <1>1 DEF ReadByte, SetEntry, Turn, IInv, Types, TypeOK, device, driver, caller,
     history, Wanted, Entry, ReturnToCaller
<1>5. Types'
  BY <1>1, <1>2, <1>3, <1>4, Sizes DEF IInv, Types, TypeOK, DeviceTypeOK, SafeUse
<1>6. CallerFrame'
  BY <1>1, <1>2, <1>3, <1>4 DEF IInv, CallerFrame, CallerLabels, FilledLabels,
     WriteLabels, ReadLabels, MayWrite, Wanted
<1>7. HandlerFrames'
  BY <1>1, <1>2, <1>3, <1>4 DEF IInv, HandlerFrames, HandlerAt
<1>8. LoopInv'
  BY <1>1, <1>2, <1>3, <1>4, Raises
  DEF IInv, Types, TypeOK, LoopInv, IdeIntrNotLost,
     Replacing, RefillLabels, WriteLabels
<1>9. DeviceInv'
  BY <1>1, <1>2, <1>3, <1>4 DEF IInv, DeviceInv, DeviceAt, ReadLabels, WriteLabels
<1>10. CacheInv'
  BY <1>1, <1>2, <1>3, <1>4 DEF IInv, Types, TypeOK, CacheInv, Holds, Refilling, RefillLabels, Entry,
     MayWrite, Wanted, FilledLabels
<1>11. WriteBackInv'
  BY <1>1, <1>2, <1>3, <1>4 DEF IInv, Types, TypeOK, WriteBackInv, WriteBackAt, SentBelow,
     NoWriteDropped, WriteLabels, RefillLabels, FilledLabels, ReadLabels, Wanted
<1>12. CounterInv'
  BY <1>1, <1>2, <1>3, <1>4 DEF IInv, CounterInv
<1>13. QED
  BY <1>5, <1>6, <1>7, <1>8, <1>9, <1>10, <1>11, <1>12 DEF IInv

(* write_byte returns: the entry that holds the data is dirty.             *)
LEMMA MarkDirtyKeeps ==
  ASSUME IInv, Turn, MarkDirty
  PROVE  IInv'
<1> DEFINE f == Frame("idle", TRUE)
<1>1. /\ Len(stack) = 1 /\ top = stack[1] /\ stack[1].pc = "mark_dirty"
      /\ stack[1] \in Frames
      /\ stack[1].IF_ = TRUE /\ MayWrite
      /\ pending \in use.ops \X Addrs /\ pending # NoRequest
      /\ pending[2] \in Addrs /\ Wanted \in Sectors /\ pending[2][2] \in Words
      /\ Slot(Wanted) \in Entries
  BY Caller, Sizes DEF MarkDirty, At, IInv, CallerFrame, CallerLabels, FilledLabels,
     ReadLabels, Frames
<1>2. f \in Frames /\ f.pc = "idle" /\ f.IF_ = TRUE
  BY <1>1, Sizes DEF Frames, FrameLabels, Frame, Ports
<1>3. Len(stack') = 1 /\ stack' \in Seq(Frames) /\ stack'[1] = f /\ top' = f
  BY <1>1, <1>2, CallerMoves DEF MarkDirty, Goto, CallDisk, Wanted, ReturnToCaller
<1> HIDE DEF f
<1>4. /\ pending' = NoRequest /\ IF_' = TRUE
      /\ latest' = [latest EXCEPT ![pending[2]] = Written]
      /\ sent' = sent \ {pending[2]}
      /\ cache' = [cache EXCEPT ![Slot(Wanted)] =
               [cache[Slot(Wanted)] EXCEPT !.dirty = TRUE]]
      /\ UNCHANGED <<status, sectorPorts, ide_write, file_pos, byte_cnt, abort,
                     has_ide_intr, counter, reply, i8259_intr_no, is_nemu_hlt, use>>
      /\ phase = "inst" /\ phase' = "devices" /\ ran' \in BOOLEAN
  BY <1>1 DEF MarkDirty, SetEntry, Turn, IInv, Types, TypeOK, device, driver, caller,
     history, Wanted, Entry, ReturnToCaller
<1>5. Types'
  BY ZenonT(40), <1>1, <1>2, <1>3, <1>4, Sizes DEF IInv, Types, TypeOK, DeviceTypeOK, SafeUse, Data
<1>6. CallerFrame'
  BY <1>1, <1>2, <1>3, <1>4 DEF IInv, CallerFrame, CallerLabels, FilledLabels,
     WriteLabels, ReadLabels, MayWrite, Wanted
<1>7. HandlerFrames'
  BY <1>1, <1>2, <1>3, <1>4 DEF IInv, HandlerFrames, HandlerAt
<1>8. LoopInv'
  BY <1>1, <1>2, <1>3, <1>4, Raises
  DEF IInv, Types, TypeOK, LoopInv, IdeIntrNotLost,
     Replacing, RefillLabels, WriteLabels
<1>9. DeviceInv'
  BY <1>1, <1>2, <1>3, <1>4 DEF IInv, DeviceInv, DeviceAt, ReadLabels, WriteLabels
<1>10. CacheInv'
  <2>1. \A e \in Entries : /\ cache'[e].used = cache[e].used
                           /\ cache'[e].sector = cache[e].sector
                           /\ cache'[e].content = cache[e].content
    BY <1>1, <1>4 DEF IInv, Types, TypeOK
  <2>2. MayWrite'
    BY <1>1, <1>4 DEF MayWrite
  <2>3. \A e \in Entries : ~Refilling(e)
    BY <1>1 DEF Refilling, RefillLabels
  <2>4. ASSUME NEW e \in Entries, cache'[e].used
        PROVE  Holds(e, cache[e].sector)'
    BY <1>1, <2>1, <2>2, <2>3, <2>4 DEF IInv, CacheInv, Holds
  <2>5. QED
    BY <1>2, <1>3, <2>2, <2>4 DEF CacheInv, FilledLabels
<1>11. WriteBackInv'
  <2>1. ASSUME NEW a \in Addrs, latest'[a] = Written
        PROVE  \/ a \in sent'
               \/ LET c == cache'[Slot(a[1])] IN
                    c.used /\ c.dirty /\ c.sector = a[1] /\ c.content[a[2]] = Written
    <3>1. CASE a = pending[2]
      <4>1. a[1] = Wanted
        BY <3>1 DEF Wanted
      <4>2. LET c == cache[Slot(Wanted)] IN
              c.used /\ c.sector = Wanted /\ c.content[a[2]] = Written
        BY <1>1, <3>1 DEF IInv, CacheInv, Entry, Wanted
      <4>3. QED
        BY <1>1, <1>4, <4>1, <4>2 DEF IInv, Types, TypeOK
    <3>2. CASE a # pending[2]
      <4>1. latest[a] = Written
        BY <1>1, <1>4, <2>1, <3>2 DEF IInv, Types, TypeOK
      <4>2. \/ a \in sent
            \/ LET c == cache[Slot(a[1])] IN
                 c.used /\ c.dirty /\ c.sector = a[1] /\ c.content[a[2]] = Written
        BY <4>1 DEF IInv, WriteBackInv, NoWriteDropped
      <4>3. Slot(a[1]) \in Entries
        BY Sizes DEF Addrs
      <4>4. QED
        BY <1>1, <1>4, <3>2, <4>2, <4>3 DEF IInv, Types, TypeOK
    <3>3. QED
      BY <3>1, <3>2
  <2>2. QED
    BY <1>1, <1>2, <1>3, <2>1 DEF WriteBackInv, WriteBackAt, NoWriteDropped, WriteLabels,
       RefillLabels, ReadLabels, FilledLabels
<1>12. CounterInv'
  BY <1>1, <1>2, <1>3, <1>4 DEF IInv, CounterInv
<1>13. QED
  BY <1>5, <1>6, <1>7, <1>8, <1>9, <1>10, <1>11, <1>12 DEF IInv

(* disk_do_read forgets interrupts of earlier commands.                    *)
LEMMA ClearIdeIntrKeeps ==
  ASSUME IInv, Turn, ClearIdeIntr
  PROVE  IInv'
<1> DEFINE f == Calling(stack[1], "r_waitdisk", Slot(Wanted), Wanted, "set_used")
<1>1. /\ Len(stack) = 1 /\ top = stack[1] /\ stack[1].pc = "refill"
      /\ stack[1] \in Frames
      /\ pending \in use.ops \X Addrs /\ pending # NoRequest
      /\ pending[2] \in Addrs /\ Wanted \in Sectors /\ pending[2][2] \in Words
      /\ Slot(Wanted) \in Entries
  BY Caller, Sizes DEF ClearIdeIntr, At, IInv, CallerFrame, CallerLabels, FilledLabels,
     ReadLabels
<1>2. f \in Frames /\ f.pc = "r_waitdisk" /\ f.e = Slot(Wanted) /\ f.sec = Wanted /\ f.w = 0
      /\ f.ret = "set_used" /\ f.IF_ = stack[1].IF_
  <2>1. "r_waitdisk" \in FrameLabels
    BY DEF FrameLabels
  <2>2. QED
    BY <1>1, <2>1, Called
<1>3. Len(stack') = 1 /\ stack' \in Seq(Frames) /\ stack'[1] = f /\ top' = f
  BY <1>1, <1>2, CallerMoves DEF ClearIdeIntr, Goto, CallDisk, Wanted, Calling
<1> HIDE DEF f
<1>4. /\ has_ide_intr' = 0
      /\ UNCHANGED <<status, sectorPorts, ide_write, file_pos, byte_cnt, abort, counter,
                     cache, pending, reply, latest, sent, i8259_intr_no, is_nemu_hlt, IF_,
                     use>>
      /\ phase = "inst" /\ phase' = "devices" /\ ran' \in BOOLEAN
  BY <1>1 DEF ClearIdeIntr, SetEntry, Turn, IInv, Types, TypeOK, device, driver, caller,
     history
<1>5. Types'
  BY <1>1, <1>2, <1>3, <1>4, Sizes DEF IInv, Types, TypeOK, DeviceTypeOK, SafeUse
<1>6. CallerFrame'
  BY <1>1, <1>2, <1>3, <1>4 DEF IInv, CallerFrame, CallerLabels, FilledLabels,
     WriteLabels, ReadLabels, MayWrite, Wanted
<1>7. HandlerFrames'
  BY <1>1, <1>2, <1>3, <1>4 DEF IInv, HandlerFrames, HandlerAt
<1>8. LoopInv'
  BY <1>1, <1>2, <1>3, <1>4, Raises
  DEF IInv, Types, TypeOK, LoopInv, IdeIntrNotLost
<1>9. DeviceInv'
  BY <1>1, <1>2, <1>3, <1>4 DEF IInv, DeviceInv, DeviceAt, ReadLabels, WriteLabels
<1>10. CacheInv'
  BY <1>1, <1>2, <1>3, <1>4 DEF IInv, Types, TypeOK, CacheInv, Holds, Refilling, RefillLabels, Entry,
     MayWrite, Wanted, FilledLabels
<1>11. WriteBackInv'
  BY <1>1, <1>2, <1>3, <1>4 DEF IInv, Types, TypeOK, WriteBackInv, WriteBackAt, SentBelow,
     NoWriteDropped, WriteLabels, RefillLabels, FilledLabels, ReadLabels, Wanted
<1>12. CounterInv'
  BY <1>1, <1>2, <1>3, <1>4 DEF IInv, CounterInv
<1>13. QED
  BY <1>5, <1>6, <1>7, <1>8, <1>9, <1>10, <1>11, <1>12 DEF IInv

(* The read command: the disk moves to the sector and raises IRQ 14.       *)
LEMMA IssueReadKeeps ==
  ASSUME IInv, Turn, IssueRead
  PROVE  IInv'
<1> DEFINE f == [stack[1] EXCEPT !.pc = "wait_ide_intr"]
<1>1. /\ Len(stack) = 1 /\ top = stack[1] /\ stack[1].pc = "issue_read"
      /\ stack[1] \in Frames
      /\ stack[1].e = Slot(Wanted) /\ Slot(Wanted) \in Entries
      /\ stack[1].sec = Wanted /\ stack[1].w = 0 /\ sector = Wanted
      /\ pending \in use.ops \X Addrs /\ pending # NoRequest
      /\ pending[2] \in Addrs /\ Wanted \in Sectors /\ pending[2][2] \in Words
      /\ i8259_intr_no \in {I8259_NO_INTR, IRQ_BASE + TIMER_IRQ, IRQ_BASE + IDE_IRQ}
  BY Caller, Sizes, PortBytes DEF IssueRead, At, IInv, CallerFrame, CallerLabels, FilledLabels,
     ReadLabels, DeviceInv, DeviceAt, LoopInv, WriteLabels
<1>2. f \in Frames /\ f.pc = "wait_ide_intr" /\ f.e = stack[1].e
      /\ f.sec = stack[1].sec /\ f.w = stack[1].w
      /\ f.ret = stack[1].ret /\ f.IF_ = stack[1].IF_
  BY <1>1, Sizes DEF Frames, FrameLabels
<1>3. Len(stack') = 1 /\ stack' \in Seq(Frames) /\ stack'[1] = f /\ top' = f
  BY <1>1, <1>2, CallerMoves DEF IssueRead, Goto, CallDisk, Wanted
<1> HIDE DEF f
<1>4. /\ file_pos' = DiskWord(Wanted, 0) /\ byte_cnt' = 0
      /\ ide_write' = FALSE /\ status' = READY
      /\ i8259_intr_no' = IRQ_BASE + IDE_IRQ
      /\ UNCHANGED <<sectorPorts, abort, has_ide_intr, counter, cache, pending, reply,
                     latest, sent, is_nemu_hlt, IF_, use>>
      /\ phase = "inst" /\ phase' = "devices" /\ ran' \in BOOLEAN
  BY <1>1 DEF IssueRead, SetEntry, Turn, IInv, Types, TypeOK, device, driver, caller,
     history, OutReadCommand, SlotAfterRaise, IRQ_BASE, IDE_IRQ, TIMER_IRQ, I8259_NO_INTR
<1>5. Types'
  <2>1. /\ IRQ_BASE + IDE_IRQ \in Slots
        /\ DiskWord(Wanted, 0) \in 0 .. NrSectors * NrWords /\ 0 \in 0 .. NrWords
    <3>1. 0 \in 0 .. NrWords
      BY Sizes
    <3>2. QED
      BY <1>1, <3>1, DiskWords, Raises
  <2>2. QED
    BY <1>1, <1>2, <1>3, <1>4, <2>1
    DEF IInv, Types, TypeOK, DeviceTypeOK, SafeUse, READY
<1>6. CallerFrame'
  BY <1>1, <1>2, <1>3, <1>4 DEF IInv, CallerFrame, CallerLabels, FilledLabels,
     WriteLabels, ReadLabels, MayWrite, Wanted
<1>7. HandlerFrames'
  BY <1>1, <1>2, <1>3, <1>4 DEF IInv, HandlerFrames, HandlerAt
<1>8. LoopInv'
  BY <1>1, <1>2, <1>3, <1>4, Raises
  DEF IInv, Types, TypeOK, LoopInv, IdeIntrNotLost, IRQ_BASE,
     IDE_IRQ, TIMER_IRQ, I8259_NO_INTR
<1>9. DeviceInv'
  BY <1>1, <1>2, <1>3, <1>4, DiskWords DEF IInv, DeviceInv, DeviceAt, ReadLabels,
     WriteLabels
<1>10. CacheInv'
  BY <1>1, <1>2, <1>3, <1>4 DEF IInv, Types, TypeOK, CacheInv, Holds, Refilling, RefillLabels, Entry,
     MayWrite, Wanted, FilledLabels
<1>11. WriteBackInv'
  <2>1. \A k \in 1 .. Len(stack') : stack'[k].pc \notin WriteLabels \cup {"clean"}
    BY <1>2, <1>3 DEF WriteLabels
  <2>2. stack[1].pc \in RefillLabels
    BY <1>1 DEF RefillLabels, ReadLabels
  <2>3. QED
    BY <1>4, <2>1, <2>2, WritesKept DEF IInv
<1>12. CounterInv'
  BY <1>1, <1>2, <1>3, <1>4 DEF IInv, CounterInv
<1>13. QED
  BY <1>5, <1>6, <1>7, <1>8, <1>9, <1>10, <1>11, <1>12 DEF IInv

(* wait_ide_intr halts.                                                    *)
LEMMA WaitIntrKeeps ==
  ASSUME IInv, Turn, WaitIntr
  PROVE  IInv'
<1> DEFINE f == [stack[1] EXCEPT !.pc = "wait_ide_intr"]
<1>1. /\ Len(stack) = 1 /\ top = stack[1] /\ stack[1].pc = "wait_intr"
      /\ stack[1] \in Frames
      /\ stack[1].e = Slot(Wanted) /\ Slot(Wanted) \in Entries
      /\ pending \in use.ops \X Addrs /\ pending # NoRequest
      /\ pending[2] \in Addrs /\ Wanted \in Sectors /\ pending[2][2] \in Words
  BY Caller, Sizes DEF WaitIntr, At, IInv, CallerFrame, CallerLabels, FilledLabels,
     ReadLabels
<1>2. f \in Frames /\ f.pc = "wait_ide_intr" /\ f.e = stack[1].e
      /\ f.sec = stack[1].sec /\ f.w = stack[1].w
      /\ f.ret = stack[1].ret /\ f.IF_ = stack[1].IF_
  BY <1>1, Sizes DEF Frames, FrameLabels
<1>3. Len(stack') = 1 /\ stack' \in Seq(Frames) /\ stack'[1] = f /\ top' = f
  BY <1>1, <1>2, CallerMoves DEF WaitIntr, Goto, CallDisk, Wanted
<1> HIDE DEF f
<1>4. /\ is_nemu_hlt' = TRUE
      /\ UNCHANGED <<status, sectorPorts, ide_write, file_pos, byte_cnt, abort,
                     has_ide_intr, counter, cache, pending, reply, latest, sent,
                     i8259_intr_no, IF_, use>>
      /\ phase = "inst" /\ phase' = "devices" /\ ran' \in BOOLEAN
  BY <1>1 DEF WaitIntr, SetEntry, Turn, IInv, Types, TypeOK, device, driver, caller,
     history
<1>5. Types'
  BY <1>1, <1>2, <1>3, <1>4, Sizes DEF IInv, Types, TypeOK, DeviceTypeOK, SafeUse
<1>6. CallerFrame'
  BY <1>1, <1>2, <1>3, <1>4 DEF IInv, CallerFrame, CallerLabels, FilledLabels,
     WriteLabels, ReadLabels, MayWrite, Wanted
<1>7. HandlerFrames'
  BY <1>1, <1>2, <1>3, <1>4 DEF IInv, HandlerFrames, HandlerAt
<1>8. LoopInv'
  BY <1>1, <1>2, <1>3, <1>4, Raises
  DEF IInv, Types, TypeOK, LoopInv, IdeIntrNotLost
<1>9. DeviceInv'
  BY <1>1, <1>2, <1>3, <1>4 DEF IInv, DeviceInv, DeviceAt, ReadLabels, WriteLabels
<1>10. CacheInv'
  BY <1>1, <1>2, <1>3, <1>4 DEF IInv, Types, TypeOK, CacheInv, Holds, Refilling, RefillLabels, Entry,
     MayWrite, Wanted, FilledLabels
<1>11. WriteBackInv'
  BY <1>1, <1>2, <1>3, <1>4 DEF IInv, Types, TypeOK, WriteBackInv, WriteBackAt, SentBelow,
     NoWriteDropped, WriteLabels, RefillLabels, FilledLabels, ReadLabels, Wanted
<1>12. CounterInv'
  BY <1>1, <1>2, <1>3, <1>4 DEF IInv, CounterInv
<1>13. QED
  BY <1>5, <1>6, <1>7, <1>8, <1>9, <1>10, <1>11, <1>12 DEF IInv

(* wait_ide_intr has seen the interrupt.                                   *)
LEMMA IdeIntrSeenKeeps ==
  ASSUME IInv, Turn, IdeIntrSeen
  PROVE  IInv'
<1> DEFINE f == [stack[1] EXCEPT !.pc = "in_long"]
<1>1. /\ Len(stack) = 1 /\ top = stack[1] /\ stack[1].pc = "clear_ide_intr"
      /\ stack[1] \in Frames
      /\ stack[1].e = Slot(Wanted) /\ Slot(Wanted) \in Entries
      /\ stack[1].w = 0
      /\ pending \in use.ops \X Addrs /\ pending # NoRequest
      /\ pending[2] \in Addrs /\ Wanted \in Sectors /\ pending[2][2] \in Words
  BY Caller, Sizes DEF IdeIntrSeen, At, IInv, CallerFrame, CallerLabels, FilledLabels,
     ReadLabels, DeviceInv, DeviceAt, WriteLabels
<1>2. f \in Frames /\ f.pc = "in_long" /\ f.e = stack[1].e
      /\ f.sec = stack[1].sec /\ f.w = stack[1].w
      /\ f.ret = stack[1].ret /\ f.IF_ = stack[1].IF_
  BY <1>1, Sizes DEF Frames, FrameLabels
<1>3. Len(stack') = 1 /\ stack' \in Seq(Frames) /\ stack'[1] = f /\ top' = f
  BY <1>1, <1>2, CallerMoves DEF IdeIntrSeen, Goto, CallDisk, Wanted
<1> HIDE DEF f
<1>4. /\ has_ide_intr' = 0
      /\ UNCHANGED <<status, sectorPorts, ide_write, file_pos, byte_cnt, abort, counter,
                     cache, pending, reply, latest, sent, i8259_intr_no, is_nemu_hlt, IF_,
                     use>>
      /\ phase = "inst" /\ phase' = "devices" /\ ran' \in BOOLEAN
  BY <1>1 DEF IdeIntrSeen, SetEntry, Turn, IInv, Types, TypeOK, device, driver, caller,
     history
<1>5. Types'
  BY <1>1, <1>2, <1>3, <1>4, Sizes DEF IInv, Types, TypeOK, DeviceTypeOK, SafeUse
<1>6. CallerFrame'
  BY <1>1, <1>2, <1>3, <1>4 DEF IInv, CallerFrame, CallerLabels, FilledLabels,
     WriteLabels, ReadLabels, MayWrite, Wanted
<1>7. HandlerFrames'
  BY <1>1, <1>2, <1>3, <1>4 DEF IInv, HandlerFrames, HandlerAt
<1>8. LoopInv'
  BY <1>1, <1>2, <1>3, <1>4, Raises
  DEF IInv, Types, TypeOK, LoopInv, IdeIntrNotLost
<1>9. DeviceInv'
  BY <1>1, <1>2, <1>3, <1>4, Sizes DEF IInv, DeviceInv, DeviceAt, ReadLabels, WriteLabels
<1>10. CacheInv'
  BY <1>1, <1>2, <1>3, <1>4, Sizes DEF IInv, Types, TypeOK, CacheInv, Holds, Refilling,
     RefillLabels, Entry, MayWrite, Wanted, FilledLabels
<1>11. WriteBackInv'
  BY <1>1, <1>2, <1>3, <1>4 DEF IInv, Types, TypeOK, WriteBackInv, WriteBackAt, SentBelow,
     NoWriteDropped, WriteLabels, RefillLabels, FilledLabels, ReadLabels, Wanted
<1>12. CounterInv'
  BY <1>1, <1>2, <1>3, <1>4 DEF IInv, CounterInv
<1>13. QED
  BY <1>5, <1>6, <1>7, <1>8, <1>9, <1>10, <1>11, <1>12 DEF IInv

(* wait_ide_intr finds no interrupt noted.                                 *)
LEMMA WaitIdeIntrHalts ==
  ASSUME IInv, Turn, WaitIdeIntr, has_ide_intr = 0
  PROVE  IInv'
<1> DEFINE f == [stack[1] EXCEPT !.pc = "wait_intr"]
<1>1. /\ Len(stack) = 1 /\ top = stack[1] /\ stack[1].pc = "wait_ide_intr"
      /\ stack[1] \in Frames
      /\ stack[1].e = Slot(Wanted) /\ Slot(Wanted) \in Entries
      /\ pending \in use.ops \X Addrs /\ pending # NoRequest
      /\ pending[2] \in Addrs /\ Wanted \in Sectors /\ pending[2][2] \in Words
      /\ has_ide_intr = 0
  BY Caller, Sizes DEF WaitIdeIntr, At, IInv, CallerFrame, CallerLabels, FilledLabels,
     ReadLabels
<1>2. f \in Frames /\ f.pc = "wait_intr" /\ f.e = stack[1].e
      /\ f.sec = stack[1].sec /\ f.w = stack[1].w
      /\ f.ret = stack[1].ret /\ f.IF_ = stack[1].IF_
  BY <1>1, Sizes DEF Frames, FrameLabels
<1>3. Len(stack') = 1 /\ stack' \in Seq(Frames) /\ stack'[1] = f /\ top' = f
  BY <1>1, <1>2, CallerMoves DEF WaitIdeIntr, Goto, CallDisk, Wanted
<1> HIDE DEF f
<1>4. /\ UNCHANGED <<cache, status, sectorPorts, ide_write, file_pos, byte_cnt, abort,
                     has_ide_intr, counter, pending, reply, latest, sent, i8259_intr_no,
                     is_nemu_hlt, IF_, use>>
      /\ phase = "inst" /\ phase' = "devices" /\ ran' \in BOOLEAN
  BY <1>1 DEF WaitIdeIntr, SetEntry, Turn, IInv, Types, TypeOK, device, driver, caller,
     history
<1>5. Types'
  BY <1>1, <1>2, <1>3, <1>4, Sizes DEF IInv, Types, TypeOK, DeviceTypeOK, SafeUse
<1>6. CallerFrame'
  BY <1>1, <1>2, <1>3, <1>4 DEF IInv, CallerFrame, CallerLabels, FilledLabels,
     WriteLabels, ReadLabels, MayWrite, Wanted
<1>7. HandlerFrames'
  BY <1>1, <1>2, <1>3, <1>4 DEF IInv, HandlerFrames, HandlerAt
<1>8. LoopInv'
  BY <1>1, <1>2, <1>3, <1>4, Raises DEF IInv, Types, TypeOK, LoopInv, IdeIntrNotLost
<1>9. DeviceInv'
  BY <1>1, <1>2, <1>3, <1>4 DEF IInv, DeviceInv, DeviceAt, ReadLabels, WriteLabels
<1>10. CacheInv'
  BY <1>1, <1>2, <1>3, <1>4 DEF IInv, Types, TypeOK, CacheInv, Holds, Refilling, RefillLabels, Entry,
     MayWrite, Wanted, FilledLabels
<1>11. WriteBackInv'
  BY <1>1, <1>2, <1>3, <1>4 DEF IInv, Types, TypeOK, WriteBackInv, WriteBackAt, SentBelow,
     NoWriteDropped, WriteLabels, RefillLabels, FilledLabels, ReadLabels, Wanted
<1>12. CounterInv'
  BY <1>1, <1>2, <1>3, <1>4 DEF IInv, CounterInv
<1>13. QED
  BY <1>5, <1>6, <1>7, <1>8, <1>9, <1>10, <1>11, <1>12 DEF IInv

(* wait_ide_intr finds the interrupt noted.                                *)
LEMMA WaitIdeIntrSeen ==
  ASSUME IInv, Turn, WaitIdeIntr, has_ide_intr # 0
  PROVE  IInv'
<1> DEFINE f == [stack[1] EXCEPT !.pc = "clear_ide_intr"]
<1>1. /\ Len(stack) = 1 /\ top = stack[1] /\ stack[1].pc = "wait_ide_intr"
      /\ stack[1] \in Frames
      /\ stack[1].e = Slot(Wanted) /\ Slot(Wanted) \in Entries
      /\ pending \in use.ops \X Addrs /\ pending # NoRequest
      /\ pending[2] \in Addrs /\ Wanted \in Sectors /\ pending[2][2] \in Words
      /\ has_ide_intr # 0
  BY Caller, Sizes DEF WaitIdeIntr, At, IInv, CallerFrame, CallerLabels, FilledLabels,
     ReadLabels
<1>2. f \in Frames /\ f.pc = "clear_ide_intr" /\ f.e = stack[1].e
      /\ f.sec = stack[1].sec /\ f.w = stack[1].w
      /\ f.ret = stack[1].ret /\ f.IF_ = stack[1].IF_
  BY <1>1, Sizes DEF Frames, FrameLabels
<1>3. Len(stack') = 1 /\ stack' \in Seq(Frames) /\ stack'[1] = f /\ top' = f
  BY <1>1, <1>2, CallerMoves DEF WaitIdeIntr, Goto, CallDisk, Wanted
<1> HIDE DEF f
<1>4. /\ UNCHANGED <<cache, status, sectorPorts, ide_write, file_pos, byte_cnt, abort,
                     has_ide_intr, counter, pending, reply, latest, sent, i8259_intr_no,
                     is_nemu_hlt, IF_, use>>
      /\ phase = "inst" /\ phase' = "devices" /\ ran' \in BOOLEAN
  BY <1>1 DEF WaitIdeIntr, SetEntry, Turn, IInv, Types, TypeOK, device, driver, caller,
     history
<1>5. Types'
  BY <1>1, <1>2, <1>3, <1>4, Sizes DEF IInv, Types, TypeOK, DeviceTypeOK, SafeUse
<1>6. CallerFrame'
  BY <1>1, <1>2, <1>3, <1>4 DEF IInv, CallerFrame, CallerLabels, FilledLabels,
     WriteLabels, ReadLabels, MayWrite, Wanted
<1>7. HandlerFrames'
  BY <1>1, <1>2, <1>3, <1>4 DEF IInv, HandlerFrames, HandlerAt
<1>8. LoopInv'
  BY <1>1, <1>2, <1>3, <1>4, Raises DEF IInv, Types, TypeOK, LoopInv, IdeIntrNotLost
<1>9. DeviceInv'
  BY <1>1, <1>2, <1>3, <1>4 DEF IInv, DeviceInv, DeviceAt, ReadLabels, WriteLabels
<1>10. CacheInv'
  BY <1>1, <1>2, <1>3, <1>4 DEF IInv, Types, TypeOK, CacheInv, Holds, Refilling, RefillLabels, Entry,
     MayWrite, Wanted, FilledLabels
<1>11. WriteBackInv'
  BY <1>1, <1>2, <1>3, <1>4 DEF IInv, Types, TypeOK, WriteBackInv, WriteBackAt, SentBelow,
     NoWriteDropped, WriteLabels, RefillLabels, FilledLabels, ReadLabels, Wanted
<1>12. CounterInv'
  BY <1>1, <1>2, <1>3, <1>4 DEF IInv, CounterInv
<1>13. QED
  BY <1>5, <1>6, <1>7, <1>8, <1>9, <1>10, <1>11, <1>12 DEF IInv

(* A word of the sector is read, and there are more.                       *)
LEMMA InLongMore ==
  ASSUME IInv, Turn, InLong, top.w + 1 < NrWords
  PROVE  IInv'
<1> DEFINE w == stack[1].w
           f == [stack[1] EXCEPT !.w = @ + 1]
<1>1. /\ Len(stack) = 1 /\ top = stack[1] /\ stack[1].pc = "in_long"
      /\ stack[1] \in Frames
      /\ stack[1].e = Slot(Wanted) /\ Slot(Wanted) \in Entries
      /\ stack[1].sec = Wanted /\ stack[1].ret = "set_used" /\ stack[1].w \in Words
      /\ byte_cnt = stack[1].w /\ file_pos = DiskWord(Wanted, stack[1].w)
      /\ ide_write = FALSE /\ status = READY
      /\ pending \in use.ops \X Addrs /\ pending # NoRequest
      /\ pending[2] \in Addrs /\ Wanted \in Sectors /\ pending[2][2] \in Words
      /\ w + 1 < NrWords /\ InWord /\ NextWord
      /\ cache' = [cache EXCEPT ![Slot(Wanted)] =
                   [cache[Slot(Wanted)] EXCEPT !.content[w] = file_pos]]
  BY InLongAt
<1>2. /\ w \in Nat /\ w + 1 \in 0 .. NrWords /\ file_pos + 1 = DiskWord(Wanted, w + 1)
      /\ file_pos \in Data /\ file_pos + 1 \in 0 .. NrSectors * NrWords
  <2>1. w \in 0 .. NrWords /\ w + 1 \in 0 .. NrWords
    BY <1>1, Sizes DEF Words
  <2>2. file_pos \in Data /\ file_pos + 1 = DiskWord(Wanted, w + 1)
    BY <1>1, <2>1, DiskWords
  <2>3. DiskWord(Wanted, w + 1) \in 0 .. NrSectors * NrWords
    BY <1>1, <2>1, DiskWords
  <2>4. QED
    BY <2>1, <2>2, <2>3
<1>3. f \in Frames /\ f.e = stack[1].e /\ f.IF_ = stack[1].IF_
      /\ f.pc = "in_long" /\ f.w = w + 1 /\ f.sec = Wanted /\ f.ret = "set_used"
  BY <1>1, <1>2, Sizes DEF Frames, FrameLabels
<1>4. Become(f)
  BY <1>1 DEF NextWord
<1>5. Len(stack') = 1 /\ stack' \in Seq(Frames) /\ stack'[1] = f /\ top' = f
  BY <1>1, <1>3, <1>4, CallerMoves
<1>6. /\ byte_cnt' = w + 1 /\ file_pos' = file_pos + 1 /\ status' = READY
      /\ UNCHANGED <<sectorPorts, ide_write, abort, has_ide_intr, counter, pending,
                    reply, latest, sent, i8259_intr_no, is_nemu_hlt, IF_, use>>
      /\ phase = "inst" /\ phase' = "devices" /\ ran' \in BOOLEAN
  BY <1>1 DEF InLong, Turn, IInv, Types, TypeOK, caller, history, InWord, FinishWord
<1> HIDE DEF f
<1>7. Types'
  <2>1. DeviceTypeOK'
    BY <1>2, <1>6 DEF IInv, Types, TypeOK, DeviceTypeOK, READY
  <2>2. cache' \in [Entries -> [sector : Sectors, used : BOOLEAN, dirty : BOOLEAN,
                               content : [Words -> Data]]]
    <3>1. cache[Slot(Wanted)] \in [sector : Sectors, used : BOOLEAN, dirty : BOOLEAN,
                                  content : [Words -> Data]]
      BY <1>1 DEF IInv, Types, TypeOK
    <3>2. [cache[Slot(Wanted)].content EXCEPT ![w] = file_pos] \in [Words -> Data]
      BY <1>1, <1>2, <3>1
    <3>3. [cache[Slot(Wanted)] EXCEPT !.content[w] = file_pos] \in
            [sector : Sectors, used : BOOLEAN, dirty : BOOLEAN, content : [Words -> Data]]
      BY <3>1, <3>2
    <3>4. QED
      BY <1>1, <3>3 DEF IInv, Types, TypeOK
  <2>3. QED
    BY <1>3, <1>5, <1>6, <2>1, <2>2, Sizes DEF IInv, Types, TypeOK, SafeUse
<1>8. CallerFrame'
  BY <1>1, <1>3, <1>5, <1>6 DEF IInv, CallerFrame, CallerLabels, FilledLabels,
     WriteLabels, ReadLabels, MayWrite, Wanted
<1>9. HandlerFrames' /\ CounterInv'
  BY <1>1, <1>5, <1>6 DEF IInv, HandlerFrames, HandlerAt, CounterInv
<1>10. LoopInv'
  BY <1>1, <1>3, <1>5, <1>6, Raises
  DEF IInv, Types, TypeOK, LoopInv, IdeIntrNotLost
<1>11. DeviceInv'
  BY SMTT(20), <1>1, <1>2, <1>3, <1>5, <1>6, Sizes DEF IInv, Words, DeviceInv, DeviceAt,
     ReadLabels, WriteLabels
<1>12. CacheInv'
  <2>1. /\ \A e \in Entries : e # Slot(Wanted) => cache'[e] = cache[e]
        /\ cache'[Slot(Wanted)].dirty = cache[Slot(Wanted)].dirty
        /\ \A v \in Words : cache'[Slot(Wanted)].content[v] =
             IF v = w THEN file_pos ELSE cache[Slot(Wanted)].content[v]
    BY <1>1, <1>2 DEF IInv, Types, TypeOK
  <2>2. \A v \in 0 .. w : cache'[Slot(Wanted)].content[v] = DiskWord(Wanted, v)
    <3>1. \A v \in 0 .. w : v \in Words /\ (v = w \/ v \in 0 .. w - 1)
      BY <1>1, <1>2, Sizes DEF Words
    <3>2. \A v \in 0 .. w - 1 : cache[Slot(Wanted)].content[v] = DiskWord(Wanted, v)
      BY <1>1 DEF IInv, CacheInv
    <3>3. QED
      BY <1>1, <2>1, <3>1, <3>2
  <2>3. f.w - 1 = w
    BY <1>1, <1>2, <1>3, Sizes
  <2>4. \A e \in Entries : Refilling(e)' <=> e = Slot(Wanted)
    BY <1>1, <1>3, <1>5, <1>6 DEF Refilling, RefillLabels, Wanted
  <2>5. \A e \in Entries : Refilling(e) <=> e = Slot(Wanted)
    BY <1>1 DEF Refilling, RefillLabels, Wanted
  <2>6. ASSUME NEW e \in Entries, cache'[e].used, ~Refilling(e)'
        PROVE  Holds(e, cache[e].sector)' /\ cache'[e] = cache[e]
    BY <1>1, <1>6, <2>1, <2>4, <2>5, <2>6 DEF IInv, CacheInv, Holds, MayWrite
  <2>7. Wanted' = Wanted /\ MayWrite' = MayWrite
    BY <1>6 DEF Wanted, MayWrite
  <2>8. ~MayWrite => latest' = ImageWord /\ \A e \in Entries : ~cache'[e].dirty
    BY <1>6, <2>1 DEF IInv, CacheInv
  <2>9. \A v \in 0 .. f.w - 1 : cache'[f.e].content[v] = DiskWord(Wanted, v)
    BY <1>1, <1>3, <2>2, <2>3
  <2>10. QED
    BY <1>3, <1>5, <2>6, <2>7, <2>8, <2>9 DEF CacheInv, FilledLabels
<1>13. WriteBackInv'
  <2>1. \A k \in 1 .. Len(stack') : WriteBackAt(stack[k])'
    BY <1>3, <1>5 DEF WriteBackAt, WriteLabels
  <2>2. \A a \in Addrs : Slot(a[1]) = Slot(Wanted) /\ latest[a] = Written => a \in sent
    BY <1>1 DEF IInv, WriteBackInv, RefillLabels, ReadLabels
  <2>3. Wanted' = Wanted
    BY <1>6 DEF Wanted
  <2>4. \A e \in Entries : e # Slot(Wanted) => cache'[e] = cache[e]
    BY <1>1 DEF IInv, Types, TypeOK
  <2>5. \A a \in Addrs : Slot(a[1]) \in Entries
    BY Sizes DEF Addrs
  <2>6. NoWriteDropped'
    BY <1>6, <2>2, <2>4, <2>5 DEF IInv, WriteBackInv, NoWriteDropped
  <2>7. QED
    BY <1>6, <2>1, <2>2, <2>3, <2>6 DEF WriteBackInv
<1>14. QED
  BY <1>7, <1>8, <1>9, <1>10, <1>11, <1>12, <1>13 DEF IInv

(* The last word of the sector is read: the entry holds the sector.        *)
LEMMA InLongLast ==
  ASSUME IInv, Turn, InLong, top.w + 1 = NrWords
  PROVE  IInv'
<1> DEFINE w == stack[1].w
           f == Done(stack[1])
<1>1. /\ Len(stack) = 1 /\ top = stack[1] /\ stack[1].pc = "in_long"
      /\ stack[1] \in Frames
      /\ stack[1].e = Slot(Wanted) /\ Slot(Wanted) \in Entries
      /\ stack[1].sec = Wanted /\ stack[1].ret = "set_used" /\ stack[1].w \in Words
      /\ byte_cnt = stack[1].w /\ file_pos = DiskWord(Wanted, stack[1].w)
      /\ ide_write = FALSE /\ status = READY
      /\ pending \in use.ops \X Addrs /\ pending # NoRequest
      /\ pending[2] \in Addrs /\ Wanted \in Sectors /\ pending[2][2] \in Words
      /\ w + 1 = NrWords /\ InWord /\ NextWord
      /\ cache' = [cache EXCEPT ![Slot(Wanted)] =
                   [cache[Slot(Wanted)] EXCEPT !.content[w] = file_pos]]
  BY InLongAt
<1>2. /\ w \in Nat /\ w + 1 \in 0 .. NrWords /\ file_pos + 1 = DiskWord(Wanted, w + 1)
      /\ file_pos \in Data /\ file_pos + 1 \in 0 .. NrSectors * NrWords
  <2>1. w \in 0 .. NrWords /\ w + 1 \in 0 .. NrWords
    BY <1>1, Sizes DEF Words
  <2>2. file_pos \in Data /\ file_pos + 1 = DiskWord(Wanted, w + 1)
    BY <1>1, <2>1, DiskWords
  <2>3. DiskWord(Wanted, w + 1) \in 0 .. NrSectors * NrWords
    BY <1>1, <2>1, DiskWords
  <2>4. QED
    BY <2>1, <2>2, <2>3
<1>3. f \in Frames /\ f.e = stack[1].e /\ f.IF_ = stack[1].IF_
      /\ f.pc = "set_used"
  BY <1>1, Finished
<1>4. Become(f)
  BY <1>1, <1>2, Sizes DEF NextWord, Done
<1>5. Len(stack') = 1 /\ stack' \in Seq(Frames) /\ stack'[1] = f /\ top' = f
  BY <1>1, <1>3, <1>4, CallerMoves
<1>6. /\ byte_cnt' = w + 1 /\ file_pos' = file_pos + 1 /\ status' = READY
      /\ UNCHANGED <<sectorPorts, ide_write, abort, has_ide_intr, counter, pending,
                    reply, latest, sent, i8259_intr_no, is_nemu_hlt, IF_, use>>
      /\ phase = "inst" /\ phase' = "devices" /\ ran' \in BOOLEAN
  BY <1>1 DEF InLong, Turn, IInv, Types, TypeOK, caller, history, InWord, FinishWord
<1> HIDE DEF f
<1>7. Types'
  <2>1. DeviceTypeOK'
    BY <1>2, <1>6 DEF IInv, Types, TypeOK, DeviceTypeOK, READY
  <2>2. cache' \in [Entries -> [sector : Sectors, used : BOOLEAN, dirty : BOOLEAN,
                               content : [Words -> Data]]]
    <3>1. cache[Slot(Wanted)] \in [sector : Sectors, used : BOOLEAN, dirty : BOOLEAN,
                                  content : [Words -> Data]]
      BY <1>1 DEF IInv, Types, TypeOK
    <3>2. [cache[Slot(Wanted)].content EXCEPT ![w] = file_pos] \in [Words -> Data]
      BY <1>1, <1>2, <3>1
    <3>3. [cache[Slot(Wanted)] EXCEPT !.content[w] = file_pos] \in
            [sector : Sectors, used : BOOLEAN, dirty : BOOLEAN, content : [Words -> Data]]
      BY <3>1, <3>2
    <3>4. QED
      BY <1>1, <3>3 DEF IInv, Types, TypeOK
  <2>3. QED
    BY <1>3, <1>5, <1>6, <2>1, <2>2, Sizes DEF IInv, Types, TypeOK, SafeUse
<1>8. CallerFrame'
  BY <1>1, <1>3, <1>5, <1>6 DEF IInv, CallerFrame, CallerLabels, FilledLabels,
     WriteLabels, ReadLabels, MayWrite, Wanted
<1>9. HandlerFrames' /\ CounterInv'
  BY <1>1, <1>5, <1>6 DEF IInv, HandlerFrames, HandlerAt, CounterInv
<1>10. LoopInv'
  BY <1>1, <1>3, <1>5, <1>6, Raises
  DEF IInv, Types, TypeOK, LoopInv, IdeIntrNotLost
<1>11. DeviceInv'
  BY <1>1, <1>2, <1>3, <1>5, <1>6 DEF IInv, DeviceInv, DeviceAt, ReadLabels, WriteLabels
<1>12. CacheInv'
  <2>1. /\ \A e \in Entries : e # Slot(Wanted) => cache'[e] = cache[e]
        /\ cache'[Slot(Wanted)].dirty = cache[Slot(Wanted)].dirty
        /\ \A v \in Words : cache'[Slot(Wanted)].content[v] =
             IF v = w THEN file_pos ELSE cache[Slot(Wanted)].content[v]
    BY <1>1, <1>2 DEF IInv, Types, TypeOK
  <2>2. \A v \in 0 .. w : cache'[Slot(Wanted)].content[v] = DiskWord(Wanted, v)
    <3>1. \A v \in 0 .. w : v \in Words /\ (v = w \/ v \in 0 .. w - 1)
      BY <1>1, <1>2, Sizes DEF Words
    <3>2. \A v \in 0 .. w - 1 : cache[Slot(Wanted)].content[v] = DiskWord(Wanted, v)
      BY <1>1 DEF IInv, CacheInv
    <3>3. QED
      BY <1>1, <2>1, <3>1, <3>2
  <2>3. Words = 0 .. w
    BY <1>1, <1>2, <1>3, Sizes DEF Words
  <2>4. \A e \in Entries : Refilling(e)' <=> e = Slot(Wanted)
    BY <1>1, <1>3, <1>5, <1>6 DEF Refilling, RefillLabels, Wanted
  <2>5. \A e \in Entries : Refilling(e) <=> e = Slot(Wanted)
    BY <1>1 DEF Refilling, RefillLabels, Wanted
  <2>6. ASSUME NEW e \in Entries, cache'[e].used, ~Refilling(e)'
        PROVE  Holds(e, cache[e].sector)' /\ cache'[e] = cache[e]
    BY <1>1, <1>6, <2>1, <2>4, <2>5, <2>6 DEF IInv, CacheInv, Holds, MayWrite
  <2>7. Wanted' = Wanted /\ MayWrite' = MayWrite
    BY <1>6 DEF Wanted, MayWrite
  <2>8. ~MayWrite => latest' = ImageWord /\ \A e \in Entries : ~cache'[e].dirty
    BY <1>6, <2>1 DEF IInv, CacheInv
  <2>9. \A v \in Words : cache'[f.e].content[v] = DiskWord(Wanted, v)
    BY <1>1, <1>3, <2>2, <2>3
  <2>10. QED
    BY <1>3, <1>5, <2>6, <2>7, <2>8, <2>9 DEF CacheInv, FilledLabels
<1>13. WriteBackInv'
  <2>1. \A k \in 1 .. Len(stack') : WriteBackAt(stack[k])'
    BY <1>3, <1>5 DEF WriteBackAt, WriteLabels
  <2>2. \A a \in Addrs : Slot(a[1]) = Slot(Wanted) /\ latest[a] = Written => a \in sent
    BY <1>1 DEF IInv, WriteBackInv, RefillLabels, ReadLabels
  <2>3. Wanted' = Wanted
    BY <1>6 DEF Wanted
  <2>4. \A e \in Entries : e # Slot(Wanted) => cache'[e] = cache[e]
    BY <1>1 DEF IInv, Types, TypeOK
  <2>5. \A a \in Addrs : Slot(a[1]) \in Entries
    BY Sizes DEF Addrs
  <2>6. NoWriteDropped'
    BY <1>6, <2>2, <2>4, <2>5 DEF IInv, WriteBackInv, NoWriteDropped
  <2>7. QED
    BY <1>6, <2>1, <2>2, <2>3, <2>6 DEF WriteBackInv
<1>14. QED
  BY <1>7, <1>8, <1>9, <1>10, <1>11, <1>12, <1>13 DEF IInv

(* A request comes in, from the kernel or through the system call gate.    *)
LEMMA CallDriverKeeps ==
  ASSUME IInv, Turn, CallDriver
  PROVE  IInv'
<1> DEFINE f == [stack[1] EXCEPT !.pc = "lookup"]
<1>1. /\ Len(stack) = 1 /\ top = stack[1] /\ stack[1].pc = "idle"
      /\ stack[1] \in Frames
      /\ pending = NoRequest /\ IF_ = TRUE
  BY Caller, Sizes DEF CallDriver, At, IInv, CallerFrame, CallerLabels, FilledLabels,
     ReadLabels
<1>2. f \in Frames /\ f.pc = "lookup" /\ f.e = stack[1].e /\ f.IF_ = stack[1].IF_
  BY <1>1, Sizes DEF Frames, FrameLabels
<1>3. Len(stack') = 1 /\ stack' \in Seq(Frames) /\ stack'[1] = f /\ top' = f
  BY <1>1, <1>2, CallerMoves DEF CallDriver, Goto, CallDisk, Wanted
<1> HIDE DEF f
<1>4. /\ pending' \in use.ops \X Addrs /\ IF_' \in BOOLEAN
      /\ UNCHANGED <<status, sectorPorts, ide_write, file_pos, byte_cnt, abort,
                     has_ide_intr, counter, cache, reply, latest, sent, i8259_intr_no,
                     is_nemu_hlt, use>>
      /\ phase = "inst" /\ phase' = "devices" /\ ran' \in BOOLEAN
  BY <1>1, DriverAssumption DEF Addrs, IFAfterGate, CallDriver, SetEntry, Turn, IInv,
     Types, TypeOK, device, driver, caller, history
<1>5. Types'
  BY <1>1, <1>2, <1>3, <1>4, Sizes DEF IInv, Types, TypeOK, DeviceTypeOK, SafeUse
<1>6. CallerFrame'
  BY <1>1, <1>2, <1>3, <1>4 DEF IInv, CallerFrame, CallerLabels, FilledLabels,
     WriteLabels, ReadLabels, MayWrite, Wanted
<1>7. HandlerFrames'
  BY <1>1, <1>2, <1>3, <1>4 DEF IInv, HandlerFrames, HandlerAt
<1>8. LoopInv'
  BY <1>1, <1>2, <1>3, <1>4, Raises DEF IInv, Types, TypeOK, LoopInv, IdeIntrNotLost
<1>9. DeviceInv'
  BY <1>1, <1>2, <1>3, <1>4 DEF IInv, DeviceInv, DeviceAt, ReadLabels, WriteLabels
<1>10. CacheInv'
  BY <1>1, <1>2, <1>3, <1>4 DEF IInv, Types, TypeOK, CacheInv, Holds, Refilling, RefillLabels, Entry,
     MayWrite, Wanted, FilledLabels
<1>11. WriteBackInv'
  BY <1>1, <1>2, <1>3, <1>4 DEF IInv, Types, TypeOK, WriteBackInv, WriteBackAt, SentBelow,
     NoWriteDropped, WriteLabels, RefillLabels, FilledLabels, ReadLabels, Wanted
<1>12. CounterInv'
  BY <1>1, <1>2, <1>3, <1>4 DEF IInv, CounterInv
<1>13. QED
  BY <1>5, <1>6, <1>7, <1>8, <1>9, <1>10, <1>11, <1>12 DEF IInv

(* cache_fetch finds the sector.                                           *)
LEMMA CacheLookupHit ==
  ASSUME IInv, Turn, CacheLookup, Entry.used, Entry.sector = Wanted
  PROVE  IInv'
<1> DEFINE f == [stack[1] EXCEPT !.pc = "use"]
<1>1. /\ Len(stack) = 1 /\ top = stack[1] /\ stack[1].pc = "lookup"
      /\ stack[1] \in Frames
      /\ Slot(Wanted) \in Entries
      /\ pending \in use.ops \X Addrs /\ pending # NoRequest
      /\ pending[2] \in Addrs /\ Wanted \in Sectors /\ pending[2][2] \in Words
      /\ cache[Slot(Wanted)].used /\ cache[Slot(Wanted)].sector = Wanted
  <2>1. Entry = cache[Slot(Wanted)]
    BY DEF Entry, Wanted
  <2>2. QED
    BY <2>1, Caller DEF CacheLookup, At, CallerLabels
<1>2. f \in Frames /\ f.pc = "use" /\ f.e = stack[1].e /\ f.IF_ = stack[1].IF_
  BY <1>1, Sizes DEF Frames, FrameLabels
<1>3. Len(stack') = 1 /\ stack' \in Seq(Frames) /\ stack'[1] = f /\ top' = f
  BY <1>1, <1>2, CallerMoves DEF CacheLookup, Goto, Entry, Wanted
<1> HIDE DEF f
<1>4. /\ UNCHANGED <<cache, status, sectorPorts, ide_write, file_pos, byte_cnt, abort,
                     has_ide_intr, counter, pending, reply, latest, sent, i8259_intr_no,
                     is_nemu_hlt, IF_, use>>
      /\ phase = "inst" /\ phase' = "devices" /\ ran' \in BOOLEAN
  BY <1>1 DEF CacheLookup, SetEntry, Turn, IInv, Types, TypeOK, device, driver, caller,
     history
<1>5. Types'
  BY <1>1, <1>2, <1>3, <1>4, Sizes DEF IInv, Types, TypeOK, DeviceTypeOK, SafeUse
<1>6. CallerFrame'
  BY <1>1, <1>2, <1>3, <1>4 DEF IInv, CallerFrame, CallerLabels, FilledLabels,
     WriteLabels, ReadLabels, MayWrite, Wanted
<1>7. HandlerFrames'
  BY <1>1, <1>2, <1>3, <1>4 DEF IInv, HandlerFrames, HandlerAt
<1>8. LoopInv'
  BY <1>1, <1>2, <1>3, <1>4, Raises
  DEF IInv, Types, TypeOK, LoopInv, IdeIntrNotLost
<1>9. DeviceInv'
  BY <1>1, <1>2, <1>3, <1>4 DEF IInv, DeviceInv, DeviceAt, ReadLabels, WriteLabels
<1>10. CacheInv'
  BY <1>1, <1>2, <1>3, <1>4 DEF IInv, Types, TypeOK, CacheInv, Holds, Refilling, RefillLabels, Entry,
     MayWrite, Wanted, FilledLabels
<1>11. WriteBackInv'
  BY <1>1, <1>2, <1>3, <1>4 DEF IInv, Types, TypeOK, WriteBackInv, WriteBackAt, SentBelow,
     NoWriteDropped, WriteLabels, RefillLabels, FilledLabels, ReadLabels, Wanted
<1>12. CounterInv'
  BY <1>1, <1>2, <1>3, <1>4 DEF IInv, CounterInv
<1>13. QED
  BY <1>5, <1>6, <1>7, <1>8, <1>9, <1>10, <1>11, <1>12 DEF IInv

(* cache_fetch finds another sector, which is dirty.                       *)
LEMMA CacheLookupEvicts ==
  ASSUME IInv, Turn, CacheLookup, Entry.sector # Wanted, Entry.used, Entry.dirty
  PROVE  IInv'
<1> DEFINE f == Calling(stack[1], "w_waitdisk", Slot(Wanted), Entry.sector, "refill")
<1>1. /\ Len(stack) = 1 /\ top = stack[1] /\ stack[1].pc = "lookup"
      /\ stack[1] \in Frames
      /\ Slot(Wanted) \in Entries
      /\ pending \in use.ops \X Addrs /\ pending # NoRequest
      /\ pending[2] \in Addrs /\ Wanted \in Sectors /\ pending[2][2] \in Words
      /\ Entry.sector \in Sectors /\ MayWrite
  <2>1. /\ Len(stack) = 1 /\ top = stack[1] /\ stack[1].pc = "lookup"
        /\ stack[1] \in Frames /\ Slot(Wanted) \in Entries
        /\ pending \in use.ops \X Addrs /\ pending # NoRequest
        /\ pending[2] \in Addrs /\ Wanted \in Sectors /\ pending[2][2] \in Words
    BY Caller DEF CacheLookup, At, CallerLabels
  <2>2. Entry = cache[Slot(Wanted)]
    BY DEF Entry, Wanted
  <2>3. Entry.sector \in Sectors /\ MayWrite
    BY <2>1, <2>2 DEF IInv, Types, TypeOK, CacheInv
  <2>4. QED
    BY <2>1, <2>3
<1>2. f \in Frames /\ f.pc = "w_waitdisk" /\ f.e = Slot(Wanted)
      /\ f.sec = Entry.sector /\ f.w = 0
      /\ f.ret = "refill" /\ f.IF_ = stack[1].IF_
  <2>1. "w_waitdisk" \in FrameLabels
    BY DEF FrameLabels
  <2>2. QED
    BY <1>1, <2>1, Called
<1>3. Len(stack') = 1 /\ stack' \in Seq(Frames) /\ stack'[1] = f /\ top' = f
  BY <1>1, <1>2, CallerMoves DEF CacheLookup, Goto, CallDisk, Calling, Entry, Wanted
<1> HIDE DEF f
<1>4. /\ UNCHANGED <<cache, status, sectorPorts, ide_write, file_pos, byte_cnt, abort,
                     has_ide_intr, counter, pending, reply, latest, sent, i8259_intr_no,
                     is_nemu_hlt, IF_, use>>
      /\ phase = "inst" /\ phase' = "devices" /\ ran' \in BOOLEAN
  BY <1>1 DEF CacheLookup, SetEntry, Turn, IInv, Types, TypeOK, device, driver, caller,
     history
<1>5. Types'
  BY <1>1, <1>2, <1>3, <1>4, Sizes DEF IInv, Types, TypeOK, DeviceTypeOK, SafeUse
<1>6. CallerFrame'
  BY <1>1, <1>2, <1>3, <1>4 DEF IInv, CallerFrame, CallerLabels, FilledLabels,
     WriteLabels, ReadLabels, MayWrite, Wanted
<1>7. HandlerFrames'
  BY <1>1, <1>2, <1>3, <1>4 DEF IInv, HandlerFrames, HandlerAt
<1>8. LoopInv'
  BY <1>1, <1>2, <1>3, <1>4, Raises
  DEF IInv, Types, TypeOK, LoopInv, IdeIntrNotLost
<1>9. DeviceInv'
  BY <1>1, <1>2, <1>3, <1>4 DEF IInv, DeviceInv, DeviceAt, ReadLabels, WriteLabels
<1>10. CacheInv'
  BY <1>1, <1>2, <1>3, <1>4 DEF IInv, Types, TypeOK, CacheInv, Holds, Refilling, RefillLabels, Entry,
     MayWrite, Wanted, FilledLabels
<1>11. WriteBackInv'
  BY <1>1, <1>2, <1>3, <1>4 DEF Entry, IInv, Types, TypeOK, WriteBackInv, WriteBackAt,
     SentBelow, NoWriteDropped, WriteLabels, RefillLabels, FilledLabels, ReadLabels,
     Wanted
<1>12. CounterInv'
  BY <1>1, <1>2, <1>3, <1>4 DEF IInv, CounterInv
<1>13. QED
  BY <1>5, <1>6, <1>7, <1>8, <1>9, <1>10, <1>11, <1>12 DEF IInv

(* cache_fetch finds an entry it may overwrite.                            *)
LEMMA CacheLookupFree ==
  ASSUME IInv, Turn, CacheLookup, ~(Entry.used /\ (Entry.sector = Wanted \/ Entry.dirty))
  PROVE  IInv'
<1> DEFINE f == Calling(stack[1], "refill", Slot(Wanted), Wanted, "set_used")
<1>1. /\ Len(stack) = 1 /\ top = stack[1] /\ stack[1].pc = "lookup"
      /\ stack[1] \in Frames
      /\ Slot(Wanted) \in Entries
      /\ pending \in use.ops \X Addrs /\ pending # NoRequest
      /\ pending[2] \in Addrs /\ Wanted \in Sectors /\ pending[2][2] \in Words
  BY Caller, Sizes DEF CacheLookup, At, IInv, CallerFrame, CallerLabels, FilledLabels,
     ReadLabels
<1>2. f \in Frames /\ f.pc = "refill" /\ f.IF_ = stack[1].IF_
  <2>1. "refill" \in FrameLabels
    BY DEF FrameLabels
  <2>2. QED
    BY <1>1, <2>1, Called
<1>3. Len(stack') = 1 /\ stack' \in Seq(Frames) /\ stack'[1] = f /\ top' = f
  BY <1>1, <1>2, CallerMoves DEF CacheLookup, Goto, CallDisk, Calling, Entry, Wanted
<1> HIDE DEF f
<1>4. /\ UNCHANGED <<cache, status, sectorPorts, ide_write, file_pos, byte_cnt, abort,
                     has_ide_intr, counter, pending, reply, latest, sent, i8259_intr_no,
                     is_nemu_hlt, IF_, use>>
      /\ phase = "inst" /\ phase' = "devices" /\ ran' \in BOOLEAN
  BY <1>1 DEF CacheLookup, SetEntry, Turn, IInv, Types, TypeOK, device, driver, caller,
     history
<1>5. Types'
  BY <1>1, <1>2, <1>3, <1>4, Sizes DEF IInv, Types, TypeOK, DeviceTypeOK, SafeUse
<1>6. CallerFrame'
  BY <1>1, <1>2, <1>3, <1>4 DEF IInv, CallerFrame, CallerLabels, FilledLabels,
     WriteLabels, ReadLabels, MayWrite, Wanted
<1>7. HandlerFrames'
  BY <1>1, <1>2, <1>3, <1>4 DEF IInv, HandlerFrames, HandlerAt
<1>8. LoopInv'
  BY <1>1, <1>2, <1>3, <1>4, Raises
  DEF IInv, Types, TypeOK, LoopInv, IdeIntrNotLost
<1>9. DeviceInv'
  BY <1>1, <1>2, <1>3, <1>4 DEF IInv, DeviceInv, DeviceAt, ReadLabels, WriteLabels
<1>10. CacheInv'
  BY <1>1, <1>2, <1>3, <1>4 DEF IInv, Types, TypeOK, CacheInv, Holds, Refilling, RefillLabels, Entry,
     MayWrite, Wanted, FilledLabels
<1>11. WriteBackInv'
  <2>1. \A k \in 1 .. Len(stack') : WriteBackAt(stack[k])'
    BY <1>2, <1>3 DEF WriteBackAt, WriteLabels
  <2>2. ASSUME NEW a \in Addrs, Slot(a[1]) = Slot(Wanted), latest[a] = Written
        PROVE  a \in sent
    BY <2>2 DEF IInv, WriteBackInv, NoWriteDropped, Entry, Wanted
  <2>3. NoWriteDropped'
    BY <1>4 DEF IInv, WriteBackInv, NoWriteDropped
  <2>4. QED
    BY <1>4, <2>1, <2>2, <2>3 DEF WriteBackInv, Wanted
<1>12. CounterInv'
  BY <1>1, <1>2, <1>3, <1>4 DEF IInv, CounterInv
<1>13. QED
  BY <1>5, <1>6, <1>7, <1>8, <1>9, <1>10, <1>11, <1>12 DEF IInv

-----------------------------------------------------------------------------
(* Writing a sector, by the caller that evicts it or by a handler over a   *)
(* caller that replaces no entry.                                          *)
LEMMA TopMoves ==
  ASSUME IInv, NEW f \in Frames, Become(f)
  PROVE  /\ Len(stack) \in Nat \ {0} /\ Len(stack') = Len(stack)
         /\ stack' \in Seq(Frames) /\ top' = f /\ stack'[Len(stack)] = f
         /\ Len(stack) # 1 => stack'[1] = stack[1]
         /\ \A k \in 1 .. Len(stack) :
              stack'[k] = IF k = Len(stack) THEN f ELSE stack[k]
<1>1. stack \in Seq(Frames) /\ Len(stack) \in 1 .. MaxDepth
  BY DEF IInv, Types, TypeOK
<1>2. Len(stack) \in Nat \ {0} /\ Len(stack) \in 1 .. Len(stack)
  BY TopFrame DEF IInv, Types
<1>3. /\ stack' \in Seq(Frames) /\ Len(stack') = Len(stack)
      /\ stack'[Len(stack)] = f /\ top' = f
      /\ \A k \in 1 .. Len(stack) : k # Len(stack) => stack'[k] = stack[k]
  BY <1>1, Replaced
<1>4. 1 \in 1 .. Len(stack)
  BY <1>2, Positions
<1>5. QED
  BY <1>2, <1>3, <1>4

(* A frame that goes to or comes from the ports, and one between two.      *)
AtPort(g, q, label) == [g EXCEPT !.port = q, !.pc = label]
AtNextPort(g)       == [g EXCEPT !.port = @ + 1]

LEMMA PortMoves ==
  ASSUME NEW g \in Frames, NEW q \in Ports, NEW label \in FrameLabels
  PROVE  /\ AtPort(g, q, label) \in Frames
         /\ AtPort(g, q, label).pc = label /\ AtPort(g, q, label).port = q
         /\ AtPort(g, q, label).e = g.e /\ AtPort(g, q, label).w = g.w
         /\ AtPort(g, q, label).sec = g.sec /\ AtPort(g, q, label).ret = g.ret
         /\ AtPort(g, q, label).IF_ = g.IF_
  BY DEF AtPort, Frames

LEMMA NextPort ==
  ASSUME NEW g \in Frames, g.port < 6
  PROVE  /\ AtNextPort(g) \in Frames
         /\ AtNextPort(g).pc = g.pc /\ AtNextPort(g).port = g.port + 1
         /\ AtNextPort(g).e = g.e /\ AtNextPort(g).w = g.w
         /\ AtNextPort(g).sec = g.sec /\ AtNextPort(g).ret = g.ret
         /\ AtNextPort(g).IF_ = g.IF_
<1>1. g.port \in 1 .. 6
  BY DEF Frames, Ports
<1>2. g.port + 1 \in Ports
  BY <1>1 DEF Ports
<1>3. QED
  BY <1>2 DEF AtNextPort, Frames

(* The frame that writes a sector is the caller that evicts it, or the     *)
(* timer handler over a caller that replaces no entry.                     *)
LEMMA WriterAt ==
  ASSUME IInv, top.pc \in WriteLabels
  PROVE  /\ MayWrite /\ use.preempt = "quiet"
         /\ Len(stack) \in {1, 2} /\ top = stack[Len(stack)] /\ top \in Frames
         /\ top.e \in Entries /\ top.sec = cache[top.e].sector /\ top.IF_
         /\ Len(stack) = 1 => /\ top = stack[1] /\ top.ret = "refill" /\ top.e = Slot(Wanted)
                              /\ pending \in use.ops \X Addrs /\ pending # NoRequest
                              /\ Wanted \in Sectors
         /\ Len(stack) = 2 => top.ret = "clean" /\ ~Replacing /\ IF_
<1>1. /\ Len(stack) \in 1 .. Len(stack) /\ Len(stack) \in Nat \ {0}
      /\ top = stack[Len(stack)] /\ top \in Frames
  BY TopFrame DEF IInv, Types
<1>2. /\ MayWrite /\ use.preempt = "quiet"
      /\ Len(stack) = 1 \/ (Len(stack) = 2 /\ ~Replacing)
  BY <1>1, WriterTop
<1>3. top.sec = cache[top.e].sector
  BY <1>1 DEF IInv, WriteBackInv, WriteBackAt
<1>4. CASE Len(stack) = 1
  <2>1. top.ret = "refill" /\ top.e = Slot(Wanted) /\ top.IF_ /\ top.pc # "idle"
    BY <1>1, <1>4 DEF IInv, CallerFrame, WriteLabels
  <2>2. pending \in use.ops \X Addrs
    BY <1>1, <1>4, <2>1 DEF IInv, CallerFrame
  <2>3. Wanted \in Sectors
    BY <2>2 DEF Wanted, Addrs
  <2>4. pending # NoRequest
    <3>1. use.ops \subseteq {"read", "write"}
      BY DriverAssumption DEF IInv, Types, TypeOK
    <3>2. QED
      BY <2>2, <3>1, TokensAssumption DEF Addrs
  <2>5. QED
    BY <1>1, <1>2, <1>3, <1>4, <2>1, <2>2, <2>3, <2>4, Sizes
<1>5. CASE Len(stack) = 2
  <2>1. top.ret = "clean" /\ top.IF_ /\ top.e \in Entries
    BY <1>1, <1>5 DEF IInv, HandlerFrames, HandlerAt
  <2>2. IF_
    BY <1>5 DEF IInv, LoopInv
  <2>3. QED
    BY <1>1, <1>2, <1>3, <1>5, <2>1, <2>2
<1>6. QED
  BY <1>2, <1>4, <1>5

(* The disk is ready for a write.                                          *)
LEMMA WaitDiskWrites ==
  ASSUME IInv, Turn, WaitDisk, top.pc = "w_waitdisk", DeviceReady
  PROVE  IInv'
<1> DEFINE n == Len(stack)
           f == AtPort(top, 1, "w_ports")
<1>1. /\ MayWrite /\ use.preempt = "quiet" /\ n \in {1, 2} /\ top = stack[n]
      /\ top \in Frames /\ top.e \in Entries /\ top.IF_
      /\ top.sec = cache[top.e].sector
      /\ n = 1 => /\ top = stack[1] /\ top.ret = "refill" /\ top.e = Slot(Wanted)
                  /\ pending \in use.ops \X Addrs /\ pending # NoRequest
                  /\ Wanted \in Sectors
      /\ n = 2 => top.ret = "clean" /\ ~Replacing /\ IF_
  BY WriterAt DEF WriteLabels
<1>2. f \in Frames /\ f.e = top.e /\ f.IF_ = top.IF_ /\ f.pc = "w_ports"
      /\ f.sec = top.sec /\ f.w = top.w /\ f.port = 1
      /\ f.ret = top.ret
  <2>1. 1 \in Ports /\ "w_ports" \in FrameLabels
    BY DEF Ports, FrameLabels
  <2>2. top \in Frames
    BY <1>1
  <2>3. QED
    BY <2>1, <2>2, PortMoves
<1>3. Become(f)
  BY <1>1 DEF WaitDisk, At, AtPort
<1>4. /\ Len(stack') = n /\ stack' \in Seq(Frames) /\ top' = f /\ stack'[n] = f
      /\ n = 2 => stack'[1] = stack[1]
  BY <1>1, <1>2, <1>3, TopMoves
<1> HIDE DEF f
<1>5. /\ UNCHANGED <<status, sectorPorts, ide_write, file_pos, byte_cnt, abort,
                     has_ide_intr, counter, cache, pending, reply, latest, sent,
                     i8259_intr_no, is_nemu_hlt, IF_, use>>
      /\ phase = "inst" /\ phase' = "devices" /\ ran' \in BOOLEAN
  BY <1>1 DEF WaitDisk, At, Turn, IInv, Types, TypeOK, device, driver, caller, history
<1>6. Types'
  BY <1>1, <1>2, <1>4, <1>5, Sizes DEF IInv, Types, TypeOK, DeviceTypeOK, SafeUse
<1>7. CallerFrame'
  <2>1. CASE n = 1
    BY <1>1, <1>2, <1>4, <1>5, <2>1 DEF CallerFrame, CallerLabels, WriteLabels,
       ReadLabels, FilledLabels, MayWrite, Wanted
  <2>2. CASE n = 2
    BY <1>1, <1>4, <1>5, <2>2 DEF IInv, CallerFrame, CallerLabels, WriteLabels,
       ReadLabels, FilledLabels, MayWrite, Wanted
  <2>3. QED
    BY <1>1, <2>1, <2>2
<1>8. HandlerFrames'
  <2>1. ASSUME NEW k \in 2 .. Len(stack')
        PROVE  HandlerAt(k)'
    <3>1. n = 2 /\ k = 2
      BY <1>1, <1>4
    <3>2. QED
      BY <1>1, <1>2, <1>4, <1>5, <3>1 DEF HandlerAt, MayWrite, HandlerLabels, WriteLabels,
         Replacing
  <2>2. QED
    BY <2>1 DEF HandlerFrames
<1>9. LoopInv'
  BY <1>1, <1>2, <1>4, <1>5, Raises
  DEF IInv, Types, TypeOK, LoopInv, IdeIntrNotLost
<1>10. DeviceInv'
  <2>1. DeviceAt(stack[n])'
    BY <1>1, <1>2, <1>4, <1>5, Sizes DEF IInv, DeviceInv, DeviceAt, ReadLabels,
       WriteLabels, SectorPorts
  <2>2. n = 2 => DeviceAt(stack[1])'
    BY <1>1, <1>4 DEF DeviceAt, ReadLabels, WriteLabels, RefillLabels, Replacing
  <2>3. ~abort' /\ (status' # READY => top'.pc = "out_long")
    BY <1>1, <1>2, <1>4, <1>5 DEF IInv, DeviceInv, Replacing, WriteLabels
  <2>4. QED
    BY <1>1, <1>4, <2>1, <2>2, <2>3 DEF DeviceInv
<1>11. CacheInv'
  <2>1. CASE n = 1
    <3>1. stack[1].pc \in WriteLabels /\ stack'[1].pc \in WriteLabels \cup {"refill"}
      BY <1>1, <1>2, <1>4, <2>1 DEF WriteLabels
    <3>2. QED
      BY <1>5, <3>1, CacheKept DEF IInv
  <2>2. CASE n = 2
    BY <1>1, <1>4, <1>5, <2>2, CacheKept DEF IInv, Replacing
  <2>3. QED
    BY <1>1, <2>1, <2>2
<1>12. WriteBackInv'
  <2>1. WriteBackAt(stack[n])'
    BY <1>1, <1>2, <1>4, <1>5, Sizes
    DEF IInv, WriteBackInv, WriteBackAt, SentBelow, WriteLabels, Words
  <2>2. n = 2 => WriteBackAt(stack[1])'
    BY <1>1, <1>4, CallerClean DEF WriteBackAt, WriteLabels, Replacing,
       HandlerLabels
  <2>3. stack'[1].pc \notin RefillLabels
    BY <1>1, <1>2, <1>4 DEF RefillLabels, WriteLabels, Replacing
  <2>4. NoWriteDropped'
    BY <1>5 DEF IInv, WriteBackInv, NoWriteDropped
  <2>5. QED
    BY <1>1, <1>4, <2>1, <2>2, <2>3, <2>4 DEF WriteBackInv
<1>13. CounterInv'
  <2>1. CASE n = 1
    BY <1>1, <1>4, <1>5, <2>1 DEF IInv, CounterInv
  <2>2. CASE n = 2
    BY <1>1, <1>2, <1>4, <1>5, <2>2 DEF IInv, CounterInv, WriteLabels
  <2>3. QED
    BY <1>1, <2>1, <2>2
<1>14. QED
  BY <1>6, <1>7, <1>8, <1>9, <1>10, <1>11, <1>12, <1>13 DEF IInv

(* A port is written, and there are more.                                  *)
LEMMA NextPortWrites ==
  ASSUME IInv, Turn, IdePrepare, top.pc = "w_ports", top.port < 6
  PROVE  IInv'
<1> DEFINE n == Len(stack)
           f == AtNextPort(top)
<1>1. /\ MayWrite /\ use.preempt = "quiet" /\ n \in {1, 2} /\ top = stack[n]
      /\ top \in Frames /\ top.e \in Entries /\ top.IF_
      /\ top.sec = cache[top.e].sector
      /\ n = 1 => /\ top = stack[1] /\ top.ret = "refill" /\ top.e = Slot(Wanted)
                  /\ pending \in use.ops \X Addrs /\ pending # NoRequest
                  /\ Wanted \in Sectors
      /\ n = 2 => top.ret = "clean" /\ ~Replacing /\ IF_
      /\ top.port \in 1 .. 6 /\ top.sec \in Sectors /\ top.w = 0
      /\ \A p \in SectorPorts : p < top.port => sectorPorts[p] = PortByte(top.sec, p)
  BY WriterAt DEF WriteLabels, IInv, DeviceInv, DeviceAt, ReadLabels, Frames, Ports
<1>2. f \in Frames /\ f.e = top.e /\ f.IF_ = top.IF_ /\ f.pc = "w_ports"
      /\ f.sec = top.sec /\ f.w = top.w /\ f.port = top.port + 1
      /\ f.ret = top.ret
  BY <1>1, NextPort
<1>3. Become(f)
  BY <1>1 DEF IdePrepare, At, AtNextPort
<1>4. /\ Len(stack') = n /\ stack' \in Seq(Frames) /\ top' = f /\ stack'[n] = f
      /\ n = 2 => stack'[1] = stack[1]
  BY <1>1, <1>2, <1>3, TopMoves
<1> HIDE DEF f
<1>5. /\ sectorPorts' = [p \in SectorPorts |->
                        IF p = top.port THEN PortByte(top.sec, p) ELSE sectorPorts[p]]
      /\ UNCHANGED <<status, ide_write, file_pos, byte_cnt, abort, has_ide_intr, counter,
                     cache, pending, reply, latest, sent, i8259_intr_no, is_nemu_hlt, IF_,
                     use>>
      /\ phase = "inst" /\ phase' = "devices" /\ ran' \in BOOLEAN
  BY <1>1 DEF IdePrepare, At, Turn, IInv, Types, TypeOK, device, driver, caller, history,
     OutPort
<1>6. Types'
  <2>1. sectorPorts' \in [SectorPorts -> Sectors]
    BY <1>1, <1>5, PortBytes DEF IInv, Types, TypeOK, DeviceTypeOK
  <2>2. QED
    BY <1>1, <1>2, <1>4, <1>5, <2>1 DEF IInv, Types, TypeOK, DeviceTypeOK, SafeUse
<1>7. CallerFrame'
  <2>1. CASE n = 1
    BY <1>1, <1>2, <1>4, <1>5, <2>1 DEF CallerFrame, CallerLabels, WriteLabels,
       ReadLabels, FilledLabels, MayWrite, Wanted
  <2>2. CASE n = 2
    BY <1>1, <1>4, <1>5, <2>2 DEF IInv, CallerFrame, CallerLabels, WriteLabels,
       ReadLabels, FilledLabels, MayWrite, Wanted
  <2>3. QED
    BY <1>1, <2>1, <2>2
<1>8. HandlerFrames'
  <2>1. ASSUME NEW k \in 2 .. Len(stack')
        PROVE  HandlerAt(k)'
    <3>1. n = 2 /\ k = 2
      BY <1>1, <1>4
    <3>2. QED
      BY <1>1, <1>2, <1>4, <1>5, <3>1 DEF HandlerAt, MayWrite, HandlerLabels, WriteLabels,
         Replacing
  <2>2. QED
    BY <2>1 DEF HandlerFrames
<1>9. LoopInv'
  BY <1>1, <1>2, <1>4, <1>5, Raises
  DEF IInv, Types, TypeOK, LoopInv, IdeIntrNotLost
<1>10. DeviceInv'
  <2>1. DeviceAt(stack[n])'
    BY <1>1, <1>2, <1>4, <1>5 DEF DeviceAt, SectorSent, ReadLabels, WriteLabels,
       SectorPorts
  <2>2. n = 2 => DeviceAt(stack[1])'
    BY <1>1, <1>4 DEF DeviceAt, ReadLabels, WriteLabels, RefillLabels, Replacing
  <2>3. ~abort' /\ (status' # READY => top'.pc = "out_long")
    BY <1>1, <1>2, <1>4, <1>5 DEF IInv, DeviceInv, Replacing, WriteLabels
  <2>4. QED
    BY <1>1, <1>4, <2>1, <2>2, <2>3 DEF DeviceInv
<1>11. CacheInv'
  <2>1. CASE n = 1
    <3>1. stack[1].pc \in WriteLabels /\ stack'[1].pc \in WriteLabels \cup {"refill"}
      BY <1>1, <1>2, <1>4, <2>1 DEF WriteLabels
    <3>2. QED
      BY <1>5, <3>1, CacheKept DEF IInv
  <2>2. CASE n = 2
    BY <1>1, <1>4, <1>5, <2>2, CacheKept DEF IInv, Replacing
  <2>3. QED
    BY <1>1, <2>1, <2>2
<1>12. WriteBackInv'
  <2>1. WriteBackAt(stack[n])'
    BY <1>1, <1>2, <1>4, <1>5, Sizes DEF WriteBackAt, SentBelow, WriteLabels, Words
  <2>2. n = 2 => WriteBackAt(stack[1])'
    BY <1>1, <1>4, CallerClean DEF WriteBackAt, WriteLabels, Replacing,
       HandlerLabels
  <2>3. stack'[1].pc \notin RefillLabels
    BY <1>1, <1>2, <1>4 DEF RefillLabels, WriteLabels, Replacing
  <2>4. NoWriteDropped'
    BY <1>5 DEF IInv, WriteBackInv, NoWriteDropped
  <2>5. QED
    BY <1>1, <1>4, <2>1, <2>2, <2>3, <2>4 DEF WriteBackInv
<1>13. CounterInv'
  <2>1. CASE n = 1
    BY <1>1, <1>4, <1>5, <2>1 DEF IInv, CounterInv
  <2>2. CASE n = 2
    BY <1>1, <1>2, <1>4, <1>5, <2>2 DEF IInv, CounterInv, WriteLabels
  <2>3. QED
    BY <1>1, <2>1, <2>2
<1>14. QED
  BY <1>6, <1>7, <1>8, <1>9, <1>10, <1>11, <1>12, <1>13 DEF IInv

(* The sector number is in the ports.                                      *)
LEMMA LastPortWrites ==
  ASSUME IInv, Turn, IdePrepare, top.pc = "w_ports", ~(top.port < 6)
  PROVE  IInv'
<1> DEFINE n == Len(stack)
           f == AtPort(top, 1, "issue_write")
<1>1. /\ MayWrite /\ use.preempt = "quiet" /\ n \in {1, 2} /\ top = stack[n]
      /\ top \in Frames /\ top.e \in Entries /\ top.IF_
      /\ top.sec = cache[top.e].sector
      /\ n = 1 => /\ top = stack[1] /\ top.ret = "refill" /\ top.e = Slot(Wanted)
                  /\ pending \in use.ops \X Addrs /\ pending # NoRequest
                  /\ Wanted \in Sectors
      /\ n = 2 => top.ret = "clean" /\ ~Replacing /\ IF_
      /\ top.port \in 1 .. 6 /\ top.sec \in Sectors /\ top.w = 0
      /\ \A p \in SectorPorts : p < top.port => sectorPorts[p] = PortByte(top.sec, p)
  BY WriterAt DEF WriteLabels, IInv, DeviceInv, DeviceAt, ReadLabels, Frames, Ports
<1>2. f \in Frames /\ f.e = top.e /\ f.IF_ = top.IF_ /\ f.pc = "issue_write"
      /\ f.sec = top.sec /\ f.w = top.w
      /\ f.ret = top.ret
  <2>1. 1 \in Ports /\ "issue_write" \in FrameLabels
    BY DEF Ports, FrameLabels
  <2>2. top \in Frames
    BY <1>1
  <2>3. QED
    BY <2>1, <2>2, PortMoves
<1>3. Become(f)
  BY <1>1 DEF IdePrepare, At, AtPort
<1>4. /\ Len(stack') = n /\ stack' \in Seq(Frames) /\ top' = f /\ stack'[n] = f
      /\ n = 2 => stack'[1] = stack[1]
  BY <1>1, <1>2, <1>3, TopMoves
<1> HIDE DEF f
<1>5. /\ sectorPorts' = [p \in SectorPorts |->
                        IF p = top.port THEN PortByte(top.sec, p) ELSE sectorPorts[p]]
      /\ UNCHANGED <<status, ide_write, file_pos, byte_cnt, abort, has_ide_intr, counter,
                     cache, pending, reply, latest, sent, i8259_intr_no, is_nemu_hlt, IF_,
                     use>>
      /\ phase = "inst" /\ phase' = "devices" /\ ran' \in BOOLEAN
  BY <1>1 DEF IdePrepare, At, Turn, IInv, Types, TypeOK, device, driver, caller, history,
     OutPort
<1>6. Types'
  <2>1. sectorPorts' \in [SectorPorts -> Sectors]
    BY <1>1, <1>5, PortBytes DEF IInv, Types, TypeOK, DeviceTypeOK
  <2>2. QED
    BY <1>1, <1>2, <1>4, <1>5, <2>1 DEF IInv, Types, TypeOK, DeviceTypeOK, SafeUse
<1>7. CallerFrame'
  <2>1. CASE n = 1
    BY <1>1, <1>2, <1>4, <1>5, <2>1 DEF CallerFrame, CallerLabels, WriteLabels,
       ReadLabels, FilledLabels, MayWrite, Wanted
  <2>2. CASE n = 2
    BY <1>1, <1>4, <1>5, <2>2 DEF IInv, CallerFrame, CallerLabels, WriteLabels,
       ReadLabels, FilledLabels, MayWrite, Wanted
  <2>3. QED
    BY <1>1, <2>1, <2>2
<1>8. HandlerFrames'
  <2>1. ASSUME NEW k \in 2 .. Len(stack')
        PROVE  HandlerAt(k)'
    <3>1. n = 2 /\ k = 2
      BY <1>1, <1>4
    <3>2. QED
      BY <1>1, <1>2, <1>4, <1>5, <3>1 DEF HandlerAt, MayWrite, HandlerLabels, WriteLabels,
         Replacing
  <2>2. QED
    BY <2>1 DEF HandlerFrames
<1>9. LoopInv'
  BY <1>1, <1>2, <1>4, <1>5, Raises
  DEF IInv, Types, TypeOK, LoopInv, IdeIntrNotLost
<1>10. DeviceInv'
  <2>1. DeviceAt(stack[n])'
    BY <1>1, <1>2, <1>4, <1>5 DEF DeviceAt, SectorSent, ReadLabels, WriteLabels,
       SectorPorts
  <2>2. n = 2 => DeviceAt(stack[1])'
    BY <1>1, <1>4 DEF DeviceAt, ReadLabels, WriteLabels, RefillLabels, Replacing
  <2>3. ~abort' /\ (status' # READY => top'.pc = "out_long")
    BY <1>1, <1>2, <1>4, <1>5 DEF IInv, DeviceInv, Replacing, WriteLabels
  <2>4. QED
    BY <1>1, <1>4, <2>1, <2>2, <2>3 DEF DeviceInv
<1>11. CacheInv'
  <2>1. CASE n = 1
    <3>1. stack[1].pc \in WriteLabels /\ stack'[1].pc \in WriteLabels \cup {"refill"}
      BY <1>1, <1>2, <1>4, <2>1 DEF WriteLabels
    <3>2. QED
      BY <1>5, <3>1, CacheKept DEF IInv
  <2>2. CASE n = 2
    BY <1>1, <1>4, <1>5, <2>2, CacheKept DEF IInv, Replacing
  <2>3. QED
    BY <1>1, <2>1, <2>2
<1>12. WriteBackInv'
  <2>1. WriteBackAt(stack[n])'
    BY <1>1, <1>2, <1>4, <1>5, Sizes DEF WriteBackAt, SentBelow, WriteLabels, Words
  <2>2. n = 2 => WriteBackAt(stack[1])'
    BY <1>1, <1>4, CallerClean DEF WriteBackAt, WriteLabels, Replacing,
       HandlerLabels
  <2>3. stack'[1].pc \notin RefillLabels
    BY <1>1, <1>2, <1>4 DEF RefillLabels, WriteLabels, Replacing
  <2>4. NoWriteDropped'
    BY <1>5 DEF IInv, WriteBackInv, NoWriteDropped
  <2>5. QED
    BY <1>1, <1>4, <2>1, <2>2, <2>3, <2>4 DEF WriteBackInv
<1>13. CounterInv'
  <2>1. CASE n = 1
    BY <1>1, <1>4, <1>5, <2>1 DEF IInv, CounterInv
  <2>2. CASE n = 2
    BY <1>1, <1>2, <1>4, <1>5, <2>2 DEF IInv, CounterInv, WriteLabels
  <2>3. QED
    BY <1>1, <2>1, <2>2
<1>14. QED
  BY <1>6, <1>7, <1>8, <1>9, <1>10, <1>11, <1>12, <1>13 DEF IInv

(* The write command: the disk moves to the sector.                        *)
LEMMA IssueWriteKeeps ==
  ASSUME IInv, Turn, IssueWrite, top.pc = "issue_write"
  PROVE  IInv'
<1> DEFINE n == Len(stack)
           f == [top EXCEPT !.pc = "out_long"]
<1>1. /\ MayWrite /\ use.preempt = "quiet" /\ n \in {1, 2} /\ top = stack[n]
      /\ top \in Frames /\ top.e \in Entries /\ top.IF_
      /\ top.sec = cache[top.e].sector
      /\ n = 1 => /\ top = stack[1] /\ top.ret = "refill" /\ top.e = Slot(Wanted)
                  /\ pending \in use.ops \X Addrs /\ pending # NoRequest
                  /\ Wanted \in Sectors
      /\ n = 2 => top.ret = "clean" /\ ~Replacing /\ IF_
      /\ sector = top.sec /\ top.w = 0
  BY WriterAt, PortBytes DEF WriteLabels, IInv, DeviceInv, DeviceAt, ReadLabels, Frames
<1>2. f \in Frames /\ f.e = top.e /\ f.IF_ = top.IF_ /\ f.pc = "out_long"
      /\ f.sec = top.sec /\ f.w = top.w
      /\ f.ret = top.ret
  BY ZenonT(40), <1>1, Sizes DEF Frames, FrameLabels
<1>3. Become(f)
  BY <1>1 DEF IssueWrite, Goto, At
<1>4. /\ Len(stack') = n /\ stack' \in Seq(Frames) /\ top' = f /\ stack'[n] = f
      /\ n = 2 => stack'[1] = stack[1]
  BY <1>1, <1>2, <1>3, TopMoves
<1> HIDE DEF f
<1>5. /\ file_pos' = DiskWord(top.sec, 0) /\ byte_cnt' = 0
      /\ ide_write' = TRUE /\ status' = CMD_WRITE
      /\ UNCHANGED <<sectorPorts, abort, has_ide_intr, counter, cache, pending, reply,
                     latest, sent, i8259_intr_no, is_nemu_hlt, IF_, use>>
      /\ phase = "inst" /\ phase' = "devices" /\ ran' \in BOOLEAN
  BY <1>1 DEF IssueWrite, At, Turn, IInv, Types, TypeOK, device, driver, caller, history,
     OutWriteCommand
<1>6. Types'
  <2>1. DiskWord(top.sec, 0) \in 0 .. NrSectors * NrWords /\ 0 \in 0 .. NrWords
    <3>1. top.sec \in Sectors /\ 0 \in 0 .. NrWords
      BY <1>1, Sizes DEF Frames
    <3>2. QED
      BY <3>1, DiskWords
  <2>2. QED
    BY <1>1, <1>2, <1>4, <1>5, <2>1 DEF IInv, Types, TypeOK, DeviceTypeOK, SafeUse
<1>7. CallerFrame'
  <2>1. CASE n = 1
    BY <1>1, <1>2, <1>4, <1>5, <2>1 DEF CallerFrame, CallerLabels, WriteLabels,
       ReadLabels, FilledLabels, MayWrite, Wanted
  <2>2. CASE n = 2
    BY <1>1, <1>4, <1>5, <2>2 DEF IInv, CallerFrame, CallerLabels, WriteLabels,
       ReadLabels, FilledLabels, MayWrite, Wanted
  <2>3. QED
    BY <1>1, <2>1, <2>2
<1>8. HandlerFrames'
  <2>1. ASSUME NEW k \in 2 .. Len(stack')
        PROVE  HandlerAt(k)'
    <3>1. n = 2 /\ k = 2
      BY <1>1, <1>4
    <3>2. QED
      BY ZenonT(40), <1>1, <1>2, <1>4, <1>5, <3>1 DEF HandlerAt, MayWrite,
         HandlerLabels, WriteLabels, Replacing
  <2>2. QED
    BY <2>1 DEF HandlerFrames
<1>9. LoopInv'
  BY <1>1, <1>2, <1>4, <1>5, Raises
  DEF IInv, Types, TypeOK, LoopInv, IdeIntrNotLost
<1>10. DeviceInv'
  <2>1. DeviceAt(stack[n])'
    BY <1>1, <1>2, <1>4, <1>5, Sizes DEF IInv, DeviceInv, DeviceAt, ReadLabels,
       WriteLabels
  <2>2. n = 2 => DeviceAt(stack[1])'
    BY <1>1, <1>4 DEF DeviceAt, ReadLabels, WriteLabels, RefillLabels, Replacing
  <2>3. ~abort' /\ (status' # READY => top'.pc = "out_long")
    BY <1>1, <1>2, <1>4, <1>5 DEF IInv, DeviceInv, Replacing, WriteLabels
  <2>4. QED
    BY <1>1, <1>4, <2>1, <2>2, <2>3 DEF DeviceInv
<1>11. CacheInv'
  <2>1. CASE n = 1
    <3>1. stack[1].pc \in WriteLabels /\ stack'[1].pc \in WriteLabels \cup {"refill"}
      BY <1>1, <1>2, <1>4, <2>1 DEF WriteLabels
    <3>2. QED
      BY <1>5, <3>1, CacheKept DEF IInv
  <2>2. CASE n = 2
    BY <1>1, <1>4, <1>5, <2>2, CacheKept DEF IInv, Replacing
  <2>3. QED
    BY <1>1, <2>1, <2>2
<1>12. WriteBackInv'
  <2>1. WriteBackAt(stack[n])'
    BY <1>1, <1>2, <1>4, <1>5, Sizes DEF WriteBackAt, SentBelow, WriteLabels, Words
  <2>2. n = 2 => WriteBackAt(stack[1])'
    BY <1>1, <1>4, CallerClean DEF WriteBackAt, WriteLabels, Replacing,
       HandlerLabels
  <2>3. stack'[1].pc \notin RefillLabels
    BY <1>1, <1>2, <1>4 DEF RefillLabels, WriteLabels, Replacing
  <2>4. NoWriteDropped'
    BY <1>5 DEF IInv, WriteBackInv, NoWriteDropped
  <2>5. QED
    BY <1>1, <1>4, <2>1, <2>2, <2>3, <2>4 DEF WriteBackInv
<1>13. CounterInv'
  <2>1. CASE n = 1
    BY <1>1, <1>4, <1>5, <2>1 DEF IInv, CounterInv
  <2>2. CASE n = 2
    BY <1>1, <1>2, <1>4, <1>5, <2>2 DEF IInv, CounterInv, WriteLabels
  <2>3. QED
    BY <1>1, <2>1, <2>2
<1>14. QED
  BY <1>6, <1>7, <1>8, <1>9, <1>10, <1>11, <1>12, <1>13 DEF IInv

(* The data port takes the word of the sector being written.               *)
LEMMA OutLongAt ==
  ASSUME IInv, OutLong
  PROVE  /\ top.pc = "out_long" /\ ide_write /\ top.w \in Words
         /\ byte_cnt = top.w /\ file_pos = DiskWord(top.sec, 0)
         /\ OutWord /\ NextWord /\ UNCHANGED <<driver, pending, reply, latest,
                                              i8259_intr_no, is_nemu_hlt, IF_>>
         /\ sent' = IF cache[top.e].content[top.w] = Written
                    THEN sent \cup {<<top.sec, top.w>>} ELSE sent
         /\ <<top.sec, top.w>> \in Addrs
<1>1. top.pc = "out_long" /\ Len(stack) \in 1 .. Len(stack) /\ top = stack[Len(stack)]
  BY TopFrame DEF OutLong, At, IInv, Types
<1>2. /\ ide_write /\ top.w \in Words
      /\ byte_cnt = top.w /\ file_pos = DiskWord(top.sec, 0)
  BY <1>1 DEF IInv, DeviceInv, DeviceAt
<1>3. DataPortAsserts(TRUE)
  <2>1. ide_write = TRUE
    BY <1>2 DEF IInv, Types, TypeOK, DeviceTypeOK
  <2>2. top.w <= NrWords
    BY <1>2, Sizes DEF Words
  <2>3. QED
    BY <1>2, <2>1, <2>2 DEF DataPortAsserts
<1>4. top.sec \in Sectors /\ <<top.sec, top.w>> \in Addrs
  BY <1>2, TopFrame DEF IInv, Types, Frames, Addrs
<1>5. file_pos \div NrWords = top.sec
  <2>1. 0 \in 0 .. NrWords
    BY Sizes
  <2>2. QED
    BY <1>2, <1>4, <2>1, DiskWords
<1>6. QED
  BY <1>1, <1>2, <1>3, <1>4, <1>5 DEF OutLong

(* A word of the sector is written, and there are more.                    *)
LEMMA OutLongMore ==
  ASSUME IInv, Turn, OutLong, top.pc = "out_long", top.w + 1 < NrWords
  PROVE  IInv'
<1> DEFINE n == Len(stack)
           w == top.w
           f == [top EXCEPT !.w = @ + 1]
<1>1. /\ MayWrite /\ use.preempt = "quiet" /\ n \in {1, 2} /\ top = stack[n]
      /\ top \in Frames /\ top.e \in Entries /\ top.IF_
      /\ top.sec = cache[top.e].sector
      /\ n = 1 => /\ top = stack[1] /\ top.ret = "refill" /\ top.e = Slot(Wanted)
                  /\ pending \in use.ops \X Addrs /\ pending # NoRequest
                  /\ Wanted \in Sectors
      /\ n = 2 => top.ret = "clean" /\ ~Replacing /\ IF_
      /\ w \in Words /\ w \in Nat /\ w + 1 < NrWords
      /\ w + 1 \in 0 .. NrWords /\ (w + 1 < NrWords => w + 1 \in Words)
      /\ ide_write /\ byte_cnt = w /\ file_pos = DiskWord(top.sec, 0)
      /\ <<top.sec, w>> \in Addrs
  BY WriterAt, OutLongAt, Sizes DEF WriteLabels, Words
<1>2. f \in Frames /\ f.e = top.e /\ f.IF_ = top.IF_ /\ f.pc = "out_long"
      /\ f.w = top.w + 1 /\ f.sec = top.sec /\ f.ret = top.ret
  BY <1>1 DEF Frames
<1>3. Become(f)
  BY <1>1, Sizes, OutLongAt DEF NextWord, Done
<1>4. /\ Len(stack') = n /\ stack' \in Seq(Frames) /\ top' = f /\ stack'[n] = f
      /\ n = 2 => stack'[1] = stack[1]
  BY <1>1, <1>2, <1>3, TopMoves
<1> HIDE DEF f
<1>5. /\ byte_cnt' = top.w + 1 /\ status' = (IF w + 1 = NrWords THEN READY ELSE status)
      /\ sent' = IF cache[top.e].content[top.w] = Written
                 THEN sent \cup {<<top.sec, top.w>>} ELSE sent
      /\ UNCHANGED <<sectorPorts, ide_write, file_pos, abort, has_ide_intr, counter,
                     cache, pending, reply, latest, i8259_intr_no, is_nemu_hlt, IF_,
                     use>>
      /\ phase = "inst" /\ phase' = "devices" /\ ran' \in BOOLEAN
  BY <1>1, OutLongAt DEF OutWord, FinishWord, Turn, IInv, Types, TypeOK, device, driver,
     caller, history
<1>6. Types'
  <2>1. sent' \subseteq Addrs
    BY <1>1, <1>5 DEF IInv, Types, TypeOK
  <2>2. QED
    BY <1>1, <1>2, <1>4, <1>5, <2>1
    DEF IInv, Types, TypeOK, DeviceTypeOK, SafeUse, READY
<1>7. CallerFrame'
  <2>1. CASE n = 1
    BY <1>1, <1>2, <1>4, <1>5, <2>1 DEF CallerFrame, CallerLabels, WriteLabels,
       ReadLabels, FilledLabels, MayWrite, Wanted
  <2>2. CASE n = 2
    BY <1>1, <1>4, <1>5, <2>2 DEF IInv, CallerFrame, CallerLabels, WriteLabels,
       ReadLabels, FilledLabels, MayWrite, Wanted
  <2>3. QED
    BY <1>1, <2>1, <2>2
<1>8. HandlerFrames'
  <2>1. ASSUME NEW k \in 2 .. Len(stack')
        PROVE  HandlerAt(k)'
    <3>1. n = 2 /\ k = 2
      BY <1>1, <1>4
    <3>2. QED
      BY <1>1, <1>2, <1>4, <1>5, <3>1 DEF HandlerAt, MayWrite, HandlerLabels, WriteLabels,
         Replacing
  <2>2. QED
    BY <2>1 DEF HandlerFrames
<1>9. LoopInv'
  BY <1>1, <1>2, <1>4, <1>5, Raises
  DEF IInv, Types, TypeOK, LoopInv, IdeIntrNotLost
<1>10. DeviceInv'
  <2>1. DeviceAt(stack[n])'
    BY <1>1, <1>2, <1>4, <1>5 DEF DeviceAt, ReadLabels, WriteLabels
  <2>2. n = 2 => DeviceAt(stack[1])'
    BY <1>1, <1>4 DEF DeviceAt, ReadLabels, WriteLabels, RefillLabels, Replacing
  <2>3. ~abort' /\ (status' # READY => top'.pc = "out_long")
    BY <1>1, <1>2, <1>4, <1>5 DEF IInv, DeviceInv, Replacing, WriteLabels
  <2>4. QED
    BY <1>1, <1>4, <2>1, <2>2, <2>3 DEF DeviceInv
<1>11. CacheInv'
  <2>1. CASE n = 1
    <3>1. stack[1].pc \in WriteLabels /\ stack'[1].pc \in WriteLabels \cup {"refill"}
      BY <1>1, <1>2, <1>4, <2>1 DEF WriteLabels
    <3>2. QED
      BY <1>5, <3>1, CacheKept DEF IInv
  <2>2. CASE n = 2
    BY <1>1, <1>4, <1>5, <2>2, CacheKept DEF IInv, Replacing
  <2>3. QED
    BY <1>1, <2>1, <2>2
<1>12. WriteBackInv'
  <2>1. ASSUME NEW v \in Words, v < w + 1, cache[top.e].content[v] = Written
        PROVE  <<top.sec, v>> \in sent'
    <3>1. CASE v = w
      BY <1>1, <1>5, <2>1, <3>1
    <3>2. CASE v # w
      <4>1. v < w
        BY <1>1, <2>1, <3>2 DEF Words
      <4>2. SentBelow(top.e, top.sec, w)
        BY <1>1 DEF IInv, WriteBackInv, WriteBackAt
      <4>3. QED
        BY <1>5, <2>1, <4>1, <4>2 DEF SentBelow
    <3>3. QED
      BY <3>1, <3>2
  <2>2. sent \subseteq sent'
    BY <1>5
  <2>3. n = 2 => WriteBackAt(stack[1])'
    BY <1>1, <1>4, CallerClean DEF WriteBackAt, WriteLabels, Replacing,
       HandlerLabels
  <2>4. NoWriteDropped'
    BY <1>5, <2>2 DEF IInv, WriteBackInv, NoWriteDropped
  <2>5. WriteBackAt(stack[n])'
    BY ZenonT(40), <1>1, <1>2, <1>4, <1>5, <2>1 DEF WriteBackAt, SentBelow
  <2>6. stack'[1].pc \notin RefillLabels
    BY <1>1, <1>2, <1>4 DEF RefillLabels, WriteLabels, Replacing
  <2>7. QED
    BY <1>1, <1>4, <2>3, <2>4, <2>5, <2>6 DEF WriteBackInv
<1>13. CounterInv'
  <2>1. CASE n = 1
    BY <1>1, <1>4, <1>5, <2>1 DEF IInv, CounterInv
  <2>2. CASE n = 2
    BY <1>1, <1>2, <1>4, <1>5, <2>2 DEF IInv, CounterInv, WriteLabels
  <2>3. QED
    BY <1>1, <2>1, <2>2
<1>14. QED
  BY <1>6, <1>7, <1>8, <1>9, <1>10, <1>11, <1>12, <1>13 DEF IInv

(* The last word of the sector is written: every word callers stored in    *)
(* the entry has been handed to the device.                                *)
LEMMA OutLongLast ==
  ASSUME IInv, Turn, OutLong, top.pc = "out_long", top.w + 1 = NrWords
  PROVE  IInv'
<1> DEFINE n == Len(stack)
           w == top.w
           f == Done(top)
<1>1. /\ MayWrite /\ use.preempt = "quiet" /\ n \in {1, 2} /\ top = stack[n]
      /\ top \in Frames /\ top.e \in Entries /\ top.IF_
      /\ top.sec = cache[top.e].sector
      /\ n = 1 => /\ top = stack[1] /\ top.ret = "refill" /\ top.e = Slot(Wanted)
                  /\ pending \in use.ops \X Addrs /\ pending # NoRequest
                  /\ Wanted \in Sectors
      /\ n = 2 => top.ret = "clean" /\ ~Replacing /\ IF_
      /\ w \in Words /\ w \in Nat /\ w + 1 = NrWords
      /\ w + 1 \in 0 .. NrWords /\ (w + 1 < NrWords => w + 1 \in Words)
      /\ ide_write /\ byte_cnt = w /\ file_pos = DiskWord(top.sec, 0)
      /\ <<top.sec, w>> \in Addrs
  BY WriterAt, OutLongAt, Sizes DEF WriteLabels, Words
<1>2. f \in Frames /\ f.e = top.e /\ f.IF_ = top.IF_ /\ f.pc = top.ret
  BY <1>1, Finished
<1>3. Become(f)
  BY <1>1, Sizes, OutLongAt DEF NextWord, Done
<1>4. /\ Len(stack') = n /\ stack' \in Seq(Frames) /\ top' = f /\ stack'[n] = f
      /\ n = 2 => stack'[1] = stack[1]
  BY <1>1, <1>2, <1>3, TopMoves
<1> HIDE DEF f
<1>5. /\ byte_cnt' = top.w + 1 /\ status' = (IF w + 1 = NrWords THEN READY ELSE status)
      /\ sent' = IF cache[top.e].content[top.w] = Written
                 THEN sent \cup {<<top.sec, top.w>>} ELSE sent
      /\ UNCHANGED <<sectorPorts, ide_write, file_pos, abort, has_ide_intr, counter,
                     cache, pending, reply, latest, i8259_intr_no, is_nemu_hlt, IF_,
                     use>>
      /\ phase = "inst" /\ phase' = "devices" /\ ran' \in BOOLEAN
  BY <1>1, OutLongAt DEF OutWord, FinishWord, Turn, IInv, Types, TypeOK, device, driver,
     caller, history
<1>6. Types'
  <2>1. sent' \subseteq Addrs
    BY <1>1, <1>5 DEF IInv, Types, TypeOK
  <2>2. QED
    BY <1>1, <1>2, <1>4, <1>5, <2>1
    DEF IInv, Types, TypeOK, DeviceTypeOK, SafeUse, READY
<1>7. CallerFrame'
  <2>1. CASE n = 1
    BY <1>1, <1>2, <1>4, <1>5, <2>1 DEF CallerFrame, CallerLabels, WriteLabels,
       ReadLabels, FilledLabels, MayWrite, Wanted
  <2>2. CASE n = 2
    BY <1>1, <1>4, <1>5, <2>2 DEF IInv, CallerFrame, CallerLabels, WriteLabels,
       ReadLabels, FilledLabels, MayWrite, Wanted
  <2>3. QED
    BY <1>1, <2>1, <2>2
<1>8. HandlerFrames'
  <2>1. ASSUME NEW k \in 2 .. Len(stack')
        PROVE  HandlerAt(k)'
    <3>1. n = 2 /\ k = 2
      BY <1>1, <1>4
    <3>2. QED
      BY <1>1, <1>2, <1>4, <1>5, <3>1 DEF HandlerAt, MayWrite, HandlerLabels, WriteLabels,
         Replacing
  <2>2. QED
    BY <2>1 DEF HandlerFrames
<1>9. LoopInv'
  BY <1>1, <1>2, <1>4, <1>5, Raises
  DEF IInv, Types, TypeOK, LoopInv, IdeIntrNotLost
<1>10. DeviceInv'
  <2>1. DeviceAt(stack[n])'
    BY <1>1, <1>2, <1>4, <1>5, Sizes DEF IInv, DeviceInv, DeviceAt, ReadLabels,
       WriteLabels
  <2>2. n = 2 => DeviceAt(stack[1])'
    BY <1>1, <1>4 DEF DeviceAt, ReadLabels, WriteLabels, RefillLabels, Replacing
  <2>3. ~abort' /\ (status' # READY => top'.pc = "out_long")
    BY <1>1, <1>2, <1>4, <1>5 DEF IInv, DeviceInv, Replacing, WriteLabels
  <2>4. QED
    BY <1>1, <1>4, <2>1, <2>2, <2>3 DEF DeviceInv
<1>11. CacheInv'
  <2>1. CASE n = 1
    <3>1. stack[1].pc \in WriteLabels /\ stack'[1].pc \in WriteLabels \cup {"refill"}
      BY <1>1, <1>2, <1>4, <2>1 DEF WriteLabels
    <3>2. QED
      BY <1>5, <3>1, CacheKept DEF IInv
  <2>2. CASE n = 2
    BY <1>1, <1>4, <1>5, <2>2, CacheKept DEF IInv, Replacing
  <2>3. QED
    BY <1>1, <2>1, <2>2
<1>12. WriteBackInv'
  <2>1. ASSUME NEW v \in Words, v < w + 1, cache[top.e].content[v] = Written
        PROVE  <<top.sec, v>> \in sent'
    <3>1. CASE v = w
      BY <1>1, <1>5, <2>1, <3>1
    <3>2. CASE v # w
      <4>1. v < w
        BY <1>1, <2>1, <3>2 DEF Words
      <4>2. SentBelow(top.e, top.sec, w)
        BY <1>1 DEF IInv, WriteBackInv, WriteBackAt
      <4>3. QED
        BY <1>5, <2>1, <4>1, <4>2 DEF SentBelow
    <3>3. QED
      BY <3>1, <3>2
  <2>2. sent \subseteq sent'
    BY <1>5
  <2>3. n = 2 => WriteBackAt(stack[1])'
    BY <1>1, <1>4, CallerClean DEF WriteBackAt, WriteLabels, Replacing,
       HandlerLabels
  <2>4. NoWriteDropped'
    BY <1>5, <2>2 DEF IInv, WriteBackInv, NoWriteDropped
  <2>5. \A v \in Words : v < w + 1
    BY <1>1, Sizes DEF Words
  <2>6. WriteBackAt(stack[n])'
    BY ZenonT(40), <1>1, <1>2, <1>4, <1>5, <2>1, <2>5 DEF WriteBackAt, SentBelow,
       WriteLabels
  <2>7. ASSUME n = 1, NEW a \in Addrs, Slot(a[1]) = Slot(Wanted), latest[a] = Written
        PROVE  a \in sent'
    <3>1. a = <<a[1], a[2]>> /\ a[2] \in Words
      BY DEF Addrs
    <3>2. \/ a \in sent
          \/ a[1] = top.sec /\ cache[top.e].content[a[2]] = Written
      BY <1>1, <2>7 DEF IInv, WriteBackInv, NoWriteDropped
    <3>3. QED
      BY <2>1, <2>2, <2>5, <3>1, <3>2
  <2>8. \A k \in 1 .. Len(stack') : WriteBackAt(stack[k])'
    BY <1>1, <1>4, <2>3, <2>6
  <2>9. ASSUME stack'[1].pc \in RefillLabels, NEW a \in Addrs,
               (Slot(a[1]) = Slot(Wanted))', latest'[a] = Written
        PROVE  a \in sent'
    <3>1. CASE n = 1
      BY <1>1, <1>5, <2>7, <2>9, <3>1 DEF Wanted
    <3>2. CASE n = 2
      <4>1. stack[1].pc \in RefillLabels
        BY <1>1, <1>4, <2>9, <3>2
      <4>2. Slot(a[1]) = Slot(Wanted) /\ latest[a] = Written
        BY <1>5, <2>9 DEF Wanted
      <4>3. QED
        BY <1>1, <2>2, <4>1, <4>2 DEF IInv, WriteBackInv
    <3>3. QED
      BY <1>1, <3>1, <3>2
  <2>10. QED
    BY <2>4, <2>8, <2>9 DEF WriteBackInv
<1>13. CounterInv'
  <2>1. CASE n = 1
    BY <1>1, <1>4, <1>5, <2>1 DEF IInv, CounterInv
  <2>2. CASE n = 2
    BY <1>1, <1>2, <1>4, <1>5, <2>2 DEF IInv, CounterInv, WriteLabels
  <2>3. QED
    BY <1>1, <2>1, <2>2
<1>14. QED
  BY <1>6, <1>7, <1>8, <1>9, <1>10, <1>11, <1>12, <1>13 DEF IInv

-----------------------------------------------------------------------------
(* The device registers, for a read.                                       *)
LEMMA WaitDiskReads ==
  ASSUME IInv, Turn, WaitDisk, top.pc = "r_waitdisk", DeviceReady
  PROVE  IInv'
<1> DEFINE f == AtPort(stack[1], 1, "r_ports")
<1>1. /\ Len(stack) = 1 /\ top = stack[1] /\ stack[1].pc = "r_waitdisk"
      /\ stack[1] \in Frames
      /\ stack[1].e = Slot(Wanted) /\ Slot(Wanted) \in Entries
      /\ stack[1].sec = Wanted /\ stack[1].w = 0
      /\ pending \in use.ops \X Addrs /\ pending # NoRequest
      /\ pending[2] \in Addrs /\ Wanted \in Sectors /\ pending[2][2] \in Words
  BY Caller, Sizes DEF WaitDisk, At, IInv, CallerFrame, CallerLabels, FilledLabels,
     ReadLabels, DeviceInv, DeviceAt, WriteLabels
<1>2. f \in Frames /\ f.pc = "r_ports" /\ f.e = stack[1].e
      /\ f.sec = stack[1].sec /\ f.w = stack[1].w /\ f.port = 1
      /\ f.ret = stack[1].ret /\ f.IF_ = stack[1].IF_
  BY <1>1, PortMoves DEF FrameLabels, Ports
<1>3. Len(stack') = 1 /\ stack' \in Seq(Frames) /\ stack'[1] = f /\ top' = f
  BY <1>1, <1>2, CallerMoves DEF WaitDisk, At, AtPort
<1> HIDE DEF f
<1>4. /\ UNCHANGED <<status, sectorPorts, ide_write, file_pos, byte_cnt, abort,
                     has_ide_intr, counter, cache, pending, reply, latest, sent,
                     i8259_intr_no, is_nemu_hlt, IF_, use>>
      /\ phase = "inst" /\ phase' = "devices" /\ ran' \in BOOLEAN
  BY <1>1 DEF WaitDisk, SetEntry, Turn, IInv, Types, TypeOK, device, driver, caller,
     history
<1>5. Types'
  BY <1>1, <1>2, <1>3, <1>4, Sizes DEF IInv, Types, TypeOK, DeviceTypeOK, SafeUse
<1>6. CallerFrame'
  BY <1>1, <1>2, <1>3, <1>4 DEF IInv, CallerFrame, CallerLabels, FilledLabels,
     WriteLabels, ReadLabels, MayWrite, Wanted
<1>7. HandlerFrames'
  BY <1>1, <1>2, <1>3, <1>4 DEF IInv, HandlerFrames, HandlerAt
<1>8. LoopInv'
  BY <1>1, <1>2, <1>3, <1>4, Raises
  DEF IInv, Types, TypeOK, LoopInv, IdeIntrNotLost
<1>9. DeviceInv'
  BY <1>1, <1>2, <1>3, <1>4 DEF IInv, DeviceInv, DeviceAt, ReadLabels, WriteLabels,
     SectorPorts
<1>10. CacheInv'
  BY <1>1, <1>2, <1>3, <1>4 DEF IInv, Types, TypeOK, CacheInv, Holds, Refilling, RefillLabels, Entry,
     MayWrite, Wanted, FilledLabels
<1>11. WriteBackInv'
  BY <1>1, <1>2, <1>3, <1>4 DEF IInv, Types, TypeOK, WriteBackInv, WriteBackAt, SentBelow,
     NoWriteDropped, WriteLabels, RefillLabels, FilledLabels, ReadLabels, Wanted
<1>12. CounterInv'
  BY <1>1, <1>2, <1>3, <1>4 DEF IInv, CounterInv
<1>13. QED
  BY <1>5, <1>6, <1>7, <1>8, <1>9, <1>10, <1>11, <1>12 DEF IInv

(* A port is written, and there are more.                                  *)
LEMMA NextPortReads ==
  ASSUME IInv, Turn, IdePrepare, top.pc = "r_ports", top.port < 6
  PROVE  IInv'
<1> DEFINE f == AtNextPort(stack[1])
<1>1. /\ Len(stack) = 1 /\ top = stack[1] /\ stack[1].pc = "r_ports"
      /\ stack[1] \in Frames
      /\ stack[1].e = Slot(Wanted) /\ Slot(Wanted) \in Entries
      /\ stack[1].sec = Wanted /\ stack[1].w = 0
      /\ stack[1].port \in 1 .. 6
      /\ \A p \in SectorPorts :
           p < stack[1].port => sectorPorts[p] = PortByte(Wanted, p)
      /\ pending \in use.ops \X Addrs /\ pending # NoRequest
      /\ pending[2] \in Addrs /\ Wanted \in Sectors /\ pending[2][2] \in Words
  <2>1. /\ Len(stack) = 1 /\ top = stack[1] /\ stack[1].pc = "r_ports"
        /\ stack[1] \in Frames
        /\ stack[1].e = Slot(Wanted) /\ Slot(Wanted) \in Entries
        /\ stack[1].sec = Wanted
        /\ pending \in use.ops \X Addrs /\ pending # NoRequest
        /\ pending[2] \in Addrs /\ Wanted \in Sectors /\ pending[2][2] \in Words
    BY Caller, Sizes DEF IdePrepare, At, IInv, CallerFrame, CallerLabels, FilledLabels,
       ReadLabels
  <2>2. DeviceAt(stack[1])
    BY <2>1 DEF IInv, DeviceInv
  <2>3. QED
    BY <2>1, <2>2 DEF DeviceAt, ReadLabels, WriteLabels, Frames, Ports
<1>2. f \in Frames /\ f.pc = "r_ports" /\ f.e = stack[1].e
      /\ f.sec = stack[1].sec /\ f.w = stack[1].w /\ f.port = stack[1].port + 1
      /\ f.ret = stack[1].ret /\ f.IF_ = stack[1].IF_
  BY <1>1, NextPort
<1>3. Len(stack') = 1 /\ stack' \in Seq(Frames) /\ stack'[1] = f /\ top' = f
  BY <1>1, <1>2, CallerMoves DEF IdePrepare, At, AtNextPort
<1> HIDE DEF f
<1>4. /\ sectorPorts' = [p \in SectorPorts |->
                        IF p = stack[1].port THEN PortByte(Wanted, p)
                        ELSE sectorPorts[p]]
      /\ UNCHANGED <<status, ide_write, file_pos, byte_cnt, abort, has_ide_intr, counter,
                     cache, pending, reply, latest, sent, i8259_intr_no, is_nemu_hlt, IF_,
                     use>>
      /\ phase = "inst" /\ phase' = "devices" /\ ran' \in BOOLEAN
  BY <1>1 DEF IdePrepare, SetEntry, Turn, IInv, Types, TypeOK, device, driver, caller,
     history, OutPort
<1>5. Types'
  <2>1. sectorPorts' \in [SectorPorts -> Sectors]
    BY <1>1, <1>4, PortBytes DEF IInv, Types, TypeOK, DeviceTypeOK
  <2>2. QED
    BY <1>1, <1>2, <1>3, <1>4, <2>1 DEF IInv, Types, TypeOK, DeviceTypeOK, SafeUse
<1>6. CallerFrame'
  BY <1>1, <1>2, <1>3, <1>4 DEF IInv, CallerFrame, CallerLabels, FilledLabels,
     WriteLabels, ReadLabels, MayWrite, Wanted
<1>7. HandlerFrames'
  BY <1>1, <1>2, <1>3, <1>4 DEF IInv, HandlerFrames, HandlerAt
<1>8. LoopInv'
  BY <1>1, <1>2, <1>3, <1>4, Raises
  DEF IInv, Types, TypeOK, LoopInv, IdeIntrNotLost
<1>9. DeviceInv'
  <2>1. DeviceAt(stack[1])'
    BY <1>1, <1>2, <1>3, <1>4 DEF DeviceAt, SectorSent, ReadLabels, WriteLabels,
       SectorPorts
  <2>2. QED
    BY <1>1, <1>2, <1>3, <1>4, <2>1 DEF IInv, DeviceInv
<1>10. CacheInv'
  BY <1>1, <1>2, <1>3, <1>4 DEF IInv, Types, TypeOK, CacheInv, Holds, Refilling, RefillLabels, Entry,
     MayWrite, Wanted, FilledLabels
<1>11. WriteBackInv'
  BY <1>1, <1>2, <1>3, <1>4 DEF IInv, Types, TypeOK, WriteBackInv, WriteBackAt, SentBelow,
     NoWriteDropped, WriteLabels, RefillLabels, FilledLabels, ReadLabels, Wanted
<1>12. CounterInv'
  BY <1>1, <1>2, <1>3, <1>4 DEF IInv, CounterInv
<1>13. QED
  BY <1>5, <1>6, <1>7, <1>8, <1>9, <1>10, <1>11, <1>12 DEF IInv

(* The sector number is in the ports.                                      *)
LEMMA LastPortReads ==
  ASSUME IInv, Turn, IdePrepare, top.pc = "r_ports", ~(top.port < 6)
  PROVE  IInv'
<1> DEFINE f == AtPort(stack[1], 1, "issue_read")
<1>1. /\ Len(stack) = 1 /\ top = stack[1] /\ stack[1].pc = "r_ports"
      /\ stack[1] \in Frames
      /\ stack[1].e = Slot(Wanted) /\ Slot(Wanted) \in Entries
      /\ stack[1].sec = Wanted /\ stack[1].w = 0
      /\ stack[1].port \in 1 .. 6
      /\ \A p \in SectorPorts :
           p < stack[1].port => sectorPorts[p] = PortByte(Wanted, p)
      /\ pending \in use.ops \X Addrs /\ pending # NoRequest
      /\ pending[2] \in Addrs /\ Wanted \in Sectors /\ pending[2][2] \in Words
  BY Caller, Sizes DEF IdePrepare, At, IInv, CallerFrame, CallerLabels, FilledLabels,
     ReadLabels, DeviceInv, DeviceAt, WriteLabels, Frames, Ports
<1>2. f \in Frames /\ f.pc = "issue_read" /\ f.e = stack[1].e
      /\ f.sec = stack[1].sec /\ f.w = stack[1].w
      /\ f.ret = stack[1].ret /\ f.IF_ = stack[1].IF_
  BY <1>1, PortMoves DEF FrameLabels, Ports
<1>3. Len(stack') = 1 /\ stack' \in Seq(Frames) /\ stack'[1] = f /\ top' = f
  BY <1>1, <1>2, CallerMoves DEF IdePrepare, At, AtPort
<1> HIDE DEF f
<1>4. /\ sectorPorts' = [p \in SectorPorts |->
                        IF p = stack[1].port THEN PortByte(Wanted, p)
                        ELSE sectorPorts[p]]
      /\ UNCHANGED <<status, ide_write, file_pos, byte_cnt, abort, has_ide_intr, counter,
                     cache, pending, reply, latest, sent, i8259_intr_no, is_nemu_hlt, IF_,
                     use>>
      /\ phase = "inst" /\ phase' = "devices" /\ ran' \in BOOLEAN
  BY <1>1 DEF IdePrepare, SetEntry, Turn, IInv, Types, TypeOK, device, driver, caller,
     history, OutPort
<1>5. Types'
  <2>1. sectorPorts' \in [SectorPorts -> Sectors]
    BY <1>1, <1>4, PortBytes DEF IInv, Types, TypeOK, DeviceTypeOK
  <2>2. QED
    BY <1>1, <1>2, <1>3, <1>4, <2>1 DEF IInv, Types, TypeOK, DeviceTypeOK, SafeUse
<1>6. CallerFrame'
  BY <1>1, <1>2, <1>3, <1>4 DEF IInv, CallerFrame, CallerLabels, FilledLabels,
     WriteLabels, ReadLabels, MayWrite, Wanted
<1>7. HandlerFrames'
  BY <1>1, <1>2, <1>3, <1>4 DEF IInv, HandlerFrames, HandlerAt
<1>8. LoopInv'
  BY <1>1, <1>2, <1>3, <1>4, Raises
  DEF IInv, Types, TypeOK, LoopInv, IdeIntrNotLost
<1>9. DeviceInv'
  <2>1. DeviceAt(stack[1])'
    BY <1>1, <1>2, <1>3, <1>4 DEF DeviceAt, SectorSent, ReadLabels, WriteLabels,
       SectorPorts
  <2>2. QED
    BY <1>1, <1>2, <1>3, <1>4, <2>1 DEF IInv, DeviceInv
<1>10. CacheInv'
  BY <1>1, <1>2, <1>3, <1>4 DEF IInv, Types, TypeOK, CacheInv, Holds, Refilling, RefillLabels, Entry,
     MayWrite, Wanted, FilledLabels
<1>11. WriteBackInv'
  BY <1>1, <1>2, <1>3, <1>4 DEF IInv, Types, TypeOK, WriteBackInv, WriteBackAt, SentBelow,
     NoWriteDropped, WriteLabels, RefillLabels, FilledLabels, ReadLabels, Wanted
<1>12. CounterInv'
  BY <1>1, <1>2, <1>3, <1>4 DEF IInv, CounterInv
<1>13. QED
  BY <1>5, <1>6, <1>7, <1>8, <1>9, <1>10, <1>11, <1>12 DEF IInv

-----------------------------------------------------------------------------
(* The interrupt handlers.  A step that leaves the device and the cache    *)
(* alone.                                                                  *)
LEMMA HandlerKeeps ==
  ASSUME IInv, Turn, top.pc \in HandlerLabels \ {"ide_intr", "iret"},
         NEW f \in Frames, Become(f), f.IF_,
         f.pc \in HandlerLabels \ {"ide_intr", "clean"},
         use.preempt = "quiet" /\ Syncing(f, counter') => ~Replacing,
         UNCHANGED <<device, has_ide_intr, cache, caller, i8259_intr_no,
                     is_nemu_hlt, IF_>>,
         counter' \in 0 .. CounterMod - 1, CounterInv'
  PROVE  IInv'
<1> DEFINE n == Len(stack)
<1>1. n \in Nat \ {0, 1} /\ IF_ /\ top = stack[n]
  BY HandlerTop DEF top
<1>2. /\ Len(stack') = n /\ stack' \in Seq(Frames) /\ top' = f
      /\ \A k \in 1 .. n : stack'[k] = IF k = n THEN f ELSE stack[k]
      /\ stack'[1] = stack[1]
  <2>1. /\ Len(stack') = n /\ stack' \in Seq(Frames) /\ top' = f
        /\ \A k \in 1 .. n : stack'[k] = IF k = n THEN f ELSE stack[k]
    BY TopMoves
  <2>2. 1 \in 1 .. n /\ 1 # n
    BY SMTT(20), <1>1
  <2>3. QED
    BY <2>1, <2>2
<1>3. /\ UNCHANGED <<use, status, sectorPorts, ide_write, file_pos, byte_cnt, abort,
                     has_ide_intr, cache, pending, reply, latest, sent,
                     i8259_intr_no, is_nemu_hlt, IF_>>
      /\ phase = "inst" /\ phase' = "devices" /\ ran' \in BOOLEAN
  BY DEF Turn, device, caller, history, IInv, Types, TypeOK
<1>4. Types'
  BY <1>1, <1>2, <1>3, Sizes DEF IInv, Types, TypeOK, DeviceTypeOK, SafeUse
<1>5. CallerFrame'
  BY <1>2, <1>3 DEF IInv, CallerFrame, MayWrite, Wanted
<1>6. HandlerFrames'
  <2>1. ASSUME NEW k \in 2 .. n
        PROVE  HandlerAt(k)'
    <3>1. HandlerAt(k)
      BY <2>1 DEF IInv, HandlerFrames
    <3>2. CASE k = n
      BY <1>1, <1>2, <1>3, <3>1, <3>2 DEF HandlerAt, MayWrite, HandlerLabels,
         WriteLabels, Replacing
    <3>3. CASE k # n
      <4>1. use.preempt # "quiet"
        BY <1>1, <2>1, <3>3 DEF IInv, LoopInv
      <4>2. QED
        BY <1>1, <1>2, <1>3, <3>1, <3>3, <4>1 DEF HandlerAt, MayWrite
    <3>4. QED
      BY <3>2, <3>3
  <2>2. QED
    BY <1>2, <2>1 DEF HandlerFrames
<1>7. LoopInv'
  <2>1. IdeIntrNotLost'
    BY <1>1, <1>2, <1>3 DEF IInv, LoopInv, IdeIntrNotLost
  <2>2. QED
    BY <1>1, <1>2, <1>3, <2>1 DEF IInv, LoopInv
<1>8. DeviceInv'
  <2>1. ~abort /\ (status # READY => stack[1].pc = "out_long")
    BY DEF IInv, DeviceInv, HandlerLabels
  <2>2. DeviceAt(f)'
    BY DEF DeviceAt, HandlerLabels, ReadLabels, WriteLabels
  <2>3. ASSUME NEW k \in 1 .. n, k # n
        PROVE  DeviceAt(stack[k])'
    BY <1>2, <1>3, <2>3 DEF IInv, DeviceInv, DeviceAt, SectorSent
  <2>4. QED
    BY <1>2, <1>3, <2>1, <2>2, <2>3 DEF DeviceInv, DeviceAt
<1>9. CacheInv'
  BY <1>2, <1>3 DEF IInv, CacheInv, Holds, Refilling, RefillLabels, Entry, MayWrite, Wanted
<1>10. WriteBackInv'
  <2>1. WriteBackAt(f)'
    BY DEF WriteBackAt, HandlerLabels, WriteLabels
  <2>2. ASSUME NEW k \in 1 .. n, k # n
        PROVE  WriteBackAt(stack[k])'
    BY <1>2, <1>3, <2>2 DEF IInv, WriteBackInv, WriteBackAt, SentBelow
  <2>3. \A k \in 1 .. n : WriteBackAt(stack[k])'
    BY <1>2, <2>1, <2>2 DEF WriteBackAt
  <2>4. QED
    BY <1>2, <1>3, <2>3 DEF IInv, WriteBackInv, NoWriteDropped, Wanted
<1>11. QED
  BY <1>4, <1>5, <1>6, <1>7, <1>8, <1>9, <1>10 DEF IInv

(* ide_writeback's counter: outside the handler it stays below the period. *)
LEMMA HandlerAlone ==
  ASSUME IInv, Len(stack) # 1
  PROVE  /\ Len(stack) \in Nat \ {0, 1}
         /\ use.preempt # "handler" => Len(stack) = 2
         /\ HandlerAt(Len(stack)) /\ top.IF_
<1>1. Len(stack) \in Nat \ {0, 1} /\ top = stack[Len(stack)]
  BY TopFrame DEF IInv, Types
<1>2. HandlerAt(Len(stack))
  BY <1>1, Positions DEF IInv, HandlerFrames
<1>3. use.preempt # "handler" => Len(stack) = 2
  <2>1. use.preempt # "handler" => Len(stack) <= 2
    BY DEF IInv, LoopInv
  <2>2. Len(stack) <= 2 => Len(stack) = 2
    BY <1>1, Positions
  <2>3. QED
    BY <2>1, <2>2
<1>4. QED
  BY <1>1, <1>2, <1>3 DEF HandlerAt

(* The tick that writes back found the caller replacing no entry.          *)
LEMMA HandlerSyncs ==
  ASSUME IInv, top.pc \in HandlerLabels, use.preempt = "quiet", Syncing(top, counter)
  PROVE  ~Replacing
<1>1. Len(stack) # 1 /\ top = stack[Len(stack)]
  BY HandlerTop DEF top
<1>2. QED
  BY <1>1, HandlerAlone DEF HandlerAt

(* counter++, the load: the counter is below the period.                   *)
LEMMA LoadCounterKeeps ==
  ASSUME IInv, Turn, LoadCounter
  PROVE  IInv'
<1> DEFINE f == [top EXCEPT !.r = counter, !.pc = "store_counter"]
<1>1. top.pc = "load_counter" /\ top \in Frames /\ top = stack[Len(stack)]
  BY TopFrame DEF LoadCounter, At, IInv, Types
<1>2. Len(stack) \in Nat \ {0, 1} /\ (use.preempt # "handler" => Len(stack) = 2)
  BY <1>1, HandlerTop, HandlerAlone DEF HandlerLabels
<1>3. top.IF_
  BY <1>2, HandlerAlone
<1>4. f \in Frames /\ f.pc = "store_counter" /\ f.r = counter /\ f.IF_
  BY <1>1, <1>3 DEF Frames, FrameLabels, IInv, Types, TypeOK
<1>5. Become(f) /\ counter' = counter
  BY DEF LoadCounter, driver
<1> HIDE DEF f
<1>6. Len(stack') = Len(stack) /\ (Len(stack) = 2 => stack'[2] = f) /\ use' = use
  BY <1>2, <1>4, <1>5, TopMoves DEF Turn
<1>7. CounterInv'
  <2>1. SUFFICES ASSUME use.preempt # "handler"
                 PROVE  counter < TicksPerSync
    BY <1>2, <1>4, <1>5, <1>6 DEF CounterInv
  <2>2. QED
    BY <1>1, <1>2, <2>1 DEF IInv, CounterInv, WriteLabels
<1>8. use.preempt = "quiet" /\ Syncing(f, counter') => ~Replacing
  <2>1. Syncing(f, counter') => Syncing(top, counter)
    BY <1>1, <1>4, <1>5, Sizes DEF Syncing, NextSyncs, WriteLabels
  <2>2. QED
    BY <1>1, <2>1, HandlerSyncs DEF HandlerLabels
<1>9. QED
  BY <1>1, <1>4, <1>5, <1>7, <1>8, HandlerKeeps
  DEF LoadCounter, driver, HandlerLabels, IInv, Types, TypeOK

(* counter++, the store: it may reach the period, not pass it.             *)
LEMMA StoreCounterKeeps ==
  ASSUME IInv, Turn, StoreCounter
  PROVE  IInv'
<1> DEFINE f == [top EXCEPT !.pc = "test_counter"]
<1>1. top.pc = "store_counter" /\ top \in Frames /\ top = stack[Len(stack)]
  BY TopFrame DEF StoreCounter, At, IInv, Types
<1>2. Len(stack) \in Nat \ {0, 1} /\ (use.preempt # "handler" => Len(stack) = 2)
  BY <1>1, HandlerTop, HandlerAlone DEF HandlerLabels
<1>3. top.IF_ /\ top.r \in 0 .. CounterMod - 1
  <2>1. top.r \in 0 .. CounterMod - 1
    BY <1>1 DEF Frames
  <2>2. Len(stack) # 1
    BY <1>2
  <2>3. QED
    BY <2>1, <2>2, HandlerAlone
<1>4. f \in Frames /\ f.pc = "test_counter" /\ f.IF_
  BY <1>1, <1>3 DEF Frames, FrameLabels
<1>5. Become(f) /\ counter' = (top.r + 1) % CounterMod
  BY DEF StoreCounter, Goto
<1> HIDE DEF f
<1>6. Len(stack') = Len(stack) /\ (Len(stack) = 2 => stack'[2] = f) /\ use' = use
  BY <1>2, <1>4, <1>5, TopMoves DEF Turn
<1>7. counter' \in 0 .. CounterMod - 1
  BY <1>3, <1>5, Sizes
<1>8. CounterInv'
  <2>1. SUFFICES ASSUME use.preempt # "handler"
                 PROVE  counter' <= TicksPerSync
    BY <1>2, <1>4, <1>6 DEF CounterInv
  <2>2. top.r < TicksPerSync
    BY <1>1, <1>2, <2>1 DEF IInv, CounterInv
  <2>3. counter' = top.r + 1
    BY <1>3, <1>5, <2>2, Sizes
  <2>4. QED
    BY <1>3, <2>2, <2>3, Sizes
<1>9. use.preempt = "quiet" /\ Syncing(f, counter') => ~Replacing
  <2>1. counter' = TicksPerSync => top.r + 1 = TicksPerSync
    BY <1>3, <1>5, Sizes
  <2>2. Syncing(f, counter') => Syncing(top, counter)
    BY <1>1, <1>4, <2>1 DEF Syncing, WriteLabels
  <2>3. QED
    BY <1>1, <2>2, HandlerSyncs DEF HandlerLabels
<1>10. QED
  BY <1>1, <1>4, <1>5, <1>7, <1>8, <1>9, HandlerKeeps DEF StoreCounter, HandlerLabels

(* The comparison starts the scan exactly at the period.                   *)
LEMMA TestCounterKeeps ==
  ASSUME IInv, Turn, TestCounter
  PROVE  IInv'
<1> DEFINE f == IF counter = TicksPerSync THEN [top EXCEPT !.pc = "scan", !.e = 0]
                ELSE [top EXCEPT !.pc = "iret"]
<1>1. top.pc = "test_counter" /\ top \in Frames /\ top = stack[Len(stack)]
  BY TopFrame DEF TestCounter, At, IInv, Types
<1>2. Len(stack) \in Nat \ {0, 1} /\ (use.preempt # "handler" => Len(stack) = 2)
  BY <1>1, HandlerTop, HandlerAlone DEF HandlerLabels
<1>3. top.IF_ /\ 0 \in 0 .. NrSecCache
  BY <1>2, HandlerAlone, Sizes
<1>4. f \in Frames /\ f.IF_ /\ f.pc = IF counter = TicksPerSync THEN "scan" ELSE "iret"
  BY <1>1, <1>3 DEF Frames, FrameLabels
<1>5. Become(f) /\ counter' = counter
  BY DEF TestCounter, Goto, driver
<1> HIDE DEF f
<1>6. Len(stack') = Len(stack) /\ (Len(stack) = 2 => stack'[2] = f) /\ use' = use
  BY <1>2, <1>4, <1>5, TopMoves DEF Turn
<1>7. CounterInv'
  <2>1. SUFFICES ASSUME use.preempt # "handler", counter # TicksPerSync
                 PROVE  counter < TicksPerSync
    BY <1>2, <1>4, <1>5, <1>6 DEF CounterInv
  <2>2. counter <= TicksPerSync
    BY <1>1, <1>2, <2>1 DEF IInv, CounterInv
  <2>3. QED
    BY <2>1, <2>2, Sizes DEF IInv, Types, TypeOK
<1>8. use.preempt = "quiet" /\ Syncing(f, counter') => ~Replacing
  <2>1. Syncing(f, counter') => Syncing(top, counter)
    BY <1>1, <1>4 DEF Syncing, WriteLabels
  <2>2. QED
    BY <1>1, <2>1, HandlerSyncs DEF HandlerLabels
<1>9. QED
  BY <1>1, <1>4, <1>5, <1>7, <1>8, HandlerKeeps
  DEF TestCounter, driver, HandlerLabels, IInv, Types, TypeOK

(* The scan passes a clean entry, or ends.                                 *)
LEMMA ScanEntryPasses ==
  ASSUME IInv, Turn, ScanEntry, top.e = NrSecCache \/ ~cache[top.e].dirty
  PROVE  IInv'
<1> DEFINE f == IF top.e = NrSecCache THEN [top EXCEPT !.pc = "reset_counter"]
                ELSE [top EXCEPT !.e = @ + 1]
<1>1. top.pc = "scan" /\ top \in Frames /\ top = stack[Len(stack)]
  BY TopFrame DEF ScanEntry, At, IInv, Types
<1>2. Len(stack) \in Nat \ {0, 1} /\ (use.preempt # "handler" => Len(stack) = 2)
  BY <1>1, HandlerTop, HandlerAlone DEF HandlerLabels
<1>3. top.IF_ /\ (top.e # NrSecCache => top.e + 1 \in 0 .. NrSecCache)
  <2>1. top.e \in 0 .. NrSecCache
    BY <1>1 DEF Frames
  <2>2. top.e # NrSecCache => top.e + 1 \in 0 .. NrSecCache
    BY <2>1, Sizes
  <2>3. Len(stack) # 1
    BY <1>2
  <2>4. QED
    BY <2>2, <2>3, HandlerAlone
<1>4. f \in Frames /\ f.IF_ /\ f.pc \in {"scan", "reset_counter"}
  BY <1>1, <1>3 DEF Frames, FrameLabels
<1>5. Become(f) /\ counter' = counter
  BY DEF ScanEntry, Goto, driver
<1> HIDE DEF f
<1>6. Len(stack') = Len(stack) /\ (Len(stack) = 2 => stack'[2] = f) /\ use' = use
  BY <1>2, <1>4, <1>5, TopMoves DEF Turn
<1>7. CounterInv'
  BY <1>2, <1>4, <1>5, <1>6 DEF CounterInv
<1>8. use.preempt = "quiet" => ~Replacing
  BY <1>1, HandlerSyncs DEF Syncing, HandlerLabels
<1>9. QED
  BY <1>1, <1>4, <1>5, <1>7, <1>8, HandlerKeeps
  DEF ScanEntry, driver, HandlerLabels, IInv, Types, TypeOK

(* The counter starts a new period.                                        *)
LEMMA ResetCounterKeeps ==
  ASSUME IInv, Turn, ResetCounter
  PROVE  IInv'
<1> DEFINE f == [top EXCEPT !.pc = "iret"]
<1>1. top.pc = "reset_counter" /\ top \in Frames /\ top = stack[Len(stack)]
  BY TopFrame DEF ResetCounter, At, IInv, Types
<1>2. Len(stack) \in Nat \ {0, 1} /\ (use.preempt # "handler" => Len(stack) = 2)
  BY <1>1, HandlerTop, HandlerAlone DEF HandlerLabels
<1>3. top.IF_
  BY <1>2, HandlerAlone
<1>4. f \in Frames /\ f.pc = "iret" /\ f.IF_
  BY <1>1, <1>3 DEF Frames, FrameLabels
<1>5. Become(f) /\ counter' = 0
  BY DEF ResetCounter, Goto
<1> HIDE DEF f
<1>6. Len(stack') = Len(stack) /\ (Len(stack) = 2 => stack'[2] = f) /\ use' = use
  BY <1>2, <1>4, <1>5, TopMoves DEF Turn
<1>7. CounterInv' /\ counter' \in 0 .. CounterMod - 1
  BY <1>2, <1>4, <1>5, <1>6, Sizes DEF CounterInv
<1>8. use.preempt = "quiet" => ~Replacing
  BY <1>1, HandlerSyncs DEF Syncing, HandlerLabels
<1>9. QED
  BY <1>1, <1>4, <1>5, <1>7, <1>8, HandlerKeeps DEF ResetCounter, HandlerLabels

(* The scan finds a dirty entry: the caller replaces none.                 *)
LEMMA ScanEntryCalls ==
  ASSUME IInv, Turn, ScanEntry, top.e # NrSecCache, cache[top.e].dirty
  PROVE  IInv'
<1> DEFINE f == Calling(top, "w_waitdisk", top.e, cache[top.e].sector, "clean")
<1>1. top.pc = "scan" /\ top \in Frames /\ top = stack[Len(stack)]
  BY TopFrame DEF ScanEntry, At, IInv, Types
<1>2. Len(stack) \in Nat \ {0, 1} /\ IF_
  BY <1>1, HandlerTop DEF HandlerLabels
<1>3. top.e \in Entries /\ cache[top.e].sector \in Sectors
  <2>1. top.e \in 0 .. NrSecCache
    BY <1>1 DEF Frames
  <2>2. top.e \in Entries
    BY <2>1, Sizes DEF Entries
  <2>3. QED
    BY <2>2 DEF IInv, Types, TypeOK
<1>4. MayWrite /\ use.preempt = "quiet"
  BY <1>3 DEF IInv, CacheInv, Types, SafeUse, MayWrite
<1>5. Len(stack) = 2 /\ ~Replacing /\ top.IF_
  BY <1>1, <1>2, <1>4, HandlerAlone, HandlerSyncs DEF Syncing, HandlerLabels
<1>6. /\ f \in Frames /\ f.pc = "w_waitdisk" /\ f.e = top.e
      /\ f.sec = cache[top.e].sector /\ f.w = 0 /\ f.ret = "clean" /\ f.IF_ = top.IF_
  <2>1. "w_waitdisk" \in FrameLabels
    BY DEF FrameLabels
  <2>2. QED
    BY <1>1, <1>3, <2>1, Called
<1>7. Become(f)
  BY DEF ScanEntry, CallDisk, Calling
<1> HIDE DEF f
<1>8. /\ Len(stack') = 2 /\ stack' \in Seq(Frames) /\ top' = f
      /\ stack'[1] = stack[1] /\ stack'[2] = f
  BY <1>5, <1>6, <1>7, TopMoves
<1>9. /\ UNCHANGED <<use, status, sectorPorts, ide_write, file_pos, byte_cnt, abort,
                     has_ide_intr, counter, cache, pending, reply, latest, sent,
                     i8259_intr_no, is_nemu_hlt, IF_>>
      /\ phase = "inst" /\ phase' = "devices" /\ ran' \in BOOLEAN
  BY DEF ScanEntry, Turn, device, driver, caller, history, IInv, Types, TypeOK
<1>10. Types'
  BY <1>8, <1>9, Sizes DEF IInv, Types, TypeOK, DeviceTypeOK, SafeUse
<1>11. CallerFrame'
  BY <1>8, <1>9 DEF IInv, CallerFrame, MayWrite, Wanted
<1>12. HandlerFrames'
  <2>1. HandlerAt(2)'
    BY <1>3, <1>4, <1>5, <1>6, <1>8, <1>9 DEF HandlerAt, MayWrite, WriteLabels,
       Replacing
  <2>2. QED
    BY <1>8, <2>1 DEF HandlerFrames, HandlerAt
<1>13. LoopInv'
  <2>1. IdeIntrNotLost'
    BY <1>5, <1>8 DEF IdeIntrNotLost, Replacing, RefillLabels
  <2>2. QED
    BY <1>2, <1>5, <1>8, <1>9, <2>1 DEF IInv, LoopInv
<1>14. DeviceInv'
  <2>1. status = READY /\ ~abort
    BY <1>1, <1>5 DEF IInv, DeviceInv, Replacing, WriteLabels
  <2>2. DeviceAt(stack[1])' /\ DeviceAt(stack[2])'
    BY <1>5, <1>6, <1>8 DEF DeviceAt, ReadLabels, WriteLabels, RefillLabels,
       Replacing
  <2>3. QED
    BY <1>8, <1>9, <2>1, <2>2 DEF DeviceInv
<1>15. CacheInv'
  BY <1>8, <1>9 DEF IInv, CacheInv, Holds, Refilling, RefillLabels, Entry, MayWrite, Wanted
<1>16. WriteBackInv'
  <2>1. WriteBackAt(stack[1])' /\ WriteBackAt(stack[2])'
    BY <1>5, <1>6, <1>8, <1>9, CallerClean DEF WriteBackAt, WriteLabels, Replacing,
       HandlerLabels
  <2>2. QED
    BY <1>8, <1>9, <2>1 DEF IInv, WriteBackInv, NoWriteDropped, Wanted
<1>17. CounterInv'
  BY <1>6, <1>8 DEF CounterInv, WriteLabels
<1>18. QED
  BY <1>10, <1>11, <1>12, <1>13, <1>14, <1>15, <1>16, <1>17 DEF IInv

(* cache_writeback's mark: every word that callers wrote in the entry has  *)
(* been handed to the device.                                              *)
LEMMA CleanEntryKeeps ==
  ASSUME IInv, Turn, CleanEntry
  PROVE  IInv'
<1> DEFINE f == [top EXCEPT !.e = @ + 1, !.pc = "scan"]
           e == top.e
<1>1. top.pc = "clean" /\ top \in Frames /\ top = stack[Len(stack)]
  BY TopFrame DEF CleanEntry, At, IInv, Types
<1>2. Len(stack) \in Nat \ {0, 1} /\ IF_
  BY <1>1, HandlerTop DEF HandlerLabels
<1>3. MayWrite /\ use.preempt = "quiet" /\ e \in Entries /\ top.IF_
  BY <1>1, <1>2, HandlerAlone DEF IInv, HandlerAt, Types, SafeUse, MayWrite
<1>4. Len(stack) = 2 /\ ~Replacing
  BY <1>1, <1>2, <1>3, HandlerAlone, HandlerSyncs DEF Syncing, HandlerLabels
<1>5. f \in Frames /\ f.pc = "scan" /\ f.IF_
  <2>1. e + 1 \in 0 .. NrSecCache
    BY <1>3, Sizes DEF Entries
  <2>2. QED
    BY <1>1, <1>3, <2>1 DEF Frames, FrameLabels
<1>6. Become(f)
  BY DEF CleanEntry
<1> HIDE DEF f
<1>7. /\ Len(stack') = 2 /\ stack' \in Seq(Frames) /\ top' = f
      /\ stack'[1] = stack[1] /\ stack'[2] = f
  BY <1>4, <1>5, <1>6, TopMoves
<1>8. /\ UNCHANGED <<use, status, sectorPorts, ide_write, file_pos, byte_cnt, abort,
                     has_ide_intr, counter, pending, reply, latest, sent,
                     i8259_intr_no, is_nemu_hlt, IF_>>
      /\ cache' = [cache EXCEPT ![e] = [cache[e] EXCEPT !.dirty = FALSE]]
      /\ phase = "inst" /\ phase' = "devices" /\ ran' \in BOOLEAN
  BY DEF CleanEntry, SetEntry, Turn, device, driver, caller, history, IInv, Types, TypeOK
<1>9. Types'
  <2>1. /\ cache' \in [Entries -> [sector : Sectors, used : BOOLEAN, dirty : BOOLEAN,
                                   content : [Words -> Data]]]
    <3>1. [cache[e] EXCEPT !.dirty = FALSE] \in
            [sector : Sectors, used : BOOLEAN, dirty : BOOLEAN, content : [Words -> Data]]
      BY <1>3 DEF IInv, Types, TypeOK
    <3>2. QED
      BY <1>3, <1>8, <3>1 DEF IInv, Types, TypeOK
  <2>2. Len(stack') \in 1 .. MaxDepth /\ phase' \in {"inst", "devices", "intr"}
    BY <1>7, <1>8, Sizes
  <2>3. QED
    BY <1>7, <1>8, <2>1, <2>2 DEF IInv, Types, TypeOK, DeviceTypeOK, SafeUse
<1>10. CallerFrame'
  BY <1>7, <1>8 DEF IInv, CallerFrame, MayWrite, Wanted
<1>11. HandlerFrames'
  BY <1>3, <1>4, <1>5, <1>7, <1>8
  DEF HandlerFrames, HandlerAt, MayWrite, WriteLabels, HandlerLabels, Replacing
<1>12. LoopInv'
  <2>1. IdeIntrNotLost'
    BY <1>4, <1>7 DEF IdeIntrNotLost, Replacing, RefillLabels
  <2>2. QED
    BY <1>2, <1>4, <1>7, <1>8, <2>1 DEF IInv, LoopInv
<1>13. DeviceInv'
  <2>1. status = READY /\ ~abort
    BY <1>1, <1>4 DEF IInv, DeviceInv, Replacing, WriteLabels
  <2>2. DeviceAt(stack[1])' /\ DeviceAt(stack[2])'
    BY <1>4, <1>5, <1>7 DEF DeviceAt, ReadLabels, WriteLabels, RefillLabels,
       Replacing
  <2>3. QED
    BY <1>7, <1>8, <2>1, <2>2 DEF DeviceInv
<1>14. CacheInv'
  <2>1. \A d \in Entries : /\ cache'[d].used = cache[d].used
                           /\ cache'[d].sector = cache[d].sector
                           /\ cache'[d].content = cache[d].content
    BY <1>3, <1>8 DEF IInv, Types, TypeOK
  <2>2. \A d \in Entries : Refilling(d)' <=> Refilling(d)
    BY <1>7, <1>8 DEF Refilling, RefillLabels
  <2>3. \A d \in Entries : cache'[d].used /\ ~Refilling(d)' => Holds(d, cache[d].sector)'
    BY <1>8, <2>1, <2>2 DEF IInv, CacheInv, Holds, MayWrite
  <2>4. MayWrite' /\ pending' = pending /\ Wanted' = Wanted
    BY <1>3, <1>8 DEF MayWrite, Wanted
  <2>5. stack[1].pc \notin {"in_long"} \cup FilledLabels
    BY <1>4 DEF Replacing, RefillLabels, FilledLabels
  <2>6. stack[1].pc \in {"use", "mark_dirty"} => Slot(Wanted) \in Entries
    <3>1. pending \in use.ops \X Addrs => Wanted \in Sectors
      BY DEF Wanted, Addrs
    <3>2. QED
      BY <3>1, Sizes DEF IInv, CallerFrame
  <2>7. QED
    BY <1>7, <2>1, <2>3, <2>4, <2>5, <2>6 DEF IInv, CacheInv, Entry, Wanted, FilledLabels
<1>15. WriteBackInv'
  <2>1. WriteBackAt(stack[1])' /\ WriteBackAt(stack[2])'
    BY <1>4, <1>5, <1>7, CallerClean DEF WriteBackAt, WriteLabels, Replacing,
       HandlerLabels
  <2>2. SentBelow(e, cache[e].sector, NrWords)
    BY <1>1, <1>4 DEF IInv, WriteBackInv, WriteBackAt
  <2>3. ASSUME NEW a \in Addrs, latest[a] = Written, a \notin sent
        PROVE  LET c == cache'[Slot(a[1])] IN
                 c.used /\ c.dirty /\ c.sector = a[1] /\ c.content[a[2]] = Written
    <3>1. /\ cache[Slot(a[1])].used /\ cache[Slot(a[1])].dirty
          /\ cache[Slot(a[1])].sector = a[1]
          /\ cache[Slot(a[1])].content[a[2]] = Written
      BY <2>3 DEF IInv, WriteBackInv, NoWriteDropped
    <3>2. a = <<a[1], a[2]>> /\ a[2] \in Words /\ a[2] < NrWords /\ Slot(a[1]) \in Entries
      BY Sizes DEF Addrs, Words
    <3>3. Slot(a[1]) # e
      BY <2>2, <2>3, <3>1, <3>2 DEF SentBelow
    <3>4. QED
      BY <1>3, <1>8, <3>1, <3>2, <3>3 DEF IInv, Types, TypeOK
  <2>4. NoWriteDropped'
    BY <1>8, <2>3 DEF NoWriteDropped
  <2>5. stack'[1].pc \notin RefillLabels
    BY <1>4, <1>7 DEF Replacing
  <2>6. QED
    BY <1>7, <2>1, <2>4, <2>5 DEF WriteBackInv
<1>16. CounterInv'
  BY <1>5, <1>7 DEF CounterInv
<1>17. QED
  BY <1>9, <1>10, <1>11, <1>12, <1>13, <1>14, <1>15, <1>16 DEF IInv

(* ide_intr notes the interrupt wait_ide_intr is waiting for.              *)
LEMMA IdeIntrKeeps ==
  ASSUME IInv, Turn, IdeIntr
  PROVE  IInv'
<1> DEFINE f == [top EXCEPT !.pc = "iret"]
<1>1. top.pc = "ide_intr" /\ top \in Frames /\ top = stack[Len(stack)]
  BY TopFrame DEF IdeIntr, At, IInv, Types
<1>2. Len(stack) \in Nat \ {0, 1} /\ IF_
  BY <1>1, HandlerTop DEF HandlerLabels
<1>3. Len(stack) = 2 /\ stack[1].pc = "wait_ide_intr" /\ top.IF_
  BY <1>1, <1>2, HandlerAlone DEF HandlerAt
<1>4. f \in Frames /\ f.pc = "iret" /\ f.IF_
  BY <1>1, <1>3 DEF Frames, FrameLabels
<1>5. Become(f)
  BY DEF IdeIntr, Goto
<1> HIDE DEF f
<1>6. /\ Len(stack') = 2 /\ stack' \in Seq(Frames) /\ top' = f
      /\ stack'[1] = stack[1] /\ stack'[2] = f
  BY <1>3, <1>4, <1>5, TopMoves
<1>7. /\ UNCHANGED <<use, status, sectorPorts, ide_write, file_pos, byte_cnt, abort,
                     counter, cache, pending, reply, latest, sent,
                     i8259_intr_no, is_nemu_hlt, IF_>>
      /\ has_ide_intr' = 1
      /\ phase = "inst" /\ phase' = "devices" /\ ran' \in BOOLEAN
  BY DEF IdeIntr, Turn, device, caller, history, IInv, Types, TypeOK
<1>8. Types'
  BY <1>6, <1>7, Sizes DEF IInv, Types, TypeOK, DeviceTypeOK, SafeUse
<1>9. CallerFrame'
  BY <1>6, <1>7 DEF IInv, CallerFrame, MayWrite, Wanted
<1>10. HandlerFrames'
  BY <1>3, <1>4, <1>6, <1>7 DEF HandlerFrames, HandlerAt, HandlerLabels, WriteLabels,
     Syncing
<1>11. LoopInv'
  <2>1. i8259_intr_no = I8259_NO_INTR
    BY <1>2, <1>7 DEF IInv, LoopInv
  <2>2. QED
    BY <1>2, <1>3, <1>6, <1>7, <2>1, Raises DEF IInv, LoopInv, IdeIntrNotLost
<1>12. DeviceInv'
  <2>1. status = READY /\ ~abort
    BY <1>1, <1>3 DEF IInv, DeviceInv
  <2>2. DeviceAt(stack[1])'
    BY <1>3, <1>6, <1>7 DEF IInv, DeviceInv, DeviceAt, SectorSent
  <2>3. DeviceAt(stack[2])'
    BY <1>4, <1>6 DEF DeviceAt, ReadLabels, WriteLabels
  <2>4. QED
    BY <1>6, <1>7, <2>1, <2>2, <2>3 DEF DeviceInv
<1>13. CacheInv'
  BY <1>6, <1>7 DEF IInv, CacheInv, Holds, Refilling, RefillLabels, Entry, MayWrite, Wanted
<1>14. WriteBackInv'
  <2>1. WriteBackAt(stack[1])' /\ WriteBackAt(stack[2])'
    BY <1>3, <1>4, <1>6, <1>7 DEF WriteBackAt, WriteLabels
  <2>2. QED
    BY <1>6, <1>7, <2>1 DEF IInv, WriteBackInv, NoWriteDropped, Wanted
<1>15. CounterInv'
  BY <1>1, <1>3, <1>4, <1>6, <1>7 DEF IInv, CounterInv, WriteLabels
<1>16. QED
  BY <1>8, <1>9, <1>10, <1>11, <1>12, <1>13, <1>14, <1>15 DEF IInv

(* A handler returns to the frame it interrupted.                          *)
LEMMA IretKeeps ==
  ASSUME IInv, Turn, Iret
  PROVE  IInv'
<1> DEFINE n == Len(stack)
<1>1. top.pc = "iret" /\ top \in Frames /\ top = stack[n]
  BY TopFrame DEF Iret, At, IInv, Types
<1>2. n \in Nat \ {0, 1} /\ IF_
  BY <1>1, HandlerTop DEF HandlerLabels
<1>3. top.IF_ = TRUE
  <2>1. top.IF_ \in BOOLEAN
    BY <1>1 DEF Frames
  <2>2. Len(stack) # 1
    BY <1>2
  <2>3. QED
    BY <2>1, <2>2, HandlerAlone
<1>4. /\ stack' \in Seq(Frames) /\ Len(stack') = n - 1
      /\ \A k \in 1 .. n - 1 : stack'[k] = stack[k]
      /\ stack'[1] = stack[1]
  <2>1. stack \in Seq(Frames) /\ stack' = SubSeq(stack, 1, n - 1)
    BY DEF Iret, IInv, Types, TypeOK
  <2>2. 1 \in Int /\ n - 1 \in Int /\ \A k \in 1 .. n - 1 : stack[k] \in Frames
    BY <1>2, TopFrame DEF IInv, Types
  <2>3. /\ SubSeq(stack, 1, n - 1) \in Seq(Frames)
        /\ Len(SubSeq(stack, 1, n - 1)) = n - 1
        /\ \A k \in 1 .. n - 1 : SubSeq(stack, 1, n - 1)[k] = stack[k]
    <3>1. /\ SubSeq(stack, 1, n - 1) \in Seq(Frames)
          /\ Len(SubSeq(stack, 1, n - 1)) = IF 1 <= n - 1 THEN n - 1 - 1 + 1 ELSE 0
          /\ \A k \in 1 .. n - 1 - 1 + 1 : SubSeq(stack, 1, n - 1)[k] = stack[1 + k - 1]
      BY <2>2, SubSeqProperties
    <3>2. n - 1 - 1 + 1 = n - 1 /\ 1 <= n - 1 /\ \A k \in 1 .. n - 1 : 1 + k - 1 = k
      <4>1. n \in Nat /\ n # 0 /\ n # 1
        BY <1>2
      <4>2. QED
        BY <4>1, SMTT(20)
    <3>3. QED
      BY <3>1, <3>2
  <2>4. 1 \in 1 .. n - 1
    BY <1>2
  <2>5. QED
    BY <2>1, <2>3, <2>4
<1>5. /\ UNCHANGED <<use, status, sectorPorts, ide_write, file_pos, byte_cnt, abort,
                     has_ide_intr, counter, cache, pending, reply, latest, sent,
                     i8259_intr_no, is_nemu_hlt, IF_>>
      /\ phase = "inst" /\ phase' = "devices" /\ ran' \in BOOLEAN
  BY <1>2, <1>3 DEF Iret, Turn, device, driver, caller, history, IInv, Types, TypeOK
<1>6. Types'
  <2>1. Len(stack') \in 1 .. MaxDepth
    BY <1>2, <1>4, Sizes DEF IInv, Types, TypeOK
  <2>2. QED
    BY <1>4, <1>5, <2>1 DEF IInv, Types, TypeOK, DeviceTypeOK, SafeUse
<1>7. CallerFrame'
  BY <1>4, <1>5 DEF IInv, CallerFrame, MayWrite, Wanted
<1>8. HandlerFrames'
  BY <1>2, <1>4, <1>5
  DEF IInv, HandlerFrames, HandlerAt, MayWrite, Syncing, NextSyncs, Replacing
<1>9. LoopInv'
  <2>1. i8259_intr_no = I8259_NO_INTR
    BY <1>2, <1>5 DEF IInv, LoopInv
  <2>2. IdeIntrNotLost'
    BY <1>1, <1>2, <1>4, <1>5 DEF IInv, LoopInv, IdeIntrNotLost
  <2>3. QED
    BY <1>2, <1>4, <1>5, <2>1, <2>2, Raises DEF IInv, LoopInv
<1>10. DeviceInv'
  <2>1. ~abort /\ (status # READY => stack[1].pc = "out_long")
    BY <1>1 DEF IInv, DeviceInv
  <2>2. \A k \in 1 .. n - 1 : DeviceAt(stack[k])'
    BY <1>2, <1>4, <1>5 DEF IInv, DeviceInv, DeviceAt, SectorSent
  <2>3. QED
    BY <1>4, <1>5, <2>1, <2>2 DEF DeviceInv
<1>11. CacheInv'
  BY <1>4, <1>5 DEF IInv, CacheInv, Holds, Refilling, RefillLabels, Entry, MayWrite, Wanted
<1>12. WriteBackInv'
  <2>1. \A k \in 1 .. n - 1 : WriteBackAt(stack[k])'
    BY SMTT(20), <1>2, <1>4, <1>5 DEF IInv, WriteBackInv, WriteBackAt, SentBelow
  <2>2. QED
    BY <1>4, <1>5, <2>1 DEF IInv, WriteBackInv, NoWriteDropped, Wanted
<1>13. CounterInv'
  BY <1>1, <1>2, <1>4, <1>5 DEF IInv, CounterInv, LoopInv, WriteLabels
<1>14. QED
  BY <1>6, <1>7, <1>8, <1>9, <1>10, <1>11, <1>12, <1>13 DEF IInv

-----------------------------------------------------------------------------
(* The devices' turn and the delivery of an interrupt.                     *)
LEMMA HaltedKeeps ==
  ASSUME IInv, Halted
  PROVE  IInv'
<1>1. ran' \in BOOLEAN
  BY DEF Halted, IInv, Types, TypeOK
<1>2. QED
  BY <1>1, OnlyPhase DEF Halted

(* The devices have nothing to say.                                        *)
LEMMA NoTimerTickKeeps ==
  ASSUME IInv, NoTimerTick
  PROVE  IInv'
<1>1. ran' \in BOOLEAN
  BY DEF NoTimerTick, IInv, Types, TypeOK
<1>2. QED
  BY <1>1, OnlyPhase DEF NoTimerTick

(* A tick finds the slot free, or is dropped for what is pending there.    *)
LEMMA TimerTickKeeps ==
  ASSUME IInv, TimerTick
  PROVE  IInv'
<1>1. /\ UNCHANGED <<use, status, sectorPorts, ide_write, file_pos, byte_cnt, abort,
                     has_ide_intr, counter, cache, pending, reply, latest, sent,
                     is_nemu_hlt, IF_, stack>>
      /\ phase = "devices" /\ phase' = "intr" /\ ran' = FALSE /\ TickAllowed
  BY DEF TimerTick, device, driver, caller, history
<1>2. i8259_intr_no' = IF i8259_intr_no = I8259_NO_INTR THEN IRQ_BASE + TIMER_IRQ
                       ELSE i8259_intr_no
  BY DEF TimerTick, SlotAfterRaise, IInv, LoopInv, IRQ_BASE, TIMER_IRQ, IDE_IRQ,
     I8259_NO_INTR
<1>3. Types'
  BY ZenonT(40), <1>1, <1>2, Raises DEF IInv, Types, TypeOK, DeviceTypeOK, SafeUse
<1>4. CallerFrame' /\ HandlerFrames'
  BY <1>1 DEF IInv, CallerFrame, HandlerFrames, HandlerAt, MayWrite, Wanted, Syncing,
     NextSyncs, Replacing
<1>5. LoopInv'
  <2>1. /\ Len(stack) < MaxDepth
        /\ use.preempt # "handler" => Len(stack) = 1
        /\ use.preempt = "quiet" /\ IF_ /\ Replacing => ~NextSyncs
    <3>1. use.preempt \in {"quiet", "driver", "handler"}
      BY DriverAssumption DEF IInv, Types, TypeOK
    <3>6. 1 < MaxDepth
      BY Sizes
    <3>2. CASE use.preempt = "quiet"
      BY <1>1, <3>2, <3>6 DEF TickAllowed
    <3>3. CASE use.preempt = "driver"
      BY <1>1, <3>3, <3>6 DEF TickAllowed
    <3>4. CASE use.preempt = "handler"
      BY <1>1, <3>4 DEF TickAllowed
    <3>5. QED
      BY <3>1, <3>2, <3>3, <3>4
  <2>2. IdeIntrNotLost'
    BY <1>1, <1>2, Raises DEF IInv, LoopInv, IdeIntrNotLost
  <2>3. QED
    BY <1>1, <1>2, <2>1, <2>2, Raises DEF IInv, LoopInv, Replacing, NextSyncs
<1>6. DeviceInv' /\ CounterInv'
  BY <1>1 DEF IInv, DeviceInv, DeviceAt, SectorSent, top, CounterInv
<1>7. CacheInv' /\ WriteBackInv'
  BY <1>1 DEF IInv, CacheInv, Holds, Refilling, RefillLabels, Entry, MayWrite, Wanted,
     WriteBackInv, WriteBackAt, SentBelow, NoWriteDropped
<1>8. QED
  BY <1>3, <1>4, <1>5, <1>6, <1>7 DEF IInv

(* No interrupt is pending, or interrupts are disabled.                    *)
LEMMA NoIntrKeeps ==
  ASSUME IInv, DoIntr, ~(i8259_intr_no # I8259_NO_INTR /\ IF_)
  PROVE  IInv'
<1>1. /\ UNCHANGED <<use, status, sectorPorts, ide_write, file_pos, byte_cnt, abort,
                     has_ide_intr, counter, cache, pending, reply, latest, sent,
                     i8259_intr_no, is_nemu_hlt, IF_, ran, stack>>
      /\ phase = "intr" /\ phase' = "inst"
  BY DEF DoIntr, device, driver, caller, history
<1>2. Types'
  BY <1>1, Sizes DEF IInv, Types, TypeOK, DeviceTypeOK, SafeUse
<1>3. CallerFrame' /\ HandlerFrames'
  BY <1>1 DEF IInv, CallerFrame, HandlerFrames, HandlerAt, MayWrite, Wanted, Syncing,
     NextSyncs, Replacing
<1>4. LoopInv'
  <2>1. IdeIntrNotLost'
    BY <1>1 DEF IInv, LoopInv, IdeIntrNotLost
  <2>2. QED
    BY <1>1, <2>1, Raises DEF IInv, LoopInv, Replacing, NextSyncs
<1>5. DeviceInv' /\ CounterInv'
  BY <1>1 DEF IInv, DeviceInv, DeviceAt, SectorSent, top, CounterInv
<1>6. CacheInv' /\ WriteBackInv'
  BY <1>1 DEF IInv, CacheInv, Holds, Refilling, RefillLabels, Entry, MayWrite, Wanted,
     WriteBackInv, WriteBackAt, SentBelow, NoWriteDropped
<1>7. QED
  BY <1>2, <1>3, <1>4, <1>5, <1>6 DEF IInv

(* A handler starts: of IRQ 14 over the caller that waits for it, of the   *)
(* timer over any frame that it will not take the device from.             *)
LEMMA IntrKeeps ==
  ASSUME IInv, DoIntr, i8259_intr_no # I8259_NO_INTR, IF_
  PROVE  IInv'
<1> DEFINE n == Len(stack)
           f == Frame(IF i8259_intr_no = IRQ_BASE + IDE_IRQ
                      THEN "ide_intr" ELSE "load_counter", TRUE)
<1>1. IF_ = TRUE /\ n \in Nat \ {0} /\ \A k \in 1 .. n : stack[k] \in Frames
  BY TopFrame DEF IInv, Types, TypeOK
<1>2. /\ f \in Frames /\ f.IF_ = TRUE
      /\ f.pc = IF i8259_intr_no = IRQ_BASE + IDE_IRQ THEN "ide_intr" ELSE "load_counter"
  BY Sizes DEF Frame, Frames, FrameLabels, Ports
<1>3. IFAfterGate(i8259_intr_no, IF_) = IF_
  BY Raises DEF IInv, LoopInv, IFAfterGate, GateType, IRQ_BASE, TIMER_IRQ, IDE_IRQ,
     I8259_NO_INTR, INTERRUPT_GATE_32
<1>4. stack' = Append(stack, f)
  BY <1>1 DEF DoIntr
<1> HIDE DEF f
<1>5. /\ n < MaxDepth /\ (use.preempt # "handler" => n = 1)
      /\ use.preempt = "quiet" /\ f.pc # "ide_intr" /\ Replacing => ~NextSyncs
      /\ f.pc = "ide_intr" => /\ n = 1 /\ has_ide_intr = 0
                              /\ stack[1].pc = "wait_ide_intr"
  <2>1. 1 < MaxDepth
    BY Sizes
  <2>2. CASE i8259_intr_no = IRQ_BASE + IDE_IRQ
    BY <1>1, <1>2, <2>1, <2>2 DEF IInv, LoopInv
  <2>3. CASE i8259_intr_no = IRQ_BASE + TIMER_IRQ
    BY <1>1, <1>2, <2>3, Raises DEF IInv, LoopInv
  <2>4. QED
    BY <2>2, <2>3 DEF IInv, LoopInv
<1>6. /\ stack' \in Seq(Frames) /\ Len(stack') = n + 1 /\ stack'[n + 1] = f
      /\ \A k \in 1 .. n : stack'[k] = stack[k]
      /\ stack'[1] = stack[1] /\ top' = f
  <2>1. stack \in Seq(Frames)
    BY DEF IInv, Types, TypeOK
  <2>2. QED
    BY <1>1, <1>2, <1>4, <2>1, AppendProperties DEF top
<1>7. /\ UNCHANGED <<use, status, sectorPorts, ide_write, file_pos, byte_cnt, abort,
                     has_ide_intr, counter, cache, pending, reply, latest, sent,
                     IF_, ran>>
      /\ is_nemu_hlt' = FALSE /\ i8259_intr_no' = I8259_NO_INTR
      /\ phase = "intr" /\ phase' = "inst"
  BY <1>3 DEF DoIntr, device, driver, caller, history
<1>8. Types'
  <2>1. Len(stack') \in 1 .. MaxDepth
    BY <1>1, <1>5, <1>6, Sizes
  <2>2. QED
    BY <1>6, <1>7, <2>1, Raises DEF IInv, Types, TypeOK, DeviceTypeOK, SafeUse
<1>9. CallerFrame'
  BY <1>6, <1>7 DEF IInv, CallerFrame, MayWrite, Wanted
<1>10. HandlerFrames'
  <2>1. ASSUME NEW k \in 2 .. n + 1
        PROVE  HandlerAt(k)'
    <3>1. CASE k = n + 1
      <4>1. Replacing' = Replacing /\ NextSyncs' = NextSyncs
        BY <1>6, <1>7 DEF Replacing, NextSyncs
      <4>2. /\ stack'[k] = f /\ f.IF_ /\ f.pc \in {"ide_intr", "load_counter"}
            /\ Syncing(f, counter') => f.pc # "ide_intr" /\ NextSyncs
        BY <1>2, <1>6, <1>7, <3>1 DEF Syncing, NextSyncs, WriteLabels
      <4>3. f.pc = "ide_intr" =>
              k = 2 /\ stack'[1].pc = "wait_ide_intr" /\ has_ide_intr' = 0
        <5>1. n = 1 => k = 2
          BY <3>1
        <5>2. QED
          BY <1>5, <1>6, <1>7, <5>1
      <4>4. use'.preempt = "quiet" /\ Syncing(f, counter') => ~Replacing'
        BY <1>5, <1>7, <4>1, <4>2
      <4>5. QED
        BY <4>2, <4>3, <4>4 DEF HandlerAt, HandlerLabels, WriteLabels
    <3>2. CASE k # n + 1
      <4>1. k \in 2 .. n
        BY <1>1, <2>1, <3>2
      <4>2. HandlerAt(k)
        BY <4>1 DEF IInv, HandlerFrames
      <4>3. QED
        BY <1>1, <1>6, <1>7, <4>1, <4>2
        DEF HandlerAt, MayWrite, Syncing, NextSyncs, Replacing
    <3>3. QED
      BY <3>1, <3>2
  <2>2. QED
    BY <1>6, <2>1 DEF HandlerFrames
<1>11. LoopInv'
  <2>1. IdeIntrNotLost'
    <3>1. CASE f.pc = "ide_intr"
      <4>1. n = 1 /\ n + 1 = 2
        <5>1. n = 1
          BY <1>5, <3>1
        <5>2. QED
          BY <5>1
      <4>2. stack'[2].pc = "ide_intr" /\ 2 \in 2 .. Len(stack')
        BY <1>6, <3>1, <4>1
      <4>3. QED
        BY <4>2 DEF IdeIntrNotLost
    <3>2. CASE f.pc # "ide_intr"
      <4>1. stack[1].pc \in {"wait_ide_intr", "wait_intr"} =>
              \/ has_ide_intr = 1
              \/ \E k \in 2 .. n : stack[k].pc = "ide_intr"
        BY <1>2, <3>2 DEF IInv, LoopInv, IdeIntrNotLost
      <4>2. \A k \in 2 .. n : k \in 2 .. n + 1 /\ stack'[k] = stack[k]
        BY <1>1, <1>6
      <4>3. QED
        BY <1>6, <1>7, <4>1, <4>2 DEF IdeIntrNotLost
    <3>3. QED
      BY <3>1, <3>2
  <2>2. QED
    BY <1>1, <1>5, <1>6, <1>7, <2>1, Raises DEF IInv, LoopInv
<1>12. DeviceInv'
  <2>1. ~abort /\ (status # READY => stack[1].pc = "out_long")
    <3>1. ASSUME top.pc = "out_long"
          PROVE  stack[1].pc = "out_long"
      <4>1. top = stack[n] /\ n \in 1 .. n /\ top.pc \in WriteLabels
        BY <1>1, <3>1 DEF top, WriteLabels
      <4>2. use.preempt = "quiet"
        BY <4>1, WriterTop
      <4>3. n = 1
        BY <1>5, <4>2
      <4>4. QED
        BY <3>1, <4>1, <4>3
    <3>2. QED
      BY <3>1 DEF IInv, DeviceInv
  <2>2. ASSUME NEW k \in 1 .. n + 1, k = n + 1
        PROVE  DeviceAt(stack[k])'
    BY <1>2, <1>6, <2>2 DEF DeviceAt, ReadLabels, WriteLabels
  <2>3. ASSUME NEW k \in 1 .. n
        PROVE  DeviceAt(stack[k])'
    BY <1>6, <1>7 DEF IInv, DeviceInv, DeviceAt, SectorSent
  <2>4. \A k \in 1 .. n + 1 : DeviceAt(stack[k])'
    <3>1. \A k \in 1 .. n + 1 : k = n + 1 \/ k \in 1 .. n
      BY <1>1
    <3>2. QED
      BY <2>2, <2>3, <3>1
  <2>5. QED
    BY <1>6, <1>7, <2>1, <2>4 DEF DeviceInv
<1>13. CacheInv'
  BY <1>6, <1>7 DEF IInv, CacheInv, Holds, Refilling, RefillLabels, Entry, MayWrite, Wanted
<1>14. WriteBackInv'
  <2>1. ASSUME NEW k \in 1 .. n + 1, k = n + 1
        PROVE  WriteBackAt(stack[k])'
    BY <1>2, <1>6, <2>1 DEF WriteBackAt, WriteLabels
  <2>2. ASSUME NEW k \in 1 .. n
        PROVE  WriteBackAt(stack[k])'
    BY <1>6, <1>7 DEF IInv, WriteBackInv, WriteBackAt, SentBelow
  <2>3. \A k \in 1 .. n + 1 : WriteBackAt(stack[k])'
    <3>1. \A k \in 1 .. n + 1 : k = n + 1 \/ k \in 1 .. n
      BY <1>1
    <3>2. QED
      BY <2>1, <2>2, <3>1
  <2>4. QED
    BY <1>6, <1>7, <2>3 DEF IInv, WriteBackInv, NoWriteDropped, Wanted
<1>15. CounterInv'
  BY <1>1, <1>2, <1>5, <1>6, <1>7 DEF IInv, CounterInv
<1>16. QED
  BY <1>8, <1>9, <1>10, <1>11, <1>12, <1>13, <1>14, <1>15 DEF IInv

-----------------------------------------------------------------------------
(* The invariant holds at the start and is kept by every step.             *)
LEMMA InitInvariant ==
  ASSUME Init, \A u \in Uses : SafeUse(u)
  PROVE  IInv
<1>1. /\ stack \in Seq(Frames) /\ Len(stack) = 1 /\ top = stack[1]
      /\ stack[1].pc = "idle" /\ stack[1].IF_ = TRUE
  <2>1. /\ Frame("idle", TRUE) \in Frames /\ Frame("idle", TRUE).pc = "idle"
        /\ Frame("idle", TRUE).IF_ = TRUE
    BY Sizes DEF Frame, Frames, FrameLabels, Ports
  <2>2. stack = <<Frame("idle", TRUE)>>
    BY DEF Init
  <2>3. <<Frame("idle", TRUE)>> \in Seq(Frames)
    <3>1. ASSUME NEW f \in Frames
          PROVE  <<f>> \in Seq(Frames)
      <4>1. <<f>> = Append(<< >>, f)
        OBVIOUS
      <4>2. QED
        BY <4>1, EmptySeq, AppendProperties
    <3>2. QED
      BY <2>1, <3>1
  <2>4. Len(stack) = 1 /\ stack[1] = Frame("idle", TRUE)
    BY <2>2
  <2>5. QED
    BY <2>1, <2>2, <2>3, <2>4 DEF top
<1>2. /\ BssWord \in Data /\ ImageWord \in [Addrs -> Data]
      /\ \A a \in Addrs : ImageWord[a] # Written
  <2>1. BssWord \in Data
    <3>1. 0 \in 0 .. NrWords /\ DiskWord(0, 0) = 0
      BY Sizes DEF DiskWord
    <3>2. QED
      BY <3>1, Sizes, DiskWords DEF BssWord
  <2>2. ImageWord \in [Addrs -> Data]
    BY DEF ImageWord, Data
  <2>3. \A a \in Addrs : ImageWord[a] # Written
    BY TokensAssumption DEF ImageWord, Addrs
  <2>4. QED
    BY <2>1, <2>2, <2>3
<1>3. /\ use \in Uses /\ SafeUse(use) /\ phase = "inst" /\ IF_ = TRUE
      /\ i8259_intr_no = I8259_NO_INTR /\ is_nemu_hlt = FALSE /\ ran = TRUE
      /\ has_ide_intr = 0 /\ counter = 0 /\ status = READY /\ ~abort
      /\ pending = NoRequest /\ reply = NoRequest /\ latest = ImageWord /\ sent = {}
  BY DEF Init, DeviceInit
<1>4. Types
  <2>1. 0 \in 0 .. NrSectors * NrWords /\ 0 \in 0 .. NrWords /\ 0 \in 0 .. CounterMod - 1
    BY Sizes
  <2>2. DeviceTypeOK
    BY <2>1, Sizes DEF Init, DeviceInit, DeviceTypeOK
  <2>3. cache \in [Entries -> [sector : Sectors, used : BOOLEAN, dirty : BOOLEAN,
                               content : [Words -> Data]]]
    BY <1>2, Sizes DEF Init
  <2>4. Len(stack) \in 1 .. MaxDepth
    BY <1>1, Sizes
  <2>5. QED
    BY <1>1, <1>2, <1>3, <2>1, <2>2, <2>3, <2>4, Raises DEF Types, TypeOK
<1>5. CallerFrame
  BY <1>1, <1>3 DEF CallerFrame, CallerLabels, ReadLabels, FilledLabels, WriteLabels
<1>6. HandlerFrames
  BY <1>1 DEF HandlerFrames
<1>7. LoopInv
  BY <1>1, <1>3, Raises, Sizes DEF LoopInv, IdeIntrNotLost
<1>8. DeviceInv
  BY <1>1, <1>3 DEF DeviceInv, DeviceAt, ReadLabels, WriteLabels
<1>9. CacheInv
  BY <1>1, <1>3 DEF Init, CacheInv, FilledLabels
<1>10. WriteBackInv
  <2>1. NoWriteDropped
    BY <1>2, <1>3 DEF NoWriteDropped
  <2>2. QED
    BY <1>1, <2>1 DEF WriteBackInv, WriteBackAt, WriteLabels, RefillLabels, ReadLabels,
       FilledLabels
<1>11. CounterInv
  BY <1>1, <1>3, Sizes DEF CounterInv
<1>12. QED
  BY <1>4, <1>5, <1>6, <1>7, <1>8, <1>9, <1>10, <1>11 DEF IInv

(* An instruction of the caller, outside the driver's port accesses.       *)
LEMMA CallerStepKeeps ==
  ASSUME IInv, Turn, CallerStep
  PROVE  IInv'
<1>1. CASE CacheLookup
  <2>1. CASE Entry.used /\ Entry.sector = Wanted
    BY <1>1, <2>1, CacheLookupHit
  <2>2. CASE Entry.used /\ Entry.sector # Wanted /\ Entry.dirty
    BY <1>1, <2>2, CacheLookupEvicts
  <2>3. CASE ~(Entry.used /\ (Entry.sector = Wanted \/ Entry.dirty))
    BY <1>1, <2>3, CacheLookupFree
  <2>4. QED
    BY <2>1, <2>2, <2>3
<1>2. CASE WaitIdeIntr
  BY <1>2, WaitIdeIntrHalts, WaitIdeIntrSeen
<1>3. CASE InLong
  <2>1. top.w + 1 < NrWords \/ top.w + 1 = NrWords
    BY <1>3, InLongAt, Sizes DEF Words
  <2>2. QED
    BY <1>3, <2>1, InLongMore, InLongLast
<1>4. QED
  BY <1>1, <1>2, <1>3, SetUsedKeeps, SetSectorKeeps, SetCleanKeeps, ReadByteKeeps,
     WriteByteKeeps, MarkDirtyKeeps, ClearIdeIntrKeeps, IssueReadKeeps, WaitIntrKeeps,
     IdeIntrSeenKeeps
  DEF CallerStep

(* An instruction that the caller and the timer handler share.             *)
LEMMA DiskStepKeeps ==
  ASSUME IInv, Turn, DiskStep
  PROVE  IInv'
<1>1. CASE WaitDisk /\ ~DeviceReady
  <2>1. UNCHANGED <<use, device, driver, caller, i8259_intr_no, is_nemu_hlt, IF_, stack>>
    BY <1>1 DEF WaitDisk, Turn
  <2>2. ran' \in BOOLEAN
    BY DEF Turn, IInv, Types, TypeOK
  <2>3. QED
    BY <2>1, <2>2, OnlyPhase DEF Turn
<1>2. CASE WaitDisk /\ DeviceReady
  BY <1>2, WaitDiskReads, WaitDiskWrites DEF WaitDisk, At
<1>3. CASE IdePrepare
  BY <1>3, NextPortReads, LastPortReads, NextPortWrites, LastPortWrites
  DEF IdePrepare, At
<1>4. CASE IssueWrite
  BY <1>4, IssueWriteKeeps DEF IssueWrite, At
<1>5. CASE OutLong
  <2>1. top.pc = "out_long" /\ (top.w + 1 < NrWords \/ top.w + 1 = NrWords)
    BY <1>5, OutLongAt, Sizes DEF Words
  <2>2. QED
    BY <1>5, <2>1, OutLongMore, OutLongLast
<1>6. QED
  BY <1>1, <1>2, <1>3, <1>4, <1>5 DEF DiskStep

(* An instruction of a handler.                                            *)
LEMMA HandlerStepKeeps ==
  ASSUME IInv, Turn, HandlerStep
  PROVE  IInv'
<1>1. CASE ScanEntry
  BY <1>1, ScanEntryPasses, ScanEntryCalls
<1>2. QED
  BY <1>1, LoadCounterKeeps, StoreCounterKeeps, TestCounterKeeps, CleanEntryKeeps,
     ResetCounterKeeps, IdeIntrKeeps, IretKeeps
  DEF HandlerStep

(* The invariant is inductive.                                             *)
LEMMA NextKeeps ==
  ASSUME IInv, [Next]_vars
  PROVE  IInv'
<1>1. CASE ExecInst
  <2>1. Turn
    BY <1>1 DEF ExecInst, Turn
  <2>2. CallDriver \/ CallerIdles \/ CallerStep \/ DiskStep \/ HandlerStep
    BY <1>1 DEF ExecInst
  <2>3. QED
    BY <2>1, <2>2, CallDriverKeeps, CallerIdlesKeeps, CallerStepKeeps, DiskStepKeeps,
       HandlerStepKeeps
<1>2. CASE DoIntr
  BY <1>2, NoIntrKeeps, IntrKeeps
<1>3. CASE UNCHANGED vars
  <2>1. UNCHANGED <<use, status, sectorPorts, ide_write, file_pos, byte_cnt, abort,
                    has_ide_intr, counter, cache, pending, reply, latest, sent,
                    i8259_intr_no, is_nemu_hlt, IF_, phase, ran, stack>>
    BY <1>3 DEF vars, device, driver, caller, history, loop
  <2>2. Types' /\ CallerFrame' /\ HandlerFrames'
    BY <2>1 DEF IInv, Types, TypeOK, DeviceTypeOK, SafeUse, CallerFrame,
       HandlerFrames, HandlerAt, MayWrite, Wanted, Syncing, NextSyncs, Replacing
  <2>3. LoopInv' /\ DeviceInv' /\ CounterInv'
    BY <2>1 DEF IInv, LoopInv, IdeIntrNotLost, DeviceInv, DeviceAt, SectorSent, top,
       CounterInv, NextSyncs, Replacing
  <2>4. CacheInv' /\ WriteBackInv'
    BY <2>1 DEF IInv, CacheInv, Holds, Refilling, RefillLabels, Entry, MayWrite, Wanted,
       WriteBackInv, WriteBackAt, SentBelow, NoWriteDropped
  <2>5. QED
    BY <2>2, <2>3, <2>4 DEF IInv
<1>4. QED
  BY <1>1, <1>2, <1>3, HaltedKeeps, TimerTickKeeps, NoTimerTickKeeps DEF Next

-----------------------------------------------------------------------------
(* Every reachable state satisfies the invariant, when every use is safe.  *)
LEMMA Invariant ==
  ASSUME \A u \in Uses : SafeUse(u)
  PROVE  Spec => []IInv
<1>1. Init => IInv
  BY InitInvariant
<1>2. IInv /\ [Next]_vars => IInv'
  BY NextKeeps
<1>3. QED
  BY <1>1, <1>2, PTL DEF Spec

(* The driver, the device and the frames keep their types in every safe    *)
(* use, for any sizes; that there are never more than MaxDepth frames is   *)
(* the bound on ticks, TickAllowed, for any value of it.                   *)
THEOREM TypeCorrect ==
  ASSUME \A u \in Uses : SafeUse(u)
  PROVE  Spec => []TypeOK
<1>1. IInv => TypeOK
  BY DEF IInv, Types
<1>2. QED
  BY <1>1, Invariant, PTL

(* No data port access of the driver meets a failing assertion of NEMU's   *)
(* handler_ide: it follows a command of its own direction, and never goes  *)
(* past a sector, wherever interrupts come in that a safe use lets in.     *)
(* (Those it keeps out do trip the assertion: a write-back that starts in  *)
(* the middle of the caller's own transfer.)                               *)
THEOREM AssertsHold ==
  ASSUME \A u \in Uses : SafeUse(u)
  PROVE  Spec => []IdeAssertsHold
<1>1. IInv => IdeAssertsHold
  BY DEF IInv, DeviceInv, IdeAssertsHold
<1>2. QED
  BY <1>1, Invariant, PTL

(* An entry that is in use, and is not being refilled, holds the words of  *)
(* the sector it is tagged with, or what callers wrote there: in every     *)
(* safe use, so through the write-backs of handlers that come in while     *)
(* the caller looks an entry up, uses it, writes to it or idles.           *)
THEOREM WordsBelong ==
  ASSUME \A u \in Uses : SafeUse(u)
  PROVE  Spec => []CachedWordsBelong
<1>1. IInv => CachedWordsBelong
  <2>1. SUFFICES ASSUME IInv, NEW e \in Entries, cache[e].used, ~Refilling(e),
                        NEW w \in Words
                 PROVE  cache[e].content[w] \in {DiskWord(cache[e].sector, w), Written}
    BY DEF CachedWordsBelong
  <2>2. Holds(e, cache[e].sector)
    BY <2>1 DEF IInv, CacheInv
  <2>3. QED
    BY <2>2 DEF Holds
<1>2. QED
  BY <1>1, Invariant, PTL

(* The interrupt of a read command reaches wait_ide_intr: while the driver *)
(* tests and halts, it is pending, being handled, or noted.                *)
THEOREM IntrNotLost ==
  ASSUME \A u \in Uses : SafeUse(u)
  PROVE  Spec => []IdeIntrNotLost
<1>1. IInv => IdeIntrNotLost
  BY DEF IInv, LoopInv
<1>2. QED
  BY <1>1, Invariant, PTL

(* Data that write_byte has stored stays in a dirty entry of its sector    *)
(* until the device has been handed it for its own address, through any    *)
(* number of evictions and of write-backs, which may come in between any   *)
(* two instructions of the caller that are not part of a replacement.      *)
THEOREM WriteNotDropped ==
  ASSUME \A u \in Uses : SafeUse(u)
  PROVE  Spec => []NoWriteDropped
<1>1. IInv => NoWriteDropped
  BY DEF IInv, WriteBackInv
<1>2. QED
  BY <1>1, Invariant, PTL

(* In safe uses whose handlers are not interrupted by ticks, the equality  *)
(* test of ide_writeback never misses its value: whenever no handler runs, *)
(* the counter is below it.  (In the others the test is stepped over.)     *)
THEOREM PeriodKept ==
  ASSUME \A u \in Uses : SafeUse(u)
  PROVE  Spec => []WritebackKeepsPeriod
<1>1. IInv => WritebackKeepsPeriod
  BY DEF IInv, CounterInv, WritebackKeepsPeriod
<1>2. QED
  BY <1>1, Invariant, PTL

-----------------------------------------------------------------------------
(* The refinement: what the shipped kernel asks the driver and is told is  *)
(* a behaviour of ByteStore.  Three instructions touch the request.        *)
LEMMA RequestMoves ==
  ASSUME IInv, [Next]_vars
  PROVE  /\ use' = use
         /\ CallDriver \/ ReadByte \/ MarkDirty \/ UNCHANGED <<pending, reply, latest>>
<1>1. use' = use
  BY DEF Next, ExecInst, Halted, TimerTick, NoTimerTick, DoIntr, vars
<1>2. CASE ExecInst
  <2> DEFINE Same == UNCHANGED <<pending, reply, latest>>
  <2>1. CallerIdles => Same
    BY DEF CallerIdles, caller, history
  <2>2. WaitDisk => Same
    BY DEF WaitDisk, caller, history
  <2>3. IdePrepare => Same
    BY DEF IdePrepare, caller, history
  <2>4. IssueWrite => Same
    BY DEF IssueWrite, caller, history
  <2>5. OutLong => Same
    BY DEF OutLong, caller, history
  <2>6. LoadCounter => Same
    BY DEF LoadCounter, caller, history
  <2>7. StoreCounter => Same
    BY DEF StoreCounter, caller, history
  <2>8. TestCounter => Same
    BY DEF TestCounter, caller, history
  <2>9. ScanEntry => Same
    BY DEF ScanEntry, caller, history
  <2>10. CleanEntry => Same
    BY DEF CleanEntry, caller, history
  <2>11. ResetCounter => Same
    BY DEF ResetCounter, caller, history
  <2>12. IdeIntr => Same
    BY DEF IdeIntr, caller, history
  <2>13. Iret => Same
    BY DEF Iret, caller, history
  <2>14. CacheLookup => Same
    BY DEF CacheLookup, caller, history
  <2>15. SetUsed => Same
    BY DEF SetUsed, caller, history
  <2>16. SetSector => Same
    BY DEF SetSector, caller, history
  <2>17. SetClean => Same
    BY DEF SetClean, caller, history
  <2>18. WriteByte => Same
    BY DEF WriteByte, caller, history
  <2>19. ClearIdeIntr => Same
    BY DEF ClearIdeIntr, caller, history
  <2>20. IssueRead => Same
    BY DEF IssueRead, caller, history
  <2>21. WaitIdeIntr => Same
    BY DEF WaitIdeIntr, caller, history
  <2>22. WaitIntr => Same
    BY DEF WaitIntr, caller, history
  <2>23. IdeIntrSeen => Same
    BY DEF IdeIntrSeen, caller, history
  <2>24. InLong => Same
    BY DEF InLong, caller, history
  <2>25. QED
    BY <1>2, <2>1, <2>2, <2>3, <2>4, <2>5, <2>6, <2>7, <2>8, <2>9, <2>10, <2>11, <2>12,
       <2>13, <2>14, <2>15, <2>16, <2>17, <2>18, <2>19, <2>20, <2>21, <2>22, <2>23, <2>24
    DEF ExecInst, CallerStep, DiskStep, HandlerStep
<1>3. CASE Halted \/ TimerTick \/ NoTimerTick \/ DoIntr \/ UNCHANGED vars
  BY <1>3 DEF Halted, TimerTick, NoTimerTick, DoIntr, vars, caller, history
<1>4. QED
  BY <1>1, <1>2, <1>3 DEF Next

(* The initial states map to the store's.                                  *)
LEMMA StoreInit ==
  ASSUME Init
  PROVE  ReadStore!Init
  BY DEF Init, ReadStore!Init

(* Every step maps to a request, an answer, or a stutter of the store.     *)
LEMMA StoreStep ==
  ASSUME IInv, [Next]_vars
  PROVE  [ReadStore!Next]_(ReadStore!vars)
<1>1. use' = use /\ (Shipped' <=> Shipped)
  BY RequestMoves DEF Shipped
<1>2. CASE ~Shipped \/ UNCHANGED <<pending, reply, latest>>
  BY <1>1, <1>2 DEF ReadStore!vars
<1>3. CASE Shipped /\ CallDriver
  <2>1. PICK a \in Addrs : pending' = <<"read", a>>
    <3>1. use.asked \subseteq Addrs
      BY DriverAssumption DEF IInv, Types, TypeOK, Addrs
    <3>2. QED
      BY <1>3, <3>1 DEF CallDriver, Shipped
  <2>2. pending = NoRequest
    <3>1. top.pc = "idle" /\ top.pc \in CallerLabels
      BY <1>3 DEF CallDriver, At, CallerLabels
    <3>2. QED
      BY <3>1, CallerTop DEF IInv, CallerFrame
  <2>3. UNCHANGED <<reply, latest>>
    BY <1>3 DEF CallDriver, history
  <2>4. ReadStore!Request("read", a)
    BY <1>1, <1>3, <2>1, <2>2, <2>3 DEF ReadStore!Request
  <2>5. QED
    BY <2>4 DEF ReadStore!Next
<1>4. CASE Shipped /\ ReadByte
  <2>1. /\ stack[1].pc = "use" /\ pending \in use.ops \X Addrs
        /\ Wanted \in Sectors /\ Slot(Wanted) \in Entries
        /\ pending[2] \in Addrs /\ pending[2][2] \in Words
    BY <1>4, Caller DEF ReadByte, At, CallerLabels
  <2>2. pending = <<"read", pending[2]>>
    BY <1>4, <2>1 DEF Shipped
  <2>3. ~MayWrite
    BY <1>4 DEF Shipped, MayWrite
  <2>4. Entry.used /\ Entry.sector = Wanted /\ Entry = cache[Slot(Wanted)]
    BY <2>1 DEF IInv, CacheInv, Entry, Wanted
  <2>5. Holds(Slot(Wanted), Wanted)
    BY <2>1, <2>4 DEF IInv, CacheInv, Refilling, RefillLabels
  <2>6. Entry.content[pending[2][2]] = latest[pending[2]]
    <3>1. Entry.content[pending[2][2]] = DiskWord(pending[2][1], pending[2][2])
      BY <2>1, <2>3, <2>4, <2>5 DEF Holds, Wanted
    <3>2. latest[pending[2]] = DiskWord(pending[2][1], pending[2][2])
      BY <2>1, <2>3 DEF IInv, CacheInv, ImageWord
    <3>3. QED
      BY <3>1, <3>2
  <2>7. reply' = latest[pending[2]] /\ pending' = NoRequest /\ latest' = latest
    BY <1>4, <2>6 DEF ReadByte, ReturnToCaller, history
  <2>8. ReadStore!ServeRead(pending[2])
    BY <1>1, <1>4, <2>2, <2>7 DEF ReadStore!ServeRead
  <2>9. QED
    BY <2>1, <2>8 DEF ReadStore!Next, ReadStore!Serve
<1>5. CASE Shipped /\ MarkDirty
  <2>1. MayWrite
    BY <1>5, CallerTop DEF MarkDirty, At, CallerLabels, IInv, CallerFrame
  <2>2. QED
    BY <1>5, <2>1 DEF Shipped, MayWrite
<1>6. QED
  BY <1>2, <1>3, <1>4, <1>5, RequestMoves

(* The safety part of ReadsImplementStore: what the shipped kernel reads   *)
(* through the cache is what the disk image holds at the address it asked  *)
(* for, whatever was evicted and whichever ticks came in between.  (That   *)
(* every request is answered, its fairness part, is left to TLC.)          *)
THEOREM ReadsRefineStore ==
  ASSUME \A u \in Uses : SafeUse(u)
  PROVE  Spec => ReadStore!Init /\ [][ReadStore!Next]_(ReadStore!vars)
<1>1. Init => ReadStore!Init
  BY StoreInit
<1>2. IInv /\ [Next]_vars => [ReadStore!Next]_(ReadStore!vars)
  BY StoreStep
<1>3. QED
  BY <1>1, <1>2, Invariant, PTL DEF Spec

=============================================================================
