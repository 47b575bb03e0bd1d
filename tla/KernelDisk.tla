----------------------------- MODULE KernelDisk -----------------------------
(***************************************************************************)
(* The kernel's disk driver (kernel/src/driver/ide: ide.c, cache.c, disk.c)*)
(* running on NEMU: the sector cache, the transfer of a sector through the *)
(* IDE ports, the wait for IRQ 14, and the timer handler that writes dirty *)
(* sectors back every WRITEBACK_TIME * HZ ticks.                           *)
(*                                                                         *)
(* One CPU runs everything.  `stack` holds the code it is in: the caller   *)
(* of the driver at the bottom, and above it a frame for each interrupt    *)
(* that is being handled.  A turn of exec()'s loop is an instruction of    *)
(* the topmost frame (unless the CPU is halted), then the devices' turn,   *)
(* then the delivery of a pending interrupt.  The kernel is compiled       *)
(* without optimisation, so each access of a C statement to memory that a  *)
(* handler shares, and each port access, is a step of its own.             *)
(***************************************************************************)
EXTENDS IdeDevice, Sequences

CONSTANTS
  NrSecCache,   \* NR_SEC_CACHE, 128 in the code
  TicksPerSync, \* WRITEBACK_TIME * HZ, 100 in the code
  CounterMod,   \* 2^32 in the code: the width of `counter`
  Uses,         \* the ways the driver is used, one of them in each behaviour
  MaxDepth,     \* bound: the caller and the handlers nested over it
  Written, NoRequest

ASSUME DriverAssumption ==
  /\ NrSecCache \in Nat \ {0}
  /\ TicksPerSync \in Nat \ {0}
  /\ CounterMod \in Nat /\ CounterMod > TicksPerSync
  /\ Uses \subseteq [ops : SUBSET {"read", "write"},  \* the calls that are made,
                     asked : SUBSET (Sectors \X Words), \* the addresses they name,
                     callers : SUBSET {"kernel", "syscall"}, \* who makes them,
                     preempt : {"quiet", "driver", "handler"}] \* where ticks arrive
  /\ MaxDepth \in Nat /\ MaxDepth >= 2
  /\ {TIMER_IRQ, IDE_IRQ} \subseteq Irqs

(* The data the callers write are none of the image's, and no request is   *)
(* no request.                                                             *)
ASSUME TokensAssumption ==
  /\ \A s \in Sectors, w \in Words : DiskWord(s, w) # Written
  /\ NoRequest \notin {"read", "write"} \X (Sectors \X Words)

VARIABLES
  use,           \* the use of the driver, which does not change
  i8259_intr_no, \* the pending interrupt
  is_nemu_hlt,
  IF_,           \* cpu.eflags.IF
  phase,         \* where exec()'s loop is: "inst", "devices" or "intr"
  stack,         \* the frames, the running one last
  ran,           \* the caller has executed an instruction since the last tick
  has_ide_intr,
  counter,       \* ide_writeback's static counter
  cache,         \* the sector cache
  pending,       \* the caller's request
  reply,         \* what the last read returned
  latest,        \* history: the data the callers believe is stored
  sent           \* history: the addresses whose latest data the device got

driver == <<has_ide_intr, counter, cache>>
history == <<latest, sent>>
caller == <<pending, reply, history>>
loop   == <<i8259_intr_no, is_nemu_hlt, IF_, phase, ran>>
vars   == <<use, device, driver, caller, loop, stack>>

Entries == 0 .. NrSecCache - 1
Addrs   == Sectors \X Words
Slot(s) == s % NrSecCache

ImageWord == [a \in Addrs |-> DiskWord(a[1], a[2])]
Data      == {ImageWord[a] : a \in Addrs} \cup {Written}
BssWord   == 0   \* the cache starts in zeroed memory

top   == stack[Len(stack)]
At(label) == top.pc = label

Frame(label, if_) == [pc |-> label, e |-> 0, w |-> 0, sec |-> 0, r |-> 0,
                      port |-> 1, ret |-> "idle", IF_ |-> if_]

Init ==
  /\ use \in Uses
  /\ DeviceInit
  /\ i8259_intr_no = I8259_NO_INTR
  /\ is_nemu_hlt = FALSE
  /\ IF_ = TRUE              \* init_idt ends with sti
  /\ phase = "inst"
  /\ stack = <<Frame("idle", TRUE)>>
  /\ ran = TRUE
  /\ has_ide_intr = 0
  /\ counter = 0
  /\ cache = [e \in Entries |-> [sector |-> 0, used |-> FALSE, dirty |-> FALSE,
                                 content |-> [w \in Words |-> BssWord]]]
  /\ pending = NoRequest
  /\ reply = NoRequest
  /\ latest = ImageWord
  /\ sent = {}

-----------------------------------------------------------------------------
(* Instructions.  Each is an action of the running frame; Become and Goto  *)
(* give its next frame.                                                    *)
Become(frame) == stack' = [stack EXCEPT ![Len(stack)] = frame]
Goto(label)   == Become([top EXCEPT !.pc = label])

(* Call disk_do_write or disk_do_read for entry e and the given sector.    *)
CallDisk(label, e, sec, ret) ==
  Become([top EXCEPT !.pc = label, !.e = e, !.sec = sec, !.w = 0, !.ret = ret])

SetEntry(e, entry) == cache' = [cache EXCEPT ![e] = entry]

Entry == cache[Slot(pending[2][1])]     \* the entry cache_fetch works on

(* A call of read_byte or write_byte.  A system call comes through a trap  *)
(* gate, an interrupt that is not an external one.                         *)
CallDriver ==
  /\ At("idle")
  /\ \E op \in use.ops, a \in use.asked, by \in use.callers :
       /\ pending' = <<op, a>>
       /\ IF_' = IF by = "syscall" THEN IFAfterGate(128, IF_) ELSE IF_
  /\ Goto("lookup")
  /\ UNCHANGED <<device, driver, reply, history, i8259_intr_no, is_nemu_hlt>>

(* The caller computes without the driver.                                 *)
CallerIdles ==
  /\ At("idle")
  /\ UNCHANGED <<device, driver, caller, i8259_intr_no, is_nemu_hlt, IF_, stack>>

(* Mutants of CacheLookup: any used entry is a hit; a dirty entry is       *)
(* replaced without being written back.                                    *)
CacheLookup_AnySector ==
  /\ At("lookup")
  /\ LET s == pending[2][1] IN
       IF Entry.used THEN Goto("use")
       ELSE CallDisk("refill", Slot(s), s, "set_used")
  /\ UNCHANGED <<device, driver, caller, i8259_intr_no, is_nemu_hlt, IF_>>

CacheLookup_NoWriteBack ==
  /\ At("lookup")
  /\ LET s == pending[2][1] IN
       IF Entry.used /\ Entry.sector = s THEN Goto("use")
       ELSE CallDisk("refill", Slot(s), s, "set_used")
  /\ UNCHANGED <<device, driver, caller, i8259_intr_no, is_nemu_hlt, IF_>>

(* cache_fetch: a hit, an eviction with or without write-back, and the     *)
(* three stores that end a refill.                                         *)
CacheLookup ==
  /\ At("lookup")
  /\ LET s == pending[2][1] IN
       IF Entry.used /\ Entry.sector = s THEN Goto("use")
       ELSE IF Entry.used /\ Entry.dirty
            THEN CallDisk("w_waitdisk", Slot(s), Entry.sector, "refill")
            ELSE CallDisk("refill", Slot(s), s, "set_used")
  /\ UNCHANGED <<device, driver, caller, i8259_intr_no, is_nemu_hlt, IF_>>

SetUsed ==
  /\ At("set_used")
  /\ SetEntry(top.e, [cache[top.e] EXCEPT !.used = TRUE])
  /\ Goto("set_sector")
  /\ UNCHANGED <<device, has_ide_intr, counter, caller, i8259_intr_no,
                 is_nemu_hlt, IF_>>

(* Mutant of SetSector: the entry keeps the number of the evicted sector.  *)
SetSector_Forgotten ==
  /\ At("set_sector")
  /\ Goto("set_clean")
  /\ UNCHANGED <<device, driver, caller, i8259_intr_no, is_nemu_hlt, IF_>>

SetSector ==
  /\ At("set_sector")
  /\ SetEntry(top.e, [cache[top.e] EXCEPT !.sector = pending[2][1]])
  /\ Goto("set_clean")
  /\ UNCHANGED <<device, has_ide_intr, counter, caller, i8259_intr_no,
                 is_nemu_hlt, IF_>>

SetClean ==
  /\ At("set_clean")
  /\ SetEntry(top.e, [cache[top.e] EXCEPT !.dirty = FALSE])
  /\ Goto("use")
  /\ UNCHANGED <<device, has_ide_intr, counter, caller, i8259_intr_no,
                 is_nemu_hlt, IF_>>

(* The end of read_byte or write_byte; iret from a system call restores IF.*)
ReturnToCaller ==
  /\ pending' = NoRequest
  /\ IF_' = top.IF_
  /\ Become(Frame("idle", top.IF_))

ReadByte ==
  /\ At("use") /\ pending[1] = "read"
  /\ reply' = Entry.content[pending[2][2]]
  /\ ReturnToCaller
  /\ UNCHANGED <<device, driver, history, i8259_intr_no, is_nemu_hlt>>

(* write_byte stores the data, then marks the entry dirty.                 *)
WriteByte ==
  /\ At("use") /\ pending[1] = "write"
  /\ SetEntry(Slot(pending[2][1]),
              [Entry EXCEPT !.content[pending[2][2]] = Written])
  /\ Goto("mark_dirty")
  /\ UNCHANGED <<device, has_ide_intr, counter, caller, i8259_intr_no,
                 is_nemu_hlt, IF_>>

MarkDirty ==
  /\ At("mark_dirty")
  /\ SetEntry(Slot(pending[2][1]), [Entry EXCEPT !.dirty = TRUE])
  /\ latest' = [latest EXCEPT ![pending[2]] = Written]
  /\ sent' = sent \ {pending[2]}
  /\ ReturnToCaller
  /\ UNCHANGED <<device, has_ide_intr, counter, reply, i8259_intr_no,
                 is_nemu_hlt>>

-----------------------------------------------------------------------------
(* disk_do_read.                                                           *)
ClearIdeIntr ==
  /\ At("refill")
  /\ has_ide_intr' = 0
  /\ CallDisk("r_waitdisk", Slot(pending[2][1]), pending[2][1], "set_used")
  /\ UNCHANGED <<device, counter, cache, caller, i8259_intr_no, is_nemu_hlt,
                 IF_>>

(* waitdisk, at the start of ide_prepare, spins on the status port.        *)
WaitDisk ==
  /\ At("r_waitdisk") \/ At("w_waitdisk")
  /\ IF DeviceReady
     THEN Become([top EXCEPT !.port = 1,
                    !.pc = IF At("r_waitdisk") THEN "r_ports" ELSE "w_ports"])
     ELSE UNCHANGED stack
  /\ UNCHANGED <<device, driver, caller, i8259_intr_no, is_nemu_hlt, IF_>>

(* ide_prepare writes ports 1 to 6, one after the other.                   *)
IdePrepare ==
  /\ At("r_ports") \/ At("w_ports")
  /\ OutPort(top.port, top.sec)
  /\ IF top.port < 6
     THEN Become([top EXCEPT !.port = @ + 1])
     ELSE Become([top EXCEPT !.port = 1,
                    !.pc = IF At("r_ports") THEN "issue_read" ELSE "issue_write"])
  /\ UNCHANGED <<driver, caller, i8259_intr_no, is_nemu_hlt, IF_>>

IssueRead ==
  /\ At("issue_read")
  /\ OutReadCommand
  /\ i8259_intr_no' = SlotAfterRaise(i8259_intr_no, IDE_IRQ)
  /\ Goto("wait_ide_intr")
  /\ UNCHANGED <<driver, caller, is_nemu_hlt, IF_>>

(* wait_ide_intr: test, halt, test again.                                  *)
WaitIdeIntr ==
  /\ At("wait_ide_intr")
  /\ Goto(IF has_ide_intr = 0 THEN "wait_intr" ELSE "clear_ide_intr")
  /\ UNCHANGED <<device, driver, caller, i8259_intr_no, is_nemu_hlt, IF_>>

WaitIntr ==
  /\ At("wait_intr")
  /\ is_nemu_hlt' = TRUE
  /\ Goto("wait_ide_intr")
  /\ UNCHANGED <<device, driver, caller, i8259_intr_no, IF_>>

IdeIntrSeen ==
  /\ At("clear_ide_intr")
  /\ has_ide_intr' = 0
  /\ Goto("in_long")
  /\ UNCHANGED <<device, counter, cache, caller, i8259_intr_no, is_nemu_hlt,
                 IF_>>

NextWord ==
  Become(IF top.w + 1 < NrWords THEN [top EXCEPT !.w = @ + 1]
         ELSE [top EXCEPT !.pc = top.ret, !.w = 0, !.sec = 0, !.ret = "idle"])

InLong ==
  /\ At("in_long")
  /\ \/ /\ DataPortAsserts(FALSE)
        /\ InWord
        /\ SetEntry(top.e, [cache[top.e] EXCEPT !.content[top.w] = file_pos])
        /\ NextWord
     \/ /\ ~DataPortAsserts(FALSE)
        /\ DeviceAbort
        /\ UNCHANGED <<cache, stack>>
  /\ UNCHANGED <<has_ide_intr, counter, caller, i8259_intr_no, is_nemu_hlt, IF_>>

(* disk_do_write.  It does not wait for an interrupt.                      *)
IssueWrite ==
  /\ At("issue_write")
  /\ OutWriteCommand
  /\ Goto("out_long")
  /\ UNCHANGED <<driver, caller, i8259_intr_no, is_nemu_hlt, IF_>>

OutLong ==
  /\ At("out_long")
  /\ \/ /\ DataPortAsserts(TRUE)
        /\ OutWord
        /\ sent' = IF cache[top.e].content[top.w] = Written
                   THEN sent \cup {<<file_pos \div NrWords, byte_cnt>>} ELSE sent
        /\ NextWord
     \/ /\ ~DataPortAsserts(TRUE)
        /\ DeviceAbort
        /\ UNCHANGED <<stack, sent>>
  /\ UNCHANGED <<driver, pending, reply, latest, i8259_intr_no, is_nemu_hlt, IF_>>

-----------------------------------------------------------------------------
(* ide_writeback, the handler of IRQ 0: counter++, the comparison, and the *)
(* scan of cache_writeback.                                                *)
LoadCounter ==
  /\ At("load_counter")
  /\ Become([top EXCEPT !.r = counter, !.pc = "store_counter"])
  /\ UNCHANGED <<device, driver, caller, i8259_intr_no, is_nemu_hlt, IF_>>

(* Mutant of StoreCounter: the counter is unbounded.                       *)
StoreCounter_NoWrap ==
  /\ At("store_counter")
  /\ counter' = top.r + 1
  /\ Goto("test_counter")
  /\ UNCHANGED <<device, has_ide_intr, cache, caller, i8259_intr_no,
                 is_nemu_hlt, IF_>>

StoreCounter ==
  /\ At("store_counter")
  /\ counter' = (top.r + 1) % CounterMod
  /\ Goto("test_counter")
  /\ UNCHANGED <<device, has_ide_intr, cache, caller, i8259_intr_no,
                 is_nemu_hlt, IF_>>

TestCounter ==
  /\ At("test_counter")
  /\ IF counter = TicksPerSync
     THEN Become([top EXCEPT !.pc = "scan", !.e = 0])
     ELSE Goto("iret")
  /\ UNCHANGED <<device, driver, caller, i8259_intr_no, is_nemu_hlt, IF_>>

ScanEntry ==
  /\ At("scan")
  /\ IF top.e = NrSecCache THEN Goto("reset_counter")
     ELSE IF cache[top.e].dirty
          THEN CallDisk("w_waitdisk", top.e, cache[top.e].sector, "clean")
          ELSE Become([top EXCEPT !.e = @ + 1])
  /\ UNCHANGED <<device, driver, caller, i8259_intr_no, is_nemu_hlt, IF_>>

CleanEntry ==
  /\ At("clean")
  /\ SetEntry(top.e, [cache[top.e] EXCEPT !.dirty = FALSE])
  /\ Become([top EXCEPT !.e = @ + 1, !.pc = "scan"])
  /\ UNCHANGED <<device, has_ide_intr, counter, caller, i8259_intr_no,
                 is_nemu_hlt, IF_>>

(* Mutant of ResetCounter: the counter is not reset.                       *)
ResetCounter_Missing ==
  /\ At("reset_counter")
  /\ Goto("iret")
  /\ UNCHANGED <<device, driver, caller, i8259_intr_no, is_nemu_hlt, IF_>>

ResetCounter ==
  /\ At("reset_counter")
  /\ counter' = 0
  /\ Goto("iret")
  /\ UNCHANGED <<device, has_ide_intr, cache, caller, i8259_intr_no,
                 is_nemu_hlt, IF_>>

(* ide_intr, the handler of IRQ 14.                                        *)
IdeIntr ==
  /\ At("ide_intr")
  /\ has_ide_intr' = 1
  /\ Goto("iret")
  /\ UNCHANGED <<device, counter, cache, caller, i8259_intr_no, is_nemu_hlt,
                 IF_>>

Iret ==
  /\ At("iret")
  /\ stack' = SubSeq(stack, 1, Len(stack) - 1)
  /\ IF_' = top.IF_
  /\ UNCHANGED <<device, driver, caller, i8259_intr_no, is_nemu_hlt>>

-----------------------------------------------------------------------------
CallerStep ==
  \/ CacheLookup \/ SetUsed \/ SetSector \/ SetClean \/ ReadByte \/ WriteByte
  \/ MarkDirty \/ ClearIdeIntr \/ IssueRead \/ WaitIdeIntr \/ WaitIntr
  \/ IdeIntrSeen \/ InLong

DiskStep == WaitDisk \/ IdePrepare \/ IssueWrite \/ OutLong

HandlerStep ==
  \/ LoadCounter \/ StoreCounter \/ TestCounter \/ ScanEntry \/ CleanEntry
  \/ ResetCounter \/ IdeIntr \/ Iret

ExecInst ==
  /\ phase = "inst" /\ ~abort
  /\ ~is_nemu_hlt
  /\ CallDriver \/ CallerIdles \/ CallerStep \/ DiskStep \/ HandlerStep
  /\ phase' = "devices"
  /\ ran' = (ran \/ Len(stack) = 1)
  /\ UNCHANGED use

Halted ==
  /\ phase = "inst" /\ is_nemu_hlt
  /\ phase' = "devices"
  /\ UNCHANGED <<device, driver, caller, i8259_intr_no, is_nemu_hlt, IF_, ran,
                 stack, use>>

(* The caller is replacing an entry: it writes the evicted sector, reads   *)
(* the wanted one, or relabels the entry.                                  *)
RefillLabels == {"refill", "r_waitdisk", "r_ports", "issue_read", "wait_ide_intr",
                 "wait_intr", "clear_ide_intr", "in_long", "set_used",
                 "set_sector", "set_clean"}
WriteLabels  == {"w_waitdisk", "w_ports", "issue_write", "out_long"}
Replacing    == stack[1].pc \in RefillLabels \cup WriteLabels

(* The next tick is the one that makes ide_writeback write back.           *)
NextSyncs == counter + 1 = TicksPerSync

(* do_timer.  Between two ticks the caller gets at least one instruction.  *)
(* The use says what code a tick may interrupt: the caller and the driver  *)
(* anywhere but, "quiet", where it would make a write-back meet the        *)
(* caller's own transfer; anywhere, "driver"; the handlers too, "handler". *)
TickAllowed ==
  \/ /\ use.preempt = "quiet" /\ Len(stack) = 1 /\ ran
     /\ IF_ /\ Replacing => ~NextSyncs
  \/ use.preempt = "driver" /\ Len(stack) = 1 /\ ran
  \/ use.preempt = "handler" /\ Len(stack) < MaxDepth

TimerTick ==
  /\ phase = "devices" /\ ~abort
  /\ TickAllowed
  /\ i8259_intr_no' = SlotAfterRaise(i8259_intr_no, TIMER_IRQ)
  /\ ran' = FALSE
  /\ phase' = "intr"
  /\ UNCHANGED <<device, driver, caller, is_nemu_hlt, IF_, stack, use>>

NoTimerTick ==
  /\ phase = "devices" /\ ~abort
  /\ phase' = "intr"
  /\ UNCHANGED <<device, driver, caller, i8259_intr_no, is_nemu_hlt, IF_, ran,
                 stack, use>>

(* do_intr: the pending vector is acknowledged and its handler entered.    *)
(* (InterruptController shows that cpu.intr and the slot agree here.)      *)
DoIntr ==
  /\ phase = "intr"
  /\ IF i8259_intr_no # I8259_NO_INTR /\ IF_
     THEN /\ is_nemu_hlt' = FALSE
          /\ i8259_intr_no' = I8259_NO_INTR
          /\ IF_' = IFAfterGate(i8259_intr_no, IF_)
          /\ stack' = Append(stack, Frame(IF i8259_intr_no = IRQ_BASE + IDE_IRQ
                                          THEN "ide_intr" ELSE "load_counter",
                                          IF_))
     ELSE UNCHANGED <<is_nemu_hlt, i8259_intr_no, IF_, stack>>
  /\ phase' = "inst"
  /\ UNCHANGED <<device, driver, caller, ran, use>>

Next == ExecInst \/ Halted \/ TimerTick \/ NoTimerTick \/ DoIntr

Spec == Init /\ [][Next]_vars

(* exec() keeps looping; a caller that made a request does not idle.       *)
FairSpec == Spec /\ WF_vars(Next)

-----------------------------------------------------------------------------
FrameLabels ==
  {"idle", "lookup", "refill", "set_used", "set_sector", "set_clean", "use",
   "mark_dirty", "r_waitdisk", "r_ports", "issue_read", "wait_ide_intr",
   "wait_intr", "clear_ide_intr", "in_long", "w_waitdisk", "w_ports",
   "issue_write", "out_long", "load_counter", "store_counter", "test_counter",
   "scan", "clean", "reset_counter", "ide_intr", "iret"}

Frames == [pc : FrameLabels, e : 0 .. NrSecCache, w : 0 .. NrWords,
           sec : Sectors, r : 0 .. CounterMod - 1,
           port : Ports, ret : {"idle", "refill", "set_used", "clean"},
           IF_ : BOOLEAN]

TypeOK ==
  /\ use \in Uses
  /\ DeviceTypeOK
  /\ i8259_intr_no \in Slots
  /\ is_nemu_hlt \in BOOLEAN /\ IF_ \in BOOLEAN /\ ran \in BOOLEAN
  /\ phase \in {"inst", "devices", "intr"}
  /\ stack \in Seq(Frames) /\ Len(stack) \in 1 .. MaxDepth
  /\ has_ide_intr \in {0, 1}
  /\ counter \in 0 .. CounterMod - 1
  /\ cache \in [Entries -> [sector : Sectors, used : BOOLEAN, dirty : BOOLEAN,
                            content : [Words -> Data]]]
  /\ pending \in (use.ops \X Addrs) \cup {NoRequest}
  /\ reply \in Data \cup {NoRequest}
  /\ latest \in [Addrs -> Data]
  /\ sent \subseteq Addrs

(* handler_ide's assertions hold: the data port is only read after a read  *)
(* command, only written after a write command, and never past a sector.   *)
IdeAssertsHold == ~abort

(* The caller is between the start of a refill and its last store.         *)
Refilling(e) ==
  /\ pending # NoRequest /\ e = Slot(pending[2][1])
  /\ stack[1].pc \in RefillLabels

(* A cached sector holds the words of its own sector, or what callers have *)
(* written there: no interrupt between the port accesses of a refill makes *)
(* it fetch another sector or mix two of them.                             *)
CachedWordsBelong ==
  \A e \in Entries : cache[e].used /\ ~Refilling(e) =>
    \A w \in Words : cache[e].content[w] \in
                       {DiskWord(cache[e].sector, w), Written}

(* A completed write is never dropped: its data sits in a dirty entry of   *)
(* its sector until the device has been handed it for that very address.   *)
NoWriteDropped ==
  \A a \in Addrs : latest[a] = Written =>
    \/ a \in sent
    \/ LET c == cache[Slot(a[1])] IN
         c.used /\ c.dirty /\ c.sector = a[1] /\ c.content[a[2]] = Written

(* A read command's interrupt is not lost before wait_ide_intr has seen it:*)
(* it is pending, being handled, or noted in has_ide_intr.                 *)
IdeIntrNotLost ==
  stack[1].pc \in {"wait_ide_intr", "wait_intr"} =>
    \/ has_ide_intr = 1
    \/ i8259_intr_no = IRQ_BASE + IDE_IRQ
    \/ \E k \in 2 .. Len(stack) : stack[k].pc = "ide_intr"

(* ide.c's comment: "writeback cache for every 1 second".  Whenever no     *)
(* handler runs, the counter is still below the value that triggers the    *)
(* write-back; past it the equality test would only succeed again after    *)
(* the counter has wrapped.  Where handlers interrupt handlers it is not.  *)
WritebackKeepsPeriod ==
  Len(stack) = 1 /\ use.preempt # "handler" => counter < TicksPerSync

(* Every call of the driver by the kernel's own code returns.              *)
RequestServed ==
  (pending # NoRequest /\ use.callers = {"kernel"}) ~> pending = NoRequest

(* The driver implements the store it promises to its callers.             *)
Store == INSTANCE ByteStore WITH
  InitStore <- ImageWord, store <- latest

ImplementsStore == Store!Spec

(* What the shipped kernel does, which only reads, it gets from the store: *)
(* every other use shows the store nothing at all.                         *)
Shipped == use.ops = {"read"} /\ use.callers = {"kernel"}

ReadStore == INSTANCE ByteStore WITH
  InitStore <- ImageWord,
  store     <- IF Shipped THEN latest ELSE ImageWord,
  pending   <- IF Shipped THEN pending ELSE NoRequest,
  reply     <- IF Shipped THEN reply ELSE NoRequest

ReadsImplementStore == ReadStore!Spec
=============================================================================
