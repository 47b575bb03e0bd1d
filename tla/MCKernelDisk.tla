---------------------------- MODULE MCKernelDisk ----------------------------
(***************************************************************************)
(* Instances of KernelDisk: the reads of the shipped kernel, the same with *)
(* system calls and with handlers that interrupt handlers, and the reads   *)
(* and writes that the driver exports, with ticks anywhere in them that do *)
(* not make a write-back meet a transfer.  Sectors 0 and 2 share an entry. *)
(***************************************************************************)
EXTENDS KernelDisk

DiskIrqs == {TIMER_IRQ, IDE_IRQ}

SomeAddrs == {<<0, 0>>, <<1, 1>>, <<2, 0>>}

ShippedUse == [ops |-> {"read"}, asked |-> Addrs, callers |-> {"kernel"},
               preempt |-> "driver"]
NestedUse  == [ops |-> {"read"}, asked |-> SomeAddrs, callers |-> {"kernel", "syscall"},
               preempt |-> "handler"]
ExportedUse == [ops |-> {"read", "write"}, asked |-> SomeAddrs,
                callers |-> {"kernel"}, preempt |-> "quiet"]

AllUses      == {ShippedUse, NestedUse, ExportedUse}
ExportedUses == {ExportedUse}
=============================================================================
