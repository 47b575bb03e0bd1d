----------------------------- MODULE FlatMemory -----------------------------
(***************************************************************************)
(* What paddr_read and paddr_write (nemu/src/memory/memory.c) promise: a   *)
(* flat byte memory in which a read returns the bytes last written.        *)
(***************************************************************************)
EXTENDS Integers

CONSTANTS MemAddr, Byte, Initial, Reads, Writes

VARIABLES flat, reply

(* The bytes of m at a, a + 1, ..., the lowest address first.              *)
BytesAt(m, a, len) == [i \in 0 .. len - 1 |-> m[a + i]]

Stored(m, a, len, data) ==
  [b \in DOMAIN m |-> IF b \in a .. a + len - 1 THEN data[b - a] ELSE m[b]]

Init == flat = Initial /\ reply = <<>>

Read(a, len) == reply' = BytesAt(flat, a, len) /\ UNCHANGED flat

Write(a, len, data) ==
  /\ flat' = Stored(flat, a, len, data)
  /\ UNCHANGED reply

Next ==
  \/ \E acc \in Reads : Read(acc[1], acc[2])
  \/ \E acc \in Writes : \E data \in [0 .. acc[2] - 1 -> Byte] :
       Write(acc[1], acc[2], data)

Spec == Init /\ [][Next]_<<flat, reply>>
=============================================================================
