----------------------------- MODULE ByteStore -----------------------------
(***************************************************************************)
(* What the IDE driver promises to its caller (read_byte and write_byte in *)
(* kernel/src/driver/ide/cache.c): a disk that answers one request at a    *)
(* time, a read with the last data written to the address, or with the     *)
(* image's own data when there is none.                                    *)
(***************************************************************************)
CONSTANTS
  Addrs,      \* the addresses a caller may name
  InitStore,  \* the data of the disk image at each address
  Written,    \* the data callers write
  NoRequest

VARIABLES
  store,      \* the data at each address
  pending,    \* the request being served, or NoRequest
  reply       \* what the last read returned

vars == <<store, pending, reply>>

Init ==
  /\ store = InitStore
  /\ pending = NoRequest
  /\ reply = NoRequest

Request(op, a) ==
  /\ pending = NoRequest
  /\ pending' = <<op, a>>
  /\ UNCHANGED <<store, reply>>

ServeRead(a) ==
  /\ pending = <<"read", a>>
  /\ reply' = store[a]
  /\ pending' = NoRequest
  /\ UNCHANGED store

ServeWrite(a) ==
  /\ pending = <<"write", a>>
  /\ store' = [store EXCEPT ![a] = Written]
  /\ pending' = NoRequest
  /\ UNCHANGED reply

Serve == \E a \in Addrs : ServeRead(a) \/ ServeWrite(a)

Next == Serve \/ \E op \in {"read", "write"}, a \in Addrs : Request(op, a)

(* Every request is answered.                                              *)
Spec == Init /\ [][Next]_vars /\ WF_vars(Serve)
=============================================================================
