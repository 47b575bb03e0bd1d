------------------------------ MODULE LinkList ------------------------------
(***************************************************************************)
(* The list template of the games (game/include/adt/linklist.h): doubly    *)
(* linked nodes taken from a static pool of SIZE + 1, whose unused nodes   *)
(* are chained through _next from free_head.                               *)
(*                                                                         *)
(* A pool is a record: next and prev give the fields of every node, and    *)
(* free is free_head.                                                      *)
(***************************************************************************)
EXTENDS Integers, Sequences, FiniteSets

CONSTANT PoolSize         \* SIZE, 1000 for the letters of the typing game

ASSUME PoolAssumption == PoolSize \in Nat \ {0}

Nodes == 0 .. PoolSize    \* NAME##_pool has SIZE + 1 elements
NULL  == -1

Pools == [next : [Nodes -> Nodes \cup {NULL}],
          prev : [Nodes -> Nodes \cup {NULL}],
          free : Nodes \cup {NULL}]

(* Static data starts as zeroes.                                           *)
ZeroPool == [next |-> [n \in Nodes |-> NULL], prev |-> [n \in Nodes |-> NULL],
             free |-> NULL]

(* The first part of new(): an empty free list means a pool that was never *)
(* used, so all of it is chained.                                          *)
Chained(p) ==
  IF p.free # NULL THEN p
  ELSE [p EXCEPT !.next = [n \in Nodes |-> IF n < PoolSize THEN n + 1 ELSE @[n]],
                 !.free = 0]

(* The assertion of new(): the last free node is never handed out.         *)
NewAsserts(p) == Chained(p).next[Chained(p).free] # NULL

NewNode(p) == Chained(p).free

AfterNew(p) ==
  LET c == Chained(p) IN
    [next |-> [c.next EXCEPT ![c.free] = NULL],
     prev |-> [c.prev EXCEPT ![c.free] = NULL],
     free |-> c.next[c.free]]

(* Store a pointer in a field of node n, unless n is NULL.                 *)
Point(field, n, to) == IF n = NULL THEN field ELSE [field EXCEPT ![n] = to]

AfterInsert(p, before, after, obj) ==
  [p EXCEPT !.next = Point([@ EXCEPT ![obj] = after], before, obj),
            !.prev = Point([@ EXCEPT ![obj] = before], after, obj)]

(* Mutant of AfterRemove: the following node keeps its _prev.              *)
AfterRemove_OneWay(p, n) == [p EXCEPT !.next = Point(@, p.prev[n], p.next[n])]

AfterRemove(p, n) ==
  [p EXCEPT !.next = Point(@, p.prev[n], p.next[n]),
            !.prev = Point(@, p.next[n], p.prev[n])]

(* new() sets the _prev of a free node before anyone reads it, so it is    *)
(* not kept.                                                               *)
AfterFree(p, n) == [next |-> [p.next EXCEPT ![n] = p.free],
                    prev |-> [p.prev EXCEPT ![n] = NULL],
                    free |-> n]

-----------------------------------------------------------------------------
(* The nodes that _next leads to from `start`, step by step; the walk stays *)
(* at NULL once it is there.                                               *)
Following(p, n) == IF n = NULL THEN NULL ELSE p.next[n]

Walk(p, start) ==
  LET node[k \in 0 .. PoolSize + 1] ==
        IF k = 0 THEN start ELSE Following(p, node[k - 1])
  IN  node

(* The chain of nodes that starts at `start`, as a sequence.  A chain that *)
(* has not ended after all the nodes is cut: it runs in a circle.          *)
Chain(p, start) ==
  LET steps == {k \in 0 .. PoolSize + 1 : Walk(p, start)[k] # NULL}
  IN  [k \in 1 .. Cardinality(steps) |-> Walk(p, start)[k - 1]]

On(p, start) == LET c == Chain(p, start) IN {c[i] : i \in DOMAIN c}

(* What every user of a list relies on: list and free list end, share no   *)
(* node and together hold the whole pool (once it is in use), and _prev is *)
(* the converse of _next along the list.                                   *)
PoolSound(p, head) ==
  LET used   == Chain(p, head)
      unused == Chain(p, p.free)
      Of(c)  == {c[i] : i \in DOMAIN c}
  IN  /\ Len(used) <= PoolSize + 1 /\ Len(unused) <= PoolSize + 1
      /\ Of(used) \cap Of(unused) = {}
      /\ p.free # NULL => Of(used) \cup Of(unused) = Nodes
      /\ \A i \in DOMAIN used : p.prev[used[i]] = IF i = 1 THEN NULL ELSE used[i - 1]
=============================================================================
