------------------------------ MODULE L1Cache ------------------------------
(***************************************************************************)
(* NEMU's data cache (nemu/src/memory/mmu/cache.c): set associative, one   *)
(* valid bit a line, random replacement, write through, no allocation on a *)
(* write.  paddr_read and paddr_write go through it when CACHE_ENABLED is  *)
(* defined and HAS_DEVICE_VGA is not.  The other readers of hw_mem (the    *)
(* page walk, the segment and the gate descriptors) bypass it.             *)
(*                                                                         *)
(* An access of up to LineSize bytes may touch two lines.  Bytes are kept  *)
(* one by one, so the shifts that split and join a word are the choice of  *)
(* the bytes below and above the line's end.                               *)
(***************************************************************************)
EXTENDS Integers, FiniteSets

CONSTANTS
  LineSize,   \* 64 in the code
  NrSets,     \* 128
  NrWays,     \* 8
  NrBlocks,   \* memory size in lines
  Lens,       \* the lengths of accesses, {1, 2, 4}
  Byte,       \* the values of a byte
  Written     \* the addresses that writes reach, a bound for model checking

ASSUME CacheAssumption ==
  /\ LineSize \in Nat \ {0} /\ NrSets \in Nat \ {0} /\ NrWays \in Nat \ {0}
  /\ NrBlocks \in Nat \ {0}
  /\ Lens \subseteq 1 .. LineSize
  /\ 0 \in Byte
  /\ Written \subseteq 0 .. NrBlocks * LineSize - 1

VARIABLES hw_mem, cache, reply

vars == <<hw_mem, cache, reply>>

MemAddr == 0 .. NrBlocks * LineSize - 1
Sets    == 0 .. NrSets - 1
Ways    == 0 .. NrWays - 1
Offsets == 0 .. LineSize - 1

Offset(a) == a % LineSize
Index(a)  == (a \div LineSize) % NrSets
Tag(a)    == a \div (LineSize * NrSets)

Contained(a, len) == Offset(a) + len <= LineSize

Reads  == {acc \in MemAddr \X Lens : acc[1] + acc[2] - 1 \in MemAddr}
Writes == {acc \in Reads : acc[1] .. acc[1] + acc[2] - 1 \subseteq Written}

(* init_mem clears the memory.                                             *)
Cleared == [a \in MemAddr |-> 0]

Flat == INSTANCE FlatMemory WITH flat <- hw_mem, Initial <- Cleared

Hits(c, a) == {w \in Ways : c[Index(a)][w].valid /\ c[Index(a)][w].tag = Tag(a)}
Hit(c, a)  == Hits(c, a) # {}
Way(c, a)  == CHOOSE w \in Hits(c, a) : \A v \in Hits(c, a) : w <= v

Line(c, a) == c[Index(a)][Way(c, a)]

(* init_cache.                                                             *)
Init ==
  /\ hw_mem = Cleared
  /\ cache = [s \in Sets |-> [w \in Ways |->
                [valid |-> FALSE, tag |-> 0, content |-> [o \in Offsets |-> 0]]]]
  /\ reply = <<>>

(* Mutant of Updated: a write goes around the cache.                       *)
Updated_Around(c, a, len, data) == c

(* cache_write for bytes of one line: a hit updates the line.              *)
Updated(c, a, len, data) ==
  IF Hit(c, a)
  THEN [c EXCEPT ![Index(a)][Way(c, a)].content =
          [o \in Offsets |-> IF o \in Offset(a) .. Offset(a) + len - 1
                             THEN data[o - Offset(a)] ELSE @[o]]]
  ELSE c

(* cache_write: memory first, then the line of the first byte, and only if *)
(* that one is cached the next line.                                       *)
AfterWrite(c, a, len, data) ==
  LET low  == LineSize - Offset(a)
      rest == [i \in 0 .. len - low - 1 |-> data[i + low]]
  IN IF Contained(a, len) \/ ~Hit(c, a) THEN Updated(c, a, len, data)
     ELSE Updated(Updated(c, a, low, data), a + low, len - low, rest)

cache_write(a, len, data) ==
  /\ hw_mem' = Flat!Stored(hw_mem, a, len, data)
  /\ cache' = AfterWrite(cache, a, len, data)
  /\ UNCHANGED reply

(* The way a refill may take: the last empty one, or a random one.         *)
Victims(a) ==
  LET empty == {w \in Ways : ~cache[Index(a)][w].valid}
  IN IF empty = {} THEN Ways
     ELSE {w \in empty : \A v \in empty : v <= w}

(* The line of a is brought in.                                            *)
Refill(a) ==
  \E w \in Victims(a) :
    cache' = [cache EXCEPT ![Index(a)][w] =
                [valid |-> TRUE, tag |-> Tag(a),
                 content |-> Flat!BytesAt(hw_mem, a - Offset(a), LineSize)]]

(* Mutant of Cached: the bytes are taken from the start of the line.       *)
Cached_NoOffset(a, i) == Line(cache, a).content[i]

(* cache_read of bytes of one line.                                        *)
Cached(a, i) == Line(cache, a).content[Offset(a) + i]

ReadOne(a) ==
  IF Hit(cache, a)
  THEN UNCHANGED cache
  ELSE Refill(a)

Fetched(a, i) == IF Hit(cache, a) THEN Cached(a, i) ELSE hw_mem[a + i]

(* cache_read: a missing first line is refilled and memory has all the     *)
(* bytes; otherwise the bytes past the line's end are read on their own.   *)
cache_read(a, len) ==
  LET low == LineSize - Offset(a) IN
  IF Contained(a, len) \/ ~Hit(cache, a)
  THEN /\ ReadOne(a)
       /\ reply' = [i \in 0 .. len - 1 |-> Fetched(a, i)]
       /\ UNCHANGED hw_mem
  ELSE /\ ReadOne(a + low)
       /\ reply' = [i \in 0 .. len - 1 |->
                      IF i < low THEN Cached(a, i) ELSE Fetched(a + low, i - low)]
       /\ UNCHANGED hw_mem

Read == \E acc \in Reads : cache_read(acc[1], acc[2])

Write(allowed) ==
  \E acc \in allowed : \E data \in [0 .. acc[2] - 1 -> Byte] :
    cache_write(acc[1], acc[2], data)

Next == Read \/ Write(Writes)

Spec == Init /\ [][Next]_vars

(* cache_write looks for the first line only: of a write that crosses from *)
(* a line that is not cached into one that is, the second line keeps the   *)
(* old bytes.  Whoever uses the cache must not make one; nothing in NEMU   *)
(* keeps a guest from it.  KeptSpec is Spec without these writes.          *)
LeavesStale(a, len) ==
  ~Contained(a, len) /\ ~Hit(cache, a) /\ Hit(cache, a + LineSize - Offset(a))

KeptNext == Read \/ Write({acc \in Writes : ~LeavesStale(acc[1], acc[2])})

KeptSpec == Init /\ [][KeptNext]_vars

-----------------------------------------------------------------------------
Tags == 0 .. (NrBlocks - 1) \div NrSets

TypeOK ==
  /\ hw_mem \in [MemAddr -> Byte]
  /\ cache \in [Sets -> [Ways -> [valid : BOOLEAN, tag : Tags,
                                  content : [Offsets -> Byte]]]]
  /\ reply = <<>> \/ \E len \in Lens : reply \in [0 .. len - 1 -> Byte]

OneCopy == \A a \in MemAddr : Cardinality(Hits(cache, a)) <= 1

(* Write through: a valid line holds the bytes that memory holds, which    *)
(* the page walk and the descriptor reads take straight from hw_mem.  A    *)
(* block is in at most one way: the scan of cache_write stops at the first *)
(* match and would leave a second copy stale.                              *)
Coherent ==
  /\ TypeOK /\ OneCopy
  /\ \A a \in MemAddr, w \in Ways :
       w \in Hits(cache, a) =>
         cache[Index(a)][w].content[Offset(a)] = hw_mem[a]

(* Reads through the cache return what a flat memory would, also when they *)
(* or the writes before them cross the end of a line.                      *)
ImplementsFlatMemory == Flat!Spec
=============================================================================
