--------------------------- MODULE L1CacheProofs ---------------------------
(***************************************************************************)
(* Proofs about the data cache, for every geometry, length of access and   *)
(* memory content, and for every behaviour without the one kind of write   *)
(* that cache_write gets wrong (LeavesStale): a write that crosses from a  *)
(* line that is not cached into one that is.                               *)
(*                                                                         *)
(* The properties speak of addresses, the code of sets, ways and offsets:  *)
(* the first part shows that an address is its tag, set and offset and     *)
(* nothing else (Positions, SameLine).  IInv then says of every valid line *)
(* that it holds the block that its tag and set name.  That is inductive   *)
(* only with OneWay: a write updates the first way that matches, and a     *)
(* second copy would keep the old bytes.  Both are stated of any memory m  *)
(* and cache c, because a write that crosses a line is two updates.        *)
(***************************************************************************)
EXTENDS L1Cache, FiniteSetTheorems, TLAPS

(* Quotient and remainder.                                                 *)
LEMMA DivMod ==
  ASSUME NEW x \in Nat, NEW n \in Nat \ {0}
  PROVE  /\ x \div n \in Nat /\ x % n \in 0 .. n - 1
         /\ x = n * (x \div n) + (x % n)
  OBVIOUS

(* Multiples of n lie n apart.                                             *)
LEMMA Times ==
  ASSUME NEW n \in Nat, NEW p \in Int, NEW q \in Int, p < q
  PROVE  n * p + n <= n * q
<1>1. n * (p + 1) <= n * q
  OBVIOUS
<1> QED BY <1>1

(* A product over a sum.                                                   *)
LEMMA Distribute ==
  ASSUME NEW x \in Nat, NEW y \in Nat, NEW z \in Nat, NEW w \in Nat
  PROVE  x * (y * z + w) = (x * y) * z + x * w
  OBVIOUS

(* A number has one quotient and one remainder.                            *)
LEMMA UniqueQuotient ==
  ASSUME NEW n \in Nat \ {0}, NEW p \in Nat, NEW q \in Nat,
         NEW r \in 0 .. n - 1, NEW s \in 0 .. n - 1,
         n * p + r = n * q + s
  PROVE  p = q /\ r = s
<1>0. n * p \in Nat /\ n * q \in Nat
  OBVIOUS
<1>1. CASE p < q
  <2>1. n * p + n <= n * q
    BY <1>1, Times
  <2> QED BY <1>0, <2>1
<1>2. CASE q < p
  <2>1. n * q + n <= n * p
    BY <1>2, Times
  <2> QED BY <1>0, <2>1
<1>3. CASE p = q
  BY <1>0, <1>3
<1> QED BY <1>1, <1>2, <1>3

-----------------------------------------------------------------------------
(* The block and the address that a tag, a set and an offset name.         *)
Block(t, s) == NrSets * t + s
Addr(t, s, o) == LineSize * Block(t, s) + o

(* An address is split into tag, set and offset, as cache.c's bit fields   *)
(* split it, and is made of them.                                          *)
LEMMA Positions ==
  ASSUME NEW a \in MemAddr
  PROVE  /\ a \in Nat /\ Offset(a) \in Offsets /\ Index(a) \in Sets /\ Tag(a) \in Nat
         /\ a \div LineSize = Block(Tag(a), Index(a))
         /\ a = Addr(Tag(a), Index(a), Offset(a))
<1> DEFINE blk == a \div LineSize
           t == blk \div NrSets
           s == blk % NrSets
           o == a % LineSize
<1>1. a \in Nat /\ LineSize \in Nat \ {0} /\ NrSets \in Nat \ {0}
  BY CacheAssumption DEF MemAddr
<1>2. blk \in Nat /\ o \in 0 .. LineSize - 1 /\ a = LineSize * blk + o
  BY <1>1, DivMod
<1>3. t \in Nat /\ s \in 0 .. NrSets - 1 /\ blk = NrSets * t + s
  BY <1>1, <1>2, DivMod
<1>4. Tag(a) = t
  <2> DEFINE n == LineSize * NrSets
             r == LineSize * s + o
  <2>1. LineSize * s + LineSize <= n
    BY <1>1, <1>3, Times
  <2>2. n \in Nat \ {0} /\ LineSize * s \in Nat
    BY <1>1, <1>3
  <2>3. r \in 0 .. n - 1
    BY <1>1, <1>2, <2>1, <2>2
  <2>4. LineSize * (NrSets * t + s) = n * t + LineSize * s
    <3> HIDE DEF t, s
    <3> QED BY <1>1, <1>3, Distribute
  <2>5. n * t \in Nat
    BY <2>2, <1>3
  <2>6. a = n * t + r
    BY <1>1, <1>2, <1>3, <2>2, <2>4, <2>5
  <2>7. a \div n \in Nat /\ a % n \in 0 .. n - 1 /\ a = n * (a \div n) + (a % n)
    BY <1>1, <2>2, DivMod
  <2> HIDE DEF n, r, t, s, o, blk
  <2>8. t = a \div n
    BY <1>3, <2>2, <2>3, <2>6, <2>7, UniqueQuotient
  <2> QED BY <2>8 DEF Tag, n
<1>5. Offset(a) = o /\ Index(a) = s
  BY DEF Offset, Index
<1> QED BY <1>1, <1>2, <1>3, <1>4, <1>5 DEF Addr, Block, Offsets, Sets

(* Different tags, sets or offsets are different addresses.                *)
LEMMA SameLine ==
  ASSUME NEW t \in Nat, NEW s \in Sets, NEW o \in Offsets,
         NEW u \in Nat, NEW v \in Sets, NEW p \in Offsets,
         Addr(t, s, o) = Addr(u, v, p)
  PROVE  t = u /\ s = v /\ o = p
<1>1. LineSize \in Nat \ {0} /\ NrSets \in Nat \ {0}
  BY CacheAssumption
<1>2. Block(t, s) \in Nat /\ Block(u, v) \in Nat
  BY <1>1 DEF Block, Sets
<1>3. Block(t, s) = Block(u, v) /\ o = p
  <2>1. o \in 0 .. LineSize - 1 /\ p \in 0 .. LineSize - 1
    BY DEF Offsets
  <2>2. LineSize * Block(t, s) + o = LineSize * Block(u, v) + p
    BY DEF Addr
  <2> HIDE DEF Block
  <2> QED BY <1>1, <1>2, <2>1, <2>2, UniqueQuotient
<1>4. t = u /\ s = v
  BY <1>1, <1>3, UniqueQuotient DEF Block, Sets
<1> QED BY <1>3, <1>4

(* A whole line is in memory.                                              *)
LEMMA LineInMemory ==
  ASSUME NEW a \in MemAddr, NEW o \in Offsets
  PROVE  /\ Addr(Tag(a), Index(a), o) \in MemAddr
         /\ Addr(Tag(a), Index(a), o) = a - Offset(a) + o
<1>1. LineSize \in Nat \ {0} /\ NrBlocks \in Nat \ {0}
  BY CacheAssumption
<1> DEFINE b == Block(Tag(a), Index(a))
<1>2. /\ a \in Nat /\ a < NrBlocks * LineSize /\ a = LineSize * b + Offset(a)
      /\ Offset(a) \in 0 .. LineSize - 1 /\ o \in 0 .. LineSize - 1 /\ b \in Nat
  <2>1. b = a \div LineSize /\ a = Addr(Tag(a), Index(a), Offset(a)) /\ a \in Nat
    BY Positions
  <2>2. b \in Nat
    BY <1>1, <2>1, DivMod
  <2>3. Offset(a) \in Offsets
    BY Positions
  <2>4. NrBlocks * LineSize \in Nat
    BY <1>1
  <2> HIDE DEF b
  <2> QED BY <2>1, <2>2, <2>3, <2>4 DEF MemAddr, Addr, Offsets, b
<1> HIDE DEF b
<1>3. b < NrBlocks
  <2> SUFFICES ASSUME NrBlocks <= b PROVE FALSE
    BY <1>1, <1>2
  <2>1. LineSize * NrBlocks <= LineSize * b
    BY <1>1, <1>2
  <2>2. LineSize * NrBlocks = NrBlocks * LineSize /\ LineSize * b \in Nat
    BY <1>1, <1>2
  <2> QED BY <1>1, <1>2, <2>1, <2>2
<1>4. LineSize * b + LineSize <= LineSize * NrBlocks
  BY <1>1, <1>2, <1>3, Times
<1>5. LineSize * NrBlocks = NrBlocks * LineSize /\ LineSize * b \in Nat
  BY <1>1, <1>2
<1> QED BY <1>1, <1>2, <1>4, <1>5 DEF Addr, MemAddr, b
-----------------------------------------------------------------------------
(* The type of a line, and what is inductive.                              *)
Lines == [valid : BOOLEAN, tag : Tags, content : [Offsets -> Byte]]

(* No two ways of a set hold the same block.                               *)
OneWay(c) ==
  \A s \in Sets : \A v, w \in Ways :
    c[s][v].valid /\ c[s][w].valid /\ c[s][v].tag = c[s][w].tag => v = w

(* A valid line holds the bytes of the block its tag and set name.         *)
Loaded(m, c) ==
  \A s \in Sets, w \in Ways : c[s][w].valid =>
    \A o \in Offsets :
      /\ Addr(c[s][w].tag, s, o) \in MemAddr
      /\ c[s][w].content[o] = m[Addr(c[s][w].tag, s, o)]

Sound(m, c) ==
  /\ m \in [MemAddr -> Byte] /\ c \in [Sets -> [Ways -> Lines]]
  /\ OneWay(c) /\ Loaded(m, c)

IInv == TypeOK /\ Sound(hw_mem, cache)

(* Tags fit the tag field.                                                 *)
LEMMA TagTyped ==
  ASSUME NEW a \in MemAddr
  PROVE  Tag(a) \in Tags /\ Tags \subseteq Nat
<1>1. LineSize \in Nat \ {0} /\ NrSets \in Nat \ {0} /\ NrBlocks \in Nat \ {0}
  BY CacheAssumption
<1> DEFINE q == (NrBlocks - 1) \div NrSets
           r == (NrBlocks - 1) % NrSets
           blk == a \div LineSize
<1>2. q \in Nat /\ r \in 0 .. NrSets - 1 /\ NrBlocks - 1 = NrSets * q + r
  <2>1. NrBlocks - 1 \in Nat
    BY <1>1
  <2> QED BY <1>1, <2>1, DivMod
<1>3. Tag(a) \in Nat /\ Index(a) \in 0 .. NrSets - 1
      /\ blk = NrSets * Tag(a) + Index(a)
  BY Positions DEF Block, Sets
<1>4. blk < NrBlocks
  <2>1. a \in Nat /\ a < NrBlocks * LineSize
    BY <1>1 DEF MemAddr
  <2>2. blk \in Nat /\ a % LineSize \in 0 .. LineSize - 1
        /\ a = LineSize * blk + (a % LineSize)
    BY <1>1, <2>1, DivMod
  <2> HIDE DEF blk
  <2> SUFFICES ASSUME NrBlocks <= blk PROVE FALSE
    BY <1>1, <2>2
  <2>3. LineSize * NrBlocks <= LineSize * blk
    BY <1>1, <2>2
  <2>4. LineSize * NrBlocks = NrBlocks * LineSize /\ LineSize * blk \in Nat
    BY <1>1, <2>2
  <2> QED BY <1>1, <2>1, <2>2, <2>3, <2>4
<1> HIDE DEF q, r, blk
<1>5. Tag(a) <= q
  <2> SUFFICES ASSUME q < Tag(a) PROVE FALSE
    BY <1>2, <1>3
  <2>1. NrSets * q + NrSets <= NrSets * Tag(a)
    BY <1>1, <1>2, <1>3, Times
  <2>2. NrSets * q \in Nat /\ NrSets * Tag(a) \in Nat
    BY <1>1, <1>2, <1>3
  <2> QED BY <1>1, <1>2, <1>3, <1>4, <2>1, <2>2
<1> QED BY <1>2, <1>3, <1>5 DEF Tags, q

(* A hit is at the way the scan stops at, and at no other.                 *)
LEMMA HitWay ==
  ASSUME NEW c, OneWay(c), NEW a \in MemAddr, Hit(c, a)
  PROVE  /\ Way(c, a) \in Hits(c, a)
         /\ \A w \in Hits(c, a) : w = Way(c, a)
<1>1. Index(a) \in Sets
  BY Positions
<1>2. \A v, w \in Hits(c, a) : v = w
  BY <1>1 DEF Hits, OneWay
<1>3. PICK x \in Hits(c, a) : TRUE
  BY DEF Hit
<1>4. x \in Int
  BY CacheAssumption, <1>3 DEF Hits, Ways
<1>5. \A v \in Hits(c, a) : x <= v
  BY <1>2, <1>4
<1>6. \E w \in Hits(c, a) : \A v \in Hits(c, a) : w <= v
  BY <1>5
<1>7. Way(c, a) \in Hits(c, a)
  BY <1>6 DEF Way
<1> QED BY <1>2, <1>7

(* What is in the cache at an address is what memory has there, for all    *)
(* the bytes of its line.                                                  *)
LEMMA LineRight ==
  ASSUME IInv, NEW a \in MemAddr, Hit(cache, a), NEW o \in Offsets
  PROVE  Line(cache, a).content[o] = hw_mem[a - Offset(a) + o]
<1>1. Way(cache, a) \in Hits(cache, a) /\ Index(a) \in Sets
  BY HitWay, Positions DEF IInv, Sound
<1>2. /\ Way(cache, a) \in Ways /\ Line(cache, a).valid
      /\ Line(cache, a).tag = Tag(a)
  BY <1>1 DEF Hits, Line
<1>3. Line(cache, a).content[o] = hw_mem[Addr(Tag(a), Index(a), o)]
  BY <1>1, <1>2 DEF IInv, Sound, Loaded, Line
<1> QED BY <1>3, LineInMemory

-----------------------------------------------------------------------------
(* An access of one line, seen from its line.                              *)
LEMMA AccessInLine ==
  ASSUME NEW a \in MemAddr, NEW len \in 1 .. LineSize, Contained(a, len),
         NEW i \in 0 .. len - 1
  PROVE  /\ Offset(a) + i \in Offsets
         /\ a + i = Addr(Tag(a), Index(a), Offset(a) + i)
         /\ a + i \in MemAddr
<1>1. /\ LineSize \in Nat \ {0} /\ len \in 1 .. LineSize
      /\ a \in Nat /\ Offset(a) \in 0 .. LineSize - 1 /\ Offset(a) + len <= LineSize
  BY CacheAssumption, Positions DEF Offsets, Contained
<1>2. Offset(a) + i \in Offsets
  BY <1>1 DEF Offsets
<1> QED BY <1>1, <1>2, LineInMemory

(* The bytes of a line.                                                    *)
Contents == [Offsets -> Byte]

(* An update within a line, of memory and of the line if it is cached,     *)
(* keeps memory and cache sound.                                           *)
LEMMA UpdateKeeps ==
  ASSUME NEW m, NEW c, Sound(m, c),
         NEW a \in MemAddr, NEW len \in 1 .. LineSize, Contained(a, len),
         NEW data, \A i \in 0 .. len - 1 : data[i] \in Byte
  PROVE  Sound(Flat!Stored(m, a, len, data), Updated(c, a, len, data))
<1> DEFINE m2 == Flat!Stored(m, a, len, data)
           c2 == Updated(c, a, len, data)
<1> SUFFICES Sound(m2, c2)
  OBVIOUS
<1>1. c2 = Updated(c, a, len, data)
  OBVIOUS
<1>2. /\ m \in [MemAddr -> Byte] /\ c \in [Sets -> [Ways -> Lines]]
      /\ Index(a) \in Sets /\ Offset(a) \in Offsets /\ a \in Nat
      /\ LineSize \in Nat \ {0} /\ len \in 1 .. LineSize
  BY CacheAssumption, Positions DEF Sound
<1>3. \A b \in MemAddr :
        m2[b] = IF b \in a .. a + len - 1 THEN data[b - a] ELSE m[b]
  BY <1>2 DEF Flat!Stored
<1>4. m2 \in [MemAddr -> Byte]
  <2>1. \A b \in MemAddr : b \in a .. a + len - 1 => b - a \in 0 .. len - 1
    BY <1>2 DEF MemAddr
  <2> QED BY <1>2, <2>1 DEF Flat!Stored
<1> HIDE DEF m2, c2
<1> DEFINE new == [o \in Offsets |-> IF o \in Offset(a) .. Offset(a) + len - 1
                                     THEN data[o - Offset(a)]
                                     ELSE Line(c, a).content[o]]
<1>5. CASE Hit(c, a)
  <2>1. /\ Way(c, a) \in Ways /\ Way(c, a) \in Hits(c, a)
        /\ \A w \in Hits(c, a) : w = Way(c, a)
    BY <1>5, HitWay DEF Sound, Hits
  <2>2. c2 = [c EXCEPT ![Index(a)][Way(c, a)].content = new]
    BY <1>1, <1>2, <1>5, <2>1 DEF Updated, Line
  <2>3. new \in Contents
    <3>1. \A o \in Offsets : o \in Offset(a) .. Offset(a) + len - 1
                               => o - Offset(a) \in 0 .. len - 1
      BY <1>2 DEF Offsets
    <3>2. Line(c, a).content \in Contents
      BY <1>2, <2>1 DEF Line, Lines, Contents
    <3> QED BY <3>1, <3>2 DEF Contents
  <2> HIDE DEF new
  <2>4. \A s \in Sets, w \in Ways :
          /\ c2[s][w].valid = c[s][w].valid
          /\ c2[s][w].tag = c[s][w].tag
          /\ c2[s][w].content = IF s = Index(a) /\ w = Way(c, a)
                                    THEN new ELSE c[s][w].content
    BY <1>2, <2>1, <2>2 DEF Lines
  <2>5. c2 \in [Sets -> [Ways -> Lines]]
    <3> DEFINE line == [c[Index(a)][Way(c, a)] EXCEPT !.content = new]
               set == [c[Index(a)] EXCEPT ![Way(c, a)] = line]
    <3>1. c[Index(a)] \in [Ways -> Lines] /\ c[Index(a)][Way(c, a)] \in Lines
      BY <1>2, <2>1
    <3>2. line \in Lines
      BY <2>3, <3>1 DEF Lines, Contents
    <3> HIDE DEF line
    <3>3. set \in [Ways -> Lines]
      BY <3>1, <3>2
    <3>4. c2 = [c EXCEPT ![Index(a)] = set]
      BY <1>2, <2>2 DEF line
    <3> HIDE DEF set
    <3> QED BY <1>2, <3>3, <3>4
    <2>6. OneWay(c2)
    BY <2>4 DEF Sound, OneWay
  <2>7. Loaded(m2, c2)
    <3> SUFFICES ASSUME NEW s \in Sets, NEW w \in Ways, c2[s][w].valid,
                        NEW o \in Offsets
                 PROVE  /\ Addr(c2[s][w].tag, s, o) \in MemAddr
                        /\ c2[s][w].content[o]
                             = m2[Addr(c2[s][w].tag, s, o)]
      BY DEF Loaded, Addr, Block
    <3> DEFINE t == c[s][w].tag
    <3>1. /\ c[s][w].valid /\ c2[s][w].tag = t /\ t \in Nat
          /\ Addr(t, s, o) \in MemAddr
          /\ c[s][w].content[o] = m[Addr(t, s, o)]
      BY <1>2, <2>4, TagTyped DEF Sound, Loaded, Lines
    <3>2. CASE s = Index(a) /\ w = Way(c, a)
      <4>1. t = Tag(a)
        BY <2>1, <3>2 DEF Hits
      <4>2. Addr(t, s, o) = a - Offset(a) + o
        BY <3>2, <4>1, LineInMemory
      <4>3. c2[s][w].content[o] = new[o]
        BY <2>4, <3>2
      <4>4. /\ Addr(t, s, o) \in a .. a + len - 1
                 <=> o \in Offset(a) .. Offset(a) + len - 1
            /\ Addr(t, s, o) - a = o - Offset(a)
        BY <1>2, <4>2 DEF Offsets
      <4>5. Line(c, a) = c[s][w]
        BY <3>2 DEF Line
      <4> QED BY <1>3, <3>1, <4>3, <4>4, <4>5 DEF new
    <3>3. CASE ~(s = Index(a) /\ w = Way(c, a))
      <4>1. Addr(t, s, o) \notin a .. a + len - 1
        <5> SUFFICES ASSUME Addr(t, s, o) \in a .. a + len - 1 PROVE FALSE
          OBVIOUS
        <5> DEFINE i == Addr(t, s, o) - a
        <5>1. i \in 0 .. len - 1 /\ Addr(t, s, o) = a + i
          BY <1>2, <3>1 DEF MemAddr
        <5>2. a + i = Addr(Tag(a), Index(a), Offset(a) + i) /\ Offset(a) + i \in Offsets
          BY <5>1, AccessInLine
        <5>3. Tag(a) \in Nat
          BY Positions
        <5>4. t = Tag(a) /\ s = Index(a)
          BY <1>2, <3>1, <5>1, <5>2, <5>3, SameLine
        <5>5. w \in Hits(c, a)
          BY <3>1, <5>4 DEF Hits
        <5> QED BY <2>1, <3>3, <5>4, <5>5
      <4> QED BY <1>3, <2>4, <3>1, <3>3, <4>1
    <3> QED BY <3>2, <3>3
  <2> QED BY <1>4, <2>5, <2>6, <2>7 DEF Sound
<1>6. CASE ~Hit(c, a)
  <2>1. c2 = c
    BY <1>1, <1>6 DEF Updated
  <2>2. Loaded(m2, c2)
    <3> SUFFICES ASSUME NEW s \in Sets, NEW w \in Ways, c[s][w].valid,
                        NEW o \in Offsets
                 PROVE  /\ Addr(c[s][w].tag, s, o) \in MemAddr
                        /\ c[s][w].content[o]
                             = m2[Addr(c[s][w].tag, s, o)]
      BY <2>1 DEF Loaded, Addr, Block
    <3> DEFINE t == c[s][w].tag
    <3>1. /\ t \in Nat /\ Addr(t, s, o) \in MemAddr
          /\ c[s][w].content[o] = m[Addr(t, s, o)]
      BY <1>2, TagTyped DEF Sound, Loaded, Lines
    <3>2. Addr(t, s, o) \notin a .. a + len - 1
      <4> SUFFICES ASSUME Addr(t, s, o) \in a .. a + len - 1 PROVE FALSE
        OBVIOUS
      <4> DEFINE i == Addr(t, s, o) - a
      <4>1. i \in 0 .. len - 1 /\ Addr(t, s, o) = a + i
        BY <1>2, <3>1 DEF MemAddr
      <4>2. a + i = Addr(Tag(a), Index(a), Offset(a) + i) /\ Offset(a) + i \in Offsets
        BY <4>1, AccessInLine
      <4>3. Tag(a) \in Nat
        BY Positions
      <4>4. t = Tag(a) /\ s = Index(a)
        BY <1>2, <3>1, <4>1, <4>2, <4>3, SameLine
      <4> QED BY <1>6, <4>4 DEF Hits, Hit
    <3> QED BY <1>3, <3>1, <3>2
  <2>3. OneWay(c2)
    BY <2>1 DEF Sound
  <2> QED BY <1>2, <1>4, <2>1, <2>2, <2>3 DEF Sound
<1> QED BY <1>5, <1>6

(* The first byte after the line of a is the first of the next line.       *)
LEMMA NextLine ==
  ASSUME NEW a \in MemAddr, NEW len \in 1 .. LineSize, ~Contained(a, len),
         a + len - 1 \in MemAddr
  PROVE  /\ LineSize - Offset(a) \in 1 .. len - 1
         /\ a + (LineSize - Offset(a)) \in MemAddr
         /\ Offset(a + (LineSize - Offset(a))) = 0
<1> DEFINE low == LineSize - Offset(a)
<1>1. /\ LineSize \in Nat \ {0} /\ NrBlocks \in Nat \ {0}
      /\ a \in Nat /\ Offset(a) \in 0 .. LineSize - 1
  BY CacheAssumption, Positions DEF Offsets
<1>2. low \in 1 .. len - 1 /\ a + low \in MemAddr
  BY <1>1 DEF Contained, MemAddr
<1>3. PICK b \in Nat : a = LineSize * b + Offset(a)
  BY <1>1, DivMod DEF Offset
<1> DEFINE c == a + low
<1>4. c \in Nat /\ c = LineSize * (b + 1)
  BY <1>1, <1>2, <1>3
<1>5. c = LineSize * (c \div LineSize) + (c % LineSize) /\ c \div LineSize \in Nat
      /\ c % LineSize \in 0 .. LineSize - 1
  BY <1>1, <1>4, DivMod
<1>6. LineSize * (b + 1) = LineSize * (b + 1) + 0 /\ 0 \in 0 .. LineSize - 1
  BY <1>1
<1> HIDE DEF c
<1>7. 0 = c % LineSize
  BY <1>1, <1>4, <1>5, <1>6, UniqueQuotient
<1> QED BY <1>2, <1>7 DEF Offset, c

(* Every write but one that leaves a line stale keeps the invariant.       *)
LEMMA WriteKeeps ==
  ASSUME IInv, NEW a \in MemAddr, NEW len \in Lens, a + len - 1 \in MemAddr,
         NEW data \in [0 .. len - 1 -> Byte], ~LeavesStale(a, len),
         cache_write(a, len, data)
  PROVE  IInv'
<1> DEFINE low  == LineSize - Offset(a)
           rest == [i \in 0 .. len - low - 1 |-> data[i + low]]
           m1   == Flat!Stored(hw_mem, a, low, data)
           c1   == Updated(cache, a, low, data)
<1>1. /\ hw_mem' = Flat!Stored(hw_mem, a, len, data)
      /\ cache' = AfterWrite(cache, a, len, data) /\ reply' = reply
  BY DEF cache_write
<1>2. /\ LineSize \in Nat \ {0} /\ len \in 1 .. LineSize /\ Sound(hw_mem, cache)
      /\ a \in Nat /\ Offset(a) \in 0 .. LineSize - 1
      /\ hw_mem \in [MemAddr -> Byte] /\ NrBlocks \in Nat \ {0}
  BY CacheAssumption, Positions DEF IInv, TypeOK, Offsets
<1>3. CASE Contained(a, len)
  BY <1>1, <1>2, <1>3, UpdateKeeps DEF AfterWrite, Sound, IInv, TypeOK, Lines
<1>4. CASE ~Contained(a, len)
  <2>1. low \in 1 .. len - 1 /\ a + low \in MemAddr /\ Offset(a + low) = 0
    BY <1>2, <1>4, NextLine
  <2>2. low \in 1 .. LineSize /\ Contained(a, low)
    BY <1>2, <2>1 DEF Contained
  <2>3. len - low \in 1 .. LineSize /\ Contained(a + low, len - low)
    BY <1>2, <2>1 DEF Contained
  <2>4. Sound(m1, c1)
    BY <1>2, <2>1, <2>2, UpdateKeeps
  <2>5. Sound(Flat!Stored(m1, a + low, len - low, rest),
              Updated(c1, a + low, len - low, rest))
    <3>1. \A i \in 0 .. len - low - 1 : rest[i] \in Byte
      <4> SUFFICES ASSUME NEW i \in 0 .. len - low - 1 PROVE rest[i] \in Byte
        OBVIOUS
      <4> HIDE DEF low
      <4>1. i + low \in 0 .. len - 1
        BY <1>2, <2>1
      <4> QED BY <4>1
    <3> HIDE DEF rest, m1, c1, low
    <3> QED BY <2>1, <2>3, <2>4, <3>1, UpdateKeeps
  <2>6. hw_mem' = Flat!Stored(m1, a + low, len - low, rest)
    <3>1. DOMAIN hw_mem = MemAddr /\ DOMAIN m1 = MemAddr
      BY <1>2 DEF Flat!Stored
    <3>2. \A b \in MemAddr :
            (IF b \in a .. a + len - 1 THEN data[b - a] ELSE hw_mem[b])
              = IF b \in a + low .. a + low + (len - low) - 1 THEN rest[b - (a + low)]
                ELSE m1[b]
      <4> SUFFICES ASSUME NEW b \in MemAddr
                   PROVE  (IF b \in a .. a + len - 1 THEN data[b - a] ELSE hw_mem[b])
                            = IF b \in a + low .. a + low + (len - low) - 1
                              THEN rest[b - (a + low)] ELSE m1[b]
        OBVIOUS
      <4>1. b \in Nat
        BY DEF MemAddr
      <4>2. m1[b] = IF b \in a .. a + low - 1 THEN data[b - a] ELSE hw_mem[b]
        BY <1>2 DEF Flat!Stored
      <4>3. ASSUME b \in a + low .. a + low + (len - low) - 1
            PROVE  rest[b - (a + low)] = data[b - a] /\ b \in a .. a + len - 1
        <5> HIDE DEF low
        <5>1. b - (a + low) \in 0 .. len - low - 1 /\ b - (a + low) + low = b - a
          BY <1>2, <2>1, <4>1, <4>3
        <5>2. rest[b - (a + low)] = data[b - (a + low) + low]
          BY <5>1
        <5> QED BY <1>2, <2>1, <4>1, <4>3, <5>1, <5>2
      <4> HIDE DEF rest, m1, low
      <4> QED BY <1>2, <2>1, <4>1, <4>2, <4>3
    <3> HIDE DEF rest, m1, low
    <3> QED BY <1>1, <3>1, <3>2 DEF Flat!Stored
  <2>7. cache' = Updated(c1, a + low, len - low, rest)
    <3>1. CASE Hit(cache, a)
      BY <1>1, <1>4, <3>1 DEF AfterWrite
    <3>2. CASE ~Hit(cache, a)
      <4>1. ~Hit(cache, a + low)
        BY <1>4, <1>2, <3>2 DEF LeavesStale
      <4>2. c1 = cache /\ AfterWrite(cache, a, len, data) = cache
        BY <3>2 DEF AfterWrite, Updated
      <4> HIDE DEF low, rest, c1
      <4> QED BY <1>1, <4>1, <4>2 DEF Updated
    <3> QED BY <3>1, <3>2
  <2>8. Sound(hw_mem', cache')
    BY <2>5, <2>6, <2>7
  <2> QED BY <1>1, <2>8 DEF Sound, IInv, TypeOK, Lines
<1> QED BY <1>3, <1>4

(* A refill keeps the invariant.                                           *)
LEMMA RefillKeeps ==
  ASSUME IInv, NEW a \in MemAddr, ~Hit(cache, a), Refill(a),
         hw_mem' = hw_mem
  PROVE  /\ cache' \in [Sets -> [Ways -> Lines]]
         /\ OneWay(cache') /\ Loaded(hw_mem', cache')
<1>1. /\ hw_mem \in [MemAddr -> Byte] /\ cache \in [Sets -> [Ways -> Lines]]
      /\ Index(a) \in Sets /\ Offset(a) \in Offsets /\ Tag(a) \in Tags
  BY Positions, TagTyped DEF IInv, Sound, TypeOK, Lines
<1> DEFINE filled == Flat!BytesAt(hw_mem, a - Offset(a), LineSize)
           line == [valid |-> TRUE, tag |-> Tag(a), content |-> filled]
<1>2. PICK x \in Victims(a) : cache' = [cache EXCEPT ![Index(a)][x] = line]
  BY DEF Refill
<1>3. x \in Ways
  BY <1>2 DEF Victims
<1>4. \A o \in Offsets :
        /\ Addr(Tag(a), Index(a), o) \in MemAddr
        /\ filled[o] = hw_mem[Addr(Tag(a), Index(a), o)]
  BY LineInMemory DEF Flat!BytesAt, Offsets
<1>5. filled \in Contents
  BY <1>1, LineInMemory DEF Flat!BytesAt, Offsets, Contents
<1> HIDE DEF filled
<1>6. line \in Lines
  BY <1>1, <1>5 DEF Lines, Contents
<1>7. \A s \in Sets, w \in Ways :
        cache'[s][w] = IF s = Index(a) /\ w = x THEN line ELSE cache[s][w]
  BY <1>1, <1>2, <1>3
<1>8. \A w \in Ways :
        ~(cache[Index(a)][w].valid /\ cache[Index(a)][w].tag = Tag(a))
  BY DEF Hit, Hits
<1>9. cache' \in [Sets -> [Ways -> Lines]]
  <2> HIDE DEF line
  <2> QED BY <1>1, <1>2, <1>3, <1>6
<1>10. OneWay(cache')
  <2> SUFFICES ASSUME NEW s \in Sets, NEW v \in Ways, NEW w \in Ways,
                      cache'[s][v].valid, cache'[s][w].valid,
                      cache'[s][v].tag = cache'[s][w].tag
               PROVE  v = w
    BY DEF OneWay
  <2> QED BY <1>7, <1>8 DEF IInv, Sound, OneWay
<1>11. Loaded(hw_mem', cache')
  <2> SUFFICES ASSUME NEW s \in Sets, NEW w \in Ways, cache'[s][w].valid,
                      NEW o \in Offsets
               PROVE  /\ Addr(cache'[s][w].tag, s, o) \in MemAddr
                      /\ cache'[s][w].content[o]
                           = hw_mem'[Addr(cache'[s][w].tag, s, o)]
    BY DEF Loaded, Addr, Block
  <2> QED BY <1>4, <1>7 DEF IInv, Sound, Loaded
<1> QED BY <1>9, <1>10, <1>11

(* cache_read returns what memory holds, and keeps the invariant.          *)
LEMMA ReadRight ==
  ASSUME IInv, NEW a \in MemAddr, NEW len \in Lens, a + len - 1 \in MemAddr,
         cache_read(a, len)
  PROVE  /\ IInv' /\ hw_mem' = hw_mem
         /\ reply' = Flat!BytesAt(hw_mem, a, len)
<1> DEFINE low == LineSize - Offset(a)
<1>1. /\ LineSize \in Nat \ {0} /\ len \in 1 .. LineSize
      /\ a \in Nat /\ Offset(a) \in 0 .. LineSize - 1
      /\ hw_mem \in [MemAddr -> Byte] /\ hw_mem' = hw_mem
  BY CacheAssumption, Positions DEF Offsets, IInv, TypeOK, cache_read
<1>2. \A i \in 0 .. len - 1 : a + i \in MemAddr
  BY <1>1, CacheAssumption DEF MemAddr
<1>3. Flat!BytesAt(hw_mem, a, len) \in [0 .. len - 1 -> Byte]
  BY <1>1, <1>2 DEF Flat!BytesAt
<1>4. ASSUME NEW b \in MemAddr, ReadOne(b)
      PROVE  cache' \in [Sets -> [Ways -> Lines]] /\ OneWay(cache') /\ Loaded(hw_mem', cache')
  <2>1. CASE Hit(cache, b)
    BY <1>1, <1>4, <2>1 DEF ReadOne, IInv, Sound, TypeOK, OneWay, Loaded, Lines, Addr, Block
  <2>2. CASE ~Hit(cache, b)
    BY <1>1, <1>4, <2>2, RefillKeeps DEF ReadOne
  <2> QED BY <2>1, <2>2
<1>5. ASSUME NEW b \in MemAddr, ReadOne(b),
             reply' = Flat!BytesAt(hw_mem, a, len)
      PROVE  IInv'
  BY <1>1, <1>3, <1>4, <1>5 DEF IInv, Sound, TypeOK, Lines
<1>6. ASSUME NEW b \in MemAddr, NEW i \in Nat, Offset(b) + i \in Offsets
      PROVE  Fetched(b, i) = hw_mem[b + i]
  <2>1. Offset(b) \in Offsets /\ b \in Nat
    BY Positions
  <2>2. b - Offset(b) + (Offset(b) + i) = b + i
    BY <1>1, <2>1 DEF Offsets
  <2> QED BY <1>6, <2>2, LineRight DEF Fetched, Cached
<1>7. CASE Contained(a, len) \/ ~Hit(cache, a)
  <2>1. ReadOne(a) /\ reply' = [i \in 0 .. len - 1 |-> Fetched(a, i)]
    BY <1>7 DEF cache_read
  <2>2. \A i \in 0 .. len - 1 : Fetched(a, i) = hw_mem[a + i]
    <3>1. CASE Contained(a, len)
      BY <1>1, <1>6, <3>1, AccessInLine
    <3>2. CASE ~Hit(cache, a)
      BY <3>2 DEF Fetched
    <3> QED BY <1>7, <3>1, <3>2
  <2>3. reply' = Flat!BytesAt(hw_mem, a, len)
    BY <2>1, <2>2 DEF Flat!BytesAt
  <2> QED BY <1>1, <1>5, <2>1, <2>3
<1>8. CASE ~Contained(a, len) /\ Hit(cache, a)
  <2>1. /\ ReadOne(a + low)
        /\ reply' = [i \in 0 .. len - 1 |-> IF i < low THEN Cached(a, i)
                                            ELSE Fetched(a + low, i - low)]
    BY <1>8 DEF cache_read
  <2>2. low \in 1 .. len - 1 /\ a + low \in MemAddr
    BY <1>1, <1>8, NextLine
  <2>3. Offset(a + low) = 0
    BY <1>1, <1>8, NextLine
  <2>4. \A i \in 0 .. len - 1 :
          (IF i < low THEN Cached(a, i) ELSE Fetched(a + low, i - low)) = hw_mem[a + i]
    <3> SUFFICES ASSUME NEW i \in 0 .. len - 1
                 PROVE  (IF i < low THEN Cached(a, i) ELSE Fetched(a + low, i - low))
                          = hw_mem[a + i]
      OBVIOUS
    <3>1. CASE i < low
      <4>1. Offset(a) + i \in Offsets
        BY <1>1, <3>1 DEF Offsets
      <4>2. Fetched(a, i) = hw_mem[a + i]
        BY <1>1, <1>6, <4>1
      <4> QED BY <1>8, <3>1, <4>2 DEF Fetched
    <3>2. CASE ~(i < low)
      <4>1. i - low \in Nat /\ Offset(a + low) + (i - low) \in Offsets
        BY <1>1, <2>2, <2>3, <3>2 DEF Offsets
      <4>2. a + low + (i - low) = a + i
        BY <1>1, <2>2
      <4> QED BY <1>6, <2>2, <3>2, <4>1, <4>2
    <3> QED BY <3>1, <3>2
  <2>5. reply' = Flat!BytesAt(hw_mem, a, len)
    BY <2>1, <2>4 DEF Flat!BytesAt
  <2> QED BY <1>1, <1>5, <2>1, <2>2, <2>5
<1> QED BY <1>7, <1>8

-----------------------------------------------------------------------------
(* init_cache establishes the invariant.                                   *)
LEMMA InitKeeps ==
  ASSUME Init
  PROVE  IInv
<1>1. 0 \in Byte /\ 0 \in Tags
  <2>1. NrSets \in Nat \ {0} /\ NrBlocks - 1 \in Nat
    BY CacheAssumption
  <2> QED BY <2>1, DivMod, CacheAssumption DEF Tags
<1>2. hw_mem \in [MemAddr -> Byte]
  BY <1>1 DEF Init, Cleared
<1>3. [valid |-> FALSE, tag |-> 0, content |-> [o \in Offsets |-> 0]] \in Lines
  BY <1>1 DEF Lines
<1>4. cache \in [Sets -> [Ways -> Lines]]
  BY <1>3 DEF Init
<1>5. \A s \in Sets, w \in Ways : ~cache[s][w].valid
  BY DEF Init
<1> QED BY <1>2, <1>4, <1>5 DEF Init, IInv, Sound, TypeOK, OneWay, Loaded, Lines

(* Every step of the cache but a write that leaves a line stale keeps the  *)
(* invariant, and is a step of the flat memory.                            *)
LEMMA NextKeeps ==
  ASSUME IInv, [KeptNext]_vars
  PROVE  IInv' /\ [Flat!Next]_<<hw_mem, reply>>
<1>1. CASE UNCHANGED vars
  BY <1>1 DEF vars, IInv, Sound, TypeOK, OneWay, Loaded, Addr, Block
<1>2. ASSUME NEW acc \in Reads, cache_read(acc[1], acc[2])
      PROVE  IInv' /\ Flat!Next
  <2>1. acc[1] \in MemAddr /\ acc[2] \in Lens /\ acc[1] + acc[2] - 1 \in MemAddr
    BY <1>2 DEF Reads
  <2> QED BY <1>2, <2>1, ReadRight DEF Flat!Next, Flat!Read
<1>3. ASSUME NEW acc \in Writes, NEW data \in [0 .. acc[2] - 1 -> Byte],
             ~LeavesStale(acc[1], acc[2]), cache_write(acc[1], acc[2], data)
      PROVE  IInv' /\ Flat!Next
  <2>1. acc[1] \in MemAddr /\ acc[2] \in Lens /\ acc[1] + acc[2] - 1 \in MemAddr
    BY <1>3 DEF Writes, Reads
  <2> QED BY <1>3, <2>1, WriteKeeps DEF cache_write, Flat!Next, Flat!Write
<1> QED BY <1>1, <1>2, <1>3 DEF KeptNext, Read, Write

(* The invariant gives what the run checks.                                *)
LEMMA IInvCoherent ==
  ASSUME IInv
  PROVE  Coherent
<1>1. OneCopy
  <2> SUFFICES ASSUME NEW a \in MemAddr PROVE Cardinality(Hits(cache, a)) <= 1
    BY DEF OneCopy
  <2>1. CASE Hits(cache, a) = {}
    BY <2>1, FS_EmptySet
  <2>2. CASE Hits(cache, a) # {}
    <3>1. Hits(cache, a) = {Way(cache, a)}
      BY <2>2, HitWay DEF IInv, Sound, Hit
    <3> QED BY <3>1, FS_Singleton
  <2> QED BY <2>1, <2>2
<1>2. ASSUME NEW a \in MemAddr, NEW w \in Ways, w \in Hits(cache, a)
      PROVE  cache[Index(a)][w].content[Offset(a)] = hw_mem[a]
  <2>1. /\ Index(a) \in Sets /\ Offset(a) \in Offsets
        /\ a = Addr(Tag(a), Index(a), Offset(a))
    BY Positions
  <2> QED BY <1>2, <2>1 DEF Hits, IInv, Sound, Loaded
<1> QED BY <1>1, <1>2 DEF IInv, Coherent

(* The cache never disagrees with memory: at every reachable state a valid *)
(* line holds the bytes of hw_mem and a block is in one way at most, for   *)
(* every geometry, so that the readers that bypass cache_read read what it *)
(* would.  KeptSpec: nobody writes across a line's end from a line that is *)
(* not cached into one that is; after such a write it is false.            *)
THEOREM CacheCoherent == KeptSpec => []Coherent
<1>1. Init => IInv
  BY InitKeeps
<1>2. IInv /\ [KeptNext]_vars => IInv'
  BY NextKeeps
<1>3. IInv => Coherent
  BY IInvCoherent
<1> QED BY <1>1, <1>2, <1>3, PTL DEF KeptSpec

(* cache_read and cache_write implement the flat memory, for every         *)
(* geometry, every length of access up to a line and every access that     *)
(* crosses one, in every behaviour without the write that KeptSpec leaves  *)
(* out: the one that crosses from a line that is not cached into one that  *)
(* is.                                                                     *)
THEOREM CacheImplements == KeptSpec => ImplementsFlatMemory
<1>1. Init => IInv /\ Flat!Init
  BY InitKeeps DEF Init, Flat!Init
<1>2. IInv /\ [KeptNext]_vars => IInv' /\ [Flat!Next]_<<hw_mem, reply>>
  BY NextKeeps
<1> QED BY <1>1, <1>2, PTL DEF KeptSpec, ImplementsFlatMemory, Flat!Spec
=============================================================================
