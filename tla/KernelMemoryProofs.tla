------------------------ MODULE KernelMemoryProofs ------------------------
(***************************************************************************)
(* Proofs about the kernel's memory, for any size of memory and tables,    *)
(* any program and any sequence of accesses and breaks: the frames of a    *)
(* program are its own (FramesPrivate), no assertion on present bits and   *)
(* no test of the video memory fails (NoFault), the TLB agrees with the    *)
(* directory in force (TlbAgrees), and the program sees a flat memory that *)
(* holds its image (ImplementsFlatMemory).                                 *)
(*                                                                         *)
(* FramesPrivate speaks of pages.  It holds because mm_malloc hands out    *)
(* every frame and every table once, whatever is mapped already: the       *)
(* invariant IInv says that of table entries (FramesOnce) and of directory *)
(* entries (TablesOnce), and that the tables do not run out (TablesLeft).  *)
(* KInv adds what the kernel's own tables, the TLB, the loader and the     *)
(* break are at each stage, ContentInv what the memory holds until the     *)
(* program runs.                                                           *)
(***************************************************************************)
EXTENDS KernelMemory, FiniteSetTheorems, WellFoundedInduction, TLAPS

UserTables == {UTable(i) : i \in PDEs}
KTables    == {KTable(i) : i \in 0 .. NrKTables - 1}

OwnTables  == UserTables \cup {VTable}

(* The entries that mm_malloc may fill: not that of the video memory.      *)
Own(t, j) == t \in OwnTables /\ j \in PTEs /\ ~(t = VTable /\ j = VideoPage)

Types ==
  /\ pdir \in [KernelDirs -> [PDEs -> Tables \cup {None}]]
  /\ ptable \in [Tables -> [PTEs -> Int \cup {None}]]
  /\ nr_pt \in Nat /\ nr_frame \in Nat /\ KMEM <= nr_frame
  /\ brk \in Int

(* Until the last segment is loaded, there is one to load.                 *)
LoadPoint ==
  stage \in {"init_page", "init_mm", "video_write", "malloc", "load"} =>
    seg \in DOMAIN Segments

(* No table is in two entries of the program's directory, but for the      *)
(* kernel's, which are in the upper part.                                  *)
TablesOnce ==
  /\ \A i \in PDEs : pdir["kpdir"][i] \in KTables \cup {None}
  /\ \A i \in PDEs :
       /\ pdir["updir"][i] \in KTables => KPDE <= i
       /\ pdir["updir"][i] = VTable => i = 0
       /\ \A k \in PDEs : pdir["updir"][i] = UTable(k) => k < nr_pt
  /\ \A i, j \in PDEs :
       pdir["updir"][i] = pdir["updir"][j] /\ pdir["updir"][i] \in UserTables => i = j

Unused == {i \in PDEs : pdir["updir"][i] = None}

TablesLeft == nr_pt + Cardinality(Unused) <= NrPDE

(* No frame is in two entries, and none has been handed out that is not    *)
(* above the kernel and below the counter.                                 *)
FramesOnce ==
  /\ \A t \in OwnTables, j \in PTEs :
       Own(t, j) /\ ptable[t][j] # None => ptable[t][j] \in KMEM .. nr_frame - 1
  /\ \A t, u \in OwnTables, j, k \in PTEs :
       Own(t, j) /\ Own(u, k) /\ ptable[t][j] = ptable[u][k] /\ ptable[t][j] # None
         => t = u /\ j = k

(* Tables are taken only after the kernel has set up the directories.      *)
Fresh == stage \in {"init_page", "init_mm"} => nr_pt = 0

IInv == Types /\ LoadPoint /\ Fresh /\ TablesOnce /\ TablesLeft /\ FramesOnce

-----------------------------------------------------------------------------
LEMMA TablesApart ==
  /\ \A i, j : UTable(i) = UTable(j) => i = j
  /\ \A i, j : KTable(i) # UTable(j) /\ KTable(i) # VTable
  /\ \A i : UTable(i) # VTable
  BY DEF UTable, KTable, VTable

LEMMA TablesTyped ==
  /\ UserTables \subseteq Tables /\ KTables \subseteq Tables /\ VTable \in Tables
  /\ None \notin Tables
  /\ Directories = {"kpdir", "updir"}
  BY KernelMemoryAssumption, MmuAssumption
  DEF KernelTables, UserTables, KTables, KernelDirs

LEMMA Sizes ==
  /\ PDEs = 0 .. NrPDE - 1 /\ IsFiniteSet(PDEs) /\ Cardinality(PDEs) = NrPDE
  /\ PTEs = 0 .. NrPTE - 1
  /\ NrPDE \in Nat \ {0} /\ NrPTE \in Nat \ {0} /\ PageLen \in Nat \ {0}
  /\ None \notin Int
  BY MmuAssumption, FS_Interval DEF PDEs, PTEs

(* Quotient and remainder.                                                 *)
LEMMA DivMod ==
  ASSUME NEW x \in Nat, NEW n \in Nat \ {0}
  PROVE  x \div n \in Nat /\ x % n \in 0 .. n - 1 /\ x = n * (x \div n) + (x % n)
  OBVIOUS

(* Ranks number the elements of a finite set, from 0 on.                   *)
LEMMA RankLemma ==
  ASSUME NEW S \in SUBSET Int, IsFiniteSet(S)
  PROVE  /\ Cardinality(S) \in Nat
         /\ \A x \in S : Rank(S, x) \in 0 .. Cardinality(S) - 1
         /\ \A x, y \in S : Rank(S, x) = Rank(S, y) => x = y
<1> DEFINE Below(x) == {y \in S : y < x}
<1>1. Cardinality(S) \in Nat
  BY FS_CardinalityType
<1>2. \A x \in S : /\ IsFiniteSet(Below(x))
                   /\ Cardinality(Below(x)) \in Nat
                   /\ Cardinality(Below(x)) < Cardinality(S)
  <2> SUFFICES ASSUME NEW x \in S
               PROVE  /\ IsFiniteSet(Below(x))
                      /\ Cardinality(Below(x)) \in Nat
                      /\ Cardinality(Below(x)) < Cardinality(S)
    OBVIOUS
  <2>1. Below(x) \in SUBSET S /\ Below(x) # S
    OBVIOUS
  <2>2. /\ IsFiniteSet(Below(x))
        /\ Cardinality(Below(x)) <= Cardinality(S)
        /\ Cardinality(S) # Cardinality(Below(x))
    BY <2>1, FS_Subset
  <2>3. Cardinality(Below(x)) \in Nat
    BY <2>2, FS_CardinalityType
  <2> QED
    BY <1>1, <2>2, <2>3
<1>3. ASSUME NEW x \in S, NEW y \in S, x < y
      PROVE  Cardinality(Below(x)) < Cardinality(Below(y))
  <2>1. Below(x) \in SUBSET Below(y) /\ Below(x) # Below(y)
    <3>1. x \in Below(y) /\ x \notin Below(x)
      BY <1>3
    <3>2. ASSUME NEW z \in Below(x) PROVE z \in Below(y)
      <4>1. z \in S /\ z \in Int /\ x \in Int /\ y \in Int /\ z < x
        OBVIOUS
      <4> QED
        BY <1>3, <4>1
    <3> QED
      BY <3>1, <3>2
  <2>2. /\ Cardinality(Below(x)) <= Cardinality(Below(y))
        /\ Cardinality(Below(y)) # Cardinality(Below(x))
    BY <1>2, <2>1, FS_Subset
  <2> QED
    BY <1>2, <2>2
<1>4. \A x, y \in S : Cardinality(Below(x)) = Cardinality(Below(y)) => x = y
  <2> SUFFICES ASSUME NEW x \in S, NEW y \in S, x # y
               PROVE  Cardinality(Below(x)) # Cardinality(Below(y))
    OBVIOUS
  <2>1. CASE x < y
    BY <1>2, <1>3, <2>1
  <2>2. CASE y < x
    BY <1>2, <1>3, <2>2
  <2> QED
    BY <2>1, <2>2
<1>5. \A x : Rank(S, x) = Cardinality(Below(x))
  BY DEF Rank
<1> HIDE DEF Below
<1> QED
  BY <1>1, <1>2, <1>4, <1>5

(* What a call of mm_malloc takes: as many frames and tables as it says,   *)
(* each of them once, and the tables are there.                            *)
LEMMA Taken ==
  ASSUME Types, TablesLeft, NEW va \in Int, NEW len \in Int
  PROVE  /\ Cardinality(Missing(va, len)) \in Nat
         /\ \A p \in Missing(va, len) :
              FrameFor(va, len, p) \in
                nr_frame .. nr_frame + Cardinality(Missing(va, len)) - 1
         /\ \A p, q \in Missing(va, len) :
              FrameFor(va, len, p) = FrameFor(va, len, q) => p = q
         /\ IsFiniteSet(NewTables(va, len)) /\ NewTables(va, len) \subseteq Unused
         /\ Cardinality(NewTables(va, len)) \in Nat
         /\ \A i \in NewTables(va, len) :
              /\ Rank(NewTables(va, len), i) \in Nat
              /\ nr_pt + Rank(NewTables(va, len), i) \in PDEs
              /\ Rank(NewTables(va, len), i) < Cardinality(NewTables(va, len))
         /\ \A i, j \in NewTables(va, len) :
              Rank(NewTables(va, len), i) = Rank(NewTables(va, len), j) => i = j
<1> USE Sizes DEF Types
<1>1. IsFiniteSet(PagesOf(va, len)) /\ PagesOf(va, len) \subseteq Int
  <2>1. CASE len <= 0
    BY <2>1, FS_EmptySet DEF PagesOf
  <2>2. CASE ~(len <= 0)
    <3>1. Page(va) \in Int /\ Page(va + len - 1) \in Int
      BY DEF Page
    <3> QED
      BY <2>2, <3>1, FS_Interval DEF PagesOf
  <2> QED
    BY <2>1, <2>2
<1>2. IsFiniteSet(Missing(va, len)) /\ Missing(va, len) \in SUBSET Int
  <2>1. Missing(va, len) \in SUBSET PagesOf(va, len)
    BY DEF Missing
  <2> QED
    BY <1>1, <2>1, FS_Subset
<1>3. /\ Cardinality(Missing(va, len)) \in Nat
      /\ \A p \in Missing(va, len) :
           Rank(Missing(va, len), p) \in 0 .. Cardinality(Missing(va, len)) - 1
      /\ \A p, q \in Missing(va, len) :
           Rank(Missing(va, len), p) = Rank(Missing(va, len), q) => p = q
  BY <1>2, RankLemma
<1>4. /\ Unused \in SUBSET PDEs /\ IsFiniteSet(Unused)
      /\ Cardinality(Unused) \in Nat
  <2>1. Unused \in SUBSET PDEs
    BY DEF Unused
  <2> QED
    BY <2>1, FS_Subset, FS_CardinalityType
<1>5. /\ NewTables(va, len) \in SUBSET Unused /\ NewTables(va, len) \in SUBSET Int
      /\ IsFiniteSet(NewTables(va, len))
      /\ Cardinality(NewTables(va, len)) <= Cardinality(Unused)
  <2>1. NewTables(va, len) \in SUBSET Unused
    BY DEF NewTables, Unused
  <2>2. PDEs \subseteq Int
    OBVIOUS
  <2> QED
    BY <1>4, <2>1, <2>2, FS_Subset
<1>6. /\ Cardinality(NewTables(va, len)) \in Nat
      /\ \A i \in NewTables(va, len) :
           Rank(NewTables(va, len), i) \in 0 .. Cardinality(NewTables(va, len)) - 1
      /\ \A i, j \in NewTables(va, len) :
           Rank(NewTables(va, len), i) = Rank(NewTables(va, len), j) => i = j
  BY <1>5, RankLemma
<1>7. \A p, q \in Missing(va, len) :
        FrameFor(va, len, p) = FrameFor(va, len, q) => p = q
  BY <1>3 DEF FrameFor
<1>8. \A p \in Missing(va, len) :
        FrameFor(va, len, p) \in nr_frame .. nr_frame + Cardinality(Missing(va, len)) - 1
  BY <1>3 DEF FrameFor
<1>9. \A i \in NewTables(va, len) :
        /\ Rank(NewTables(va, len), i) \in Nat
        /\ nr_pt + Rank(NewTables(va, len), i) \in PDEs
        /\ Rank(NewTables(va, len), i) < Cardinality(NewTables(va, len))
  BY <1>4, <1>5, <1>6 DEF TablesLeft
<1> QED
  BY <1>3, <1>5, <1>6, <1>7, <1>8, <1>9

LEMMA Cancel ==
  \A a, b, c \in Nat : a + b = a + c => b = c
  OBVIOUS

(* mm_malloc gives no frame and no table away twice.                       *)
LEMMA MallocKeeps ==
  ASSUME Types, TablesOnce, TablesLeft, FramesOnce,
         NEW va \in Int, NEW len \in Int, mm_malloc(va, len)
  PROVE  /\ pdir' \in [KernelDirs -> [PDEs -> Tables \cup {None}]]
         /\ ptable' \in [Tables -> [PTEs -> Int \cup {None}]]
         /\ nr_pt' \in Nat /\ nr_frame' \in Nat /\ KMEM <= nr_frame'
         /\ TablesOnce' /\ TablesLeft' /\ FramesOnce'
<1> DEFINE N == NewTables(va, len)
           M == Missing(va, len)
           New(i) == nr_pt + Rank(N, i)
           Up == pdir["updir"]
<1>t. /\ pdir \in [KernelDirs -> [PDEs -> Tables \cup {None}]]
      /\ ptable \in [Tables -> [PTEs -> Int \cup {None}]]
      /\ nr_pt \in Nat /\ nr_frame \in Nat /\ KMEM <= nr_frame /\ KMEM \in Nat
  BY KernelMemoryTypes DEF Types
<1>1. /\ Cardinality(M) \in Nat /\ Cardinality(N) \in Nat
      /\ \A p \in M : FrameFor(va, len, p) \in nr_frame .. nr_frame + Cardinality(M) - 1
      /\ \A p, q \in M : FrameFor(va, len, p) = FrameFor(va, len, q) => p = q
      /\ IsFiniteSet(N) /\ N \subseteq Unused
      /\ \A i \in N : New(i) \in PDEs /\ nr_pt <= New(i) /\ New(i) < nr_pt + Cardinality(N)
      /\ \A i, j \in N : New(i) = New(j) => i = j
  <2>1. /\ Cardinality(M) \in Nat /\ Cardinality(N) \in Nat
        /\ \A i \in N : Rank(N, i) \in Nat /\ New(i) \in PDEs /\ Rank(N, i) < Cardinality(N)
        /\ \A i, j \in N : Rank(N, i) = Rank(N, j) => i = j
    BY Taken
  <2>2. ASSUME NEW i \in N
        PROVE  New(i) \in PDEs /\ nr_pt <= New(i) /\ New(i) < nr_pt + Cardinality(N)
    BY <1>t, <2>1
  <2>3. ASSUME NEW i \in N, NEW j \in N, New(i) = New(j) PROVE i = j
    <3>1. Rank(N, i) = Rank(N, j)
      <4>1. Rank(N, i) \in Nat /\ Rank(N, j) \in Nat /\ nr_pt \in Nat
        BY <1>t, <2>1
      <4>2. nr_pt + Rank(N, i) = nr_pt + Rank(N, j)
        BY <2>3
      <4> QED
        BY <4>1, <4>2, Cancel
    <3> QED
      BY <2>1, <3>1
  <2> QED
    BY <2>1, <2>2, <2>3, Taken
<1> USE TablesApart, TablesTyped, Sizes
<1>2. /\ nr_pt' = nr_pt + Cardinality(N) /\ nr_frame' = nr_frame + Cardinality(M)
      /\ pdir' = [pdir EXCEPT !["updir"] = [i \in PDEs |-> UserTable(va, len, i)]]
  BY DEF mm_malloc
<1>3. \A i \in PDEs : UserTable(va, len, i) = IF i \in N THEN UTable(New(i)) ELSE Up[i]
  BY DEF UserTable
<1>4. \A i \in N : UTable(New(i)) \in UserTables
  BY <1>1 DEF UserTables
<1>5. /\ \A i \in PDEs : pdir'["updir"][i] = IF i \in N THEN UTable(New(i)) ELSE Up[i]
      /\ pdir'["kpdir"] = pdir["kpdir"]
      /\ pdir' \in [KernelDirs -> [PDEs -> Tables \cup {None}]]
  <2>1. \A i \in PDEs : UserTable(va, len, i) \in Tables \cup {None}
    <3>1. \A i \in PDEs : Up[i] \in Tables \cup {None}
      BY <1>t DEF KernelDirs
    <3>2. \A i \in N : UTable(New(i)) \in Tables
      BY <1>4
    <3> QED
      BY <1>3, <3>1, <3>2
  <2> QED
    BY <1>t, <1>2, <1>3, <2>1 DEF KernelDirs
<1>6. \A t \in Tables, j \in PTEs :
        \/ ptable'[t][j] = ptable[t][j]
        \/ \E p \in M : /\ t = UserTable(va, len, p \div NrPTE) /\ j = p % NrPTE
                        /\ ptable'[t][j] = FrameFor(va, len, p)
  <2> SUFFICES ASSUME NEW t \in Tables, NEW j \in PTEs
               PROVE  \/ ptable'[t][j] = ptable[t][j]
                      \/ \E p \in M : /\ t = UserTable(va, len, p \div NrPTE)
                                      /\ j = p % NrPTE
                                      /\ ptable'[t][j] = FrameFor(va, len, p)
    OBVIOUS
  <2> DEFINE Here(p) == t = UserTable(va, len, p \div NrPTE) /\ j = p % NrPTE
  <2>1. ptable'[t][j] = IF \E p \in M : Here(p)
                        THEN FrameFor(va, len, CHOOSE p \in M : Here(p))
                        ELSE ptable[t][j]
    BY Zenon DEF mm_malloc
  <2>2. ASSUME NEW q \in M, Here(q)
        PROVE  (CHOOSE p \in M : Here(p)) \in M /\ Here(CHOOSE p \in M : Here(p))
    BY <2>2, Zenon
  <2> QED
    BY <2>1, <2>2, Zenon
<1>7. ptable' \in [Tables -> [PTEs -> Int \cup {None}]]
  <2>1. DOMAIN ptable' = Tables /\ \A t \in Tables : DOMAIN ptable'[t] = PTEs
    BY DEF mm_malloc
  <2>2. ASSUME NEW t \in Tables, NEW j \in PTEs
        PROVE  ptable'[t][j] \in Int \cup {None}
    <3>1. CASE ptable'[t][j] = ptable[t][j]
      BY <1>t, <3>1
    <3>2. CASE \E p \in M : ptable'[t][j] = FrameFor(va, len, p)
      BY <1>t, <1>1, <3>2
    <3> QED
      BY <1>6, <3>1, <3>2
  <2>3. ptable' = [t \in Tables |-> [j \in PTEs |-> ptable'[t][j]]]
    BY Zenon DEF mm_malloc
  <2> QED
    BY <2>2, <2>3
<1>8. TablesOnce'
  <2>1. \A i \in PDEs : pdir'["kpdir"][i] \in KTables \cup {None}
    BY <1>5 DEF TablesOnce
  <2>2. ASSUME NEW i \in PDEs
        PROVE  /\ pdir'["updir"][i] \in KTables => KPDE <= i
               /\ pdir'["updir"][i] = VTable => i = 0
               /\ \A k \in PDEs : pdir'["updir"][i] = UTable(k) => k < nr_pt'
    <3>1. CASE i \in N
      BY <1>t, <1>1, <1>2, <1>5, <3>1 DEF KTables
    <3>2. CASE i \notin N
      BY SMTT(20), <1>t, <1>1, <1>2, <1>5, <3>2 DEF TablesOnce
    <3> QED
      BY <3>1, <3>2
  <2>3. ASSUME NEW i \in PDEs, NEW j \in PDEs,
               pdir'["updir"][i] = pdir'["updir"][j], pdir'["updir"][i] \in UserTables
        PROVE  i = j
    <3>1. ASSUME NEW x \in N, NEW y \in PDEs \ N PROVE UTable(New(x)) # Up[y]
      <4>1. New(x) \in PDEs /\ ~ New(x) < nr_pt
        BY <1>t, <1>1
      <4> QED
        BY <4>1 DEF TablesOnce
    <3>2. CASE i \in N /\ j \in N
      BY <1>1, <1>5, <2>3, <3>2
    <3>3. CASE i \in N /\ j \notin N
      BY <1>5, <2>3, <3>1, <3>3
    <3>4. CASE i \notin N /\ j \in N
      BY <1>5, <2>3, <3>1, <3>4
    <3>5. CASE i \notin N /\ j \notin N
      BY <1>5, <2>3, <3>5 DEF TablesOnce
    <3> QED
      BY <3>2, <3>3, <3>4, <3>5
  <2> QED
    BY <2>1, <2>2, <2>3 DEF TablesOnce
<1>9. TablesLeft'
  <2>1. Unused' = Unused \ N
    BY <1>4, <1>5 DEF Unused
  <2>2. IsFiniteSet(Unused) /\ Cardinality(Unused) \in Nat
    <3>1. Unused \in SUBSET PDEs
      BY DEF Unused
    <3> QED
      BY <3>1, FS_Subset, FS_CardinalityType
  <2>3. Unused \cap N = N
    BY <1>1
  <2>4. Cardinality(Unused \ N) = Cardinality(Unused) - Cardinality(N)
    BY <2>2, <2>3, FS_Difference
  <2> QED
    BY <1>t, <1>1, <1>2, <2>1, <2>2, <2>4 DEF TablesLeft
<1>10. FramesOnce'
  <2>1. ASSUME NEW t \in OwnTables, NEW j \in PTEs, Own(t, j), ptable'[t][j] # None
        PROVE  \/ ptable'[t][j] = ptable[t][j] /\ ptable[t][j] \in KMEM .. nr_frame - 1
               \/ \E p \in M : /\ t = UserTable(va, len, p \div NrPTE) /\ j = p % NrPTE
                               /\ ptable'[t][j] = FrameFor(va, len, p)
    <3>1. t \in Tables
      BY DEF OwnTables
    <3> QED
      BY <1>6, <2>1, <3>1 DEF FramesOnce
  <2>2. ASSUME NEW t \in OwnTables, NEW j \in PTEs, Own(t, j), ptable'[t][j] # None
        PROVE  ptable'[t][j] \in KMEM .. nr_frame' - 1
    <3>1. CASE ptable'[t][j] = ptable[t][j] /\ ptable[t][j] \in KMEM .. nr_frame - 1
      <4>1. KMEM .. nr_frame - 1 \subseteq KMEM .. nr_frame' - 1
        BY SMTT(20), <1>t, <1>1, <1>2
      <4> QED
        BY <3>1, <4>1
    <3>2. CASE \E p \in M : ptable'[t][j] = FrameFor(va, len, p)
      BY SMTT(20), <1>t, <1>1, <1>2, <3>2
    <3> QED
      BY <2>1, <2>2, <3>1, <3>2
  <2>3. ASSUME NEW t \in OwnTables, NEW u \in OwnTables, NEW j \in PTEs, NEW k \in PTEs,
               Own(t, j), Own(u, k),
               ptable'[t][j] = ptable'[u][k], ptable'[t][j] # None
        PROVE  t = u /\ j = k
    <3>1. CASE ptable'[t][j] \in KMEM .. nr_frame - 1
      <4>1. \A p \in M : FrameFor(va, len, p) # ptable'[t][j]
        BY <1>t, <1>1, <3>1
      <4>2. ptable'[t][j] = ptable[t][j]
        BY <2>1, <2>3, <4>1
      <4>3. ptable'[u][k] = ptable[u][k]
        BY <2>1, <2>3, <4>1
      <4> QED
        BY <2>3, <4>2, <4>3 DEF FramesOnce
    <3>2. CASE ptable'[t][j] \notin KMEM .. nr_frame - 1
      <4>1. PICK p \in M : /\ t = UserTable(va, len, p \div NrPTE) /\ j = p % NrPTE
                           /\ ptable'[t][j] = FrameFor(va, len, p)
        BY <2>1, <2>3, <3>2
      <4>2. PICK q \in M : /\ u = UserTable(va, len, q \div NrPTE) /\ k = q % NrPTE
                           /\ ptable'[u][k] = FrameFor(va, len, q)
        BY <2>1, <2>3, <3>2
      <4>3. p = q
        BY <1>1, <2>3, <4>1, <4>2
      <4> QED
        BY <4>1, <4>2, <4>3
    <3> QED
      BY <3>1, <3>2
  <2> QED
    BY <2>2, <2>3 DEF FramesOnce, Own
<1> QED
  BY <1>t, <1>1, <1>2, <1>5, <1>7, <1>8, <1>9, <1>10

-----------------------------------------------------------------------------
LEMMA ElementLemma ==
  ASSUME NEW S, NEW s \in Seq(S)
  PROVE  \A k \in DOMAIN s : s[k] \in S
  OBVIOUS

LEMMA SegmentLemma ==
  /\ \A k \in DOMAIN Segments : Segments[k].vaddr \in Nat /\ Segments[k].memsz \in Nat
  /\ Len(Segments) \in Nat \ {0} /\ DOMAIN Segments = 1 .. Len(Segments)
  /\ Last \in Int
<1>1. /\ Segments \in Seq([vaddr : Nat, memsz : Nat, file : Seq(Byte)])
      /\ Len(Segments) \in Nat \ {0} /\ DOMAIN Segments = 1 .. Len(Segments)
  BY KernelMemoryTypes
<1>2. \A k \in DOMAIN Segments : Segments[k].vaddr \in Nat /\ Segments[k].memsz \in Nat
  <2>1. \A k \in DOMAIN Segments :
          Segments[k] \in [vaddr : Nat, memsz : Nat, file : Seq(Byte)]
    BY <1>1, ElementLemma
  <2> QED
    BY <2>1
<1> QED
  BY <1>1, <1>2 DEF Last

LEMMA InitIInv == ASSUME Init PROVE IInv
<1> USE TablesApart, TablesTyped, Sizes DEF Init
<1>1. Types
  BY KernelMemoryTypes DEF Types, KernelDirs
<1>2. LoadPoint /\ Fresh
  BY SegmentLemma DEF LoadPoint, Fresh
<1>3. TablesOnce
  BY DEF TablesOnce, KernelDirs, KTables, UserTables
<1>4. TablesLeft
  <2>1. Unused = PDEs
    BY DEF Unused, KernelDirs
  <2> QED
    BY <2>1 DEF TablesLeft
<1>5. FramesOnce
  BY DEF FramesOnce, OwnTables
<1> QED
  BY <1>1, <1>2, <1>3, <1>4, <1>5 DEF IInv

(* A step that leaves the tables alone.                                    *)
LEMMA SameTables ==
  ASSUME IInv, UNCHANGED <<pdir, ptable, nr_pt, nr_frame>>, brk' \in Int,
         LoadPoint', Fresh'
  PROVE  IInv'
  BY DEF IInv, Types, TablesOnce, TablesLeft, Unused, FramesOnce, Own

LEMMA InitPageKeeps == ASSUME IInv, InitPage PROVE IInv'
<1> USE TablesApart, TablesTyped, Sizes DEF IInv, InitPage, Types
<1>1. /\ pdir' \in [KernelDirs -> [PDEs -> Tables \cup {None}]]
      /\ pdir'["updir"] = pdir["updir"]
      /\ \A i \in PDEs : pdir'["kpdir"][i] \in KTables \cup {None}
  <2> DEFINE K(i) == CASE i < NrKTables                   -> KTable(i)
                       [] i - KPDE \in 0 .. NrKTables - 1 -> KTable(i - KPDE)
                       [] OTHER                           -> None
  <2>1. \A i \in PDEs : K(i) \in KTables \cup {None}
    <3> SUFFICES ASSUME NEW i \in PDEs PROVE K(i) \in KTables \cup {None}
      OBVIOUS
    <3>1. NrKTables \in Nat /\ KPDE \in Nat
      BY KernelMemoryTypes, DivMod DEF NrKTables, KPDE
    <3>2. CASE i < NrKTables
      BY <3>1, <3>2 DEF KTables
    <3>3. CASE ~(i < NrKTables) /\ i - KPDE \in 0 .. NrKTables - 1
      <4>1. K(i) = KTable(i - KPDE)
        BY <3>1, <3>3
      <4> QED
        BY <3>3, <4>1 DEF KTables
    <3>4. CASE ~(i < NrKTables) /\ i - KPDE \notin 0 .. NrKTables - 1
      <4>1. K(i) = None
        BY <3>1, <3>4
      <4> QED
        BY <4>1
    <3> QED
      BY <3>2, <3>3, <3>4
  <2>2. pdir' = [pdir EXCEPT !["kpdir"] = [i \in PDEs |-> K(i)]]
    OBVIOUS
  <2> HIDE DEF K
  <2> QED
    BY <2>1, <2>2 DEF KernelDirs
<1>2. \A t \in OwnTables, j \in PTEs : ptable'[t][j] = ptable[t][j]
  <2>1. \A t \in OwnTables : t \in Tables /\ t[1] # "kptable"
    <3>1. VTable[1] # "kptable" /\ \A i : UTable(i)[1] # "kptable"
      BY DEF VTable, UTable
    <3> QED
      BY <3>1 DEF OwnTables, UserTables
  <2> QED
    BY <2>1
<1>3. ptable' \in [Tables -> [PTEs -> Int \cup {None}]]
  <2>1. \A t \in Tables, j \in PTEs :
          (IF t[1] = "kptable" THEN t[2] * NrPTE + j ELSE ptable[t][j]) \in Int \cup {None}
    <3>1. \A i \in 0 .. NrKTables - 1 : KTable(i)[2] \in Int
      BY DEF KTable
    <3>2. \A t \in Tables : t[1] = "kptable" => t \in KTables
      BY KernelMemoryAssumption DEF KernelTables, KTables, VTable, UTable
    <3>3. \A t \in Tables : t[1] = "kptable" => t[2] \in Int
      BY <3>1, <3>2 DEF KTables
    <3> QED
      BY <3>3
  <2> QED
    BY <2>1
<1>4. nr_pt' = nr_pt /\ nr_frame' = nr_frame /\ brk' = brk /\ seg' = seg
  BY DEF alloc, loader
<1>5. TablesOnce' /\ TablesLeft'
  BY <1>1, <1>4 DEF TablesOnce, TablesLeft, Unused
<1>6. FramesOnce'
  <2> HIDE DEF InitPage
  <2>1. ASSUME NEW t \in OwnTables, NEW j \in PTEs, Own(t, j), ptable'[t][j] # None
        PROVE  ptable'[t][j] \in KMEM .. nr_frame' - 1
    BY <1>2, <1>4, <2>1 DEF FramesOnce
  <2>2. ASSUME NEW t \in OwnTables, NEW u \in OwnTables, NEW j \in PTEs, NEW k \in PTEs,
               Own(t, j), Own(u, k),
               ptable'[t][j] = ptable'[u][k], ptable'[t][j] # None
        PROVE  t = u /\ j = k
    <3>1. ptable[t][j] = ptable[u][k] /\ ptable[t][j] # None
      BY <1>2, <2>2
    <3> QED
      BY <2>2, <3>1 DEF FramesOnce
  <2> QED
    BY <2>1, <2>2 DEF FramesOnce, Own
<1> QED
  BY <1>1, <1>3, <1>4, <1>5, <1>6 DEF LoadPoint, Fresh

LEMMA InitMmKeeps == ASSUME IInv, InitMm PROVE IInv'
<1> USE TablesApart, TablesTyped, Sizes DEF IInv, InitMm, Types
<1>1. /\ pdir' \in [KernelDirs -> [PDEs -> Tables \cup {None}]]
      /\ pdir'["kpdir"] = pdir["kpdir"]
      /\ \A i \in PDEs : /\ pdir'["updir"][i] \in KTables \cup {None}
                         /\ pdir'["updir"][i] \in KTables => KPDE <= i
  <2>1. \A i \in PDEs : pdir["kpdir"][i] \in KTables \cup {None}
    BY DEF TablesOnce
  <2>2. KPDE \in Int
    BY KernelMemoryTypes DEF KPDE
  <2> QED
    BY <2>1, <2>2 DEF KernelDirs
<1>2. \A k \in KTables : k \notin UserTables /\ k # VTable /\ k # None
  BY DEF KTables, UserTables
<1>3. TablesOnce'
  BY SMTT(20), <1>1, <1>2 DEF TablesOnce, UserTables
<1>4. nr_pt' = 0 /\ nr_frame' = nr_frame /\ brk' = brk /\ seg' = seg /\ ptable' = ptable
  BY DEF alloc, loader, Fresh
<1>5. TablesLeft'
  <2>1. Unused' \in SUBSET PDEs
    BY DEF Unused
  <2>2. Cardinality(Unused') \in Nat /\ Cardinality(Unused') <= NrPDE
    <3>1. IsFiniteSet(Unused') /\ Cardinality(Unused') <= Cardinality(PDEs)
      BY <2>1, FS_Subset
    <3> QED
      BY <3>1, FS_CardinalityType
  <2> QED
    BY <1>4, <2>2 DEF TablesLeft
<1>6. FramesOnce'
  BY <1>4 DEF FramesOnce, Own
<1> QED
  BY <1>1, <1>3, <1>4, <1>5, <1>6 DEF LoadPoint, Fresh

LEMMA VideoMappingKeeps == ASSUME IInv, CreateVideoMapping PROVE IInv'
<1> USE TablesApart, TablesTyped, Sizes DEF IInv, CreateVideoMapping, Types
<1>1. nr_pt' = nr_pt /\ nr_frame' = nr_frame /\ brk' = brk /\ 0 \in PDEs /\ VideoPage \in PTEs
  BY KernelMemoryTypes, KernelMemoryAssumption DEF alloc
<1>2. /\ pdir' \in [KernelDirs -> [PDEs -> Tables \cup {None}]]
      /\ pdir'["kpdir"] = pdir["kpdir"]
      /\ \A i \in PDEs : pdir'["updir"][i] = IF i = 0 THEN VTable ELSE pdir["updir"][i]
  BY <1>1 DEF KernelDirs
<1>3. /\ ptable' \in [Tables -> [PTEs -> Int \cup {None}]]
      /\ \A t \in OwnTables, j \in PTEs : Own(t, j) => ptable'[t][j] = ptable[t][j]
  BY <1>1, KernelMemoryTypes DEF Own, OwnTables
<1>4. VTable \notin KTables /\ VTable \notin UserTables
  BY DEF KTables, UserTables
<1>5. TablesOnce'
  BY <1>1, <1>2, <1>4 DEF TablesOnce
<1>6. TablesLeft'
  <2>1. Unused \in SUBSET PDEs /\ Unused' \in SUBSET Unused
    BY <1>2 DEF Unused
  <2>2. /\ Cardinality(Unused') \in Nat /\ Cardinality(Unused) \in Nat
        /\ Cardinality(Unused') <= Cardinality(Unused)
    BY <2>1, FS_Subset, FS_CardinalityType
  <2> QED
    BY <1>1, <2>2 DEF TablesLeft
<1>7. FramesOnce'
  BY <1>1, <1>3 DEF FramesOnce, Own
<1> QED
  BY <1>1, <1>2, <1>3, <1>5, <1>6, <1>7 DEF LoadPoint, Fresh

(* A step that calls mm_malloc and goes on elsewhere.                      *)
LEMMA AllocKeeps ==
  ASSUME IInv, NEW va \in Int, NEW len \in Int, mm_malloc(va, len),
         brk' \in Int, LoadPoint', Fresh'
  PROVE  IInv'
  BY MallocKeeps DEF IInv, Types

LEMMA StartKeeps == ASSUME IInv, StartStep PROVE IInv'
<1> USE DEF LoadPoint, Fresh, mmu, alloc, loader
<1>t. brk \in Int /\ (LoadPoint /\ Fresh)
  BY DEF IInv, Types
<1>1. CASE InitPage
  BY <1>1, InitPageKeeps
<1>2. CASE InitMm
  BY <1>2, InitMmKeeps
<1>3. CASE VideoWriteTest
  BY <1>t, <1>3, SameTables DEF VideoWriteTest, VideoNext
<1>4. CASE MallocSegment
  <2>1. /\ Segments[seg].vaddr \in Int /\ Segments[seg].memsz \in Int
        /\ seg \in DOMAIN Segments
    BY <1>t, <1>4, SegmentLemma DEF MallocSegment
  <2>2. mm_malloc(Segments[seg].vaddr, Segments[seg].memsz)
    BY <1>4 DEF MallocSegment
  <2>3. brk' \in Int /\ LoadPoint' /\ Fresh'
    BY <1>t, <1>4 DEF MallocSegment
  <2> QED
    BY <2>1, <2>2, <2>3, AllocKeeps
<1>5. CASE LoadByte
  <2>1. /\ Segments[seg].vaddr \in Int /\ Segments[seg].memsz \in Int
        /\ seg \in 1 .. Len(Segments) /\ Len(Segments) \in Nat
    BY <1>t, <1>5, SegmentLemma DEF LoadByte
  <2>2. UNCHANGED <<pdir, ptable, nr_pt, nr_frame>>
    BY <1>5 DEF LoadByte
  <2>3. brk' \in Int
    BY <1>t, <1>5, <2>1 DEF LoadByte
  <2>4. LoadPoint' /\ Fresh'
    BY <1>t, <1>5, <2>1, SegmentLemma DEF LoadByte
  <2> QED
    BY <2>2, <2>3, <2>4, SameTables
<1>6. CASE MallocStack
  <2>1. (KOFFSET - StackPages) * PageLen \in Int /\ StackPages * PageLen \in Int
    BY KernelMemoryTypes, Sizes
  <2>2. mm_malloc((KOFFSET - StackPages) * PageLen, StackPages * PageLen)
    BY <1>6 DEF MallocStack
  <2>3. brk' \in Int /\ LoadPoint' /\ Fresh'
    BY <1>t, <1>6 DEF MallocStack
  <2> QED
    BY <2>1, <2>2, <2>3, AllocKeeps
<1>7. CASE CreateVideoMapping
  BY <1>7, VideoMappingKeeps
<1>8. CASE WriteCr3
  BY <1>t, <1>8, SameTables DEF WriteCr3
<1>9. CASE VideoReadTest
  BY <1>t, <1>9, SameTables DEF VideoReadTest, VideoNext
<1>10. CASE VideoClear
  BY <1>t, <1>10, SameTables DEF VideoClear, VideoNext
<1> QED
  BY <1>1, <1>2, <1>3, <1>4, <1>5, <1>6, <1>7, <1>8, <1>9, <1>10 DEF StartStep

LEMMA UserKeeps == ASSUME IInv, UserStep \/ KernelRuns PROVE IInv'
<1> USE DEF LoadPoint, Fresh, mmu, alloc, loader
<1>t. brk \in Int /\ (LoadPoint /\ Fresh)
  BY DEF IInv, Types
<1>1. ASSUME NEW acc, UserRead(acc[1], acc[2]) PROVE IInv'
  BY <1>t, <1>1, SameTables DEF UserRead
<1>2. ASSUME NEW acc, NEW data, UserWrite(acc[1], acc[2], data) PROVE IInv'
  BY <1>t, <1>2, SameTables DEF UserWrite
<1>3. ASSUME NEW new_brk \in Last + 1 .. MaxBrk, MmBrk(new_brk) PROVE IInv'
  <2>1. new_brk \in Int /\ new_brk - brk \in Int
    BY <1>t, KernelMemoryTypes, SegmentLemma
  <2>2. brk' \in Int /\ LoadPoint' /\ Fresh'
    BY <1>t, <1>3, <2>1 DEF MmBrk
  <2>3. CASE new_brk > brk
    <3>1. mm_malloc(brk, new_brk - brk)
      BY <1>3, <2>3 DEF MmBrk
    <3> QED
      BY <1>t, <2>1, <2>2, <3>1, AllocKeeps
  <2>4. CASE ~(new_brk > brk)
    <3>1. UNCHANGED <<pdir, ptable, nr_pt, nr_frame>>
      BY <1>3, <2>4 DEF MmBrk
    <3> QED
      BY <2>2, <3>1, SameTables
  <2> QED
    BY <2>3, <2>4
<1>4. ASSUME NEW new_brk \in Last + 1 .. MaxBrk, MmBrkPanic(new_brk) PROVE IInv'
  BY <1>t, <1>4, SameTables DEF MmBrkPanic, OutOfFrames
<1>5. CASE KernelRuns
  BY <1>t, <1>5, SameTables DEF KernelRuns
<1> QED
  BY <1>1, <1>2, <1>3, <1>4, <1>5 DEF UserStep

LEMMA NextIInv == IInv /\ [Next]_vars => IInv'
<1> SUFFICES ASSUME IInv, [Next]_vars PROVE IInv'
  OBVIOUS
<1>1. CASE Next
  BY <1>1, StartKeeps, UserKeeps DEF Next
<1>2. CASE UNCHANGED vars
  <2>1. UNCHANGED <<pdir, ptable, nr_pt, nr_frame, brk, stage, seg>>
    BY <1>2 DEF vars, mmu, alloc, loader
  <2>2. brk' \in Int /\ LoadPoint' /\ Fresh'
    BY <2>1 DEF IInv, Types, LoadPoint, Fresh
  <2> QED
    BY <2>1, <2>2, SameTables
<1> QED
  BY <1>1, <1>2

-----------------------------------------------------------------------------
(* The table of a page of the program is one that mm_malloc took, in one   *)
(* entry of the directory.                                                 *)
LEMMA WalkLemma ==
  ASSUME IInv, NEW p \in UserPages
  PROVE  /\ p \div NrPTE \in PDEs /\ p % NrPTE \in PTEs
         /\ p = NrPTE * (p \div NrPTE) + (p % NrPTE)
         /\ LET t == pdir["updir"][p \div NrPTE] IN
              /\ t \in OwnTables /\ Own(t, p % NrPTE)
              /\ Walk("updir", p) = ptable[t][p % NrPTE]
<1> DEFINE i == p \div NrPTE
           j == p % NrPTE
           t == pdir["updir"][i]
<1> USE Sizes, TablesTyped
<1>1. /\ p \in Nat /\ p < KOFFSET /\ p # VideoPage /\ Walk("updir", p) # None
  BY KernelMemoryTypes DEF UserPages
<1>2. /\ i \in Nat /\ j \in 0 .. NrPTE - 1 /\ p = NrPTE * i + j
  BY <1>1
<1>3. i < KPDE /\ i \in PDEs /\ KPDE \in Int
  <2>1. KPDE \in Nat /\ KOFFSET = NrPTE * KPDE
    <3>1. /\ KOFFSET \in Nat /\ KOFFSET \div NrPTE \in Nat /\ KOFFSET % NrPTE = 0
          /\ KOFFSET = NrPTE * (KOFFSET \div NrPTE) + (KOFFSET % NrPTE)
      BY KernelMemoryTypes, KernelMemoryAssumption, DivMod
    <3> QED
      BY <3>1 DEF KPDE
  <2>2. NrPTE * i < NrPTE * KPDE
    BY <1>1, <1>2, <2>1
  <2>3. i < KPDE
    BY <1>2, <2>1, <2>2
  <2>4. NrKTables \in Nat
    BY KernelMemoryTypes, DivMod DEF NrKTables
  <2> QED
    BY <1>2, <2>1, <2>3, <2>4, KernelMemoryAssumption
<1>4. t # None /\ t \in Tables /\ Walk("updir", p) = ptable[t][j]
  BY <1>1, <1>3 DEF Walk, IInv, Types, KernelDirs
<1>5. t \notin KTables /\ (t = VTable => i = 0)
  BY <1>3 DEF IInv, TablesOnce
<1>6. t \in OwnTables
  BY <1>4, <1>5, KernelMemoryAssumption
  DEF KernelTables, KTables, UserTables, OwnTables
<1>7. ~(t = VTable /\ j = VideoPage)
  BY <1>1, <1>2, <1>5
<1> QED
  BY <1>2, <1>3, <1>4, <1>6, <1>7 DEF Own

LEMMA IInvPrivate == ASSUME IInv PROVE FramesPrivate
<1>1. ASSUME NEW p \in UserPages PROVE Walk("updir", p) # None
  BY DEF UserPages
<1>2. ASSUME NEW p \in UserPages PROVE Walk("updir", p) \in KMEM .. nr_frame - 1
  BY <1>1, WalkLemma DEF IInv, FramesOnce
<1>3. ASSUME NEW p \in UserPages, NEW q \in UserPages,
             Walk("updir", p) = Walk("updir", q)
      PROVE  p = q
  <2>1. /\ pdir["updir"][p \div NrPTE] = pdir["updir"][q \div NrPTE]
        /\ p % NrPTE = q % NrPTE
    BY <1>1, <1>3, WalkLemma DEF IInv, FramesOnce
  <2>2. p \div NrPTE = q \div NrPTE
    BY <2>1, WalkLemma DEF IInv, TablesOnce, OwnTables
  <2> QED
    BY <2>1, <2>2, WalkLemma
<1> QED
  BY <1>2, <1>3 DEF FramesPrivate

(* mm_malloc in kernel/objd: whatever the loader and mm_brk ask for, in    *)
(* whatever order, no frame of a program is the kernel's, and no two of    *)
(* its pages share one.                                                    *)
THEOREM FramesSafe == Spec => []FramesPrivate
<1> QED
  BY InitIInv, NextIInv, IInvPrivate, PTL DEF Spec

-----------------------------------------------------------------------------
(* The kernel's own tables, the TLB and what the loader does: what the     *)
(* assertions on present bits (NoFault) and TlbAgrees rest on.             *)
KIndex    == 0 .. NrKTables - 1
Pages     == 0 .. NrPDE * NrPTE - 1
UserRange == PhyFrames .. KOFFSET - 1  \* where a program can be mapped

Switched == {"video_read", "video_clear", "user", "panic"}
Loading  == {"init_page", "init_mm", "video_write", "malloc", "load"}

End(k) == Segments[k].vaddr + Segments[k].memsz - 1

(* Which directory is in force.                                            *)
ModeInv ==
  IF stage = "init_page" THEN ~paging /\ cr3 = None
  ELSE paging /\ cr3 = IF stage \in Switched THEN "updir" ELSE "kpdir"

TlbTyped(t) == t \in [Entries -> [key : Pages \cup {None}, pte : Frames \cup {None}]]

Bounded ==
  /\ TLB_ENABLED \in BOOLEAN
  /\ stage \in Stages
  /\ at \in Nat
  /\ ptable \in [Tables -> [PTEs -> Frames \cup {None}]]
  /\ hw_mem \in [0 .. PhyFrames * PageLen - 1 -> Byte]
  /\ p_paddr \in 0 .. PhyFrames * PageLen - 1
  /\ nr_frame <= PhyFrames
  /\ reply = <<>> \/ \E len \in Lens : reply \in [0 .. len - 1 -> Byte]

(* The kernel's tables are the identity, in either half of its directory   *)
(* and in the upper part of the program's.                                 *)
KernelInv ==
  IF stage = "init_page" THEN \A i \in PDEs : pdir["updir"][i] = None
  ELSE /\ \A i \in KIndex, j \in PTEs : ptable[KTable(i)][j] = i * NrPTE + j
       /\ \A i \in KIndex : /\ pdir["kpdir"][i] = KTable(i)
                            /\ pdir["kpdir"][KPDE + i] = KTable(i)
       /\ \A i \in PDEs : pdir["kpdir"][i] # None => i \in KIndex \/ i - KPDE \in KIndex
       /\ IF stage = "init_mm" THEN \A i \in PDEs : pdir["updir"][i] = None
          ELSE \A i \in KIndex : pdir["updir"][KPDE + i] = KTable(i)

(* Below physical memory's size the program's directory maps the video     *)
(* page at most.                                                           *)
VideoInv ==
  /\ \A i \in KIndex : pdir["updir"][i] \in {None, VTable}
  /\ \A j \in PTEs : ptable[VTable][j] # None => j = VideoPage /\ ptable[VTable][j] = j
  /\ stage \in Switched \cup {"write_cr3"} =>
       pdir["updir"][0] = VTable /\ ptable[VTable][VideoPage] = VideoPage

(* A table is empty until mm_malloc takes it.                              *)
TablesEmpty == \A i \in PDEs, j \in PTEs : nr_pt <= i => ptable[UTable(i)][j] = None

(* An entry was filled from the directory in force, or from the kernel's   *)
(* before the switch, below physical memory's size.                        *)
Filled(e) ==
  e.key # None =>
    /\ e.pte # None
    /\ \/ e.pte = Walk(cr3, e.key)
       \/ cr3 = "updir" /\ e.key \in Frames /\ e.pte = e.key

TlbInv(t) == IF paging THEN \A i \in Entries : Filled(t[i])
                       ELSE \A i \in Entries : t[i].key = None

Mapped(p) == Walk("updir", p) # None

(* What the loader has mapped so far: the pages up to that of the last     *)
(* byte of segment NrLoaded, whose frame was the last one taken.           *)
NrLoaded == IF stage = "load" THEN seg ELSE seg - 1

SegmentPlaced ==
  LET first == Page(Segments[seg].vaddr)
      f     == Walk("updir", first) IN
    /\ p_paddr = f * PageLen + (Segments[seg].vaddr % PageLen)
    /\ \A p \in first .. Page(End(seg)) : Walk("updir", p) = f + (p - first)

LoadedInv ==
  /\ stage \in Loading \ {"malloc", "load"} => seg = 1
  /\ stage \notin Loading => seg = Len(Segments) + 1
  /\ stage \in {"video_write", "video_read", "video_clear"} => at < PageLen
  /\ stage = "load" => at < Segments[seg].memsz
  /\ stage \notin {"video_write", "video_read", "video_clear", "load"} => at = 0
  /\ \A k \in 1 .. NrLoaded : \A p \in PagesOf(Segments[k].vaddr, Segments[k].memsz) :
       Mapped(p)
  /\ stage \in Loading => \A p \in UserRange : Mapped(p) =>
       NrLoaded # 0 /\ p <= Page(End(NrLoaded))
  /\ stage \in Loading /\ NrLoaded # 0 =>
       Walk("updir", Page(End(NrLoaded))) = nr_frame - 1
  /\ stage = "load" => SegmentPlaced

(* The program's stack and the part of the heap below its break.           *)
BreakInv ==
  /\ stage \notin Loading \cup {"stack"} =>
       \A p \in KOFFSET - StackPages .. KOFFSET - 1 : Mapped(p)
  /\ IF stage \in {"user", "panic"}
     THEN /\ brk \in Last .. MaxBrk
          /\ \A a \in Last + 1 .. brk - 1 : Mapped(Page(a))
     ELSE brk = IF seg = 1 THEN 0 ELSE End(seg - 1)

(* The test pattern is in the video memory until it has been compared.     *)
PatternInv ==
  \A i \in 0 .. PageLen - 1 :
    (\/ stage = "video_write" /\ i < at
     \/ stage \in {"malloc", "load", "stack", "video_map", "write_cr3", "video_read"})
    => hw_mem[VideoStart + i] = TestByte(i)

KInv ==
  /\ IInv /\ ModeInv /\ Bounded /\ KernelInv /\ VideoInv /\ TablesEmpty
  /\ TlbTyped(tlb) /\ TlbInv(tlb) /\ LoadedInv /\ BreakInv /\ PatternInv

-----------------------------------------------------------------------------
(* Pages and addresses.                                                    *)
LEMMA Times ==
  ASSUME NEW n \in Nat, NEW p \in Int, NEW q \in Int, p < q
  PROVE  n * p + n <= n * q
<1>1. n * (p + 1) <= n * q
  OBVIOUS
<1> QED
  BY <1>1

(* A number has one quotient and one remainder.                            *)
LEMMA UniqueQuotient ==
  ASSUME NEW n \in Nat \ {0}, NEW x \in Nat, NEW q \in Int, NEW r \in 0 .. n - 1,
         x = n * q + r
  PROVE  x \div n = q /\ x % n = r
<1>1. /\ x \div n \in Int /\ x % n \in 0 .. n - 1
      /\ x = n * (x \div n) + (x % n)
  BY SMTT(20), DivMod
<1>2. n * q \in Int /\ n * (x \div n) \in Int
  BY <1>1
<1>3. CASE x \div n < q
  <2>1. n * (x \div n) + n <= n * q
    BY <1>1, <1>3, Times
  <2> QED
    BY <1>1, <1>2, <2>1
<1>4. CASE q < x \div n
  <2>1. n * q + n <= n * (x \div n)
    BY <1>1, <1>4, Times
  <2> QED
    BY <1>1, <1>2, <2>1
<1>5. CASE q = x \div n
  BY <1>1, <1>2, <1>5
<1> QED
  BY <1>1, <1>3, <1>4, <1>5

LEMMA QuotientGrows ==
  ASSUME NEW n \in Nat \ {0}, NEW x \in Nat, NEW y \in Nat, x <= y
  PROVE  x \div n <= y \div n
<1>1. /\ x \div n \in Nat /\ x % n \in 0 .. n - 1 /\ x = n * (x \div n) + (x % n)
      /\ y \div n \in Nat /\ y % n \in 0 .. n - 1 /\ y = n * (y \div n) + (y % n)
  BY DivMod
<1>2. CASE y \div n < x \div n
  <2>1. n * (y \div n) + n <= n * (x \div n)
    BY <1>1, <1>2, Times
  <2>2. n * (x \div n) \in Int /\ n * (y \div n) \in Int
    BY <1>1
  <2> QED
    BY <1>1, <2>1, <2>2
<1> QED
  BY <1>1, <1>2

LEMMA QuotientBound ==
  ASSUME NEW n \in Nat \ {0}, NEW x \in Nat, NEW q \in Nat
  PROVE  /\ n * q <= x => q <= x \div n
         /\ x < n * q => x \div n < q
<1>1. /\ x \div n \in Nat /\ x % n \in 0 .. n - 1
      /\ x = n * (x \div n) + (x % n)
  BY DivMod
<1>2. n * q \in Int /\ n * (x \div n) \in Int
  BY <1>1
<1>3. ASSUME n * q <= x, x \div n < q PROVE FALSE
  <2>1. n * (x \div n) + n <= n * q
    BY <1>1, <1>3, Times
  <2> QED
    BY <1>1, <1>2, <1>3, <2>1
<1>4. ASSUME x < n * q, q <= x \div n PROVE FALSE
  <2>1. q < (x \div n) + 1
    BY <1>1, <1>4
  <2>2. n * q + n <= n * ((x \div n) + 1)
    BY <1>1, <2>1, Times
  <2>3. n * ((x \div n) + 1) = n * (x \div n) + n
    BY <1>1
  <2> QED
    BY <1>1, <1>2, <1>4, <2>2, <2>3
<1> QED
  BY <1>1, <1>3, <1>4

LEMMA PageLemma ==
  ASSUME NEW a \in Nat
  PROVE  /\ Page(a) \in Nat /\ a % PageLen \in 0 .. PageLen - 1
         /\ a = Page(a) * PageLen + (a % PageLen)
         /\ \A b \in Nat : a <= b => Page(a) <= Page(b)
         /\ \A f \in Int, r \in 0 .. PageLen - 1 :
              a = f * PageLen + r => Page(a) = f /\ a % PageLen = r
         /\ \A q \in Nat : /\ q * PageLen <= a => q <= Page(a)
                           /\ a < q * PageLen => Page(a) < q
<1>0. PageLen \in Nat \ {0}
  BY MmuAssumption
<1>1. /\ Page(a) \in Nat /\ a % PageLen \in 0 .. PageLen - 1
      /\ a = PageLen * Page(a) + (a % PageLen)
  BY <1>0, DivMod DEF Page
<1>2. PageLen * Page(a) = Page(a) * PageLen
  BY <1>0, <1>1
<1>3. \A b \in Nat : a <= b => Page(a) <= Page(b)
  BY <1>0, QuotientGrows DEF Page
<1>4. ASSUME NEW f \in Int, NEW r \in 0 .. PageLen - 1, a = f * PageLen + r
      PROVE  Page(a) = f /\ a % PageLen = r
  <2>1. a = PageLen * f + r
    BY <1>0, <1>4
  <2> QED
    BY <1>0, <2>1, UniqueQuotient DEF Page
<1>5. ASSUME NEW q \in Nat
      PROVE  /\ q * PageLen <= a => q <= Page(a)
             /\ a < q * PageLen => Page(a) < q
  <2>1. q * PageLen = PageLen * q
    BY <1>0
  <2> QED
    BY <1>0, <2>1, QuotientBound DEF Page
<1> QED
  BY <1>1, <1>2, <1>3, <1>4, <1>5

(* Where directories, tables and the program lie.                          *)
LEMMA Geometry ==
  /\ NrKTables \in Nat \ {0} /\ KPDE \in Nat /\ NrKTables <= KPDE
  /\ KPDE + NrKTables <= NrPDE
  /\ PhyFrames \in Nat \ {0} /\ PhyFrames = NrPTE * NrKTables
  /\ KOFFSET \in Nat /\ KOFFSET = NrPTE * KPDE /\ PhyFrames <= KOFFSET
  /\ VideoPage \in PTEs /\ VideoPage < KMEM /\ KMEM \in Nat /\ KMEM <= PhyFrames
  /\ StackPages \in Nat /\ MaxBrk \in Nat /\ Last \in Nat /\ Last < MaxBrk
  /\ PhyFrames <= KOFFSET - StackPages
  /\ MaxBrk <= (KOFFSET - StackPages) * PageLen
  /\ PhyFrames * PageLen <= Segments[1].vaddr
<1> USE Sizes
<1>0. /\ PhyFrames \in Nat /\ KMEM \in Nat /\ KOFFSET \in Nat /\ VideoPage \in Nat
      /\ StackPages \in Nat /\ MaxBrk \in Nat
      /\ PhyFrames % NrPTE = 0 /\ KOFFSET % NrPTE = 0 /\ NrPDE >= KPDE + NrKTables
      /\ VideoPage < NrPTE /\ VideoPage < KMEM /\ KMEM <= PhyFrames
      /\ PhyFrames <= Page(Segments[1].vaddr)
      /\ Last < MaxBrk /\ MaxBrk <= (KOFFSET - StackPages) * PageLen
  BY KernelMemoryTypes, KernelMemoryAssumption
<1>1. /\ PhyFrames \div NrPTE \in Nat /\ PhyFrames = NrPTE * (PhyFrames \div NrPTE)
      /\ KOFFSET \div NrPTE \in Nat /\ KOFFSET = NrPTE * (KOFFSET \div NrPTE)
  <2>1. /\ PhyFrames % NrPTE = 0 /\ KOFFSET % NrPTE = 0
        /\ PhyFrames \in Nat /\ KOFFSET \in Nat
    BY <1>0
  <2>2. /\ PhyFrames \div NrPTE \in Nat
        /\ PhyFrames = NrPTE * (PhyFrames \div NrPTE) + (PhyFrames % NrPTE)
    BY <2>1, DivMod
  <2>3. /\ KOFFSET \div NrPTE \in Nat
        /\ KOFFSET = NrPTE * (KOFFSET \div NrPTE) + (KOFFSET % NrPTE)
    BY <2>1, DivMod
  <2>4. NrPTE * (PhyFrames \div NrPTE) \in Nat /\ NrPTE * (KOFFSET \div NrPTE) \in Nat
    BY <2>2, <2>3
  <2> QED
    BY <2>1, <2>2, <2>3, <2>4
<1>2. /\ NrKTables \in Nat /\ PhyFrames = NrPTE * NrKTables
      /\ KPDE \in Nat /\ KOFFSET = NrPTE * KPDE
  BY <1>1 DEF NrKTables, KPDE
<1>3. VideoPage \in Nat /\ VideoPage < KMEM /\ KMEM \in Nat /\ KMEM <= PhyFrames
  BY <1>0
<1>4. PhyFrames \in Nat \ {0} /\ NrKTables # 0
  BY <1>2, <1>3
<1>5. /\ Segments[1].vaddr \in Nat /\ Segments[1].memsz \in Nat /\ Segments[1].memsz > 0
      /\ 1 \in DOMAIN Segments /\ Len(Segments) \in DOMAIN Segments
      /\ Len(Segments) \in Nat
  BY SegmentLemma, KernelMemoryAssumption
<1>6. PhyFrames * PageLen <= Segments[1].vaddr
  <2>1. CASE Segments[1].vaddr < PhyFrames * PageLen
    <3>1. Page(Segments[1].vaddr) < PhyFrames
      BY <1>4, <1>5, <2>1, PageLemma
    <3>2. Page(Segments[1].vaddr) \in Nat
      BY <1>5, PageLemma
    <3> QED
      BY <1>0, <3>1, <3>2
  <2>2. PhyFrames * PageLen \in Nat
    BY <1>4
  <2> QED
    BY <1>5, <2>1, <2>2
<1>7. /\ Segments[Len(Segments)].vaddr \in Nat /\ Segments[Len(Segments)].memsz \in Nat
      /\ Segments[Len(Segments)].memsz > 0
      /\ Segments[1].vaddr <= Segments[Len(Segments)].vaddr
  <2>1. CASE Len(Segments) = 1
    BY <1>5, <2>1
  <2>2. CASE Len(Segments) # 1
    <3>1. 1 < Len(Segments)
      BY <1>5, <2>2, SegmentLemma
    <3>2. Segments[1].vaddr + Segments[1].memsz <= Segments[Len(Segments)].vaddr
      BY <1>5, <3>1, KernelMemoryAssumption
    <3>3. Segments[Len(Segments)].vaddr \in Nat /\ Segments[Len(Segments)].memsz \in Nat
      BY <1>5, SegmentLemma
    <3>4. Segments[Len(Segments)].memsz > 0
      BY <1>5, KernelMemoryAssumption
    <3> QED
      BY <1>5, <3>2, <3>3, <3>4
  <2> QED
    BY <2>1, <2>2
<1>8. Last \in Nat /\ Segments[1].vaddr <= Last
  <2> DEFINE v == Segments[Len(Segments)].vaddr
             m == Segments[Len(Segments)].memsz
             v1 == Segments[1].vaddr
  <2>1. v \in Nat /\ m \in Nat /\ m > 0 /\ v1 \in Nat /\ v1 <= v
    BY <1>5, <1>7
  <2>2. Last = v + m - 1
    BY DEF Last
  <2> HIDE DEF v, m, v1
  <2>3. Last \in Nat /\ v1 <= Last
    BY <2>1, <2>2
  <2> QED
    BY <2>3 DEF v1
<1>9. Last < MaxBrk /\ MaxBrk <= (KOFFSET - StackPages) * PageLen /\ MaxBrk \in Nat
  BY <1>0
<1>10. PhyFrames <= KOFFSET - StackPages
  <2>1. KOFFSET - StackPages \in Int
    BY <1>0
  <2>2. PhyFrames * PageLen \in Int /\ (KOFFSET - StackPages) * PageLen \in Int
    BY <1>4, <2>1
  <2>3. PhyFrames * PageLen <= (KOFFSET - StackPages) * PageLen
    <3> DEFINE x == PhyFrames * PageLen
               y == (KOFFSET - StackPages) * PageLen
               v1 == Segments[1].vaddr
    <3>1. x \in Int /\ y \in Int /\ v1 \in Nat /\ x <= v1 /\ v1 <= Last /\ Last < MaxBrk
          /\ MaxBrk <= y /\ Last \in Nat /\ MaxBrk \in Nat
      BY <1>5, <1>6, <1>8, <1>9, <2>2
    <3> HIDE DEF x, y, v1
    <3>2. x <= y
      BY <3>1
    <3> QED
      BY <3>2 DEF x, y
  <2>4. CASE KOFFSET - StackPages < PhyFrames
    <3>1. PageLen * (KOFFSET - StackPages) + PageLen <= PageLen * PhyFrames
      BY <1>4, <2>1, <2>4, Times
    <3>2. /\ PageLen * (KOFFSET - StackPages) = (KOFFSET - StackPages) * PageLen
          /\ PageLen * PhyFrames = PhyFrames * PageLen
      BY <1>4, <2>1
    <3> QED
      BY <2>2, <2>3, <3>1, <3>2
  <2> QED
    BY <1>4, <2>1, <2>4
<1>11. PhyFrames <= KOFFSET /\ StackPages \in Nat
  BY <1>0, <1>4, <1>10
<1>12. NrKTables <= KPDE
  <2>1. CASE KPDE < NrKTables
    <3>1. NrPTE * KPDE + NrPTE <= NrPTE * NrKTables
      BY <1>2, <2>1, Times
    <3> QED
      BY <1>2, <1>4, <1>11, <3>1
  <2> QED
    BY <1>2, <2>1
<1>13. KPDE + NrKTables <= NrPDE
  BY <1>0, <1>2
<1>14. VideoPage \in PTEs
  BY <1>0
<1> QED
  BY <1>2, <1>3, <1>4, <1>6, <1>8, <1>9, <1>10, <1>11, <1>12, <1>13, <1>14

(* The entries of a page.                                                  *)
LEMMA Indices ==
  /\ \A p \in Pages : /\ p \in Nat /\ p \div NrPTE \in PDEs /\ p % NrPTE \in PTEs
                      /\ p = NrPTE * (p \div NrPTE) + (p % NrPTE)
  /\ \A p \in Frames : /\ p \in Pages /\ KOFFSET + p \in Pages
                       /\ p \div NrPTE \in KIndex
                       /\ (KOFFSET + p) \div NrPTE = KPDE + (p \div NrPTE)
                       /\ (KOFFSET + p) % NrPTE = p % NrPTE
  /\ \A p \in UserRange : /\ p \in Pages /\ p \in Int /\ VideoPage < p
                          /\ p \div NrPTE \in NrKTables .. KPDE - 1
  /\ VideoPage \in Frames /\ VideoPage \div NrPTE = 0 /\ VideoPage % NrPTE = VideoPage
<1> USE Geometry, Sizes
<1>1. NrPDE * NrPTE = NrPTE * NrPDE /\ NrPTE * NrPDE \in Nat
  BY SMTT(30)
<1>2. ASSUME NEW p \in Pages
      PROVE  /\ p \in Nat /\ p \div NrPTE \in PDEs /\ p % NrPTE \in PTEs
             /\ p = NrPTE * (p \div NrPTE) + (p % NrPTE)
  <2>1. p \in Nat /\ p < NrPTE * NrPDE
    BY <1>1 DEF Pages
  <2>2. /\ p \div NrPTE \in Nat /\ p % NrPTE \in 0 .. NrPTE - 1
        /\ p = NrPTE * (p \div NrPTE) + (p % NrPTE)
    BY <2>1, DivMod
  <2>3. p \div NrPTE < NrPDE
    BY <2>1, QuotientBound
  <2> QED
    BY <2>1, <2>2, <2>3
<1>3. /\ KOFFSET + PhyFrames <= NrPTE * NrPDE /\ KOFFSET <= NrPTE * NrPDE
      /\ PhyFrames <= NrPTE * NrPDE
  <2>1. NrPTE * (KPDE + NrKTables) = NrPTE * KPDE + NrPTE * NrKTables
    OBVIOUS
  <2>2. NrPTE * (KPDE + NrKTables) <= NrPTE * NrPDE
    OBVIOUS
  <2> QED
    BY <1>1, <2>1, <2>2
<1>4. ASSUME NEW p \in Frames
      PROVE  /\ p \in Pages /\ KOFFSET + p \in Pages
             /\ p \div NrPTE \in KIndex
             /\ (KOFFSET + p) \div NrPTE = KPDE + (p \div NrPTE)
             /\ (KOFFSET + p) % NrPTE = p % NrPTE
  <2>1. p \in Nat /\ p < PhyFrames /\ p \in Int
    BY DEF Frames
  <2>2. p \in Pages /\ KOFFSET + p \in Pages
    BY <1>1, <1>3, <2>1 DEF Pages
  <2>3. /\ p \div NrPTE \in Nat /\ p % NrPTE \in 0 .. NrPTE - 1
        /\ p = NrPTE * (p \div NrPTE) + (p % NrPTE)
    BY <2>1, DivMod
  <2>4. p \div NrPTE \in KIndex
    <3>1. p \div NrPTE < NrKTables
      BY <2>1, QuotientBound
    <3> QED
      BY <2>3, <3>1 DEF KIndex
  <2>5. KOFFSET + p = NrPTE * (KPDE + (p \div NrPTE)) + (p % NrPTE)
    <3>1. NrPTE * (KPDE + (p \div NrPTE)) = NrPTE * KPDE + NrPTE * (p \div NrPTE)
      BY <2>3
    <3>2. NrPTE * (p \div NrPTE) \in Int /\ NrPTE * KPDE \in Int
      BY <2>3
    <3> QED
      BY <2>3, <3>1, <3>2
  <2>6. /\ (KOFFSET + p) \div NrPTE = KPDE + (p \div NrPTE)
        /\ (KOFFSET + p) % NrPTE = p % NrPTE
    <3>1. KOFFSET + p \in Nat /\ KPDE + (p \div NrPTE) \in Int
      BY <2>1, <2>3
    <3> QED
      BY <2>3, <2>5, <3>1, UniqueQuotient
  <2> QED
    BY <2>2, <2>4, <2>6
<1>5. ASSUME NEW p \in UserRange
      PROVE  /\ p \in Pages /\ p \in Int /\ VideoPage < p
             /\ p \div NrPTE \in NrKTables .. KPDE - 1
  <2>1. p \in Nat /\ PhyFrames <= p /\ p < KOFFSET
    BY DEF UserRange
  <2>2. p \in Pages
    BY <1>1, <1>3, <2>1 DEF Pages
  <2>3. VideoPage < p
    BY <2>1
  <2>4. NrKTables <= p \div NrPTE /\ p \div NrPTE < KPDE /\ p \div NrPTE \in Nat
    BY <2>1, QuotientBound, DivMod
  <2> QED
    BY <2>1, <2>2, <2>3, <2>4
<1>6. VideoPage \in Frames /\ VideoPage \div NrPTE = 0 /\ VideoPage % NrPTE = VideoPage
  <2>1. VideoPage \in Nat /\ VideoPage \in 0 .. NrPTE - 1 /\ VideoPage = NrPTE * 0 + VideoPage
    OBVIOUS
  <2>2. VideoPage \div NrPTE = 0 /\ VideoPage % NrPTE = VideoPage
    <3>1. NrPTE \in Nat \ {0} /\ 0 \in Int
      OBVIOUS
    <3> HIDE Geometry, Sizes
    <3> QED
      BY <2>1, <3>1, UniqueQuotient
  <2>3. VideoPage \in Frames
    BY DEF Frames
  <2> QED
    BY <2>2, <2>3
<1> QED
  BY <1>2, <1>4, <1>5, <1>6

(* The pages of segments, stack and heap.                                  *)
LEMMA Ranges ==
  /\ \A k \in DOMAIN Segments :
       /\ Segments[k].vaddr \in Nat /\ Segments[k].memsz \in Nat \ {0}
       /\ End(k) \in Nat /\ Segments[k].vaddr <= End(k) /\ End(k) <= Last
       /\ Page(Segments[k].vaddr) \in UserRange /\ Page(End(k)) \in UserRange
       /\ PagesOf(Segments[k].vaddr, Segments[k].memsz)
            = Page(Segments[k].vaddr) .. Page(End(k))
       /\ \A p \in Page(Segments[k].vaddr) .. Page(End(k)) : p \in UserRange
  /\ \A j, k \in DOMAIN Segments :
       j < k => End(j) < Segments[k].vaddr /\ Page(End(j)) <= Page(Segments[k].vaddr)
  /\ End(Len(Segments)) = Last
<1> USE SegmentLemma
<1>1. \A k \in DOMAIN Segments :
        Segments[k].vaddr \in Nat /\ Segments[k].memsz \in Nat \ {0}
  BY KernelMemoryAssumption
<1>e. \A k \in DOMAIN Segments : /\ End(k) = Segments[k].vaddr + Segments[k].memsz - 1
                                 /\ End(k) \in Nat /\ Segments[k].vaddr <= End(k)
  <2> SUFFICES ASSUME NEW k \in DOMAIN Segments
               PROVE  /\ End(k) = Segments[k].vaddr + Segments[k].memsz - 1
                      /\ End(k) \in Nat /\ Segments[k].vaddr <= End(k)
    OBVIOUS
  <2> DEFINE v == Segments[k].vaddr
             m == Segments[k].memsz
  <2>1. v \in Nat /\ m \in Nat \ {0} /\ End(k) = v + m - 1
    BY <1>1 DEF End
  <2> HIDE DEF v, m
  <2>2. End(k) = v + m - 1 /\ End(k) \in Nat /\ v <= End(k)
    BY <2>1
  <2> QED
    BY <2>2 DEF v, m
<1>2. ASSUME NEW j \in DOMAIN Segments, NEW k \in DOMAIN Segments, j < k
      PROVE  End(j) < Segments[k].vaddr /\ Page(End(j)) <= Page(Segments[k].vaddr)
  <2>1. Segments[j].vaddr + Segments[j].memsz <= Segments[k].vaddr
    BY <1>2, KernelMemoryAssumption
  <2>2. End(j) \in Nat /\ End(j) < Segments[k].vaddr
    BY <1>1, <2>1, <1>e
  <2>3. Segments[k].vaddr \in Nat /\ End(j) <= Segments[k].vaddr
    BY <1>1, <2>2
  <2> QED
    BY <2>2, <2>3, PageLemma
<1>3. End(Len(Segments)) = Last
  BY DEF End, Last
<1>4. ASSUME NEW k \in DOMAIN Segments
      PROVE  /\ End(k) \in Nat /\ Segments[k].vaddr <= End(k) /\ End(k) <= Last
             /\ Page(Segments[k].vaddr) \in UserRange /\ Page(End(k)) \in UserRange
             /\ PagesOf(Segments[k].vaddr, Segments[k].memsz)
                  = Page(Segments[k].vaddr) .. Page(End(k))
             /\ \A p \in Page(Segments[k].vaddr) .. Page(End(k)) : p \in UserRange
  <2>1. End(k) \in Nat /\ Segments[k].vaddr <= End(k) /\ Segments[k].vaddr \in Nat
    BY <1>1, <1>e
  <2>2. End(k) <= Last
    <3>1. CASE k = Len(Segments)
      BY <1>3, <3>1
    <3>2. CASE k < Len(Segments)
      <4>1. /\ Len(Segments) \in DOMAIN Segments
            /\ Segments[Len(Segments)].vaddr <= Last
            /\ Segments[Len(Segments)].vaddr \in Nat
        BY <1>1, <1>e, <1>3
      <4>2. End(k) < Segments[Len(Segments)].vaddr
        BY <1>2, <3>2, <4>1
      <4> QED
        BY <2>1, <4>1, <4>2
    <3> QED
      BY <3>1, <3>2
  <2>3. PhyFrames * PageLen <= Segments[k].vaddr
    <3>1. CASE k = 1
      BY <3>1, Geometry
    <3>2. CASE 1 < k
      <4>1. 1 \in DOMAIN Segments /\ Segments[1].vaddr <= End(1) /\ End(1) \in Nat
        BY <1>e
      <4>2. PhyFrames * PageLen \in Int /\ Segments[1].vaddr \in Nat
        BY <1>1, <4>1, Geometry, Sizes
      <4>3. End(1) < Segments[k].vaddr
        BY <1>2, <3>2, <4>1
      <4> QED
        <5> DEFINE x == PhyFrames * PageLen
        <5>1. x \in Int /\ x <= Segments[1].vaddr
          BY <4>2, Geometry
        <5> HIDE DEF x
        <5>2. x <= Segments[k].vaddr
          BY <2>1, <4>1, <4>2, <4>3, <5>1
        <5> QED
          BY <5>2 DEF x
    <3> QED
      BY <3>1, <3>2
  <2>4. End(k) < KOFFSET * PageLen
    <3> DEFINE x == KOFFSET * PageLen
               y == (KOFFSET - StackPages) * PageLen
    <3>1. y <= x /\ x \in Int /\ y \in Int
      <4>1. KOFFSET - StackPages \in Int /\ KOFFSET - StackPages <= KOFFSET /\ KOFFSET \in Int
        BY Geometry
      <4> QED
        BY <4>1, Sizes, SMTT(30)
    <3>2. Last < MaxBrk /\ MaxBrk <= y /\ Last \in Nat /\ MaxBrk \in Nat
      BY Geometry
    <3> HIDE DEF x, y
    <3>3. End(k) < x
      BY <2>1, <2>2, <3>1, <3>2
    <3> QED
      BY <3>3 DEF x
  <2>5. PhyFrames <= Page(Segments[k].vaddr) /\ Page(Segments[k].vaddr) \in Nat
    BY <2>1, <2>3, PageLemma, Geometry
  <2>6. Page(End(k)) < KOFFSET /\ Page(End(k)) \in Nat
    BY <2>1, <2>4, PageLemma, Geometry
  <2>7. Page(Segments[k].vaddr) <= Page(End(k))
    BY <2>1, PageLemma
  <2>8. PagesOf(Segments[k].vaddr, Segments[k].memsz)
          = Page(Segments[k].vaddr) .. Page(End(k))
    BY <1>1 DEF PagesOf, End
  <2>9. \A p \in Page(Segments[k].vaddr) .. Page(End(k)) : p \in UserRange
    BY SMTT(20), <2>5, <2>6, Geometry DEF UserRange
  <2>10. Page(Segments[k].vaddr) \in UserRange /\ Page(End(k)) \in UserRange
    BY <2>5, <2>6, <2>7, <2>9
  <2> QED
    BY <2>1, <2>2, <2>8, <2>9, <2>10
<1> QED
  BY <1>1, <1>2, <1>3, <1>4

LEMMA HeapAndStack ==
  /\ PagesOf((KOFFSET - StackPages) * PageLen, StackPages * PageLen)
       = KOFFSET - StackPages .. KOFFSET - 1
  /\ \A p \in KOFFSET - StackPages .. KOFFSET - 1 : p \in UserRange
  /\ \A a \in StackAddr : a \in Nat /\ Page(a) \in KOFFSET - StackPages .. KOFFSET - 1
  /\ \A a \in Last .. MaxBrk - 1 :
       a \in Nat /\ Page(a) \in UserRange /\ Page(Last) <= Page(a)
  /\ \A x \in Last .. MaxBrk, y \in Last .. MaxBrk :
       x < y => PagesOf(x, y - x) = Page(x) .. Page(y - 1)
  /\ \A k \in DOMAIN Segments : \A a \in SegmentAddr(Segments[k]) :
       /\ a \in Nat /\ Page(a) \in UserRange
       /\ Page(a) \in PagesOf(Segments[k].vaddr, Segments[k].memsz)
<1>1. /\ KOFFSET \in Nat /\ StackPages \in Nat /\ KOFFSET - StackPages \in Nat
      /\ PageLen \in Nat \ {0} /\ PhyFrames \in Nat
      /\ PhyFrames <= KOFFSET - StackPages
  <2>1. /\ KOFFSET \in Nat /\ StackPages \in Nat /\ PhyFrames \in Nat
        /\ PhyFrames <= KOFFSET - StackPages
    BY Geometry
  <2>2. PageLen \in Nat \ {0}
    BY Sizes
  <2> QED
    BY <2>1, <2>2
<1> DEFINE lo == (KOFFSET - StackPages) * PageLen
           hi == KOFFSET * PageLen
           sz == StackPages * PageLen
<1>2. lo \in Nat /\ hi \in Nat /\ sz \in Nat /\ hi = lo + sz
  <2>1. \A x, y, z \in Nat : (x + y) * z = x * z + y * z /\ x * z \in Nat
    OBVIOUS
  <2>2. (KOFFSET - StackPages) + StackPages = KOFFSET
    BY <1>1
  <2> QED
    BY <1>1, <2>1, <2>2
<1>3. \A p \in KOFFSET - StackPages .. KOFFSET - 1 : p \in UserRange
  BY <1>1 DEF UserRange
<1>4. ASSUME NEW a \in lo .. hi - 1
      PROVE  a \in Nat /\ Page(a) \in KOFFSET - StackPages .. KOFFSET - 1
  <2>1. a \in Nat /\ lo <= a /\ a < hi
    BY <1>2
  <2>2. KOFFSET - StackPages <= Page(a) /\ Page(a) < KOFFSET /\ Page(a) \in Nat
    BY <1>1, <2>1, PageLemma
  <2> QED
    BY <1>1, <2>1, <2>2
<1>5. PagesOf(lo, sz) = KOFFSET - StackPages .. KOFFSET - 1
  <2>1. CASE StackPages = 0
    <3>1. sz = 0
      BY <1>1, <2>1
    <3> QED
      BY <1>1, <2>1, <3>1 DEF PagesOf
  <2>2. CASE StackPages # 0
    <3>1. sz > 0
      BY <1>1, <1>2, <2>2
    <3>2. Page(lo) = KOFFSET - StackPages
      <4>1. /\ lo = (KOFFSET - StackPages) * PageLen + 0 /\ lo \in Nat
            /\ KOFFSET - StackPages \in Int /\ 0 \in 0 .. PageLen - 1
        BY <1>1, <1>2
      <4> HIDE DEF lo
      <4> QED
        BY <4>1, PageLemma
    <3>3. Page(lo + sz - 1) = KOFFSET - 1
      <4>1. (KOFFSET - 1) * PageLen = hi - PageLen
        BY <1>1
      <4>2. hi - 1 = (KOFFSET - 1) * PageLen + (PageLen - 1)
        BY <1>1, <1>2, <4>1
      <4>3. hi - 1 \in Nat /\ KOFFSET - 1 \in Int /\ PageLen - 1 \in 0 .. PageLen - 1
        BY <1>1, <1>2, <3>1
      <4>4. Page(hi - 1) = KOFFSET - 1
        BY <4>2, <4>3, PageLemma
      <4> QED
        BY <1>2, <4>4
    <3> HIDE DEF lo, sz
    <3> QED
      BY <1>2, <3>1, <3>2, <3>3 DEF PagesOf
  <2> QED
    BY <2>1, <2>2
<1>6. PhyFrames * PageLen <= Last /\ PhyFrames * PageLen \in Nat
      /\ Last \in Nat /\ MaxBrk \in Nat /\ Last < MaxBrk /\ MaxBrk <= lo
  <2>1. /\ PhyFrames * PageLen <= Segments[1].vaddr /\ Segments[1].vaddr \in Nat
        /\ Segments[1].vaddr <= End(1) /\ End(1) <= Last /\ End(1) \in Nat
    BY Geometry, Ranges, SegmentLemma
  <2>2. PhyFrames * PageLen \in Nat
    BY <1>1
  <2>3. Last \in Nat /\ MaxBrk \in Nat /\ Last < MaxBrk /\ MaxBrk <= lo
    BY Geometry
  <2> HIDE DEF lo
  <2> QED
    BY <2>1, <2>2, <2>3
<1>7. ASSUME NEW a \in Last .. MaxBrk - 1
      PROVE  a \in Nat /\ Page(a) \in UserRange /\ Page(Last) <= Page(a)
  <2> HIDE DEF lo
  <2> DEFINE x == PhyFrames * PageLen
  <2>0. x \in Nat /\ x <= Last /\ Last \in Nat /\ MaxBrk \in Nat /\ MaxBrk <= lo /\ lo \in Nat
    BY <1>2, <1>6
  <2> HIDE DEF x
  <2>x. a \in Nat /\ Last <= a /\ x <= a /\ a < lo
    BY <2>0
  <2>1. a \in Nat /\ Last <= a /\ PhyFrames * PageLen <= a /\ a < lo
    BY <2>x DEF x
  <2>2. PhyFrames <= Page(a) /\ Page(a) \in Nat /\ Page(Last) <= Page(a)
    BY <1>1, <1>6, <2>1, PageLemma
  <2>3. Page(a) < KOFFSET - StackPages
    BY <1>1, <2>1, PageLemma DEF lo
  <2> QED
    BY <1>1, <2>1, <2>2, <2>3 DEF UserRange
<1>8. ASSUME NEW x \in Last .. MaxBrk, NEW y \in Last .. MaxBrk, x < y
      PROVE  PagesOf(x, y - x) = Page(x) .. Page(y - 1)
  <2>1. x \in Int /\ y \in Int /\ ~(y - x <= 0) /\ x + (y - x) - 1 = y - 1
    BY <1>6, <1>8
  <2> QED
    BY <2>1 DEF PagesOf
<1>9. ASSUME NEW k \in DOMAIN Segments, NEW a \in SegmentAddr(Segments[k])
      PROVE  /\ a \in Nat /\ Page(a) \in UserRange
             /\ Page(a) \in PagesOf(Segments[k].vaddr, Segments[k].memsz)
  <2> DEFINE v == Segments[k].vaddr
  <2>1. v \in Nat /\ End(k) \in Nat /\ a \in v .. End(k)
    BY Ranges DEF SegmentAddr, End
  <2>2. /\ PagesOf(v, Segments[k].memsz) = Page(v) .. Page(End(k))
        /\ \A p \in Page(v) .. Page(End(k)) : p \in UserRange
    BY Ranges
  <2> HIDE DEF v
  <2>3. a \in Nat /\ v <= a /\ a <= End(k)
    BY <2>1
  <2>4. Page(v) <= Page(a) /\ Page(a) <= Page(End(k)) /\ Page(a) \in Nat
        /\ Page(v) \in Nat /\ Page(End(k)) \in Nat
    BY <2>1, <2>3, PageLemma
  <2>5. Page(a) \in Page(v) .. Page(End(k))
    BY <2>4
  <2> QED
    BY <2>2, <2>3, <2>5 DEF v
<1> QED
  BY <1>3, <1>4, <1>5, <1>7, <1>8, <1>9 DEF StackAddr

-----------------------------------------------------------------------------
(* The TLB.                                                                *)
LEMMA WalkTyped ==
  ASSUME KInv, NEW dir \in KernelDirs, NEW p \in Pages
  PROVE  Walk(dir, p) \in Frames \cup {None}
<1>1. p \div NrPTE \in PDEs /\ p % NrPTE \in PTEs
  BY Indices
<1> QED
  BY <1>1 DEF Walk, KInv, IInv, Types, Bounded

(* A hit whose page the directory in force maps has its frame.             *)
LEMMA HitRight ==
  ASSUME KInv, paging, NEW t, TlbTyped(t), TlbInv(t), NEW i \in Entries,
         t[i].key # None, Walk(cr3, t[i].key) # None
  PROVE  t[i].pte = Walk(cr3, t[i].key)
<1> DEFINE p == t[i].key
<1>1. CASE t[i].pte = Walk(cr3, p)
  BY <1>1
<1>2. CASE cr3 = "updir" /\ p \in Frames /\ t[i].pte = p
  <2>1. /\ p \in Pages /\ p \div NrPTE \in KIndex /\ p \div NrPTE \in PDEs
        /\ p % NrPTE \in PTEs /\ p = NrPTE * (p \div NrPTE) + (p % NrPTE)
    BY <1>2, Indices
  <2>2. pdir["updir"][p \div NrPTE] = VTable
    BY <1>2, <2>1 DEF Walk, KInv, VideoInv
  <2>3. p \div NrPTE = 0
    BY <2>1, <2>2 DEF KInv, IInv, TablesOnce
  <2>4. VTable # None
    BY TablesTyped
  <2>5. Walk(cr3, p) = ptable[VTable][p % NrPTE]
    BY <1>2, <2>2, <2>4 DEF Walk
  <2>6. Walk(cr3, p) = p % NrPTE
    BY <2>1, <2>5 DEF KInv, VideoInv
  <2>7. p % NrPTE = p
    BY <2>1, <2>3, Sizes
  <2> QED
    BY <1>2, <2>6, <2>7
<1> QED
  BY <1>1, <1>2 DEF TlbInv, Filled

(* A set of entries has a first one.                                       *)
LEMMA LeastHit ==
  ASSUME NEW S \in SUBSET Nat, S # {}
  PROVE  \E i \in S : \A j \in S : i <= j
<1>1. PICK i \in S : \A j \in S : <<j, i>> \notin OpToRel(<, Nat)
  BY NatLessThanWellFounded, WFMin, Zenon
<1>2. \A i1, j1 \in Nat : <<i1, j1>> \in OpToRel(<, Nat) <=> i1 < j1
  BY SMT DEF OpToRel
<1>3. \A j \in S : ~(j < i)
  BY <1>1, <1>2, Zenon
<1> QED
  BY <1>3

LEMMA FrameRight ==
  ASSUME KInv, paging, NEW t, TlbTyped(t), TlbInv(t), NEW p \in Pages,
         Walk(cr3, p) # None
  PROVE  Frame(t, p) = Walk(cr3, p)
<1>1. CASE TLB_ENABLED /\ TlbHits(t, p) # {}
  <2> DEFINE hit == CHOOSE i \in TlbHits(t, p) : \A j \in TlbHits(t, p) : i <= j
  <2>1. \E i \in TlbHits(t, p) : \A j \in TlbHits(t, p) : i <= j
    <3>1. TlbHits(t, p) \in SUBSET Nat /\ TlbHits(t, p) # {}
      BY <1>1 DEF TlbHits, Entries
    <3> QED
      BY <3>1, LeastHit
  <2>2. hit \in TlbHits(t, p)
    BY <2>1, Zenon
  <2>3. hit \in Entries /\ t[hit].key = p
    BY <2>2 DEF TlbHits
  <2>4. p # None
    BY Sizes, Indices
  <2>5. t[hit].pte = Walk(cr3, p)
    BY <2>3, <2>4, HitRight
  <2> QED
    BY <1>1, <2>5 DEF Frame
<1>2. CASE ~(TLB_ENABLED /\ TlbHits(t, p) # {})
  BY <1>2 DEF Frame
<1> QED
  BY <1>1, <1>2

(* A miss fills an entry from the directory in force.                      *)
LEMMA FillKeeps ==
  ASSUME KInv, paging, NEW t, TlbTyped(t), TlbInv(t), NEW p \in Pages,
         Walk(cr3, p) # None, NEW u \in TlbAfter(t, p)
  PROVE  TlbTyped(u) /\ TlbInv(u)
<1>1. CASE u = t
  BY <1>1
<1>2. CASE \E i \in Entries : u = TlbFill(t, i, p)
  <2>1. PICK i \in Entries : u = TlbFill(t, i, p)
    BY <1>2
  <2>2. Walk(cr3, p) \in Frames
    <3>1. cr3 \in KernelDirs
      BY DEF KInv, ModeInv, KernelDirs
    <3> QED
      BY <3>1, WalkTyped
  <2>3. u = [t EXCEPT ![i] = [key |-> p, pte |-> Walk(cr3, p)]]
    BY <2>1 DEF TlbFill
  <2>4. TlbTyped(u)
    BY <2>2, <2>3 DEF TlbTyped
  <2>5. \A j \in Entries : u[j] = IF j = i THEN [key |-> p, pte |-> Walk(cr3, p)] ELSE t[j]
    BY <2>3 DEF TlbTyped
  <2>6. TlbInv(u)
    BY <2>5 DEF TlbInv, Filled
  <2> QED
    BY <2>4, <2>6
<1> QED
  BY <1>1, <1>2 DEF TlbAfter

(* The pages of an access.                                                 *)
LEMMA AccessPages ==
  ASSUME NEW a \in Nat, NEW len \in 1 .. PageLen
  PROVE  /\ a + len - 1 \in Nat
         /\ \/ Page(a + len - 1) = Page(a)
            \/ Page(a + len - 1) = Page(a) + 1
<1>1. PageLen \in Nat \ {0} /\ len \in Nat /\ a + len - 1 \in Nat
  BY Sizes
<1>2. /\ Page(a) \in Nat /\ a % PageLen \in 0 .. PageLen - 1
      /\ a = Page(a) * PageLen + (a % PageLen) /\ Page(a) * PageLen \in Nat
  BY <1>1, PageLemma
<1> DEFINE b == a + len - 1
           x == Page(a) * PageLen
           y == (Page(a) + 2) * PageLen
<1>3. y = x + 2 * PageLen /\ x \in Nat /\ a = x + (a % PageLen)
  BY <1>1, <1>2
<1> HIDE DEF x, y
<1>4. b \in Nat /\ b < y /\ a <= b /\ Page(a) + 2 \in Nat
  BY <1>1, <1>2, <1>3
<1>5. /\ Page(a) <= Page(b)
      /\ Page(b) \in Nat
  BY <1>4, PageLemma
<1>6. Page(b) < Page(a) + 2
  BY <1>4, PageLemma DEF y
<1> HIDE DEF b
<1>7. Page(b) = Page(a) \/ Page(b) = Page(a) + 1
  <2>1. Page(a) \in Nat
    BY <1>2
  <2> QED
    BY <2>1, <1>5, <1>6
<1> QED
  BY <1>1, <1>7 DEF b

LEMMA InMemory ==
  ASSUME NEW f \in Frames, NEW r \in 0 .. PageLen - 1
  PROVE  f * PageLen + r \in 0 .. PhyFrames * PageLen - 1
<1>1. /\ f \in Nat /\ PhyFrames \in Nat /\ f < PhyFrames /\ PageLen \in Nat \ {0}
      /\ PageLen * f = f * PageLen /\ PageLen * PhyFrames = PhyFrames * PageLen
      /\ f * PageLen \in Nat /\ PhyFrames * PageLen \in Nat
  BY Geometry, Sizes DEF Frames
<1>2. PageLen * f + PageLen <= PageLen * PhyFrames
  BY <1>1, Times
<1> QED
  BY <1>1, <1>2

(* The translation of an access to mapped pages: the TLB stays right, and  *)
(* every byte is where the directory in force says.                        *)
LEMMA TranslateKeeps ==
  ASSUME KInv, paging, NEW a \in Nat, NEW len \in 1 .. PageLen,
         Page(a) \in Pages, Page(a + len - 1) \in Pages,
         Walk(cr3, Page(a)) # None, Walk(cr3, Page(a + len - 1)) # None,
         NEW t \in TlbsAfter(a), Translate(a, len, t)
  PROVE  /\ TlbTyped(t) /\ TlbInv(t)
         /\ TlbTyped(tlb') /\ TlbInv(tlb')
<1>1. TlbTyped(t) /\ TlbInv(t)
  BY FillKeeps DEF TlbsAfter, KInv
<1>2. TlbTyped(tlb') /\ TlbInv(tlb')
  BY <1>1, FillKeeps DEF Translate
<1> QED
  BY <1>1, <1>2

LEMMA BytePlace ==
  ASSUME KInv, paging, NEW a \in Nat, NEW len \in 1 .. PageLen,
         Page(a) \in Pages, Page(a + len - 1) \in Pages,
         Walk(cr3, Page(a)) # None, Walk(cr3, Page(a + len - 1)) # None,
         NEW t, TlbTyped(t), TlbInv(t), NEW i \in 0 .. len - 1
  PROVE  /\ Page(a + i) \in {Page(a), Page(a + len - 1)}
         /\ BytePaddr(t, a, len, i)
              = Walk(cr3, Page(a + i)) * PageLen + ((a + i) % PageLen)
         /\ BytePaddr(t, a, len, i) \in 0 .. PhyFrames * PageLen - 1
<1>1. /\ PageLen \in Nat \ {0} /\ len \in Nat /\ i \in Nat /\ i < len
      /\ a + len - 1 \in Nat /\ a + i \in Nat
      /\ Page(a + len - 1) = Page(a) \/ Page(a + len - 1) = Page(a) + 1
  <2>1. PageLen \in Nat \ {0} /\ len \in Nat /\ i \in Nat /\ i < len /\ a + i \in Nat
    BY Sizes
  <2> QED
    BY <2>1, AccessPages
<1>2. /\ Page(a) \in Nat /\ a % PageLen \in 0 .. PageLen - 1
      /\ a = Page(a) * PageLen + (a % PageLen) /\ Page(a) * PageLen \in Nat
      /\ (Page(a) + 1) * PageLen = Page(a) * PageLen + PageLen
  <2>1. /\ Page(a) \in Nat /\ a % PageLen \in 0 .. PageLen - 1
        /\ a = Page(a) * PageLen + (a % PageLen)
    BY <1>1, PageLemma
  <2>2. \A x \in Nat, y \in Nat : (x + 1) * y = x * y + y /\ x * y \in Nat
    OBVIOUS
  <2> QED
    BY <1>1, <2>1, <2>2
<1> DEFINE r == a % PageLen
           b == a + len - 1
           first == FirstPart(a, len)
<1>3. \A c \in Nat : \A f \in Int, o \in 0 .. PageLen - 1 :
        c = f * PageLen + o => Page(c) = f /\ c % PageLen = o
  BY PageLemma
<1>4. /\ Page(b) \in Nat /\ b % PageLen \in 0 .. PageLen - 1
      /\ b = Page(b) * PageLen + (b % PageLen)
  BY <1>1, PageLemma
<1>5. Page(a) # Page(b) => first = PageLen - r
  BY DEF FirstPart
<1>6. Page(a) = Page(b) => first = len
  BY DEF FirstPart
<1>7. CASE i < first
  <2>1. r + i < PageLen
    <3>1. CASE Page(a) # Page(b)
      BY <1>1, <1>2, <1>5, <1>7, <3>1
    <3>2. CASE Page(a) = Page(b)
      BY <1>1, <1>2, <1>4, <3>2
    <3> QED
      BY <3>1, <3>2
  <2>2. a + i = Page(a) * PageLen + (r + i) /\ r + i \in 0 .. PageLen - 1
    BY <1>1, <1>2, <2>1
  <2>3. Page(a + i) = Page(a) /\ (a + i) % PageLen = r + i
    BY <1>1, <1>2, <1>3, <2>2
  <2>4. Frame(t, Page(a)) = Walk(cr3, Page(a))
    BY FrameRight
  <2>5. Walk(cr3, Page(a)) \in Frames
    BY WalkTyped DEF KInv, ModeInv, KernelDirs
  <2>6. Walk(cr3, Page(a)) \in Nat /\ Walk(cr3, Page(a)) * PageLen \in Nat
    BY <1>1, <2>5 DEF Frames
  <2>7. BytePaddr(t, a, len, i) = Walk(cr3, Page(a)) * PageLen + r + i
    BY <1>7, <2>4 DEF BytePaddr, Paddr
  <2>8. BytePaddr(t, a, len, i) = Walk(cr3, Page(a)) * PageLen + (r + i)
    BY <1>1, <1>2, <2>6, <2>7
  <2> QED
    BY <2>2, <2>3, <2>5, <2>8, InMemory
<1>8. CASE ~(i < first)
  <2>1. Page(a) # Page(b) /\ first = PageLen - r /\ Page(b) = Page(a) + 1
    BY <1>1, <1>5, <1>6, <1>8
  <2>2. /\ a + first = (Page(a) + 1) * PageLen + 0 /\ a + first \in Nat
        /\ i - first \in 0 .. PageLen - 1
        /\ a + i = (Page(a) + 1) * PageLen + (i - first)
    BY <1>1, <1>2, <1>8, <2>1
  <2>3. /\ Page(a + first) = Page(b) /\ (a + first) % PageLen = 0
        /\ Page(a + i) = Page(b) /\ (a + i) % PageLen = i - first
    BY <1>1, <1>2, <1>3, <2>1, <2>2
  <2>4. Frame(t, Page(b)) = Walk(cr3, Page(b))
    BY FrameRight
  <2>5. Walk(cr3, Page(b)) \in Frames
    BY WalkTyped DEF KInv, ModeInv, KernelDirs
  <2>6. Walk(cr3, Page(b)) \in Nat /\ Walk(cr3, Page(b)) * PageLen \in Nat
    BY <1>1, <2>5 DEF Frames
  <2>7. BytePaddr(t, a, len, i) = Walk(cr3, Page(b)) * PageLen + 0 + i - first
    BY <1>8, <2>3, <2>4 DEF BytePaddr, Paddr
  <2>8. BytePaddr(t, a, len, i) = Walk(cr3, Page(b)) * PageLen + (i - first)
    BY <1>1, <1>2, <2>1, <2>6, <2>7
  <2> QED
    BY <2>2, <2>3, <2>5, <2>8, InMemory
<1> QED
  BY <1>7, <1>8

-----------------------------------------------------------------------------
(* mm_malloc, page by page: a page that is missing gets its frame, and no  *)
(* other page changes, in either directory.                                *)
LEMMA MallocMaps ==
  ASSUME IInv, TablesEmpty, Bounded, NEW va \in Int, NEW len \in Int,
         \A p \in PagesOf(va, len) : p \in UserRange,
         Enough(va, len), mm_malloc(va, len)
  PROVE  /\ \A t \in KTables \cup {VTable}, j \in PTEs : ptable'[t][j] = ptable[t][j]
         /\ pdir'["kpdir"] = pdir["kpdir"]
         /\ \A i \in PDEs : i \notin NrKTables .. KPDE - 1 =>
              pdir'["updir"][i] = pdir["updir"][i]
         /\ \A q \in Pages : Walk("updir", q)' =
              IF q \in Missing(va, len) THEN FrameFor(va, len, q) ELSE Walk("updir", q)
         /\ ptable' \in [Tables -> [PTEs -> Frames \cup {None}]]
         /\ \A q \in Missing(va, len) : FrameFor(va, len, q) \in Frames
         /\ TablesEmpty'
         /\ nr_frame' = nr_frame + Cardinality(Missing(va, len))
         /\ nr_frame' <= PhyFrames
<1> DEFINE M == Missing(va, len)
           T(p) == UserTable(va, len, p \div NrPTE)
<1>t. /\ pdir \in [KernelDirs -> [PDEs -> Tables \cup {None}]]
      /\ ptable \in [Tables -> [PTEs -> Frames \cup {None}]]
      /\ nr_pt \in Nat /\ nr_frame \in Nat /\ KMEM <= nr_frame
  BY DEF IInv, Types, Bounded
<1>1. /\ TablesOnce' /\ nr_pt' \in Nat
  BY MallocKeeps DEF IInv
<1>2. /\ \A i \in PDEs : pdir'["updir"][i] = UserTable(va, len, i)
      /\ pdir'["kpdir"] = pdir["kpdir"]
  BY <1>t DEF mm_malloc, KernelDirs
<1>3. ASSUME NEW p \in M
      PROVE  /\ p \in UserRange /\ p \in Pages /\ p \div NrPTE \in PDEs
             /\ p \div NrPTE \in NrKTables .. KPDE - 1 /\ p % NrPTE \in PTEs
             /\ Walk("updir", p) = None
             /\ p \div NrPTE \in NewTables(va, len) \/ pdir["updir"][p \div NrPTE] # None
  <2>1. p \in PagesOf(va, len) /\ Walk("updir", p) = None
    BY DEF Missing
  <2>2. p \in UserRange
    BY <2>1
  <2>3. /\ p \in Pages /\ p \div NrPTE \in PDEs
        /\ p \div NrPTE \in NrKTables .. KPDE - 1 /\ p % NrPTE \in PTEs
    BY <2>2, Indices
  <2>4. p \div NrPTE \in NewTables(va, len) \/ pdir["updir"][p \div NrPTE] # None
    BY <2>1, <2>3, Zenon DEF NewTables
  <2> QED
    BY <2>1, <2>2, <2>3, <2>4
<1>4. ASSUME NEW p \in M PROVE T(p) \in UserTables
  <2> DEFINE i == p \div NrPTE
  <2>1. i \in PDEs /\ i # 0 /\ ~(KPDE <= i)
    BY <1>3, Geometry
  <2>2. T(p) = pdir'["updir"][i]
    BY <1>2, <2>1
  <2>3. T(p) \notin KTables /\ T(p) # VTable
    BY <1>1, <2>1, <2>2 DEF TablesOnce
  <2>4. T(p) \in Tables
    <3>1. CASE i \in NewTables(va, len)
      <4>1. nr_pt + Rank(NewTables(va, len), i) \in PDEs
        BY <3>1, Taken DEF IInv
      <4> QED
        BY <3>1, <4>1, TablesTyped DEF UserTable, UserTables
    <3>2. CASE i \notin NewTables(va, len)
      BY <1>t, <1>3, <2>1, <3>2 DEF UserTable, KernelDirs
    <3> QED
      BY <3>1, <3>2
  <2> QED
    BY <2>3, <2>4, KernelMemoryAssumption
    DEF KernelTables, KTables, UserTables
<1>5. ASSUME NEW p \in M, NEW q \in Pages,
             T(p) = T(q), p % NrPTE = q % NrPTE
      PROVE  p = q
  <2>1. p \div NrPTE \in PDEs /\ q \div NrPTE \in PDEs
    BY <1>3, Indices
  <2>2. pdir'["updir"][p \div NrPTE] = pdir'["updir"][q \div NrPTE]
    BY <1>2, <1>5, <2>1
  <2>3. pdir'["updir"][p \div NrPTE] \in UserTables
    BY <1>2, <1>4, <2>1
  <2>4. p \div NrPTE = q \div NrPTE
    BY <1>1, <2>1, <2>2, <2>3 DEF TablesOnce
  <2> QED
    BY <1>3, <1>5, <2>4, Indices
<1>6. ASSUME NEW t \in Tables, NEW j \in PTEs
      PROVE  ptable'[t][j] = IF \E p \in M : t = T(p) /\ j = p % NrPTE
                             THEN FrameFor(va, len, CHOOSE p \in M : t = T(p) /\ j = p % NrPTE)
                             ELSE ptable[t][j]
  BY Zenon DEF mm_malloc
<1>7. ASSUME NEW t \in Tables, NEW j \in PTEs, t \notin UserTables
      PROVE  ptable'[t][j] = ptable[t][j]
  BY <1>4, <1>6, <1>7
<1>8. \A t \in KTables \cup {VTable}, j \in PTEs : ptable'[t][j] = ptable[t][j]
  <2>1. \A t \in KTables \cup {VTable} : t \in Tables /\ t \notin UserTables
    BY TablesTyped, TablesApart DEF KTables, UserTables
  <2> QED
    BY <1>7, <2>1
<1>9. \A i \in PDEs : i \notin NrKTables .. KPDE - 1 =>
        pdir'["updir"][i] = pdir["updir"][i]
  <2> SUFFICES ASSUME NEW i \in PDEs, i \notin NrKTables .. KPDE - 1
               PROVE  pdir'["updir"][i] = pdir["updir"][i]
    OBVIOUS
  <2>1. i \notin NewTables(va, len)
    <3>1. \A p \in PagesOf(va, len) : i # p \div NrPTE
      BY Indices
    <3> QED
      BY <3>1 DEF NewTables
  <2> QED
    BY <1>2, <2>1 DEF UserTable
<1>10. \A q \in M : FrameFor(va, len, q) \in Frames
  <2>1. /\ Cardinality(M) \in Nat
        /\ \A q \in M : FrameFor(va, len, q) \in nr_frame .. nr_frame + Cardinality(M) - 1
    BY Taken DEF IInv
  <2>2. nr_frame + Cardinality(M) <= PhyFrames
    BY DEF Enough
  <2> QED
    BY <1>t, <2>1, <2>2, Geometry DEF Frames
<1>11. \A q \in Pages : Walk("updir", q)' =
         IF q \in M THEN FrameFor(va, len, q) ELSE Walk("updir", q)
  <2> SUFFICES ASSUME NEW q \in Pages
               PROVE  Walk("updir", q)' =
                        IF q \in M THEN FrameFor(va, len, q) ELSE Walk("updir", q)
    OBVIOUS
  <2> DEFINE i == q \div NrPTE
             j == q % NrPTE
  <2>1. i \in PDEs /\ j \in PTEs
    BY Indices
  <2>2. Walk("updir", q)' = IF T(q) = None THEN None ELSE ptable'[T(q)][j]
    BY <1>2, <2>1 DEF Walk
  <2>3. CASE q \in M
    <3>1. T(q) \in Tables /\ T(q) # None
      BY <1>4, <2>3, TablesTyped
    <3> DEFINE Here(p) == T(q) = T(p) /\ j = p % NrPTE
    <3>2. Here(q)
      OBVIOUS
    <3>3. ASSUME NEW p \in M, Here(p) PROVE p = q
      BY <1>5, <3>3
    <3>4. (CHOOSE p \in M : Here(p)) = q
      <4>1. (CHOOSE p \in M : Here(p)) \in M /\ Here(CHOOSE p \in M : Here(p))
        BY <2>3, <3>2, Zenon
      <4> QED
        BY <3>3, <4>1
    <3>5. ptable'[T(q)][j] = FrameFor(va, len, CHOOSE p \in M : Here(p))
      BY <1>6, <2>1, <2>3, <3>1, <3>2, Zenon
    <3> QED
      BY <2>2, <2>3, <3>1, <3>4, <3>5
  <2>4. CASE q \notin M /\ i \in NewTables(va, len)
    <3>1. /\ T(q) = UTable(nr_pt + Rank(NewTables(va, len), i))
          /\ nr_pt + Rank(NewTables(va, len), i) \in PDEs
          /\ nr_pt <= nr_pt + Rank(NewTables(va, len), i)
      <4>1. /\ Rank(NewTables(va, len), i) \in Nat
            /\ nr_pt + Rank(NewTables(va, len), i) \in PDEs
        BY <2>4, Taken DEF IInv
      <4> QED
        BY <1>t, <2>4, <4>1 DEF UserTable
    <3>2. T(q) \in Tables /\ T(q) # None
      BY <3>1, TablesTyped DEF UserTables
    <3>3. ~ \E p \in M : T(q) = T(p) /\ j = p % NrPTE
      BY <1>5, <2>4
    <3>4. ptable'[T(q)][j] = ptable[T(q)][j]
      BY <1>6, <2>1, <3>2, <3>3
    <3>5. ptable[T(q)][j] = None
      BY <2>1, <3>1 DEF TablesEmpty
    <3>6. Walk("updir", q) = None
      BY <2>4 DEF NewTables, Walk
    <3> QED
      BY <2>2, <2>4, <3>4, <3>5, <3>6
  <2>5. CASE q \notin M /\ i \notin NewTables(va, len)
    <3>1. T(q) = pdir["updir"][i]
      BY <2>5 DEF UserTable
    <3>2. CASE T(q) = None
      BY <2>2, <2>5, <3>1, <3>2 DEF Walk
    <3>3. CASE T(q) # None
      <4>1. T(q) \in Tables
        BY <1>t, <2>1, <3>1, <3>3 DEF KernelDirs
      <4>2. ~ \E p \in M : T(q) = T(p) /\ j = p % NrPTE
        BY <1>5, <2>5
      <4>3. ptable'[T(q)][j] = ptable[T(q)][j]
        BY <1>6, <2>1, <4>1, <4>2
      <4> QED
        BY <2>2, <2>5, <3>1, <3>3, <4>3 DEF Walk
    <3> QED
      BY <3>2, <3>3
  <2> QED
    BY <2>3, <2>4, <2>5
<1>12. ptable' \in [Tables -> [PTEs -> Frames \cup {None}]]
  <2>1. ASSUME NEW t \in Tables, NEW j \in PTEs
        PROVE  ptable'[t][j] \in Frames \cup {None}
    <3> DEFINE Here(p) == t = T(p) /\ j = p % NrPTE
    <3>1. CASE \E p \in M : Here(p)
      <4>1. (CHOOSE p \in M : Here(p)) \in M
        BY <3>1, Zenon
      <4>2. ptable'[t][j] = FrameFor(va, len, CHOOSE p \in M : Here(p))
        BY <1>6, <3>1, Zenon
      <4> QED
        BY <1>10, <4>1, <4>2
    <3>2. CASE ~ \E p \in M : Here(p)
      BY <1>t, <1>6, <3>2
    <3> QED
      BY <3>1, <3>2
  <2>2. ptable' = [t \in Tables |-> [j \in PTEs |-> ptable'[t][j]]]
    BY Zenon DEF mm_malloc
  <2> QED
    BY <2>1, <2>2
<1>13. TablesEmpty'
  <2> SUFFICES ASSUME NEW i \in PDEs, NEW j \in PTEs, nr_pt' <= i
               PROVE  ptable'[UTable(i)][j] = None
    BY DEF TablesEmpty
  <2>1. UTable(i) \in Tables /\ nr_pt <= i
    <3>1. nr_pt' = nr_pt + Cardinality(NewTables(va, len))
      BY DEF mm_malloc
    <3>2. Cardinality(NewTables(va, len)) \in Nat
      BY Taken DEF IInv
    <3> QED
      BY <1>t, <3>1, <3>2, TablesTyped, Sizes DEF UserTables
  <2>2. ASSUME NEW p \in M PROVE UTable(i) # T(p)
    <3>1. p \div NrPTE \in PDEs /\ T(p) = pdir'["updir"][p \div NrPTE]
      BY <1>2, <1>3
    <3>2. T(p) = UTable(i) => i < nr_pt'
      BY <1>1, <3>1 DEF TablesOnce
    <3> QED
      BY <1>1, <3>2, Sizes
  <2>3. ptable'[UTable(i)][j] = ptable[UTable(i)][j]
    BY <1>6, <2>1, <2>2
  <2> QED
    BY <2>1, <2>3 DEF TablesEmpty
<1>14. /\ nr_frame' = nr_frame + Cardinality(M)
       /\ nr_frame' <= PhyFrames
  BY DEF mm_malloc, Enough
<1> QED
  BY <1>2, <1>8, <1>9, <1>10, <1>11, <1>12, <1>13, <1>14

-----------------------------------------------------------------------------
(* The kernel starts.                                                      *)
LEMMA SomeMemory == PhyFrames * PageLen \in Nat \ {0} /\ {0, 1} \subseteq Byte
<1>1. \A x, y \in Nat \ {0} : x * y \in Nat \ {0}
  OBVIOUS
<1> QED
  BY <1>1, Geometry, Sizes, KernelMemoryAssumption

LEMMA InitKInv == ASSUME Init PROVE KInv
<1> USE DEF Init
<1>1. IInv
  BY InitIInv
<1>2. ModeInv
  BY DEF ModeInv
<1>3. Bounded
  <2>1. ptable \in [Tables -> [PTEs -> Frames \cup {None}]]
    OBVIOUS
  <2>2. TLB_ENABLED \in BOOLEAN
    BY KernelMemoryAssumption
  <2>3. nr_frame <= PhyFrames /\ p_paddr \in 0 .. PhyFrames * PageLen - 1
    BY Geometry, SomeMemory
  <2>4. hw_mem \in [0 .. PhyFrames * PageLen - 1 -> Byte]
    BY SomeMemory
  <2> QED
    BY <2>1, <2>2, <2>3, <2>4 DEF Bounded, Stages
<1>4. KernelInv /\ TablesEmpty
  <2>1. \A i \in PDEs : UTable(i) \in Tables
    BY TablesTyped DEF UserTables
  <2> QED
    BY <2>1 DEF KernelInv, TablesEmpty, KernelDirs
<1>5. VideoInv
  <2>1. \A i \in KIndex : i \in PDEs
    BY Geometry, Sizes DEF KIndex
  <2> QED
    BY <2>1, TablesTyped DEF VideoInv, KernelDirs, Switched
<1>6. TlbTyped(tlb) /\ TlbInv(tlb)
  BY DEF TlbTyped, TlbInv
<1>7. \A p \in UserRange : ~Mapped(p)
  <2>1. \A p \in UserRange : p \div NrPTE \in PDEs
    BY Indices
  <2> QED
    BY <2>1 DEF Mapped, Walk, KernelDirs
<1>8. LoadedInv
  BY <1>7, Sizes DEF LoadedInv, NrLoaded, Loading
<1>9. BreakInv /\ PatternInv
  BY DEF BreakInv, PatternInv, Loading
<1> QED
  BY <1>1, <1>2, <1>3, <1>4, <1>5, <1>6, <1>8, <1>9 DEF KInv

(* With its directory set up the kernel is where it was linked; below      *)
(* physical memory's size its directory is the identity.                   *)
LEMMA KernelWalk ==
  ASSUME KInv, paging
  PROVE  /\ stage # "init_page" /\ cr3 \in KernelDirs
         /\ \A p \in Frames : Walk("kpdir", p) = p /\ Walk(cr3, KOFFSET + p) = p
         /\ \A p \in Pages : Walk("kpdir", p) # None =>
              \/ p \in Frames /\ Walk("kpdir", p) = p
              \/ p - KOFFSET \in Frames /\ Walk("kpdir", p) = p - KOFFSET
         /\ stage \notin {"init_page", "init_mm"} =>
              \A p \in Frames : Walk("updir", KOFFSET + p) = p
         /\ stage \in Switched \cup {"write_cr3"} => Walk("updir", VideoPage) = VideoPage
<1>1. stage # "init_page" /\ cr3 \in KernelDirs
  BY DEF KInv, ModeInv, KernelDirs
<1>2. /\ \A i \in KIndex, j \in PTEs : ptable[KTable(i)][j] = i * NrPTE + j
      /\ \A i \in KIndex : /\ pdir["kpdir"][i] = KTable(i)
                           /\ pdir["kpdir"][KPDE + i] = KTable(i)
      /\ \A i \in PDEs : pdir["kpdir"][i] # None => i \in KIndex \/ i - KPDE \in KIndex
  BY <1>1 DEF KInv, KernelInv
<1>3. \A i \in KIndex : KTable(i) # None
  BY TablesTyped DEF KTables, KIndex
<1>4. ASSUME NEW p \in Frames
      PROVE  /\ Walk("kpdir", p) = p
             /\ Walk("kpdir", KOFFSET + p) = p
             /\ stage # "init_mm" => Walk("updir", KOFFSET + p) = p
  <2>1. /\ p \div NrPTE \in KIndex /\ p % NrPTE \in PTEs
        /\ (KOFFSET + p) \div NrPTE = KPDE + (p \div NrPTE)
        /\ (KOFFSET + p) % NrPTE = p % NrPTE
        /\ p = NrPTE * (p \div NrPTE) + (p % NrPTE)
    BY Indices
  <2>2. ptable[KTable(p \div NrPTE)][p % NrPTE] = p
    <3>1. \A x \in KIndex : NrPTE * x = x * NrPTE
      BY Sizes DEF KIndex
    <3> QED
      BY <1>2, <2>1, <3>1
  <2>3. Walk("kpdir", p) = p /\ Walk("kpdir", KOFFSET + p) = p
    BY <1>2, <1>3, <2>1, <2>2 DEF Walk
  <2>4. ASSUME stage # "init_mm" PROVE Walk("updir", KOFFSET + p) = p
    <3>1. pdir["updir"][KPDE + (p \div NrPTE)] = KTable(p \div NrPTE)
      BY <1>1, <2>1, <2>4 DEF KInv, KernelInv
    <3> QED
      BY <1>3, <2>1, <2>2, <3>1 DEF Walk
  <2> QED
    BY <2>3, <2>4
<1>5. stage = "init_mm" => cr3 = "kpdir"
  BY DEF KInv, ModeInv, Switched
<1>6. ASSUME NEW p \in Pages, Walk("kpdir", p) # None
      PROVE  \/ p \in Frames /\ Walk("kpdir", p) = p
             \/ p - KOFFSET \in Frames /\ Walk("kpdir", p) = p - KOFFSET
  <2> DEFINE i == p \div NrPTE
             j == p % NrPTE
  <2>1. p \in Nat /\ i \in PDEs /\ j \in 0 .. NrPTE - 1 /\ p = NrPTE * i + j
    BY Indices, Sizes
  <2>2. i \in KIndex \/ i - KPDE \in KIndex
    BY <1>2, <1>6, <2>1 DEF Walk
  <2>3. CASE i \in KIndex
    <3>1. p < PhyFrames
      <4>1. NrPTE * i + NrPTE <= NrPTE * NrKTables
        BY SMTT(20), <2>3, Times, Geometry, Sizes DEF KIndex
      <4>2. NrPTE * i \in Int /\ NrPTE * NrKTables = PhyFrames
        BY <2>1, Geometry, Sizes
      <4> HIDE DEF i, j
      <4> QED
        BY <2>1, <4>1, <4>2, Geometry, Sizes
    <3>2. p \in Frames
      BY <2>1, <3>1, Geometry DEF Frames
    <3> QED
      BY <1>4, <3>2
  <2>4. CASE i - KPDE \in KIndex
    <3> DEFINE k == i - KPDE
               f == NrPTE * k + j
    <3>1. k \in Nat /\ k < NrKTables /\ i = KPDE + k
      BY <2>1, <2>4, Geometry, Sizes DEF KIndex
    <3>2. NrPTE * (KPDE + k) = NrPTE * KPDE + NrPTE * k
      BY <3>1, Geometry, Sizes
    <3>3. NrPTE * k + NrPTE <= NrPTE * NrKTables
      BY SMTT(20), <3>1, Times, Geometry, Sizes
    <3>4. p = KOFFSET + f /\ f \in Frames
      <4>1. NrPTE * k \in Nat /\ NrPTE * NrKTables = PhyFrames /\ NrPTE * KPDE = KOFFSET
        BY <3>1, Geometry, Sizes
      <4>2. p = NrPTE * (KPDE + k) + j
        BY <2>1, <3>1
      <4>3. NrPTE \in Nat /\ KOFFSET \in Nat /\ PhyFrames \in Nat /\ j \in 0 .. NrPTE - 1
        BY <2>1, Geometry, Sizes
      <4> DEFINE x == NrPTE * k
                 y == NrPTE * (KPDE + k)
      <4>4. x \in Nat /\ x + NrPTE <= PhyFrames /\ y = KOFFSET + x /\ p = y + j
        BY <3>2, <3>3, <4>1, <4>2
      <4>5. f = x + j
        OBVIOUS
      <4> HIDE DEF i, j, k, f, x, y
      <4> QED
        BY <4>3, <4>4, <4>5 DEF Frames
    <3>5. p - KOFFSET = f
      <4> HIDE DEF f, k
      <4> QED
        BY <3>4, Geometry DEF Frames
    <3>6. Walk("kpdir", p) = f
      BY <1>4, <3>4
    <3> QED
      BY <3>4, <3>5, <3>6
  <2> QED
    BY <2>2, <2>3, <2>4
<1>7. ASSUME stage \in Switched \cup {"write_cr3"}
      PROVE  Walk("updir", VideoPage) = VideoPage
  BY <1>7, TablesTyped, Indices DEF Walk, KInv, VideoInv
<1>8. ASSUME NEW p \in Frames PROVE Walk(cr3, KOFFSET + p) = p
  BY <1>1, <1>4, <1>5 DEF KernelDirs
<1> QED
  BY <1>1, <1>4, <1>6, <1>7, <1>8

(* init_page.                                                              *)
LEMMA InitPageKInv == ASSUME KInv, InitPage PROVE KInv'
<1>0. /\ IInv /\ ModeInv /\ Bounded /\ KernelInv /\ VideoInv /\ TablesEmpty
      /\ TlbTyped(tlb) /\ TlbInv(tlb) /\ LoadedInv /\ BreakInv /\ PatternInv
      /\ stage = "init_page" /\ stage' = "init_mm"
      /\ UNCHANGED <<TLB_ENABLED, tlb, hw_mem, at, seg, p_paddr, nr_pt, nr_frame, brk, reply>>
  BY DEF KInv, InitPage, loader, alloc
<1>1. IInv'
  BY <1>0, InitPageKeeps
<1>2. ModeInv'
  BY <1>0 DEF ModeInv, InitPage, Switched
<1>3. \A t \in Tables, j \in PTEs :
        ptable'[t][j] = IF t[1] = "kptable" THEN t[2] * NrPTE + j ELSE ptable[t][j]
  BY Zenon DEF InitPage
<1>4. \A i \in KIndex, j \in PTEs :
        KTable(i) \in Tables /\ ptable'[KTable(i)][j] = i * NrPTE + j
  <2>1. \A i \in KIndex : KTable(i) \in Tables
    BY TablesTyped DEF KIndex, KTables
  <2>2. \A i : KTable(i)[1] = "kptable" /\ KTable(i)[2] = i
    BY DEF KTable
  <2> QED
    BY <1>3, <2>1, <2>2
<1>5. \A t \in OwnTables, j \in PTEs : t \in Tables /\ ptable'[t][j] = ptable[t][j]
  <2>1. \A t \in OwnTables : t \in Tables /\ t[1] # "kptable"
    <3>1. VTable[1] # "kptable" /\ \A i : UTable(i)[1] # "kptable"
      BY DEF VTable, UTable
    <3> QED
      BY <3>1, TablesTyped DEF OwnTables, UserTables
  <2> QED
    BY <1>3, <2>1
<1>6. ptable' \in [Tables -> [PTEs -> Frames \cup {None}]]
  <2>1. ASSUME NEW t \in Tables, NEW j \in PTEs
        PROVE  ptable'[t][j] \in Frames \cup {None}
    <3>1. CASE t \in OwnTables
      BY <1>0, <1>5, <3>1 DEF Bounded
    <3>2. CASE t \notin OwnTables
      <4>1. PICK i \in KIndex : t = KTable(i)
        BY <3>2, KernelMemoryAssumption DEF KernelTables, OwnTables, UserTables, KIndex
      <4>2. ptable'[t][j] = i * NrPTE + j
        BY <1>4, <4>1
      <4>3. /\ i \in Nat /\ i < NrKTables /\ j \in 0 .. NrPTE - 1 /\ NrPTE \in Nat
            /\ NrKTables \in Nat
        BY Geometry, Sizes DEF KIndex
      <4>4. NrPTE * i + NrPTE <= NrPTE * NrKTables
        BY <4>3, Times
      <4>5. /\ NrPTE * i = i * NrPTE /\ NrPTE * i \in Nat
            /\ PhyFrames = NrPTE * NrKTables /\ PhyFrames \in Nat
        BY <4>3, Geometry
      <4> QED
        BY <4>2, <4>3, <4>4, <4>5 DEF Frames
    <3> QED
      BY <3>1, <3>2
  <2>2. ptable' = [t \in Tables |-> [j \in PTEs |-> ptable'[t][j]]]
    BY Zenon DEF InitPage
  <2> QED
    BY <2>1, <2>2
<1>7. Bounded'
  BY <1>0, <1>6 DEF Bounded, Stages
<1>8. /\ pdir'["updir"] = pdir["updir"]
      /\ \A i \in KIndex : pdir'["kpdir"][i] = KTable(i) /\ pdir'["kpdir"][KPDE + i] = KTable(i)
      /\ \A i \in PDEs : pdir'["kpdir"][i] # None => i \in KIndex \/ i - KPDE \in KIndex
  <2> DEFINE K(i) == CASE i < NrKTables                   -> KTable(i)
                       [] i - KPDE \in 0 .. NrKTables - 1 -> KTable(i - KPDE)
                       [] OTHER                           -> None
  <2>1. pdir' = [pdir EXCEPT !["kpdir"] = [i \in PDEs |-> K(i)]]
    BY DEF InitPage
  <2>2. pdir'["updir"] = pdir["updir"] /\ \A i \in PDEs : pdir'["kpdir"][i] = K(i)
    BY <1>0, <2>1 DEF IInv, Types, KernelDirs
  <2>3. ASSUME NEW i \in KIndex
        PROVE  /\ i \in PDEs /\ KPDE + i \in PDEs
               /\ K(i) = KTable(i) /\ K(KPDE + i) = KTable(i)
    <3>1. i \in Int /\ 0 <= i /\ i < NrKTables /\ i \in PDEs /\ KPDE + i \in PDEs
      BY Geometry, Sizes DEF KIndex
    <3>2. ~(KPDE + i < NrKTables) /\ (KPDE + i) - KPDE = i
      BY <3>1, Geometry
    <3>3. K(i) = KTable(i)
      <4>1. i < NrKTables /\ i - KPDE \notin 0 .. NrKTables - 1
        BY <3>1, Geometry
      <4> QED
        BY <4>1
    <3>4. K(KPDE + i) = KTable((KPDE + i) - KPDE)
      <4>1. ~(KPDE + i < NrKTables) /\ (KPDE + i) - KPDE \in 0 .. NrKTables - 1
        BY <3>1, <3>2 DEF KIndex
      <4> QED
        BY <4>1
    <3> QED
      BY <3>1, <3>2, <3>3, <3>4
  <2>4. ASSUME NEW i \in PDEs, K(i) # None PROVE i \in KIndex \/ i - KPDE \in KIndex
    <3>1. CASE i < NrKTables
      BY <3>1, Sizes, Geometry DEF KIndex
    <3>2. CASE ~(i < NrKTables) /\ i - KPDE \in 0 .. NrKTables - 1
      BY <3>2 DEF KIndex
    <3>3. CASE ~(i < NrKTables) /\ i - KPDE \notin 0 .. NrKTables - 1
      <4>1. K(i) = None
        BY <3>3
      <4> QED
        BY <2>4, <4>1
    <3> QED
      BY <3>1, <3>2, <3>3
  <2> HIDE DEF K
  <2> QED
    BY <2>2, <2>3, <2>4
<1>9. \A i \in PDEs : pdir'["updir"][i] = None
  BY <1>0, <1>8 DEF KernelInv
<1>10. KernelInv'
  BY <1>0, <1>4, <1>8, <1>9 DEF KernelInv
<1>11. VideoInv'
  <2>1. \A i \in KIndex : i \in PDEs
    BY SMTT(20), Geometry, Sizes DEF KIndex
  <2>2. VTable \in OwnTables
    BY DEF OwnTables
  <2> QED
    BY <1>0, <1>5, <1>9, <2>1, <2>2 DEF VideoInv, Switched
<1>12. TablesEmpty'
  <2>1. \A i \in PDEs : UTable(i) \in OwnTables
    BY DEF OwnTables, UserTables
  <2> QED
    BY <1>0, <1>5, <2>1 DEF TablesEmpty
<1>13. TlbTyped(tlb)' /\ TlbInv(tlb)'
  <2>1. TlbTyped(tlb)'
    BY <1>0 DEF TlbTyped
  <2>2. \A i \in Entries : tlb'[i].key = None
    BY <1>0 DEF TlbInv, ModeInv
  <2> QED
    BY <2>1, <2>2 DEF TlbInv, Filled
<1>14. LoadedInv'
  <2>1. \A p \in UserRange : ~Mapped(p)'
    <3>1. \A p \in UserRange : p \div NrPTE \in PDEs
      BY Indices
    <3> QED
      BY <1>9, <3>1 DEF Mapped, Walk
  <2>2. seg' = 1 /\ at' = 0
    BY <1>0 DEF LoadedInv, Loading
  <2> QED
    BY <1>0, <2>1, <2>2 DEF LoadedInv, NrLoaded, Loading
<1>15. BreakInv' /\ PatternInv'
  BY <1>0 DEF BreakInv, PatternInv, Loading, LoadedInv, End
<1> QED
  BY <1>1, <1>2, <1>7, <1>10, <1>11, <1>12, <1>13, <1>14, <1>15 DEF KInv

(* init_mm.                                                                *)
LEMMA InitMmKInv == ASSUME KInv, InitMm PROVE KInv'
<1>0. /\ IInv /\ ModeInv /\ Bounded /\ KernelInv /\ VideoInv /\ TablesEmpty
      /\ TlbTyped(tlb) /\ TlbInv(tlb) /\ LoadedInv /\ BreakInv /\ PatternInv
      /\ stage = "init_mm" /\ stage' = "video_write"
      /\ UNCHANGED <<TLB_ENABLED, paging, cr3, ptable, tlb, hw_mem, at, seg, p_paddr,
                     nr_pt, nr_frame, brk, reply>>
  BY DEF KInv, InitMm, loader, alloc
<1>1. IInv'
  BY <1>0, InitMmKeeps
<1>2. ModeInv' /\ Bounded' /\ TablesEmpty'
  BY <1>0 DEF ModeInv, Bounded, TablesEmpty, Switched, Stages
<1>3. /\ pdir'["kpdir"] = pdir["kpdir"]
      /\ \A i \in PDEs : pdir'["updir"][i] =
           IF i - KPDE \in KIndex THEN pdir["kpdir"][i] ELSE None
  BY <1>0 DEF InitMm, IInv, Types, KernelDirs, KIndex
<1>4. KernelInv'
  <2>1. \A i \in KIndex : pdir'["updir"][KPDE + i] = KTable(i)
    <3> SUFFICES ASSUME NEW i \in KIndex PROVE pdir'["updir"][KPDE + i] = KTable(i)
      OBVIOUS
    <3>1. KPDE + i \in PDEs /\ (KPDE + i) - KPDE = i
      BY SMTT(20), Geometry, Sizes DEF KIndex
    <3> QED
      BY <1>0, <1>3, <3>1 DEF KernelInv
  <2> QED
    BY <1>0, <1>3, <2>1 DEF KernelInv
<1>5. \A i \in PDEs : i < KPDE => pdir'["updir"][i] = None
  BY <1>3, Geometry, Sizes DEF KIndex
<1>6. VideoInv'
  <2>1. \A i \in KIndex : i \in PDEs /\ i < KPDE
    <3>1. /\ NrKTables \in Nat /\ KPDE \in Nat /\ NrPDE \in Nat
          /\ NrKTables <= KPDE /\ KPDE + NrKTables <= NrPDE
      BY Geometry, Sizes
    <3> QED
      BY <3>1 DEF KIndex, PDEs
  <2> QED
    BY <1>0, <1>5, <2>1 DEF VideoInv, Switched
<1>7. TlbTyped(tlb)' /\ TlbInv(tlb)'
  <2>1. cr3 = "kpdir" /\ cr3' = "kpdir"
    BY <1>0 DEF ModeInv, Switched
  <2>2. \A p : Walk("kpdir", p)' = Walk("kpdir", p)
    BY <1>0, <1>3 DEF Walk
  <2> QED
    BY <1>0, <2>1, <2>2 DEF TlbTyped, TlbInv, Filled
<1>8. LoadedInv'
  <2>1. \A p \in UserRange : ~Mapped(p)'
    <3>1. \A p \in UserRange : p \div NrPTE \in PDEs /\ p \div NrPTE < KPDE
      BY Indices, Geometry
    <3> QED
      BY <1>5, <3>1 DEF Mapped, Walk
  <2>2. seg' = 1 /\ at' = 0
    BY <1>0 DEF LoadedInv, Loading
  <2> QED
    BY <1>0, <2>1, <2>2, Sizes DEF LoadedInv, NrLoaded, Loading
<1>9. BreakInv' /\ PatternInv'
  <2>1. at' = 0 /\ seg' = 1
    BY <1>0 DEF LoadedInv, Loading
  <2> QED
    BY <1>0, <2>1, Sizes DEF BreakInv, PatternInv, Loading, End
<1> QED
  BY <1>1, <1>2, <1>4, <1>6, <1>7, <1>8, <1>9 DEF KInv

-----------------------------------------------------------------------------
(* Steps that leave tables and registers alone.                            *)
LEMMA SameMap ==
  ASSUME KInv, stage \notin {"init_page", "init_mm"},
         stage' \in Stages \ {"init_page", "init_mm"},
         (stage \in Switched) = (stage' \in Switched),
         stage' # "write_cr3" \/ stage = "write_cr3",
         UNCHANGED <<paging, cr3, pdir, ptable, nr_pt>>
  PROVE  /\ ModeInv' /\ KernelInv' /\ VideoInv' /\ TablesEmpty'
         /\ \A dir, p : Walk(dir, p)' = Walk(dir, p)
         /\ \A p : Mapped(p)' = Mapped(p)
         /\ \A t : TlbTyped(t) /\ TlbInv(t) /\ tlb' = t => TlbTyped(tlb)' /\ TlbInv(tlb)'
<1>0. /\ ModeInv /\ KernelInv /\ VideoInv /\ TablesEmpty
  BY DEF KInv
<1>1. ModeInv'
  BY <1>0 DEF ModeInv
<1>2. KernelInv'
  BY <1>0 DEF KernelInv
<1>3. VideoInv'
  BY <1>0 DEF VideoInv
<1>4. TablesEmpty'
  BY <1>0 DEF TablesEmpty
<1>5. \A dir, p : Walk(dir, p)' = Walk(dir, p)
  BY DEF Walk
<1>6. \A p : Mapped(p)' = Mapped(p)
  BY <1>5 DEF Mapped
<1>7. ASSUME NEW t, TlbTyped(t), TlbInv(t), tlb' = t
      PROVE  TlbTyped(tlb)' /\ TlbInv(tlb)'
  BY <1>5, <1>7 DEF TlbTyped, TlbInv, Filled
<1> QED
  BY <1>1, <1>2, <1>3, <1>4, <1>5, <1>6, <1>7

(* An access of one byte.                                                  *)
LEMMA ByteRead ==
  ASSUME KInv, paging, NEW a \in Nat, Page(a) \in Pages, Walk(cr3, Page(a)) # None,
         NEW t \in TlbsAfter(a), Translate(a, 1, t)
  PROVE  /\ TlbTyped(tlb') /\ TlbInv(tlb')
         /\ BytePaddr(t, a, 1, 0) = Walk(cr3, Page(a)) * PageLen + (a % PageLen)
         /\ BytePaddr(t, a, 1, 0) \in DOMAIN hw_mem
<1>1. a + 1 - 1 = a /\ a + 0 = a /\ 1 \in 1 .. PageLen /\ 0 \in 0 .. 1 - 1
  BY Sizes
<1>2. TlbTyped(t) /\ TlbInv(t) /\ TlbTyped(tlb') /\ TlbInv(tlb')
  BY <1>1, TranslateKeeps
<1>3. /\ BytePaddr(t, a, 1, 0) = Walk(cr3, Page(a)) * PageLen + (a % PageLen)
      /\ BytePaddr(t, a, 1, 0) \in 0 .. PhyFrames * PageLen - 1
  BY <1>1, <1>2, BytePlace
<1> QED
  BY <1>2, <1>3 DEF KInv, Bounded

LEMMA ByteWritten ==
  ASSUME KInv, paging, NEW a \in Nat, Page(a) \in Pages, Walk(cr3, Page(a)) # None,
         NEW v, laddr_write(a, 1, [i \in {0} |-> v])
  PROVE  /\ TlbTyped(tlb') /\ TlbInv(tlb')
         /\ hw_mem' = [hw_mem EXCEPT ![Walk(cr3, Page(a)) * PageLen + (a % PageLen)] = v]
         /\ Walk(cr3, Page(a)) * PageLen + (a % PageLen) \in DOMAIN hw_mem
<1>1. PICK t \in TlbsAfter(a) :
        /\ Translate(a, 1, t)
        /\ hw_mem' = BytesWritten(t, a, 1, [i \in {0} |-> v])
  BY DEF laddr_write
<1> DEFINE pa == Walk(cr3, Page(a)) * PageLen + (a % PageLen)
<1>2. /\ TlbTyped(tlb') /\ TlbInv(tlb')
      /\ BytePaddr(t, a, 1, 0) = pa /\ pa \in DOMAIN hw_mem
  BY <1>1, ByteRead
<1>3. 0 .. 1 - 1 = {0}
  OBVIOUS
<1> HIDE DEF pa
<1>4. hw_mem' = [x \in DOMAIN hw_mem |-> IF x = pa THEN v ELSE hw_mem[x]]
  <2>1. hw_mem' = [x \in DOMAIN hw_mem |->
          IF \E i \in {0} : BytePaddr(t, a, 1, i) = x
          THEN [i \in {0} |-> v][CHOOSE i \in {0} : BytePaddr(t, a, 1, i) = x]
          ELSE hw_mem[x]]
    BY <1>1, <1>3 DEF BytesWritten
  <2>2. ASSUME NEW x
        PROVE  (IF \E i \in {0} : BytePaddr(t, a, 1, i) = x
                THEN [i \in {0} |-> v][CHOOSE i \in {0} : BytePaddr(t, a, 1, i) = x]
                ELSE hw_mem[x]) = (IF x = pa THEN v ELSE hw_mem[x])
    <3>1. CASE x = pa
      <4>1. \E i \in {0} : BytePaddr(t, a, 1, i) = x
        BY <1>2, <3>1
      <4>2. (CHOOSE i \in {0} : BytePaddr(t, a, 1, i) = x) = 0
        BY <4>1
      <4> QED
        BY <3>1, <4>1, <4>2
    <3>2. CASE x # pa
      BY <1>2, <3>2
    <3> QED
      BY <3>1, <3>2
  <2> QED
    BY <2>1, <2>2
<1>5. hw_mem = [x \in DOMAIN hw_mem |-> hw_mem[x]]
  BY DEF KInv, Bounded
<1> QED
  BY <1>2, <1>4, <1>5 DEF pa

(* The tests of the video memory.                                          *)
LEMMA VideoPlace ==
  ASSUME KInv, stage \in {"video_write", "video_read", "video_clear"}
  PROVE  /\ paging /\ at \in 0 .. PageLen - 1 /\ VideoStart + at \in Nat
         /\ Page(VideoStart + at) = VideoPage /\ VideoPage \in Pages
         /\ Walk(cr3, VideoPage) = VideoPage /\ VideoPage # None
         /\ Walk(cr3, VideoPage) * PageLen + ((VideoStart + at) % PageLen) = VideoStart + at
<1>1. paging /\ at \in 0 .. PageLen - 1
  BY Sizes DEF KInv, ModeInv, LoadedInv, Bounded
<1>2. VideoStart + at \in Nat /\ VideoPage \in Int
  BY <1>1, Geometry, Sizes DEF VideoStart
<1>3. Page(VideoStart + at) = VideoPage /\ (VideoStart + at) % PageLen = at
  BY <1>1, <1>2, PageLemma DEF VideoStart
<1>4. Walk(cr3, VideoPage) = VideoPage
  BY <1>1, KernelWalk, Indices DEF KInv, ModeInv, Switched
<1> QED
  BY <1>1, <1>2, <1>3, <1>4, Indices, Sizes DEF VideoStart

LEMMA VideoWriteKInv ==
  ASSUME KInv, VideoWriteTest \/ VideoClear PROVE KInv'
<1>0. /\ IInv /\ ModeInv /\ Bounded /\ KernelInv /\ VideoInv /\ TablesEmpty
      /\ TlbTyped(tlb) /\ TlbInv(tlb) /\ LoadedInv /\ BreakInv /\ PatternInv
  BY DEF KInv
<1> DEFINE v == IF stage = "video_write" THEN TestByte(at) ELSE 0
<1>1. /\ UNCHANGED <<TLB_ENABLED, paging, cr3, pdir, ptable, nr_pt, nr_frame,
                     p_paddr, seg, brk, reply>>
      /\ laddr_write(VideoStart + at, 1, [i \in {0} |-> v])
      /\ \/ stage = "video_write" /\ VideoNext("malloc")
         \/ stage = "video_clear" /\ VideoNext("user")
  <2>1. CASE VideoWriteTest
    <3>1. stage = "video_write" /\ v = TestByte(at)
      BY <2>1 DEF VideoWriteTest
    <3> HIDE DEF v
    <3>2. [i \in {0} |-> v] = [i \in {0} |-> TestByte(at)]
      BY <3>1
    <3>3. laddr_write(VideoStart + at, 1, [i \in {0} |-> TestByte(at)])
      BY <2>1 DEF VideoWriteTest
    <3>4. laddr_write(VideoStart + at, 1, [i \in {0} |-> v])
      BY <3>2, <3>3
    <3> QED
      BY <2>1, <3>1, <3>4 DEF VideoWriteTest, mmu, loader, alloc
  <2>2. CASE VideoClear
    BY <2>2 DEF VideoClear, mmu, loader, alloc
  <2> QED
    BY <2>1, <2>2
<1>2. /\ paging /\ at \in 0 .. PageLen - 1 /\ VideoStart + at \in Nat
      /\ Page(VideoStart + at) = VideoPage /\ VideoPage \in Pages
      /\ Walk(cr3, VideoPage) = VideoPage /\ VideoPage # None
      /\ Walk(cr3, VideoPage) * PageLen + ((VideoStart + at) % PageLen) = VideoStart + at
  BY <1>1, VideoPlace
<1>3. /\ TlbTyped(tlb') /\ TlbInv(tlb')
      /\ hw_mem' = [hw_mem EXCEPT ![VideoStart + at] = v]
      /\ VideoStart + at \in DOMAIN hw_mem
  <2>1. v = v
    OBVIOUS
  <2> HIDE DEF v
  <2> QED
    BY <1>1, <1>2, ByteWritten
<1>4. \/ at + 1 < PageLen /\ at' = at + 1 /\ stage' = stage
      \/ at + 1 = PageLen /\ at' = 0
           /\ stage' = IF stage = "video_write" THEN "malloc" ELSE "user"
  BY <1>1, <1>2, Sizes DEF VideoNext
<1>5. IInv'
  BY <1>0, StartKeeps DEF StartStep
<1>6. v \in Byte
  <2>1. TestByte(at) \in {0, 1}
    BY <1>2, Sizes DEF TestByte
  <2> QED
    BY <2>1, SomeMemory
<1>7. Bounded'
  <2>1. stage' \in Stages /\ at' \in Nat
    BY <1>1, <1>2, <1>4 DEF Stages
  <2>2. hw_mem' \in [0 .. PhyFrames * PageLen - 1 -> Byte]
    <3> HIDE DEF v
    <3> QED
      BY <1>0, <1>3, <1>6 DEF Bounded
  <2> QED
    BY <1>0, <1>1, <2>1, <2>2 DEF Bounded
<1>8. /\ ModeInv' /\ KernelInv' /\ VideoInv' /\ TablesEmpty'
      /\ \A dir, p : Walk(dir, p)' = Walk(dir, p)
      /\ \A p : Mapped(p)' = Mapped(p)
      /\ TlbTyped(tlb)' /\ TlbInv(tlb)'
  <2>1. /\ stage \notin {"init_page", "init_mm"} /\ stage' # "write_cr3"
        /\ stage' \in Stages \ {"init_page", "init_mm"}
        /\ (stage \in Switched) = (stage' \in Switched)
    BY <1>1, <1>4 DEF Stages, Switched
  <2>2. /\ ModeInv' /\ KernelInv' /\ VideoInv' /\ TablesEmpty'
        /\ \A dir, p : Walk(dir, p)' = Walk(dir, p)
        /\ \A p : Mapped(p)' = Mapped(p)
    BY <1>1, <2>1, SameMap
  <2>3. TlbTyped(tlb)' /\ TlbInv(tlb)'
    BY <1>1, <1>3, <2>1, SameMap
  <2> QED
    BY <2>2, <2>3
<1>9. /\ seg' = seg /\ brk' = brk /\ nr_frame' = nr_frame
      /\ stage = "video_write" => seg = 1 /\ seg' - 1 = 0
      /\ stage = "video_clear" => seg = Len(Segments) + 1
  BY <1>0, <1>1 DEF LoadedInv, Loading
<1>10. LoadedInv'
  <2>1. CASE stage = "video_write"
    <3>1. NrLoaded = 0 /\ NrLoaded' = 0 /\ seg' = 1 /\ stage' \in {"video_write", "malloc"}
      BY <1>4, <1>9, <2>1 DEF NrLoaded
    <3>2. \A p \in UserRange : ~Mapped(p)'
      BY <1>0, <1>8, <2>1, <3>1 DEF LoadedInv, Loading
    <3>3. stage' = "video_write" => at' < PageLen
      BY <1>4, <2>1
    <3>4. stage' = "malloc" => at' = 0
      BY <1>4, <2>1
    <3> QED
      BY <3>1, <3>2, <3>3, <3>4 DEF LoadedInv, Loading
  <2>2. CASE stage = "video_clear"
    <3>1. NrLoaded' = NrLoaded /\ seg' = Len(Segments) + 1
          /\ stage' \in {"video_clear", "user"}
      BY <1>4, <1>9, <2>2 DEF NrLoaded
    <3>2. stage' = "video_clear" => at' < PageLen
      BY <1>4, <2>2
    <3>3. stage' = "user" => at' = 0
      BY <1>4, <2>2
    <3> QED
      BY <1>0, <1>8, <3>1, <3>2, <3>3 DEF LoadedInv, Loading
  <2> QED
    BY <1>1, <2>1, <2>2
<1>11. BreakInv'
  <2>1. CASE stage = "video_write"
    BY <1>0, <1>4, <1>9, <2>1 DEF BreakInv, Loading
  <2>2. CASE stage = "video_clear" /\ stage' = "video_clear"
    BY <1>0, <1>8, <1>9, <2>2 DEF BreakInv, Loading
  <2>3. CASE stage = "video_clear" /\ stage' = "user"
    <3>1. brk = Last
      <4>1. Len(Segments) + 1 # 1 /\ (Len(Segments) + 1) - 1 = Len(Segments)
        BY SegmentLemma
      <4> QED
        BY <1>0, <1>9, <2>3, <4>1, Ranges DEF BreakInv
    <3>2. brk' \in Last .. MaxBrk /\ Last + 1 .. brk' - 1 = {}
      BY <1>9, <3>1, Geometry
    <3>3. \A p \in KOFFSET - StackPages .. KOFFSET - 1 : Mapped(p)'
      BY <1>0, <1>8, <2>3 DEF BreakInv, Loading
    <3> QED
      BY <2>3, <3>2, <3>3 DEF BreakInv
  <2> QED
    BY <1>1, <1>4, <2>1, <2>2, <2>3
<1>12. PatternInv'
  <2>1. CASE stage = "video_write"
    <3> SUFFICES ASSUME NEW i \in 0 .. PageLen - 1,
                        stage' = "video_write" => i < at'
                 PROVE  hw_mem'[VideoStart + i] = TestByte(i)
      BY <1>4, <2>1 DEF PatternInv
    <3>1. i < at \/ i = at
      BY <1>2, <1>4, <2>1
    <3>2. VideoStart \in Int
      BY Geometry, Sizes DEF VideoStart
    <3>3. CASE i = at
      BY <1>3, <2>1, <3>3
    <3>4. CASE i < at
      <4>1. VideoStart + i # VideoStart + at
        BY <1>2, <3>2, <3>4
      <4>2. hw_mem'[VideoStart + i] = hw_mem[VideoStart + i]
        BY <1>3, <4>1
      <4> QED
        BY <1>0, <2>1, <3>4, <4>2 DEF PatternInv
    <3> QED
      BY <3>1, <3>3, <3>4
  <2>2. CASE stage = "video_clear"
    BY <1>4, <2>2 DEF PatternInv
  <2> QED
    BY <1>1, <2>1, <2>2
<1> QED
  BY <1>5, <1>7, <1>8, <1>10, <1>11, <1>12 DEF KInv

LEMMA VideoReadKInv == ASSUME KInv, VideoReadTest PROVE KInv'
<1>0. /\ IInv /\ ModeInv /\ Bounded /\ KernelInv /\ VideoInv /\ TablesEmpty
      /\ TlbTyped(tlb) /\ TlbInv(tlb) /\ LoadedInv /\ BreakInv /\ PatternInv
  BY DEF KInv
<1>1. /\ UNCHANGED <<TLB_ENABLED, paging, cr3, pdir, ptable, nr_pt, nr_frame,
                     p_paddr, seg, brk, reply, hw_mem>>
      /\ stage = "video_read" /\ VideoNext("video_clear")
  BY DEF VideoReadTest, mmu, loader, alloc
<1>2. PICK t \in TlbsAfter(VideoStart + at) : Translate(VideoStart + at, 1, t)
  BY DEF VideoReadTest
<1>3. /\ paging /\ at \in 0 .. PageLen - 1 /\ VideoStart + at \in Nat
      /\ Page(VideoStart + at) = VideoPage /\ VideoPage \in Pages
      /\ Walk(cr3, VideoPage) = VideoPage /\ VideoPage # None
  BY <1>1, VideoPlace
<1>4. TlbTyped(tlb') /\ TlbInv(tlb')
  BY <1>2, <1>3, ByteRead
<1>5. \/ at + 1 < PageLen /\ at' = at + 1 /\ stage' = stage
      \/ at' = 0 /\ stage' = "video_clear"
  BY <1>1 DEF VideoNext
<1>6. IInv'
  BY <1>0, StartKeeps DEF StartStep
<1>7. Bounded'
  BY <1>0, <1>1, <1>3, <1>5 DEF Bounded, Stages
<1>8. /\ ModeInv' /\ KernelInv' /\ VideoInv' /\ TablesEmpty'
      /\ \A dir, p : Walk(dir, p)' = Walk(dir, p)
      /\ \A p : Mapped(p)' = Mapped(p)
      /\ TlbTyped(tlb)' /\ TlbInv(tlb)'
  <2>1. /\ stage \notin {"init_page", "init_mm"} /\ stage' # "write_cr3"
        /\ stage' \in Stages \ {"init_page", "init_mm"}
        /\ (stage \in Switched) = (stage' \in Switched)
    BY <1>1, <1>5 DEF Stages, Switched
  <2>2. /\ ModeInv' /\ KernelInv' /\ VideoInv' /\ TablesEmpty'
        /\ \A dir, p : Walk(dir, p)' = Walk(dir, p)
        /\ \A p : Mapped(p)' = Mapped(p)
    BY <1>1, <2>1, SameMap
  <2>3. TlbTyped(tlb)' /\ TlbInv(tlb)'
    BY <1>1, <1>4, <2>1, SameMap
  <2> QED
    BY <2>2, <2>3
<1>9. stage' \in {"video_read", "video_clear"} /\ at' < PageLen /\ seg' = seg
      /\ NrLoaded' = NrLoaded /\ NrLoaded = seg - 1
  BY <1>1, <1>5, Sizes DEF NrLoaded
<1>10. LoadedInv' /\ BreakInv' /\ PatternInv'
  <2>1. LoadedInv'
    BY <1>0, <1>1, <1>8, <1>9 DEF LoadedInv, Loading
  <2>2. BreakInv'
    BY <1>0, <1>1, <1>8, <1>9 DEF BreakInv, Loading
  <2>3. PatternInv'
    BY <1>0, <1>1, <1>9 DEF PatternInv
  <2> QED
    BY <2>1, <2>2, <2>3
<1> QED
  BY <1>6, <1>7, <1>8, <1>10 DEF KInv

-----------------------------------------------------------------------------
(* A step that changes the TLB at most, and the program's last read.       *)
LEMMA OnlyTlb ==
  ASSUME KInv, TlbTyped(tlb'), TlbInv(tlb'),
         UNCHANGED <<mmu, hw_mem, stage, at, loader, alloc, brk>>,
         reply' = <<>> \/ \E len \in Lens : reply' \in [0 .. len - 1 -> Byte]
  PROVE  KInv'
<1>0. /\ IInv /\ ModeInv /\ Bounded /\ KernelInv /\ VideoInv /\ TablesEmpty
      /\ LoadedInv /\ BreakInv /\ PatternInv
  BY DEF KInv
<1>1. UNCHANGED <<TLB_ENABLED, paging, cr3, pdir, ptable, hw_mem, stage, at,
                  seg, p_paddr, nr_pt, nr_frame, brk>>
  BY DEF mmu, loader, alloc
<1>2. \A dir, p : Walk(dir, p)' = Walk(dir, p)
  BY <1>1 DEF Walk
<1>3. \A p : Mapped(p)' = Mapped(p)
  BY <1>2 DEF Mapped
<1>4. IInv'
  <2>1. brk' \in Int /\ LoadPoint' /\ Fresh'
    BY <1>0, <1>1 DEF IInv, Types, LoadPoint, Fresh
  <2> QED
    BY <1>0, <1>1, <2>1, SameTables
<1>5. ModeInv' /\ Bounded' /\ KernelInv' /\ VideoInv' /\ TablesEmpty'
  <2>1. ModeInv' /\ KernelInv'
    BY <1>0, <1>1 DEF ModeInv, KernelInv
  <2>2. VideoInv' /\ TablesEmpty'
    BY <1>0, <1>1 DEF VideoInv, TablesEmpty
  <2>3. Bounded'
    BY <1>0, <1>1 DEF Bounded
  <2> QED
    BY <2>1, <2>2, <2>3
<1>6. TlbTyped(tlb)' /\ TlbInv(tlb)'
  BY <1>1, <1>2 DEF TlbTyped, TlbInv, Filled
<1>7. LoadedInv'
  <2>1. NrLoaded' = NrLoaded
    BY <1>1 DEF NrLoaded
  <2> QED
    BY <1>0, <1>1, <1>2, <1>3, <2>1 DEF LoadedInv, SegmentPlaced
<1>8. BreakInv' /\ PatternInv'
  BY <1>0, <1>1, <1>3 DEF BreakInv, PatternInv
<1> QED
  BY <1>4, <1>5, <1>6, <1>7, <1>8 DEF KInv

LEMMA KernelRunsKInv == ASSUME KInv, KernelRuns PROVE KInv'
<1>1. PICK k \in KernelPages :
        \E t \in TlbsAfter((KOFFSET + k) * PageLen) :
          Translate((KOFFSET + k) * PageLen, 1, t)
  BY DEF KernelRuns
<1> DEFINE a == (KOFFSET + k) * PageLen
<1>2. PICK t \in TlbsAfter(a) : Translate(a, 1, t)
  BY <1>1
<1>3. k \in Frames /\ k \in Nat /\ KOFFSET + k \in Nat
  BY SMTT(20), KernelMemoryAssumption, Geometry DEF Frames
<1>4. a \in Nat /\ Page(a) = KOFFSET + k
  <2>1. a \in Nat /\ a = (KOFFSET + k) * PageLen + 0 /\ 0 \in 0 .. PageLen - 1
    BY <1>3, Sizes
  <2> HIDE DEF a
  <2> QED
    BY <1>3, <2>1, PageLemma
<1>5. paging
  BY DEF KernelRuns, KInv, ModeInv
<1>6. /\ Page(a) \in Pages /\ Walk(cr3, Page(a)) = k /\ k # None
  BY <1>3, <1>4, <1>5, KernelWalk, Indices, Sizes
<1>7. TlbTyped(tlb') /\ TlbInv(tlb')
  <2> HIDE DEF a
  <2> QED
    BY <1>2, <1>4, <1>5, <1>6, ByteRead
<1>8. reply' = reply /\ UNCHANGED <<mmu, hw_mem, stage, at, loader, alloc, brk>>
  BY DEF KernelRuns
<1>9. reply' = <<>> \/ \E len \in Lens : reply' \in [0 .. len - 1 -> Byte]
  BY <1>8 DEF KInv, Bounded
<1> QED
  BY <1>7, <1>8, <1>9, OnlyTlb

-----------------------------------------------------------------------------
(* The program.  The addresses it may use are mapped.                      *)
LEMMA UserMapped ==
  ASSUME KInv, stage \in {"user", "panic"}, NEW a \in UserNow
  PROVE  a \in Nat /\ Page(a) \in UserRange /\ Page(a) \in Pages /\ Mapped(Page(a))
<1>1. seg = Len(Segments) + 1 /\ NrLoaded = Len(Segments)
      /\ Len(Segments) \in Nat /\ DOMAIN Segments = 1 .. Len(Segments)
  <2>1. Len(Segments) \in Nat /\ DOMAIN Segments = 1 .. Len(Segments)
    BY KernelMemoryTypes
  <2>2. seg = Len(Segments) + 1
    BY DEF KInv, LoadedInv, Loading
  <2>3. NrLoaded = seg - 1
    BY DEF NrLoaded
  <2> QED
    BY <2>1, <2>2, <2>3
<1>2. CASE a \in ImageAddr
  <2>1. PICK k \in DOMAIN Segments : a \in SegmentAddr(Segments[k])
    BY <1>2 DEF ImageAddr
  <2>2. /\ a \in Nat /\ Page(a) \in UserRange
        /\ Page(a) \in PagesOf(Segments[k].vaddr, Segments[k].memsz)
    BY <2>1, HeapAndStack
  <2>3. Mapped(Page(a))
    BY <1>1, <2>2 DEF KInv, LoadedInv
  <2> QED
    BY <2>2, <2>3, Indices
<1>3. CASE a \in StackAddr
  <2>1. /\ a \in Nat /\ Page(a) \in KOFFSET - StackPages .. KOFFSET - 1
        /\ Page(a) \in UserRange
    BY <1>3, HeapAndStack
  <2>2. Mapped(Page(a))
    BY <2>1 DEF KInv, BreakInv, Loading
  <2> QED
    BY <2>1, <2>2, Indices
<1>4. CASE a \in Last + 1 .. brk - 1
  <2>1. brk \in Last .. MaxBrk /\ Mapped(Page(a))
    BY <1>4 DEF KInv, BreakInv
  <2>2. a \in Last .. MaxBrk - 1
    BY <1>4, <2>1, Geometry
  <2> QED
    BY <2>1, <2>2, HeapAndStack, Indices
<1> QED
  BY <1>2, <1>3, <1>4 DEF UserNow

(* An access of the program.                                               *)
LEMMA UserAccess ==
  ASSUME KInv, stage = "user", NEW acc \in Accesses(UserNow)
  PROVE  /\ paging /\ cr3 = "updir" /\ acc[1] \in Nat /\ acc[2] \in 1 .. PageLen
         /\ acc[2] \in Lens /\ acc[1] \in UserNow /\ acc[1] + acc[2] - 1 \in UserNow
         /\ \A i \in 0 .. acc[2] - 1 : acc[1] + i \in UserNow
         /\ Page(acc[1]) \in Pages /\ Page(acc[1] + acc[2] - 1) \in Pages
         /\ Walk(cr3, Page(acc[1])) # None
         /\ Walk(cr3, Page(acc[1] + acc[2] - 1)) # None
<1> DEFINE a == acc[1]
           len == acc[2]
<1>1. /\ a \in UserNow /\ len \in Lens /\ len \in 1 .. PageLen
      /\ a .. a + len - 1 \subseteq UserNow
  BY KernelMemoryAssumption DEF Accesses
<1>2. paging /\ cr3 = "updir"
  BY DEF KInv, ModeInv, Switched
<1>3. a \in Nat /\ Page(a) \in Pages /\ Mapped(Page(a))
  BY <1>1, UserMapped
<1>4. a + len - 1 \in a .. a + len - 1
  BY <1>1, <1>3
<1>5. a + len - 1 \in UserNow
  BY <1>1, <1>4
<1>6. Page(a + len - 1) \in Pages /\ Mapped(Page(a + len - 1))
  BY <1>5, UserMapped
<1>7. \A i \in 0 .. len - 1 : a + i \in UserNow
  <2> SUFFICES ASSUME NEW i \in 0 .. len - 1 PROVE a + i \in UserNow
    OBVIOUS
  <2>1. a + i \in a .. a + len - 1
    BY <1>1, <1>3
  <2> QED
    BY <1>1, <2>1
<1> QED
  BY <1>1, <1>2, <1>3, <1>5, <1>6, <1>7 DEF Mapped

LEMMA UserReadKInv ==
  ASSUME KInv, NEW acc \in Accesses(UserNow), UserRead(acc[1], acc[2])
  PROVE  KInv'
<1> DEFINE a == acc[1]
           len == acc[2]
<1>1. stage = "user"
  BY DEF UserRead
<1>2. PICK t \in TlbsAfter(a) : Translate(a, len, t) /\ reply' = BytesRead(t, a, len)
  BY DEF UserRead
<1>3. /\ paging /\ a \in Nat /\ len \in 1 .. PageLen /\ len \in Lens
      /\ Page(a) \in Pages /\ Page(a + len - 1) \in Pages
      /\ Walk(cr3, Page(a)) # None /\ Walk(cr3, Page(a + len - 1)) # None
  BY <1>1, UserAccess
<1> HIDE DEF a, len
<1>4. TlbTyped(t) /\ TlbInv(t) /\ TlbTyped(tlb') /\ TlbInv(tlb')
  BY <1>2, <1>3, TranslateKeeps
<1>5. \A i \in 0 .. len - 1 : hw_mem[BytePaddr(t, a, len, i)] \in Byte
  <2>1. hw_mem \in [0 .. PhyFrames * PageLen - 1 -> Byte]
    BY DEF KInv, Bounded
  <2>2. \A i \in 0 .. len - 1 : BytePaddr(t, a, len, i) \in 0 .. PhyFrames * PageLen - 1
    BY <1>3, <1>4, BytePlace
  <2> QED
    BY <2>1, <2>2
<1>6. reply' \in [0 .. len - 1 -> Byte]
  BY <1>2, <1>5 DEF BytesRead
<1>7. UNCHANGED <<mmu, hw_mem, stage, at, loader, alloc, brk>>
  BY DEF UserRead
<1> QED
  BY <1>3, <1>4, <1>6, <1>7, OnlyTlb

LEMMA UserWriteKInv ==
  ASSUME KInv, NEW acc \in Accesses(UserNow), NEW data \in [0 .. acc[2] - 1 -> Byte],
         UserWrite(acc[1], acc[2], data)
  PROVE  KInv'
<1> DEFINE a == acc[1]
           len == acc[2]
<1>0. /\ IInv /\ ModeInv /\ Bounded /\ KernelInv /\ VideoInv /\ TablesEmpty
      /\ TlbTyped(tlb) /\ TlbInv(tlb) /\ LoadedInv /\ BreakInv /\ PatternInv
  BY DEF KInv
<1>1. /\ stage = "user" /\ stage' = "user"
      /\ UNCHANGED <<TLB_ENABLED, paging, cr3, pdir, ptable, nr_pt, nr_frame, at,
                     p_paddr, seg, brk, reply>>
  BY DEF UserWrite, mmu, loader, alloc
<1>2. PICK t \in TlbsAfter(a) :
        Translate(a, len, t) /\ hw_mem' = BytesWritten(t, a, len, data)
  BY DEF UserWrite, laddr_write
<1>3. /\ paging /\ a \in Nat /\ len \in 1 .. PageLen
      /\ Page(a) \in Pages /\ Page(a + len - 1) \in Pages
      /\ Walk(cr3, Page(a)) # None /\ Walk(cr3, Page(a + len - 1)) # None
  BY <1>1, UserAccess
<1>4. TlbTyped(tlb') /\ TlbInv(tlb')
  <2> HIDE DEF a, len
  <2> QED
    BY <1>2, <1>3, TranslateKeeps
<1>5. hw_mem' \in [0 .. PhyFrames * PageLen - 1 -> Byte]
  <2> DEFINE Here(pa, i) == BytePaddr(t, a, len, i) = pa
  <2>1. hw_mem' = [pa \in DOMAIN hw_mem |->
          IF \E i \in 0 .. len - 1 : Here(pa, i)
          THEN data[CHOOSE i \in 0 .. len - 1 : Here(pa, i)] ELSE hw_mem[pa]]
    BY <1>2 DEF BytesWritten
  <2>2. hw_mem \in [0 .. PhyFrames * PageLen - 1 -> Byte]
    BY <1>0 DEF Bounded
  <2>3. data \in [0 .. len - 1 -> Byte]
    OBVIOUS
  <2> HIDE DEF Here, a, len
  <2>4. ASSUME NEW pa, \E i \in 0 .. len - 1 : Here(pa, i)
        PROVE  data[CHOOSE i \in 0 .. len - 1 : Here(pa, i)] \in Byte
    <3>1. (CHOOSE i \in 0 .. len - 1 : Here(pa, i)) \in 0 .. len - 1
      BY <2>4, Zenon
    <3> QED
      BY <2>3, <3>1
  <2> QED
    BY <2>1, <2>2, <2>4
<1>6. IInv'
  <2>1. brk' \in Int /\ LoadPoint' /\ Fresh'
    BY <1>0, <1>1 DEF IInv, Types, LoadPoint, Fresh
  <2> QED
    BY <1>0, <1>1, <2>1, SameTables
<1>7. Bounded'
  BY <1>0, <1>1, <1>5 DEF Bounded
<1>8. /\ ModeInv' /\ KernelInv' /\ VideoInv' /\ TablesEmpty'
      /\ \A dir, p : Walk(dir, p)' = Walk(dir, p)
      /\ \A p : Mapped(p)' = Mapped(p)
      /\ TlbTyped(tlb)' /\ TlbInv(tlb)'
  <2>1. /\ stage \notin {"init_page", "init_mm"} /\ stage' # "write_cr3"
        /\ stage' \in Stages \ {"init_page", "init_mm"}
        /\ (stage \in Switched) = (stage' \in Switched)
    BY <1>1 DEF Stages
  <2>2. /\ ModeInv' /\ KernelInv' /\ VideoInv' /\ TablesEmpty'
        /\ \A dir, p : Walk(dir, p)' = Walk(dir, p)
        /\ \A p : Mapped(p)' = Mapped(p)
    BY <1>1, <2>1, SameMap
  <2>3. TlbTyped(tlb)' /\ TlbInv(tlb)'
    BY <1>1, <1>4, <2>1, SameMap
  <2> QED
    BY <2>2, <2>3
<1>9. LoadedInv'
  <2>1. NrLoaded' = NrLoaded
    BY <1>1 DEF NrLoaded
  <2> QED
    BY <1>0, <1>1, <1>8, <2>1 DEF LoadedInv, Loading
<1>10. BreakInv' /\ PatternInv'
  <2>1. BreakInv'
    BY <1>0, <1>1, <1>8 DEF BreakInv
  <2>2. PatternInv'
    BY <1>1 DEF PatternInv
  <2> QED
    BY <2>1, <2>2
<1> QED
  BY <1>6, <1>7, <1>8, <1>9, <1>10 DEF KInv

LEMMA PanicKInv ==
  ASSUME KInv, NEW new_brk \in Last + 1 .. MaxBrk, MmBrkPanic(new_brk) PROVE KInv'
<1>0. /\ IInv /\ ModeInv /\ Bounded /\ KernelInv /\ VideoInv /\ TablesEmpty
      /\ TlbTyped(tlb) /\ TlbInv(tlb) /\ LoadedInv /\ BreakInv /\ PatternInv
  BY DEF KInv
<1>1. /\ stage = "user" /\ stage' = "panic"
      /\ UNCHANGED <<TLB_ENABLED, paging, cr3, pdir, ptable, nr_pt, nr_frame, at,
                     p_paddr, seg, brk, reply, hw_mem, tlb>>
  BY DEF MmBrkPanic, OutOfFrames, mmu, loader, alloc
<1>2. IInv'
  <2>1. brk' \in Int /\ LoadPoint' /\ Fresh'
    BY <1>0, <1>1 DEF IInv, Types, LoadPoint, Fresh
  <2> QED
    BY <1>0, <1>1, <2>1, SameTables
<1>3. Bounded'
  BY <1>0, <1>1 DEF Bounded, Stages
<1>4. /\ ModeInv' /\ KernelInv' /\ VideoInv' /\ TablesEmpty'
      /\ \A dir, p : Walk(dir, p)' = Walk(dir, p)
      /\ \A p : Mapped(p)' = Mapped(p)
      /\ TlbTyped(tlb)' /\ TlbInv(tlb)'
  <2>1. /\ stage \notin {"init_page", "init_mm"} /\ stage' # "write_cr3"
        /\ stage' \in Stages \ {"init_page", "init_mm"}
        /\ (stage \in Switched) = (stage' \in Switched)
    BY <1>1 DEF Stages, Switched
  <2>2. /\ ModeInv' /\ KernelInv' /\ VideoInv' /\ TablesEmpty'
        /\ \A dir, p : Walk(dir, p)' = Walk(dir, p)
        /\ \A p : Mapped(p)' = Mapped(p)
    BY <1>1, <2>1, SameMap
  <2>3. TlbTyped(tlb)' /\ TlbInv(tlb)'
    BY <1>0, <1>1, <2>1, SameMap
  <2> QED
    BY <2>2, <2>3
<1>5. LoadedInv'
  <2>1. NrLoaded' = NrLoaded
    BY <1>1 DEF NrLoaded
  <2> QED
    BY <1>0, <1>1, <1>4, <2>1 DEF LoadedInv, Loading
<1>6. BreakInv' /\ PatternInv'
  <2>1. BreakInv'
    BY <1>0, <1>1, <1>4 DEF BreakInv, Loading
  <2>2. PatternInv'
    BY <1>1 DEF PatternInv
  <2> QED
    BY <2>1, <2>2
<1> QED
  BY <1>2, <1>3, <1>4, <1>5, <1>6 DEF KInv

-----------------------------------------------------------------------------
(* The program's directory is completed and loaded.                        *)
LEMMA VideoMapWalk ==
  ASSUME KInv, CreateVideoMapping, NEW p \in UserRange
  PROVE  Walk("updir", p)' = Walk("updir", p)
<1> DEFINE i == p \div NrPTE
<1>0. /\ IInv /\ 0 \in PDEs /\ VTable \in Tables /\ VideoPage \in PTEs
  BY Geometry, Sizes, TablesTyped DEF KInv
<1>1. /\ \A k \in PDEs : pdir'["updir"][k] = IF k = 0 THEN VTable ELSE pdir["updir"][k]
      /\ \A t \in Tables, j \in PTEs : t # VTable => ptable'[t][j] = ptable[t][j]
  BY <1>0 DEF CreateVideoMapping, IInv, Types, KernelDirs
<1>2. /\ i \in PDEs /\ i # 0 /\ p % NrPTE \in PTEs
  <2>1. i \in NrKTables .. KPDE - 1 /\ p \in Pages
    BY Indices
  <2>2. i # 0
    BY <2>1, Geometry
  <2> QED
    BY <2>1, <2>2, Indices
<1>3. pdir'["updir"][i] = pdir["updir"][i] /\ pdir["updir"][i] # VTable
  BY <1>0, <1>1, <1>2 DEF IInv, TablesOnce
<1>4. pdir["updir"][i] \in Tables \cup {None}
  BY <1>0, <1>2 DEF IInv, Types, KernelDirs
<1> QED
  BY <1>1, <1>2, <1>3, <1>4 DEF Walk

LEMMA VideoMapKInv == ASSUME KInv, CreateVideoMapping PROVE KInv'
<1>0. /\ IInv /\ ModeInv /\ Bounded /\ KernelInv /\ VideoInv /\ TablesEmpty
      /\ TlbTyped(tlb) /\ TlbInv(tlb) /\ LoadedInv /\ BreakInv /\ PatternInv
      /\ stage = "video_map" /\ stage' = "write_cr3"
      /\ UNCHANGED <<TLB_ENABLED, paging, cr3, tlb, hw_mem, at, seg, p_paddr,
                     nr_pt, nr_frame, brk, reply>>
  BY DEF KInv, CreateVideoMapping, loader, alloc
<1>1. IInv'
  BY <1>0, VideoMappingKeeps
<1>2. /\ 0 \in PDEs /\ VideoPage \in PTEs /\ VideoPage \in Frames /\ VTable \in Tables
      /\ VTable # None /\ VideoPage # None
  BY Geometry, Indices, Sizes, TablesTyped
<1>3. /\ pdir'["kpdir"] = pdir["kpdir"]
      /\ \A i \in PDEs : pdir'["updir"][i] = IF i = 0 THEN VTable ELSE pdir["updir"][i]
      /\ \A t \in Tables, j \in PTEs :
           ptable'[t][j] = IF t = VTable /\ j = VideoPage THEN VideoPage ELSE ptable[t][j]
      /\ ptable' \in [Tables -> [PTEs -> Frames \cup {None}]]
  BY <1>0, <1>2 DEF CreateVideoMapping, IInv, Types, KernelDirs, Bounded
<1>4. \A t \in Tables, j \in PTEs : t # VTable => ptable'[t][j] = ptable[t][j]
  BY <1>3
<1>5. ModeInv' /\ Bounded'
  BY <1>0, <1>3 DEF ModeInv, Bounded, Stages, Switched
<1>6. /\ \A i \in KIndex : KTable(i) \in Tables /\ KTable(i) # VTable /\ i \in PDEs
      /\ \A i \in KIndex : KPDE + i \in PDEs /\ KPDE + i # 0
  <2>1. \A i \in KIndex : KTable(i) \in Tables /\ KTable(i) # VTable
    BY TablesTyped, TablesApart DEF KTables, KIndex
  <2>2. /\ NrKTables \in Nat \ {0} /\ KPDE \in Nat /\ NrPDE \in Nat
        /\ NrKTables <= KPDE /\ KPDE + NrKTables <= NrPDE
    BY Geometry, Sizes
  <2>3. \A i \in KIndex : i \in PDEs /\ KPDE + i \in PDEs /\ KPDE + i # 0
    BY <2>2 DEF KIndex, PDEs
  <2> QED
    BY <2>1, <2>3
<1>7. KernelInv'
  BY <1>0, <1>3, <1>4, <1>6 DEF KernelInv
<1>8. VideoInv'
  BY <1>0, <1>2, <1>3, <1>6 DEF VideoInv
<1>9. TablesEmpty'
  <2>1. \A i \in PDEs : UTable(i) \in Tables /\ UTable(i) # VTable
    BY TablesTyped, TablesApart DEF UserTables
  <2> QED
    BY <1>0, <1>4, <2>1 DEF TablesEmpty
<1>10. \A p \in Pages : Walk("kpdir", p)' = Walk("kpdir", p)
  <2> SUFFICES ASSUME NEW p \in Pages PROVE Walk("kpdir", p)' = Walk("kpdir", p)
    OBVIOUS
  <2>1. p \div NrPTE \in PDEs /\ p % NrPTE \in PTEs
    BY Indices
  <2>2. pdir["kpdir"][p \div NrPTE] \in KTables \cup {None}
    BY <1>0, <2>1 DEF IInv, TablesOnce
  <2>3. pdir["kpdir"][p \div NrPTE] # None =>
          pdir["kpdir"][p \div NrPTE] \in Tables /\ pdir["kpdir"][p \div NrPTE] # VTable
    BY <2>2, TablesTyped, TablesApart DEF KTables
  <2> QED
    BY <1>3, <1>4, <2>1, <2>3 DEF Walk
<1>11. \A p \in UserRange : Walk("updir", p)' = Walk("updir", p)
  BY VideoMapWalk
<1>12. \A p \in UserRange : Mapped(p)' = Mapped(p)
  BY <1>11 DEF Mapped
<1>13. TlbTyped(tlb)' /\ TlbInv(tlb)'
  <2>1. cr3 = "kpdir" /\ cr3' = "kpdir" /\ paging /\ paging'
    BY <1>0 DEF ModeInv, Switched
  <2>2. TlbTyped(tlb)'
    BY <1>0 DEF TlbTyped
  <2>3. ASSUME NEW i \in Entries PROVE Filled(tlb[i])'
    <3>1. Filled(tlb[i]) /\ tlb'[i] = tlb[i] /\ tlb[i].key \in Pages \cup {None}
      BY <1>0, <2>1 DEF TlbInv, TlbTyped
    <3> QED
      BY <1>10, <2>1, <3>1 DEF Filled
  <2> QED
    BY <2>1, <2>2, <2>3 DEF TlbInv
<1>14. LoadedInv'
  <2>1. NrLoaded' = NrLoaded /\ NrLoaded = Len(Segments)
    <3>1. Len(Segments) \in Nat
      BY KernelMemoryTypes
    <3>2. seg = Len(Segments) + 1 /\ NrLoaded = seg - 1 /\ NrLoaded' = seg - 1
      BY <1>0 DEF LoadedInv, NrLoaded, Loading
    <3> QED
      BY <3>1, <3>2
  <2>2. ASSUME NEW k \in 1 .. Len(Segments),
               NEW p \in PagesOf(Segments[k].vaddr, Segments[k].memsz)
        PROVE  Mapped(p)'
    <3>1. Mapped(p)
      BY <1>0, <2>1 DEF LoadedInv
    <3>2. p \in UserRange
      <4>1. k \in DOMAIN Segments
        BY KernelMemoryTypes
      <4> QED
        BY <4>1, Ranges
    <3> QED
      BY <1>12, <3>1, <3>2
  <2> QED
    BY <1>0, <2>1, <2>2 DEF LoadedInv, Loading
<1>15. BreakInv' /\ PatternInv'
  <2>1. BreakInv'
    BY <1>0, <1>12, HeapAndStack DEF BreakInv, Loading
  <2>2. PatternInv'
    BY <1>0 DEF PatternInv
  <2> QED
    BY <2>1, <2>2
<1> QED
  BY <1>1, <1>5, <1>7, <1>8, <1>9, <1>13, <1>14, <1>15 DEF KInv

(* The switch: what the TLB still holds is right for the new directory, or *)
(* lies below physical memory's size, where a program has no pages.        *)
LEMMA WriteCr3KInv == ASSUME KInv, WriteCr3 PROVE KInv'
<1>0. /\ IInv /\ ModeInv /\ Bounded /\ KernelInv /\ VideoInv /\ TablesEmpty
      /\ TlbTyped(tlb) /\ TlbInv(tlb) /\ LoadedInv /\ BreakInv /\ PatternInv
      /\ stage = "write_cr3" /\ stage' = "video_read" /\ cr3' = "updir"
      /\ UNCHANGED <<TLB_ENABLED, paging, pdir, ptable, tlb, hw_mem, at, seg, p_paddr,
                     nr_pt, nr_frame, brk, reply>>
  BY DEF KInv, WriteCr3, loader, alloc
<1>1. IInv'
  <2>1. brk' \in Int /\ LoadPoint' /\ Fresh'
    BY <1>0 DEF IInv, Types, LoadPoint, Fresh
  <2> QED
    BY <1>0, <2>1, SameTables
<1>2. \A dir, p : Walk(dir, p)' = Walk(dir, p)
  BY <1>0 DEF Walk
<1>3. \A p : Mapped(p)' = Mapped(p)
  BY <1>2 DEF Mapped
<1>4. ModeInv' /\ Bounded' /\ KernelInv' /\ VideoInv' /\ TablesEmpty'
  <2>1. ModeInv' /\ Bounded'
    BY <1>0 DEF ModeInv, Bounded, Stages, Switched
  <2>2. KernelInv' /\ TablesEmpty'
    BY <1>0 DEF KernelInv, TablesEmpty
  <2>3. VideoInv'
    BY <1>0 DEF VideoInv, Switched
  <2> QED
    BY <2>1, <2>2, <2>3
<1>5. TlbTyped(tlb)' /\ TlbInv(tlb)'
  <2>1. cr3 = "kpdir" /\ paging /\ paging'
    BY <1>0 DEF ModeInv, Switched
  <2>2. TlbTyped(tlb)'
    BY <1>0 DEF TlbTyped
  <2>3. ASSUME NEW i \in Entries PROVE Filled(tlb[i])'
    <3> DEFINE key == tlb[i].key
               pte == tlb[i].pte
    <3>1. Filled(tlb[i]) /\ tlb'[i] = tlb[i] /\ key \in Pages \cup {None}
      BY <1>0, <2>1 DEF TlbInv, TlbTyped
    <3>2. CASE key = None
      BY <3>1, <3>2 DEF Filled
    <3>3. CASE key # None
      <4>1. key \in Pages /\ pte # None /\ pte = Walk("kpdir", key)
        BY <2>1, <3>1, <3>3 DEF Filled
      <4>2. \/ key \in Frames /\ pte = key
            \/ key - KOFFSET \in Frames /\ pte = key - KOFFSET
        BY <2>1, <4>1, KernelWalk
      <4>3. CASE key - KOFFSET \in Frames /\ pte = key - KOFFSET
        <5>1. KOFFSET + (key - KOFFSET) = key
          BY <4>1, Indices, Geometry
        <5>2. Walk("updir", KOFFSET + (key - KOFFSET)) = key - KOFFSET
          BY <1>0, <2>1, <4>3, KernelWalk
        <5> QED
          BY <1>0, <1>2, <3>1, <4>1, <4>3, <5>1, <5>2 DEF Filled
      <4>4. CASE key \in Frames /\ pte = key
        BY <1>0, <3>1, <4>1, <4>4 DEF Filled
      <4> QED
        BY <4>2, <4>3, <4>4
    <3> QED
      BY <3>2, <3>3
  <2> QED
    BY <2>1, <2>2, <2>3 DEF TlbInv
<1>6. LoadedInv'
  <2>1. NrLoaded' = NrLoaded
    BY <1>0 DEF NrLoaded
  <2> QED
    BY <1>0, <1>3, <2>1, Sizes DEF LoadedInv, Loading
<1>7. BreakInv' /\ PatternInv'
  <2>1. BreakInv'
    BY <1>0, <1>3 DEF BreakInv, Loading
  <2>2. PatternInv'
    BY <1>0 DEF PatternInv
  <2> QED
    BY <2>1, <2>2
<1> QED
  BY <1>1, <1>4, <1>5, <1>6, <1>7 DEF KInv

-----------------------------------------------------------------------------
(* A step that calls mm_malloc, but for where it goes on.                  *)
LEMMA AllocKInv ==
  ASSUME KInv, NEW va \in Int, NEW len \in Int,
         \A p \in PagesOf(va, len) : p \in UserRange,
         Enough(va, len), mm_malloc(va, len),
         stage \notin {"init_page", "init_mm"},
         stage' \in Stages \ {"init_page", "init_mm"},
         (stage \in Switched) = (stage' \in Switched), stage' # "write_cr3",
         UNCHANGED <<tlb, hw_mem, at, reply>>,
         p_paddr' \in 0 .. PhyFrames * PageLen - 1
  PROVE  /\ ModeInv' /\ Bounded' /\ KernelInv' /\ VideoInv' /\ TablesEmpty'
         /\ TlbTyped(tlb)' /\ TlbInv(tlb)'
         /\ \A p \in Pages : Mapped(p) => Mapped(p)' /\ Walk("updir", p)' = Walk("updir", p)
         /\ \A p \in Pages : Mapped(p)' = (Mapped(p) \/ p \in Missing(va, len))
<1>0. /\ IInv /\ ModeInv /\ Bounded /\ KernelInv /\ VideoInv /\ TablesEmpty
      /\ TlbTyped(tlb) /\ TlbInv(tlb)
  BY DEF KInv
<1> DEFINE M == Missing(va, len)
<1>1. /\ \A t \in KTables \cup {VTable}, j \in PTEs : ptable'[t][j] = ptable[t][j]
      /\ pdir'["kpdir"] = pdir["kpdir"]
      /\ \A i \in PDEs : i \notin NrKTables .. KPDE - 1 =>
           pdir'["updir"][i] = pdir["updir"][i]
      /\ \A q \in Pages : Walk("updir", q)' =
           IF q \in M THEN FrameFor(va, len, q) ELSE Walk("updir", q)
      /\ ptable' \in [Tables -> [PTEs -> Frames \cup {None}]]
      /\ \A q \in M : FrameFor(va, len, q) \in Frames
      /\ TablesEmpty'
      /\ nr_frame' <= PhyFrames
  BY <1>0, MallocMaps
<1>2. UNCHANGED <<TLB_ENABLED, paging, cr3>>
  BY DEF mm_malloc
<1>3. ModeInv' /\ Bounded'
  BY <1>0, <1>1, <1>2 DEF ModeInv, Bounded
<1>4. \A i \in KIndex : /\ KTable(i) \in KTables
                        /\ i \in PDEs /\ i \notin NrKTables .. KPDE - 1
                        /\ KPDE + i \in PDEs /\ KPDE + i \notin NrKTables .. KPDE - 1
  <2>1. /\ NrKTables \in Nat \ {0} /\ KPDE \in Nat /\ NrPDE \in Nat
        /\ NrKTables <= KPDE /\ KPDE + NrKTables <= NrPDE
    BY Geometry, Sizes
  <2>2. \A i \in KIndex : KTable(i) \in KTables
    BY DEF KIndex, KTables
  <2>3. \A i \in KIndex : /\ i \in PDEs /\ i \notin NrKTables .. KPDE - 1
                          /\ KPDE + i \in PDEs /\ KPDE + i \notin NrKTables .. KPDE - 1
    BY <2>1 DEF KIndex, PDEs
  <2> QED
    BY <2>2, <2>3
<1>5. KernelInv'
  BY <1>0, <1>1, <1>4 DEF KernelInv
<1>6. VideoInv'
  <2>1. \A i \in KIndex : pdir'["updir"][i] \in {None, VTable}
    BY <1>0, <1>1, <1>4 DEF VideoInv
  <2>2. \A j \in PTEs : ptable'[VTable][j] # None => j = VideoPage /\ ptable'[VTable][j] = j
    BY <1>0, <1>1 DEF VideoInv
  <2>3. stage' \in Switched \cup {"write_cr3"} =>
          pdir'["updir"][0] = VTable /\ ptable'[VTable][VideoPage] = VideoPage
    <3>1. 0 \in KIndex /\ VideoPage \in PTEs
      BY Geometry DEF KIndex
    <3> QED
      BY <1>0, <1>1, <1>4, <3>1 DEF VideoInv
  <2> QED
    BY <2>1, <2>2, <2>3 DEF VideoInv
<1>7. \A p \in Pages : Mapped(p) => Mapped(p)' /\ Walk("updir", p)' = Walk("updir", p)
  BY <1>1 DEF Mapped, Missing
<1>8. \A p \in Pages : Mapped(p)' = (Mapped(p) \/ p \in M)
  <2>1. None \notin Frames
    BY Sizes DEF Frames
  <2> QED
    BY <1>1, <2>1 DEF Mapped
<1>9. \A p \in Pages : Walk("kpdir", p)' = Walk("kpdir", p)
  <2> SUFFICES ASSUME NEW p \in Pages PROVE Walk("kpdir", p)' = Walk("kpdir", p)
    OBVIOUS
  <2>1. p \div NrPTE \in PDEs /\ p % NrPTE \in PTEs
    BY Indices
  <2>2. pdir["kpdir"][p \div NrPTE] \in KTables \cup {None}
    BY <1>0, <2>1 DEF IInv, TablesOnce
  <2> QED
    BY <1>1, <2>1, <2>2 DEF Walk
<1>10. TlbTyped(tlb)'
  BY <1>0 DEF TlbTyped
<1>11. TlbInv(tlb)'
  <2>1. paging /\ cr3 \in {"kpdir", "updir"}
    BY <1>0 DEF ModeInv
  <2>2. ASSUME NEW i \in Entries PROVE Filled(tlb[i])'
    <3> DEFINE key == tlb[i].key
               pte == tlb[i].pte
    <3>1. Filled(tlb[i]) /\ tlb'[i] = tlb[i] /\ key \in Pages \cup {None}
      BY <1>0, <2>1 DEF TlbInv, TlbTyped
    <3>2. key # None /\ pte = Walk(cr3, key) /\ pte # None => pte = Walk(cr3, key)'
      <4>1. CASE cr3 = "kpdir"
        BY <1>2, <1>9, <3>1, <4>1
      <4>2. CASE cr3 = "updir"
        BY <1>2, <1>7, <3>1, <4>2 DEF Mapped
      <4> QED
        BY <2>1, <4>1, <4>2
    <3> QED
      BY <1>2, <3>1, <3>2 DEF Filled
  <2> QED
    BY <1>2, <2>1, <2>2 DEF TlbInv
<1> QED
  BY <1>1, <1>3, <1>5, <1>6, <1>7, <1>8, <1>10, <1>11

-----------------------------------------------------------------------------
(* The loader.                                                             *)
LEMMA MallocStackKInv == ASSUME KInv, MallocStack PROVE KInv'
<1> DEFINE va == (KOFFSET - StackPages) * PageLen
           len == StackPages * PageLen
<1>0. /\ IInv /\ ModeInv /\ Bounded /\ KernelInv /\ VideoInv /\ TablesEmpty
      /\ LoadedInv /\ BreakInv /\ PatternInv
      /\ stage = "stack" /\ stage' = "video_map"
      /\ Enough(va, len) /\ mm_malloc(va, len)
      /\ UNCHANGED <<tlb, hw_mem, at, seg, p_paddr, brk, reply>>
  BY DEF KInv, MallocStack, loader
<1>1. /\ va \in Int /\ len \in Int /\ PagesOf(va, len) = KOFFSET - StackPages .. KOFFSET - 1
      /\ \A p \in PagesOf(va, len) : p \in UserRange
  <2>1. KOFFSET \in Int /\ StackPages \in Int /\ PageLen \in Int
    BY Geometry, Sizes
  <2>2. va \in Int /\ len \in Int
    BY <2>1
  <2>3. PagesOf(va, len) = KOFFSET - StackPages .. KOFFSET - 1
    BY HeapAndStack
  <2>4. \A p \in PagesOf(va, len) : p \in UserRange
    BY <2>3, HeapAndStack
  <2> QED
    BY <2>2, <2>3, <2>4
<1> HIDE DEF va, len
<1>2. IInv'
  BY <1>0, StartKeeps DEF StartStep
<1>3. /\ ModeInv' /\ Bounded' /\ KernelInv' /\ VideoInv' /\ TablesEmpty'
      /\ TlbTyped(tlb)' /\ TlbInv(tlb)'
      /\ \A p \in Pages : Mapped(p)' = (Mapped(p) \/ p \in Missing(va, len))
  <2>1. /\ stage \notin {"init_page", "init_mm"} /\ stage' # "write_cr3"
        /\ stage' \in Stages \ {"init_page", "init_mm"}
        /\ (stage \in Switched) = (stage' \in Switched)
        /\ p_paddr' \in 0 .. PhyFrames * PageLen - 1
    BY <1>0 DEF Stages, Switched, Bounded
  <2> QED
    BY <1>0, <1>1, <2>1, AllocKInv
<1>4. seg = Len(Segments) + 1 /\ Len(Segments) \in DOMAIN Segments
      /\ NrLoaded = Len(Segments) /\ NrLoaded' = Len(Segments)
      /\ DOMAIN Segments = 1 .. Len(Segments) /\ Len(Segments) \in Nat
  <2>1. /\ Len(Segments) \in DOMAIN Segments /\ DOMAIN Segments = 1 .. Len(Segments)
        /\ Len(Segments) \in Nat
    BY SegmentLemma, KernelMemoryTypes
  <2>2. /\ seg = Len(Segments) + 1
        /\ NrLoaded = seg - 1 /\ NrLoaded' = seg - 1
    BY <1>0 DEF LoadedInv, NrLoaded, Loading
  <2> QED
    BY <2>1, <2>2
<1>5. LoadedInv'
  <2>1. ASSUME NEW k \in 1 .. Len(Segments),
               NEW p \in PagesOf(Segments[k].vaddr, Segments[k].memsz)
        PROVE  Mapped(p)'
    <3>1. Mapped(p)
      BY <1>0, <1>4 DEF LoadedInv
    <3>2. p \in Pages
      BY <1>4, Ranges, Indices
    <3> QED
      BY <1>3, <3>1, <3>2
  <2> QED
    BY <1>0, <1>4, <2>1 DEF LoadedInv, Loading
<1>6. BreakInv'
  <2>1. ASSUME NEW p \in KOFFSET - StackPages .. KOFFSET - 1 PROVE Mapped(p)'
    <3>1. p \in PagesOf(va, len) /\ p \in Pages
      BY <1>1, Indices
    <3>2. Mapped(p) \/ p \in Missing(va, len)
      BY <3>1 DEF Missing, Mapped
    <3> QED
      BY <1>3, <3>1, <3>2
  <2> QED
    BY <1>0, <2>1 DEF BreakInv
<1>7. PatternInv'
  BY <1>0 DEF PatternInv
<1> QED
  BY <1>2, <1>3, <1>5, <1>6, <1>7 DEF KInv

(* Where byte at of the segment is, for the kernel and for the program.    *)
LEMMA LoadPlace ==
  ASSUME KInv, stage = "load"
  PROVE  /\ seg \in DOMAIN Segments
         /\ LET va == Segments[seg].vaddr + at
                f  == Walk("updir", Page(va))
            IN /\ va \in SegmentAddr(Segments[seg]) /\ va \in Nat
               /\ Page(va) \in UserRange /\ f \in KMEM .. nr_frame - 1 /\ f \in Frames
               /\ p_paddr + at \in Nat
               /\ p_paddr + at = f * PageLen + (va % PageLen)
               /\ Page(p_paddr + at) = f /\ (p_paddr + at) % PageLen = va % PageLen
<1>0. IInv /\ Bounded /\ LoadedInv
  BY DEF KInv
<1> DEFINE v == Segments[seg].vaddr
           va == v + at
           first == Page(v)
           f == Walk("updir", first)
           g == Walk("updir", Page(va))
<1>1. /\ seg \in DOMAIN Segments /\ v \in Nat /\ Segments[seg].memsz \in Nat
      /\ at \in Nat /\ at < Segments[seg].memsz /\ End(seg) = v + Segments[seg].memsz - 1
  <2>1. seg \in DOMAIN Segments
    BY <1>0 DEF IInv, LoadPoint
  <2>2. at \in Nat /\ at < Segments[seg].memsz
    BY <1>0 DEF Bounded, LoadedInv
  <2> QED
    BY <2>1, <2>2, Ranges DEF End
<1>2. /\ va \in SegmentAddr(Segments[seg]) /\ va \in Nat /\ v <= va /\ va <= End(seg)
      /\ End(seg) \in Nat
  BY <1>1 DEF SegmentAddr
<1>3. /\ first \in Nat /\ Page(va) \in Nat /\ Page(End(seg)) \in Nat
      /\ first <= Page(va) /\ Page(va) <= Page(End(seg))
      /\ v % PageLen \in Nat /\ va % PageLen \in 0 .. PageLen - 1
      /\ v = first * PageLen + (v % PageLen)
      /\ va = Page(va) * PageLen + (va % PageLen)
  <2> HIDE DEF v, va
  <2>1. /\ first \in Nat /\ v % PageLen \in 0 .. PageLen - 1
        /\ v = first * PageLen + (v % PageLen)
        /\ first <= Page(va)
    BY <1>1, <1>2, PageLemma
  <2>2. /\ Page(va) \in Nat /\ va % PageLen \in 0 .. PageLen - 1
        /\ va = Page(va) * PageLen + (va % PageLen)
        /\ Page(va) <= Page(End(seg))
    BY <1>2, PageLemma
  <2>3. Page(End(seg)) \in Nat
    BY <1>2, PageLemma
  <2>4. v % PageLen \in Nat
    BY <2>1
  <2> HIDE DEF first
  <2> QED
    BY <2>1, <2>2, <2>3, <2>4
<1>4. /\ Page(va) \in first .. Page(End(seg)) /\ first \in first .. Page(End(seg))
      /\ Page(va) \in UserRange /\ first \in UserRange
  <2>1. Page(va) \in first .. Page(End(seg)) /\ first \in first .. Page(End(seg))
    BY <1>3
  <2> QED
    BY <1>1, <2>1, Ranges
<1>5. /\ p_paddr = f * PageLen + (v % PageLen)
      /\ g = f + (Page(va) - first)
  <2>1. /\ p_paddr = f * PageLen + (v % PageLen)
        /\ \A p \in first .. Page(End(seg)) : Walk("updir", p) = f + (p - first)
    BY <1>0 DEF LoadedInv, SegmentPlaced
  <2> QED
    BY <1>4, <2>1
<1>6. ASSUME NEW p \in first .. Page(End(seg))
      PROVE  Walk("updir", p) \in KMEM .. nr_frame - 1 /\ Walk("updir", p) \in Frames
  <2>1. p \in PagesOf(v, Segments[seg].memsz) /\ p \in UserRange
    BY <1>1, Ranges
  <2>2. Walk("updir", p) # None
    <3>1. seg \in 1 .. NrLoaded
      BY <1>1, KernelMemoryTypes DEF NrLoaded
    <3> QED
      BY <1>0, <2>1, <3>1 DEF LoadedInv, Mapped
  <2>3. p \in UserPages
    <3>1. VideoPage < p /\ p \in Int /\ p \in 0 .. KOFFSET - 1
      BY <2>1, Indices, Geometry DEF UserRange
    <3>2. p # VideoPage
      BY <3>1, Geometry
    <3> QED
      BY <2>2, <3>1, <3>2 DEF UserPages
  <2>4. Walk("updir", p) \in KMEM .. nr_frame - 1
    BY <1>0, <2>2, <2>3, WalkLemma DEF IInv, FramesOnce
  <2> QED
    BY SMTT(20), <1>0, <2>4, Geometry DEF Bounded, IInv, Types, Frames
<1>7. /\ f \in Nat /\ g \in KMEM .. nr_frame - 1 /\ g \in Frames /\ g \in Nat
  BY <1>4, <1>6 DEF Frames
<1> HIDE DEF v, va, f, g, first
<1>8. p_paddr + at = g * PageLen + (va % PageLen)
  <2>1. \A w, x, y, z \in Int : (w + (x - y)) * z = w * z + x * z - y * z
    OBVIOUS
  <2>2. PageLen \in Int
    BY Sizes
  <2>3. g * PageLen = f * PageLen + Page(va) * PageLen - first * PageLen
    <3>1. f \in Int /\ Page(va) \in Int /\ first \in Int
      BY <1>3, <1>7
    <3> QED
      BY <1>5, <2>1, <2>2, <3>1
  <2>4. g * PageLen \in Int /\ f * PageLen \in Int /\ Page(va) * PageLen \in Int
        /\ first * PageLen \in Int
    BY <1>3, <1>7, <2>2
  <2>5. va = v + at
    BY DEF va
  <2> DEFINE gl == g * PageLen
             fl == f * PageLen
             pl == Page(va) * PageLen
             il == first * PageLen
             vm == v % PageLen
             am == va % PageLen
  <2>6. /\ gl \in Int /\ fl \in Int /\ pl \in Int /\ il \in Int /\ vm \in Int /\ am \in Int
        /\ gl = fl + pl - il /\ p_paddr = fl + vm /\ v = il + vm /\ va = pl + am
        /\ va = v + at /\ at \in Int
    BY <1>1, <1>3, <1>5, <2>3, <2>4, <2>5
  <2> HIDE DEF gl, fl, pl, il, vm, am
  <2>7. p_paddr + at = gl + am
    BY <2>6
  <2> QED
    BY <2>7 DEF gl, am
<1>9. p_paddr + at \in Nat
  BY <1>0, <1>1 DEF Bounded
<1>10. Page(p_paddr + at) = g /\ (p_paddr + at) % PageLen = va % PageLen
  <2>1. g \in Int
    BY <1>7
  <2> QED
    BY <1>3, <1>8, <1>9, <2>1, PageLemma
<1> QED
  BY <1>1, <1>2, <1>4, <1>7, <1>8, <1>9, <1>10 DEF va, v, g

LEMMA LoadByteKInv == ASSUME KInv, LoadByte PROVE KInv'
<1> DEFINE s == Segments[seg]
           a == p_paddr + at
<1>0. /\ IInv /\ ModeInv /\ Bounded /\ KernelInv /\ VideoInv /\ TablesEmpty
      /\ TlbTyped(tlb) /\ TlbInv(tlb) /\ LoadedInv /\ BreakInv /\ PatternInv
      /\ stage = "load"
  BY DEF KInv, LoadByte
<1>1. /\ UNCHANGED <<TLB_ENABLED, paging, cr3, pdir, ptable, nr_pt, nr_frame,
                     p_paddr, reply>>
      /\ laddr_write(a, 1, [i \in {0} |-> ImageByte(s, at)])
      /\ IF at + 1 < s.memsz
         THEN at' = at + 1 /\ stage' = stage /\ seg' = seg /\ brk' = brk
         ELSE /\ at' = 0 /\ seg' = seg + 1
              /\ brk' = IF brk < s.vaddr + s.memsz - 1 THEN s.vaddr + s.memsz - 1 ELSE brk
              /\ stage' = IF seg < Len(Segments) THEN "malloc" ELSE "stack"
  BY DEF LoadByte, mmu, alloc
<1>2. /\ seg \in DOMAIN Segments /\ a \in Nat /\ Page(a) \in KMEM .. nr_frame - 1
      /\ Page(a) \in Frames
  BY <1>0, LoadPlace
<1>3. /\ s.vaddr \in Nat /\ s.memsz \in Nat \ {0} /\ at \in Nat /\ at < s.memsz
      /\ Len(Segments) \in Nat /\ seg \in 1 .. Len(Segments) /\ s.file \in Seq(Byte)
      /\ DOMAIN Segments = 1 .. Len(Segments)
  <2>1. s.vaddr \in Nat /\ s.memsz \in Nat \ {0}
    BY <1>2, Ranges
  <2>2. /\ Len(Segments) \in Nat /\ seg \in 1 .. Len(Segments) /\ s.file \in Seq(Byte)
        /\ DOMAIN Segments = 1 .. Len(Segments)
    <3>1. s \in [vaddr : Nat, memsz : Nat, file : Seq(Byte)]
      <4> DEFINE S == [vaddr : Nat, memsz : Nat, file : Seq(Byte)]
      <4>1. Segments \in Seq(S)
        BY KernelMemoryTypes
      <4> HIDE DEF S
      <4>2. s \in S
        BY <1>2, <4>1
      <4> QED
        BY <4>2 DEF S
    <3> QED
      BY <1>2, <3>1, KernelMemoryTypes
  <2>3. at \in Nat /\ at < s.memsz
    BY <1>0 DEF Bounded, LoadedInv
  <2> QED
    BY <2>1, <2>2, <2>3
<1>4. /\ paging /\ cr3 = "kpdir" /\ Walk(cr3, Page(a)) = Page(a)
      /\ Page(a) \in Pages /\ Page(a) # None
      /\ Page(a) * PageLen + (a % PageLen) = a
  <2>1. paging /\ cr3 = "kpdir"
    BY <1>0 DEF ModeInv, Switched
  <2>2. Walk("kpdir", Page(a)) = Page(a)
    BY <1>2, <2>1, KernelWalk
  <2>3. Page(a) \in Pages /\ Page(a) # None
    BY <1>2, Indices, Sizes DEF Frames
  <2>4. Page(a) * PageLen + (a % PageLen) = a
    <3> HIDE DEF a
    <3> QED
      BY <1>2, PageLemma
  <2> QED
    BY <2>1, <2>2, <2>3, <2>4
<1> DEFINE b == ImageByte(s, at)
<1>5. b \in Byte
  <2>1. CASE at < Len(s.file)
    <3>1. at + 1 \in DOMAIN s.file
      BY <1>3, <2>1
    <3> QED
      BY <1>3, <2>1, <3>1 DEF ImageByte
  <2>2. CASE ~(at < Len(s.file))
    BY <2>2, SomeMemory DEF ImageByte
  <2> QED
    BY <2>1, <2>2
<1>6. /\ TlbTyped(tlb') /\ TlbInv(tlb')
      /\ hw_mem' = [hw_mem EXCEPT ![a] = b] /\ a \in DOMAIN hw_mem
  <2>1. laddr_write(a, 1, [i \in {0} |-> b])
    BY <1>1
  <2> HIDE DEF a, b
  <2> DEFINE pa == Walk(cr3, Page(a)) * PageLen + (a % PageLen)
  <2>2. Walk(cr3, Page(a)) # None
    BY <1>4
  <2>3. /\ TlbTyped(tlb') /\ TlbInv(tlb')
        /\ hw_mem' = [hw_mem EXCEPT ![pa] = b] /\ pa \in DOMAIN hw_mem
    BY <1>2, <1>4, <2>1, <2>2, ByteWritten
  <2>4. pa = a
    BY <1>4
  <2> HIDE DEF pa
  <2> QED
    BY <2>3, <2>4
<1> HIDE DEF b
<1>7. IInv'
  BY StartKeeps, <1>0 DEF StartStep
<1>8. \/ at + 1 < s.memsz /\ at' = at + 1 /\ stage' = "load" /\ seg' = seg /\ brk' = brk
      \/ /\ at' = 0 /\ seg' = seg + 1
         /\ brk' = IF brk < End(seg) THEN End(seg) ELSE brk
         /\ \/ seg < Len(Segments) /\ stage' = "malloc"
            \/ seg = Len(Segments) /\ stage' = "stack"
  <2>1. CASE at + 1 < s.memsz
    BY <1>0, <1>1, <2>1
  <2>2. CASE ~(at + 1 < s.memsz)
    <3>1. End(seg) = s.vaddr + s.memsz - 1
      BY DEF End
    <3>2. \/ seg < Len(Segments) /\ stage' = "malloc"
          \/ seg = Len(Segments) /\ stage' = "stack"
      BY <1>1, <1>3, <2>2
    <3> QED
      BY <1>1, <2>2, <3>1, <3>2
  <2> QED
    BY <2>1, <2>2
<1>9. Bounded'
  <2>1. hw_mem' \in [0 .. PhyFrames * PageLen - 1 -> Byte]
    <3> HIDE DEF a
    <3> QED
      BY <1>0, <1>5, <1>6 DEF Bounded
  <2>2. stage' \in Stages /\ at' \in Nat
    BY <1>3, <1>8 DEF Stages
  <2> QED
    BY <1>0, <1>1, <2>1, <2>2 DEF Bounded
<1>10. /\ ModeInv' /\ KernelInv' /\ VideoInv' /\ TablesEmpty'
       /\ \A dir, p : Walk(dir, p)' = Walk(dir, p)
       /\ \A p : Mapped(p)' = Mapped(p)
       /\ TlbTyped(tlb)' /\ TlbInv(tlb)'
  <2>1. /\ stage \notin {"init_page", "init_mm"} /\ stage' # "write_cr3"
        /\ stage' \in Stages \ {"init_page", "init_mm"}
        /\ (stage \in Switched) = (stage' \in Switched)
    BY <1>0, <1>8 DEF Stages, Switched
  <2>2. /\ ModeInv' /\ KernelInv' /\ VideoInv' /\ TablesEmpty'
        /\ \A dir, p : Walk(dir, p)' = Walk(dir, p)
        /\ \A p : Mapped(p)' = Mapped(p)
    BY <1>1, <2>1, SameMap
  <2>3. TlbTyped(tlb)' /\ TlbInv(tlb)'
    BY <1>1, <1>6, <2>1, SameMap
  <2> QED
    BY <2>2, <2>3
<1>11. LoadedInv'
  <2>1. NrLoaded = seg /\ NrLoaded' = seg
    <3>1. NrLoaded = seg
      BY <1>0 DEF NrLoaded
    <3>2. NrLoaded' = IF stage' = "load" THEN seg' ELSE seg' - 1
      BY DEF NrLoaded
    <3>3. \/ stage' = "load" /\ seg' = seg
          \/ stage' # "load" /\ seg' = seg + 1
      BY <1>8
    <3>4. seg \in Int
      BY <1>3
    <3> QED
      BY <3>1, <3>2, <3>3, <3>4
  <2>2. /\ stage' \in {"malloc", "stack"} => at' = 0
        /\ stage' = "load" => at' < Segments[seg'].memsz
        /\ stage' = "stack" => seg' = Len(Segments) + 1
        /\ stage' \in {"load", "malloc", "stack"}
    BY <1>8
  <2>3. stage' = "load" => seg' = seg
    BY <1>8
  <2>4. \A k \in 1 .. NrLoaded' : \A p \in PagesOf(Segments[k].vaddr, Segments[k].memsz) :
          Mapped(p)'
    BY <1>0, <1>10, <2>1 DEF LoadedInv
  <2>5. /\ \A p \in UserRange : Mapped(p)' => NrLoaded' # 0 /\ p <= Page(End(NrLoaded'))
        /\ Walk("updir", Page(End(NrLoaded)))' = nr_frame' - 1
    <3>1. seg # 0
      BY <1>3
    <3>2. /\ \A p \in UserRange : Mapped(p) => p <= Page(End(seg))
          /\ Walk("updir", Page(End(seg))) = nr_frame - 1
      BY <1>0, <2>1, <3>1 DEF LoadedInv, Loading
    <3>3. End(NrLoaded)' = End(seg)
      BY <2>1 DEF End
    <3>4. Walk("updir", Page(End(NrLoaded)))' = Walk("updir", Page(End(seg)))
      BY <1>10, <3>3 DEF Page
    <3> QED
      BY <1>1, <1>10, <2>1, <3>1, <3>2, <3>4
  <2>6. stage' = "load" => SegmentPlaced'
    <3> SUFFICES ASSUME stage' = "load" PROVE SegmentPlaced'
      OBVIOUS
    <3>1. SegmentPlaced
      BY <1>0 DEF LoadedInv
    <3> QED
      BY <1>1, <1>10, <2>3, <3>1 DEF SegmentPlaced
  <2>7. /\ stage' # "video_write" /\ stage' # "video_read" /\ stage' # "video_clear"
        /\ stage' \notin Loading \ {"malloc", "load"}
        /\ stage' \notin Loading => stage' = "stack"
    BY <2>2 DEF Loading
  <2> QED
    BY <2>2, <2>4, <2>5, <2>6, <2>7 DEF LoadedInv
<1>12. BreakInv'
  <2>1. brk = IF seg = 1 THEN 0 ELSE End(seg - 1)
    BY <1>0 DEF BreakInv
  <2>2. CASE stage' = "load"
    BY <1>8, <2>1, <2>2 DEF BreakInv, Loading
  <2>3. CASE stage' # "load"
    <3>1. brk \in Nat /\ End(seg) \in Nat /\ (brk < End(seg) \/ brk = End(seg))
      <4>1. CASE seg = 1
        BY <1>2, <2>1, <4>1, Ranges
      <4>2. CASE seg # 1
        <5>1. seg - 1 \in DOMAIN Segments /\ seg - 1 < seg
          BY <1>3, <4>2
        <5>2. End(seg - 1) < s.vaddr /\ s.vaddr <= End(seg)
              /\ End(seg - 1) \in Nat /\ End(seg) \in Nat
          BY <1>2, <5>1, Ranges
        <5> QED
          BY <1>3, <2>1, <4>2, <5>2
      <4> QED
        BY <4>1, <4>2
    <3>2. brk' = End(seg) /\ seg' # 1 /\ seg' - 1 = seg /\ stage' \in {"malloc", "stack"}
      <4>1. /\ seg' = seg + 1 /\ brk' = IF brk < End(seg) THEN End(seg) ELSE brk
            /\ stage' \in {"malloc", "stack"}
        BY <1>8, <2>3
      <4>2. seg \in Nat /\ seg # 0
        BY <1>3
      <4> QED
        BY <3>1, <4>1, <4>2
    <3> QED
      BY <3>2 DEF BreakInv, Loading
  <2> QED
    BY <2>2, <2>3
<1>13. PatternInv'
  <2> SUFFICES ASSUME NEW i \in 0 .. PageLen - 1
               PROVE  hw_mem'[VideoStart + i] = TestByte(i)
    BY <1>8 DEF PatternInv
  <2>1. VideoStart + i # a
    <3>1. VideoStart + i \in Nat /\ VideoPage \in Int
      BY Geometry, Sizes DEF VideoStart
    <3>2. Page(VideoStart + i) = VideoPage
      BY <3>1, PageLemma DEF VideoStart
    <3> QED
      BY <1>2, <3>2, Geometry
  <2>2. hw_mem[VideoStart + i] = TestByte(i)
    BY <1>0 DEF PatternInv
  <2> HIDE DEF a
  <2> QED
    BY <1>6, <2>1, <2>2
<1> QED
  BY <1>7, <1>9, <1>10, <1>11, <1>12, <1>13 DEF KInv

(* The pages that are missing in an interval.                              *)
LEMMA IntervalRank ==
  ASSUME NEW m \in Int, NEW b \in Int, m <= b + 1
  PROVE  /\ Cardinality(m .. b) = b + 1 - m
         /\ \A q \in m .. b : Rank(m .. b, q) = q - m
<1>1. Cardinality(m .. b) = b + 1 - m
  <2>1. CASE m > b
    BY <2>1, FS_Interval
  <2>2. CASE ~(m > b)
    BY <2>2, FS_Interval
  <2> QED
    BY <2>1, <2>2
<1>2. ASSUME NEW q \in m .. b PROVE Rank(m .. b, q) = q - m
  <2>1. {y \in m .. b : y < q} = m .. q - 1
    OBVIOUS
  <2>2. Cardinality(m .. q - 1) = q - m
    <3>1. CASE m > q - 1
      <4>1. m .. q - 1 = {} /\ q = m
        BY <3>1
      <4> QED
        BY <4>1, FS_EmptySet
    <3>2. CASE ~(m > q - 1)
      BY <3>2, FS_Interval
    <3> QED
      BY <3>1, <3>2
  <2> QED
    BY <2>1, <2>2 DEF Rank
<1> QED
  BY <1>1, <1>2

(* A segment's frames are one after the other, in spite of the page that   *)
(* the last segment may have mapped: that page has the last frame.         *)
LEMMA SegmentFrames ==
  ASSUME KInv, MallocSegment
  PROVE  LET s     == Segments[seg]
             first == Page(s.vaddr)
             last  == Page(End(seg))
             f     == IF Mapped(first) THEN nr_frame - 1 ELSE nr_frame
         IN /\ Mapped(first) => Walk("updir", first) = f
            /\ \A p \in first .. last :
                 IF p \in Missing(s.vaddr, s.memsz)
                 THEN FrameFor(s.vaddr, s.memsz, p) = f + (p - first)
                 ELSE p = first /\ Mapped(first)
            /\ nr_frame + Cardinality(Missing(s.vaddr, s.memsz)) = f + (last - first) + 1
<1> DEFINE s == Segments[seg]
           first == Page(s.vaddr)
           last == Page(End(seg))
           M == Missing(s.vaddr, s.memsz)
           m == IF Mapped(first) THEN first + 1 ELSE first
<1>1. /\ LoadedInv /\ stage = "malloc" /\ seg \in DOMAIN Segments
      /\ nr_frame \in Nat /\ NrLoaded = seg - 1
  BY DEF KInv, IInv, Types, LoadPoint, MallocSegment, NrLoaded
<1>2. /\ PagesOf(s.vaddr, s.memsz) = first .. last
      /\ \A p \in first .. last : p \in UserRange
      /\ first \in Nat /\ last \in Nat /\ first <= last
  <2>1. /\ PagesOf(s.vaddr, s.memsz) = first .. last
        /\ \A p \in first .. last : p \in UserRange
        /\ s.vaddr \in Nat /\ End(seg) \in Nat /\ s.vaddr <= End(seg)
    BY <1>1, Ranges
  <2>2. first \in Nat /\ first <= last
    BY <2>1, PageLemma
  <2>3. last \in Nat
    BY <2>1, PageLemma
  <2> QED
    BY <2>1, <2>2, <2>3
<1>3. ASSUME NEW p \in first .. last, Mapped(p)
      PROVE  p = first /\ Walk("updir", first) = nr_frame - 1
  <2>1. NrLoaded # 0 /\ p <= Page(End(NrLoaded))
    BY <1>1, <1>2, <1>3 DEF LoadedInv, Loading
  <2>2. seg - 1 \in DOMAIN Segments /\ seg - 1 < seg
    BY <1>1, <2>1, SegmentLemma
  <2>3. Page(End(seg - 1)) <= first /\ Page(End(seg - 1)) \in Nat
    <3>1. End(seg - 1) \in Nat /\ Page(End(seg - 1)) <= first
      BY <1>1, <2>2, Ranges
    <3> QED
      BY <3>1, PageLemma
  <2>4. p = first /\ Page(End(seg - 1)) = first
    BY <1>1, <1>2, <2>1, <2>3
  <2>5. Walk("updir", Page(End(NrLoaded))) = nr_frame - 1
    BY <1>1, <2>1 DEF LoadedInv, Loading
  <2> QED
    BY <1>1, <2>4, <2>5
<1>4. M = m .. last
  <2>1. M = {p \in first .. last : ~Mapped(p)}
    BY <1>2 DEF Missing, Mapped
  <2>2. CASE Mapped(first)
    BY <1>2, <1>3, <2>1, <2>2
  <2>3. CASE ~Mapped(first)
    <3>1. \A p \in first .. last : ~Mapped(p)
      BY <1>3, <2>3
    <3> QED
      BY <2>1, <2>3, <3>1
  <2> QED
    BY <2>2, <2>3
<1>5. m \in Int /\ last \in Int /\ m <= last + 1
  BY <1>2
<1>6. /\ Cardinality(M) = last + 1 - m
      /\ \A q \in M : Rank(M, q) = q - m
  BY SMTT(20), <1>4, <1>5, IntervalRank
<1> HIDE DEF M, s, first, last
<1>7. \A p \in M : FrameFor(s.vaddr, s.memsz, p) = nr_frame + (p - m)
  BY <1>6 DEF FrameFor, M
<1> DEFINE f == IF Mapped(first) THEN nr_frame - 1 ELSE nr_frame
<1>8. Mapped(first) => Walk("updir", first) = f
  BY <1>2, <1>3
<1>9. ASSUME NEW p \in first .. last
      PROVE  IF p \in M THEN FrameFor(s.vaddr, s.memsz, p) = f + (p - first)
             ELSE p = first /\ Mapped(first)
  <2>1. CASE p \in M
    <3>1. p \in Int /\ nr_frame \in Int /\ first \in Int
      BY <1>1, <1>2
    <3>2. nr_frame + (p - m) = f + (p - first)
      BY <3>1
    <3> QED
      BY <1>7, <2>1, <3>2
  <2>2. CASE p \notin M
    BY <1>2, <1>4, <2>2
  <2> QED
    BY <2>1, <2>2
<1>10. nr_frame + Cardinality(M) = f + (last - first) + 1
  BY <1>1, <1>2, <1>6
<1> QED
  BY <1>8, <1>9, <1>10 DEF M, s, first, last

LEMMA MallocSegmentKInv == ASSUME KInv, MallocSegment PROVE KInv'
<1> DEFINE s == Segments[seg]
           v == s.vaddr
           len == s.memsz
           first == Page(v)
           last == Page(End(seg))
           M == Missing(v, len)
           f == IF Mapped(first) THEN nr_frame - 1 ELSE nr_frame
<1>0. /\ IInv /\ ModeInv /\ Bounded /\ KernelInv /\ VideoInv /\ TablesEmpty
      /\ LoadedInv /\ BreakInv /\ PatternInv
      /\ stage = "malloc" /\ stage' = "load"
      /\ Enough(v, len) /\ mm_malloc(v, len) /\ p_paddr' = PaddrOf(v, len)
      /\ UNCHANGED <<tlb, hw_mem, at, seg, brk, reply>>
  BY DEF KInv, MallocSegment
<1>1. /\ seg \in DOMAIN Segments /\ seg \in Nat \ {0} /\ at = 0
      /\ NrLoaded = seg - 1 /\ NrLoaded' = seg
  <2>1. seg \in DOMAIN Segments /\ at = 0
    BY <1>0 DEF IInv, LoadPoint, LoadedInv
  <2>2. seg \in Nat \ {0}
    BY <2>1, SegmentLemma
  <2>3. NrLoaded = seg - 1 /\ NrLoaded' = seg
    BY <1>0 DEF NrLoaded
  <2> QED
    BY <2>1, <2>2, <2>3
<1>2. /\ v \in Nat /\ len \in Nat \ {0} /\ End(seg) \in Nat /\ v <= End(seg)
      /\ PagesOf(v, len) = first .. last
      /\ \A p \in first .. last : p \in UserRange
      /\ first \in Nat /\ last \in Nat /\ first <= last
      /\ v % PageLen \in 0 .. PageLen - 1
  <2>1. /\ v \in Nat /\ len \in Nat \ {0} /\ End(seg) \in Nat /\ v <= End(seg)
        /\ PagesOf(v, len) = first .. last
        /\ \A p \in first .. last : p \in UserRange
    BY <1>1, Ranges
  <2>2. first \in Nat /\ first <= last /\ v % PageLen \in 0 .. PageLen - 1
    BY <2>1, PageLemma
  <2>3. last \in Nat
    BY <2>1, PageLemma
  <2> QED
    BY <2>1, <2>2, <2>3
<1>3. /\ Mapped(first) => Walk("updir", first) = f
      /\ \A p \in first .. last : IF p \in M THEN FrameFor(v, len, p) = f + (p - first)
                                  ELSE p = first /\ Mapped(first)
      /\ nr_frame + Cardinality(M) = f + (last - first) + 1
  BY SegmentFrames
<1>4. IInv'
  BY <1>0, StartKeeps DEF StartStep
<1>s. first' = first /\ last' = last
  BY <1>0 DEF Page, End
<1> HIDE DEF v, len, first, last, M
<1>5. /\ \A q \in Pages : Walk("updir", q)' =
           IF q \in M THEN FrameFor(v, len, q) ELSE Walk("updir", q)
      /\ \A q \in M : FrameFor(v, len, q) \in Frames
      /\ nr_frame' = nr_frame + Cardinality(M)
  <2>1. v \in Int /\ len \in Int /\ \A p \in PagesOf(v, len) : p \in UserRange
    BY <1>2
  <2> QED
    BY <1>0, <2>1, MallocMaps DEF M
<1>6. \A p \in first .. last : Walk("updir", p)' = f + (p - first)
  <2> SUFFICES ASSUME NEW p \in first .. last PROVE Walk("updir", p)' = f + (p - first)
    OBVIOUS
  <2>1. p \in Pages
    BY <1>2, Indices
  <2>2. CASE p \in M
    BY <1>3, <1>5, <2>1, <2>2
  <2>3. CASE p \notin M
    <3>1. p = first /\ Mapped(first) /\ Walk("updir", p)' = f
      BY <1>3, <1>5, <2>1, <2>3
    <3>2. f \in Int
      BY <1>0 DEF IInv, Types
    <3> QED
      BY <1>2, <3>1, <3>2
  <2> QED
    BY <2>2, <2>3
<1>7. f \in Frames /\ f \in Int
  <2>1. first \in first .. last /\ first \in Pages
    BY <1>2, Indices
  <2>2. CASE first \in M
    <3>1. FrameFor(v, len, first) = f + (first - first) /\ f \in Int
      BY <1>0, <1>3, <2>1, <2>2 DEF IInv, Types
    <3>2. FrameFor(v, len, first) = f
      BY <1>2, <3>1
    <3> QED
      BY <1>5, <2>2, <3>1, <3>2
  <2>3. CASE first \notin M
    <3>1. Walk("updir", first) = f /\ Mapped(first)
      BY <1>3, <2>1, <2>3
    <3>2. Walk("updir", first) \in Frames
      BY <2>1, <3>1, WalkTyped DEF KernelDirs, Mapped
    <3> QED
      BY <3>1, <3>2 DEF Frames
  <2> QED
    BY <2>2, <2>3
<1>8. p_paddr' = f * PageLen + (v % PageLen)
  <2>1. first \in first .. last /\ Page(v) = first
    BY <1>2 DEF first
  <2>2. CASE first \in M
    <3>1. FrameFor(v, len, first) = f + (first - first)
      BY <1>3, <2>1, <2>2
    <3>2. FrameFor(v, len, first) = f
      BY <1>2, <1>7, <3>1
    <3> QED
      BY <1>0, <2>1, <2>2, <3>2 DEF PaddrOf, M
  <2>3. CASE first \notin M
    <3>1. Walk("updir", first) = f
      BY <1>3, <2>1, <2>3
    <3> QED
      BY <1>0, <2>1, <2>3, <3>1 DEF PaddrOf, M
  <2> QED
    BY <2>2, <2>3
<1>9. p_paddr' \in 0 .. PhyFrames * PageLen - 1
  BY <1>2, <1>7, <1>8, InMemory
<1>10. /\ ModeInv' /\ Bounded' /\ KernelInv' /\ VideoInv' /\ TablesEmpty'
       /\ TlbTyped(tlb)' /\ TlbInv(tlb)'
       /\ \A p \in Pages : Mapped(p)' = (Mapped(p) \/ p \in M)
  <2>1. /\ stage \notin {"init_page", "init_mm"} /\ stage' # "write_cr3"
        /\ stage' \in Stages \ {"init_page", "init_mm"}
        /\ (stage \in Switched) = (stage' \in Switched)
    BY <1>0 DEF Stages, Switched
  <2>2. v \in Int /\ len \in Int /\ \A p \in PagesOf(v, len) : p \in UserRange
    BY <1>2
  <2> QED
    BY <1>0, <1>9, <2>1, <2>2, AllocKInv DEF M
<1>11. SegmentPlaced'
  <2>1. f = Walk("updir", first)'
    <3>1. first \in first .. last /\ first - first = 0
      BY <1>2
    <3>2. Walk("updir", first)' = f + (first - first)
      BY <1>6, <1>s, <3>1
    <3> QED
      BY <1>7, <3>1, <3>2
  <2> QED
    BY <1>0, <1>6, <1>8, <2>1 DEF SegmentPlaced, first, last, v, End
<1>12. LoadedInv'
  <2>1. ASSUME NEW k \in 1 .. seg, NEW p \in PagesOf(Segments[k].vaddr, Segments[k].memsz)
        PROVE  Mapped(p)'
    <3>1. k \in DOMAIN Segments
      BY <1>1, SegmentLemma
    <3>2. p \in Pages
      BY <3>1, Ranges, Indices
    <3>3. CASE k = seg
      <4>1. p \in PagesOf(v, len)
        BY <3>3 DEF v, len
      <4>2. Mapped(p) \/ p \in M
        BY <4>1 DEF Mapped, M, Missing
      <4> QED
        BY <1>10, <3>2, <4>2
    <3>4. CASE k # seg
      <4>1. k \in 1 .. NrLoaded
        BY <1>1, <3>4
      <4>2. Mapped(p)
        BY <1>0, <4>1 DEF LoadedInv
      <4> QED
        BY <1>10, <3>2, <4>2
    <3> QED
      BY <3>3, <3>4
  <2>2. ASSUME NEW p \in UserRange, Mapped(p)' PROVE p <= Page(End(seg))
    <3>1. p \in Pages /\ p \in Int
      BY Indices
    <3>2. CASE p \in M
      <4>1. p \in first .. last
        BY <1>2, <3>2 DEF M, Missing
      <4> QED
        BY <1>2, <4>1 DEF last
    <3>3. CASE Mapped(p)
      <4>1. NrLoaded # 0 /\ p <= Page(End(NrLoaded))
        BY <1>0, <3>3 DEF LoadedInv, Loading
      <4>2. seg - 1 \in DOMAIN Segments /\ seg - 1 < seg
        BY <1>1, <4>1, SegmentLemma
      <4>3. Page(End(seg - 1)) <= first /\ End(seg - 1) \in Nat
        BY <1>1, <4>2, Ranges DEF first, v
      <4>4. Page(End(seg - 1)) \in Nat
        BY <4>3, PageLemma
      <4>5. p <= Page(End(seg - 1))
        BY <1>1, <4>1
      <4> QED
        BY <1>2, <3>1, <4>3, <4>4, <4>5 DEF last
    <3>4. Mapped(p) \/ p \in M
      BY <1>10, <2>2, <3>1
    <3> QED
      BY <3>2, <3>3, <3>4
  <2>3. Walk("updir", Page(End(NrLoaded)))' = nr_frame' - 1
    <3>1. last \in first .. last /\ Page(End(NrLoaded))' = last
      BY <1>1, <1>2 DEF last, End, Page
    <3>2. Walk("updir", last)' = f + (last - first)
      BY <1>6, <1>s, <3>1
    <3>3. nr_frame' = f + (last - first) + 1
      BY <1>3, <1>5
    <3>4. Walk("updir", Page(End(NrLoaded)))' = Walk("updir", last)'
      BY <1>s, <3>1 DEF Walk
    <3> QED
      BY <1>2, <1>7, <3>2, <3>3, <3>4
  <2>4. at' = 0 /\ at' < Segments[seg'].memsz /\ seg' = seg /\ seg # 0 /\ NrLoaded' = seg
    BY <1>0, <1>1, <1>2 DEF len
  <2> QED
    BY <1>0, <1>11, <2>1, <2>2, <2>3, <2>4 DEF LoadedInv, Loading
<1>13. BreakInv' /\ PatternInv'
  <2>1. BreakInv'
    BY <1>0 DEF BreakInv, Loading, End
  <2>2. PatternInv'
    BY <1>0 DEF PatternInv
  <2> QED
    BY <2>1, <2>2
<1> QED
  BY <1>4, <1>10, <1>12, <1>13 DEF KInv

(* mm_brk.                                                                 *)
LEMMA BrkKInv ==
  ASSUME KInv, NEW new_brk \in Last + 1 .. MaxBrk, MmBrk(new_brk) PROVE KInv'
<1>0. /\ IInv /\ ModeInv /\ Bounded /\ KernelInv /\ VideoInv /\ TablesEmpty
      /\ TlbTyped(tlb) /\ TlbInv(tlb) /\ LoadedInv /\ BreakInv /\ PatternInv
      /\ stage = "user" /\ stage' = "user" /\ brk' = new_brk
      /\ UNCHANGED <<tlb, hw_mem, at, seg, p_paddr, reply>>
  BY DEF KInv, MmBrk, loader
<1>1. /\ brk \in Last .. MaxBrk /\ Last \in Nat /\ MaxBrk \in Nat
      /\ new_brk \in Last .. MaxBrk /\ new_brk \in Int /\ brk \in Int
      /\ \A a \in Last + 1 .. brk - 1 : Mapped(Page(a))
      /\ \A p \in KOFFSET - StackPages .. KOFFSET - 1 : Mapped(p)
  <2>1. brk \in Last .. MaxBrk /\ \A a \in Last + 1 .. brk - 1 : Mapped(Page(a))
    BY <1>0 DEF BreakInv
  <2>2. \A p \in KOFFSET - StackPages .. KOFFSET - 1 : Mapped(p)
    BY <1>0 DEF BreakInv, Loading
  <2> QED
    BY <2>1, <2>2, Geometry
<1>2. IInv'
  <2>1. UserStep
    BY DEF UserStep
  <2> QED
    BY <1>0, <2>1, UserKeeps
<1>3. /\ ModeInv' /\ Bounded' /\ KernelInv' /\ VideoInv' /\ TablesEmpty'
      /\ TlbTyped(tlb)' /\ TlbInv(tlb)'
      /\ \A p \in Pages : Mapped(p) => Mapped(p)'
      /\ \A a \in Last + 1 .. new_brk - 1 : Mapped(Page(a))'
  <2>0. /\ stage \notin {"init_page", "init_mm"} /\ stage' # "write_cr3"
        /\ stage' \in Stages \ {"init_page", "init_mm"}
        /\ (stage \in Switched) = (stage' \in Switched)
        /\ p_paddr' \in 0 .. PhyFrames * PageLen - 1
    BY <1>0 DEF Stages, Bounded
  <2>1. CASE new_brk > brk
    <3> DEFINE len == new_brk - brk
    <3>1. Enough(brk, len) /\ mm_malloc(brk, len)
      BY <2>1 DEF MmBrk
    <3>2. PagesOf(brk, len) = Page(brk) .. Page(new_brk - 1)
      BY <1>1, <2>1, HeapAndStack
    <3>3. /\ brk \in Last .. MaxBrk - 1 /\ new_brk - 1 \in Last .. MaxBrk - 1
      BY <1>1, <2>1
    <3>4. \A p \in PagesOf(brk, len) : p \in UserRange
      <4>1. Page(brk) \in UserRange /\ Page(new_brk - 1) \in UserRange
        BY <3>3, HeapAndStack
      <4> QED
        BY SMTT(20), <3>2, <4>1, Geometry DEF UserRange
    <3>5. len \in Int
      BY <1>1
    <3> HIDE DEF len
    <3>6. /\ ModeInv' /\ Bounded' /\ KernelInv' /\ VideoInv' /\ TablesEmpty'
          /\ TlbTyped(tlb)' /\ TlbInv(tlb)'
          /\ \A p \in Pages : Mapped(p)' = (Mapped(p) \/ p \in Missing(brk, len))
      BY <1>0, <1>1, <2>0, <3>1, <3>4, <3>5, AllocKInv
    <3>7. ASSUME NEW a \in Last + 1 .. new_brk - 1 PROVE Mapped(Page(a))'
      <4>1. a \in Nat /\ Page(a) \in Pages
        <5>1. a \in Last .. MaxBrk - 1
          BY <1>1
        <5> QED
          BY <5>1, HeapAndStack, Indices
      <4>2. CASE a < brk
        <5>1. Mapped(Page(a))
          BY <1>1, <4>1, <4>2
        <5> QED
          BY <3>6, <4>1, <5>1
      <4>3. CASE ~(a < brk)
        <5>1. brk \in Nat /\ new_brk - 1 \in Nat /\ brk <= a /\ a <= new_brk - 1
          BY <1>1, <4>1, <4>3
        <5>2. /\ Page(brk) <= Page(a) /\ Page(a) <= Page(new_brk - 1)
              /\ Page(a) \in Nat /\ Page(brk) \in Nat /\ Page(new_brk - 1) \in Nat
          BY <4>1, <5>1, PageLemma
        <5>3. Page(a) \in PagesOf(brk, len)
          BY <3>2, <5>2
        <5>4. Mapped(Page(a)) \/ Page(a) \in Missing(brk, len)
          BY <5>3 DEF Mapped, Missing
        <5> QED
          BY <3>6, <4>1, <5>4
      <4> QED
        BY <4>2, <4>3
    <3> QED
      BY <3>6, <3>7
  <2>2. CASE ~(new_brk > brk)
    <3>1. UNCHANGED <<TLB_ENABLED, paging, cr3, pdir, ptable, nr_pt, nr_frame>>
      BY <2>2 DEF MmBrk, mmu, alloc
    <3>2. /\ ModeInv' /\ KernelInv' /\ VideoInv' /\ TablesEmpty'
          /\ \A dir, p : Walk(dir, p)' = Walk(dir, p)
          /\ \A p : Mapped(p)' = Mapped(p)
      BY <2>0, <3>1, SameMap
    <3>3. TlbTyped(tlb)' /\ TlbInv(tlb)'
      BY <1>0, <2>0, <3>1, SameMap
    <3>4. Bounded'
      BY <1>0, <3>1 DEF Bounded
    <3>5. ASSUME NEW a \in Last + 1 .. new_brk - 1 PROVE Mapped(Page(a))'
      <4>1. a \in Last + 1 .. brk - 1 /\ Page(a)' = Page(a)
        BY <1>1, <2>2
      <4> QED
        BY <1>1, <3>2, <4>1
    <3> QED
      BY <3>2, <3>3, <3>4, <3>5
  <2> QED
    BY <2>1, <2>2
<1>4. LoadedInv'
  <2>1. seg = Len(Segments) + 1 /\ at = 0 /\ NrLoaded' = NrLoaded
        /\ NrLoaded = Len(Segments)
    <3>1. Len(Segments) \in Nat
      BY KernelMemoryTypes
    <3>2. seg = Len(Segments) + 1 /\ at = 0 /\ NrLoaded' = seg - 1 /\ NrLoaded = seg - 1
      BY <1>0 DEF LoadedInv, NrLoaded, Loading
    <3> QED
      BY <3>1, <3>2
  <2>2. ASSUME NEW k \in 1 .. Len(Segments),
               NEW p \in PagesOf(Segments[k].vaddr, Segments[k].memsz)
        PROVE  Mapped(p)'
    <3>1. Mapped(p)
      BY <1>0, <2>1 DEF LoadedInv
    <3>2. p \in Pages
      <4>1. k \in DOMAIN Segments
        BY KernelMemoryTypes
      <4> QED
        BY <4>1, Ranges, Indices
    <3> QED
      BY <1>3, <3>1, <3>2
  <2> QED
    BY <1>0, <2>1, <2>2 DEF LoadedInv, Loading
<1>5. BreakInv'
  <2>1. \A p \in KOFFSET - StackPages .. KOFFSET - 1 : Mapped(p)'
    BY <1>1, <1>3, HeapAndStack, Indices
  <2>2. \A a \in Last + 1 .. brk' - 1 : Mapped(Page(a))'
    BY <1>0, <1>3
  <2> QED
    BY <1>0, <1>1, <2>1, <2>2 DEF BreakInv, Page
<1>6. PatternInv'
  BY <1>0 DEF PatternInv
<1> QED
  BY <1>2, <1>3, <1>4, <1>5, <1>6 DEF KInv

LEMMA NextKInv == KInv /\ [Next]_vars => KInv'
<1> SUFFICES ASSUME KInv, [Next]_vars PROVE KInv'
  OBVIOUS
<1>1. CASE StartStep
  BY <1>1, InitPageKInv, InitMmKInv, VideoWriteKInv, MallocSegmentKInv, LoadByteKInv,
     MallocStackKInv, VideoMapKInv, WriteCr3KInv, VideoReadKInv, Zenon DEF StartStep
<1>2. CASE UserStep
  <2>1. CASE \E acc \in Accesses(UserNow) : UserRead(acc[1], acc[2])
    BY <2>1, UserReadKInv
  <2>2. CASE \E acc \in Accesses(UserNow \cap Written) :
               \E data \in [0 .. acc[2] - 1 -> Byte] : UserWrite(acc[1], acc[2], data)
    <3>1. Accesses(UserNow \cap Written) \subseteq Accesses(UserNow)
      BY Zenon DEF Accesses
    <3> QED
      BY <2>2, <3>1, UserWriteKInv
  <2>3. CASE \E new_brk \in Last + 1 .. MaxBrk : MmBrk(new_brk) \/ MmBrkPanic(new_brk)
    BY <2>3, BrkKInv, PanicKInv
  <2> QED
    BY <1>2, <2>1, <2>2, <2>3 DEF UserStep
<1>3. CASE KernelRuns
  BY <1>3, KernelRunsKInv
<1>4. CASE UNCHANGED vars
  <2>1. /\ tlb' = tlb /\ reply' = reply /\ paging' = paging
        /\ UNCHANGED <<mmu, hw_mem, stage, at, loader, alloc, brk>>
    BY <1>4 DEF vars, mmu
  <2>2. /\ TlbTyped(tlb') /\ TlbInv(tlb')
        /\ reply' = <<>> \/ \E len \in Lens : reply' \in [0 .. len - 1 -> Byte]
    BY <2>1 DEF KInv, Bounded
  <2> QED
    BY <2>1, <2>2, OnlyTlb
<1> QED
  BY <1>1, <1>2, <1>3, <1>4 DEF Next

LEMMA AlwaysKInv == Spec => []KInv
<1> QED
  BY InitKInv, NextKInv, PTL DEF Spec

-----------------------------------------------------------------------------
LEMMA KInvTypes == ASSUME KInv PROVE TypeOK
<1>0. IInv /\ ModeInv /\ Bounded /\ TlbTyped(tlb) /\ LoadedInv /\ BreakInv
  BY DEF KInv
<1>1. /\ TLB_ENABLED \in BOOLEAN /\ paging \in BOOLEAN /\ cr3 \in KernelDirs \cup {None}
  <2>1. stage = "init_page" => paging = FALSE
    BY <1>0 DEF ModeInv, IInv
  <2>2. TLB_ENABLED \in BOOLEAN
    BY <1>0 DEF Bounded
  <2>3. cr3 \in KernelDirs \cup {None}
    BY <1>0 DEF ModeInv, KernelDirs
  <2> QED
    BY <1>0, <2>1, <2>2, <2>3 DEF ModeInv
<1>2. /\ pdir \in [KernelDirs -> [PDEs -> Tables \cup {None}]]
      /\ ptable \in [Tables -> [PTEs -> Frames \cup {None}]]
      /\ hw_mem \in [0 .. PhyFrames * PageLen - 1 -> Byte]
      /\ stage \in Stages /\ at \in Nat
      /\ p_paddr \in 0 .. PhyFrames * PageLen - 1
      /\ reply = <<>> \/ \E len \in Lens : reply \in [0 .. len - 1 -> Byte]
  BY <1>0 DEF Bounded, IInv, Types
<1>3. \A i \in Entries :
        tlb[i].key \in Nat \cup {None} /\ tlb[i].pte \in Frames \cup {None}
  <2>1. Pages \subseteq Nat
    BY Indices
  <2> QED
    BY <1>0, <2>1 DEF TlbTyped
<1>4. /\ Len(Segments) \in Nat \ {0} /\ DOMAIN Segments = 1 .. Len(Segments)
      /\ seg \in 1 .. Len(Segments) + 1
      /\ stage \in {"user", "panic"} => seg = Len(Segments) + 1
  <2>1. Len(Segments) \in Nat \ {0} /\ DOMAIN Segments = 1 .. Len(Segments)
    BY SegmentLemma
  <2>2. CASE stage \in Loading
    <3>1. seg \in DOMAIN Segments
      BY <1>0, <2>2 DEF IInv, LoadPoint, Loading
    <3> QED
      BY <2>1, <2>2, <3>1 DEF Loading
  <2>3. CASE stage \notin Loading
    <3>1. seg = Len(Segments) + 1
      BY <1>0, <2>3 DEF LoadedInv
    <3> QED
      BY <2>1, <3>1
  <2> QED
    BY <2>2, <2>3
<1>5. nr_pt \in 0 .. NrPDE
  <2>1. Unused \in SUBSET PDEs
    BY DEF Unused
  <2>2. Cardinality(Unused) \in Nat
    BY <2>1, Sizes, FS_Subset, FS_CardinalityType
  <2> QED
    BY <1>0, <2>2, Sizes DEF IInv, Types, TablesLeft
<1>6. nr_frame \in KMEM .. PhyFrames
  BY <1>0, Geometry DEF IInv, Types, Bounded
<1>7. brk \in 0 .. MaxBrk
  <2>1. CASE stage \in {"user", "panic"}
    BY <1>0, <2>1, Geometry DEF BreakInv
  <2>2. CASE stage \notin {"user", "panic"} /\ seg = 1
    <3>1. brk = 0
      BY <1>0, <2>2 DEF BreakInv
    <3> QED
      BY <3>1, Geometry
  <2>3. CASE stage \notin {"user", "panic"} /\ seg # 1
    <3>1. brk = End(seg - 1) /\ seg - 1 \in DOMAIN Segments
      BY <1>0, <1>4, <2>3 DEF BreakInv
    <3>2. brk \in Nat /\ brk <= Last
      BY <3>1, Ranges
    <3> QED
      BY <3>2, Geometry
  <2> QED
    BY <2>1, <2>2, <2>3
<1> QED
  BY <1>1, <1>2, <1>3, <1>4, <1>5, <1>6, <1>7 DEF TypeOK

-----------------------------------------------------------------------------
(* The frames that are taken are those of the program's pages: mm_malloc's *)
(* assertion fails for want of frames only.                                *)
CountInv == nr_frame = KMEM + Cardinality(UserPages)

PanicInv == stage = "panic" => TooManyPages

(* The pages of a program are above physical memory's size.                *)
LEMMA UserSet ==
  ASSUME KInv
  PROVE  /\ UserPages = {p \in UserRange : Mapped(p)}
         /\ IsFiniteSet(UserPages) /\ Cardinality(UserPages) \in Nat
<1>1. KOFFSET \in Nat /\ PhyFrames \in Nat /\ NrPTE \in Nat \ {0}
  BY Geometry, Sizes
<1>2. ASSUME NEW p \in UserPages
      PROVE  p \in UserRange /\ Mapped(p)
  <2> DEFINE i == p \div NrPTE
             j == p % NrPTE
  <2>1. /\ p \in 0 .. KOFFSET - 1 /\ p # VideoPage /\ Walk("updir", p) # None
        /\ p \in Nat
    BY <1>1 DEF UserPages
  <2>2. CASE p \in Frames
    <3>1. i \in KIndex /\ j \in PTEs /\ p \in Nat /\ i \in PDEs
          /\ p = NrPTE * i + j
      BY <2>2, Indices
    <3>2. pdir["updir"][i] \in {None, VTable}
      BY <3>1 DEF KInv, VideoInv
    <3>3. pdir["updir"][i] = VTable /\ ptable[VTable][j] # None
      BY <2>1, <3>2 DEF Walk
    <3>4. j = VideoPage /\ i = 0
      BY <3>1, <3>3 DEF KInv, VideoInv, IInv, TablesOnce
    <3>5. p = VideoPage
      BY <3>1, <3>4, <1>1
    <3> QED
      BY <2>1, <3>5
  <2>3. CASE p \notin Frames
    <3>1. p \in UserRange
      BY <1>1, <2>1, <2>3 DEF UserRange, Frames
    <3> QED
      BY <2>1, <3>1 DEF Mapped
  <2> QED
    BY <2>2, <2>3
<1>3. ASSUME NEW p \in UserRange, Mapped(p)
      PROVE  p \in UserPages
  <2>1. p \in 0 .. KOFFSET - 1
    BY <1>1 DEF UserRange
  <2>2. p # VideoPage
    BY Indices, Geometry
  <2> QED
    BY <1>3, <2>1, <2>2 DEF UserPages, Mapped
<1>4. UserPages = {p \in UserRange : Mapped(p)}
  BY <1>2, <1>3
<1>5. IsFiniteSet(UserPages) /\ Cardinality(UserPages) \in Nat
  <2>1. UserPages \in SUBSET (0 .. KOFFSET - 1)
    BY DEF UserPages
  <2>2. IsFiniteSet(0 .. KOFFSET - 1)
    BY <1>1, FS_Interval
  <2> QED
    BY <2>1, <2>2, FS_Subset, FS_CardinalityType
<1> QED
  BY <1>4, <1>5

LEMMA UserLaw == KInv => UserPages = {p \in UserRange : Mapped(p)}
BY UserSet

LEMMA SameCount ==
  ASSUME KInv, KInv', CountInv, nr_frame' = nr_frame,
         \A p \in UserRange : Mapped(p)' = Mapped(p)
  PROVE  CountInv'
<1>1. UserPages = {p \in UserRange : Mapped(p)}
  BY UserSet
<1>2. UserPages' = {p \in UserRange : Mapped(p)'}
  <2>1. (KInv => UserPages = {p \in UserRange : Mapped(p)})'
    BY UserLaw, PTL
  <2>2. UserRange' = UserRange
    BY DEF UserRange
  <2> QED
    BY <2>1, <2>2
<1>3. UserPages' = UserPages
  BY <1>1, <1>2
<1> QED
  BY <1>3 DEF CountInv

(* mm_malloc takes a frame for each page that it maps.                     *)
LEMMA MissingCount ==
  ASSUME KInv, NEW va \in Int, NEW len \in Int,
         \A p \in PagesOf(va, len) : p \in UserRange
  PROVE  /\ Missing(va, len) \cap UserPages = {}
         /\ UserPages \cup PagesOf(va, len) = UserPages \cup Missing(va, len)
         /\ Cardinality(UserPages \cup Missing(va, len))
              = Cardinality(UserPages) + Cardinality(Missing(va, len))
         /\ Cardinality(Missing(va, len)) \in Nat
<1> DEFINE M == Missing(va, len)
<1>1. UserPages = {p \in UserRange : Mapped(p)} /\ IsFiniteSet(UserPages)
      /\ Cardinality(UserPages) \in Nat
  BY UserSet
<1>2. M = {p \in PagesOf(va, len) : ~Mapped(p)}
  BY DEF Missing, Mapped
<1>3. M \cap UserPages = {} /\ UserPages \cup PagesOf(va, len) = UserPages \cup M
  BY <1>1, <1>2
<1>4. IsFiniteSet(M)
  <2>1. M \in SUBSET UserRange
    BY <1>2
  <2>2. IsFiniteSet(UserRange)
    BY Geometry, FS_Interval DEF UserRange
  <2> QED
    BY <2>1, <2>2, FS_Subset
<1> HIDE DEF M
<1>5. Cardinality(UserPages \cup M) = Cardinality(UserPages) + Cardinality(M) - 0
      /\ Cardinality(M) \in Nat
  <2>1. Cardinality(UserPages \cup M)
          = Cardinality(UserPages) + Cardinality(M) - Cardinality(UserPages \cap M)
    BY <1>1, <1>4, FS_Union
  <2>2. UserPages \cap M = {} /\ Cardinality({}) = 0
    BY <1>3, FS_EmptySet
  <2>3. Cardinality(M) \in Nat
    BY <1>4, FS_CardinalityType
  <2> QED
    BY <2>1, <2>2, <2>3
<1>6. Cardinality(UserPages \cup M) = Cardinality(UserPages) + Cardinality(M)
  BY <1>1, <1>5
<1> QED
  BY <1>3, <1>5, <1>6 DEF M

LEMMA AllocCount ==
  ASSUME KInv, KInv', CountInv, NEW va \in Int, NEW len \in Int,
         \A p \in PagesOf(va, len) : p \in UserRange,
         Enough(va, len), mm_malloc(va, len)
  PROVE  CountInv'
<1> DEFINE M == Missing(va, len)
<1>1. /\ \A q \in Pages : Walk("updir", q)' =
            IF q \in M THEN FrameFor(va, len, q) ELSE Walk("updir", q)
      /\ \A q \in M : FrameFor(va, len, q) \in Frames
      /\ nr_frame' = nr_frame + Cardinality(M)
  BY MallocMaps DEF KInv
<1>2. /\ UserPages = {p \in UserRange : Mapped(p)}
      /\ UserPages' = {p \in UserRange : Mapped(p)'}
  <2>1. (KInv => UserPages = {p \in UserRange : Mapped(p)})'
    BY UserLaw, PTL
  <2>2. UserRange' = UserRange
    BY DEF UserRange
  <2> QED
    BY <2>1, <2>2, UserSet
<1>3. None \notin Frames
  BY Sizes DEF Frames
<1>4. \A p \in UserRange : Mapped(p)' = (Mapped(p) \/ p \in M)
  <2>1. ASSUME NEW p \in UserRange PROVE Mapped(p)' = (Mapped(p) \/ p \in M)
    <3>1. p \in Pages
      BY Indices
    <3>2. CASE p \in M
      BY <1>1, <1>3, <3>1, <3>2 DEF Mapped
    <3>3. CASE p \notin M
      BY <1>1, <3>1, <3>3 DEF Mapped
    <3> QED
      BY <3>2, <3>3
  <2> QED
    BY <2>1
<1>5. \A p \in M : p \in UserRange
  BY DEF Missing
<1>6. Cardinality(UserPages \cup M) = Cardinality(UserPages) + Cardinality(M)
      /\ Cardinality(M) \in Nat
  BY MissingCount
<1>7. Cardinality(UserPages) \in Nat /\ KMEM \in Nat
  BY UserSet, Geometry
<1> HIDE DEF M
<1>8. UserPages' = UserPages \cup M
  BY <1>2, <1>4, <1>5
<1>9. Cardinality(UserPages') = Cardinality(UserPages) + Cardinality(M)
  BY <1>6, <1>8
<1> QED
  BY <1>1, <1>6, <1>7, <1>9 DEF CountInv

LEMMA BrkAlloc ==
  ASSUME KInv, NEW new_brk \in Last + 1 .. MaxBrk, MmBrk(new_brk), new_brk > brk
  PROVE  /\ brk \in Int /\ new_brk - brk \in Int
         /\ \A p \in PagesOf(brk, new_brk - brk) : p \in UserRange
         /\ Enough(brk, new_brk - brk) /\ mm_malloc(brk, new_brk - brk)
<1>1. stage = "user" /\ Enough(brk, new_brk - brk) /\ mm_malloc(brk, new_brk - brk)
  BY DEF MmBrk
<1>2. /\ brk \in Last .. MaxBrk - 1 /\ new_brk \in Last .. MaxBrk
      /\ new_brk - 1 \in Last .. MaxBrk - 1 /\ brk \in Int /\ new_brk \in Int
      /\ brk \in Last .. MaxBrk /\ brk < new_brk
  <2>1. brk \in Last .. MaxBrk
    BY <1>1 DEF KInv, BreakInv
  <2> QED
    BY <2>1, Geometry
<1>3. PagesOf(brk, new_brk - brk) = Page(brk) .. Page(new_brk - 1)
  BY <1>2, HeapAndStack
<1>4. Page(brk) \in UserRange /\ Page(new_brk - 1) \in UserRange
  BY <1>2, HeapAndStack
<1>5. \A p \in PagesOf(brk, new_brk - brk) : p \in UserRange
  BY SMTT(20), <1>3, <1>4, Geometry DEF UserRange
<1> QED
  BY <1>1, <1>2, <1>5

LEMMA StartCount ==
  ASSUME KInv, KInv', CountInv, StartStep
  PROVE  CountInv'
<1>1. CASE InitPage \/ InitMm
  <2>1. /\ stage \in {"init_page", "init_mm"} /\ stage' \in {"init_mm", "video_write"}
        /\ UNCHANGED <<nr_frame, seg>>
    BY <1>1 DEF InitPage, InitMm, loader, alloc
  <2>2. LoadedInv /\ LoadedInv'
    BY DEF KInv
  <2>3. NrLoaded = 0 /\ NrLoaded' = 0
    BY <2>1, <2>2 DEF LoadedInv, NrLoaded, Loading
  <2>4. \A p \in UserRange : ~Mapped(p) /\ ~Mapped(p)'
    BY <2>1, <2>2, <2>3 DEF LoadedInv, Loading
  <2>5. \A p \in UserRange : Mapped(p)' = Mapped(p)
    BY <2>4 DEF Mapped
  <2> QED
    BY <2>1, <2>5, SameCount
<1>2. CASE VideoWriteTest \/ VideoReadTest \/ VideoClear \/ LoadByte \/ WriteCr3
  <2>1. UNCHANGED <<pdir, ptable, nr_frame>>
    BY <1>2 DEF VideoWriteTest, VideoReadTest, VideoClear, LoadByte, WriteCr3, mmu, alloc
  <2>2. \A p : Mapped(p)' = Mapped(p)
    BY <2>1 DEF Mapped, Walk
  <2> QED
    BY <2>1, <2>2, SameCount
<1>3. CASE MallocSegment
  <2> DEFINE va == Segments[seg].vaddr
             len == Segments[seg].memsz
  <2>1. Enough(va, len) /\ mm_malloc(va, len) /\ stage = "malloc"
    BY <1>3 DEF MallocSegment
  <2>2. seg \in DOMAIN Segments
    BY <2>1 DEF KInv, IInv, LoadPoint
  <2>3. va \in Int /\ len \in Int /\ \A p \in PagesOf(va, len) : p \in UserRange
    <3>1. /\ va \in Nat /\ len \in Nat
          /\ PagesOf(va, len) = Page(va) .. Page(End(seg))
          /\ \A p \in Page(va) .. Page(End(seg)) : p \in UserRange
      BY <2>2, Ranges
    <3> HIDE DEF va, len
    <3> QED
      BY <3>1
  <2> HIDE DEF va, len
  <2> QED
    BY <2>1, <2>3, AllocCount
<1>4. CASE MallocStack
  <2> DEFINE va == (KOFFSET - StackPages) * PageLen
             len == StackPages * PageLen
  <2>1. Enough(va, len) /\ mm_malloc(va, len)
    BY <1>4 DEF MallocStack
  <2>2. va \in Int /\ len \in Int /\ \A p \in PagesOf(va, len) : p \in UserRange
    <3>1. KOFFSET \in Int /\ StackPages \in Int /\ PageLen \in Int
      BY Geometry, Sizes
    <3>2. va \in Int /\ len \in Int
      BY <3>1
    <3>3. PagesOf(va, len) = KOFFSET - StackPages .. KOFFSET - 1
      BY HeapAndStack
    <3>4. \A p \in PagesOf(va, len) : p \in UserRange
      BY <3>3, HeapAndStack
    <3> QED
      BY <3>2, <3>3, <3>4
  <2> HIDE DEF va, len
  <2> QED
    BY <2>1, <2>2, AllocCount
<1>5. CASE CreateVideoMapping
  <2>1. nr_frame' = nr_frame
    BY <1>5 DEF CreateVideoMapping, alloc
  <2>2. \A p \in UserRange : Mapped(p)' = Mapped(p)
    BY <1>5, VideoMapWalk DEF Mapped
  <2> QED
    BY <2>1, <2>2, SameCount
<1> QED
  BY <1>1, <1>2, <1>3, <1>4, <1>5 DEF StartStep

LEMMA NextCount == KInv /\ KInv' /\ CountInv /\ [Next]_vars => CountInv'
<1> SUFFICES ASSUME KInv, KInv', CountInv, [Next]_vars PROVE CountInv'
  OBVIOUS
<1>1. CASE StartStep
  BY <1>1, StartCount
<1>2. CASE \E new_brk \in Last + 1 .. MaxBrk : MmBrk(new_brk) /\ new_brk > brk
  BY <1>2, BrkAlloc, AllocCount
<1>3. CASE UNCHANGED <<pdir, ptable, nr_frame>>
  <2>1. \A p : Mapped(p)' = Mapped(p)
    BY <1>3 DEF Mapped, Walk
  <2> QED
    BY <1>3, <2>1, SameCount
<1>4. CASE UserStep
  <2>1. CASE \E acc \in Accesses(UserNow) : UserRead(acc[1], acc[2])
    BY <1>3, <2>1 DEF UserRead, mmu, alloc
  <2>2. CASE \E acc \in Accesses(UserNow \cap Written) :
               \E data \in [0 .. acc[2] - 1 -> Byte] : UserWrite(acc[1], acc[2], data)
    BY <1>3, <2>2 DEF UserWrite, mmu, alloc
  <2>3. CASE \E new_brk \in Last + 1 .. MaxBrk : MmBrk(new_brk)
    BY <1>2, <1>3, <2>3 DEF MmBrk, mmu, alloc
  <2>4. CASE \E new_brk \in Last + 1 .. MaxBrk : MmBrkPanic(new_brk)
    BY <1>3, <2>4 DEF MmBrkPanic, OutOfFrames, mmu, alloc
  <2> QED
    BY <1>4, <2>1, <2>2, <2>3, <2>4 DEF UserStep
<1>5. CASE KernelRuns \/ UNCHANGED vars
  BY <1>3, <1>5 DEF KernelRuns, vars, mmu, alloc
<1> QED
  BY <1>1, <1>4, <1>5 DEF Next

(* A program that is stopped had asked for too much.                       *)
LEMMA NextPanic == KInv /\ CountInv /\ PanicInv /\ [Next]_vars => PanicInv'
<1> SUFFICES ASSUME KInv, CountInv, PanicInv, [Next]_vars, stage' = "panic"
             PROVE  TooManyPages'
  BY DEF PanicInv
<1>1. CASE stage = "panic"
  <2>1. UNCHANGED <<pdir, ptable, brk>>
    <3>1. ~StartStep
      BY <1>1 DEF StartStep, InitPage, InitMm, VideoWriteTest, MallocSegment, LoadByte,
         MallocStack, CreateVideoMapping, WriteCr3, VideoReadTest, VideoClear
    <3>2. ~UserStep
      BY <1>1 DEF UserStep, UserRead, UserWrite, MmBrk, MmBrkPanic
    <3>3. ~KernelRuns
      BY <1>1 DEF KernelRuns
    <3> QED
      BY <3>1, <3>2, <3>3 DEF Next, vars, mmu
  <2>2. UserPages' = UserPages
    BY <2>1 DEF UserPages, Walk
  <2>3. \A va, len : PagesOf(va, len)' = PagesOf(va, len)
    BY DEF PagesOf
  <2> QED
    BY <1>1, <2>1, <2>2, <2>3 DEF PanicInv, TooManyPages
<1>2. CASE stage # "panic"
  <2>1. PICK new_brk \in Last + 1 .. MaxBrk : MmBrkPanic(new_brk)
    <3>1. ~StartStep
      BY <1>2 DEF StartStep, InitPage, InitMm, VideoWriteTest, MallocSegment, LoadByte,
         MallocStack, CreateVideoMapping, WriteCr3, VideoReadTest, VideoClear, VideoNext
    <3>2. ~KernelRuns /\ ~UNCHANGED vars
      BY <1>2 DEF KernelRuns, vars
    <3> QED
      BY <1>2, <3>1, <3>2 DEF Next, UserStep, UserRead, UserWrite, MmBrk
  <2>2. /\ UNCHANGED <<pdir, ptable, brk>> /\ stage = "user" /\ brk < new_brk
        /\ ~Enough(brk, new_brk - brk)
    BY <2>1 DEF MmBrkPanic, OutOfFrames, mmu
  <2>3. /\ brk \in Last .. MaxBrk - 1 /\ new_brk - 1 \in Last .. MaxBrk - 1
        /\ brk \in Int /\ new_brk - brk \in Int /\ new_brk \in brk + 1 .. MaxBrk
        /\ brk \in Last .. MaxBrk /\ new_brk \in Last .. MaxBrk /\ new_brk \in Int
    <3>1. brk \in Last .. MaxBrk
      BY <2>2 DEF KInv, BreakInv
    <3> QED
      BY <2>2, <3>1, Geometry
  <2>4. \A p \in PagesOf(brk, new_brk - brk) : p \in UserRange
    <3>1. PagesOf(brk, new_brk - brk) = Page(brk) .. Page(new_brk - 1)
      BY <2>2, <2>3, HeapAndStack
    <3>2. Page(brk) \in UserRange /\ Page(new_brk - 1) \in UserRange
      BY <2>3, HeapAndStack
    <3> QED
      BY SMTT(20), <3>1, <3>2, Geometry DEF UserRange
  <2> DEFINE M == Missing(brk, new_brk - brk)
             U == UserPages \cup PagesOf(brk, new_brk - brk)
  <2>5. Cardinality(U) = Cardinality(UserPages) + Cardinality(M) /\ Cardinality(M) \in Nat
    BY <2>3, <2>4, MissingCount
  <2>6. Cardinality(U) > PhyFrames - KMEM
    <3>1. nr_frame + Cardinality(M) > PhyFrames
      <4>1. nr_frame \in Nat /\ PhyFrames \in Nat
        BY Geometry DEF KInv, IInv, Types
      <4>2. ~(nr_frame + Cardinality(M) <= PhyFrames)
        BY <2>2 DEF Enough
      <4> HIDE DEF M
      <4> QED
        BY <2>5, <4>1, <4>2
    <3>2. nr_frame = KMEM + Cardinality(UserPages) /\ Cardinality(UserPages) \in Nat
          /\ KMEM \in Nat /\ PhyFrames \in Nat
      BY UserSet, Geometry DEF CountInv
    <3> HIDE DEF M, U
    <3> QED
      BY <2>5, <3>1, <3>2
  <2>7. UserPages' = UserPages /\ \A va, len : PagesOf(va, len)' = PagesOf(va, len)
    BY <2>2 DEF UserPages, Walk, PagesOf
  <2> QED
    BY <2>2, <2>3, <2>6, <2>7 DEF TooManyPages
<1> QED
  BY <1>1, <1>2

LEMMA AlwaysCount == Spec => [](CountInv /\ PanicInv)
<1>1. Init => CountInv /\ PanicInv
  <2> SUFFICES ASSUME Init PROVE CountInv /\ PanicInv
    OBVIOUS
  <2>1. KInv
    BY InitKInv
  <2>2. UserPages = {}
    <3>1. stage = "init_page" /\ seg = 1
      BY DEF Init
    <3>2. \A p \in UserRange : ~Mapped(p)
      BY <2>1, <3>1 DEF KInv, LoadedInv, NrLoaded, Loading
    <3> QED
      BY <2>1, <3>2, UserSet
  <2>3. nr_frame = KMEM /\ KMEM \in Nat /\ stage # "panic"
    BY Geometry DEF Init
  <2> QED
    BY <2>2, <2>3, FS_EmptySet DEF CountInv, PanicInv
<1>2. KInv /\ KInv' /\ CountInv /\ PanicInv /\ [Next]_vars => (CountInv /\ PanicInv)'
  BY NextCount, NextPanic
<1> QED
  BY <1>1, <1>2, AlwaysKInv, PTL DEF Spec

(* The kernel's assertions on present bits and video_mapping_read_test:    *)
(* no sequence of loads, accesses, breaks and kernel entries, with or      *)
(* without the TLB, makes one fail, and the kernel stays where it was      *)
(* linked.  mm_malloc's assertion can fail in brk, but only for a program  *)
(* that asks for more pages than memory has frames for it.                 *)
THEOREM NeverFaults == Spec => []NoFault
<1>1. ASSUME KInv, PanicInv PROVE NoFault
  <2>1. TypeOK
    BY <1>1, KInvTypes
  <2>2. KernelMapped
    BY <1>1, KernelWalk DEF KernelMapped
  <2>3. TlbTyped(tlb) /\ TlbInv(tlb)
    BY <1>1 DEF KInv
  <2>4. CASE stage \in {"video_write", "video_read", "video_clear"}
    <3>1. /\ paging /\ Page(VideoStart + at) = VideoPage /\ VideoPage \in Pages
          /\ at \in 0 .. PageLen - 1 /\ VideoStart + at \in Nat
          /\ Walk(cr3, VideoPage) = VideoPage /\ VideoPage # None
          /\ Walk(cr3, VideoPage) * PageLen + ((VideoStart + at) % PageLen)
               = VideoStart + at
      BY <1>1, <2>4, VideoPlace
    <3>2. Frame(tlb, VideoPage) = VideoPage
      BY <1>1, <2>3, <3>1, FrameRight
    <3>3. NextAccesses = {<<VideoStart + at, 1>>}
      BY <2>4 DEF NextAccesses
    <3>4. Present(VideoStart + at, 1)
      <4>1. VideoStart + at + 1 - 1 = VideoStart + at
        BY <3>1
      <4> QED
        BY <3>1, <3>2, <4>1 DEF Present
    <3>5. stage = "video_read" => hw_mem[Paddr(tlb, VideoStart + at)] = TestByte(at)
      <4>1. Paddr(tlb, VideoStart + at) = VideoStart + at
        BY <3>1, <3>2 DEF Paddr
      <4> QED
        BY <1>1, <3>1, <4>1 DEF KInv, PatternInv
    <3> QED
      BY <1>1, <2>1, <2>2, <2>4, <3>3, <3>4, <3>5 DEF NoFault, PanicInv
  <2>5. CASE stage = "load"
    <3> DEFINE a == p_paddr + at
    <3>1. a \in Nat /\ Page(a) \in Frames
      BY <1>1, <2>5, LoadPlace
    <3>2. paging /\ cr3 = "kpdir"
      BY <1>1, <2>5 DEF KInv, ModeInv, Switched
    <3>3. Walk(cr3, Page(a)) = Page(a) /\ Page(a) \in Pages /\ Page(a) # None
      BY <1>1, <3>1, <3>2, KernelWalk, Indices, Sizes DEF Frames
    <3>4. Frame(tlb, Page(a)) = Page(a)
      BY <1>1, <2>3, <3>2, <3>3, FrameRight
    <3>5. NextAccesses = {<<a, 1>>}
      BY <2>5 DEF NextAccesses
    <3>6. Present(a, 1)
      <4>1. a + 1 - 1 = a
        BY <3>1
      <4> QED
        BY <3>3, <3>4, <4>1 DEF Present
    <3> HIDE DEF a
    <3> QED
      BY <1>1, <2>1, <2>2, <2>5, <3>5, <3>6 DEF NoFault, PanicInv
  <2>6. CASE stage = "user"
    <3>1. NextAccesses = Accesses(UserNow)
      BY <2>6 DEF NextAccesses
    <3>2. ASSUME NEW acc \in Accesses(UserNow) PROVE Present(acc[1], acc[2])
      <4>1. /\ paging /\ Page(acc[1]) \in Pages /\ Page(acc[1] + acc[2] - 1) \in Pages
            /\ Walk(cr3, Page(acc[1])) # None
            /\ Walk(cr3, Page(acc[1] + acc[2] - 1)) # None
        BY <1>1, <2>6, UserAccess
      <4> QED
        BY <1>1, <2>3, <4>1, FrameRight DEF Present
    <3> QED
      BY <1>1, <2>1, <2>2, <2>6, <3>1, <3>2 DEF NoFault, PanicInv
  <2>7. CASE stage \notin {"video_write", "video_read", "video_clear", "load", "user"}
    <3>1. NextAccesses = {}
      BY <2>7 DEF NextAccesses
    <3> QED
      BY <1>1, <2>1, <2>2, <2>7, <3>1 DEF NoFault, PanicInv
  <2> QED
    BY <2>4, <2>5, <2>6, <2>7
<1> QED
  BY <1>1, AlwaysKInv, AlwaysCount, PTL

(* CR3 is loaded and mm_malloc changes tables without a flush: whatever    *)
(* the program and the kernel have used before, an entry of the TLB whose  *)
(* page the directory in force maps has its frame.                         *)
THEOREM TlbSafe == Spec => []TlbAgrees
<1>1. ASSUME KInv PROVE TlbAgrees
  <2>1. TlbTyped(tlb) /\ TlbInv(tlb)
    BY <1>1 DEF KInv
  <2>2. CASE paging
    BY <1>1, <2>1, <2>2, HitRight DEF TlbAgrees
  <2>3. CASE ~paging
    BY <2>1, <2>3 DEF TlbInv, TlbAgrees
  <2> QED
    BY <2>2, <2>3
<1> QED
  BY <1>1, AlwaysKInv, PTL

-----------------------------------------------------------------------------
(* The program's view of its memory.  Where its directory puts a byte:     *)
Place(a) == Walk("updir", Page(a)) * PageLen + (a % PageLen)

(* The bytes of the program's image that have been copied.                 *)
Copied(a) ==
  \E k \in DOMAIN Segments :
    /\ a \in SegmentAddr(Segments[k])
    /\ \/ k < seg
       \/ k = seg /\ stage = "load" /\ a < Segments[k].vaddr + at

(* Until the program runs its memory holds what has been copied and zeros, *)
(* and a frame that nobody has taken is zero.                              *)
ContentInv ==
  /\ stage \notin {"user", "panic"} =>
       \A a \in UserAddr : Mapped(Page(a)) =>
         hw_mem[Place(a)] = IF Copied(a) THEN Initial[a] ELSE 0
  /\ \A pa \in 0 .. PhyFrames * PageLen - 1 : nr_frame <= Page(pa) => hw_mem[pa] = 0

LEMMA UserAddrPages ==
  ASSUME NEW a \in UserAddr
  PROVE  a \in Nat /\ Page(a) \in UserRange /\ Page(a) \in Pages
<1>1. CASE a \in ImageAddr
  BY <1>1, HeapAndStack, Indices DEF ImageAddr
<1>2. CASE a \in StackAddr
  BY <1>2, HeapAndStack, Indices
<1>3. CASE a \in Last + 1 .. MaxBrk - 1
  <2>1. a \in Last .. MaxBrk - 1
    BY <1>3, Geometry
  <2> QED
    BY <2>1, HeapAndStack, Indices
<1> QED
  BY <1>1, <1>2, <1>3 DEF UserAddr

(* The frame of a page of the program.                                     *)
LEMMA UserFrame ==
  ASSUME KInv, NEW p \in UserRange, Mapped(p)
  PROVE  /\ Walk("updir", p) \in KMEM .. nr_frame - 1
         /\ Walk("updir", p) \in Frames /\ Walk("updir", p) \in Nat
         /\ p \in UserPages
<1>0. IInv /\ Bounded
  BY DEF KInv
<1>1. p \in UserPages
  <2>1. VideoPage < p /\ p \in Int /\ p \in 0 .. KOFFSET - 1
    BY Indices, Geometry DEF UserRange
  <2>2. p # VideoPage
    BY <2>1, Geometry
  <2> QED
    BY <2>1, <2>2 DEF UserPages, Mapped
<1>2. Walk("updir", p) \in KMEM .. nr_frame - 1
  BY <1>0, <1>1, WalkLemma DEF IInv, FramesOnce, Mapped
<1>3. Walk("updir", p) \in Frames /\ Walk("updir", p) \in Nat
  BY SMTT(20), <1>0, <1>2, Geometry DEF Bounded, IInv, Types, Frames
<1> QED
  BY <1>1, <1>2, <1>3

(* A place determines its frame and its offset.                            *)
LEMMA PlaceParts ==
  ASSUME NEW f \in Frames, NEW r \in 0 .. PageLen - 1
  PROVE  /\ f * PageLen + r \in 0 .. PhyFrames * PageLen - 1
         /\ Page(f * PageLen + r) = f /\ (f * PageLen + r) % PageLen = r
<1>1. f * PageLen + r \in 0 .. PhyFrames * PageLen - 1
  BY InMemory
<1>2. f * PageLen + r \in Nat /\ f \in Int
  BY <1>1 DEF Frames
<1> QED
  BY <1>1, <1>2, PageLemma

LEMMA PlaceLemma ==
  ASSUME KInv, NEW a \in UserAddr, Mapped(Page(a))
  PROVE  /\ Place(a) \in 0 .. PhyFrames * PageLen - 1
         /\ Page(Place(a)) = Walk("updir", Page(a))
         /\ Place(a) % PageLen = a % PageLen
         /\ Page(Place(a)) \in KMEM .. nr_frame - 1
<1>1. a \in Nat /\ Page(a) \in UserRange
  BY UserAddrPages
<1>2. a % PageLen \in 0 .. PageLen - 1
  BY <1>1, PageLemma
<1>3. Walk("updir", Page(a)) \in KMEM .. nr_frame - 1 /\ Walk("updir", Page(a)) \in Frames
  BY <1>1, UserFrame
<1> QED
  BY <1>2, <1>3, PlaceParts DEF Place

(* No two bytes of the program are in one place.                           *)
LEMMA PlaceOnce ==
  ASSUME KInv, NEW a \in UserAddr, Mapped(Page(a)), NEW b \in UserAddr, Mapped(Page(b)),
         Place(a) = Place(b)
  PROVE  a = b
<1>1. /\ Page(a) \in UserRange /\ a \in Nat /\ Page(a) \in UserPages
      /\ Page(b) \in UserRange /\ b \in Nat /\ Page(b) \in UserPages
  BY UserAddrPages, UserFrame
<1>2. /\ Walk("updir", Page(a)) = Walk("updir", Page(b))
      /\ a % PageLen = b % PageLen
  BY PlaceLemma
<1>3. Page(a) = Page(b)
  <2>1. FramesPrivate
    BY IInvPrivate DEF KInv
  <2> QED
    BY <1>1, <1>2, <2>1 DEF FramesPrivate
<1>4. /\ a = Page(a) * PageLen + (a % PageLen)
      /\ b = Page(b) * PageLen + (b % PageLen)
  BY <1>1, PageLemma
<1> QED
  BY <1>2, <1>3, <1>4

(* The image has been loaded when the loader goes on to the stack.         *)
LEMMA CopiedMapped ==
  ASSUME KInv, NEW a, Copied(a)
  PROVE  a \in ImageAddr /\ Mapped(Page(a))
<1>1. PICK k \in DOMAIN Segments :
        /\ a \in SegmentAddr(Segments[k])
        /\ k < seg \/ (k = seg /\ stage = "load")
  BY DEF Copied
<1>2. Page(a) \in PagesOf(Segments[k].vaddr, Segments[k].memsz)
  BY <1>1, HeapAndStack
<1>3. k \in 1 .. NrLoaded
  <2>1. k \in Nat \ {0}
    BY SegmentLemma
  <2>2. seg \in Int
    <3>1. stage \in Loading => seg \in DOMAIN Segments
      BY DEF KInv, IInv, LoadPoint, Loading
    <3>2. stage \notin Loading => seg = Len(Segments) + 1
      BY DEF KInv, LoadedInv
    <3> QED
      BY <3>1, <3>2, SegmentLemma
  <2> QED
    BY <1>1, <2>1, <2>2 DEF NrLoaded
<1>4. Mapped(Page(a))
  BY <1>2, <1>3 DEF KInv, LoadedInv
<1> QED
  BY <1>1, <1>4 DEF ImageAddr

(* The byte of the file at an address of the image.                        *)
LEMMA InitialByte ==
  ASSUME NEW k \in DOMAIN Segments, NEW a \in SegmentAddr(Segments[k])
  PROVE  /\ a \in UserAddr
         /\ Initial[a] = ImageByte(Segments[k], a - Segments[k].vaddr)
<1>1. a \in ImageAddr
  BY DEF ImageAddr
<1>2. a \in UserAddr
  BY <1>1 DEF UserAddr
<1>3. ASSUME NEW j \in DOMAIN Segments, a \in SegmentAddr(Segments[j]) PROVE j = k
  <2>1. /\ a \in Segments[j].vaddr .. End(j) /\ a \in Segments[k].vaddr .. End(k)
        /\ Segments[j].vaddr \in Nat /\ Segments[k].vaddr \in Nat
        /\ End(j) \in Nat /\ End(k) \in Nat
    BY <1>3, Ranges DEF SegmentAddr, End
  <2>2. CASE j < k
    <3>1. End(j) < Segments[k].vaddr
      BY <2>2, Ranges
    <3> QED
      BY <2>1, <3>1
  <2>3. CASE k < j
    <3>1. End(k) < Segments[j].vaddr
      BY <2>3, Ranges
    <3> QED
      BY <2>1, <3>1
  <2> QED
    BY <2>2, <2>3, SegmentLemma
<1>4. (CHOOSE j \in DOMAIN Segments : a \in SegmentAddr(Segments[j])) = k
  BY <1>3
<1> QED
  BY <1>1, <1>2, <1>4 DEF Initial

LEMMA InitialZero ==
  ASSUME NEW a \in UserAddr, a \notin ImageAddr PROVE Initial[a] = 0
  BY DEF Initial

-----------------------------------------------------------------------------
LEMMA InitContent == ASSUME Init PROVE ContentInv
<1>1. KInv /\ stage = "init_page" /\ seg = 1
  BY InitKInv DEF Init
<1>2. NrLoaded = 0
  BY <1>1 DEF NrLoaded
<1>3. \A a \in UserAddr : ~Mapped(Page(a))
  BY <1>1, <1>2, UserAddrPages DEF KInv, LoadedInv, Loading
<1>4. \A pa \in 0 .. PhyFrames * PageLen - 1 : hw_mem[pa] = 0
  BY DEF Init
<1> QED
  BY <1>3, <1>4 DEF ContentInv

(* A step that copies nothing: what it maps is zero.                       *)
LEMMA ContentKept ==
  ASSUME KInv, ContentInv, hw_mem' = hw_mem,
         stage' \notin {"user", "panic"} => stage \notin {"user", "panic"},
         \A a \in UserAddr : Mapped(Page(a))' =>
           \/ Mapped(Page(a)) /\ Walk("updir", Page(a))' = Walk("updir", Page(a))
           \/ /\ ~Mapped(Page(a)) /\ Walk("updir", Page(a))' \in Frames
              /\ nr_frame <= Walk("updir", Page(a))',
         \A a \in UserAddr : stage' \notin {"user", "panic"} => Copied(a)' = Copied(a),
         nr_frame' \in Nat, nr_frame <= nr_frame'
  PROVE  ContentInv'
<1>1. ASSUME NEW a \in UserAddr, stage' \notin {"user", "panic"}, Mapped(Page(a))'
      PROVE  hw_mem'[Place(a)'] = IF Copied(a)' THEN Initial[a] ELSE 0
  <2>1. CASE Mapped(Page(a)) /\ Walk("updir", Page(a))' = Walk("updir", Page(a))
    <3>1. Place(a)' = Place(a)
      BY <2>1 DEF Place, Page
    <3> QED
      BY <1>1, <2>1, <3>1 DEF ContentInv
  <2>2. CASE /\ ~Mapped(Page(a)) /\ Walk("updir", Page(a))' \in Frames
             /\ nr_frame <= Walk("updir", Page(a))'
    <3>1. ~Copied(a)'
      BY <1>1, <2>2, CopiedMapped
    <3> DEFINE f == Walk("updir", Page(a))'
               r == a % PageLen
    <3>2. f \in Frames /\ r \in 0 .. PageLen - 1 /\ nr_frame <= f
      BY <2>2, UserAddrPages, PageLemma
    <3>3. Place(a)' = f * PageLen + r
      BY DEF Place, Page
    <3> HIDE DEF f, r
    <3>4. Place(a)' \in 0 .. PhyFrames * PageLen - 1 /\ nr_frame <= Page(Place(a)')
      BY <3>2, <3>3, PlaceParts
    <3>5. hw_mem[Place(a)'] = 0
      BY <3>4 DEF ContentInv
    <3> QED
      BY <3>1, <3>5
  <2> QED
    BY <1>1, <2>1, <2>2
<1>2. ASSUME NEW pa \in 0 .. PhyFrames * PageLen - 1, nr_frame' <= Page(pa)
      PROVE  hw_mem'[pa] = 0
  <2>1. nr_frame \in Nat /\ Page(pa) \in Nat
    <3>1. pa \in Nat
      OBVIOUS
    <3> QED
      BY <3>1, PageLemma DEF KInv, IInv, Types
  <2>2. nr_frame <= Page(pa)
    BY <1>2, <2>1
  <2> QED
    BY <2>2 DEF ContentInv
<1> QED
  BY <1>1, <1>2 DEF ContentInv, Page

(* A write to a frame that is not the program's, or to its own.            *)
LEMMA ContentWritten ==
  ASSUME KInv, ContentInv, NEW pa \in 0 .. PhyFrames * PageLen - 1, NEW v,
         hw_mem' = [hw_mem EXCEPT ![pa] = v], Page(pa) < nr_frame,
         UNCHANGED <<pdir, ptable, nr_frame>>,
         stage' \notin {"user", "panic"} => stage \notin {"user", "panic"},
         \A a \in UserAddr : stage' \notin {"user", "panic"} /\ Mapped(Page(a)) =>
           IF Place(a) = pa THEN v = IF Copied(a)' THEN Initial[a] ELSE 0
                            ELSE Copied(a)' = Copied(a)
  PROVE  ContentInv'
<1>1. \A p : Walk("updir", p)' = Walk("updir", p) /\ Mapped(p)' = Mapped(p)
  BY DEF Walk, Mapped
<1>2. \A a : Place(a)' = Place(a)
  BY <1>1 DEF Place, Page
<1>3. \A x \in 0 .. PhyFrames * PageLen - 1 : hw_mem'[x] = IF x = pa THEN v ELSE hw_mem[x]
  BY DEF KInv, Bounded
<1>4. ASSUME NEW a \in UserAddr, stage' \notin {"user", "panic"}, Mapped(Page(a))'
      PROVE  hw_mem'[Place(a)'] = IF Copied(a)' THEN Initial[a] ELSE 0
  <2>1. Mapped(Page(a)) /\ Place(a)' = Place(a)
    BY <1>1, <1>2, <1>4 DEF Mapped, Page
  <2>2. Place(a) \in 0 .. PhyFrames * PageLen - 1
    BY <2>1, PlaceLemma
  <2>3. hw_mem[Place(a)] = IF Copied(a) THEN Initial[a] ELSE 0
    BY <1>4, <2>1 DEF ContentInv
  <2> QED
    BY <1>3, <1>4, <2>1, <2>2, <2>3
<1>5. ASSUME NEW x \in 0 .. PhyFrames * PageLen - 1, nr_frame' <= Page(x)
      PROVE  hw_mem'[x] = 0
  <2>1. x # pa
    <3>1. nr_frame \in Nat /\ pa \in Nat /\ Page(pa) \in Nat
      <4>1. pa \in Nat
        OBVIOUS
      <4> QED
        BY <4>1, PageLemma DEF KInv, IInv, Types
    <3> QED
      BY <1>5, <3>1
  <2> QED
    BY <1>3, <1>5, <2>1 DEF ContentInv
<1> QED
  BY <1>4, <1>5 DEF ContentInv, Page

LEMMA SameCopied ==
  ASSUME seg' = seg, stage # "load",
         stage' # "load" \/ (at' = 0 /\ \A k \in DOMAIN Segments : Segments[k].vaddr \in Nat)
  PROVE  \A a \in UserAddr : Copied(a)' = Copied(a)
<1>1. CASE stage' # "load"
  BY <1>1 DEF Copied
<1>2. CASE at' = 0 /\ \A k \in DOMAIN Segments : Segments[k].vaddr \in Nat
  <2>1. \A k \in DOMAIN Segments : \A a \in SegmentAddr(Segments[k]) :
          a \in Int /\ ~(a < Segments[k].vaddr + at')
    <3> SUFFICES ASSUME NEW k \in DOMAIN Segments, NEW a \in SegmentAddr(Segments[k])
                 PROVE  a \in Int /\ ~(a < Segments[k].vaddr + at')
      OBVIOUS
    <3>1. Segments[k].vaddr \in Nat /\ End(k) \in Nat /\ a \in Segments[k].vaddr .. End(k)
      BY Ranges DEF SegmentAddr, End
    <3> QED
      BY <1>2, <3>1
  <2> QED
    BY <2>1 DEF Copied
<1> QED
  BY <1>1, <1>2

(* The pages that mm_malloc maps get frames that nobody has taken.         *)
LEMMA AllocWalk ==
  ASSUME KInv, NEW va \in Int, NEW len \in Int,
         \A p \in PagesOf(va, len) : p \in UserRange,
         Enough(va, len), mm_malloc(va, len)
  PROVE  /\ \A p \in Pages : Mapped(p)' =>
              \/ Mapped(p) /\ Walk("updir", p)' = Walk("updir", p)
              \/ /\ ~Mapped(p) /\ Walk("updir", p)' \in Frames
                 /\ nr_frame <= Walk("updir", p)'
         /\ \A p \in Pages : Mapped(p) => Mapped(p)'
         /\ nr_frame' \in Nat /\ nr_frame <= nr_frame'
<1>0. IInv /\ TablesEmpty /\ Bounded
  BY DEF KInv
<1> DEFINE M == Missing(va, len)
<1>1. /\ \A q \in Pages : Walk("updir", q)' =
           IF q \in M THEN FrameFor(va, len, q) ELSE Walk("updir", q)
      /\ \A q \in M : FrameFor(va, len, q) \in Frames
      /\ nr_frame' = nr_frame + Cardinality(M)
  BY <1>0, MallocMaps
<1>2. /\ Cardinality(M) \in Nat /\ nr_frame \in Nat
      /\ \A q \in M : nr_frame <= FrameFor(va, len, q)
  BY <1>0, Taken DEF IInv, Types
<1>3. \A q \in M : ~Mapped(q)
  BY DEF Missing, Mapped
<1>4. None \notin Frames
  BY Sizes DEF Frames
<1> HIDE DEF M
<1>5. ASSUME NEW p \in Pages, Mapped(p)'
      PROVE  \/ Mapped(p) /\ Walk("updir", p)' = Walk("updir", p)
             \/ /\ ~Mapped(p) /\ Walk("updir", p)' \in Frames
                /\ nr_frame <= Walk("updir", p)'
  <2>1. CASE p \in M
    BY <1>1, <1>2, <1>3, <2>1
  <2>2. CASE p \notin M
    BY <1>1, <1>5, <2>2 DEF Mapped
  <2> QED
    BY <2>1, <2>2
<1>6. ASSUME NEW p \in Pages, Mapped(p) PROVE Mapped(p)'
  BY <1>1, <1>3, <1>6 DEF Mapped
<1> QED
  BY <1>1, <1>2, <1>5, <1>6

(* The frame of the video memory is not the program's.                     *)
LEMMA VideoApart ==
  ASSUME KInv, stage \in {"video_write", "video_read", "video_clear"}
  PROVE  /\ VideoStart + at \in 0 .. PhyFrames * PageLen - 1
         /\ Page(VideoStart + at) < nr_frame
         /\ \A a \in UserAddr : Mapped(Page(a)) => Place(a) # VideoStart + at
<1>1. /\ Page(VideoStart + at) = VideoPage /\ at \in 0 .. PageLen - 1
      /\ VideoPage \in Frames /\ VideoPage \in Int
  BY VideoPlace, Indices, Geometry
<1>2. VideoStart + at \in 0 .. PhyFrames * PageLen - 1
  BY <1>1, InMemory DEF VideoStart
<1>3. VideoPage < KMEM /\ KMEM \in Nat /\ nr_frame \in Nat /\ KMEM <= nr_frame
  BY Geometry DEF KInv, IInv, Types
<1>4. \A a \in UserAddr : Mapped(Page(a)) => Page(Place(a)) \in KMEM .. nr_frame - 1
  BY PlaceLemma
<1> QED
  BY <1>1, <1>2, <1>3, <1>4

LEMMA VideoContent == ASSUME KInv, ContentInv, VideoWriteTest \/ VideoClear PROVE ContentInv'
<1> DEFINE v == IF stage = "video_write" THEN TestByte(at) ELSE 0
<1>1. /\ UNCHANGED <<pdir, ptable, nr_frame, seg>>
      /\ laddr_write(VideoStart + at, 1, [i \in {0} |-> v])
      /\ stage \in {"video_write", "video_clear"}
      /\ stage' \in {"video_write", "video_clear", "malloc", "user"}
  <2>1. CASE VideoWriteTest
    <3>1. stage = "video_write" /\ v = TestByte(at)
      BY <2>1 DEF VideoWriteTest
    <3> HIDE DEF v
    <3>2. [i \in {0} |-> v] = [i \in {0} |-> TestByte(at)]
      BY <3>1
    <3>3. laddr_write(VideoStart + at, 1, [i \in {0} |-> TestByte(at)])
      BY <2>1 DEF VideoWriteTest
    <3>4. laddr_write(VideoStart + at, 1, [i \in {0} |-> v])
      BY <3>2, <3>3
    <3> QED
      BY <2>1, <3>1, <3>4 DEF VideoWriteTest, VideoNext, mmu, loader, alloc
  <2>2. CASE VideoClear
    <3>1. stage = "video_clear" /\ v = 0
      BY <2>2 DEF VideoClear
    <3> HIDE DEF v
    <3>2. [i \in {0} |-> v] = [i \in {0} |-> 0]
      BY <3>1
    <3>3. laddr_write(VideoStart + at, 1, [i \in {0} |-> 0])
      BY <2>2 DEF VideoClear
    <3>4. laddr_write(VideoStart + at, 1, [i \in {0} |-> v])
      BY <3>2, <3>3
    <3> QED
      BY <2>2, <3>1, <3>4 DEF VideoClear, VideoNext, mmu, loader, alloc
  <2> QED
    BY <2>1, <2>2
<1> HIDE DEF v
<1>2. /\ paging /\ VideoStart + at \in Nat
      /\ Page(VideoStart + at) = VideoPage /\ VideoPage \in Pages
      /\ Walk(cr3, VideoPage) = VideoPage /\ VideoPage # None
      /\ Walk(cr3, VideoPage) * PageLen + ((VideoStart + at) % PageLen) = VideoStart + at
  BY <1>1, VideoPlace
<1>3. hw_mem' = [hw_mem EXCEPT ![VideoStart + at] = v]
  BY <1>1, <1>2, ByteWritten
<1>4. /\ VideoStart + at \in 0 .. PhyFrames * PageLen - 1
      /\ Page(VideoStart + at) < nr_frame
      /\ \A a \in UserAddr : Mapped(Page(a)) => Place(a) # VideoStart + at
  BY <1>1, VideoApart
<1>5. \A a \in UserAddr : Copied(a)' = Copied(a)
  BY <1>1, SameCopied
<1> DEFINE pa == VideoStart + at
<1>6. /\ stage \notin {"user", "panic"} /\ pa \in 0 .. PhyFrames * PageLen - 1
      /\ hw_mem' = [hw_mem EXCEPT ![pa] = v] /\ Page(pa) < nr_frame
      /\ UNCHANGED <<pdir, ptable, nr_frame>>
  BY <1>1, <1>3, <1>4
<1>7. \A a \in UserAddr : Mapped(Page(a)) => Place(a) # pa
  BY <1>4
<1> HIDE DEF pa
<1>8. \A a \in UserAddr : stage' \notin {"user", "panic"} /\ Mapped(Page(a)) =>
        IF Place(a) = pa THEN v = IF Copied(a)' THEN Initial[a] ELSE 0
                         ELSE Copied(a)' = Copied(a)
  BY <1>5, <1>7
<1> QED
  BY <1>6, <1>8, ContentWritten

LEMMA LoadContent == ASSUME KInv, ContentInv, LoadByte PROVE ContentInv'
<1> DEFINE s == Segments[seg]
           va == s.vaddr + at
           pa == p_paddr + at
           b == ImageByte(s, at)
<1>1. /\ stage = "load" /\ stage' \notin {"user", "panic"}
      /\ UNCHANGED <<pdir, ptable, nr_frame>>
      /\ laddr_write(pa, 1, [i \in {0} |-> b])
      /\ \/ stage' = "load" /\ seg' = seg /\ at' = at + 1
         \/ stage' # "load" /\ seg' = seg + 1 /\ at + 1 >= s.memsz
  BY DEF LoadByte, mmu, alloc
<1>2. /\ seg \in DOMAIN Segments /\ va \in SegmentAddr(s) /\ va \in Nat
      /\ Page(va) \in UserRange /\ Walk("updir", Page(va)) \in KMEM .. nr_frame - 1
      /\ Walk("updir", Page(va)) \in Frames /\ pa \in Nat
      /\ pa = Walk("updir", Page(va)) * PageLen + (va % PageLen)
      /\ Page(pa) = Walk("updir", Page(va))
  BY <1>1, LoadPlace
<1>3. /\ va \in UserAddr /\ Initial[va] = ImageByte(s, va - s.vaddr)
  BY <1>2, InitialByte
<1>4. /\ s.vaddr \in Nat /\ s.memsz \in Nat /\ at \in Nat /\ at < s.memsz /\ va - s.vaddr = at
      /\ seg \in Nat /\ DOMAIN Segments \subseteq Nat
  <2>1. s.vaddr \in Nat /\ s.memsz \in Nat /\ seg \in Nat /\ DOMAIN Segments \subseteq Nat
    BY <1>2, SegmentLemma
  <2>2. at \in Nat /\ at < s.memsz
    BY <1>1 DEF KInv, Bounded, LoadedInv
  <2> QED
    BY <2>1, <2>2
<1>5. Mapped(Page(va)) /\ pa = Place(va)
  BY <1>2, Sizes DEF Mapped, Place, Frames
<1>6. /\ pa \in 0 .. PhyFrames * PageLen - 1 /\ Page(pa) < nr_frame
  <2>1. pa \in 0 .. PhyFrames * PageLen - 1 /\ Page(pa) \in KMEM .. nr_frame - 1
    BY <1>3, <1>5, PlaceLemma
  <2>2. nr_frame \in Int /\ KMEM \in Int
    BY Geometry DEF KInv, IInv, Types
  <2> HIDE DEF pa
  <2> QED
    BY <2>1, <2>2
<1>7. hw_mem' = [hw_mem EXCEPT ![pa] = b]
  <2>1. /\ paging /\ cr3 = "kpdir" /\ Walk(cr3, Page(pa)) = Page(pa)
        /\ Page(pa) \in Pages /\ Page(pa) # None
        /\ Page(pa) * PageLen + (pa % PageLen) = pa
    <3>1. paging /\ cr3 = "kpdir"
      BY <1>1 DEF KInv, ModeInv, Switched
    <3>2. Page(pa) \in Frames
      BY <1>2
    <3>3. Walk(cr3, Page(pa)) = Page(pa) /\ Page(pa) \in Pages /\ Page(pa) # None
      BY <3>1, <3>2, KernelWalk, Indices, Sizes DEF Frames
    <3>4. Page(pa) * PageLen + (pa % PageLen) = pa
      <4> HIDE DEF pa
      <4> QED
        BY <1>2, PageLemma
    <3> QED
      BY <3>1, <3>3, <3>4
  <2> HIDE DEF pa, b
  <2> DEFINE x == Walk(cr3, Page(pa)) * PageLen + (pa % PageLen)
  <2>2. Walk(cr3, Page(pa)) # None
    BY <2>1
  <2>3. hw_mem' = [hw_mem EXCEPT ![x] = b]
    BY <1>1, <1>2, <2>1, <2>2, ByteWritten
  <2>4. x = pa
    BY <2>1
  <2> HIDE DEF x
  <2> QED
    BY <2>3, <2>4
<1>8. ASSUME NEW a \in UserAddr, a = va PROVE Copied(a)'
  <2>1. \/ seg < seg'
        \/ seg = seg' /\ stage' = "load" /\ a < s.vaddr + at'
    BY <1>1, <1>4, <1>8
  <2>2. seg \in DOMAIN Segments /\ a \in SegmentAddr(Segments[seg])
    BY <1>2, <1>8
  <2> QED
    BY <2>1, <2>2 DEF Copied
<1>9. ASSUME NEW a \in UserAddr, a # va PROVE Copied(a)' = Copied(a)
  <2>1. ASSUME NEW k \in DOMAIN Segments, a \in SegmentAddr(Segments[k])
        PROVE  (\/ k < seg'
                \/ k = seg' /\ stage' = "load" /\ a < Segments[k].vaddr + at')
               = (\/ k < seg
                  \/ k = seg /\ stage = "load" /\ a < Segments[k].vaddr + at)
    <3>1. /\ k \in Nat /\ a \in Nat
          /\ a \in Segments[k].vaddr .. Segments[k].vaddr + Segments[k].memsz - 1
          /\ Segments[k].vaddr \in Nat /\ Segments[k].memsz \in Nat
      BY <1>4, <2>1, SegmentLemma, UserAddrPages DEF SegmentAddr
    <3>2. CASE k = seg
      <4>1. a # s.vaddr + at /\ a < s.vaddr + s.memsz
        BY <1>4, <1>9, <3>1, <3>2
      <4> QED
        BY <1>1, <1>4, <3>1, <3>2, <4>1
    <3>3. CASE k # seg
      BY <1>1, <1>4, <3>1, <3>3
    <3> QED
      BY <3>2, <3>3
  <2> QED
    BY <2>1 DEF Copied
<1>10. ASSUME NEW a \in UserAddr, Mapped(Page(a))
       PROVE  IF Place(a) = pa THEN b = IF Copied(a)' THEN Initial[a] ELSE 0
                               ELSE Copied(a)' = Copied(a)
  <2>1. CASE a = va
    BY <1>3, <1>4, <1>5, <1>8, <2>1
  <2>2. CASE a # va
    <3>1. Place(a) # pa
      <4> HIDE DEF pa, va
      <4> QED
        BY <1>3, <1>5, <1>10, <2>2, PlaceOnce
    <3> QED
      BY <1>9, <2>2, <3>1
  <2> QED
    BY <2>1, <2>2
<1>11. stage \notin {"user", "panic"}
  BY <1>1
<1> HIDE DEF pa, b, va, s
<1> QED
  BY <1>1, <1>6, <1>7, <1>10, <1>11, ContentWritten

(* Every byte of an access is in its place, whatever the TLB holds.        *)
LEMMA AccessPlaces ==
  ASSUME KInv, stage = "user", NEW acc \in Accesses(UserNow),
         NEW t \in TlbsAfter(acc[1]), Translate(acc[1], acc[2], t)
  PROVE  /\ acc \in Accesses(UserAddr) /\ acc[1] \in Nat /\ acc[2] \in Nat
         /\ \A i \in 0 .. acc[2] - 1 :
              /\ acc[1] + i \in UserAddr /\ Mapped(Page(acc[1] + i))
              /\ BytePaddr(t, acc[1], acc[2], i) = Place(acc[1] + i)
<1> DEFINE a == acc[1]
           len == acc[2]
<1>1. UserNow \subseteq UserAddr
  <2>1. brk \in Last .. MaxBrk
    BY DEF KInv, BreakInv
  <2>2. Last + 1 .. brk - 1 \subseteq Last + 1 .. MaxBrk - 1
    BY <2>1, Geometry
  <2> QED
    BY <2>2 DEF UserNow, UserAddr
<1>2. acc \in Accesses(UserAddr)
  BY <1>1, Zenon DEF Accesses
<1>3. /\ paging /\ cr3 = "updir" /\ a \in Nat /\ len \in 1 .. PageLen
      /\ \A i \in 0 .. len - 1 : a + i \in UserNow
      /\ Page(a) \in Pages /\ Page(a + len - 1) \in Pages
      /\ Walk(cr3, Page(a)) # None /\ Walk(cr3, Page(a + len - 1)) # None
  BY UserAccess
<1>4. ASSUME NEW i \in 0 .. len - 1 PROVE a + i \in UserAddr /\ Mapped(Page(a + i))
  BY <1>1, <1>3, UserMapped
<1> HIDE DEF a, len
<1>5. t \in TlbsAfter(a) /\ Translate(a, len, t)
  BY DEF a, len
<1>6. TlbTyped(t) /\ TlbInv(t)
  BY <1>3, <1>5, TranslateKeeps
<1>7. ASSUME NEW i \in 0 .. len - 1 PROVE BytePaddr(t, a, len, i) = Place(a + i)
  BY <1>3, <1>6, BytePlace DEF Place
<1>8. len \in Nat
  BY <1>3
<1> QED
  BY <1>2, <1>3, <1>4, <1>7, <1>8 DEF a, len

(* What a write of the program changes.                                    *)
LEMMA WritePlaces ==
  ASSUME KInv, NEW acc \in Accesses(UserNow), NEW data \in [0 .. acc[2] - 1 -> Byte],
         UserWrite(acc[1], acc[2], data)
  PROVE  /\ \A pa \in 0 .. PhyFrames * PageLen - 1 :
              \/ hw_mem'[pa] = hw_mem[pa]
              \/ \E i \in 0 .. acc[2] - 1 : pa = Place(acc[1] + i)
         /\ \A b \in UserAddr : Mapped(Page(b)) =>
              hw_mem'[Place(b)] = IF b \in acc[1] .. acc[1] + acc[2] - 1
                                  THEN data[b - acc[1]] ELSE hw_mem[Place(b)]
<1> DEFINE a == acc[1]
           len == acc[2]
<1>0. stage = "user"
  BY DEF UserWrite
<1>1. PICK t \in TlbsAfter(a) :
        Translate(a, len, t) /\ hw_mem' = BytesWritten(t, a, len, data)
  BY DEF UserWrite, laddr_write
<1>2. /\ a \in Nat /\ len \in Nat
      /\ \A i \in 0 .. len - 1 : /\ a + i \in UserAddr /\ Mapped(Page(a + i))
                                 /\ BytePaddr(t, a, len, i) = Place(a + i)
  BY <1>0, <1>1, AccessPlaces
<1> DEFINE Here(pa, i) == BytePaddr(t, a, len, i) = pa
<1>3. \A pa \in 0 .. PhyFrames * PageLen - 1 :
        hw_mem'[pa] = IF \E i \in 0 .. len - 1 : Here(pa, i)
                      THEN data[CHOOSE i \in 0 .. len - 1 : Here(pa, i)] ELSE hw_mem[pa]
  <2>1. DOMAIN hw_mem = 0 .. PhyFrames * PageLen - 1
    BY DEF KInv, Bounded
  <2> QED
    BY <1>1, <2>1 DEF BytesWritten
<1> HIDE DEF a, len
<1>4. ASSUME NEW pa \in 0 .. PhyFrames * PageLen - 1
      PROVE  \/ hw_mem'[pa] = hw_mem[pa]
             \/ \E i \in 0 .. len - 1 : pa = Place(a + i)
  <2>1. ASSUME NEW i \in 0 .. len - 1, Here(pa, i)
        PROVE  pa = Place(a + i)
    BY <1>2, <2>1
  <2>2. CASE ~\E i \in 0 .. len - 1 : Here(pa, i)
    BY <1>3, <2>2
  <2>3. QED
    BY <2>1, <2>2
<1>5. ASSUME NEW b \in UserAddr, Mapped(Page(b))
      PROVE  hw_mem'[Place(b)] = IF b \in a .. a + len - 1 THEN data[b - a]
                                 ELSE hw_mem[Place(b)]
  <2>1. Place(b) \in 0 .. PhyFrames * PageLen - 1 /\ b \in Nat
    BY <1>5, PlaceLemma, UserAddrPages
  <2>2. ASSUME NEW i \in 0 .. len - 1, Here(Place(b), i) PROVE b = a + i
    <3>1. a + i \in UserAddr /\ Mapped(Page(a + i)) /\ Place(a + i) = Place(b)
      BY <1>2, <2>2
    <3> QED
      BY <1>5, <3>1, PlaceOnce
  <2>3. CASE b \in a .. a + len - 1
    <3>1. b - a \in 0 .. len - 1 /\ a + (b - a) = b
      BY <1>2, <2>1, <2>3
    <3>2. Here(Place(b), b - a)
      BY <1>2, <3>1
    <3> DEFINE j == CHOOSE i \in 0 .. len - 1 : Here(Place(b), i)
    <3>3. j \in 0 .. len - 1 /\ Here(Place(b), j)
      <4> HIDE DEF Here
      <4> QED
        BY <3>1, <3>2, Zenon
    <3>4. b = a + j
      <4> HIDE DEF j, Here
      <4> QED
        BY <2>2, <3>3
    <3>5. j = b - a
      <4>1. j \in Int
        BY <3>3
      <4> HIDE DEF j
      <4> QED
        BY <1>2, <3>4, <4>1
    <3>6. hw_mem'[Place(b)] = data[j]
      <4> HIDE DEF Here
      <4> QED
        BY <1>3, <2>1, <3>1, <3>2
    <3> QED
      BY <2>3, <3>5, <3>6
  <2>4. CASE b \notin a .. a + len - 1
    <3>1. ~ \E i \in 0 .. len - 1 : Here(Place(b), i)
      <4> HIDE DEF Here
      <4> SUFFICES ASSUME NEW i \in 0 .. len - 1, Here(Place(b), i) PROVE FALSE
        OBVIOUS
      <4>1. b = a + i
        BY <2>2
      <4> QED
        BY <1>2, <2>4, <4>1
    <3> HIDE DEF Here
    <3> QED
      BY <1>3, <2>1, <2>4, <3>1
  <2> QED
    BY <2>3, <2>4
<1> QED
  BY <1>4, <1>5 DEF a, len

LEMMA WriteContent ==
  ASSUME KInv, ContentInv, NEW acc \in Accesses(UserNow),
         NEW data \in [0 .. acc[2] - 1 -> Byte], UserWrite(acc[1], acc[2], data)
  PROVE  ContentInv'
<1>1. stage = "user" /\ stage' = "user" /\ nr_frame' = nr_frame
  BY DEF UserWrite, alloc
<1>2. PICK t \in TlbsAfter(acc[1]) : Translate(acc[1], acc[2], t)
  BY DEF UserWrite, laddr_write
<1>3. \A i \in 0 .. acc[2] - 1 : acc[1] + i \in UserAddr /\ Mapped(Page(acc[1] + i))
  BY <1>1, <1>2, AccessPlaces
<1>4. ASSUME NEW pa \in 0 .. PhyFrames * PageLen - 1, nr_frame <= Page(pa)
      PROVE  hw_mem'[pa] = 0
  <2>1. ASSUME NEW i \in 0 .. acc[2] - 1 PROVE pa # Place(acc[1] + i)
    <3>1. Page(Place(acc[1] + i)) \in KMEM .. nr_frame - 1
      BY <1>3, PlaceLemma
    <3>2. nr_frame \in Int /\ KMEM \in Int
      BY Geometry DEF KInv, IInv, Types
    <3>3. Page(Place(acc[1] + i)) < nr_frame /\ Page(Place(acc[1] + i)) \in Int
      BY <3>1, <3>2
    <3> QED
      BY <1>4, <3>2, <3>3
  <2>2. hw_mem'[pa] = hw_mem[pa]
    BY <2>1, WritePlaces
  <2> QED
    BY <1>4, <2>2 DEF ContentInv
<1> QED
  BY <1>1, <1>4 DEF ContentInv, Page

LEMMA AllocContent ==
  ASSUME KInv, ContentInv, NEW va \in Int, NEW len \in Int,
         \A p \in PagesOf(va, len) : p \in UserRange,
         Enough(va, len), mm_malloc(va, len), hw_mem' = hw_mem,
         stage' \notin {"user", "panic"} => stage \notin {"user", "panic"},
         \A a \in UserAddr : stage' \notin {"user", "panic"} => Copied(a)' = Copied(a)
  PROVE  ContentInv'
<1>1. /\ \A p \in Pages : Mapped(p)' =>
           \/ Mapped(p) /\ Walk("updir", p)' = Walk("updir", p)
           \/ /\ ~Mapped(p) /\ Walk("updir", p)' \in Frames
              /\ nr_frame <= Walk("updir", p)'
      /\ nr_frame' \in Nat /\ nr_frame <= nr_frame'
  BY AllocWalk
<1>2. \A a \in UserAddr : Mapped(Page(a))' =>
        \/ Mapped(Page(a)) /\ Walk("updir", Page(a))' = Walk("updir", Page(a))
        \/ /\ ~Mapped(Page(a)) /\ Walk("updir", Page(a))' \in Frames
           /\ nr_frame <= Walk("updir", Page(a))'
  BY <1>1, UserAddrPages DEF Page
<1> QED
  BY <1>1, <1>2, ContentKept

(* A step that changes neither the memory nor where it is.                 *)
LEMMA SameContent ==
  ASSUME KInv, ContentInv, UNCHANGED <<hw_mem, nr_frame, seg>>,
         stage # "load", stage' # "load",
         stage' \notin {"user", "panic"} => stage \notin {"user", "panic"},
         \A p \in UserRange : Mapped(p)' => Walk("updir", p)' = Walk("updir", p)
  PROVE  ContentInv'
<1>1. \A a \in UserAddr : Mapped(Page(a))' =>
        Mapped(Page(a)) /\ Walk("updir", Page(a))' = Walk("updir", Page(a))
  BY UserAddrPages DEF Mapped, Page
<1>2. \A a \in UserAddr : Copied(a)' = Copied(a)
  BY SameCopied
<1>3. nr_frame' \in Nat /\ nr_frame <= nr_frame'
  BY DEF KInv, IInv, Types
<1> QED
  BY <1>1, <1>2, <1>3, ContentKept

-----------------------------------------------------------------------------
LEMMA StartContent == ASSUME KInv, ContentInv, StartStep PROVE ContentInv'
<1>1. CASE InitPage \/ InitMm
  <2>1. /\ stage \in {"init_page", "init_mm"} /\ stage' \in {"init_mm", "video_write"}
        /\ UNCHANGED <<hw_mem, nr_frame, seg>>
    BY <1>1 DEF InitPage, InitMm, loader, alloc
  <2>2. LoadedInv'
    BY <1>1, InitPageKInv, InitMmKInv DEF KInv
  <2>3. NrLoaded' = 0
    BY <2>1, <2>2 DEF LoadedInv, NrLoaded, Loading
  <2>4. \A p \in UserRange : ~Mapped(p)'
    BY <2>1, <2>2, <2>3 DEF LoadedInv, Loading
  <2> QED
    BY <2>1, <2>4, SameContent
<1>2. CASE VideoWriteTest \/ VideoClear
  BY <1>2, VideoContent
<1>3. CASE MallocSegment
  <2> DEFINE va == Segments[seg].vaddr
             len == Segments[seg].memsz
  <2>1. /\ Enough(va, len) /\ mm_malloc(va, len)
        /\ stage = "malloc" /\ stage' = "load" /\ UNCHANGED <<hw_mem, seg, at>>
    BY <1>3 DEF MallocSegment
  <2>2. seg \in DOMAIN Segments /\ at = 0
    BY <2>1 DEF KInv, IInv, LoadPoint, LoadedInv
  <2>3. va \in Int /\ len \in Int /\ \A p \in PagesOf(va, len) : p \in UserRange
    <3>1. /\ va \in Nat /\ len \in Nat
          /\ PagesOf(va, len) = Page(va) .. Page(End(seg))
          /\ \A p \in Page(va) .. Page(End(seg)) : p \in UserRange
      BY <2>2, Ranges
    <3> HIDE DEF va, len
    <3> QED
      BY <3>1
  <2>4. \A a \in UserAddr : Copied(a)' = Copied(a)
    BY <2>1, <2>2, SameCopied, SegmentLemma
  <2> HIDE DEF va, len
  <2> QED
    BY <2>1, <2>3, <2>4, AllocContent
<1>4. CASE LoadByte
  BY <1>4, LoadContent
<1>5. CASE MallocStack
  <2> DEFINE va == (KOFFSET - StackPages) * PageLen
             len == StackPages * PageLen
  <2>1. /\ Enough(va, len) /\ mm_malloc(va, len)
        /\ stage = "stack" /\ stage' = "video_map" /\ UNCHANGED <<hw_mem, seg, at>>
    BY <1>5 DEF MallocStack, loader
  <2>2. va \in Int /\ len \in Int /\ \A p \in PagesOf(va, len) : p \in UserRange
    <3>1. KOFFSET \in Int /\ StackPages \in Int /\ PageLen \in Int
      BY Geometry, Sizes
    <3>2. va \in Int /\ len \in Int
      BY <3>1
    <3>3. PagesOf(va, len) = KOFFSET - StackPages .. KOFFSET - 1
      BY HeapAndStack
    <3>4. \A p \in PagesOf(va, len) : p \in UserRange
      BY <3>3, HeapAndStack
    <3> QED
      BY <3>2, <3>3, <3>4
  <2>3. \A a \in UserAddr : Copied(a)' = Copied(a)
    BY <2>1, SameCopied
  <2> HIDE DEF va, len
  <2> QED
    BY <2>1, <2>2, <2>3, AllocContent
<1>6. CASE CreateVideoMapping
  <2>1. /\ stage = "video_map" /\ stage' = "write_cr3"
        /\ UNCHANGED <<hw_mem, nr_frame, seg>>
    BY <1>6 DEF CreateVideoMapping, loader, alloc
  <2> QED
    BY <1>6, <2>1, VideoMapWalk, SameContent
<1>7. CASE WriteCr3 \/ VideoReadTest
  <2>1. /\ stage \in {"write_cr3", "video_read"} /\ stage' \in {"video_read", "video_clear"}
        /\ UNCHANGED <<pdir, ptable, hw_mem, nr_frame, seg>>
    BY <1>7 DEF WriteCr3, VideoReadTest, VideoNext, mmu, loader, alloc
  <2>2. \A p \in UserRange : Walk("updir", p)' = Walk("updir", p)
    BY <2>1 DEF Walk
  <2> QED
    BY <2>1, <2>2, SameContent
<1> QED
  BY <1>1, <1>2, <1>3, <1>4, <1>5, <1>6, <1>7 DEF StartStep

(* A step that changes neither the tables, the memory nor the loader.      *)
LEMMA StillContent ==
  ASSUME KInv, ContentInv,
         UNCHANGED <<pdir, ptable, hw_mem, nr_frame, seg, at>>,
         stage' = stage \/ stage' \in {"user", "panic"}
  PROVE  ContentInv'
<1>1. \A dir, p : Walk(dir, p)' = Walk(dir, p)
  BY DEF Walk
<1>2. \A a \in UserAddr : Place(a)' = Place(a) /\ Mapped(Page(a))' = Mapped(Page(a))
  BY <1>1 DEF Place, Mapped, Page
<1>3. stage' \notin {"user", "panic"} => \A a \in UserAddr : Copied(a)' = Copied(a)
  BY DEF Copied
<1>4. stage' \notin {"user", "panic"} =>
        \A a \in UserAddr : Mapped(Page(a))' =>
          hw_mem'[Place(a)'] = IF Copied(a)' THEN Initial[a] ELSE 0
  BY <1>2, <1>3 DEF ContentInv
<1>5. \A pa \in 0 .. PhyFrames * PageLen - 1 : nr_frame' <= Page(pa) => hw_mem'[pa] = 0
  BY DEF ContentInv
<1> QED
  BY <1>4, <1>5 DEF ContentInv, Page

LEMMA NextContent == KInv /\ ContentInv /\ [Next]_vars => ContentInv'
<1> SUFFICES ASSUME KInv, ContentInv, [Next]_vars PROVE ContentInv'
  OBVIOUS
<1>1. CASE StartStep
  BY <1>1, StartContent
<1>2. CASE UserStep
  <2>1. CASE \E acc \in Accesses(UserNow) : UserRead(acc[1], acc[2])
    <3>1. UNCHANGED <<pdir, ptable, hw_mem, nr_frame, seg, at>> /\ stage' = stage
      BY <2>1 DEF UserRead, mmu, alloc, loader
    <3> QED
      BY <3>1, StillContent
  <2>2. CASE \E acc \in Accesses(UserNow \cap Written) :
               \E data \in [0 .. acc[2] - 1 -> Byte] : UserWrite(acc[1], acc[2], data)
    <3>1. Accesses(UserNow \cap Written) \subseteq Accesses(UserNow)
      BY Zenon DEF Accesses
    <3> QED
      BY <2>2, <3>1, WriteContent
  <2>3. CASE \E new_brk \in Last + 1 .. MaxBrk : MmBrk(new_brk)
    <3>1. PICK new_brk \in Last + 1 .. MaxBrk : MmBrk(new_brk)
      BY <2>3
    <3>2. stage' = "user" /\ UNCHANGED <<hw_mem, seg, at>>
      BY <3>1 DEF MmBrk, loader
    <3>3. CASE new_brk > brk
      BY <3>1, <3>2, <3>3, BrkAlloc, AllocContent
    <3>4. CASE ~(new_brk > brk)
      <4>1. UNCHANGED <<pdir, ptable, nr_frame>>
        BY <3>1, <3>4 DEF MmBrk, mmu, alloc
      <4> QED
        BY <3>2, <4>1, StillContent
    <3> QED
      BY <3>3, <3>4
  <2>4. CASE \E new_brk \in Last + 1 .. MaxBrk : MmBrkPanic(new_brk)
    <3>1. UNCHANGED <<pdir, ptable, hw_mem, nr_frame, seg, at>> /\ stage' = "panic"
      BY <2>4 DEF MmBrkPanic, OutOfFrames, mmu, alloc, loader
    <3> QED
      BY <3>1, StillContent
  <2> QED
    BY <1>2, <2>1, <2>2, <2>3, <2>4 DEF UserStep
<1>3. CASE KernelRuns \/ UNCHANGED vars
  <2>1. UNCHANGED <<pdir, ptable, hw_mem, nr_frame, seg, at>> /\ stage' = stage
    BY <1>3 DEF KernelRuns, vars, mmu, alloc, loader
  <2> QED
    BY <2>1, StillContent
<1> QED
  BY <1>1, <1>2, <1>3 DEF Next

-----------------------------------------------------------------------------
(* The refinement.  What the program finds at an address:                  *)
Cell(a) == IF Mapped(Page(a)) THEN hw_mem[Place(a)] ELSE 0

Runs == stage \in {"user", "panic"}

LEMMA CellLemma ==
  /\ ProgramMemory = IF Runs THEN [a \in UserAddr |-> Cell(a)] ELSE Initial
  /\ ProgramMemory' = IF Runs' THEN [a \in UserAddr |-> Cell(a)'] ELSE Initial
BY DEF ProgramMemory, Cell, Runs, Mapped, Place

(* A step that no address of the program notices.                          *)
LEMMA SameCells ==
  ASSUME Runs, Runs', \A a \in UserAddr : Cell(a)' = Cell(a)
  PROVE  ProgramMemory' = ProgramMemory
<1>1. ProgramMemory = [a \in UserAddr |-> Cell(a)]
  BY CellLemma
<1>2. ProgramMemory' = [a \in UserAddr |-> Cell(a)']
  BY CellLemma
<1> QED
  BY <1>1, <1>2

(* The program starts: its memory is its image.                            *)
LEMMA LastClear ==
  ASSUME KInv, ContentInv, VideoClear, stage' = "user"
  PROVE  ProgramMemory' = ProgramMemory
<1>1. /\ UNCHANGED <<pdir, ptable>> /\ stage = "video_clear"
      /\ laddr_write(VideoStart + at, 1, [i \in {0} |-> 0])
  BY DEF VideoClear, mmu
<1>2. /\ paging /\ VideoStart + at \in Nat
      /\ Page(VideoStart + at) = VideoPage /\ VideoPage \in Pages
      /\ Walk(cr3, VideoPage) = VideoPage /\ VideoPage # None
      /\ Walk(cr3, VideoPage) * PageLen + ((VideoStart + at) % PageLen) = VideoStart + at
  BY <1>1, VideoPlace
<1>3. hw_mem' = [hw_mem EXCEPT ![VideoStart + at] = 0]
  BY <1>1, <1>2, ByteWritten
<1>4. \A a \in UserAddr : Mapped(Page(a)) => Place(a) # VideoStart + at
  BY <1>1, VideoApart
<1>5. \A dir, p : Walk(dir, p)' = Walk(dir, p)
  BY <1>1 DEF Walk
<1>6. \A a \in UserAddr : Place(a)' = Place(a) /\ Mapped(Page(a))' = Mapped(Page(a))
  BY <1>5 DEF Place, Mapped, Page
<1>7. seg = Len(Segments) + 1 /\ DOMAIN Segments = 1 .. Len(Segments) /\ Len(Segments) \in Nat
  BY <1>1, SegmentLemma DEF KInv, LoadedInv, Loading
<1>8. \A a \in ImageAddr : Copied(a)
  BY <1>7 DEF ImageAddr, Copied
<1>9. ASSUME NEW a \in UserAddr PROVE Cell(a)' = Initial[a]
  <2>1. CASE Mapped(Page(a))
    <3>1. Place(a) \in 0 .. PhyFrames * PageLen - 1
      BY <2>1, PlaceLemma
    <3>2. hw_mem'[Place(a)] = hw_mem[Place(a)]
      <4> DEFINE pa == VideoStart + at
      <4>1. hw_mem' = [hw_mem EXCEPT ![pa] = 0] /\ Place(a) # pa
        BY <1>3, <1>4, <2>1
      <4> HIDE DEF pa
      <4> QED
        BY <3>1, <4>1 DEF KInv, Bounded
    <3>3. hw_mem[Place(a)] = IF Copied(a) THEN Initial[a] ELSE 0
      BY <1>1, <2>1 DEF ContentInv
    <3>4. hw_mem[Place(a)] = Initial[a]
      BY <1>8, <3>3, InitialZero
    <3> QED
      BY <1>6, <2>1, <3>2, <3>4 DEF Cell
  <2>2. CASE ~Mapped(Page(a))
    <3>1. a \notin ImageAddr
      BY <1>8, <2>2, CopiedMapped
    <3> QED
      BY <1>6, <2>2, <3>1, InitialZero DEF Cell
  <2> QED
    BY <2>1, <2>2
<1>10. ProgramMemory' = [a \in UserAddr |-> Cell(a)'] /\ ProgramMemory = Initial
  BY <1>1, CellLemma DEF Runs
<1>11. Initial = [a \in UserAddr |-> Initial[a]]
  BY DEF Initial
<1> QED
  BY <1>9, <1>10, <1>11

LEMMA FlatRead ==
  ASSUME KInv, NEW acc \in Accesses(UserNow), UserRead(acc[1], acc[2])
  PROVE  acc \in Accesses(UserAddr) /\ Flat!Read(acc[1], acc[2])
<1> DEFINE a == acc[1]
           len == acc[2]
<1>1. /\ stage = "user" /\ stage' = "user"
      /\ UNCHANGED <<pdir, ptable, hw_mem>>
  BY DEF UserRead, mmu
<1>2. PICK t \in TlbsAfter(a) : Translate(a, len, t) /\ reply' = BytesRead(t, a, len)
  BY DEF UserRead
<1>3. /\ acc \in Accesses(UserAddr)
      /\ \A i \in 0 .. len - 1 : /\ a + i \in UserAddr /\ Mapped(Page(a + i))
                                 /\ BytePaddr(t, a, len, i) = Place(a + i)
  BY <1>1, <1>2, AccessPlaces
<1> HIDE DEF a, len
<1>4. ProgramMemory = [b \in UserAddr |-> Cell(b)]
  BY <1>1, CellLemma DEF Runs
<1>5. \A i \in 0 .. len - 1 : ProgramMemory[a + i] = hw_mem[BytePaddr(t, a, len, i)]
  BY <1>3, <1>4 DEF Cell
<1>6. reply' = Flat!BytesAt(ProgramMemory, a, len)
  BY <1>2, <1>5 DEF BytesRead, Flat!BytesAt
<1>7. ProgramMemory' = ProgramMemory
  <2>1. \A dir, p : Walk(dir, p)' = Walk(dir, p)
    BY <1>1 DEF Walk
  <2>2. \A b \in UserAddr : Cell(b)' = Cell(b)
    BY <1>1, <2>1 DEF Cell, Mapped, Place, Page
  <2> QED
    BY <1>1, <2>2, SameCells DEF Runs
<1> QED
  BY <1>3, <1>6, <1>7 DEF a, len, Flat!Read

LEMMA FlatWrite ==
  ASSUME KInv, NEW acc \in Accesses(UserNow), NEW data \in [0 .. acc[2] - 1 -> Byte],
         UserWrite(acc[1], acc[2], data)
  PROVE  acc \in Accesses(UserAddr) /\ Flat!Write(acc[1], acc[2], data)
<1> DEFINE a == acc[1]
           len == acc[2]
<1>1. /\ stage = "user" /\ stage' = "user" /\ reply' = reply
      /\ UNCHANGED <<pdir, ptable>>
  BY DEF UserWrite, mmu
<1>2. PICK t \in TlbsAfter(a) : Translate(a, len, t)
  BY DEF UserWrite, laddr_write
<1>3. /\ acc \in Accesses(UserAddr) /\ a \in Nat /\ len \in Nat
      /\ \A i \in 0 .. len - 1 : a + i \in UserAddr /\ Mapped(Page(a + i))
  BY <1>1, <1>2, AccessPlaces
<1>4. \A b \in UserAddr : Mapped(Page(b)) =>
        hw_mem'[Place(b)] = IF b \in a .. a + len - 1 THEN data[b - a] ELSE hw_mem[Place(b)]
  BY WritePlaces
<1> HIDE DEF a, len
<1>5. \A dir, p : Walk(dir, p)' = Walk(dir, p)
  BY <1>1 DEF Walk
<1>6. \A b \in UserAddr : Place(b)' = Place(b) /\ Mapped(Page(b))' = Mapped(Page(b))
  BY <1>5 DEF Place, Mapped, Page
<1>7. ASSUME NEW b \in UserAddr
      PROVE  Cell(b)' = IF b \in a .. a + len - 1 THEN data[b - a] ELSE Cell(b)
  <2>1. CASE Mapped(Page(b))
    BY <1>4, <1>6, <2>1 DEF Cell
  <2>2. CASE ~Mapped(Page(b))
    <3>1. b \notin a .. a + len - 1
      <4> SUFFICES ASSUME b \in a .. a + len - 1 PROVE FALSE
        OBVIOUS
      <4>1. b - a \in 0 .. len - 1 /\ a + (b - a) = b
        BY <1>3
      <4>2. Mapped(Page(a + (b - a)))
        BY <1>3, <4>1
      <4> QED
        BY <2>2, <4>1, <4>2
    <3> QED
      BY <1>6, <2>2, <3>1 DEF Cell
  <2> QED
    BY <2>1, <2>2
<1>8. /\ ProgramMemory = [b \in UserAddr |-> Cell(b)]
      /\ ProgramMemory' = [b \in UserAddr |-> Cell(b)']
  BY <1>1, CellLemma DEF Runs
<1>9. DOMAIN ProgramMemory = UserAddr /\ \A b \in UserAddr : ProgramMemory[b] = Cell(b)
  BY <1>8
<1>10. ProgramMemory' = Flat!Stored(ProgramMemory, a, len, data)
  BY <1>7, <1>8, <1>9 DEF Flat!Stored
<1> QED
  BY <1>1, <1>3, <1>10 DEF a, len, Flat!Write

(* What brk maps was zero before.                                          *)
LEMMA FlatBrk ==
  ASSUME KInv, ContentInv, NEW new_brk \in Last + 1 .. MaxBrk, MmBrk(new_brk)
  PROVE  UNCHANGED <<ProgramMemory, reply>>
<1>1. stage = "user" /\ stage' = "user" /\ hw_mem' = hw_mem /\ reply' = reply
  BY DEF MmBrk
<1>2. CASE new_brk > brk
  <2>1. \A p \in Pages : Mapped(p)' =>
          \/ Mapped(p) /\ Walk("updir", p)' = Walk("updir", p)
          \/ /\ ~Mapped(p) /\ Walk("updir", p)' \in Frames
             /\ nr_frame <= Walk("updir", p)'
    BY <1>2, BrkAlloc, AllocWalk
  <2>2. \A p \in Pages : Mapped(p) => Mapped(p)'
    BY <1>2, BrkAlloc, AllocWalk
  <2>3. ASSUME NEW a \in UserAddr PROVE Cell(a)' = Cell(a)
    <3>1. Page(a) \in Pages /\ a % PageLen \in 0 .. PageLen - 1
      BY UserAddrPages, PageLemma
    <3> DEFINE p == Page(a)
               f == Walk("updir", p)'
               r == a % PageLen
    <3>2. Mapped(Page(a))' = Mapped(p)' /\ Place(a)' = f * PageLen + r
      BY DEF Mapped, Place, Page
    <3>3. Place(a) = Walk("updir", p) * PageLen + r
      BY DEF Place
    <3>4. /\ Mapped(p)' => \/ Mapped(p) /\ f = Walk("updir", p)
                           \/ ~Mapped(p) /\ f \in Frames /\ nr_frame <= f
          /\ Mapped(p) => Mapped(p)'
      BY <2>1, <2>2, <3>1
    <3>5. CASE Mapped(p)
      <4>1. Mapped(p)' /\ f = Walk("updir", p)
        BY <3>4, <3>5
      <4>2. Place(a)' = Place(a)
        BY <3>2, <3>3, <4>1
      <4> QED
        BY <1>1, <3>2, <3>5, <4>1, <4>2 DEF Cell
    <3>6. CASE ~Mapped(p) /\ Mapped(p)'
      <4>1. f \in Frames /\ nr_frame <= f
        BY <3>4, <3>6
      <4> HIDE DEF f, r
      <4>2. f * PageLen + r \in 0 .. PhyFrames * PageLen - 1 /\ Page(f * PageLen + r) = f
        BY <3>1, <4>1, PlaceParts DEF r
      <4>3. hw_mem[f * PageLen + r] = 0
        BY <4>1, <4>2 DEF ContentInv
      <4> QED
        BY <1>1, <3>2, <3>6, <4>3 DEF Cell
    <3>7. CASE ~Mapped(p) /\ ~Mapped(p)'
      BY <3>2, <3>7 DEF Cell
    <3> QED
      BY <3>5, <3>6, <3>7
  <2> QED
    BY <1>1, <2>3, SameCells DEF Runs
<1>3. CASE ~(new_brk > brk)
  <2>1. UNCHANGED <<pdir, ptable>>
    BY <1>3 DEF MmBrk, mmu
  <2>2. \A b \in UserAddr : Cell(b)' = Cell(b)
    BY <1>1, <2>1 DEF Cell, Mapped, Place, Page, Walk
  <2> QED
    BY <1>1, <2>2, SameCells DEF Runs
<1> QED
  BY <1>2, <1>3

LEMMA FlatStart ==
  ASSUME KInv, ContentInv, StartStep
  PROVE  UNCHANGED <<ProgramMemory, reply>>
<1>1. ~Runs /\ reply' = reply
  BY DEF StartStep, InitPage, InitMm, VideoWriteTest, MallocSegment, LoadByte, MallocStack,
         CreateVideoMapping, WriteCr3, VideoReadTest, VideoClear, Runs
<1>2. CASE VideoClear /\ stage' = "user"
  BY <1>1, <1>2, LastClear
<1>3. CASE ~(VideoClear /\ stage' = "user")
  <2>1. ~Runs'
    <3>1. CASE VideoClear
      BY <1>3, <3>1 DEF VideoClear, VideoNext, Runs
    <3>2. CASE InitPage \/ InitMm \/ VideoWriteTest \/ VideoReadTest
      BY <3>2 DEF InitPage, InitMm, VideoWriteTest, VideoReadTest, VideoNext, Runs
    <3>3. CASE MallocSegment \/ LoadByte \/ MallocStack \/ CreateVideoMapping \/ WriteCr3
      BY <3>3 DEF MallocSegment, LoadByte, MallocStack, CreateVideoMapping, WriteCr3, Runs
    <3> QED
      BY <3>1, <3>2, <3>3 DEF StartStep
  <2> QED
    BY <1>1, <2>1, CellLemma
<1> QED
  BY <1>2, <1>3

LEMMA FlatStep == KInv /\ ContentInv /\ [Next]_vars => [Flat!Next]_<<ProgramMemory, reply>>
<1> SUFFICES ASSUME KInv, ContentInv, [Next]_vars
             PROVE  Flat!Next \/ UNCHANGED <<ProgramMemory, reply>>
  OBVIOUS
<1>1. CASE StartStep
  BY <1>1, FlatStart
<1>2. CASE UserStep
  <2>1. CASE \E acc \in Accesses(UserNow) : UserRead(acc[1], acc[2])
    BY <2>1, FlatRead DEF Flat!Next
  <2>2. CASE \E acc \in Accesses(UserNow \cap Written) :
               \E data \in [0 .. acc[2] - 1 -> Byte] : UserWrite(acc[1], acc[2], data)
    <3>1. Accesses(UserNow \cap Written) \subseteq Accesses(UserNow)
      BY Zenon DEF Accesses
    <3>2. PICK acc \in Accesses(UserNow) :
            \E data \in [0 .. acc[2] - 1 -> Byte] : UserWrite(acc[1], acc[2], data)
      BY <2>2, <3>1
    <3>3. acc \in Accesses(UserAddr) /\ \E data \in [0 .. acc[2] - 1 -> Byte] :
            Flat!Write(acc[1], acc[2], data)
      BY <3>2, FlatWrite
    <3> QED
      BY <3>3 DEF Flat!Next
  <2>3. CASE \E new_brk \in Last + 1 .. MaxBrk : MmBrk(new_brk)
    BY <2>3, FlatBrk
  <2>4. CASE \E new_brk \in Last + 1 .. MaxBrk : MmBrkPanic(new_brk)
    <3>1. /\ stage = "user" /\ stage' = "panic" /\ reply' = reply
          /\ UNCHANGED <<pdir, ptable, hw_mem>>
      BY <2>4 DEF MmBrkPanic, OutOfFrames, mmu
    <3>2. \A b \in UserAddr : Cell(b)' = Cell(b)
      BY <3>1 DEF Cell, Mapped, Place, Page, Walk
    <3> QED
      BY <3>1, <3>2, SameCells DEF Runs
  <2> QED
    BY <1>2, <2>1, <2>2, <2>3, <2>4 DEF UserStep
<1>3. CASE KernelRuns \/ UNCHANGED vars
  <2>1. stage' = stage /\ reply' = reply /\ UNCHANGED <<pdir, ptable, hw_mem>>
    BY <1>3 DEF KernelRuns, vars, mmu
  <2>2. Runs' = Runs
    BY <2>1 DEF Runs
  <2>3. \A b \in UserAddr : Cell(b)' = Cell(b)
    BY <2>1 DEF Cell, Mapped, Place, Page, Walk
  <2> QED
    BY <2>1, <2>2, <2>3, CellLemma
<1> QED
  BY <1>1, <1>2, <1>3 DEF Next

(* What the program reads is what its file, or the program itself, put     *)
(* there: every start of the system is one of a flat memory that holds the *)
(* image, and every step a read of it, a write to it, or one that it does  *)
(* not notice, in spite of the loader's writes to physical memory, the     *)
(* pages and frames, the accesses that cross a page, the load of CR3, brk  *)
(* and the TLB.                                                            *)
THEOREM ProgramRefinesFlat == Spec => ImplementsFlatMemory
<1>1. Init => Flat!Init
  <2> SUFFICES ASSUME Init PROVE ProgramMemory = Initial /\ reply = <<>>
    BY DEF Flat!Init
  <2>1. ~Runs /\ reply = <<>>
    BY DEF Init, Runs
  <2> QED
    BY <2>1, CellLemma
<1>2. Init => KInv /\ ContentInv
  BY InitKInv, InitContent
<1>3. KInv /\ ContentInv /\ [Next]_vars => KInv' /\ ContentInv'
  BY NextKInv, NextContent
<1>4. KInv /\ ContentInv /\ [Next]_vars => [Flat!Next]_<<ProgramMemory, reply>>
  BY FlatStep
<1> QED
  BY <1>1, <1>2, <1>3, <1>4, PTL DEF Spec, ImplementsFlatMemory, Flat!Spec
=============================================================================
