---------------------------- MODULE KernelMemory ----------------------------
(***************************************************************************)
(* The kernel's memory management (kernel/src/memory, elf/elf.c, main.c)   *)
(* on NEMU's address translation: the kernel's page tables, loading the    *)
(* program, the switch to the program's directory and brk.                 *)
(*                                                                         *)
(* Addresses are bytes, pages and frames are numbers.  mm_malloc is linked *)
(* from an object file; its code is in the listing kernel/objd.            *)
(***************************************************************************)
EXTENDS Mmu, FiniteSets, Sequences

CONSTANTS
  PhyFrames,   \* PHY_MEM in pages
  KMEM,        \* the first frame for programs
  KOFFSET,     \* the page from which the kernel is mapped
  VideoPage,   \* VMEM_ADDR
  StackPages,  \* STACK_SIZE
  Segments,    \* of the ELF file: [vaddr, memsz, file]
  MaxBrk,      \* bounds the program's break
  Byte, Lens,
  Written,     \* the addresses the program writes, a bound
  KernelPages, \* the pages the kernel's own code and data are in
  Builds       \* with or without the TLB

VARIABLES
  stage,       \* where init_cond, the loader or the program is
  seg, at,     \* the segment being loaded, the byte being copied
  p_paddr,     \* where the segment is loaded to
  nr_pt, nr_frame,  \* mm_malloc's counters of tables and frames
  brk,
  reply        \* the program's last read

mmu    == <<TLB_ENABLED, paging, cr3, pdir, ptable>>
alloc  == <<nr_pt, nr_frame>>
loader == <<seg, p_paddr>>
vars   == <<mmu, tlb, hw_mem, stage, at, loader, alloc, brk, reply>>

KPDE      == KOFFSET \div NrPTE
NrKTables == PhyFrames \div NrPTE

KTable(i) == <<"kptable", i>>
VTable    == <<"vptable", 0>>
UTable(i) == <<"uptable", i>>

KernelTables == {KTable(i) : i \in 0 .. NrKTables - 1} \cup {VTable}
                  \cup {UTable(i) : i \in PDEs}
KernelDirs   == {"kpdir", "updir"}

VideoStart == VideoPage * PageLen

Last == Segments[Len(Segments)].vaddr + Segments[Len(Segments)].memsz - 1

ImageByte(s, i) == IF i < Len(s.file) THEN s.file[i + 1] ELSE 0

SegmentAddr(s) == s.vaddr .. s.vaddr + s.memsz - 1
ImageAddr == UNION {SegmentAddr(Segments[k]) : k \in DOMAIN Segments}
StackAddr == (KOFFSET - StackPages) * PageLen .. KOFFSET * PageLen - 1

(* The addresses the program may ever use, and those it may use now.       *)
UserAddr == ImageAddr \cup StackAddr \cup Last + 1 .. MaxBrk - 1
UserNow  == ImageAddr \cup StackAddr \cup Last + 1 .. brk - 1

ASSUME KernelMemoryTypes ==
  /\ PhyFrames \in Nat /\ KMEM \in Nat /\ KOFFSET \in Nat /\ VideoPage \in Nat
  /\ StackPages \in Nat /\ MaxBrk \in Nat
  /\ Segments \in Seq([vaddr : Nat, memsz : Nat, file : Seq(Byte)]) /\ Segments # <<>>

ASSUME KernelMemoryAssumption ==
  /\ Directories = KernelDirs /\ Tables = KernelTables
  /\ PhyFrames % NrPTE = 0 /\ KOFFSET % NrPTE = 0
  /\ NrPDE >= KPDE + NrKTables
  /\ VideoPage < NrPTE /\ VideoPage < KMEM /\ KMEM <= PhyFrames
  \* the program is linked above physical memory, the segments ascend
  /\ PhyFrames <= Page(Segments[1].vaddr)
  /\ \A k \in DOMAIN Segments : Len(Segments[k].file) <= Segments[k].memsz
                                  /\ Segments[k].memsz > 0
  /\ \A j, k \in DOMAIN Segments :
       j < k => Segments[j].vaddr + Segments[j].memsz <= Segments[k].vaddr
  /\ Last < MaxBrk /\ MaxBrk <= (KOFFSET - StackPages) * PageLen
  \* laddr_read and laddr_write are called for 1, 2 or 4 bytes
  /\ Lens \subseteq 1 .. PageLen
  /\ {0, 1} \subseteq Byte
  /\ KernelPages \subseteq 0 .. PhyFrames - 1
  /\ Builds \subseteq BOOLEAN

Init ==
  /\ TLB_ENABLED \in Builds
  /\ paging = FALSE /\ cr3 = None
  /\ pdir = [d \in KernelDirs |-> [i \in PDEs |-> None]]
  /\ ptable = [t \in Tables |-> [j \in PTEs |-> None]]
  /\ tlb = [i \in Entries |-> [key |-> None, pte |-> None]]
  /\ hw_mem = [pa \in 0 .. PhyFrames * PageLen - 1 |-> 0]
  /\ stage = "init_page"
  /\ seg = 1 /\ at = 0 /\ p_paddr = 0
  /\ nr_pt = 0 /\ nr_frame = KMEM
  /\ brk = 0
  /\ reply = <<>>

-----------------------------------------------------------------------------
(* mm_malloc(va, len): each page that is not present gets the next frame,  *)
(* each directory entry that is not present the next table.                *)
PagesOf(va, len) == IF len <= 0 THEN {} ELSE Page(va) .. Page(va + len - 1)

Missing(va, len) == {p \in PagesOf(va, len) : Walk("updir", p) = None}

NewTables(va, len) ==
  {i \in PDEs : pdir["updir"][i] = None
                  /\ \E p \in PagesOf(va, len) : i = p \div NrPTE}

Rank(S, x) == Cardinality({y \in S : y < x})

UserTable(va, len, i) ==
  IF i \in NewTables(va, len) THEN UTable(nr_pt + Rank(NewTables(va, len), i))
  ELSE pdir["updir"][i]

(* Mutant of FrameFor: the counter is looked at and not advanced.          *)
FrameFor_SameFrame(va, len, p) == nr_frame

FrameFor(va, len, p) == nr_frame + Rank(Missing(va, len), p)

Enough(va, len) == nr_frame + Cardinality(Missing(va, len)) <= PhyFrames

mm_malloc(va, len) ==
  /\ pdir' = [pdir EXCEPT !["updir"] = [i \in PDEs |-> UserTable(va, len, i)]]
  /\ ptable' = [t \in Tables |-> [j \in PTEs |->
       IF \E p \in Missing(va, len) :
            t = UserTable(va, len, p \div NrPTE) /\ j = p % NrPTE
       THEN FrameFor(va, len, CHOOSE p \in Missing(va, len) :
              t = UserTable(va, len, p \div NrPTE) /\ j = p % NrPTE)
       ELSE ptable[t][j]]]
  /\ nr_pt' = nr_pt + Cardinality(NewTables(va, len))
  /\ nr_frame' = nr_frame + Cardinality(Missing(va, len))
  /\ UNCHANGED <<TLB_ENABLED, paging, cr3>>

(* The address that mm_malloc returns.                                     *)
PaddrOf(va, len) ==
  (IF Page(va) \in Missing(va, len) THEN FrameFor(va, len, Page(va))
   ELSE Walk("updir", Page(va))) * PageLen + (va % PageLen)

(* mm_malloc's assertion fails.                                            *)
OutOfFrames(va, len) ==
  /\ ~Enough(va, len)
  /\ stage' = "panic"
  /\ UNCHANGED <<mmu, tlb, hw_mem, at, loader, alloc, brk, reply>>

-----------------------------------------------------------------------------
(* The kernel starts.  No memory is accessed through a table before        *)
(* init_page has set paging.                                               *)
InitPage ==
  /\ stage = "init_page"
  /\ pdir' = [pdir EXCEPT !["kpdir"] = [i \in PDEs |->
       CASE i < NrKTables                     -> KTable(i)
         [] i - KPDE \in 0 .. NrKTables - 1   -> KTable(i - KPDE)
         [] OTHER                             -> None]]
  /\ ptable' = [t \in Tables |-> [j \in PTEs |->
       IF t[1] = "kptable" THEN t[2] * NrPTE + j ELSE ptable[t][j]]]
  /\ cr3' = "kpdir" /\ paging' = TRUE
  /\ stage' = "init_mm"
  /\ UNCHANGED <<TLB_ENABLED, tlb, hw_mem, at, loader, alloc, brk, reply>>

InitMm ==
  /\ stage = "init_mm"
  /\ pdir' = [pdir EXCEPT !["updir"] = [i \in PDEs |->
       IF i - KPDE \in 0 .. NrKTables - 1 THEN pdir["kpdir"][i] ELSE None]]
  /\ stage' = "video_write"
  /\ UNCHANGED <<TLB_ENABLED, paging, cr3, ptable, tlb, hw_mem, at, loader,
                 alloc, brk, reply>>

(* The loops over the video memory: one byte, then the next or next_stage. *)
VideoNext(next_stage) ==
  IF at + 1 < PageLen THEN at' = at + 1 /\ UNCHANGED stage
  ELSE at' = 0 /\ stage' = next_stage

TestByte(i) == i % 2

VideoWriteTest ==
  /\ stage = "video_write"
  /\ laddr_write(VideoStart + at, 1, [i \in {0} |-> TestByte(at)])
  /\ VideoNext("malloc")
  /\ UNCHANGED <<mmu, loader, alloc, brk, reply>>

VideoReadTest ==
  /\ stage = "video_read"
  /\ \E t \in TlbsAfter(VideoStart + at) :
       /\ Translate(VideoStart + at, 1, t)
       /\ BytesRead(t, VideoStart + at, 1)[0] = TestByte(at)
  /\ VideoNext("video_clear")
  /\ UNCHANGED <<mmu, hw_mem, loader, alloc, brk, reply>>

VideoClear ==
  /\ stage = "video_clear"
  /\ laddr_write(VideoStart + at, 1, [i \in {0} |-> 0])
  /\ VideoNext("user")
  /\ UNCHANGED <<mmu, loader, alloc, brk, reply>>

-----------------------------------------------------------------------------
(* loader.                                                                 *)
MallocSegment ==
  LET s == Segments[seg] IN
    /\ stage = "malloc"
    /\ Enough(s.vaddr, s.memsz)
    /\ p_paddr' = PaddrOf(s.vaddr, s.memsz)
    /\ mm_malloc(s.vaddr, s.memsz)
    /\ stage' = "load"
    /\ UNCHANGED <<tlb, hw_mem, seg, at, brk, reply>>

(* ide_read into the segment, then memset of the rest, byte by byte and    *)
(* through the kernel's directory; after the last byte the program break.  *)
LoadByte ==
  LET s == Segments[seg] IN
    /\ stage = "load"
    /\ laddr_write(p_paddr + at, 1, [i \in {0} |-> ImageByte(s, at)])
    /\ IF at + 1 < s.memsz
       THEN at' = at + 1 /\ UNCHANGED <<stage, seg, brk>>
       ELSE /\ at' = 0 /\ seg' = seg + 1
            /\ brk' = IF brk < s.vaddr + s.memsz - 1
                      THEN s.vaddr + s.memsz - 1 ELSE brk
            /\ stage' = IF seg < Len(Segments) THEN "malloc" ELSE "stack"
    /\ UNCHANGED <<mmu, p_paddr, alloc, reply>>

MallocStack ==
  LET va == (KOFFSET - StackPages) * PageLen IN
    /\ stage = "stack"
    /\ Enough(va, StackPages * PageLen)
    /\ mm_malloc(va, StackPages * PageLen)
    /\ stage' = "video_map"
    /\ UNCHANGED <<tlb, hw_mem, at, loader, brk, reply>>

(* Mutant of CreateVideoMapping: no mapping.                               *)
CreateVideoMapping_None ==
  /\ stage = "video_map"
  /\ stage' = "write_cr3"
  /\ UNCHANGED <<mmu, tlb, hw_mem, at, loader, alloc, brk, reply>>

CreateVideoMapping ==
  /\ stage = "video_map"
  /\ pdir' = [pdir EXCEPT !["updir"][0] = VTable]
  /\ ptable' = [ptable EXCEPT ![VTable][VideoPage] = VideoPage]
  /\ stage' = "write_cr3"
  /\ UNCHANGED <<TLB_ENABLED, paging, cr3, tlb, hw_mem, at, loader, alloc, brk,
                 reply>>

(* The TLB is not flushed.                                                 *)
WriteCr3 ==
  /\ stage = "write_cr3"
  /\ cr3' = "updir"
  /\ stage' = "video_read"
  /\ UNCHANGED <<TLB_ENABLED, paging, pdir, ptable, tlb, hw_mem, at, loader,
                 alloc, brk, reply>>

-----------------------------------------------------------------------------
(* The program.                                                            *)
Accesses(addrs) ==
  {acc \in addrs \X Lens : acc[1] .. acc[1] + acc[2] - 1 \subseteq addrs}

UserRead(a, len) ==
  /\ stage = "user"
  /\ \E t \in TlbsAfter(a) :
       /\ Translate(a, len, t)
       /\ reply' = BytesRead(t, a, len)
  /\ UNCHANGED <<mmu, hw_mem, stage, at, loader, alloc, brk>>

UserWrite(a, len, data) ==
  /\ stage = "user"
  /\ laddr_write(a, len, data)
  /\ UNCHANGED <<mmu, stage, at, loader, alloc, brk, reply>>

(* mm_brk, for a break from the end of the image on.                       *)
MmBrk(new_brk) ==
  /\ stage = "user"
  /\ IF new_brk > brk
     THEN Enough(brk, new_brk - brk) /\ mm_malloc(brk, new_brk - brk)
     ELSE UNCHANGED <<mmu, alloc>>
  /\ brk' = new_brk
  /\ UNCHANGED <<tlb, hw_mem, stage, at, loader, reply>>

MmBrkPanic(new_brk) ==
  stage = "user" /\ new_brk > brk /\ OutOfFrames(brk, new_brk - brk)

(* The kernel's own code and its interrupt handlers, under either          *)
(* directory: only the TLB shows that they have run.                       *)
KernelRuns ==
  /\ stage \notin {"init_page", "panic"}
  /\ \E k \in KernelPages :
       \E t \in TlbsAfter((KOFFSET + k) * PageLen) :
         Translate((KOFFSET + k) * PageLen, 1, t)
  /\ UNCHANGED <<mmu, hw_mem, stage, at, loader, alloc, brk, reply>>

StartStep ==
  \/ InitPage \/ InitMm \/ VideoWriteTest \/ MallocSegment \/ LoadByte
  \/ MallocStack \/ CreateVideoMapping \/ WriteCr3 \/ VideoReadTest \/ VideoClear

UserStep ==
  \/ \E acc \in Accesses(UserNow) : UserRead(acc[1], acc[2])
  \/ \E acc \in Accesses(UserNow \cap Written) :
       \E data \in [0 .. acc[2] - 1 -> Byte] : UserWrite(acc[1], acc[2], data)
  \/ \E new_brk \in Last + 1 .. MaxBrk : MmBrk(new_brk) \/ MmBrkPanic(new_brk)

Next == StartStep \/ UserStep \/ KernelRuns

Spec == Init /\ [][Next]_vars

-----------------------------------------------------------------------------
Stages ==
  {"init_page", "init_mm", "video_write", "malloc", "load", "stack", "video_map",
   "write_cr3", "video_read", "video_clear", "user", "panic"}

Frames == 0 .. PhyFrames - 1

TypeOK ==
  /\ TLB_ENABLED \in BOOLEAN /\ paging \in BOOLEAN
  /\ cr3 \in KernelDirs \cup {None}
  /\ pdir \in [KernelDirs -> [PDEs -> Tables \cup {None}]]
  /\ ptable \in [Tables -> [PTEs -> Frames \cup {None}]]
  /\ \A i \in Entries :
       tlb[i].key \in Nat \cup {None} /\ tlb[i].pte \in Frames \cup {None}
  /\ hw_mem \in [0 .. PhyFrames * PageLen - 1 -> Byte]
  /\ stage \in Stages
  /\ seg \in 1 .. Len(Segments) + 1 /\ at \in Nat
  /\ p_paddr \in 0 .. PhyFrames * PageLen - 1
  /\ nr_pt \in 0 .. NrPDE /\ nr_frame \in KMEM .. PhyFrames
  /\ brk \in 0 .. MaxBrk
  /\ reply = <<>> \/ \E len \in Lens : reply \in [0 .. len - 1 -> Byte]

KernelMapped == paging => \A k \in Frames : Walk(cr3, KOFFSET + k) = k

UserPages == {p \in 0 .. KOFFSET - 1 : p # VideoPage /\ Walk("updir", p) # None}

(* The frames of the program are not the kernel's, and no two of its pages *)
(* share one, after any sequence of loads and breaks.                      *)
FramesPrivate ==
  /\ \A p \in UserPages : Walk("updir", p) \in KMEM .. nr_frame - 1
  /\ \A p, q \in UserPages : Walk("updir", p) = Walk("updir", q) => p = q

(* The accesses the code may make next.                                    *)
NextAccesses ==
  CASE stage \in {"video_write", "video_read", "video_clear"} -> {<<VideoStart + at, 1>>}
    [] stage = "load" -> {<<p_paddr + at, 1>>}
    [] stage = "user" -> Accesses(UserNow)
    [] OTHER          -> {}

(* Some break leaves the program with more pages than there are frames.    *)
TooManyPages ==
  \E new_brk \in brk + 1 .. MaxBrk :
    Cardinality(UserPages \cup PagesOf(brk, new_brk - brk)) > PhyFrames - KMEM

(* The assertions on the present bits, of video_mapping_read_test and of   *)
(* mm_malloc.  The kernel and the program only touch pages that the        *)
(* directory in force maps, and loading the program leaves the video       *)
(* memory alone.  Whichever directory is loaded, the kernel is mapped      *)
(* where it was linked, so handlers and system calls can run under the     *)
(* program's directory.  mm_malloc stops the machine, but only a program   *)
(* that asks for more pages than there are frames: none is wasted.         *)
NoFault ==
  /\ TypeOK /\ KernelMapped
  /\ \A acc \in NextAccesses : Present(acc[1], acc[2])
  /\ stage = "video_read" => hw_mem[Paddr(tlb, VideoStart + at)] = TestByte(at)
  /\ stage = "panic" => TooManyPages

(* No flush at the load of CR3 and no invalidation by mm_malloc: still the *)
(* TLB never contradicts the directory in force.                           *)
TlbAgrees ==
  \A i \in Entries :
    tlb[i].key # None /\ Walk(cr3, tlb[i].key) # None =>
      tlb[i].pte = Walk(cr3, tlb[i].key)

(* The program's view: its image as in the file, and from then on a flat   *)
(* memory of its addresses, in which a new part of the heap is zero.       *)
Initial ==
  [a \in UserAddr |->
     IF a \in ImageAddr
     THEN LET k == CHOOSE k \in DOMAIN Segments : a \in SegmentAddr(Segments[k])
          IN ImageByte(Segments[k], a - Segments[k].vaddr)
     ELSE 0]

ProgramMemory ==
  IF stage \in {"user", "panic"}
  THEN [a \in UserAddr |->
          IF Walk("updir", Page(a)) = None THEN 0
          ELSE hw_mem[Walk("updir", Page(a)) * PageLen + (a % PageLen)]]
  ELSE Initial

Flat == INSTANCE FlatMemory WITH
          MemAddr <- UserAddr, flat <- ProgramMemory,
          Reads <- Accesses(UserAddr), Writes <- Accesses(UserAddr)

(* Whatever the program reads is what the file or the program put there:   *)
(* loading, page crossings, the switch of CR3, brk and the TLB are         *)
(* invisible to it.                                                        *)
ImplementsFlatMemory == Flat!Spec
=============================================================================
