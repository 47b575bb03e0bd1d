-------------------------------- MODULE Mmu --------------------------------
(***************************************************************************)
(* NEMU's address translation (nemu/src/memory/memory.c, mmu/page.c,       *)
(* mmu/tlb.c): two levels of page tables, the TLB when TLB_ENABLED is      *)
(* defined, and the accesses that cross a page.  load_sreg asserts that    *)
(* every segment starts at 0, so virtual addresses are linear addresses.   *)
(*                                                                         *)
(* The tables are functions of their own; the rest of physical memory is   *)
(* hw_mem.  An access to a page that is not present fails an assertion and *)
(* ends NEMU: the operators here are used where Present holds.             *)
(***************************************************************************)
EXTENDS Integers

CONSTANTS
  PageLen,     \* bytes of a page
  NrPTE,       \* entries of a page table
  NrPDE,       \* entries of a page directory
  Directories,
  Tables,
  TlbSize,
  None         \* an entry that is not present

ASSUME MmuAssumption ==
  /\ PageLen \in Nat \ {0} /\ NrPTE \in Nat \ {0} /\ NrPDE \in Nat \ {0}
  /\ TlbSize \in Nat \ {0}
  /\ None \notin Int /\ None \notin Tables /\ None \notin Directories

VARIABLES
  TLB_ENABLED, \* how NEMU was built
  paging,      \* CR0.PG
  cr3,
  pdir,        \* the table of each directory entry
  ptable,      \* the frame of each table entry
  tlb,
  hw_mem

PDEs    == 0 .. NrPDE - 1
PTEs    == 0 .. NrPTE - 1
Entries == 0 .. TlbSize - 1

Page(a) == a \div PageLen

(* page_translate and page_walk.                                           *)
Walk(dir, page) ==
  LET table == pdir[dir][page \div NrPTE] IN
    IF table = None THEN None ELSE ptable[table][page % NrPTE]

TlbHits(t, page) == {i \in Entries : t[i].key = page}

(* tlb_read: the first hit, otherwise the walk.                            *)
Frame(t, page) ==
  CASE ~paging -> page
    [] paging /\ TLB_ENABLED /\ TlbHits(t, page) # {} ->
         t[CHOOSE i \in TlbHits(t, page) : \A j \in TlbHits(t, page) : i <= j].pte
    [] OTHER -> Walk(cr3, page)

(* Mutant of TlbFill: the entry's key is replaced and its frame is not.    *)
TlbFill_KeyOnly(t, i, page) == [t EXCEPT ![i].key = page]

TlbFill(t, i, page) == [t EXCEPT ![i] = [key |-> page, pte |-> Walk(cr3, page)]]

(* What tlb_fetch leaves in t: a miss takes a random entry.                *)
TlbAfter(t, page) ==
  IF paging /\ TLB_ENABLED /\ TlbHits(t, page) = {}
  THEN {TlbFill(t, i, page) : i \in Entries}
  ELSE {t}

(* The bytes of an access that lie in its first page.                      *)
FirstPart(a, len) ==
  IF paging /\ Page(a) # Page(a + len - 1) THEN PageLen - (a % PageLen) ELSE len

Present(a, len) ==
  /\ Frame(tlb, Page(a)) # None
  /\ Frame(tlb, Page(a + len - 1)) # None

Paddr(t, a) == Frame(t, Page(a)) * PageLen + (a % PageLen)

(* Mutant of BytePaddr: the second part follows the first one in memory.   *)
BytePaddr_OnePage(t, a, len, i) == Paddr(t, a) + i

(* Where byte i of an access lies: the two parts are translated separately.*)
BytePaddr(t, a, len, i) ==
  LET first == FirstPart(a, len) IN
    IF i < first THEN Paddr(t, a) + i ELSE Paddr(t, a + first) + i - first

(* The translations of an access: t is the TLB after that of the first     *)
(* part.                                                                   *)
Translate(a, len, t) ==
  /\ Present(a, len)
  /\ t \in TlbAfter(tlb, Page(a))
  /\ tlb' \in IF FirstPart(a, len) = len THEN {t} ELSE TlbAfter(t, Page(a + len - 1))

(* laddr_read and laddr_write.                                             *)
BytesRead(t, a, len) == [i \in 0 .. len - 1 |-> hw_mem[BytePaddr(t, a, len, i)]]

BytesWritten(t, a, len, data) ==
  [pa \in DOMAIN hw_mem |->
     IF \E i \in 0 .. len - 1 : BytePaddr(t, a, len, i) = pa
     THEN data[CHOOSE i \in 0 .. len - 1 : BytePaddr(t, a, len, i) = pa]
     ELSE hw_mem[pa]]

(* The TLBs that one translation may leave.                                *)
TlbsAfter(a) == TlbAfter(tlb, Page(a))

laddr_write(a, len, data) ==
  \E t \in TlbsAfter(a) :
    /\ Translate(a, len, t)
    /\ hw_mem' = BytesWritten(t, a, len, data)
=============================================================================
