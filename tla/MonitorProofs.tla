--------------------------- MODULE MonitorProofs ---------------------------
(***************************************************************************)
(* Proofs about the debugger, for every size of the pool, every guest and  *)
(* every set of commands.                                                  *)
(***************************************************************************)
EXTENDS Monitor, WellFoundedInduction, TLAPS

-----------------------------------------------------------------------------
(* Facts about the sequences that stand for linked lists: an element put   *)
(* in front, one list in front of another, an element taken out.           *)
LEMMA Cons ==
  ASSUME NEW S, NEW s \in Seq(S), NEW x \in S
  PROVE  /\ <<x>> \o s \in Seq(S)
         /\ Len(<<x>> \o s) = Len(s) + 1
         /\ DOMAIN (<<x>> \o s) = 1 .. Len(s) + 1
         /\ (<<x>> \o s)[1] = x
         /\ \A i \in 1 .. Len(s) : (<<x>> \o s)[i + 1] = s[i]
  OBVIOUS

LEMMA Concat ==
  ASSUME NEW S, NEW p \in Seq(S), NEW q \in Seq(S)
  PROVE  /\ p \o q \in Seq(S)
         /\ DOMAIN (p \o q) = 1 .. Len(p) + Len(q)
         /\ \A j \in 1 .. Len(p) + Len(q) :
              (p \o q)[j] = IF j <= Len(p) THEN p[j] ELSE q[j - Len(p)]
  OBVIOUS

LEMMA Shift ==
  ASSUME NEW l \in Nat, NEW s, NEW t, \A i \in 1 .. l : t[i + 1] = s[i]
  PROVE  \A i \in 1 .. l + 1 : i # 1 => i - 1 \in 1 .. l /\ t[i] = s[i - 1]
<1>1. ASSUME NEW i \in 1 .. l + 1, i # 1
      PROVE  i - 1 \in 1 .. l /\ t[i] = s[i - 1]
  <2>1. i - 1 \in 1 .. l /\ (i - 1) + 1 = i
    BY <1>1
  <2>2. t[(i - 1) + 1] = s[i - 1]
    BY <2>1
  <2>3. QED
    BY <2>1, <2>2
<1>2. QED
  BY <1>1

LEMMA Remove ==
  ASSUME NEW S, NEW s \in Seq(S), NEW i \in 1 .. Len(s)
  PROVE  LET t == SubSeq(s, 1, i - 1) \o SubSeq(s, i + 1, Len(s)) IN
         /\ t \in Seq(S)
         /\ DOMAIN t = 1 .. Len(s) - 1
         /\ \A j \in 1 .. Len(s) - 1 : t[j] = IF j < i THEN s[j] ELSE s[j + 1]
<1> DEFINE a == SubSeq(s, 1, i - 1)
           b == SubSeq(s, i + 1, Len(s))
           l == Len(s)
           t == a \o b
<1>1. Len(s) \in Nat /\ \A j \in 1 .. Len(s) : s[j] \in S
  OBVIOUS
<1>2. a \in Seq(S) /\ Len(a) = i - 1 /\ \A j \in 1 .. i - 1 : a[j] = s[j]
  BY <1>1
<1>3. b \in Seq(S) /\ Len(b) = l - i /\ \A j \in 1 .. l - i : b[j] = s[i + j]
  BY <1>1
<1>4. l \in Nat /\ i \in 1 .. l
  BY <1>1
<1> HIDE DEF a, b, l
<1>5. a \in Seq(S) /\ b \in Seq(S)
  BY <1>2, <1>3
<1>6. /\ t \in Seq(S)
      /\ DOMAIN t = 1 .. Len(a) + Len(b)
      /\ \A j \in 1 .. Len(a) + Len(b) :
           t[j] = IF j <= Len(a) THEN a[j] ELSE b[j - Len(a)]
  BY <1>5
<1> HIDE DEF t
<1>7. Len(a) + Len(b) = l - 1
  BY <1>2, <1>3, <1>4
<1>8. \A j \in 1 .. l - 1 : t[j] = IF j <= i - 1 THEN a[j] ELSE b[j - (i - 1)]
  BY <1>2, <1>6, <1>7
<1>9. ASSUME NEW j \in 1 .. l - 1
      PROVE  t[j] = IF j < i THEN s[j] ELSE s[j + 1]
  <2>1. CASE j < i
    BY <1>2, <1>4, <1>8, <2>1
  <2>2. CASE ~(j < i)
    <3>1. t[j] = b[j - (i - 1)] /\ j - (i - 1) \in 1 .. l - i
      BY <1>4, <1>8, <2>2
    <3>2. b[j - (i - 1)] = s[i + (j - (i - 1))]
      BY <1>3, <3>1
    <3>3. i + (j - (i - 1)) = j + 1
      BY <1>4
    <3>4. QED
      BY <2>2, <3>1, <3>2, <3>3
  <2>3. QED
    BY <2>1, <2>2
<1>10. /\ t \in Seq(S)
      /\ DOMAIN t = 1 .. l - 1
      /\ \A j \in 1 .. l - 1 : t[j] = IF j < i THEN s[j] ELSE s[j + 1]
  BY <1>6, <1>7, <1>9
<1>11. QED
  BY <1>10 DEF t, a, b, l

-----------------------------------------------------------------------------
Entries == Bytes \cup Exprs

-----------------------------------------------------------------------------
(* The smallest index of a set of indices is one of them.                  *)
LEMMA FirstIn ==
  ASSUME NEW I \in SUBSET Nat, I # {}
  PROVE  First(I) \in I /\ \A j \in I : First(I) <= j
<1>1. PICK i \in I : \A j \in I : <<j, i>> \notin OpToRel(<, Nat)
  BY NatLessThanWellFounded, WFMin, Zenon
<1>2. \A i1, j1 \in Nat : <<i1, j1>> \in OpToRel(<, Nat) <=> i1 < j1
  BY SMT DEF OpToRel
<1>3. \A j \in I : ~(j < i)
  BY <1>1, <1>2, Zenon
<1>4. \A j \in I : i <= j
  BY <1>3
<1>5. QED
  BY <1>4 DEF First

(* What the pool's nodes may be.                                           *)
LEMMA NodeTypes ==
  ASSUME TypeOK, NEW i \in DOMAIN bps
  PROVE  /\ bps[i] \in Entries
         /\ bps[i].NO \in Nodes
         /\ bps[i].type = "B" => bps[i] \in Bytes
         /\ bps[i].type = "W" => bps[i] \in Exprs
<1>1. bps \in Seq(Entries)
  BY DEF TypeOK, Entries
<1>2. bps[i] \in Entries
  BY <1>1
<1>3. QED
  BY <1>2 DEF Entries, Bytes, Exprs

LEMMA InitType == Init => TypeOK
<1> SUFFICES ASSUME Init PROVE TypeOK
  OBVIOUS
<1>1. free_ \in Seq(Nodes)
  BY PoolAssumption DEF Init, Nodes
<1>2. bps \in Seq(Bytes \cup Exprs)
  BY DEF Init
<1>3. mem \in [Addr -> Opcodes] /\ eip \in Addr /\ val \in Vals
  BY GuestAssumption DEF Init
<1>4. n \in 0 .. Unlimited
  BY GuestAssumption DEF Init, Unlimited
<1>5. QED
  BY <1>1, <1>2, <1>3, <1>4 DEF Init, TypeOK

(* The commands that take a node from free_ put it in front of the list.   *)
LEMMA NewBPType ==
  ASSUME TypeOK, free_ # <<>>, NEW node, NewBP(node),
         [node EXCEPT !.NO = Head(free_)] \in Entries
  PROVE  /\ bps' \in Seq(Entries)
         /\ free_' \in Seq(Nodes)
         /\ in_use' \in [Nodes -> BOOLEAN]
         /\ abort' \in BOOLEAN
<1>1. bps \in Seq(Entries) /\ free_ \in Seq(Nodes)
  BY DEF TypeOK, Entries
<1>2. Tail(free_) \in Seq(Nodes) /\ Head(free_) \in Nodes
  BY <1>1
<1>3. bps' \in Seq(Entries)
  BY <1>1, Cons DEF NewBP
<1>4. QED
  BY <1>2, <1>3 DEF NewBP, TypeOK

LEMMA CommandType ==
  ASSUME TypeOK, CmdC \/ CmdSi \/ CmdB \/ CmdW \/ CmdD \/ CmdDAll
  PROVE  TypeOK'
<1>1. bps \in Seq(Entries) /\ free_ \in Seq(Nodes)
  BY DEF TypeOK, Entries
<1>2. CASE CmdC
  BY <1>2, GuestAssumption
  DEF CmdC, StartExec, TypeOK, pool, guest, Unlimited
<1>3. CASE CmdSi
  BY <1>3, GuestAssumption
  DEF CmdSi, StartExec, TypeOK, pool, guest, Unlimited
<1>4. CASE CmdB
  <2>1. PICK a \in Addr :
          \/ /\ free_ # <<>>
             /\ NewBP([NO |-> 0, type |-> "B", addr |-> a,
                       ori_byte |-> mem[a], old_val |-> None])
             /\ mem' = [mem EXCEPT ![a] = INT3]
          \/ /\ free_ = <<>>
             /\ NewBPFails
             /\ UNCHANGED mem
    BY <1>4 DEF CmdB
  <2>2. UNCHANGED <<session, guest, loop, owed>>
    BY <1>4 DEF CmdB
  <2>3. CASE free_ # <<>>
    <3> DEFINE node == [NO |-> 0, type |-> "B", addr |-> a,
                        ori_byte |-> mem[a], old_val |-> None]
    <3>1. [node EXCEPT !.NO = Head(free_)] \in Entries
      <4>1. Head(free_) \in Nodes
        BY <1>1, <2>3
      <4>2. QED
        BY <4>1 DEF Entries, Bytes, TypeOK
    <3>2. NewBP(node) /\ mem' = [mem EXCEPT ![a] = INT3]
      BY <2>1, <2>3
    <3> HIDE DEF node
    <3>3. QED
      BY <2>2, <2>3, <3>1, <3>2, NewBPType
      DEF TypeOK, Entries, guest, loop, Opcodes
  <2>4. CASE free_ = <<>>
    BY <2>1, <2>2, <2>4 DEF NewBPFails, TypeOK, guest, loop
  <2>5. QED
    BY <2>3, <2>4
<1>5. CASE CmdW
  <2> DEFINE node == [NO |-> 0, type |-> "W", addr |-> None,
                      ori_byte |-> None, old_val |-> val]
  <2>1. CASE free_ # <<>>
    <3>1. [node EXCEPT !.NO = Head(free_)] \in Entries
      <4>1. Head(free_) \in Nodes
        BY <1>1, <2>1
      <4>2. QED
        BY <4>1 DEF Entries, Exprs, TypeOK
    <3>2. NewBP(node) /\ UNCHANGED <<session, guest, loop, mem, owed>>
      BY <1>5, <2>1 DEF CmdW
    <3> HIDE DEF node
    <3>3. QED
      BY <2>1, <3>1, <3>2, NewBPType DEF TypeOK, Entries, guest, loop
  <2>2. CASE free_ = <<>>
    BY <1>5, <2>2 DEF CmdW, NewBPFails, TypeOK, guest, loop
  <2>3. QED
    BY <2>1, <2>2
<1>6. CASE CmdD
  <2>1. PICK i \in DOMAIN bps :
          DeleteBP(i) /\ owed' = IF bps[i].addr = owed THEN None ELSE owed
    BY <1>6 DEF CmdD
  <2>2. UNCHANGED <<session, guest, loop>>
    BY <1>6 DEF CmdD
  <2>3. i \in 1 .. Len(bps)
    BY <1>1
  <2>4. bps' \in Seq(Entries)
    BY <1>1, <2>1, <2>3, Remove DEF DeleteBP
  <2>5. free_' \in Seq(Nodes)
    BY <1>1, <2>1, NodeTypes, Cons DEF DeleteBP
  <2>6. mem' \in [Addr -> Opcodes]
    BY <2>1, NodeTypes DEF DeleteBP, Unplant, TypeOK, Bytes
  <2>7. QED
    BY <2>1, <2>2, <2>4, <2>5, <2>6 DEF DeleteBP, TypeOK, Entries, guest, loop
<1>7. CASE CmdDAll
  <2>1. InList \in Seq(Nodes)
    BY <1>1, NodeTypes DEF InList
  <2>2. InList \o free_ \in Seq(Nodes)
    BY <1>1, <2>1, Concat
  <2>3. ASSUME NEW a \in Addr, BreakpointsAt(a) # {}
        PROVE  bps[First(BreakpointsAt(a))].ori_byte \in Opcodes
    <3>1. BreakpointsAt(a) \in SUBSET Nat /\ BreakpointsAt(a) \subseteq Breakpoints
      BY <1>1 DEF BreakpointsAt, Breakpoints
    <3>2. First(BreakpointsAt(a)) \in Breakpoints
      BY <2>3, <3>1, FirstIn
    <3>3. QED
      BY <3>2, NodeTypes DEF Breakpoints, Bytes
  <2>4. mem' \in [Addr -> Opcodes]
    BY <1>7, <2>3 DEF CmdDAll, DeleteAll, TypeOK
  <2>5. bps' \in Seq(Entries)
    BY <1>7 DEF CmdDAll, DeleteAll
  <2>6. QED
    BY <1>7, <2>2, <2>4, <2>5
    DEF CmdDAll, DeleteAll, TypeOK, Entries, guest, loop
<1>8. QED
  BY <1>2, <1>3, <1>4, <1>5, <1>6, <1>7

(* The list after ExecInst: at most one node changes, its old_val only.    *)
LEMMA InstList ==
  ASSUME TypeOK, ExecInst
  PROVE  /\ bps' \in Seq(Entries)
         /\ DOMAIN bps' = DOMAIN bps
         /\ \A i \in DOMAIN bps : /\ bps'[i].NO = bps[i].NO
                                /\ bps'[i].type = bps[i].type
                                /\ bps'[i].addr = bps[i].addr
                                /\ bps'[i].ori_byte = bps[i].ori_byte
<1>1. bps \in Seq(Entries)
  BY DEF TypeOK, Entries
<1>2. CASE UNCHANGED bps
  BY <1>1, <1>2
<1>3. CASE ~UNCHANGED bps
  <2>1. PICK s \in Effects :
          /\ Changed(s.val) # {}
          /\ bps' = [bps EXCEPT ![First(Changed(s.val))].old_val = s.val]
    BY <1>3 DEF ExecInst
  <2> DEFINE k == First(Changed(s.val))
  <2>2. Changed(s.val) \in SUBSET Nat /\ Changed(s.val) \subseteq Watchpoints
    BY <1>1 DEF Changed, Watchpoints
  <2>3. k \in Watchpoints
    BY <2>1, <2>2, FirstIn
  <2>4. k \in DOMAIN bps /\ bps[k] \in Exprs
    BY <2>3, NodeTypes DEF Watchpoints
  <2>5. s.val \in Vals
    BY DEF Effects
  <2>6. bps' = [bps EXCEPT ![k].old_val = s.val]
    BY <2>1
  <2> HIDE DEF k
  <2>7. [bps[k] EXCEPT !.old_val = s.val] \in Entries
    BY <2>4, <2>5 DEF Exprs, Entries
  <2>8. bps' = [bps EXCEPT ![k] = [bps[k] EXCEPT !.old_val = s.val]]
    BY <2>6
  <2>9. bps' \in Seq(Entries) /\ DOMAIN bps' = DOMAIN bps
    BY <1>1, <2>4, <2>7, <2>8
  <2>10. ASSUME NEW i \in DOMAIN bps
         PROVE  /\ bps'[i].NO = bps[i].NO
                /\ bps'[i].type = bps[i].type
                /\ bps'[i].addr = bps[i].addr
                /\ bps'[i].ori_byte = bps[i].ori_byte
    <3>1. CASE i = k
      BY <2>4, <2>8, <3>1 DEF Exprs
    <3>2. CASE i # k
      BY <2>8, <3>2
    <3>3. QED
      BY <3>1, <3>2
  <2>11. QED
    BY <2>9, <2>10
<1>4. QED
  BY <1>2, <1>3

(* The memory after ExecInst.                                              *)
LEMMA InstMemory ==
  ASSUME TypeOK, ExecInst
  PROVE  /\ mem' \in [Addr -> Opcodes]
         /\ \A a \in Addr :
              \/ mem'[a] = mem[a]
              \/ mem'[a] = INT3 /\ BreakpointsAt(a) # {}
              \/ /\ BreakpointsAt(a) # {}
                 /\ mem'[a] = bps[First(BreakpointsAt(a))].ori_byte
<1>1. PICK s \in Effects :
        LET planted == IF hit_break_rerun THEN Resumed(mem) ELSE mem
            hit     == HitAt(s.state)
        IN  mem' = IF hit # {}
                   THEN [planted EXCEPT ![eip] = bps[First(hit)].ori_byte]
                   ELSE planted
  BY DEF ExecInst
<1> DEFINE planted == IF hit_break_rerun THEN Resumed(mem) ELSE mem
<1>2. mem \in [Addr -> Opcodes] /\ eip \in Addr
  BY DEF TypeOK
<1>3. /\ planted \in [Addr -> Opcodes]
      /\ \A a \in Addr : planted[a] = mem[a] \/ (planted[a] = INT3 /\ BreakpointsAt(a) # {})
  BY <1>2 DEF Resumed, Opcodes
<1>4. CASE HitAt(s.state) = {}
  BY <1>1, <1>3, <1>4
<1>5. CASE HitAt(s.state) # {}
  <2>1. HitAt(s.state) = BreakpointsAt(eip) /\ BreakpointsAt(eip) # {}
    BY <1>5 DEF HitAt
  <2>2. BreakpointsAt(eip) \in SUBSET Nat /\ BreakpointsAt(eip) \subseteq Breakpoints
    <3>1. bps \in Seq(Entries)
      BY DEF TypeOK, Entries
    <3>2. QED
      BY <3>1 DEF BreakpointsAt, Breakpoints
  <2>3. First(BreakpointsAt(eip)) \in Breakpoints
    BY <2>1, <2>2, FirstIn
  <2>4. bps[First(BreakpointsAt(eip))].ori_byte \in Opcodes
    BY <2>3, NodeTypes DEF Breakpoints, Bytes
  <2>5. mem' = [planted EXCEPT ![eip] = bps[First(BreakpointsAt(eip))].ori_byte]
    BY <1>1, <2>1
  <2>6. QED
    BY <1>2, <1>3, <2>1, <2>4, <2>5
<1>6. QED
  BY <1>4, <1>5

LEMMA ExecType ==
  ASSUME TypeOK, ExecInst \/ ExecHalted \/ ExecEnd
  PROVE  TypeOK'
<1>1. CASE ExecInst
  <2>1. bps' \in Seq(Bytes \cup Exprs) /\ mem' \in [Addr -> Opcodes]
    BY <1>1, InstList, InstMemory DEF Entries
  <2>2. n' \in 0 .. Unlimited /\ hit_break_rerun' \in BOOLEAN
    <3>1. n \in 0 .. Unlimited /\ n > 0 /\ n' = IF n = Unlimited THEN n ELSE n - 1
      BY <1>1 DEF ExecInst, Running, TypeOK
    <3>2. Unlimited \in Nat
      BY GuestAssumption DEF Unlimited
    <3>3. hit_break_rerun' = FALSE
      BY <1>1 DEF ExecInst
    <3>4. CASE n = Unlimited
      <4>1. n' = n
        BY <3>1, <3>4
      <4>2. QED
        BY <3>1, <3>3, <4>1
    <3>5. CASE n # Unlimited
      <4>1. n' = n - 1
        BY <3>1, <3>5
      <4>2. n - 1 \in 0 .. Unlimited
        BY <3>1, <3>2
      <4>3. QED
        BY <3>3, <4>1, <4>2
    <3>6. QED
      BY <3>4, <3>5
  <2>3. /\ free_' \in Seq(Nodes) /\ in_use' \in [Nodes -> BOOLEAN]
        /\ abort' \in BOOLEAN /\ mode' \in {"ui", "exec", "quit"}
    BY <1>1 DEF ExecInst, TypeOK
  <2>4. val' \in Vals /\ owed' \in Addr \cup {None}
    BY <1>1 DEF ExecInst, TypeOK, Effects
  <2>5. /\ nemu_state' \in {"READY", "RUN", "BREAK", "STOP"}
        /\ eip' \in Addr /\ saved' \in Addr \cup {None}
        /\ is_nemu_hlt' \in BOOLEAN
    <3>1. PICK s \in Effects, hit \in SUBSET DOMAIN bps :
            LET next == IF hit # {} THEN eip ELSE s.eip IN
            \/ /\ nemu_state' = s.state
               /\ DoIntr(next, s.saved, s.hlt)
            \/ /\ nemu_state' = "READY"
               /\ eip' = next /\ saved' = s.saved /\ is_nemu_hlt' = s.hlt
      BY <1>1 DEF ExecInst, HitAt, BreakpointsAt, Breakpoints
    <3>2. QED
      BY <3>1, GuestAssumption DEF DoIntr, Effects, TypeOK
  <2>6. session' = session
    BY <1>1 DEF ExecInst
  <2>7. QED
    BY <2>1, <2>2, <2>3, <2>4, <2>5, <2>6 DEF TypeOK
<1>2. CASE ExecHalted
  BY <1>2, GuestAssumption DEF ExecHalted, DoIntr, TypeOK, pool, loop
<1>3. CASE ExecEnd
  BY <1>3 DEF ExecEnd, TypeOK, pool, guest
<1>4. QED
  BY <1>1, <1>2, <1>3

(* Type correctness of the debugger, whatever the user asks for.           *)
THEOREM TypeCorrect == Spec => []TypeOK
<1>1. TypeOK /\ [Next]_vars => TypeOK'
  <2> SUFFICES ASSUME TypeOK, [Next]_vars PROVE TypeOK'
    OBVIOUS
  <2>1. CASE CmdC \/ CmdSi \/ CmdB \/ CmdW \/ CmdD \/ CmdDAll
    BY <2>1, CommandType
  <2>2. CASE ExecInst \/ ExecHalted \/ ExecEnd
    BY <2>2, ExecType
  <2>3. CASE UNCHANGED vars
    BY <2>3 DEF vars, pool, guest, loop, TypeOK
  <2>4. QED
    BY <2>1, <2>2, <2>3 DEF Next
<1>2. QED
  BY InitType, <1>1, PTL DEF Spec

-----------------------------------------------------------------------------
(* The two lists of the pool.  Parts says of any two lists, u in use and f *)
(* free, and flags g what PoolPartition says of the pool's.                *)
Parts(u, f, g) ==
  /\ IsInjective(u) /\ IsInjective(f)
  /\ \A no \in Nodes :
       /\ g[no] <=> \E i \in DOMAIN u : u[i] = no
       /\ ~g[no] <=> \E i \in DOMAIN f : f[i] = no

(* v is u, of length l, with one element put in front of it.               *)
Fronted(v, u, l) ==
  /\ DOMAIN u = 1 .. l /\ DOMAIN v = 1 .. l + 1
  /\ \A i \in 1 .. l : v[i + 1] = u[i]

(* v is u, of length l, without its element at k.                          *)
Without(v, u, k, l) ==
  /\ DOMAIN u = 1 .. l /\ DOMAIN v = 1 .. l - 1
  /\ \A i \in 1 .. l - 1 : v[i] = IF i < k THEN u[i] ELSE u[i + 1]

(* e is u, of length l, followed by f, of length m.                        *)
Joined(e, u, f, l, m) ==
  /\ DOMAIN u = 1 .. l /\ DOMAIN f = 1 .. m /\ DOMAIN e = 1 .. l + m
  /\ \A i \in 1 .. l + m : e[i] = IF i <= l THEN u[i] ELSE f[i - l]

(* The first free node is taken.                                           *)
LEMMA TakeNode ==
  ASSUME NEW L \in Nat, NEW F \in Nat, NEW g \in [Nodes -> BOOLEAN],
         NEW u, NEW v, Fronted(v, u, L),
         NEW e, NEW f, Fronted(f, e, F), v[1] = f[1],
         \A i \in DOMAIN f : f[i] \in Nodes,
         Parts(u, f, g)
  PROVE  Parts(v, e, [g EXCEPT ![f[1]] = TRUE])
<1> USE DEF Fronted
<1> DEFINE h == f[1]
<1>1. h \in Nodes /\ ~g[h]
  BY DEF Parts
<1>2. \A i \in 1 .. L : u[i] # h
  BY <1>1 DEF Parts
<1>3. \A i \in 1 .. L + 1 : i # 1 => i - 1 \in 1 .. L /\ v[i] = u[i - 1]
  BY Shift
<1>4. ASSUME NEW i \in 1 .. L + 1, NEW j \in 1 .. L + 1, v[i] = v[j]
      PROVE  i = j
  <2>1. CASE i = 1 \/ j = 1
    <3>1. \A m \in 1 .. L + 1 : m # 1 => v[m] # h
      BY <1>2, <1>3
    <3>2. v[1] = h
      OBVIOUS
    <3>3. QED
      BY <1>4, <2>1, <3>1, <3>2
  <2>2. CASE i # 1 /\ j # 1
    <3>1. u[i - 1] = u[j - 1] /\ i - 1 \in DOMAIN u /\ j - 1 \in DOMAIN u
      BY <1>3, <1>4, <2>2
    <3>2. \A p, q \in DOMAIN u : u[p] = u[q] => p = q
      BY DEF Parts, IsInjective
    <3>3. i - 1 = j - 1
      BY <3>1, <3>2
    <3>4. QED
      BY <3>3
  <2>3. QED
    BY <2>1, <2>2
<1>5. ASSUME NEW i \in 1 .. F
      PROVE  /\ e[i] # h
             /\ \A j \in 1 .. F : e[i] = e[j] => i = j
  <2>1. \A j \in 1 .. F : j + 1 \in DOMAIN f /\ j + 1 # 1 /\ e[j] = f[j + 1]
    <3>1. \A j \in 1 .. F : e[j] = f[j + 1]
      OBVIOUS
    <3>2. \A j \in 1 .. F : j + 1 \in 1 .. F + 1 /\ j + 1 # 1
      OBVIOUS
    <3>3. QED
      BY <3>1, <3>2
  <2>2. 1 \in DOMAIN f /\ \A j, k \in DOMAIN f : f[j] = f[k] => j = k
    BY DEF Parts, IsInjective
  <2>3. e[i] # h
    BY <2>1, <2>2
  <2>4. ASSUME NEW j \in 1 .. F, e[i] = e[j]
        PROVE  i = j
    <3>1. i + 1 = j + 1
      <4>1. f[i + 1] = f[j + 1] /\ i + 1 \in DOMAIN f /\ j + 1 \in DOMAIN f
        BY <2>1, <2>4
      <4>2. QED
        BY <2>2, <4>1
    <3>2. QED
      BY <3>1
  <2>5. QED
    BY <2>3, <2>4
<1>6. ASSUME NEW no \in Nodes, no # h
      PROVE  /\ (\E i \in DOMAIN v : v[i] = no) <=> \E i \in DOMAIN u : u[i] = no
             /\ (\E i \in DOMAIN e : e[i] = no) <=> \E i \in DOMAIN f : f[i] = no
  <2>1. \A i \in 1 .. F + 1 : i # 1 => i - 1 \in 1 .. F /\ f[i] = e[i - 1]
    BY Shift
  <2>2. \A i \in 1 .. L : i + 1 \in 1 .. L + 1 /\ v[i + 1] = u[i]
    OBVIOUS
  <2>3. \A i \in 1 .. F : i + 1 \in 1 .. F + 1 /\ e[i] = f[i + 1]
    OBVIOUS
  <2>4. (\E i \in 1 .. L + 1 : v[i] = no) <=> \E i \in 1 .. L : u[i] = no
    <3>1. ASSUME NEW i \in 1 .. L + 1, v[i] = no
          PROVE  \E j \in 1 .. L : u[j] = no
      <4>1. i # 1
        BY <1>6, <3>1
      <4>2. QED
        BY <1>3, <3>1, <4>1
    <3>2. ASSUME NEW i \in 1 .. L, u[i] = no
          PROVE  \E j \in 1 .. L + 1 : v[j] = no
      BY <2>2, <3>2
    <3>3. QED
      BY <3>1, <3>2
  <2>5. (\E i \in 1 .. F : e[i] = no) <=> \E i \in 1 .. F + 1 : f[i] = no
    <3>1. ASSUME NEW i \in 1 .. F + 1, f[i] = no
          PROVE  \E j \in 1 .. F : e[j] = no
      <4>1. i # 1
        BY <1>6, <3>1
      <4>2. QED
        BY <2>1, <3>1, <4>1
    <3>2. ASSUME NEW i \in 1 .. F, e[i] = no
          PROVE  \E j \in 1 .. F + 1 : f[j] = no
      BY <2>3, <3>2
    <3>3. QED
      BY <3>1, <3>2
  <2>6. QED
    BY <2>4, <2>5
<1>7. IsInjective(v) /\ IsInjective(e) /\ \A i \in DOMAIN e : e[i] # h
  BY <1>4, <1>5 DEF IsInjective
<1>8. 1 \in DOMAIN v /\ v[1] = h
  OBVIOUS
<1>9. ASSUME NEW no \in Nodes
      PROVE  /\ [g EXCEPT ![h] = TRUE][no] <=> \E i \in DOMAIN v : v[i] = no
             /\ ~[g EXCEPT ![h] = TRUE][no] <=> \E i \in DOMAIN e : e[i] = no
  <2>1. CASE no = h
    BY <1>7, <1>8, <2>1
  <2>2. CASE no # h
    BY <1>6, <2>2 DEF Parts
  <2>3. QED
    BY <2>1, <2>2
<1>10. QED
  BY <1>7, <1>9 DEF Parts

(* The node at place k of the list in use is freed.                        *)
LEMMA GiveNode ==
  ASSUME NEW L \in Nat, NEW F \in Nat, NEW g \in [Nodes -> BOOLEAN],
         NEW u, NEW v, NEW k \in 1 .. L, Without(v, u, k, L),
         NEW e, NEW f, Fronted(e, f, F), e[1] = u[k],
         \A i \in DOMAIN u : u[i] \in Nodes,
         Parts(u, f, g)
  PROVE  Parts(v, e, [g EXCEPT ![u[k]] = FALSE])
<1> USE DEF Fronted, Without
<1> DEFINE h == u[k]
<1>1. h \in Nodes /\ g[h]
  BY DEF Parts
<1>2. \A i \in 1 .. F : f[i] # h
  BY <1>1 DEF Parts
<1>3. \A i \in 1 .. F + 1 : i # 1 => i - 1 \in 1 .. F /\ e[i] = f[i - 1]
  BY Shift
<1>4. IsInjective(e)
  <2>1. ASSUME NEW i \in 1 .. F + 1, NEW j \in 1 .. F + 1, e[i] = e[j]
        PROVE  i = j
    <3>1. CASE i = 1 \/ j = 1
      <4>1. \A m \in 1 .. F + 1 : m # 1 => e[m] # e[1]
        BY <1>2, <1>3
      <4>2. 1 \in 1 .. F + 1
        OBVIOUS
      <4>3. QED
        BY <2>1, <3>1, <4>1, <4>2
    <3>2. CASE i # 1 /\ j # 1
      <4>1. f[i - 1] = f[j - 1] /\ i - 1 \in DOMAIN f /\ j - 1 \in DOMAIN f
        BY <1>3, <2>1, <3>2
      <4>2. i - 1 = j - 1
        BY <4>1 DEF Parts, IsInjective
      <4>3. QED
        BY <4>2
    <3>3. QED
      BY <3>1, <3>2
  <2>2. QED
    BY <2>1 DEF IsInjective
<1>5. IsInjective(v) /\ \A i \in DOMAIN v : v[i] # h
  <2>1. \A i, j \in 1 .. L : u[i] = u[j] => i = j
    BY DEF Parts, IsInjective
  <2>2. ASSUME NEW i \in 1 .. L - 1, NEW j \in 1 .. L - 1, v[i] = v[j]
        PROVE  i = j
    BY <2>1, <2>2
  <2>3. ASSUME NEW i \in 1 .. L - 1
        PROVE  v[i] # h
    BY <2>1
  <2>4. QED
    BY <2>2, <2>3 DEF IsInjective
<1>6. ASSUME NEW no \in Nodes, no # h
      PROVE  /\ (\E i \in DOMAIN v : v[i] = no) <=> \E i \in DOMAIN u : u[i] = no
             /\ (\E i \in DOMAIN e : e[i] = no) <=> \E i \in DOMAIN f : f[i] = no
  <2>1. \A i \in 1 .. L - 1 : \E j \in 1 .. L : v[i] = u[j]
    <3>1. \A i \in 1 .. L - 1 : i \in 1 .. L /\ i + 1 \in 1 .. L
      OBVIOUS
    <3>2. QED
      BY <3>1
  <2>2. \A j \in 1 .. L : j # k => \E i \in 1 .. L - 1 : v[i] = u[j]
    <3>1. \A j \in 1 .. L : j < k => j \in 1 .. L - 1 /\ v[j] = u[j]
      OBVIOUS
    <3>2. \A j \in 1 .. L : j > k => j - 1 \in 1 .. L - 1 /\ v[j - 1] = u[j]
      OBVIOUS
    <3>3. QED
      BY <3>1, <3>2
  <2>3. \A i \in 1 .. F : i + 1 \in 1 .. F + 1 /\ e[i + 1] = f[i]
    OBVIOUS
  <2>4. (\E i \in 1 .. L - 1 : v[i] = no) <=> \E i \in 1 .. L : u[i] = no
    <3>1. ASSUME NEW i \in 1 .. L - 1, v[i] = no
          PROVE  \E j \in 1 .. L : u[j] = no
      BY <2>1, <3>1
    <3>2. ASSUME NEW i \in 1 .. L, u[i] = no
          PROVE  \E j \in 1 .. L - 1 : v[j] = no
      <4>1. i # k
        BY <1>6, <3>2
      <4>2. QED
        BY <2>2, <3>2, <4>1
    <3>3. QED
      BY <3>1, <3>2
  <2>5. (\E i \in 1 .. F + 1 : e[i] = no) <=> \E i \in 1 .. F : f[i] = no
    <3>1. ASSUME NEW i \in 1 .. F + 1, e[i] = no
          PROVE  \E j \in 1 .. F : f[j] = no
      <4>1. i # 1
        BY <1>6, <3>1
      <4>2. QED
        BY <1>3, <3>1, <4>1
    <3>2. ASSUME NEW i \in 1 .. F, f[i] = no
          PROVE  \E j \in 1 .. F + 1 : e[j] = no
      BY <2>3, <3>2
    <3>3. QED
      BY <3>1, <3>2
  <2>6. QED
    BY <2>4, <2>5
<1>7. 1 \in DOMAIN e /\ e[1] = h
  OBVIOUS
<1>8. ASSUME NEW no \in Nodes
      PROVE  /\ [g EXCEPT ![h] = FALSE][no] <=> \E i \in DOMAIN v : v[i] = no
             /\ ~[g EXCEPT ![h] = FALSE][no] <=> \E i \in DOMAIN e : e[i] = no
  <2>1. CASE no = h
    BY <1>5, <1>7, <2>1
  <2>2. CASE no # h
    BY <1>6, <2>2 DEF Parts
  <2>3. QED
    BY <2>1, <2>2
<1>9. QED
  BY <1>4, <1>5, <1>8 DEF Parts

(* The whole list in use is put in front of the free nodes.                *)
LEMMA GiveAll ==
  ASSUME NEW L \in Nat, NEW F \in Nat, NEW g \in [Nodes -> BOOLEAN],
         NEW u, NEW f, NEW e, Joined(e, u, f, L, F),
         \A i \in DOMAIN u : u[i] \in Nodes,
         NEW v, DOMAIN v = {},
         Parts(u, f, g)
  PROVE  Parts(v, e, [no \in Nodes |-> g[no] /\ \A i \in DOMAIN u : u[i] # no])
<1> USE DEF Joined
<1>1. IsInjective(v)
  BY DEF IsInjective
<1>2. \A i \in 1 .. L, j \in 1 .. F : u[i] # f[j]
  BY DEF Parts
<1>3. IsInjective(e)
  <2>1. \A i \in 1 .. L + F : i > L => i - L \in 1 .. F /\ e[i] = f[i - L]
    OBVIOUS
  <2>2. \A i \in 1 .. L + F : i <= L => i \in 1 .. L /\ e[i] = u[i]
    OBVIOUS
  <2>3. ASSUME NEW i \in 1 .. L + F, NEW j \in 1 .. L + F, e[i] = e[j]
        PROVE  i = j
    <3>1. CASE i <= L /\ j <= L
      BY <2>2, <2>3, <3>1 DEF Parts, IsInjective
    <3>2. CASE i > L /\ j > L
      <4>1. f[i - L] = f[j - L] /\ i - L \in DOMAIN f /\ j - L \in DOMAIN f
        BY <2>1, <2>3, <3>2
      <4>2. i - L = j - L
        BY <4>1 DEF Parts, IsInjective
      <4>3. QED
        BY <4>2
    <3>3. CASE i <= L /\ j > L
      BY <1>2, <2>1, <2>2, <2>3, <3>3
    <3>4. CASE i > L /\ j <= L
      BY <1>2, <2>1, <2>2, <2>3, <3>4
    <3>5. QED
      BY <3>1, <3>2, <3>3, <3>4
  <2>4. QED
    BY <2>3 DEF IsInjective
<1>4. \A no \in Nodes : \E i \in DOMAIN e : e[i] = no
  <2>1. ASSUME NEW no \in Nodes
        PROVE  \E i \in DOMAIN e : e[i] = no
    <3>1. (\E i \in 1 .. L : u[i] = no) \/ (\E j \in 1 .. F : f[j] = no)
      BY DEF Parts
    <3>2. \A i \in 1 .. L : i \in 1 .. L + F /\ e[i] = u[i]
      OBVIOUS
    <3>3. \A j \in 1 .. F : j + L \in 1 .. L + F /\ e[j + L] = f[j]
      OBVIOUS
    <3>4. QED
      BY <3>1, <3>2, <3>3
  <2>2. QED
    BY <2>1
<1>5. \A no \in Nodes : ~(g[no] /\ \A i \in DOMAIN u : u[i] # no)
  BY DEF Parts
<1>6. QED
  BY <1>1, <1>3, <1>4, <1>5 DEF Parts

(* What the list in use is, seen as a function of places.                  *)
LEMMA ListFacts ==
  ASSUME TypeOK
  PROVE  /\ Len(bps) \in Nat /\ Len(free_) \in Nat
         /\ DOMAIN InList = 1 .. Len(bps) /\ DOMAIN bps = 1 .. Len(bps)
         /\ DOMAIN free_ = 1 .. Len(free_)
         /\ \A i \in 1 .. Len(bps) : InList[i] = bps[i].NO /\ InList[i] \in Nodes
         /\ \A i \in 1 .. Len(free_) : free_[i] \in Nodes
         /\ in_use \in [Nodes -> BOOLEAN]
         /\ PoolPartition <=> Parts(InList, free_, in_use)
<1>1. bps \in Seq(Entries) /\ free_ \in Seq(Nodes)
  BY DEF TypeOK, Entries
<1>2. DOMAIN bps = 1 .. Len(bps) /\ Len(bps) \in Nat
  BY <1>1
<1>3. /\ DOMAIN free_ = 1 .. Len(free_) /\ Len(free_) \in Nat
      /\ \A i \in 1 .. Len(free_) : free_[i] \in Nodes
  BY <1>1
<1>4. \A i \in 1 .. Len(bps) : InList[i] = bps[i].NO /\ InList[i] \in Nodes
  BY <1>2, NodeTypes DEF InList
<1>5. QED
  BY <1>2, <1>3, <1>4 DEF InList, TypeOK, PoolPartition, Parts

(* Taking a node for a new breakpoint or watchpoint.                       *)
LEMMA NewBPPool ==
  ASSUME TypeOK, TypeOK', PoolPartition, free_ # <<>>,
         NEW node, NewBP(node),
         [node EXCEPT !.NO = Head(free_)] \in Entries,
         [node EXCEPT !.NO = Head(free_)].NO = Head(free_)
  PROVE  PoolPartition'
<1> DEFINE m == [node EXCEPT !.NO = Head(free_)]
<1>1. bps \in Seq(Entries) /\ free_ \in Seq(Nodes)
  BY DEF TypeOK, Entries
<1>2. m \in Entries /\ m.NO = Head(free_) /\ bps' = <<m>> \o bps
  BY DEF NewBP
<1>3. free_' = Tail(free_) /\ in_use' = [in_use EXCEPT ![Head(free_)] = TRUE]
  BY DEF NewBP
<1> HIDE DEF m
<1>4. PICK F \in Nat : F + 1 = Len(free_)
  <2>1. Len(free_) - 1 \in Nat /\ (Len(free_) - 1) + 1 = Len(free_)
    BY <1>1
  <2>2. QED
    BY <2>1
<1>5. /\ DOMAIN Tail(free_) = 1 .. F
      /\ \A i \in 1 .. F : Tail(free_)[i] = free_[i + 1]
      /\ Head(free_) = free_[1]
  BY <1>1, <1>4
<1>6. /\ Len(bps') = Len(bps) + 1 /\ bps'[1] = m
      /\ \A i \in 1 .. Len(bps) : bps'[i + 1] = bps[i]
  BY <1>1, <1>2, Cons
<1>7. /\ DOMAIN InList' = 1 .. Len(bps) + 1
      /\ InList'[1] = free_[1]
      /\ \A i \in 1 .. Len(bps) : InList'[i + 1] = InList[i]
  <2>1. /\ DOMAIN InList' = 1 .. Len(bps')
        /\ \A i \in 1 .. Len(bps') : InList'[i] = bps'[i].NO
    <3>1. bps' \in Seq(Entries)
      BY DEF TypeOK, Entries
    <3>2. DOMAIN bps' = 1 .. Len(bps')
      BY <3>1
    <3>3. QED
      BY <3>2 DEF InList
  <2>2. /\ Len(bps) \in Nat
        /\ \A i \in 1 .. Len(bps) : InList[i] = bps[i].NO
    BY ListFacts
  <2>3. InList'[1] = free_[1]
    <3>1. 1 \in 1 .. Len(bps')
      BY <1>6, <2>2
    <3>2. InList'[1] = m.NO
      BY <1>6, <2>1, <3>1
    <3>3. QED
      BY <1>2, <1>5, <3>2
  <2>4. ASSUME NEW i \in 1 .. Len(bps)
        PROVE  InList'[i + 1] = InList[i]
    <3>1. i + 1 \in 1 .. Len(bps')
      BY <1>6, <2>2
    <3>2. QED
      BY <1>6, <2>1, <2>2, <3>1
  <2>5. QED
    BY <1>6, <2>1, <2>3, <2>4
<1>8. Parts(InList', free_', in_use')
  <2>1. /\ Len(bps) \in Nat /\ in_use \in [Nodes -> BOOLEAN]
        /\ DOMAIN InList = 1 .. Len(bps) /\ DOMAIN free_ = 1 .. F + 1
        /\ \A i \in DOMAIN free_ : free_[i] \in Nodes
        /\ Parts(InList, free_, in_use)
    BY ListFacts, <1>4
  <2>2. Fronted(InList', InList, Len(bps)) /\ Fronted(free_, Tail(free_), F)
    BY <1>5, <1>7, <2>1 DEF Fronted
  <2>3. Parts(InList', Tail(free_), [in_use EXCEPT ![free_[1]] = TRUE])
    BY <1>4, <1>7, <2>1, <2>2, TakeNode
  <2>4. QED
    BY <1>3, <1>5, <2>3
<1>9. DOMAIN InList' = DOMAIN bps'
  BY DEF InList
<1>10. QED
  BY <1>8, <1>9 DEF PoolPartition, Parts

(* Freeing one node, and freeing them all.                                 *)
LEMMA DeletePool ==
  ASSUME TypeOK, TypeOK', PoolPartition, NEW k \in DOMAIN bps, DeleteBP(k)
  PROVE  PoolPartition'
<1>1. bps \in Seq(Entries) /\ free_ \in Seq(Nodes) /\ bps' \in Seq(Entries)
  BY DEF TypeOK, Entries
<1>2. k \in 1 .. Len(bps) /\ bps[k].NO \in Nodes
  BY <1>1, NodeTypes
<1>3. /\ DOMAIN bps' = 1 .. Len(bps) - 1
      /\ \A j \in 1 .. Len(bps) - 1 :
           bps'[j] = IF j < k THEN bps[j] ELSE bps[j + 1]
  BY <1>1, <1>2, Remove DEF DeleteBP
<1>4. /\ DOMAIN free_' = 1 .. Len(free_) + 1
      /\ free_'[1] = bps[k].NO
      /\ \A j \in 1 .. Len(free_) : free_'[j + 1] = free_[j]
  BY <1>1, <1>2, Cons DEF DeleteBP
<1>5. /\ Len(bps) \in Nat /\ Len(free_) \in Nat
      /\ in_use \in [Nodes -> BOOLEAN]
      /\ DOMAIN InList = 1 .. Len(bps) /\ DOMAIN free_ = 1 .. Len(free_)
      /\ \A i \in DOMAIN InList : InList[i] = bps[i].NO /\ InList[i] \in Nodes
      /\ Parts(InList, free_, in_use)
  BY ListFacts
<1>6. DOMAIN InList' = DOMAIN bps' /\ \A j \in DOMAIN bps' : InList'[j] = bps'[j].NO
  BY DEF InList
<1>7. Without(InList', InList, k, Len(bps))
  <2>1. ASSUME NEW j \in 1 .. Len(bps) - 1
        PROVE  InList'[j] = IF j < k THEN InList[j] ELSE InList[j + 1]
    <3>1. j \in 1 .. Len(bps) /\ j + 1 \in 1 .. Len(bps)
      BY <1>5
    <3>2. InList[j] = bps[j].NO /\ InList[j + 1] = bps[j + 1].NO
      BY <1>5, <3>1
    <3>3. InList'[j] = bps'[j].NO
      BY <1>3, <1>6
    <3>4. QED
      BY <1>3, <3>2, <3>3
  <2>2. QED
    BY <1>3, <1>5, <1>6, <2>1 DEF Without
<1>8. Fronted(free_', free_, Len(free_)) /\ free_'[1] = InList[k]
  BY <1>2, <1>4, <1>5 DEF Fronted
<1>9. Parts(InList', free_', [in_use EXCEPT ![InList[k]] = FALSE])
  BY <1>2, <1>5, <1>7, <1>8, GiveNode
<1>10. in_use' = [in_use EXCEPT ![InList[k]] = FALSE]
  BY <1>2, <1>5 DEF DeleteBP
<1>11. QED
  BY <1>6, <1>9, <1>10 DEF PoolPartition, Parts

LEMMA DeleteAllPool ==
  ASSUME TypeOK, PoolPartition, DeleteAll
  PROVE  PoolPartition'
<1>1. bps \in Seq(Entries) /\ free_ \in Seq(Nodes)
  BY DEF TypeOK, Entries
<1>2. /\ Len(bps) \in Nat /\ Len(free_) \in Nat
      /\ in_use \in [Nodes -> BOOLEAN]
      /\ DOMAIN InList = 1 .. Len(bps) /\ DOMAIN bps = 1 .. Len(bps)
      /\ DOMAIN free_ = 1 .. Len(free_)
      /\ \A i \in 1 .. Len(bps) : InList[i] = bps[i].NO /\ InList[i] \in Nodes
      /\ Parts(InList, free_, in_use)
  BY ListFacts
<1>3. InList \in Seq(Nodes) /\ Len(InList) = Len(bps)
  <2>1. InList = [i \in 1 .. Len(bps) |-> bps[i].NO]
    BY <1>2 DEF InList
  <2>2. \A i \in 1 .. Len(bps) : bps[i].NO \in Nodes
    BY <1>2
  <2>3. QED
    BY <1>2, <2>1, <2>2
<1>4. /\ DOMAIN (InList \o free_) = 1 .. Len(bps) + Len(free_)
      /\ \A j \in 1 .. Len(bps) + Len(free_) :
           (InList \o free_)[j] = IF j <= Len(bps) THEN InList[j] ELSE free_[j - Len(bps)]
  <2>1. /\ DOMAIN (InList \o free_) = 1 .. Len(InList) + Len(free_)
        /\ \A j \in 1 .. Len(InList) + Len(free_) :
             (InList \o free_)[j] =
               IF j <= Len(InList) THEN InList[j] ELSE free_[j - Len(InList)]
    BY <1>1, <1>3, Concat
  <2>2. QED
    BY <1>3, <2>1
<1>5. DOMAIN InList' = {} /\ DOMAIN bps' = {}
  BY DEF DeleteAll, InList
<1>6. Parts(InList', InList \o free_,
            [no \in Nodes |-> in_use[no] /\ \A i \in DOMAIN InList : InList[i] # no])
  <2>1. \A i \in DOMAIN InList : InList[i] \in Nodes
    BY <1>2
  <2>2. Joined(InList \o free_, InList, free_, Len(bps), Len(free_))
    BY <1>2, <1>4 DEF Joined
  <2>3. QED
    BY <1>2, <1>5, <2>1, <2>2, GiveAll
<1>7. /\ free_' = InList \o free_
      /\ in_use' = [no \in Nodes |->
                      in_use[no] /\ \A i \in DOMAIN InList : InList[i] # no]
  BY <1>2 DEF DeleteAll
<1>8. Parts(InList', free_', in_use')
  BY <1>6, <1>7
<1>9. QED
  BY <1>5, <1>8 DEF PoolPartition, Parts

LEMMA InitPool == Init => PoolPartition
<1> SUFFICES ASSUME Init PROVE PoolPartition
  OBVIOUS
<1>1. DOMAIN bps = {} /\ DOMAIN InList = {}
  BY DEF Init, InList
<1>2. /\ NR_BP \in Nat /\ DOMAIN free_ = 1 .. NR_BP
      /\ \A i \in 1 .. NR_BP : free_[i] = i - 1
  BY PoolAssumption DEF Init
<1>3. IsInjective(free_)
  <2>1. \A i, j \in 1 .. NR_BP : i - 1 = j - 1 => i = j
    BY <1>2
  <2>2. QED
    BY <1>2, <2>1 DEF IsInjective
<1>4. \A no \in Nodes : no + 1 \in 1 .. NR_BP /\ (no + 1) - 1 = no
  BY <1>2 DEF Nodes
<1>5. \A no \in Nodes : \E i \in DOMAIN free_ : free_[i] = no
  BY <1>2, <1>4
<1>6. QED
  BY <1>1, <1>3, <1>5 DEF Init, PoolPartition, IsInjective

(* No step changes which nodes are in the list but the commands that set   *)
(* and delete.                                                             *)
LEMMA StepPool ==
  ASSUME TypeOK, TypeOK', PoolPartition, [Next]_vars
  PROVE  PoolPartition'
<1>1. bps \in Seq(Entries) /\ free_ \in Seq(Nodes)
  BY DEF TypeOK, Entries
<1>2. ASSUME DOMAIN bps' = DOMAIN bps, UNCHANGED <<free_, in_use>>,
             \A i \in DOMAIN bps : bps'[i].NO = bps[i].NO
      PROVE  PoolPartition'
  <2>1. InList' = InList
    BY <1>2 DEF InList
  <2>2. QED
    BY <1>2, <2>1 DEF PoolPartition, IsInjective
<1>3. CASE UNCHANGED pool
  BY <1>2, <1>3 DEF pool
<1>4. CASE CmdC \/ CmdSi \/ ExecHalted \/ ExecEnd \/ UNCHANGED vars
  BY <1>3, <1>4 DEF CmdC, CmdSi, StartExec, ExecHalted, ExecEnd, vars
<1>5. CASE CmdB
  <2>1. PICK a \in Addr :
          \/ /\ free_ # <<>>
             /\ NewBP([NO |-> 0, type |-> "B", addr |-> a,
                       ori_byte |-> mem[a], old_val |-> None])
          \/ NewBPFails
    BY <1>5 DEF CmdB
  <2>2. CASE NewBPFails
    BY <1>2, <2>2 DEF NewBPFails
  <2>3. CASE ~NewBPFails
    <3> DEFINE node == [NO |-> 0, type |-> "B", addr |-> a,
                        ori_byte |-> mem[a], old_val |-> None]
    <3>1. free_ # <<>> /\ NewBP(node)
      BY <2>1, <2>3
    <3>2. Head(free_) \in Nodes
      BY <1>1, <3>1
    <3>3. /\ [node EXCEPT !.NO = Head(free_)] \in Entries
          /\ [node EXCEPT !.NO = Head(free_)].NO = Head(free_)
      BY <3>2 DEF Entries, Bytes, TypeOK
    <3> HIDE DEF node
    <3>4. QED
      BY <3>1, <3>3, NewBPPool
  <2>4. QED
    BY <2>2, <2>3
<1>6. CASE CmdW
  <2>1. CASE NewBPFails
    BY <1>2, <2>1 DEF NewBPFails
  <2>2. CASE ~NewBPFails
    <3> DEFINE node == [NO |-> 0, type |-> "W", addr |-> None,
                        ori_byte |-> None, old_val |-> val]
    <3>1. free_ # <<>> /\ NewBP(node)
      BY <1>6, <2>2 DEF CmdW
    <3>2. Head(free_) \in Nodes
      BY <1>1, <3>1
    <3>3. /\ [node EXCEPT !.NO = Head(free_)] \in Entries
          /\ [node EXCEPT !.NO = Head(free_)].NO = Head(free_)
      BY <3>2 DEF Entries, Exprs, TypeOK
    <3> HIDE DEF node
    <3>4. QED
      BY <3>1, <3>3, NewBPPool
  <2>3. QED
    BY <2>1, <2>2
<1>7. CASE CmdD
  BY <1>7, DeletePool DEF CmdD
<1>8. CASE CmdDAll
  BY <1>8, DeleteAllPool DEF CmdDAll
<1>9. CASE ExecInst
  <2>1. UNCHANGED <<free_, in_use>>
    BY <1>9 DEF ExecInst
  <2>2. QED
    BY <1>2, <1>9, <2>1, InstList
<1>10. QED
  BY <1>4, <1>5, <1>6, <1>7, <1>8, <1>9 DEF Next

(* The pool is never corrupted: after any commands and any run of the      *)
(* guest, each node is in exactly one of the two lists.                    *)
THEOREM PoolSafe == Spec => []PoolPartition
<1>1. TypeOK /\ TypeOK' /\ PoolPartition /\ [Next]_vars => PoolPartition'
  BY StepPool
<1>2. QED
  BY TypeCorrect, InitPool, <1>1, PTL DEF Spec

-----------------------------------------------------------------------------
(* The guest's code.  CodeRecoverable is not inductive alone: that a       *)
(* breakpoint restores the right byte needs Originals, which a second      *)
(* breakpoint at an address would break by remembering an INT3.            *)
Originals ==
  \A i \in DOMAIN bps : bps[i].type = "B" => bps[i].ori_byte = Code[bps[i].addr]

CodeInv == Originals /\ CodeRecoverable

(* CodeRecoverable, with its breakpoint as a place of the list.            *)
LEMMA CodeFacts ==
  ASSUME TypeOK, CodeRecoverable, NEW a \in Addr, mem[a] # Code[a]
  PROVE  /\ mem[a] = INT3
         /\ \E i \in DOMAIN bps : /\ bps[i].type = "B" /\ bps[i].addr = a
                                 /\ bps[i].ori_byte = Code[a]
  BY DEF CodeRecoverable, BreakpointsAt, Breakpoints

(* A step after which every breakpoint remembers its byte, and every byte  *)
(* that is not the guest's own is planted by a breakpoint of the new list. *)
LEMMA CodeIntro ==
  ASSUME Originals',
         \A a \in Addr : mem'[a] # Code[a] =>
           /\ mem'[a] = INT3
           /\ \E i \in DOMAIN bps' : bps'[i].type = "B" /\ bps'[i].addr = a
  PROVE  CodeInv'
  BY DEF CodeInv, Originals, CodeRecoverable, BreakpointsAt, Breakpoints

LEMMA SetCode ==
  ASSUME TypeOK, CodeInv, CmdB, Duplicates = FALSE
  PROVE  CodeInv'
<1>1. bps \in Seq(Entries) /\ free_ \in Seq(Nodes)
  BY DEF TypeOK, Entries
<1>2. PICK a \in Addr :
        /\ Duplicates \/ (mem[a] # INT3 /\ BreakpointsAt(a) = {})
        /\ \/ /\ free_ # <<>>
              /\ NewBP([NO |-> 0, type |-> "B", addr |-> a,
                        ori_byte |-> mem[a], old_val |-> None])
              /\ mem' = [mem EXCEPT ![a] = INT3]
           \/ /\ free_ = <<>>
              /\ NewBPFails
              /\ UNCHANGED mem
  BY DEF CmdB
<1>3. mem[a] = Code[a]
  BY <1>2 DEF CodeInv, CodeRecoverable
<1>4. CASE UNCHANGED <<bps, mem>>
  BY <1>4 DEF CodeInv, Originals, CodeRecoverable, BreakpointsAt, Breakpoints
<1>5. CASE ~UNCHANGED <<bps, mem>>
  <2> DEFINE node == [NO |-> 0, type |-> "B", addr |-> a,
                      ori_byte |-> mem[a], old_val |-> None]
             m == [node EXCEPT !.NO = Head(free_)]
  <2>1. free_ # <<>> /\ NewBP(node) /\ mem' = [mem EXCEPT ![a] = INT3]
    BY <1>2, <1>5 DEF NewBPFails
  <2>2. bps' = <<m>> \o bps
    BY <2>1 DEF NewBP
  <2>3. Head(free_) \in Nodes
    BY <1>1, <2>1
  <2>4. m \in Entries /\ m.type = "B" /\ m.addr = a /\ m.ori_byte = Code[a]
    BY <1>3, <2>3 DEF TypeOK, Entries, Bytes
  <2> HIDE DEF node, m
  <2>5. /\ Len(bps) \in Nat /\ DOMAIN bps = 1 .. Len(bps)
        /\ DOMAIN bps' = 1 .. Len(bps) + 1
        /\ bps'[1] = m
        /\ \A i \in 1 .. Len(bps) : bps'[i + 1] = bps[i]
    BY <1>1, <2>2, <2>4, Cons
  <2>6. \A i \in 1 .. Len(bps) + 1 : i # 1 => i - 1 \in 1 .. Len(bps) /\ bps'[i] = bps[i - 1]
    BY <2>5, Shift
  <2>7. Originals'
    <3>1. ASSUME NEW i \in DOMAIN bps', bps'[i].type = "B"
          PROVE  bps'[i].ori_byte = Code[bps'[i].addr]
      <4>1. CASE i = 1
        BY <2>4, <2>5, <4>1
      <4>2. CASE i # 1
        <5>1. i - 1 \in DOMAIN bps /\ bps'[i] = bps[i - 1]
          BY <2>5, <2>6, <4>2
        <5>2. QED
          BY <3>1, <5>1 DEF CodeInv, Originals
      <4>3. QED
        BY <4>1, <4>2
    <3>2. QED
      BY <3>1 DEF Originals
  <2>8. ASSUME NEW b \in Addr, mem'[b] # Code[b]
        PROVE  /\ mem'[b] = INT3
               /\ \E i \in DOMAIN bps' : bps'[i].type = "B" /\ bps'[i].addr = b
    <3>1. CASE b = a
      <4>1. 1 \in DOMAIN bps'
        BY <2>5
      <4>2. mem'[a] = INT3
        BY <2>1 DEF TypeOK
      <4>3. QED
        BY <2>4, <2>5, <3>1, <4>1, <4>2
    <3>2. CASE b # a
      <4>1. mem'[b] = mem[b]
        BY <2>1, <3>2 DEF TypeOK
      <4>2. /\ mem[b] = INT3
            /\ \E i \in DOMAIN bps : bps[i].type = "B" /\ bps[i].addr = b
        BY <2>8, <4>1, CodeFacts DEF CodeInv
      <4>3. \A i \in DOMAIN bps : i + 1 \in DOMAIN bps' /\ bps'[i + 1] = bps[i]
        BY <2>5
      <4>4. QED
        BY <4>1, <4>2, <4>3
    <3>3. QED
      BY <3>1, <3>2
  <2>9. QED
    BY <2>7, <2>8, CodeIntro
<1>6. QED
  BY <1>4, <1>5

LEMMA DeleteCode ==
  ASSUME TypeOK, CodeInv, NEW k \in DOMAIN bps, DeleteBP(k)
  PROVE  CodeInv'
<1>1. bps \in Seq(Entries)
  BY DEF TypeOK, Entries
<1>2. k \in 1 .. Len(bps) /\ Len(bps) \in Nat /\ DOMAIN bps = 1 .. Len(bps)
  BY <1>1
<1>3. /\ DOMAIN bps' = 1 .. Len(bps) - 1
      /\ \A j \in 1 .. Len(bps) - 1 :
           bps'[j] = IF j < k THEN bps[j] ELSE bps[j + 1]
  BY <1>1, <1>2, Remove DEF DeleteBP
<1>4. \A j \in DOMAIN bps' : \E i \in DOMAIN bps : bps'[j] = bps[i]
  <2>1. \A j \in 1 .. Len(bps) - 1 : j \in 1 .. Len(bps) /\ j + 1 \in 1 .. Len(bps)
    BY <1>2
  <2>2. QED
    BY <1>2, <1>3, <2>1
<1>5. \A i \in DOMAIN bps : i # k => \E j \in DOMAIN bps' : bps'[j] = bps[i]
  <2>1. \A i \in 1 .. Len(bps) : i < k => i \in 1 .. Len(bps) - 1 /\ bps'[i] = bps[i]
    BY <1>2, <1>3
  <2>2. ASSUME NEW i \in 1 .. Len(bps), i > k
        PROVE  i - 1 \in 1 .. Len(bps) - 1 /\ bps'[i - 1] = bps[i]
    <3>1. i - 1 \in 1 .. Len(bps) - 1 /\ ~(i - 1 < k) /\ (i - 1) + 1 = i
      BY <1>2, <2>2
    <3>2. bps'[i - 1] = bps[(i - 1) + 1]
      BY <1>3, <3>1
    <3>3. QED
      BY <3>1, <3>2
  <2>3. \A i \in 1 .. Len(bps) : i # k => i < k \/ i > k
    BY <1>2
  <2>4. QED
    BY <1>2, <1>3, <2>1, <2>2, <2>3
<1>6. Originals'
  BY <1>4 DEF CodeInv, Originals
<1>7. ASSUME NEW a \in Addr, mem'[a] # Code[a]
      PROVE  /\ mem'[a] = INT3
             /\ \E i \in DOMAIN bps' : bps'[i].type = "B" /\ bps'[i].addr = a
  <2>1. ~(bps[k].type = "B" /\ bps[k].addr = a)
    <3>1. bps[k].type = "B" /\ bps[k].addr = a => mem'[a] = Code[a]
      BY DEF CodeInv, Originals, DeleteBP, Unplant, TypeOK
    <3>2. QED
      BY <1>7, <3>1
  <2>2. mem'[a] = mem[a]
    BY <2>1, NodeTypes DEF DeleteBP, Unplant, TypeOK
  <2>3. PICK i \in DOMAIN bps : bps[i].type = "B" /\ bps[i].addr = a
    BY <1>7, <2>2, CodeFacts DEF CodeInv
  <2>4. mem[a] = INT3
    BY <1>7, <2>2, CodeFacts DEF CodeInv
  <2>5. i # k
    BY <2>1, <2>3
  <2>6. QED
    BY <1>5, <2>2, <2>3, <2>4, <2>5
<1>8. QED
  BY <1>6, <1>7, CodeIntro

LEMMA StepCode ==
  ASSUME TypeOK, CodeInv, [Next]_vars, Duplicates = FALSE
  PROVE  CodeInv'
<1>1. bps \in Seq(Entries)
  BY DEF TypeOK, Entries
<1>2. CASE UNCHANGED <<bps, mem>>
  BY <1>2 DEF CodeInv, Originals, CodeRecoverable, BreakpointsAt, Breakpoints
<1>3. CASE CmdC \/ CmdSi \/ ExecHalted \/ ExecEnd \/ UNCHANGED vars
  BY <1>2, <1>3 DEF CmdC, CmdSi, StartExec, ExecHalted, ExecEnd, vars, pool
<1>4. CASE CmdB
  BY <1>4, SetCode
<1>5. CASE CmdD
  BY <1>5, DeleteCode DEF CmdD
<1>6. CASE CmdW
  <2>1. CASE NewBPFails
    BY <1>2, <1>6, <2>1 DEF CmdW, NewBPFails
  <2>2. CASE ~NewBPFails
    <3> DEFINE node == [NO |-> 0, type |-> "W", addr |-> None,
                        ori_byte |-> None, old_val |-> val]
               m == [node EXCEPT !.NO = Head(free_)]
    <3>1. free_ # <<>> /\ NewBP(node) /\ UNCHANGED mem
      BY <1>6, <2>2 DEF CmdW
    <3>2. Head(free_) \in Nodes
      BY <3>1 DEF TypeOK
    <3>3. m \in Entries /\ m.type = "W" /\ bps' = <<m>> \o bps
      BY <3>1, <3>2 DEF TypeOK, Entries, Exprs, NewBP
    <3> HIDE DEF node, m
    <3>4. /\ Len(bps) \in Nat /\ DOMAIN bps = 1 .. Len(bps)
          /\ DOMAIN bps' = 1 .. Len(bps) + 1 /\ bps'[1] = m
          /\ \A i \in 1 .. Len(bps) : bps'[i + 1] = bps[i]
      BY <1>1, <3>3, Cons
    <3>5. \A i \in 1 .. Len(bps) + 1 :
            i # 1 => i - 1 \in 1 .. Len(bps) /\ bps'[i] = bps[i - 1]
      BY <3>4, Shift
    <3>6. Originals'
      BY <3>3, <3>4, <3>5 DEF CodeInv, Originals
    <3>7. \A i \in DOMAIN bps : i + 1 \in DOMAIN bps' /\ bps'[i + 1] = bps[i]
      BY <3>4
    <3>8. ASSUME NEW a \in Addr, mem'[a] # Code[a]
          PROVE  /\ mem'[a] = INT3
                 /\ \E i \in DOMAIN bps' : bps'[i].type = "B" /\ bps'[i].addr = a
      BY <3>1, <3>7, <3>8, CodeFacts DEF CodeInv
    <3>9. QED
      BY <3>6, <3>8, CodeIntro
  <2>3. QED
    BY <2>1, <2>2
<1>7. CASE CmdDAll
  <2>1. DOMAIN bps' = {}
    BY <1>7 DEF CmdDAll, DeleteAll
  <2>2. ASSUME NEW a \in Addr
        PROVE  mem'[a] = Code[a]
    <3>1. CASE BreakpointsAt(a) = {}
      <4>1. mem[a] = Code[a]
        BY <3>1 DEF CodeInv, CodeRecoverable
      <4>2. QED
        BY <1>7, <3>1, <4>1 DEF CmdDAll, DeleteAll
    <3>2. CASE BreakpointsAt(a) # {}
      <4>1. BreakpointsAt(a) \in SUBSET Nat
        BY <1>1 DEF BreakpointsAt, Breakpoints
      <4>2. First(BreakpointsAt(a)) \in BreakpointsAt(a)
        BY <3>2, <4>1, FirstIn
      <4>3. bps[First(BreakpointsAt(a))].ori_byte = Code[a]
        BY <4>2 DEF BreakpointsAt, Breakpoints, CodeInv, Originals
      <4>4. QED
        BY <1>7, <3>2, <4>3 DEF CmdDAll, DeleteAll
    <3>3. QED
      BY <3>1, <3>2
  <2>3. Originals'
    BY <2>1 DEF Originals
  <2>4. QED
    BY <2>2, <2>3, CodeIntro
<1>8. CASE ExecInst
  <2>1. /\ DOMAIN bps' = DOMAIN bps
        /\ \A i \in DOMAIN bps : /\ bps'[i].type = bps[i].type
                                /\ bps'[i].addr = bps[i].addr
                                /\ bps'[i].ori_byte = bps[i].ori_byte
    BY <1>8, InstList
  <2>2. Originals'
    BY <2>1 DEF CodeInv, Originals
  <2>3. ASSUME NEW a \in Addr, mem'[a] # Code[a]
        PROVE  /\ mem'[a] = INT3
               /\ \E i \in DOMAIN bps' : bps'[i].type = "B" /\ bps'[i].addr = a
    <3>1. CASE BreakpointsAt(a) # {}
      <4>1. BreakpointsAt(a) \in SUBSET Nat
        BY <1>1 DEF BreakpointsAt, Breakpoints
      <4>2. First(BreakpointsAt(a)) \in BreakpointsAt(a)
        BY <3>1, <4>1, FirstIn
      <4>3. bps[First(BreakpointsAt(a))].ori_byte = Code[a]
        BY <4>2 DEF BreakpointsAt, Breakpoints, CodeInv, Originals
      <4>4. mem'[a] = mem[a] \/ mem'[a] = INT3
        BY <1>8, <2>3, <4>3, InstMemory
      <4>5. mem'[a] = INT3
        BY <2>3, <4>4, CodeFacts DEF CodeInv
      <4>6. QED
        BY <2>1, <4>2, <4>5 DEF BreakpointsAt, Breakpoints
    <3>2. CASE BreakpointsAt(a) = {}
      <4>1. mem'[a] = mem[a]
        BY <1>8, <3>2, InstMemory
      <4>2. QED
        BY <2>1, <2>3, <4>1, CodeFacts DEF CodeInv
    <3>3. QED
      BY <3>1, <3>2
  <2>4. QED
    BY <2>2, <2>3, CodeIntro
<1>9. QED
  BY <1>3, <1>4, <1>5, <1>6, <1>7, <1>8 DEF Next

(* A user who never sets a breakpoint where there already is an INT3 can   *)
(* always have the guest's own code back, whatever runs in between.        *)
THEOREM CodeSafe ==
  ASSUME Duplicates = FALSE
  PROVE  Spec => []CodeRecoverable
<1>1. Init => CodeInv
  BY DEF Init, CodeInv, Originals, CodeRecoverable
<1>2. TypeOK /\ CodeInv /\ [Next]_vars => CodeInv'
  BY StepCode
<1>3. CodeInv => CodeRecoverable
  BY DEF CodeInv
<1>4. QED
  BY TypeCorrect, <1>1, <1>2, <1>3, PTL DEF Spec

-----------------------------------------------------------------------------
(* Where the breakpoints are planted, which one is owed an instruction, and*)
(* what the newest watchpoint remembers.  The steps change the list in     *)
(* three ways.                                                             *)
Pushed(m) == m \in Entries /\ bps' = <<m>> \o bps

LEMMA PushedFacts ==
  ASSUME TypeOK, NEW m, Pushed(m)
  PROVE  /\ 1 \in DOMAIN bps' /\ bps'[1] = m
         /\ \A i \in DOMAIN bps' : i # 1 => i - 1 \in DOMAIN bps /\ bps'[i] = bps[i - 1]
         /\ \A i \in DOMAIN bps : i + 1 \in DOMAIN bps' /\ bps'[i + 1] = bps[i]
         /\ DOMAIN bps \subseteq Nat \ {0} /\ DOMAIN bps' \subseteq Nat \ {0}
<1>1. bps \in Seq(Entries) /\ m \in Entries /\ bps' = <<m>> \o bps
  BY DEF TypeOK, Entries, Pushed
<1>2. /\ Len(bps) \in Nat /\ DOMAIN bps = 1 .. Len(bps)
      /\ DOMAIN bps' = 1 .. Len(bps) + 1
      /\ bps'[1] = m
      /\ \A i \in 1 .. Len(bps) : bps'[i + 1] = bps[i]
  BY <1>1, Cons
<1>3. \A i \in 1 .. Len(bps) + 1 : i # 1 => i - 1 \in 1 .. Len(bps) /\ bps'[i] = bps[i - 1]
  BY <1>2, Shift
<1>4. \A i \in 1 .. Len(bps) : i + 1 \in 1 .. Len(bps) + 1
  BY <1>2
<1>5. 1 \in 1 .. Len(bps) + 1
  BY <1>2
<1>6. 1 .. Len(bps) \subseteq Nat \ {0} /\ 1 .. Len(bps) + 1 \subseteq Nat \ {0}
  BY <1>2
<1>7. QED
  BY <1>2, <1>3, <1>4, <1>5, <1>6

(* The place in the list before node k was deleted.                        *)
Before(j, k) == IF j < k THEN j ELSE j + 1

LEMMA DeletedFacts ==
  ASSUME TypeOK, NEW k \in DOMAIN bps, DeleteBP(k)
  PROVE  /\ \A j \in DOMAIN bps' : /\ Before(j, k) \in DOMAIN bps /\ Before(j, k) # k
                                   /\ bps'[j] = bps[Before(j, k)]
         /\ \A i, j \in DOMAIN bps' : Before(i, k) = Before(j, k) => i = j
         /\ \A i \in DOMAIN bps : i # k => \E j \in DOMAIN bps' : bps'[j] = bps[i]
<1>1. bps \in Seq(Entries)
  BY DEF TypeOK, Entries
<1>2. k \in 1 .. Len(bps) /\ Len(bps) \in Nat /\ DOMAIN bps = 1 .. Len(bps)
  BY <1>1
<1>3. /\ DOMAIN bps' = 1 .. Len(bps) - 1
      /\ \A j \in 1 .. Len(bps) - 1 :
           bps'[j] = IF j < k THEN bps[j] ELSE bps[j + 1]
  BY <1>1, <1>2, Remove DEF DeleteBP
<1>4. \A j \in 1 .. Len(bps) - 1 : Before(j, k) \in 1 .. Len(bps) /\ Before(j, k) # k
  BY <1>2 DEF Before
<1>5. \A j \in 1 .. Len(bps) - 1 : bps'[j] = bps[Before(j, k)]
  BY <1>3 DEF Before
<1>6. \A i, j \in 1 .. Len(bps) - 1 : Before(i, k) = Before(j, k) => i = j
  BY <1>2 DEF Before
<1>7. ASSUME NEW i \in 1 .. Len(bps), i # k
      PROVE  \E j \in 1 .. Len(bps) - 1 : bps'[j] = bps[i]
  <2>1. CASE i < k
    <3>1. i \in 1 .. Len(bps) - 1 /\ Before(i, k) = i
      BY <1>2, <2>1 DEF Before
    <3>2. QED
      BY <1>5, <3>1
  <2>2. CASE i > k
    <3>1. i - 1 \in 1 .. Len(bps) - 1 /\ Before(i - 1, k) = i
      BY <1>2, <2>2 DEF Before
    <3>2. QED
      BY <1>5, <3>1
  <2>3. QED
    BY <1>2, <1>7, <2>1, <2>2
<1>8. QED
  BY <1>2, <1>3, <1>4, <1>5, <1>6, <1>7

(* What b and w put in front of the list.                                  *)
LEMMA SetPushes ==
  ASSUME TypeOK, CmdB
  PROVE  \/ UNCHANGED <<bps, mem>>
         \/ \E a \in Addr : \E m \in Entries :
              /\ Duplicates \/ (mem[a] # INT3 /\ BreakpointsAt(a) = {})
              /\ Pushed(m) /\ mem' = [mem EXCEPT ![a] = INT3]
              /\ m.type = "B" /\ m.addr = a /\ m.ori_byte = mem[a]
<1>1. PICK a \in Addr :
        /\ Duplicates \/ (mem[a] # INT3 /\ BreakpointsAt(a) = {})
        /\ \/ /\ free_ # <<>>
              /\ NewBP([NO |-> 0, type |-> "B", addr |-> a,
                        ori_byte |-> mem[a], old_val |-> None])
              /\ mem' = [mem EXCEPT ![a] = INT3]
           \/ /\ free_ = <<>>
              /\ NewBPFails
              /\ UNCHANGED mem
  BY DEF CmdB
<1>2. CASE free_ = <<>>
  BY <1>1, <1>2 DEF NewBPFails
<1>3. CASE free_ # <<>>
  <2> DEFINE node == [NO |-> 0, type |-> "B", addr |-> a,
                      ori_byte |-> mem[a], old_val |-> None]
             m == [node EXCEPT !.NO = Head(free_)]
  <2>1. NewBP(node) /\ mem' = [mem EXCEPT ![a] = INT3] /\ Head(free_) \in Nodes
    BY <1>1, <1>3 DEF TypeOK
  <2>2. bps' = <<m>> \o bps
    BY <2>1 DEF NewBP
  <2>3. m \in Entries /\ m.type = "B" /\ m.addr = a /\ m.ori_byte = mem[a]
    BY <2>1 DEF TypeOK, Entries, Bytes
  <2> HIDE DEF node, m
  <2>4. QED
    BY <1>1, <2>1, <2>2, <2>3 DEF Pushed
<1>4. QED
  BY <1>2, <1>3

LEMMA WatchPushes ==
  ASSUME TypeOK, CmdW
  PROVE  /\ mem' = mem
         /\ \/ bps' = bps
            \/ \E m \in Entries : Pushed(m) /\ m.type = "W" /\ m.old_val = val
<1>1. CASE NewBPFails
  BY <1>1 DEF CmdW, NewBPFails
<1>2. CASE ~NewBPFails
  <2> DEFINE node == [NO |-> 0, type |-> "W", addr |-> None,
                      ori_byte |-> None, old_val |-> val]
             m == [node EXCEPT !.NO = Head(free_)]
  <2>1. free_ # <<>> /\ NewBP(node) /\ UNCHANGED mem
    BY <1>2 DEF CmdW
  <2>2. Head(free_) \in Nodes
    BY <2>1 DEF TypeOK
  <2>3. m \in Entries /\ m.type = "W" /\ m.old_val = val /\ bps' = <<m>> \o bps
    BY <2>1, <2>2 DEF TypeOK, Entries, Exprs, NewBP
  <2> HIDE DEF node, m
  <2>4. QED
    BY <2>1, <2>3 DEF Pushed
<1>3. QED
  BY <1>1, <1>2

(* The steps that leave the list and the guest's code alone.               *)
LEMMA QuietSteps ==
  ASSUME CmdC \/ CmdSi \/ ExecHalted \/ ExecEnd \/ UNCHANGED vars
  PROVE  UNCHANGED <<bps, mem, val, owed, session>>
BY DEF CmdC, CmdSi, StartExec, ExecHalted, ExecEnd, vars, pool, guest, loop

-----------------------------------------------------------------------------
(* No two breakpoints share an address.                                    *)
Apart ==
  \A i, j \in DOMAIN bps :
    bps[i].type = "B" /\ bps[j].type = "B" /\ bps[i].addr = bps[j].addr => i = j

LEMMA StepApart ==
  ASSUME TypeOK, Apart, [Next]_vars, Duplicates = FALSE
  PROVE  Apart'
<1>1. CASE bps' = bps
  BY <1>1 DEF Apart
<1>2. ASSUME NEW m, Pushed(m),
             m.type = "B" => \A i \in DOMAIN bps : bps[i].type = "B" => bps[i].addr # m.addr
      PROVE  Apart'
  <2>1. ASSUME NEW i \in DOMAIN bps', NEW j \in DOMAIN bps',
               bps'[i].type = "B", bps'[j].type = "B", bps'[i].addr = bps'[j].addr
        PROVE  i = j
    <3>1. CASE i = 1 /\ j = 1
      BY <3>1
    <3>2. CASE i = 1 /\ j # 1
      BY <1>2, <2>1, <3>2, PushedFacts
    <3>3. CASE i # 1 /\ j = 1
      BY <1>2, <2>1, <3>3, PushedFacts
    <3>4. CASE i # 1 /\ j # 1
      <4>1. /\ i - 1 \in DOMAIN bps /\ bps'[i] = bps[i - 1]
            /\ j - 1 \in DOMAIN bps /\ bps'[j] = bps[j - 1]
            /\ i \in Nat /\ j \in Nat
        BY <1>2, <3>4, PushedFacts
      <4>2. i - 1 = j - 1
        BY <2>1, <4>1 DEF Apart
      <4>3. QED
        BY <4>1, <4>2
    <3>5. QED
      BY <3>1, <3>2, <3>3, <3>4
  <2>2. QED
    BY <2>1 DEF Apart
<1>3. CASE CmdB
  <2>1. CASE bps' # bps
    <3>1. PICK a \in Addr : \E m \in Entries :
            /\ BreakpointsAt(a) = {} /\ Pushed(m) /\ m.type = "B" /\ m.addr = a
      BY <1>3, <2>1, SetPushes
    <3>2. QED
      BY <1>2, <3>1 DEF BreakpointsAt, Breakpoints
  <2>2. QED
    BY <1>1, <2>1
<1>4. CASE CmdW
  BY <1>1, <1>2, <1>4, WatchPushes
<1>5. CASE CmdD
  <2>1. PICK k \in DOMAIN bps : DeleteBP(k)
    BY <1>5 DEF CmdD
  <2>2. QED
    BY <2>1, DeletedFacts DEF Apart
<1>6. CASE CmdDAll
  <2>1. DOMAIN bps' = {}
    BY <1>6 DEF CmdDAll, DeleteAll
  <2>2. QED
    BY <2>1 DEF Apart
<1>7. CASE ExecInst
  BY <1>7, InstList DEF Apart
<1>8. QED
  BY <1>1, <1>3, <1>4, <1>5, <1>6, <1>7, QuietSteps DEF Next

LEMMA SessionKept ==
  ASSUME [Next]_vars
  PROVE  session' = session
BY DEF Next, CmdC, CmdSi, CmdB, CmdW, CmdD, CmdDAll, StartExec, ExecInst,
       ExecHalted, ExecEnd, vars

-----------------------------------------------------------------------------
(* Every breakpoint is planted.                                            *)
Armed == \A i \in DOMAIN bps : bps[i].type = "B" => mem[bps[i].addr] = INT3

(* A session that only sets, deletes and continues leaves the loop only at *)
(* a breakpoint or at the guest's end, so that between two commands only   *)
(* the breakpoint that was hit can be lifted, and the next continue plants *)
(* it again after its first instruction.                                   *)
OnlyContinues == session.cmds \cap {"si", "w"} = {}

ArmInv ==
  /\ \A i \in DOMAIN bps : bps[i].type = "B"
  /\ mode = "exec" => n = Unlimited
  /\ hit_break_rerun => mode = "exec" /\ nemu_state = "RUN"
  /\ nemu_state # "BREAK" /\ ~hit_break_rerun => Armed

LEMMA CommandArm ==
  ASSUME TypeOK, Apart, OnlyContinues, ArmInv,
         CmdC \/ CmdSi \/ CmdB \/ CmdW \/ CmdD \/ CmdDAll
  PROVE  ArmInv'
<1>1. CASE CmdC
  <2>1. UNCHANGED <<bps, mem>> /\ mode = "ui"
    BY <1>1 DEF CmdC, StartExec, pool, AtPrompt
  <2>2. /\ hit_break_rerun' = (nemu_state = "BREAK") /\ nemu_state' = "RUN"
        /\ mode' = "exec" /\ n' = Unlimited
    BY <1>1 DEF CmdC, StartExec
  <2>3. QED
    BY <2>1, <2>2 DEF ArmInv, Armed, Unlimited
<1>2. CASE CmdSi \/ CmdW
  BY <1>2 DEF OnlyContinues, CmdSi, CmdW, AtPrompt
<1>3. CASE CmdB \/ CmdD \/ CmdDAll
  <2>1. mode = "ui" /\ UNCHANGED <<mode, n, nemu_state, hit_break_rerun>>
    BY <1>3 DEF CmdB, CmdD, CmdDAll, AtPrompt, loop
  <2>2. ASSUME \A i \in DOMAIN bps' : bps'[i].type = "B", Armed => Armed'
        PROVE  ArmInv'
    BY <2>1, <2>2 DEF ArmInv
  <2>3. CASE UNCHANGED <<bps, mem>>
    BY <2>2, <2>3 DEF ArmInv, Armed
  <2>4. CASE CmdB /\ ~UNCHANGED <<bps, mem>>
    <3>1. PICK a \in Addr : \E m \in Entries :
            /\ Pushed(m) /\ mem' = [mem EXCEPT ![a] = INT3]
            /\ m.type = "B" /\ m.addr = a
      BY <2>4, SetPushes
    <3>2. PICK m \in Entries : Pushed(m) /\ m.type = "B" /\ m.addr = a
      BY <3>1
    <3>3. \A b \in Addr : mem'[b] = IF b = a THEN INT3 ELSE mem[b]
      BY <3>1 DEF TypeOK
    <3>4. ASSUME NEW i \in DOMAIN bps'
          PROVE  /\ bps'[i].type = "B"
                 /\ Armed => mem'[bps'[i].addr] = INT3
      <4>1. CASE i = 1
        BY <3>2, <3>3, <4>1, PushedFacts
      <4>2. CASE i # 1
        <5>1. i - 1 \in DOMAIN bps /\ bps'[i] = bps[i - 1]
          BY <3>2, <4>2, PushedFacts
        <5>2. bps[i - 1].type = "B"
          BY <5>1 DEF ArmInv
        <5>3. bps[i - 1].addr \in Addr
          BY <5>1, <5>2, NodeTypes DEF Bytes
        <5>4. Armed => mem[bps[i - 1].addr] = INT3
          BY <5>1, <5>2 DEF Armed
        <5>5. QED
          BY <3>3, <5>1, <5>2, <5>3, <5>4
      <4>3. QED
        BY <4>1, <4>2
    <3>5. QED
      BY <2>2, <3>4 DEF Armed
  <2>5. CASE CmdD
    <3>1. PICK k \in DOMAIN bps : DeleteBP(k)
      BY <2>5 DEF CmdD
    <3>2. ASSUME NEW i \in DOMAIN bps, i # k
          PROVE  mem'[bps[i].addr] = mem[bps[i].addr]
      <4>1. bps[i].type = "B" /\ bps[k].type = "B"
        BY DEF ArmInv
      <4>2. bps[i].addr # bps[k].addr
        BY <3>2, <4>1 DEF Apart
      <4>3. QED
        BY <3>1, <4>1, <4>2, NodeTypes DEF DeleteBP, Unplant, TypeOK, Bytes
    <3>3. ASSUME NEW j \in DOMAIN bps'
          PROVE  /\ bps'[j].type = "B"
                 /\ Armed => mem'[bps'[j].addr] = INT3
      <4>1. PICK i \in DOMAIN bps : i # k /\ bps'[j] = bps[i]
        BY <3>1, DeletedFacts
      <4>2. QED
        BY <3>2, <4>1 DEF Armed, ArmInv
    <3>4. QED
      BY <2>2, <3>3 DEF Armed
  <2>6. CASE CmdDAll
    <3>1. DOMAIN bps' = {}
      BY <2>6 DEF CmdDAll, DeleteAll
    <3>2. QED
      BY <2>2, <3>1 DEF Armed
  <2>7. QED
    BY <1>3, <2>3, <2>4, <2>5, <2>6
<1>4. QED
  BY <1>1, <1>2, <1>3

LEMMA ExecArm ==
  ASSUME TypeOK, ArmInv, ExecInst \/ ExecHalted \/ ExecEnd
  PROVE  ArmInv'
<1>1. CASE ExecInst
  <2>1. n = Unlimited /\ nemu_state = "RUN" /\ mode = "exec"
    BY <1>1 DEF ExecInst, Running, ArmInv
  <2>2. n' = Unlimited /\ ~hit_break_rerun' /\ mode' = mode
    BY <1>1, <2>1 DEF ExecInst
  <2>3. Watchpoints = {}
    BY DEF Watchpoints, ArmInv
  <2>4. PICK s \in Effects :
          /\ mem' = IF HitAt(s.state) # {}
                    THEN [(IF hit_break_rerun THEN Resumed(mem) ELSE mem)
                            EXCEPT ![eip] = bps[First(HitAt(s.state))].ori_byte]
                    ELSE IF hit_break_rerun THEN Resumed(mem) ELSE mem
          /\ nemu_state' = s.state /\ bps' = bps
    BY <1>1, <2>3 DEF ExecInst, Changed
  <2>5. ASSUME nemu_state' # "BREAK" PROVE Armed'
    <3>1. mem' = IF hit_break_rerun THEN Resumed(mem) ELSE mem
      BY <2>4, <2>5 DEF HitAt
    <3>2. CASE hit_break_rerun
      <4>1. ASSUME NEW i \in DOMAIN bps
            PROVE  mem'[bps[i].addr] = INT3
        <5>1. bps[i].addr \in Addr /\ i \in BreakpointsAt(bps[i].addr)
          BY NodeTypes DEF ArmInv, Bytes, BreakpointsAt, Breakpoints
        <5>2. QED
          BY <3>1, <3>2, <5>1 DEF Resumed
      <4>2. QED
        BY <2>4, <4>1 DEF Armed
    <3>3. CASE ~hit_break_rerun
      BY <2>1, <2>4, <3>1, <3>3 DEF Armed, ArmInv
    <3>4. QED
      BY <3>2, <3>3
  <2>6. QED
    BY <2>2, <2>4, <2>5 DEF ArmInv, Unlimited
<1>2. CASE ExecHalted
  BY <1>2 DEF ExecHalted, pool, loop, ArmInv, Armed, Unlimited
<1>3. CASE ExecEnd
  <2>1. n = Unlimited /\ n > 0
    BY <1>3, GuestAssumption DEF ExecEnd, ArmInv, Unlimited
  <2>2. nemu_state # "RUN" /\ nemu_state' = nemu_state /\ mode' # "exec"
    BY <1>3, <2>1 DEF ExecEnd, Running
  <2>3. UNCHANGED <<bps, mem, hit_break_rerun>>
    BY <1>3 DEF ExecEnd, pool
  <2>4. QED
    BY <2>2, <2>3 DEF ArmInv, Armed
<1>4. QED
  BY <1>1, <1>2, <1>3

(* In a session that only sets, deletes and continues, the guest never     *)
(* runs past a breakpoint that is not planted: whatever is hit and deleted *)
(* in between, each continue plants every breakpoint again after the one   *)
(* instruction that it executes first.                                     *)
THEOREM ArmedSafe ==
  ASSUME Duplicates = FALSE
  PROVE  Spec => []ArmedOnContinue
<1> DEFINE Inv == Apart /\ (OnlyContinues => ArmInv)
<1>1. Init => Inv
  BY GuestAssumption DEF Init, Apart, ArmInv, Armed
<1>2. TypeOK /\ Inv /\ [Next]_vars => Inv'
  <2> SUFFICES ASSUME TypeOK, Inv, [Next]_vars PROVE Inv'
    OBVIOUS
  <2>1. Apart' /\ (OnlyContinues' <=> OnlyContinues)
    BY StepApart, SessionKept DEF OnlyContinues
  <2>2. ASSUME OnlyContinues PROVE ArmInv'
    <3>1. ArmInv
      BY <2>2
    <3>2. CASE UNCHANGED vars
      BY <3>1, <3>2 DEF vars, pool, loop, ArmInv, Armed, Unlimited
    <3>3. QED
      BY <2>2, <3>1, <3>2, CommandArm, ExecArm DEF Next
  <2>3. QED
    BY <2>1, <2>2
<1>3. TypeOK /\ Inv => ArmedOnContinue
  <2> SUFFICES ASSUME TypeOK, Inv, OnlyContinues, Running, ~hit_break_rerun
               PROVE  \A i \in Breakpoints : mem[bps[i].addr] = INT3
    BY DEF ArmedOnContinue, BreakpointsArmed, OnlyContinues
  <2>1. QED
    BY DEF Running, ArmInv, Armed, Breakpoints
<1>4. QED
  BY TypeCorrect, <1>1, <1>2, <1>3, PTL DEF Spec

-----------------------------------------------------------------------------
(* What is owed.  A breakpoint lifted by a hit is still in the list, the   *)
(* guest stands at it, and the byte there is not an INT3: it can be        *)
(* executed.  That needs the byte that a breakpoint remembers never to be  *)
(* an INT3 itself.                                                         *)
Lifts == \A i \in DOMAIN bps : bps[i].type = "B" => bps[i].ori_byte # INT3

OwedHere ==
  owed # None =>
    /\ owed = eip /\ mem[owed] # INT3
    /\ \E i \in DOMAIN bps : bps[i].type = "B" /\ bps[i].addr = owed

OwedInv == Lifts /\ (~session.interrupts => OwedHere)

LEMMA SetOwed ==
  ASSUME TypeOK, Duplicates = FALSE, OwedInv, CmdB
  PROVE  OwedInv'
<1>1. UNCHANGED <<session, eip, owed>>
  BY DEF CmdB, guest
<1>2. CASE UNCHANGED <<bps, mem>>
  BY <1>1, <1>2 DEF OwedInv, Lifts, OwedHere
<1>3. CASE ~UNCHANGED <<bps, mem>>
  <2>1. PICK a \in Addr, m \in Entries :
          /\ mem[a] # INT3 /\ BreakpointsAt(a) = {}
          /\ Pushed(m) /\ mem' = [mem EXCEPT ![a] = INT3]
          /\ m.type = "B" /\ m.addr = a /\ m.ori_byte = mem[a]
    BY <1>3, SetPushes
  <2>2. Lifts'
    <3>1. ASSUME NEW i \in DOMAIN bps', bps'[i].type = "B"
          PROVE  bps'[i].ori_byte # INT3
      <4>1. CASE i = 1
        BY <2>1, <4>1, PushedFacts
      <4>2. CASE i # 1
        <5>1. i - 1 \in DOMAIN bps /\ bps'[i] = bps[i - 1]
          BY <2>1, <4>2, PushedFacts
        <5>2. QED
          BY <3>1, <5>1 DEF OwedInv, Lifts
      <4>3. QED
        BY <4>1, <4>2
    <3>2. QED
      BY <3>1 DEF Lifts
  <2>3. ASSUME ~session.interrupts, owed # None
        PROVE  /\ owed = eip /\ mem'[owed] # INT3
               /\ \E i \in DOMAIN bps' : bps'[i].type = "B" /\ bps'[i].addr = owed
    <3>1. PICK i \in DOMAIN bps : bps[i].type = "B" /\ bps[i].addr = owed
      BY <2>3 DEF OwedInv, OwedHere
    <3>2. owed = eip /\ mem[owed] # INT3
      BY <2>3 DEF OwedInv, OwedHere
    <3>3. owed # a
      BY <2>1, <3>1 DEF BreakpointsAt, Breakpoints
    <3>4. mem'[owed] = mem[owed]
      BY <2>1, <3>3 DEF TypeOK
    <3>5. i + 1 \in DOMAIN bps' /\ bps'[i + 1] = bps[i]
      BY <2>1, PushedFacts
    <3>6. QED
      BY <3>1, <3>2, <3>4, <3>5
  <2>4. QED
    BY <1>1, <2>2, <2>3 DEF OwedInv, OwedHere
<1>4. QED
  BY <1>2, <1>3

LEMMA DeleteOwed ==
  ASSUME TypeOK, OwedInv, CmdD
  PROVE  OwedInv'
<1>1. PICK k \in DOMAIN bps :
        DeleteBP(k) /\ owed' = IF bps[k].addr = owed THEN None ELSE owed
  BY DEF CmdD
<1>2. UNCHANGED <<session, eip>>
  BY DEF CmdD, guest
<1>3. Lifts'
  BY <1>1, DeletedFacts DEF OwedInv, Lifts
<1>4. ASSUME ~session.interrupts, owed' # None
      PROVE  /\ owed' = eip /\ mem'[owed'] # INT3
             /\ \E j \in DOMAIN bps' : bps'[j].type = "B" /\ bps'[j].addr = owed'
  <2>1. owed' = owed /\ bps[k].addr # owed
    BY <1>1, <1>4
  <2>2. owed = eip /\ mem[owed] # INT3
    BY <1>4, <2>1 DEF OwedInv, OwedHere
  <2>3. PICK i \in DOMAIN bps : bps[i].type = "B" /\ bps[i].addr = owed
    BY <1>4, <2>1 DEF OwedInv, OwedHere
  <2>4. mem'[owed] = mem[owed]
    BY <1>1, <2>1, <2>2, NodeTypes DEF DeleteBP, Unplant, TypeOK
  <2>5. \E j \in DOMAIN bps' : bps'[j] = bps[i]
    BY <1>1, <2>1, <2>3, DeletedFacts
  <2>6. QED
    BY <2>1, <2>2, <2>3, <2>4, <2>5
<1>5. QED
  BY <1>2, <1>3, <1>4 DEF OwedInv, OwedHere

LEMMA InstOwed ==
  ASSUME TypeOK, OwedInv, ExecInst
  PROVE  OwedInv'
<1>1. /\ DOMAIN bps' = DOMAIN bps
      /\ \A i \in DOMAIN bps : /\ bps'[i].type = bps[i].type
                              /\ bps'[i].addr = bps[i].addr
                              /\ bps'[i].ori_byte = bps[i].ori_byte
  BY InstList
<1>2. Lifts'
  BY <1>1 DEF OwedInv, Lifts
<1>3. session' = session
  BY DEF ExecInst
<1>4. PICK s \in Effects :
        LET hit  == HitAt(s.state)
            next == IF hit # {} THEN eip ELSE s.eip
        IN /\ AfterInst(s)
           /\ mem' = IF hit # {}
                     THEN [(IF hit_break_rerun THEN Resumed(mem) ELSE mem)
                             EXCEPT ![eip] = bps[First(hit)].ori_byte]
                     ELSE IF hit_break_rerun THEN Resumed(mem) ELSE mem
           /\ owed' = CASE hit # {}    -> eip
                        [] eip = owed /\ s.state # "BREAK" -> None
                        [] OTHER       -> owed
           /\ DoIntr(next, s.saved, s.hlt) \/ eip' = next
  BY DEF ExecInst
<1>5. ASSUME ~session.interrupts, owed' # None
      PROVE  /\ owed' = eip' /\ mem'[owed'] # INT3
             /\ \E i \in DOMAIN bps' : bps'[i].type = "B" /\ bps'[i].addr = owed'
  <2>1. CASE HitAt(s.state) # {}
    <3>1. owed' = eip /\ eip' = eip
      BY <1>4, <1>5, <2>1 DEF DoIntr
    <3>2. HitAt(s.state) = BreakpointsAt(eip) /\ BreakpointsAt(eip) \in SUBSET Nat
      BY <2>1 DEF HitAt, BreakpointsAt, Breakpoints, TypeOK
    <3>3. First(BreakpointsAt(eip)) \in BreakpointsAt(eip)
      BY <2>1, <3>2, FirstIn
    <3>4. /\ First(BreakpointsAt(eip)) \in DOMAIN bps
          /\ bps[First(BreakpointsAt(eip))].type = "B"
          /\ bps[First(BreakpointsAt(eip))].addr = eip
      BY <3>3 DEF BreakpointsAt, Breakpoints
    <3>5. bps[First(BreakpointsAt(eip))].ori_byte # INT3
      BY <3>4 DEF OwedInv, Lifts
    <3>6. mem'[eip] = bps[First(BreakpointsAt(eip))].ori_byte
      <4>1. (IF hit_break_rerun THEN Resumed(mem) ELSE mem) \in [Addr -> Opcodes]
        BY DEF TypeOK, Resumed, Opcodes
      <4>2. eip \in Addr
        BY DEF TypeOK
      <4>3. QED
        BY <1>4, <2>1, <3>2, <4>1, <4>2
    <3>7. QED
      BY <1>1, <3>1, <3>4, <3>5, <3>6
  <2>2. CASE HitAt(s.state) = {}
    <3>1. owed' = owed /\ ~(eip = owed /\ s.state # "BREAK")
      BY <1>4, <1>5, <2>2
    <3>2. owed = eip /\ mem[eip] # INT3
      BY <1>5, <3>1 DEF OwedInv, OwedHere
    <3>3. s.state # "BREAK"
      BY <1>4, <3>2 DEF AfterInst
    <3>4. QED
      BY <3>1, <3>2, <3>3
  <2>3. QED
    BY <2>1, <2>2
<1>6. QED
  BY <1>2, <1>3, <1>5 DEF OwedInv, OwedHere

LEMMA StepOwed ==
  ASSUME TypeOK, Duplicates = FALSE, OwedInv, [Next]_vars
  PROVE  OwedInv'
<1>1. CASE CmdC \/ CmdSi \/ ExecHalted \/ ExecEnd \/ UNCHANGED vars
  <2>1. UNCHANGED <<bps, mem, owed, session>>
    BY <1>1, QuietSteps
  <2>2. ~session.interrupts => eip' = eip
    BY <1>1 DEF CmdC, CmdSi, StartExec, ExecHalted, DoIntr, ExecEnd, vars, guest
  <2>3. QED
    BY <2>1, <2>2 DEF OwedInv, Lifts, OwedHere
<1>2. CASE CmdW
  <2>1. UNCHANGED <<session, eip, owed, mem>>
    BY <1>2 DEF CmdW, guest
  <2>2. /\ \A i \in DOMAIN bps' :
             bps'[i].type = "B" => \E j \in DOMAIN bps : bps'[i] = bps[j]
        /\ \A i \in DOMAIN bps : \E j \in DOMAIN bps' : bps'[j] = bps[i]
    <3>1. CASE bps' = bps
      BY <3>1
    <3>2. CASE bps' # bps
      <4>1. PICK m \in Entries : Pushed(m) /\ m.type = "W"
        BY <1>2, <3>2, WatchPushes
      <4>2. QED
        BY <4>1, PushedFacts
    <3>3. QED
      BY <3>1, <3>2
  <2>3. QED
    BY <2>1, <2>2 DEF OwedInv, Lifts, OwedHere
<1>3. CASE CmdDAll
  <2>1. DOMAIN bps' = {} /\ owed' = None
    BY <1>3 DEF CmdDAll, DeleteAll
  <2>2. QED
    BY <2>1 DEF OwedInv, Lifts, OwedHere
<1>4. QED
  BY <1>1, <1>2, <1>3, SetOwed, DeleteOwed, InstOwed DEF Next

(* Continuing from a breakpoint makes progress: without interrupts, a      *)
(* breakpoint is never hit a second time before the instruction under it   *)
(* has been executed.                                                      *)
THEOREM ProgressSafe ==
  ASSUME Duplicates = FALSE
  PROVE  Spec => HitMakesProgress
<1>1. Init => OwedInv
  BY DEF Init, OwedInv, Lifts, OwedHere
<1>2. TypeOK /\ OwedInv /\ [Next]_vars => OwedInv'
  BY StepOwed
<1>3. TypeOK /\ OwedInv =>
        (~session.interrupts =>
           ~(ExecInst /\ mem[eip] = INT3 /\ BreakpointsAt(eip) # {} /\ owed = eip))
  BY GuestAssumption DEF OwedInv, OwedHere, TypeOK
<1>4. QED
  BY TypeCorrect, <1>1, <1>2, <1>3, PTL DEF Spec, HitMakesProgress

-----------------------------------------------------------------------------
(* The watchpoints.  A session that deletes none has the newest one first, *)
(* and it is the one that a scan of the list updates first: it always      *)
(* knows the value.  (An older one may not: a scan stops at the first      *)
(* change, which is why a deletion can bring up a stale one.)              *)
DeletesNone == session.cmds \cap {"d", "dall"} = {}

Newest(i) == bps[i].type = "W" /\ \A j \in DOMAIN bps : bps[j].type = "W" => i <= j

WatchInv == \A i \in DOMAIN bps : Newest(i) => bps[i].old_val = val

LEMMA SetWatch ==
  ASSUME TypeOK, WatchInv, NEW m, Pushed(m), val' = val,
         m.type = "W" => m.old_val = val
  PROVE  WatchInv'
<1>1. ASSUME NEW i \in DOMAIN bps', bps'[i].type = "W",
             \A j \in DOMAIN bps' : bps'[j].type = "W" => i <= j
      PROVE  bps'[i].old_val = val
  <2>1. CASE i = 1
    BY <1>1, <2>1, PushedFacts
  <2>2. CASE i # 1
    <3>1. i - 1 \in DOMAIN bps /\ bps'[i] = bps[i - 1] /\ i \in Nat
      BY <2>2, PushedFacts
    <3>2. ASSUME NEW j \in DOMAIN bps, bps[j].type = "W"
          PROVE  i - 1 <= j
      <4>1. j + 1 \in DOMAIN bps' /\ bps'[j + 1] = bps[j] /\ j \in Nat
        BY PushedFacts
      <4>2. i <= j + 1
        BY <1>1, <3>2, <4>1
      <4>3. QED
        BY <3>1, <4>1, <4>2
    <3>3. Newest(i - 1)
      BY <1>1, <3>1, <3>2 DEF Newest
    <3>4. QED
      BY <3>1, <3>3 DEF WatchInv
  <2>3. QED
    BY <2>1, <2>2
<1>2. QED
  BY <1>1 DEF WatchInv, Newest

(* A scan leaves the newest watchpoint with the value it has seen.         *)
LEMMA InstWatch ==
  ASSUME TypeOK, ExecInst
  PROVE  WatchInv'
<1>1. bps \in Seq(Entries)
  BY DEF TypeOK, Entries
<1>2. PICK s \in Effects :
        /\ val' = s.val
        /\ \/ Changed(s.val) = {} /\ UNCHANGED bps
           \/ /\ Changed(s.val) # {}
              /\ bps' = [bps EXCEPT ![First(Changed(s.val))].old_val = s.val]
  BY DEF ExecInst
<1>3. DOMAIN bps' = DOMAIN bps /\ \A i \in DOMAIN bps : bps'[i].type = bps[i].type
  BY InstList
<1>4. ASSUME NEW i \in DOMAIN bps, Newest(i)
      PROVE  bps'[i].old_val = s.val
  <2>1. i \in Watchpoints
    BY <1>4 DEF Newest, Watchpoints
  <2>2. CASE Changed(s.val) = {}
    BY <1>2, <2>1, <2>2 DEF Changed
  <2>3. CASE Changed(s.val) # {}
    <3> DEFINE c == First(Changed(s.val))
    <3>1. Changed(s.val) \in SUBSET Nat
      BY <1>1 DEF Changed, Watchpoints
    <3>2. c \in Changed(s.val) /\ \A j \in Changed(s.val) : c <= j
      BY <2>3, <3>1, FirstIn
    <3>3. c \in DOMAIN bps /\ bps[c].type = "W"
      BY <3>2 DEF Changed, Watchpoints
    <3>4. bps' = [bps EXCEPT ![c].old_val = s.val]
      BY <1>2, <2>3
    <3> HIDE DEF c
    <3>5. CASE i = c
      <4>1. bps[c] \in Exprs
        BY <3>3, NodeTypes
      <4>2. QED
        BY <3>3, <3>4, <3>5, <4>1 DEF Exprs
    <3>6. CASE i # c
      <4>1. i <= c /\ i \in Nat /\ c \in Nat
        BY <1>1, <1>4, <3>3 DEF Newest
      <4>2. i \notin Changed(s.val)
        BY <3>2, <3>6, <4>1
      <4>3. bps[i].old_val = s.val
        BY <2>1, <4>2 DEF Changed
      <4>4. bps'[i] = bps[i]
        BY <3>4, <3>6
      <4>5. QED
        BY <4>3, <4>4
    <3>7. QED
      BY <3>5, <3>6
  <2>4. QED
    BY <2>2, <2>3
<1>5. ASSUME NEW i \in DOMAIN bps', bps'[i].type = "W",
             \A j \in DOMAIN bps' : bps'[j].type = "W" => i <= j
      PROVE  bps'[i].old_val = val'
  <2>1. i \in DOMAIN bps /\ Newest(i)
    BY <1>3, <1>5 DEF Newest
  <2>2. QED
    BY <1>2, <1>4, <2>1
<1>6. QED
  BY <1>5 DEF WatchInv, Newest

LEMMA StepWatch ==
  ASSUME TypeOK, DeletesNone, WatchInv, [Next]_vars
  PROVE  WatchInv'
<1>1. CASE CmdC \/ CmdSi \/ ExecHalted \/ ExecEnd \/ UNCHANGED vars
  BY <1>1, QuietSteps DEF WatchInv, Newest
<1>2. CASE CmdB
  <2>1. val' = val
    BY <1>2 DEF CmdB, guest
  <2>2. bps' = bps \/ \E m \in Entries : Pushed(m) /\ m.type = "B"
    BY <1>2, SetPushes
  <2>3. CASE bps' = bps
    BY <2>1, <2>3 DEF WatchInv, Newest
  <2>4. QED
    BY <2>1, <2>2, <2>3, SetWatch
<1>3. CASE CmdW
  <2>1. val' = val
    BY <1>3 DEF CmdW, guest
  <2>2. CASE bps' = bps
    BY <2>1, <2>2 DEF WatchInv, Newest
  <2>3. QED
    BY <1>3, <2>1, <2>2, WatchPushes, SetWatch
<1>4. CASE CmdD \/ CmdDAll
  BY <1>4 DEF DeletesNone, CmdD, CmdDAll, AtPrompt
<1>5. CASE ExecInst
  BY <1>5, InstWatch
<1>6. QED
  BY <1>1, <1>2, <1>3, <1>4, <1>5 DEF Next

LEMMA WatchPauses ==
  ASSUME TypeOK, WatchInv, [Next]_vars, val' # val, Watchpoints # {}
  PROVE  nemu_state' # "RUN"
<1>1. ExecInst
  BY DEF Next, CmdC, CmdSi, CmdB, CmdW, CmdD, CmdDAll, StartExec, ExecHalted,
         ExecEnd, vars, guest
<1>2. PICK s \in Effects :
        /\ val' = s.val
        /\ Changed(s.val) = {} \/ nemu_state' = "READY"
  BY <1>1 DEF ExecInst
<1>3. Watchpoints \in SUBSET Nat
  BY DEF Watchpoints, TypeOK
<1>4. First(Watchpoints) \in Watchpoints /\ \A j \in Watchpoints : First(Watchpoints) <= j
  BY <1>3, FirstIn
<1>5. Newest(First(Watchpoints)) /\ First(Watchpoints) \in DOMAIN bps
  BY <1>4 DEF Newest, Watchpoints
<1>6. First(Watchpoints) \in Changed(s.val)
  BY <1>2, <1>4, <1>5 DEF WatchInv, Changed
<1>7. QED
  BY <1>2, <1>6

(* In a session that deletes nothing, a change of the watched value always *)
(* stops the guest, with any number of watchpoints set at any time.        *)
THEOREM WatchSafe == Spec => ChangePauses
<1> DEFINE Inv == DeletesNone => WatchInv
<1>1. Init => Inv
  BY DEF Init, WatchInv
<1>2. TypeOK /\ Inv /\ [Next]_vars => Inv'
  BY StepWatch, SessionKept DEF DeletesNone
<1>3. TypeOK /\ Inv /\ [Next]_vars =>
        (session.cmds \cap {"d", "dall"} = {} /\ val' # val /\ Watchpoints # {} =>
           nemu_state' # "RUN")
  BY WatchPauses DEF DeletesNone
<1>4. QED
  BY TypeCorrect, <1>1, <1>2, <1>3, PTL DEF Spec, ChangePauses
=============================================================================
