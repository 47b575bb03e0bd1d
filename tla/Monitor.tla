------------------------------ MODULE Monitor ------------------------------
(***************************************************************************)
(* NEMU's debugger: the pool of breakpoints and watchpoints                *)
(* (nemu/src/monitor/breakpoint.c), the user's commands that use it (ui.c) *)
(* and the loop of exec() that runs the guest between two commands (cpu.c).*)
(*                                                                         *)
(* A breakpoint is an INT3 byte planted in the guest's own code, so the    *)
(* debugger and the guest share `mem`.  Everything runs on one thread: a   *)
(* command is one action, and so is one turn of exec()'s loop (instruction,*)
(* breakpoints, watchpoints, devices, interrupt).                          *)
(*                                                                         *)
(* The guest is a small flow graph: each address holds one instruction of  *)
(* one byte, and all watchpoints watch one value.                          *)
(***************************************************************************)
EXTENDS Integers, Sequences, FiniteSets

CONSTANTS
  NR_BP,       \* size of the pool, 32 in the code
  Addr,        \* the addresses of the guest's code
  Code,        \* Code[a]: the guest's own byte at a, one of Opcodes
  Succ,        \* Succ[a]: the addresses that may follow a
  Start,       \* where the guest starts
  Handler,     \* where an interrupt enters
  Vals,        \* values of the watched expression
  MaxSi,       \* bound: the largest argument of si
  Duplicates,  \* the user also sets a breakpoint where there is an INT3
  Sessions,    \* what may happen in a session, one of them in each behaviour
  None

INT3 == "int3"
Opcodes == {"op", "store", "iret", "hlt", "trap", INT3}

ASSUME PoolAssumption == NR_BP \in Nat \ {0}
ASSUME GuestAssumption ==
  /\ Code \in [Addr -> Opcodes]
  /\ Succ \in [Addr -> (SUBSET Addr) \ {{}}]
  /\ {Start, Handler} \subseteq Addr
  /\ Vals # {} /\ None \notin Addr
  /\ MaxSi \in Nat \ {0}
  /\ Duplicates \in BOOLEAN
  /\ Sessions \subseteq [cmds : SUBSET {"c", "si", "b", "w", "d", "dall"},
                         interrupts : BOOLEAN]  \* an external one may arrive

VARIABLES
  session,     \* the commands the user gives, and whether there are interrupts
  bps,         \* the list `head`: nodes in use, the newest first
  free_,       \* the list `free_`: node numbers
  in_use,      \* the in_use flag of each node
  abort,       \* an assertion of the pool has failed
  mem,         \* the guest's code as it is in memory
  eip,
  saved,       \* the eip the interrupt handler returns to, or None
  is_nemu_hlt,
  val,         \* the value of the watched expression
  nemu_state,  \* READY, RUN, BREAK or STOP
  mode,        \* "ui", "exec" or "quit"
  n,           \* exec()'s argument
  hit_break_rerun,
  owed         \* history: the breakpoint whose instruction is still to run

pool  == <<bps, free_, in_use, abort>>
guest == <<eip, saved, is_nemu_hlt, val>>
loop  == <<nemu_state, mode, n, hit_break_rerun>>
vars  == <<session, pool, guest, loop, mem, owed>>

Nodes     == 0 .. NR_BP - 1
Unlimited == MaxSi + 1      \* stands for exec(-1)

InList         == [i \in DOMAIN bps |-> bps[i].NO]
Breakpoints    == {i \in DOMAIN bps : bps[i].type = "B"}
Watchpoints    == {i \in DOMAIN bps : bps[i].type = "W"}
BreakpointsAt(a) == {i \in Breakpoints : bps[i].addr = a}
First(I)       == CHOOSE i \in I : \A j \in I : i <= j

Init ==
  /\ session \in Sessions
  /\ bps = <<>>
  /\ free_ = [i \in 1 .. NR_BP |-> i - 1]
  /\ in_use = [no \in Nodes |-> FALSE]
  /\ abort = FALSE
  /\ mem = Code
  /\ eip = Start
  /\ saved = None
  /\ is_nemu_hlt = FALSE
  /\ val \in Vals
  /\ nemu_state = "READY"
  /\ mode = "ui"
  /\ n = 0
  /\ hit_break_rerun = FALSE
  /\ owed = None

-----------------------------------------------------------------------------
(* The pool.                                                               *)

(* new_BP, and the node put at the head of the list.                       *)
NewBP(node) ==
  /\ bps' = <<[node EXCEPT !.NO = Head(free_)]>> \o bps
  /\ free_' = Tail(free_)
  /\ in_use' = [in_use EXCEPT ![Head(free_)] = TRUE]
  /\ UNCHANGED abort

(* The assertion of new_BP.                                                *)
NewBPFails == abort' = TRUE /\ UNCHANGED <<bps, free_, in_use>>

(* Mutant of Unplant: the original byte is not put back.                   *)
Unplant_Nothing(node, m) == m

(* What free_BP does to the code in memory.                                *)
Unplant(node, m) ==
  IF node.type = "B" THEN [m EXCEPT ![node.addr] = node.ori_byte] ELSE m

DeleteBP(i) ==
  /\ bps' = SubSeq(bps, 1, i - 1) \o SubSeq(bps, i + 1, Len(bps))
  /\ free_' = <<bps[i].NO>> \o free_
  /\ in_use' = [in_use EXCEPT ![bps[i].NO] = FALSE]
  /\ mem' = Unplant(bps[i], mem)
  /\ UNCHANGED abort

(* Mutant of DeleteAll: head is not reset.                                 *)
DeleteAll_KeepsHead ==
  /\ free_' = InList \o free_
  /\ in_use' = [no \in Nodes |-> in_use[no] /\ \A i \in DOMAIN bps : InList[i] # no]
  /\ UNCHANGED <<bps, mem, abort>>

(* delete_all_breakpoint frees the oldest node first.                      *)
DeleteAll ==
  /\ free_' = InList \o free_
  /\ in_use' = [no \in Nodes |-> in_use[no] /\ \A i \in DOMAIN bps : InList[i] # no]
  /\ mem' = [a \in Addr |-> IF BreakpointsAt(a) = {} THEN mem[a]
                            ELSE bps[First(BreakpointsAt(a))].ori_byte]
  /\ bps' = <<>>
  /\ UNCHANGED abort

(* Mutant of Resumed: the byte of a breakpoint that was hit stays restored.*)
Resumed_Nothing(m) == m

(* resume_breakpoints.                                                     *)
Resumed(m) == [a \in Addr |-> IF BreakpointsAt(a) # {} THEN INT3 ELSE m[a]]

(* Mutant of Changed: only the first node of the list is looked at.        *)
Changed_HeadOnly(v) == {i \in Watchpoints : i = 1 /\ bps[i].old_val # v}

(* scan_watchpoint: the watchpoints whose value has changed.               *)
Changed(v) == {i \in Watchpoints : bps[i].old_val # v}

-----------------------------------------------------------------------------
(* The commands.                                                           *)
AtPrompt(cmd) == mode = "ui" /\ ~abort /\ cmd \in session.cmds

(* Mutant of StartExec: the breakpoints are planted before the instruction *)
(* under the one that was hit has been executed.                           *)
StartExec_PlantsAtOnce(k) ==
  /\ hit_break_rerun' = FALSE
  /\ mem' = IF nemu_state = "BREAK" THEN Resumed(mem) ELSE mem
  /\ nemu_state' = "RUN"
  /\ mode' = "exec"
  /\ n' = k
  /\ UNCHANGED <<session, pool, guest, owed>>

StartExec(k) ==
  /\ hit_break_rerun' = (nemu_state = "BREAK")
  /\ nemu_state' = "RUN"
  /\ mode' = "exec"
  /\ n' = k
  /\ UNCHANGED <<session, pool, guest, mem, owed>>

CmdC == AtPrompt("c") /\ StartExec(Unlimited)

CmdSi == AtPrompt("si") /\ \E k \in 1 .. MaxSi : StartExec(k)

CmdB ==
  /\ AtPrompt("b")
  /\ \E a \in Addr :
       /\ Duplicates \/ (mem[a] # INT3 /\ BreakpointsAt(a) = {})
       /\ \/ /\ free_ # <<>>
             /\ NewBP([NO |-> 0, type |-> "B", addr |-> a,
                       ori_byte |-> mem[a], old_val |-> None])
             /\ mem' = [mem EXCEPT ![a] = INT3]
          \/ /\ free_ = <<>>
             /\ NewBPFails
             /\ UNCHANGED mem
  /\ UNCHANGED <<session, guest, loop, owed>>

CmdW ==
  /\ AtPrompt("w")
  /\ \/ /\ free_ # <<>>
        /\ NewBP([NO |-> 0, type |-> "W", addr |-> None, ori_byte |-> None,
                  old_val |-> val])
     \/ free_ = <<>> /\ NewBPFails
  /\ UNCHANGED <<session, guest, loop, mem, owed>>

(* d N: a number that no node in the list has is ignored.                  *)
CmdD ==
  /\ AtPrompt("d")
  /\ \E i \in DOMAIN bps :
       /\ DeleteBP(i)
       /\ owed' = IF bps[i].addr = owed THEN None ELSE owed
  /\ UNCHANGED <<session, guest, loop>>

CmdDAll ==
  /\ AtPrompt("dall")
  /\ DeleteAll
  /\ owed' = None
  /\ UNCHANGED <<session, guest, loop>>

-----------------------------------------------------------------------------
(* One turn of the loop in exec().                                         *)

(* exec_inst: what the instruction at eip may do.  INT3 has the length of  *)
(* one byte, so its next eip is the one after it.                          *)
Effects == [eip : Addr, saved : Addr \cup {None}, val : Vals,
            state : {"RUN", "BREAK", "STOP"}, hlt : BOOLEAN]

AfterInst(s) ==
  /\ IF mem[eip] = "iret"
     THEN s.eip = saved /\ s.saved = None
     ELSE s.eip \in Succ[eip] /\ s.saved = saved
  /\ mem[eip] # "store" => s.val = val
  /\ s.hlt = (mem[eip] = "hlt")
  /\ s.state = CASE mem[eip] = "trap" -> "STOP"
                 [] mem[eip] = INT3   -> "BREAK"
                 [] OTHER             -> "RUN"

(* find_breakpoint(eip - 1) after an INT3: the newest breakpoint there.    *)
HitAt(state) == IF state = "BREAK" THEN BreakpointsAt(eip) ELSE {}

(* do_devices and do_intr.  Bound: the handler is not itself interrupted.  *)
DoIntr(next, back, hlt) ==
  \/ /\ eip' = next /\ saved' = back /\ is_nemu_hlt' = hlt
  \/ /\ session.interrupts /\ back = None
     /\ eip' = Handler /\ saved' = next /\ is_nemu_hlt' = FALSE

(* Mutant of Running: the loop is left one instruction too late.           *)
Running_OneMore == mode = "exec" /\ n >= 0 /\ nemu_state = "RUN"

(* The condition of exec()'s loop.                                         *)
Running == mode = "exec" /\ n > 0 /\ nemu_state = "RUN"

ExecInst ==
  /\ Running /\ ~is_nemu_hlt
  /\ n' = IF n = Unlimited THEN n ELSE n - 1
  /\ hit_break_rerun' = FALSE
  /\ \E s \in Effects :
       LET planted == IF hit_break_rerun THEN Resumed(mem) ELSE mem
           hit     == HitAt(s.state)
           next    == IF hit # {} THEN eip ELSE s.eip
           changed == Changed(s.val)
       IN /\ AfterInst(s)
          /\ mem' = IF hit # {}
                    THEN [planted EXCEPT ![eip] = bps[First(hit)].ori_byte]
                    ELSE planted
          /\ owed' = CASE hit # {}    -> eip
                       [] eip = owed /\ s.state # "BREAK" -> None
                       [] OTHER       -> owed
          /\ val' = s.val
          /\ \/ /\ changed = {}
                /\ nemu_state' = s.state
                /\ DoIntr(next, s.saved, s.hlt)
                /\ UNCHANGED bps
             \/ /\ changed # {}
                /\ bps' = [bps EXCEPT ![First(changed)].old_val = s.val]
                /\ nemu_state' = "READY"
                /\ eip' = next /\ saved' = s.saved /\ is_nemu_hlt' = s.hlt
  /\ UNCHANGED <<session, free_, in_use, abort, mode>>

ExecHalted ==
  /\ Running /\ is_nemu_hlt
  /\ DoIntr(eip, saved, TRUE)
  /\ UNCHANGED <<session, pool, loop, mem, val, owed>>

(* exec() returns; ui_mainloop leaves its loop when NEMU has stopped.      *)
ExecEnd ==
  /\ mode = "exec" /\ ~Running
  /\ IF nemu_state = "STOP"
     THEN mode' = "quit" /\ UNCHANGED nemu_state
     ELSE mode' = "ui" /\ nemu_state' = IF n = 0 THEN "READY" ELSE nemu_state
  /\ UNCHANGED <<session, pool, guest, mem, n, hit_break_rerun, owed>>

Next ==
  \/ CmdC \/ CmdSi \/ CmdB \/ CmdW \/ CmdD \/ CmdDAll
  \/ ExecInst \/ ExecHalted \/ ExecEnd

Spec == Init /\ [][Next]_vars

-----------------------------------------------------------------------------
Bytes == [NO : Nodes, type : {"B"}, addr : Addr, ori_byte : Opcodes,
          old_val : {None}]
Exprs == [NO : Nodes, type : {"W"}, addr : {None}, ori_byte : {None},
          old_val : Vals]

TypeOK ==
  /\ session \in Sessions
  /\ bps \in Seq(Bytes \cup Exprs)
  /\ free_ \in Seq(Nodes)
  /\ in_use \in [Nodes -> BOOLEAN]
  /\ abort \in BOOLEAN
  /\ mem \in [Addr -> Opcodes]
  /\ eip \in Addr
  /\ saved \in Addr \cup {None}
  /\ is_nemu_hlt \in BOOLEAN
  /\ val \in Vals
  /\ nemu_state \in {"READY", "RUN", "BREAK", "STOP"}
  /\ mode \in {"ui", "exec", "quit"}
  /\ n \in 0 .. Unlimited
  /\ hit_break_rerun \in BOOLEAN
  /\ owed \in Addr \cup {None}

IsInjective(s) == \A i, j \in DOMAIN s : s[i] = s[j] => i = j

(* Every node is in exactly one of the two lists, once, and its in_use     *)
(* flag says which: what the assertions of new_BP, free_BP and the list    *)
(* walks rest on, after any mix of b, w, d and d-all.                      *)
PoolPartition ==
  /\ IsInjective(InList) /\ IsInjective(free_)
  /\ \A no \in Nodes :
       /\ in_use[no] <=> \E i \in DOMAIN bps : InList[i] = no
       /\ ~in_use[no] <=> \E i \in DOMAIN free_ : free_[i] = no

(* The guest's code survives the debugger: a byte that differs from the    *)
(* guest's own is the INT3 of one breakpoint that remembers the original.  *)
CodeRecoverable ==
  \A a \in Addr : mem[a] # Code[a] =>
    /\ mem[a] = INT3
    /\ \E i \in BreakpointsAt(a) : bps[i].ori_byte = Code[a]

(* The command table of the guide (ch_pa-2-1_instruction.md): "b EXPR" sets*)
(* a breakpoint at EXPR.  Whenever the guest runs, beyond the one          *)
(* instruction that a continue executes first, every breakpoint is planted.*)
BreakpointsArmed ==
  Running /\ ~hit_break_rerun => \A i \in Breakpoints : mem[bps[i].addr] = INT3

(* The same, for sessions that only set, delete and continue.              *)
ArmedOnContinue == session.cmds \cap {"si", "w"} = {} => BreakpointsArmed

(* A breakpoint that has been hit is not hit again before the instruction  *)
(* under it has been executed: continuing makes progress.  (An interrupt   *)
(* may take the place of that instruction.)                                *)
HitMakesProgress ==
  [][~session.interrupts =>
       ~(ExecInst /\ mem[eip] = INT3 /\ BreakpointsAt(eip) # {} /\ owed = eip)]_vars

(* The command table of the guide: "w EXPR" pauses the program when the    *)
(* value of EXPR changes, as long as no watchpoint has been deleted.       *)
ChangePauses ==
  [][session.cmds \cap {"d", "dall"} = {} /\ val' # val /\ Watchpoints # {} =>
       nemu_state' # "RUN"]_vars
=============================================================================
