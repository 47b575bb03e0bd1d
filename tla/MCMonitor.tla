----------------------------- MODULE MCMonitor -----------------------------
(***************************************************************************)
(* Instances of Monitor.  The guest is a loop 0-1-2 of a BREAK_POINT of its*)
(* own, a store and a halt; nemu_trap is at 3, the interrupt handler at 4. *)
(***************************************************************************)
EXTENDS Monitor

FromZero(s) == [a \in 0 .. Len(s) - 1 |-> s[a + 1]]

LoopAddr == 0 .. 5
LoopCode == FromZero(<<INT3, "store", "hlt", "trap", "op", "iret">>)
LoopSucc == FromZero(<<{1}, {1, 2, 3}, {0}, {3}, {5}, {5}>>)

AllCmds == {"c", "si", "b", "w", "d", "dall"}

BreakSession == [cmds |-> {"c", "b", "d", "dall"}, interrupts |-> FALSE]
WatchSession == [cmds |-> {"c", "si", "b", "w"}, interrupts |-> TRUE]

BothSessions == {BreakSession, WatchSession}
AllSessions  == {[cmds |-> AllCmds, interrupts |-> FALSE]}
=============================================================================
