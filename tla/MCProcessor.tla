---------------------------- MODULE MCProcessor ----------------------------
(***************************************************************************)
(* Instances of Processor: longs of 4 bits, bytes of 3, floats of 8 with   *)
(* a dividend of 16 bits.  Programs run on all inputs without interrupts,  *)
(* and on inputs that carry, borrow and compare either way with two.       *)
(***************************************************************************)
EXTENDS Processor

Conditions == {"e", "ne", "a", "ae", "b", "be", "na", "g", "ge", "l", "le"}
Edges == {0, 1, LongHalf - 1, LongHalf, 2 * LongHalf - 1}   \* carries, signs
Comparisons == {"set", "move", "branch"}

WideJobs(programs, longs, highs, n) ==
  [program : programs, irqs : {n},
   in : [a : longs, A : highs, b : longs, B : highs]]

CompareJobs(cmps, ccs, longs, n) ==
  [program : Comparisons, irqs : {n}, cmp : cmps, cc : ccs,
   in : [a : longs, b : longs]]

FloatJobs(ops, as, bs, n) ==
  [program : {"float"}, irqs : {n}, op : ops, in : [a : as, b : bs, A : {3}]]

FloatCompareJobs(as, n) ==
  [program : {"float_compare"}, irqs : {n}, cc : {"a", "ae", "b", "e", "ne"},
   in : [a : as, b : as]]

Shifts == {n \in Longs : 2^n <= LongHalf}

RecursionJobs(n) == [program : {"factorial"}, irqs : {n}, in : [a : 0..3]]

PrimeJobs(longs, n) == [program : {"prime"}, irqs : {n}, in : [a : longs]]

BitJobs(n) ==
  [program : {"bit"}, op : {"get", "set", "clear", "flip"}, irqs : {n},
   in : [a : Longs, b : Shifts]]
  \cup [program : {"shift"}, op : {"shl", "shr", "sar"}, irqs : {n},
        in : [a : Longs, b : Shifts]]

(* Divisions whose quotient fits.                                          *)
DivisionJobs(longs, n) ==
  [program : {"quotient"}, irqs : {n},
   in : {i \in [a : longs, b : longs] :
           i.b # 0 /\ ~(i.a = LongHalf /\ Signed(i.b) = -1)}]
  \cup [program : {"wide_quotient"}, irqs : {n},
        in : {i \in [a : longs, A : longs, b : longs] : i.A < i.b}]

CallJobs(n) ==
  [program : {"system_call"}, irqs : {n}, in : [a : {0, SYS_brk}, b : {5}]]

QuietJobs ==
  WideJobs({"sum", "difference", "product"}, Longs, Edges, 0)
  \cup [program : {"negation"}, irqs : {0}, in : [a : Longs, A : Longs]]
  \cup CompareJobs({"cmpl", "cmpb"}, Conditions, Longs, 0)
  \cup CompareJobs({"movz", "movs"}, {"e", "a", "b", "l"}, Longs, 0)
  \cup RecursionJobs(0) \cup PrimeJobs(Longs, 0) \cup BitJobs(0)
  \cup DivisionJobs(Longs, 0)
  \cup FloatJobs({"fadds"}, 0..P_INF, Codes, 0)
  \cup FloatJobs({"fsubs"}, 0..P_INF, Edges, 0)
  \cup FloatJobs({"fdivs"}, 0..P_INF, 0..P_INF, 0)
  \cup FloatJobs({"fmuls"}, 0..P_INF, (0..31) \cup (96..P_INF), 0)
  \cup FloatJobs({"fmuls", "fdivs"}, {5, N_ZERO, N_ZERO + 5}, {7, N_ZERO + 7}, 0)
  \cup FloatCompareJobs({0, 1, 9, P_INF, N_ZERO, N_ZERO + 1, N_INF}
                         \cup {P_NAN, P_INF + 1, N_INF + 1}, 0)

InterruptedJobs ==
  WideJobs({"sum", "difference"}, {1, 15}, {1, 15}, 2)
  \cup CompareJobs({"cmpl"}, {"b", "l"}, {1, 15}, 2)
  \cup RecursionJobs(2) \cup PrimeJobs({5}, 2)
  \cup DivisionJobs({13}, 2)
  \cup FloatJobs({"fadds"}, {9}, {20}, 2)
  \cup CallJobs(2)

ComputeJobs == QuietJobs \cup InterruptedJobs

WideCompareJobs ==
  [program : {"wide_compare"}, irqs : {0}, cc : {"b", "l"},
   in : [a : Edges, A : Edges, b : Edges, B : Edges]]

AnyLeft == {0, 2 * LongHalf - 1}
=============================================================================
