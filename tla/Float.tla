------------------------------- MODULE Float -------------------------------
(***************************************************************************)
(* The floating-point arithmetic of nemu/src/cpu/fpu.c, written there in   *)
(* integers, with the widths as parameters.  A float is its code: the      *)
(* number whose bits are the sign, the exponent and the fraction, as       *)
(* FLOAT.val.  A loop of shifts is its number of turns: the least one      *)
(* after which its condition fails.                                        *)
(***************************************************************************)
EXTENDS Integers

CONSTANTS
  ExpBits,    \* 8: bits of the exponent
  FracBits,   \* 23: bits of the fraction
  WideBits    \* 64: bits of the variable that holds a dividend

ASSUME WidthsAssumption ==
  /\ ExpBits \in Nat /\ FracBits \in Nat /\ WideBits \in Nat
  /\ ExpBits > 1 /\ FracBits > 3 /\ WideBits > 2 * FracBits

MaxExp == 2^ExpBits - 1
Bias == 2^(ExpBits - 1) - 1
Hidden == 2^FracBits                 \* the hidden 1 of a significand

Pack(s, exp, frac) == (s * (MaxExp + 1) + exp) * Hidden + frac

Sign(f) == f \div ((MaxExp + 1) * Hidden)
Exponent(f) == (f \div Hidden) % (MaxExp + 1)
Fraction(f) == f % Hidden

P_ZERO == Pack(0, 0, 0)
N_ZERO == Pack(1, 0, 0)
P_INF == Pack(0, MaxExp, 0)
N_INF == Pack(1, MaxExp, 0)
P_NAN == Pack(0, MaxExp, Hidden \div 2)
N_NAN == Pack(1, MaxExp, Hidden \div 2)

Zeros == {P_ZERO, N_ZERO}
Infs == {P_INF, N_INF}
NaNs == {P_NAN, N_NAN}

WithSign(s, f) == Pack(s, Exponent(f), Fraction(f))

(* The significand with its hidden bit, and the exponent that goes with    *)
(* it: a denormal has the exponent of the smallest normal.                 *)
Significand(f) == Fraction(f) + IF Exponent(f) # 0 THEN Hidden ELSE 0
ExpOf(f) == IF Exponent(f) = 0 THEN 1 ELSE Exponent(f)

(* `n` turns of (x >> 1) | (x & 1): the lowest bit stays set if any bit    *)
(* shifted out of it was.                                                  *)
ShiftRight(x, n) ==
  LET q == x \div 2^n
  IN  IF x % 2^n # 0 /\ q % 2 = 0 THEN q + 1 ELSE q

(* The number of turns of a loop that goes on while Goes(turns so far).    *)
Turns(Goes(_)) ==
  CHOOSE n \in 0 .. 2 * (MaxExp + WideBits) :
    ~Goes(n) /\ \A k \in 0 .. n - 1 : Goes(k)

(* Mutant: halfway is always rounded up.                                   *)
Rounded_HalfUp(s, exp, sig) ==
  LET up == sig % 8 >= 4
      kept == (sig \div 8) + IF up THEN 1 ELSE 0
      carried == up /\ kept \div Hidden > 1
      e == IF carried THEN exp + 1 ELSE exp
      frac == IF carried THEN kept \div 2 ELSE kept
  IN  IF up /\ e >= MaxExp THEN Pack(s, MaxExp, 0)
      ELSE Pack(s, e % (MaxExp + 1), frac % Hidden)

(* The second half of internal_normalize: drop the guard, round and sticky *)
(* bits, to nearest and on a tie to even, and pack.                        *)
Rounded(s, exp, sig) ==
  LET up == sig % 8 > 4 \/ (sig % 8 = 4 /\ (sig \div 8) % 2 = 1)
      kept == (sig \div 8) + IF up THEN 1 ELSE 0
      carried == up /\ kept \div Hidden > 1
      e == IF carried THEN exp + 1 ELSE exp
      frac == IF carried THEN kept \div 2 ELSE kept
  IN  IF up /\ e >= MaxExp THEN Pack(s, MaxExp, 0)
      ELSE Pack(s, e % (MaxExp + 1), frac % Hidden)

internal_normalize(s, exp, sig) ==
  LET Lead(x) == x \div (Hidden * 8)      \* sig_grs >> (23 + 3)
  IN  IF Lead(sig) > 1 \/ exp < 0
      THEN LET Down(n) == \/ Lead(ShiftRight(sig, n)) > 1 /\ exp + n < MaxExp
                          \/ ShiftRight(sig, n) > 4 /\ exp + n < 0
               n == Turns(Down)
           IN  IF exp + n >= MaxExp THEN Pack(s, MaxExp, 0)
               ELSE IF exp + n < 0 THEN Pack(s, 0, 0)
               ELSE Rounded(s, exp + n,
                            ShiftRight(sig, IF exp + n = 0 THEN n + 1 ELSE n))
      ELSE IF Lead(sig) = 0 /\ exp > 0
      THEN LET Up(n) == Lead(sig * 2^n) = 0 /\ exp - n > 0
               n == Turns(Up)
           IN  Rounded(s, exp - n,
                       IF exp = n THEN ShiftRight(sig * 2^n, 1) ELSE sig * 2^n)
      ELSE Rounded(s, IF exp = 0 /\ Lead(sig) = 1 THEN 1 ELSE exp, sig)

(* The corner tables: <<a, b, result>>.                                    *)
corner_add ==
  {<<P_ZERO, P_ZERO, P_ZERO>>, <<N_ZERO, P_ZERO, P_ZERO>>,
   <<P_ZERO, N_ZERO, P_ZERO>>, <<N_ZERO, N_ZERO, N_ZERO>>,
   <<P_INF, N_INF, N_NAN>>, <<N_INF, P_INF, N_NAN>>, <<N_NAN, P_NAN, P_NAN>>}
  \cup {<<i, n, n>> : i \in Infs, n \in NaNs}

corner_sub ==
  {<<P_ZERO, P_ZERO, P_ZERO>>, <<N_ZERO, P_ZERO, N_ZERO>>,
   <<P_ZERO, N_ZERO, P_ZERO>>, <<N_ZERO, N_ZERO, P_ZERO>>,
   <<P_NAN, P_NAN, P_NAN>>, <<N_NAN, P_NAN, P_NAN>>,
   <<P_NAN, N_NAN, P_NAN>>, <<N_NAN, N_NAN, N_NAN>>}

corner_mul ==
  {<<z, i, N_NAN>> : z \in Zeros, i \in Infs}
  \cup {<<i, z, N_NAN>> : i \in Infs, z \in Zeros}

corner_div ==
  {<<a, b, N_NAN>> : a \in Zeros, b \in Zeros}
  \cup {<<a, b, N_NAN>> : a \in Infs, b \in Infs}
  \cup {<<i, z, Pack((Sign(i) + Sign(z)) % 2, MaxExp, 0)>> :
          i \in Infs, z \in Zeros}

InTable(table, a, b) == \E r \in table : r[1] = a /\ r[2] = b
FromTable(table, a, b) ==
  (CHOOSE r \in table : r[1] = a /\ r[2] = b)[3]

(* a + b.  The operand with the larger exponent is kept (b of the code     *)
(* after the swap), the other one shifted to it.                           *)
internal_float_add(b, a) ==
  IF InTable(corner_add, a, b) THEN FromTable(corner_add, a, b)
  ELSE IF a \in Zeros THEN b
  ELSE IF b \in Zeros THEN a
  ELSE IF Exponent(a) = MaxExp THEN a
  ELSE IF Exponent(b) = MaxExp THEN b
  ELSE LET small == IF Exponent(a) > Exponent(b) THEN b ELSE a
           large == IF Exponent(a) > Exponent(b) THEN a ELSE b
           With(f, sig) == IF Sign(f) = 1 THEN -sig ELSE sig
           sum == With(small, ShiftRight(Significand(small) * 8,
                                         ExpOf(large) - ExpOf(small)))
                  + With(large, Significand(large) * 8)
       IN  IF sum < 0 THEN internal_normalize(1, Exponent(large), -sum)
           ELSE internal_normalize(0, Exponent(large), sum)

(* a - b                                                                   *)
internal_float_sub(b, a) ==
  IF InTable(corner_sub, a, b) THEN FromTable(corner_sub, a, b)
  ELSE IF a \in NaNs THEN a
  ELSE IF b \in NaNs THEN b
  ELSE internal_float_add(WithSign(1 - Sign(b), b), a)

(* The NaN that mul and div return for a NaN operand.                      *)
NaNOf(a, b) == IF P_NAN \in {a, b} THEN P_NAN ELSE N_NAN

(* a * b                                                                   *)
internal_float_mul(b, a) ==
  LET s == (Sign(a) + Sign(b)) % 2
  IN  IF InTable(corner_mul, a, b) THEN FromTable(corner_mul, a, b)
      ELSE IF {a, b} \cap NaNs # {} THEN NaNOf(a, b)
      ELSE IF {a, b} \cap Zeros # {} THEN Pack(s, 0, 0)
      ELSE IF {a, b} \cap Infs # {} THEN Pack(s, MaxExp, 0)
      ELSE internal_normalize(s, ExpOf(a) + ExpOf(b) - Bias - (FracBits - 3),
                              Significand(a) * Significand(b))

(* a / b.  The dividend is shifted up as far as its variable allows, the   *)
(* divisor down to an odd number.                                          *)
internal_float_div(b, a) ==
  LET s == (Sign(a) + Sign(b)) % 2
      Up(n) == (Significand(a) * 2^n) \div 2^(WideBits - 1) = 0
      Down(n) == (Significand(b) \div 2^n) % 2 = 0
  IN  IF InTable(corner_div, a, b) THEN FromTable(corner_div, a, b)
      ELSE IF {a, b} \cap NaNs # {} THEN NaNOf(a, b)
      ELSE IF a \in Infs \/ b \in Zeros THEN Pack(s, MaxExp, 0)
      ELSE IF a \in Zeros \/ b \in Infs THEN Pack(s, 0, 0)
      ELSE LET up == Turns(Up)
               down == Turns(Down)
           IN  internal_normalize(s,
                 ExpOf(a) - ExpOf(b) + Bias - (up + down - FracBits - 3),
                 (Significand(a) * 2^up) \div (Significand(b) \div 2^down))

(* *a > *b of fpu_cmpi, which is a comparison of C floats: a NaN, with any *)
(* fraction and not only those of the corner tables, is ordered with none. *)
IsNaN(f) == Exponent(f) = MaxExp /\ Fraction(f) # 0
Magnitude(f) == Exponent(f) * Hidden + Fraction(f)
Ordered(f) == IF Sign(f) = 1 THEN -Magnitude(f) ELSE Magnitude(f)
Greater(a, b) == ~IsNaN(a) /\ ~IsNaN(b) /\ Ordered(a) > Ordered(b)
=============================================================================
