-------------------------------- MODULE Alu --------------------------------
(***************************************************************************)
(* The integer operations of nemu/src/cpu/alu.c and the condition codes of *)
(* instr_helper.h, as operators.  An operation takes the operands and the  *)
(* flags it finds and returns the value and the flags it leaves; `src` and *)
(* `dest` are in the order of the C functions.                             *)
(*                                                                         *)
(* A long is a number below 2 * LongHalf and a byte one below              *)
(* 2 * ByteHalf (2^31 and 2^7 in the code).  Every instruction passes the  *)
(* global data_size to the ALU, which is 32 unless the instruction has a   *)
(* 16-bit prefix, after sign-extending a byte operand: so the flags are    *)
(* those of a long also for a byte.                                        *)
(***************************************************************************)
EXTENDS Integers

CONSTANTS
  LongHalf,   \* 2^31: the first long whose sign bit is set
  ByteHalf    \* 2^7: the first byte whose sign bit is set

ASSUME HalvesAssumption ==
  /\ LongHalf \in Nat /\ ByteHalf \in Nat
  /\ 0 < ByteHalf /\ 2 * ByteHalf <= LongHalf

Longs == 0 .. 2 * LongHalf - 1
Bytes == 0 .. 2 * ByteHalf - 1
Bit == {0, 1}

Flags == [CF : Bit, PF : Bit, ZF : Bit, SF : Bit, OF : Bit, IF_ : Bit]

B(p) == IF p THEN 1 ELSE 0

(* A sum or difference of two longs and a carry, reduced to a long.        *)
Wrap(x) ==
  IF x >= 2 * LongHalf THEN x - 2 * LongHalf
  ELSE IF x < 0 THEN x + 2 * LongHalf ELSE x

sign(x) == B(x >= LongHalf)

(* A byte widened to a long, as sign_ext with a data_size of 8.            *)
sign_ext(x) == IF x >= ByteHalf THEN x + 2 * LongHalf - 2 * ByteHalf ELSE x

Ones[x \in Nat] == IF x = 0 THEN 0 ELSE (x % 2) + Ones[x \div 2]

(* The parity of the low byte.                                             *)
set_PF(result) == B(Ones[result % (2 * ByteHalf)] % 2 = 0)

set_OF_add(result, src, dest) ==
  B(sign(src) = sign(dest) /\ sign(src) # sign(result))

set_OF_sub(result, src, dest) ==
  B(sign(src) # sign(dest) /\ sign(result) # sign(dest))

set_CF_add(result, src) == B(result < src)
set_CF_sub(result, dest) == B(result > dest)

(* Mutant: the incoming carry is not taken into account.                   *)
set_CF_adc_NoCarry(result, src, CF) == B(result < src)
set_CF_adc(result, src, CF) ==
  IF CF = 1 THEN B(result <= src) ELSE B(result < src)

set_CF_sbb(result, dest, CF) ==
  IF CF = 1 THEN B(result >= dest) ELSE B(result > dest)

(* What every addition and subtraction leaves: PF, ZF and SF of the result.*)
Result(result, CF, OF, flags) ==
  [val |-> result,
   flags |-> [flags EXCEPT !.CF = CF, !.OF = OF, !.PF = set_PF(result),
                           !.ZF = B(result = 0), !.SF = sign(result)]]

alu_add(src, dest, flags) ==
  LET res == Wrap(dest + src)
  IN  Result(res, set_CF_add(res, src), set_OF_add(res, src, dest), flags)

alu_adc(src, dest, flags) ==
  LET res == Wrap(dest + src + flags.CF)
  IN  Result(res, set_CF_adc(res, src, flags.CF), set_OF_add(res, src, dest),
             flags)

alu_sub(src, dest, flags) ==
  LET res == Wrap(dest - src)
  IN  Result(res, set_CF_sub(res, dest), set_OF_sub(res, src, dest), flags)

alu_sbb(src, dest, flags) ==
  LET res == Wrap(dest - src - flags.CF)
  IN  Result(res, set_CF_sbb(res, dest, flags.CF), set_OF_sub(res, src, dest),
             flags)

(* `neg` has no function in alu.c: the instruction sets the flags itself.  *)
(* PF is left alone.                                                       *)
neg(val, flags) ==
  [val |-> Wrap(-val),
   flags |-> [flags EXCEPT !.CF = B(val # 0), !.ZF = B(val = 0), !.OF = 0,
                           !.SF = B(0 < val /\ val < LongHalf)]]

(* The value of a long taken as a signed number.                           *)
Signed(x) == IF x >= LongHalf THEN x - 2 * LongHalf ELSE x

(* Both halves of the unsigned product, as mul leaves them in edx and eax. *)
alu_mul(src, dest, flags) ==
  LET high == (src * dest) \div (2 * LongHalf)
  IN  [low |-> (src * dest) % (2 * LongHalf), high |-> high,
       flags |-> [flags EXCEPT !.CF = B(high # 0), !.OF = B(high # 0)]]

(* The low half of the signed product.  sign_ext returns an unsigned       *)
(* number, so the flags ask whether that half, taken as unsigned, is all   *)
(* of the product: they are set for every negative one.                    *)
alu_imul(src, dest, flags) ==
  LET product == Signed(src) * Signed(dest)
      low == product % (2 * LongHalf)
      lost == B(product # low)
  IN  [val |-> low, flags |-> [flags EXCEPT !.CF = lost, !.OF = lost]]

(* The dividend has two longs.  A quotient that does not fit is cut to a   *)
(* long, where the processor would raise an exception.                     *)
alu_div(src, dest) == (dest \div src) % (2 * LongHalf)
alu_mod(src, dest) == dest % src

(* Division of C, which rounds towards zero; src and dest are signed.      *)
Quotient(src, dest) ==
  LET Abs(x) == IF x < 0 THEN -x ELSE x
      q == Abs(dest) \div Abs(src)
  IN  IF (src < 0) = (dest < 0) THEN q ELSE -q
alu_idiv(src, dest) == Quotient(src, dest) % (2 * LongHalf)
alu_imod(src, dest) == (dest - src * Quotient(src, dest)) % (2 * LongHalf)

(* The bits two numbers share.                                             *)
And[x \in Nat, y \in Nat] ==
  IF x = 0 \/ y = 0 THEN 0
  ELSE 2 * And[x \div 2, y \div 2] + (x % 2) * (y % 2)

alu_and(src, dest, flags) == Result(And[src, dest], 0, 0, flags)
alu_or(src, dest, flags) == Result(src + dest - And[src, dest], 0, 0, flags)
alu_xor(src, dest, flags) == Result(src + dest - 2 * And[src, dest], 0, 0, flags)

(* Shifts by src bits leave OF alone.  The last bit shifted out is asked   *)
(* for by a shift by src - 1, which C does not define if src is 0: `any`   *)
(* is what it gives then.                                                  *)
alu_shl(src, dest, flags, any) ==
  Result((dest * 2^src) % (2 * LongHalf),
         IF src = 0 THEN any ELSE sign((dest * 2^(src - 1)) % (2 * LongHalf)),
         flags.OF, flags)
alu_shr(src, dest, flags, any) ==
  Result(dest \div 2^src,
         IF src = 0 THEN any ELSE (dest \div 2^(src - 1)) % 2, flags.OF, flags)
alu_sar(src, dest, flags, any) ==
  Result((Signed(dest) \div 2^src) % (2 * LongHalf),
         IF src = 0 THEN any ELSE (Signed(dest) \div 2^(src - 1)) % 2,
         flags.OF, flags)

(* Mutant: less is read off the sign alone, as after a subtraction that    *)
(* cannot overflow.                                                        *)
Condition_SignOnly(cc, f) ==
  [e |-> f.ZF = 1, ne |-> f.ZF = 0,
   a |-> f.CF = 0 /\ f.ZF = 0, ae |-> f.CF = 0 \/ f.ZF = 1,
   b |-> f.CF = 1 /\ f.ZF = 0, be |-> f.CF = 1 \/ f.ZF = 1,
   c |-> f.CF = 1, na |-> f.CF = 1 \/ f.ZF = 1,
   g |-> f.ZF = 0 /\ f.SF = f.OF, ge |-> f.SF = f.OF \/ f.ZF = 1,
   l |-> f.SF = 1, le |-> f.ZF = 1 \/ f.SF # f.OF,
   o |-> f.OF = 1, no |-> f.OF = 0, s |-> f.SF = 1, ns |-> f.SF = 0,
   p |-> f.PF = 1, np |-> f.PF = 0][cc]

(* The condition_* macros.                                                 *)
Condition(cc, f) ==
  [e |-> f.ZF = 1, ne |-> f.ZF = 0,
   a |-> f.CF = 0 /\ f.ZF = 0, ae |-> f.CF = 0 \/ f.ZF = 1,
   b |-> f.CF = 1 /\ f.ZF = 0, be |-> f.CF = 1 \/ f.ZF = 1,
   c |-> f.CF = 1, na |-> f.CF = 1 \/ f.ZF = 1,
   g |-> f.ZF = 0 /\ f.SF = f.OF, ge |-> f.SF = f.OF \/ f.ZF = 1,
   l |-> f.SF # f.OF /\ f.ZF = 0, le |-> f.ZF = 1 \/ f.SF # f.OF,
   o |-> f.OF = 1, no |-> f.OF = 0, s |-> f.SF = 1, ns |-> f.SF = 0,
   p |-> f.PF = 1, np |-> f.PF = 0][cc]
=============================================================================
