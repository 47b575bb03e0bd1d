-------------------------- MODULE ProcessorProofs --------------------------
(***************************************************************************)
(* Proofs about the processor.  First about Alu, for longs and bytes of    *)
(* every width: the carry makes a sum or difference exact, two             *)
(* instructions chained through it make an exact wider one, and the        *)
(* conditions after a comparison are the signed and the unsigned order.    *)
(* Then about interrupts and system calls, for every job, at any depth: a  *)
(* handler that returns has left no trace.  Last the two together: what    *)
(* the programs without a loop or a call leave when they have finished,    *)
(* every instruction followed and interrupts taken anywhere between them.  *)
(***************************************************************************)
EXTENDS Processor, SequenceTheorems, FiniteSetTheorems, TLAPS

LEMMA BitB == \A p : B(p) \in Bit
BY DEF B, Bit

(* Every operation's flags are bits, and its value is a long.              *)
LEMMA ResultTyped ==
  ASSUME NEW res \in Longs, NEW CF \in Bit, NEW OF \in Bit, NEW fl \in Flags
  PROVE  /\ Result(res, CF, OF, fl).val = res
         /\ Result(res, CF, OF, fl).flags \in Flags
         /\ Result(res, CF, OF, fl).flags.CF = CF
         /\ Result(res, CF, OF, fl).flags.OF = OF
         /\ Result(res, CF, OF, fl).flags.ZF = B(res = 0)
         /\ Result(res, CF, OF, fl).flags.SF = sign(res)
<1>1. set_PF(res) \in Bit /\ sign(res) \in Bit /\ B(res = 0) \in Bit
  BY BitB DEF set_PF, sign
<1> HIDE DEF set_PF, sign, B, Bit, Longs
<1> QED BY <1>1 DEF Result, Flags

(* alu_add leaves the sum of its operands, the carry counted.              *)
THEOREM AddExact ==
  ASSUME NEW src \in Longs, NEW dest \in Longs, NEW fl \in Flags
  PROVE  /\ alu_add(src, dest, fl).val \in Longs
         /\ alu_add(src, dest, fl).flags \in Flags
         /\ dest + src = alu_add(src, dest, fl).val
                         + 2 * LongHalf * alu_add(src, dest, fl).flags.CF
<1> DEFINE res == Wrap(dest + src)
<1>1. res \in Longs /\ dest + src = res + 2 * LongHalf * set_CF_add(res, src)
  BY HalvesAssumption DEF Longs, Wrap, set_CF_add, B
<1>2. set_CF_add(res, src) \in Bit /\ set_OF_add(res, src, dest) \in Bit
  BY BitB DEF set_CF_add, set_OF_add
<1> HIDE DEF res
<1>3. alu_add(src, dest, fl)
        = Result(res, set_CF_add(res, src), set_OF_add(res, src, dest), fl)
  BY DEF alu_add, res
<1> QED BY <1>1, <1>2, <1>3, ResultTyped

(* alu_adc leaves the sum of its operands and the carry it found, the      *)
(* carry counted.                                                          *)
THEOREM AdcExact ==
  ASSUME NEW src \in Longs, NEW dest \in Longs, NEW fl \in Flags
  PROVE  /\ alu_adc(src, dest, fl).val \in Longs
         /\ alu_adc(src, dest, fl).flags \in Flags
         /\ dest + src + fl.CF
              = alu_adc(src, dest, fl).val
                + 2 * LongHalf * alu_adc(src, dest, fl).flags.CF
<1> DEFINE res == Wrap(dest + src + fl.CF)
<1>1. fl.CF \in Bit
  BY DEF Flags
<1>2. /\ res \in Longs
      /\ dest + src + fl.CF
           = res + 2 * LongHalf * set_CF_adc(res, src, fl.CF)
  BY <1>1, HalvesAssumption DEF Longs, Wrap, set_CF_adc, B, Bit
<1>3. set_CF_adc(res, src, fl.CF) \in Bit /\ set_OF_add(res, src, dest) \in Bit
  BY BitB DEF set_CF_adc, set_OF_add
<1> HIDE DEF res
<1>4. alu_adc(src, dest, fl)
        = Result(res, set_CF_adc(res, src, fl.CF),
                 set_OF_add(res, src, dest), fl)
  BY DEF alu_adc, res
<1> QED BY <1>2, <1>3, <1>4, ResultTyped

(* alu_sub leaves the difference of its operands, the borrow counted.      *)
THEOREM SubExact ==
  ASSUME NEW src \in Longs, NEW dest \in Longs, NEW fl \in Flags
  PROVE  /\ alu_sub(src, dest, fl).val \in Longs
         /\ alu_sub(src, dest, fl).flags \in Flags
         /\ dest - src = alu_sub(src, dest, fl).val
                         - 2 * LongHalf * alu_sub(src, dest, fl).flags.CF
<1> DEFINE res == Wrap(dest - src)
<1>1. res \in Longs /\ dest - src = res - 2 * LongHalf * set_CF_sub(res, dest)
  BY HalvesAssumption DEF Longs, Wrap, set_CF_sub, B
<1>2. set_CF_sub(res, dest) \in Bit /\ set_OF_sub(res, src, dest) \in Bit
  BY BitB DEF set_CF_sub, set_OF_sub
<1> HIDE DEF res
<1>3. alu_sub(src, dest, fl)
        = Result(res, set_CF_sub(res, dest), set_OF_sub(res, src, dest), fl)
  BY DEF alu_sub, res
<1> QED BY <1>1, <1>2, <1>3, ResultTyped

(* alu_sbb leaves the difference of its operands and the borrow it found,  *)
(* the borrow counted.                                                     *)
THEOREM SbbExact ==
  ASSUME NEW src \in Longs, NEW dest \in Longs, NEW fl \in Flags
  PROVE  /\ alu_sbb(src, dest, fl).val \in Longs
         /\ alu_sbb(src, dest, fl).flags \in Flags
         /\ dest - src - fl.CF
              = alu_sbb(src, dest, fl).val
                - 2 * LongHalf * alu_sbb(src, dest, fl).flags.CF
<1> DEFINE res == Wrap(dest - src - fl.CF)
<1>1. fl.CF \in Bit
  BY DEF Flags
<1>2. /\ res \in Longs
      /\ dest - src - fl.CF
           = res - 2 * LongHalf * set_CF_sbb(res, dest, fl.CF)
  BY <1>1, HalvesAssumption DEF Longs, Wrap, set_CF_sbb, B, Bit
<1>3. set_CF_sbb(res, dest, fl.CF) \in Bit /\ set_OF_sub(res, src, dest) \in Bit
  BY BitB DEF set_CF_sbb, set_OF_sub
<1> HIDE DEF res
<1>4. alu_sbb(src, dest, fl)
        = Result(res, set_CF_sbb(res, dest, fl.CF),
                 set_OF_sub(res, src, dest), fl)
  BY DEF alu_sbb, res
<1> QED BY <1>2, <1>3, <1>4, ResultTyped

-----------------------------------------------------------------------------
(* A number of two longs.                                                  *)
Double(low, high) == low + (2 * LongHalf) * high

(* add of the low halves and adc of the high ones: the exact sum, its      *)
(* carry counted, whatever flags the first one finds.                      *)
THEOREM WideSumExact ==
  ASSUME NEW al \in Longs, NEW ah \in Longs, NEW bl \in Longs, NEW bh \in Longs,
         NEW fl \in Flags
  PROVE  LET low == alu_add(bl, al, fl)
             high == alu_adc(bh, ah, low.flags)
         IN  Double(al, ah) + Double(bl, bh)
               = Double(low.val, high.val)
                 + 2 * LongHalf * (2 * LongHalf) * high.flags.CF
<1> DEFINE low == alu_add(bl, al, fl)
           high == alu_adc(bh, ah, low.flags)
<1>1. /\ low.val \in Longs /\ low.flags \in Flags
      /\ al + bl = low.val + 2 * LongHalf * low.flags.CF
  BY AddExact
<1>2. /\ high.val \in Longs /\ high.flags \in Flags
      /\ ah + bh + low.flags.CF = high.val + 2 * LongHalf * high.flags.CF
  <2> HIDE DEF low
  <2> QED BY <1>1, AdcExact
<1>3. low.flags.CF \in Bit /\ high.flags.CF \in Bit
  BY <1>1, <1>2 DEF Flags
<1> HIDE DEF low, high
<1>4. Double(al, ah) + Double(bl, bh)
        = Double(low.val, high.val)
          + 2 * LongHalf * (2 * LongHalf) * high.flags.CF
  <2> DEFINE M == 2 * LongHalf
             c == low.flags.CF
             d == high.flags.CF
             C == M * c
             P == M * ah
             Q == M * bh
             R == M * high.val
             D == M * (M * d)
  <2>1. /\ M \in Nat /\ c \in Nat /\ d \in Nat /\ al \in Nat /\ ah \in Nat
        /\ bl \in Nat /\ bh \in Nat /\ low.val \in Nat /\ high.val \in Nat
    <3>1. c \in Nat /\ d \in Nat
      BY <1>3 DEF Bit
    <3>2. /\ M \in Nat /\ al \in Nat /\ ah \in Nat /\ bl \in Nat /\ bh \in Nat
          /\ low.val \in Nat /\ high.val \in Nat
      <4> HIDE DEF c, d
      <4> QED BY <1>1, <1>2, HalvesAssumption DEF Longs
    <3> QED BY <3>1, <3>2
  <2>2. al + bl = low.val + C /\ ah + bh + c = high.val + M * d
    BY <1>1, <1>2
  <2> HIDE DEF M, c, d
  <2>3. M * (ah + bh + c) = P + Q + C
    BY <2>1
  <2>4. M * (high.val + M * d) = R + D
    BY <2>1
  <2>5. P \in Int /\ Q \in Int /\ C \in Int /\ R \in Int /\ D \in Int
    BY <2>1
  <2>6. P + Q + C = R + D
    BY <2>2, <2>3, <2>4
  <2> HIDE DEF C, P, Q, R, D
  <2>7. (al + P) + (bl + Q) = (low.val + R) + D
    <3> DEFINE l == low.val
    <3>1. al + bl = l + C /\ l \in Int
      BY <2>1, <2>2
    <3>2. al \in Int /\ bl \in Int
      BY <2>1
    <3> HIDE DEF l
    <3>3. (al + P) + (bl + Q) = (l + R) + D
      BY <3>1, <3>2, <2>5, <2>6
    <3> QED BY <3>3 DEF l
  <2>8. Double(al, ah) = al + P /\ Double(bl, bh) = bl + Q
        /\ Double(low.val, high.val) = low.val + R
    BY DEF Double, P, Q, R, M
  <2>9. 2 * LongHalf * (2 * LongHalf) * high.flags.CF = D
    BY <2>1, HalvesAssumption DEF D, M, d
  <2> QED BY <2>7, <2>8, <2>9
<1> QED BY <1>4 DEF low, high

(* sub of the low halves and sbb of the high ones: the exact difference,   *)
(* its borrow counted.                                                     *)
THEOREM WideDifferenceExact ==
  ASSUME NEW al \in Longs, NEW ah \in Longs, NEW bl \in Longs, NEW bh \in Longs,
         NEW fl \in Flags
  PROVE  LET low == alu_sub(bl, al, fl)
             high == alu_sbb(bh, ah, low.flags)
         IN  Double(al, ah) - Double(bl, bh)
               = Double(low.val, high.val)
                 - 2 * LongHalf * (2 * LongHalf) * high.flags.CF
<1> DEFINE low == alu_sub(bl, al, fl)
           high == alu_sbb(bh, ah, low.flags)
<1>1. /\ low.val \in Longs /\ low.flags \in Flags
      /\ al - bl = low.val - 2 * LongHalf * low.flags.CF
  BY SubExact
<1>2. /\ high.val \in Longs /\ high.flags \in Flags
      /\ ah - bh - low.flags.CF = high.val - 2 * LongHalf * high.flags.CF
  <2> HIDE DEF low
  <2> QED BY <1>1, SbbExact
<1>3. low.flags.CF \in Bit /\ high.flags.CF \in Bit
  BY <1>1, <1>2 DEF Flags
<1> HIDE DEF low, high
<1>4. Double(al, ah) - Double(bl, bh)
        = Double(low.val, high.val)
          - 2 * LongHalf * (2 * LongHalf) * high.flags.CF
  <2> DEFINE M == 2 * LongHalf
             c == low.flags.CF
             d == high.flags.CF
             C == M * c
             P == M * ah
             Q == M * bh
             R == M * high.val
             D == M * (M * d)
  <2>1. /\ M \in Nat /\ c \in Nat /\ d \in Nat /\ al \in Nat /\ ah \in Nat
        /\ bl \in Nat /\ bh \in Nat /\ low.val \in Nat /\ high.val \in Nat
    <3>1. c \in Nat /\ d \in Nat
      BY <1>3 DEF Bit
    <3>2. /\ M \in Nat /\ al \in Nat /\ ah \in Nat /\ bl \in Nat /\ bh \in Nat
          /\ low.val \in Nat /\ high.val \in Nat
      <4> HIDE DEF c, d
      <4> QED BY <1>1, <1>2, HalvesAssumption DEF Longs
    <3> QED BY <3>1, <3>2
  <2>2. al - bl = low.val - C /\ ah - bh - c = high.val - M * d
    BY <1>1, <1>2
  <2> HIDE DEF M, c, d
  <2>3. M * (ah - bh - c) = P - Q - C
    BY <2>1
  <2>4. M * (high.val - M * d) = R - D
    BY <2>1
  <2>5. P \in Int /\ Q \in Int /\ C \in Int /\ R \in Int /\ D \in Int
    BY <2>1
  <2>6. P - Q - C = R - D
    BY <2>2, <2>3, <2>4
  <2> HIDE DEF C, P, Q, R, D
  <2>7. (al + P) - (bl + Q) = (low.val + R) - D
    <3> DEFINE l == low.val
    <3>1. al - bl = l - C /\ l \in Int
      BY <2>1, <2>2
    <3>2. al \in Int /\ bl \in Int
      BY <2>1
    <3> HIDE DEF l
    <3>3. (al + P) - (bl + Q) = (l + R) - D
      BY <3>1, <3>2, <2>5, <2>6
    <3> QED BY <3>3 DEF l
  <2>8. Double(al, ah) = al + P /\ Double(bl, bh) = bl + Q
        /\ Double(low.val, high.val) = low.val + R
    BY DEF Double, P, Q, R, M
  <2>9. 2 * LongHalf * (2 * LongHalf) * high.flags.CF = D
    BY <2>1, HalvesAssumption DEF D, M, d
  <2> QED BY <2>7, <2>8, <2>9
<1> QED BY <1>4 DEF low, high

-----------------------------------------------------------------------------
(* The flags after a subtraction: CF is the unsigned order, SF against OF  *)
(* the signed one.                                                         *)
LEMMA FlagsOfSub ==
  ASSUME NEW src \in Longs, NEW dest \in Longs, NEW fl \in Flags
  PROVE  LET f == alu_sub(src, dest, fl).flags
         IN  /\ f.CF \in Bit /\ f.ZF \in Bit /\ f.SF \in Bit /\ f.OF \in Bit
             /\ f.ZF = 1 <=> dest = src
             /\ f.CF = 1 <=> dest < src
             /\ f.SF # f.OF <=> Signed(dest) < Signed(src)
<1> DEFINE res == Wrap(dest - src)
           f == alu_sub(src, dest, fl).flags
<1>1. res \in Longs
  BY HalvesAssumption DEF Longs, Wrap
<1>2. set_CF_sub(res, dest) \in Bit /\ set_OF_sub(res, src, dest) \in Bit
  BY BitB DEF set_CF_sub, set_OF_sub
<1>3. /\ f \in Flags /\ f.CF = set_CF_sub(res, dest)
      /\ f.OF = set_OF_sub(res, src, dest)
      /\ f.ZF = B(res = 0) /\ f.SF = sign(res)
  <2> HIDE DEF res
  <2> QED BY <1>1, <1>2, ResultTyped DEF alu_sub, res
<1>4. /\ B(res = 0) = 1 <=> dest = src
      /\ set_CF_sub(res, dest) = 1 <=> dest < src
  BY HalvesAssumption DEF Longs, Wrap, B, set_CF_sub
<1>5. sign(res) # set_OF_sub(res, src, dest) <=> Signed(dest) < Signed(src)
  BY HalvesAssumption DEF Longs, Wrap, B, set_OF_sub, sign, Signed
<1> HIDE DEF f, res
<1>6. f.CF \in Bit /\ f.ZF \in Bit /\ f.SF \in Bit /\ f.OF \in Bit
  BY <1>3 DEF Flags
<1> QED BY <1>3, <1>4, <1>5, <1>6 DEF f

(* After cmp every condition is the relation it is named for: a, ae, b, be *)
(* and na for unsigned longs, g, ge, l and le for signed ones.             *)
THEOREM CompareDecides ==
  ASSUME NEW src \in Longs, NEW dest \in Longs, NEW fl \in Flags
  PROVE  LET f == alu_sub(src, dest, fl).flags
         IN  /\ Condition("e", f) <=> dest = src
             /\ Condition("ne", f) <=> dest # src
             /\ Condition("a", f) <=> dest > src
             /\ Condition("ae", f) <=> dest >= src
             /\ Condition("b", f) <=> dest < src
             /\ Condition("be", f) <=> dest <= src
             /\ Condition("c", f) <=> dest < src
             /\ Condition("na", f) <=> dest <= src
             /\ Condition("g", f) <=> Signed(dest) > Signed(src)
             /\ Condition("ge", f) <=> Signed(dest) >= Signed(src)
             /\ Condition("l", f) <=> Signed(dest) < Signed(src)
             /\ Condition("le", f) <=> Signed(dest) <= Signed(src)
<1> DEFINE f == alu_sub(src, dest, fl).flags
<1>1. /\ f.CF \in Bit /\ f.ZF \in Bit /\ f.SF \in Bit /\ f.OF \in Bit
      /\ f.ZF = 1 <=> dest = src
      /\ f.CF = 1 <=> dest < src
      /\ f.SF # f.OF <=> Signed(dest) < Signed(src)
  BY FlagsOfSub
<1>2. /\ dest \in Int /\ src \in Int
      /\ Signed(dest) \in Int /\ Signed(src) \in Int
      /\ Signed(dest) = Signed(src) <=> dest = src
  BY HalvesAssumption DEF Longs, Signed
<1> HIDE DEF f
<1>3. /\ Condition("e", f) <=> f.ZF = 1
      /\ Condition("ne", f) <=> f.ZF = 0
      /\ Condition("a", f) <=> f.CF = 0 /\ f.ZF = 0
      /\ Condition("ae", f) <=> f.CF = 0 \/ f.ZF = 1
      /\ Condition("b", f) <=> f.CF = 1 /\ f.ZF = 0
      /\ Condition("be", f) <=> f.CF = 1 \/ f.ZF = 1
      /\ Condition("c", f) <=> f.CF = 1
      /\ Condition("na", f) <=> f.CF = 1 \/ f.ZF = 1
      /\ Condition("g", f) <=> f.ZF = 0 /\ f.SF = f.OF
      /\ Condition("ge", f) <=> f.SF = f.OF \/ f.ZF = 1
      /\ Condition("l", f) <=> f.SF # f.OF /\ f.ZF = 0
      /\ Condition("le", f) <=> f.ZF = 1 \/ f.SF # f.OF
  BY DEF Condition
<1>4. /\ f.ZF = 0 <=> dest # src
      /\ f.CF = 0 <=> dest >= src
  BY <1>1, <1>2 DEF Bit
<1> HIDE DEF Condition
<1> QED BY <1>1, <1>2, <1>3, <1>4 DEF f

(* Sign-extending both bytes first, as the instructions do, keeps the      *)
(* unsigned and the signed order of bytes: CompareDecides holds for them.  *)
THEOREM BytesKeepOrder ==
  ASSUME NEW x \in Bytes, NEW y \in Bytes
  PROVE  LET S(b) == IF b >= ByteHalf THEN b - 2 * ByteHalf ELSE b
         IN  /\ sign_ext(x) \in Longs
             /\ sign_ext(x) < sign_ext(y) <=> x < y
             /\ sign_ext(x) = sign_ext(y) <=> x = y
             /\ Signed(sign_ext(x)) = S(x)
BY HalvesAssumption DEF Bytes, Longs, sign_ext, Signed

-----------------------------------------------------------------------------
(* Sequences whose elements have no common type: a stack holds numbers,    *)
(* flags and return addresses.                                             *)
IsSeq(s) == Len(s) \in Nat /\ s = [i \in 1 .. Len(s) |-> s[i]]

LEMMA IsSeqMember ==
  ASSUME NEW s, IsSeq(s)
  PROVE  s \in Seq({s[i] : i \in 1 .. Len(s)})
BY DEF IsSeq

LEMMA MemberIsSeq ==
  ASSUME NEW S, NEW s \in Seq(S)
  PROVE  IsSeq(s)
BY DEF IsSeq

LEMMA SameSeq ==
  ASSUME NEW s, NEW t, IsSeq(s), IsSeq(t), Len(s) = Len(t),
         \A i \in 1 .. Len(s) : s[i] = t[i]
  PROVE  s = t
BY DEF IsSeq

(* What Append, concatenation, a prefix and EXCEPT make of such a          *)
(* sequence.                                                               *)
LEMMA Appended ==
  ASSUME NEW s, IsSeq(s), NEW e
  PROVE  /\ IsSeq(Append(s, e)) /\ Len(Append(s, e)) = Len(s) + 1
         /\ \A i \in 1 .. Len(s) : Append(s, e)[i] = s[i]
         /\ Append(s, e)[Len(s) + 1] = e
<1> DEFINE S == {s[i] : i \in 1 .. Len(s)} \cup {e}
<1>1. s \in Seq(S) /\ e \in S
  BY DEF IsSeq
<1> HIDE DEF S
<1>2. Append(s, e) \in Seq(S)
  BY <1>1
<1>3. IsSeq(Append(s, e))
  BY <1>2, MemberIsSeq
<1> QED BY <1>1, <1>3

LEMMA Concatenated ==
  ASSUME NEW s, NEW t, IsSeq(s), IsSeq(t)
  PROVE  /\ IsSeq(s \o t) /\ Len(s \o t) = Len(s) + Len(t)
         /\ \A i \in 1 .. Len(s) : (s \o t)[i] = s[i]
         /\ \A i \in 1 .. Len(t) : (s \o t)[Len(s) + i] = t[i]
<1> DEFINE S == {s[i] : i \in 1 .. Len(s)} \cup {t[i] : i \in 1 .. Len(t)}
<1>1. s \in Seq(S) /\ t \in Seq(S)
  BY DEF IsSeq
<1> HIDE DEF S
<1>2. s \o t \in Seq(S)
  BY <1>1
<1>3. IsSeq(s \o t)
  BY <1>2, MemberIsSeq
<1> QED BY <1>1, <1>3

LEMMA Prefixed ==
  ASSUME NEW s, IsSeq(s), NEW n \in 0 .. Len(s)
  PROVE  /\ IsSeq(SubSeq(s, 1, n)) /\ Len(SubSeq(s, 1, n)) = n
         /\ \A i \in 1 .. n : SubSeq(s, 1, n)[i] = s[i]
<1> DEFINE S == {s[i] : i \in 1 .. Len(s)}
<1>1. s \in Seq(S) /\ Len(s) \in Nat /\ n \in Nat
  BY DEF IsSeq
<1>2. \A i \in 1 .. n : s[i] \in S
  BY <1>1
<1> HIDE DEF S
<1>3. /\ SubSeq(s, 1, n) \in Seq(S) /\ Len(SubSeq(s, 1, n)) = n
      /\ \A i \in 1 .. n : SubSeq(s, 1, n)[i] = s[1 + i - 1]
  BY <1>1, <1>2, SubSeqProperties
<1>4. IsSeq(SubSeq(s, 1, n))
  BY <1>3, MemberIsSeq
<1> QED BY <1>1, <1>3, <1>4

LEMMA Shortened ==
  ASSUME NEW s, IsSeq(s), Len(s) > 0
  PROVE  /\ IsSeq(Front(s)) /\ Len(Front(s)) = Len(s) - 1
         /\ \A i \in 1 .. Len(s) - 1 : Front(s)[i] = s[i]
         /\ Last(s) = s[Len(s)]
<1>1. Len(s) - 1 \in 0 .. Len(s)
  BY DEF IsSeq
<1> QED BY <1>1, Prefixed DEF Front, Last

LEMMA SameDomain ==
  ASSUME NEW s, IsSeq(s), NEW t, t = [i \in 1 .. Len(s) |-> t[i]]
  PROVE  IsSeq(t) /\ Len(t) = Len(s)
<1>1. t \in Seq({t[i] : i \in 1 .. Len(s)}) /\ Len(t) = Len(s)
  BY DEF IsSeq
<1> QED BY <1>1, MemberIsSeq

LEMMA Triple == \A a, b, c : IsSeq(<<a, b, c>>)
<1> SUFFICES ASSUME NEW a, NEW b, NEW c PROVE IsSeq(<<a, b, c>>)
  OBVIOUS
<1>1. <<a, b, c>> \in Seq({a, b, c})
  OBVIOUS
<1> QED BY <1>1, MemberIsSeq

-----------------------------------------------------------------------------
(* A register file: the registers and nothing else.                        *)
IsFile(g) == g = [x \in Regs |-> g[x]]

(* What the program is to find in its registers after the handler that     *)
(* interrupted it in context c, or after its call.                         *)
After(c) == IF c.call THEN [c.gpr EXCEPT !["eax"] = 0] ELSE c.gpr

(* The number that the stub of a vector pushes.                            *)
Number(code) == IF code = "vecsys" THEN 128 ELSE 1000

(* How many words lie on the interrupted stack before each instruction of  *)
(* the entry code.                                                         *)
Height == <<3, 4, 5, 13, 14, 14, 13, 5, 3>>

(* The TrapFrame above b words of stack s holds the registers g.           *)
Saves(b, s, g) == \A x \in Regs : s[b + 13 - Saved[x]] = g[x]

(* The stack s still holds c's, and EFLAGS and EIP above it.               *)
Interrupted(c, s) ==
  /\ \A i \in 1 .. Len(c.stack) : s[i] = c.stack[i]
  /\ s[Len(c.stack) + 1] = c.flags /\ s[Len(c.stack) + 3] = c.eip

(* In the entry code, with registers g, at e, on stack s: what interrupted *)
(* c is on its way.  Below is c's stack, then what raise_intr pushed, the  *)
(* two words of the stub and the TrapFrame.                                *)
Frame(c, g, e, s) ==
  LET b == Len(c.stack)
  IN  /\ e.code \in {"irq", "vecsys"} /\ e.at \in 1 .. 9
      /\ c.call <=> e.code = "vecsys"
      /\ IsFile(g) /\ IsSeq(s) /\ Len(s) = b + Height[e.at]
      /\ Interrupted(c, s)
      /\ e.at \in 3 .. 8 => s[b + 5] = Number(e.code)
      /\ e.at \in 4 .. 5 => Saves(b, s, c.gpr)
      /\ e.at \in 6 .. 7 => Saves(b, s, After(c))
      /\ e.at \in 5 .. 6 => s[b + 14] = b + 13
      /\ e.at \in 1 .. 3 => g = c.gpr
      /\ e.at \in 8 .. 9 => g = After(c)

IsContext(c) == IsSeq(c.stack) /\ IsFile(c.gpr)

(* The instructions of the entry code, by their place.                     *)
LEMMA EntryOf ==
  ASSUME NEW no
  PROVE  /\ Entry(no)[1] = <<"push", "$0">>
         /\ Entry(no)[2] = <<"push", no>>
         /\ Entry(no)[3] = <<"pusha">>
         /\ Entry(no)[4] = <<"push", "esp">>
         /\ Entry(no)[5] = <<"irq_handle">>
         /\ Entry(no)[6] = <<"drop", 1>>
         /\ Entry(no)[7] = <<"popa">>
         /\ Entry(no)[8] = <<"drop", 2>>
         /\ Entry(no)[9] = <<"iret">>
BY DEF Entry

LEMMA EntryAt ==
  ASSUME eip.code \in {"irq", "vecsys"}, eip.at \in 1 .. 9
  PROVE  /\ eip.at = 1 => Op = "push" /\ Instruction[2] = "$0"
         /\ eip.at = 2 => /\ Op = "push"
                          /\ eip.code = "vecsys" => Instruction[2] = "$128"
                          /\ eip.code = "irq" => Instruction[2] = "$1000"
         /\ eip.at = 3 => Op = "pusha"
         /\ eip.at = 4 => Op = "push" /\ Instruction[2] = "esp"
         /\ eip.at = 5 => Op = "irq_handle"
         /\ eip.at = 6 => Op = "drop" /\ Instruction[2] = 1
         /\ eip.at = 7 => Op = "popa"
         /\ eip.at = 8 => Op = "drop" /\ Instruction[2] = 2
         /\ eip.at = 9 => Op = "iret"
<1> DEFINE no == IF eip.code = "vecsys" THEN "$128" ELSE "$1000"
<1>1. Instruction = Entry(no)[eip.at]
  BY DEF Instruction, CodeOf
<1>2. /\ eip.code = "vecsys" => no = "$128"
      /\ eip.code = "irq" => no = "$1000"
  OBVIOUS
<1> HIDE DEF no
<1>3. CASE eip.at = 1
  <2>1. Instruction = <<"push", "$0">>
    BY <1>1, <1>3, EntryOf
  <2> QED BY <1>2, <1>3, <2>1 DEF Op
<1>4. CASE eip.at = 2
  <2>1. Instruction = <<"push", no>>
    BY <1>1, <1>4, EntryOf
  <2> QED BY <1>2, <1>4, <2>1 DEF Op
<1>5. CASE eip.at = 3
  <2>1. Instruction = <<"pusha">>
    BY <1>1, <1>5, EntryOf
  <2> QED BY <1>2, <1>5, <2>1 DEF Op
<1>6. CASE eip.at = 4
  <2>1. Instruction = <<"push", "esp">>
    BY <1>1, <1>6, EntryOf
  <2> QED BY <1>2, <1>6, <2>1 DEF Op
<1>7. CASE eip.at = 5
  <2>1. Instruction = <<"irq_handle">>
    BY <1>1, <1>7, EntryOf
  <2> QED BY <1>2, <1>7, <2>1 DEF Op
<1>8. CASE eip.at = 6
  <2>1. Instruction = <<"drop", 1>>
    BY <1>1, <1>8, EntryOf
  <2> QED BY <1>2, <1>8, <2>1 DEF Op
<1>9. CASE eip.at = 7
  <2>1. Instruction = <<"popa">>
    BY <1>1, <1>9, EntryOf
  <2> QED BY <1>2, <1>9, <2>1 DEF Op
<1>10. CASE eip.at = 8
  <2>1. Instruction = <<"drop", 2>>
    BY <1>1, <1>10, EntryOf
  <2> QED BY <1>2, <1>10, <2>1 DEF Op
<1>11. CASE eip.at = 9
  <2>1. Instruction = <<"iret">>
    BY <1>1, <1>11, EntryOf
  <2> QED BY <1>2, <1>11, <2>1 DEF Op
<1> QED BY <1>3, <1>4, <1>5, <1>6, <1>7, <1>8, <1>9, <1>10, <1>11

LEMMA Heights ==
  /\ Height[1] = 3 /\ Height[2] = 4 /\ Height[3] = 5 /\ Height[4] = 13
  /\ Height[5] = 14 /\ Height[6] = 14 /\ Height[7] = 13 /\ Height[8] = 5
  /\ Height[9] = 3
BY DEF Height

(* One step of the entry code, by its instruction.                         *)
LEMMA EntryOps ==
  /\ EntryInst /\ Op = "push" => Push
  /\ EntryInst /\ Op = "pusha" => Pusha
  /\ EntryInst /\ Op = "irq_handle" => IrqHandle
  /\ EntryInst /\ Op = "drop" => Drop
  /\ EntryInst /\ Op = "popa" => Popa
  /\ EntryInst /\ Op = "iret" => Iret
<1> HIDE DEF Op
<1> QED BY DEF EntryInst, Push, Pusha, IrqHandle, Drop, Popa, Iret

LEMMA Values ==
  /\ ValueOf("$0") = 0 /\ ValueOf("$128") = 128 /\ ValueOf("$1000") = 1000
  /\ ValueOf("esp") = Len(stack)
<1>1. \A x \in {"$0", "$128", "$1000"} :
        x \notin Regs /\ x # "esp" /\ x \notin DOMAIN OnStack /\ x \notin Variables
  BY DEF Regs, OnStack, Variables
<1>2. \A x \in {"$0", "$128", "$1000"} : x \in DOMAIN Immediates
  BY DEF Immediates
<1>3. \A x \in {"$0", "$128", "$1000"} : ValueOf(x) = Immediates[x]
  BY <1>1, <1>2 DEF ValueOf
<1>4. Immediates["$0"] = 0 /\ Immediates["$128"] = 128 /\ Immediates["$1000"] = 1000
  BY DEF Immediates
<1>5. /\ "esp" \notin Regs /\ "esp" \notin DOMAIN OnStack /\ "esp" \notin Variables
      /\ "esp" \notin DOMAIN Immediates
  BY DEF Regs, OnStack, Variables, Immediates
<1>6. ValueOf("esp") = Len(stack)
  BY <1>5 DEF ValueOf
<1> QED BY <1>3, <1>4, <1>6

(* What drop and popa do.                                                  *)
LEMMA Effects ==
  /\ Drop => /\ stack' = SubSeq(stack, 1, Len(stack) - Instruction[2])
             /\ gpr' = gpr /\ contexts' = contexts /\ Advance
  /\ Popa => /\ gpr' = [x \in Regs |-> stack[Len(stack) - Saved[x]]]
             /\ stack' = SubSeq(stack, 1, Len(stack) - 8)
             /\ contexts' = contexts /\ Advance
BY DEF Drop, Popa

(* Where a register's word is in the TrapFrame above b words.              *)
LEMMA SavedAt ==
  ASSUME NEW b \in Nat, NEW x \in Regs
  PROVE  /\ b + 13 - Saved[x] \in b + 6 .. b + 13
         /\ b + 13 - Saved[x] = b + 6 <=> x = "eax"
         /\ b + 5 + (8 - Saved[x]) = b + 13 - Saved[x]
<1>1. Saved[x] \in 0 .. 7 /\ (Saved[x] = 7 <=> x = "eax")
  BY DEF Saved, Regs
<1> DEFINE k == Saved[x]
<1> HIDE DEF k
<1>2. k \in 0 .. 7 /\ (k = 7 <=> x = "eax")
  BY <1>1 DEF k
<1>3. /\ b + 13 - k \in b + 6 .. b + 13
      /\ b + 13 - k = b + 6 <=> k = 7
      /\ b + 5 + (8 - k) = b + 13 - k
  BY <1>2
<1> QED BY <1>2, <1>3 DEF k

(* What lies below word n stays what it is when the stack changes above.   *)
LEMMA Below ==
  ASSUME NEW c, NEW s, NEW t, NEW b, b \in Nat, b = Len(c.stack),
         NEW n \in Nat, \A i \in 1 .. n : t[i] = s[i]
  PROVE  /\ b + 3 <= n /\ Interrupted(c, s) => Interrupted(c, t)
         /\ b + 5 <= n => t[b + 5] = s[b + 5]
         /\ b + 13 <= n => \A g : Saves(b, s, g) => Saves(b, t, g)
<1>1. ASSUME b + 3 <= n, Interrupted(c, s) PROVE Interrupted(c, t)
  <2>1. \A i \in 1 .. b : t[i] = s[i]
    BY <1>1
  <2>2. t[b + 1] = s[b + 1] /\ t[b + 3] = s[b + 3]
    BY <1>1
  <2> QED BY <1>1, <2>1, <2>2 DEF Interrupted
<1>2. ASSUME b + 5 <= n PROVE t[b + 5] = s[b + 5]
  BY <1>2
<1>3. ASSUME b + 13 <= n, NEW g, Saves(b, s, g) PROVE Saves(b, t, g)
  <2> SUFFICES ASSUME NEW x \in Regs PROVE t[b + 13 - Saved[x]] = g[x]
    BY DEF Saves
  <2> DEFINE k == b + 13 - Saved[x]
  <2>1. k \in b + 6 .. b + 13 /\ s[k] = g[x]
    BY <1>3, SavedAt DEF Saves
  <2> HIDE DEF k
  <2>2. t[k] = s[k]
    BY <1>3, <2>1
  <2> QED BY <2>1, <2>2 DEF k
<1> QED BY <1>1, <1>2, <1>3

(* Before iret, each step goes on in the frame.                            *)
LEMMA EntrySteps ==
  ASSUME NEW c, IsContext(c), Frame(c, gpr, eip, stack), EntryInst, Op # "iret"
  PROVE  Frame(c, gpr', eip', stack') /\ contexts' = contexts
<1> DEFINE b == Len(c.stack)
<1>1. /\ eip.code \in {"irq", "vecsys"} /\ eip.at \in 1 .. 9
      /\ c.call <=> eip.code = "vecsys"
  BY DEF Frame
<1>2. b \in Nat /\ IsFile(gpr) /\ IsSeq(stack) /\ IsFile(c.gpr) /\ Interrupted(c, stack)
  BY DEF Frame, IsContext, IsSeq
<1>3. Len(stack) = b + Height[eip.at]
  BY DEF Frame
<1>4. /\ eip.at \in 3 .. 8 => stack[b + 5] = Number(eip.code)
      /\ eip.at \in 4 .. 5 => Saves(b, stack, c.gpr)
      /\ eip.at \in 6 .. 7 => Saves(b, stack, After(c))
      /\ eip.at \in 5 .. 6 => stack[b + 14] = b + 13
      /\ eip.at \in 1 .. 3 => gpr = c.gpr
      /\ eip.at \in 8 .. 9 => gpr = After(c)
  BY DEF Frame
<1>5. Advance => eip'.code = eip.code /\ eip'.at = eip.at + 1
  BY <1>1 DEF Advance, From
<1>a. \A k \in 1 .. 9 : eip'.code = eip.code /\ eip'.at = k
        /\ IsFile(gpr') /\ IsSeq(stack') /\ Len(stack') = b + Height[k]
        /\ Interrupted(c, stack')
        /\ (k \in 3 .. 8 => stack'[b + 5] = Number(eip.code))
        /\ (k \in 4 .. 5 => Saves(b, stack', c.gpr))
        /\ (k \in 6 .. 7 => Saves(b, stack', After(c)))
        /\ (k \in 5 .. 6 => stack'[b + 14] = b + 13)
        /\ (k \in 1 .. 3 => gpr' = c.gpr)
        /\ (k \in 8 .. 9 => gpr' = After(c))
        => Frame(c, gpr', eip', stack')
  BY <1>1 DEF Frame
<1> DEFINE Kept(n) == \A i \in 1 .. n : stack'[i] = stack[i]
<1>b. \A n \in Nat : Kept(n) =>
        /\ b + 3 <= n => Interrupted(c, stack')
        /\ b + 5 <= n => stack'[b + 5] = stack[b + 5]
        /\ b + 13 <= n => \A g : Saves(b, stack, g) => Saves(b, stack', g)
  <2> SUFFICES ASSUME NEW n \in Nat, Kept(n)
      PROVE  /\ b + 3 <= n => Interrupted(c, stack')
             /\ b + 5 <= n => stack'[b + 5] = stack[b + 5]
             /\ b + 13 <= n => \A g : Saves(b, stack, g) => Saves(b, stack', g)
    OBVIOUS
  <2>1. b \in Nat /\ b = Len(c.stack)
    BY <1>2
  <2> HIDE DEF b
  <2>2. b + 3 <= n => Interrupted(c, stack')
    BY <1>2, <2>1, Below
  <2>3. b + 5 <= n => stack'[b + 5] = stack[b + 5]
    BY <2>1
  <2>4. b + 13 <= n => \A g : Saves(b, stack, g) => Saves(b, stack', g)
    BY <2>1, Below
  <2> QED BY <2>2, <2>3, <2>4
<1> HIDE DEF b
<1>6. CASE eip.at = 1
  <2>1. Op = "push" /\ Instruction[2] = "$0" /\ Len(stack) = b + 3
    BY <1>1, <1>3, <1>6, EntryAt, Heights
  <2>2. /\ stack' = Append(stack, 0) /\ eip'.code = eip.code /\ eip'.at = 2
        /\ gpr' = gpr /\ contexts' = contexts
    BY <1>5, <1>6, <2>1, EntryOps, Values DEF Push
  <2>3. /\ IsSeq(stack') /\ Len(stack') = b + 4
        /\ Kept(b + 3)
    BY <1>2, <2>1, <2>2, Appended
  <2>4. Interrupted(c, stack')
    <3> HIDE DEF Kept
    <3> QED BY <1>b, <1>2, <2>3
  <2> QED BY <1>a, <1>2, <1>4, <1>6, <2>2, <2>3, <2>4, Heights
<1>7. CASE eip.at = 2
  <2>1. Op = "push" /\ Len(stack) = b + 4
    BY <1>1, <1>3, <1>7, EntryAt, Heights
  <2>2. ValueOf(Instruction[2]) = Number(eip.code)
    BY <1>1, <1>7, EntryAt, Values DEF Number
  <2>3. /\ stack' = Append(stack, Number(eip.code))
        /\ eip'.code = eip.code /\ eip'.at = 3
        /\ gpr' = gpr /\ contexts' = contexts
    BY <1>5, <1>7, <2>1, <2>2, EntryOps DEF Push
  <2>4. /\ IsSeq(stack') /\ Len(stack') = b + 5
        /\ stack'[b + 4 + 1] = Number(eip.code)
        /\ Kept(b + 4)
    BY <1>2, <2>1, <2>3, Appended
  <2>5. Interrupted(c, stack') /\ stack'[b + 5] = Number(eip.code)
    <3> HIDE DEF Kept
    <3> QED BY <1>b, <1>2, <2>4
  <2> QED BY <1>a, <1>2, <1>4, <1>7, <2>3, <2>4, <2>5, Heights
<1>8. CASE eip.at = 3
  <2> DEFINE t == <<gpr["eax"], gpr["ecx"], gpr["edx"], gpr["ebx"],
                    Len(stack), gpr["ebp"], gpr["esi"], gpr["edi"]>>
  <2>1. Op = "pusha" /\ Len(stack) = b + 5
    BY <1>1, <1>3, <1>8, EntryAt, Heights
  <2>2. /\ stack' = stack \o t /\ eip'.code = eip.code /\ eip'.at = 4
        /\ gpr' = gpr /\ contexts' = contexts
    <3>1. Pusha
      BY <2>1, EntryOps
    <3> QED BY <1>5, <1>8, <3>1 DEF Pusha
  <2>3. IsSeq(t) /\ Len(t) = 8
    <3>1. t \in Seq({gpr["eax"], gpr["ecx"], gpr["edx"], gpr["ebx"],
                     Len(stack), gpr["ebp"], gpr["esi"], gpr["edi"]})
      OBVIOUS
    <3> QED BY <3>1, MemberIsSeq
  <2>4. \A x \in Regs : 8 - Saved[x] \in 1 .. 8 /\ t[8 - Saved[x]] = gpr[x]
    BY DEF Saved, Regs
  <2> HIDE DEF t
  <2>5. IsSeq(stack') /\ Len(stack') = b + 13
    <3>1. IsSeq(stack \o t) /\ Len(stack \o t) = Len(stack) + Len(t)
      BY <1>2, <2>3, Concatenated
    <3> QED BY <1>2, <2>1, <2>2, <2>3, <3>1
  <2>6. Kept(b + 5)
    BY <1>2, <2>1, <2>2, <2>3, Concatenated
  <2>7. \A i \in 1 .. 8 : stack'[b + 5 + i] = t[i]
    <3>1. \A i \in 1 .. Len(t) : (stack \o t)[Len(stack) + i] = t[i]
      <4>1. Len(stack) \in Nat /\ Len(t) \in Nat
        BY <1>2, <2>3 DEF IsSeq
      <4> QED BY <4>1
    <3> QED BY <2>1, <2>2, <2>3, <3>1
  <2>8. Saves(b, stack', gpr)
    <3> SUFFICES ASSUME NEW x \in Regs PROVE stack'[b + 13 - Saved[x]] = gpr[x]
      BY DEF Saves
    <3>1. b + 5 + (8 - Saved[x]) = b + 13 - Saved[x]
      BY <1>2, SavedAt
    <3>2. stack'[b + 5 + (8 - Saved[x])] = gpr[x]
      BY <2>4, <2>7
    <3> QED BY <3>1, <3>2
  <2>9. Interrupted(c, stack') /\ stack'[b + 5] = Number(eip.code)
    <3> HIDE DEF Kept
    <3> QED BY <1>b, <1>2, <1>4, <1>8, <2>6
  <2> QED BY <1>a, <1>2, <1>4, <1>8, <2>2, <2>5, <2>8, <2>9, Heights
<1>9. CASE eip.at = 4
  <2>1. Op = "push" /\ Instruction[2] = "esp" /\ Len(stack) = b + 13
    BY <1>1, <1>3, <1>9, EntryAt, Heights
  <2>2. /\ stack' = Append(stack, b + 13) /\ eip'.code = eip.code /\ eip'.at = 5
        /\ gpr' = gpr /\ contexts' = contexts
    BY <1>5, <1>9, <2>1, EntryOps, Values DEF Push
  <2>3. /\ IsSeq(stack') /\ Len(stack') = b + 14 /\ stack'[b + 13 + 1] = b + 13
        /\ Kept(b + 13)
    BY <1>2, <2>1, <2>2, Appended
  <2>4. /\ Interrupted(c, stack') /\ Saves(b, stack', c.gpr)
        /\ stack'[b + 5] = Number(eip.code)
    <3> HIDE DEF Kept
    <3> QED BY <1>b, <1>2, <1>4, <1>9, <2>3
  <2>5. stack'[b + 14] = b + 13
    BY <1>2, <2>3
  <2> QED BY <1>a, <1>2, <1>9, <2>2, <2>3, <2>4, <2>5, Heights
<1>10. CASE eip.at = 5
  <2>1. Op = "irq_handle" /\ Len(stack) = b + 14
    BY <1>1, <1>3, <1>10, EntryAt, Heights
  <2>2. /\ Last(stack) = b + 13 /\ stack[b + 5] = Number(eip.code)
    BY <1>4, <1>10, <2>1 DEF Last
  <2>3. Number(eip.code) = 128 <=> eip.code = "vecsys"
    BY DEF Number
  <2>4. b + 13 - Saved["eax"] = b + 6 /\ b + 13 - 8 = b + 5
    <3>1. "eax" \in Regs
      BY DEF Regs
    <3> QED BY <1>2, <3>1, SavedAt
  <2>5. IrqHandle
    BY <2>1, EntryOps
  <2>6. /\ stack' = IF eip.code = "vecsys" THEN [stack EXCEPT ![b + 6] = 0] ELSE stack
        /\ \E x \in Left :
             gpr' = [gpr EXCEPT !["eax"] = x, !["ecx"] = x, !["edx"] = x]
        /\ Advance /\ contexts' = contexts
    <3>1. /\ stack' = IF stack[Last(stack) - 8] = 128
                      THEN [stack EXCEPT ![Last(stack) - Saved["eax"]] = 0] ELSE stack
          /\ \E x \in Left :
               gpr' = [gpr EXCEPT !["eax"] = x, !["ecx"] = x, !["edx"] = x]
          /\ Advance /\ contexts' = contexts
      BY <2>5 DEF IrqHandle
    <3>2. /\ stack[Last(stack) - 8] = 128 <=> eip.code = "vecsys"
          /\ Last(stack) - Saved["eax"] = b + 6
      <4>1. Last(stack) - 8 = b + 5
        BY <1>2, <2>2
      <4>2. Last(stack) - Saved["eax"] = b + 6
        <5>1. Saved["eax"] = 7
          BY DEF Saved
        <5> QED BY <1>2, <2>2, <5>1
      <4> QED BY <2>2, <2>3, <4>1, <4>2
    <3> QED BY <3>1, <3>2
  <2>7. IsFile(gpr') /\ eip'.code = eip.code /\ eip'.at = 6
    <3>1. eip'.code = eip.code /\ eip'.at = 6
      BY <1>5, <1>10, <2>6
    <3>2. PICK x \in Left :
            gpr' = [gpr EXCEPT !["eax"] = x, !["ecx"] = x, !["edx"] = x]
      BY <2>6
    <3>3. DOMAIN gpr = Regs
      BY <1>2 DEF IsFile
    <3>4. IsFile(gpr')
      BY <3>2, <3>3 DEF IsFile
    <3> QED BY <3>1, <3>4
  <2>8. b + 6 \in 1 .. Len(stack)
    BY <1>2, <2>1
  <2>9. /\ IsSeq(stack') /\ Len(stack') = b + 14
        /\ \A i \in 1 .. b + 14 :
             stack'[i] = IF eip.code = "vecsys" /\ i = b + 6 THEN 0 ELSE stack[i]
    <3>1. CASE eip.code = "vecsys"
      <4>1. stack' = [stack EXCEPT ![b + 6] = 0]
        BY <2>6, <3>1
      <4>2. /\ stack' = [i \in 1 .. Len(stack) |-> stack'[i]]
            /\ \A i \in 1 .. Len(stack) : stack'[i] = IF i = b + 6 THEN 0 ELSE stack[i]
        BY <1>2, <2>8, <4>1 DEF IsSeq
      <4>3. IsSeq(stack') /\ Len(stack') = Len(stack)
        BY <1>2, <4>2, SameDomain
      <4> QED BY <2>1, <3>1, <4>2, <4>3
    <3>2. CASE eip.code # "vecsys"
      BY <1>2, <2>1, <2>6, <3>2
    <3> QED BY <3>1, <3>2
  <2>10. Saves(b, stack', After(c))
    <3> SUFFICES ASSUME NEW x \in Regs PROVE stack'[b + 13 - Saved[x]] = After(c)[x]
      BY DEF Saves
    <3> DEFINE k == b + 13 - Saved[x]
    <3>1. After(c)[x] = IF eip.code = "vecsys" /\ x = "eax" THEN 0 ELSE c.gpr[x]
      BY <1>1, <1>2 DEF After, IsFile
    <3>2. k \in b + 6 .. b + 13 /\ (k = b + 6 <=> x = "eax")
      BY <1>2, SavedAt
    <3>3. stack[k] = c.gpr[x]
      BY <1>4, <1>10 DEF Saves
    <3> HIDE DEF k
    <3>4. stack'[k] = IF eip.code = "vecsys" /\ x = "eax" THEN 0 ELSE stack[k]
      BY <1>2, <2>9, <3>2
    <3> QED BY <3>1, <3>3, <3>4 DEF k
  <2>11. Kept(b + 5)
    BY <1>2, <2>9
  <2>12. Interrupted(c, stack') /\ stack'[b + 5] = Number(eip.code)
    <3> HIDE DEF Kept
    <3> QED BY <1>b, <1>2, <1>4, <1>10, <2>11
  <2>13. stack'[b + 14] = b + 13
    BY <1>2, <1>4, <1>10, <2>9
  <2> QED BY <1>a, <1>10, <2>6, <2>7, <2>9, <2>10, <2>12, <2>13, Heights
<1>11. CASE eip.at = 6
  <2>1. Op = "drop" /\ Instruction[2] = 1 /\ Len(stack) = b + 14
    BY <1>1, <1>3, <1>11, EntryAt, Heights
  <2>2. b + 14 - 1 = b + 13 /\ b + 13 \in 0 .. Len(stack)
    BY <1>2, <2>1
  <2>3. /\ stack' = SubSeq(stack, 1, b + 13) /\ eip'.code = eip.code /\ eip'.at = 7
        /\ gpr' = gpr /\ contexts' = contexts
    <3>1. Drop
      BY <2>1, EntryOps
    <3>2. Len(stack) - Instruction[2] = b + 13
      BY <1>2, <2>1, <2>2
    <3> QED BY <1>5, <1>11, <3>1, <3>2, Effects
  <2>4. /\ IsSeq(stack') /\ Len(stack') = b + 13
        /\ Kept(b + 13)
    BY <1>2, <2>2, <2>3, Prefixed
  <2>5. /\ Interrupted(c, stack') /\ Saves(b, stack', After(c))
        /\ stack'[b + 5] = Number(eip.code)
    <3> HIDE DEF Kept
    <3> QED BY <1>b, <1>2, <1>4, <1>11, <2>4
  <2> QED BY <1>a, <1>2, <1>11, <2>3, <2>4, <2>5, Heights
<1>12. CASE eip.at = 7
  <2>1. Op = "popa" /\ Len(stack) = b + 13
    BY <1>1, <1>3, <1>12, EntryAt, Heights
  <2>2. b + 13 - 8 = b + 5 /\ b + 5 \in 0 .. Len(stack)
    BY <1>2, <2>1
  <2>3. /\ IsFile(gpr') /\ \A x \in Regs : gpr'[x] = stack[b + 13 - Saved[x]]
        /\ stack' = SubSeq(stack, 1, b + 5)
        /\ eip'.code = eip.code /\ eip'.at = 8 /\ contexts' = contexts
    <3>1. Popa
      BY <2>1, EntryOps
    <3>2. Len(stack) = b + 13 /\ Len(stack) - 8 = b + 5
      BY <1>2, <2>1, <2>2
    <3>3. /\ gpr' = [x \in Regs |-> stack[Len(stack) - Saved[x]]]
          /\ stack' = SubSeq(stack, 1, Len(stack) - 8)
          /\ contexts' = contexts /\ Advance
      BY <3>1, Effects
    <3>4. IsFile(gpr') /\ \A x \in Regs : gpr'[x] = stack[Len(stack) - Saved[x]]
      BY <3>3 DEF IsFile
    <3>5. ASSUME NEW x \in Regs PROVE gpr'[x] = stack[b + 13 - Saved[x]]
      <4>1. Len(stack) - Saved[x] = b + 13 - Saved[x]
        <5>1. Saved[x] \in 0 .. 7
          BY DEF Saved, Regs
        <5> QED BY <1>2, <3>2, <5>1
      <4>2. gpr'[x] = stack[Len(stack) - Saved[x]]
        BY <3>4
      <4> QED BY <4>1, <4>2, Zenon
    <3>6. stack' = SubSeq(stack, 1, b + 5)
      BY <3>2, <3>3, Zenon
    <3>7. eip'.code = eip.code /\ eip'.at = 8 /\ contexts' = contexts
      <4>1. Advance /\ contexts' = contexts
        BY <3>3
      <4> QED BY <1>5, <1>12, <4>1
    <3> QED BY <3>4, <3>5, <3>6, <3>7
  <2>4. /\ IsSeq(stack') /\ Len(stack') = b + 5
        /\ Kept(b + 5)
    BY <1>2, <2>2, <2>3, Prefixed
  <2>5. /\ Interrupted(c, stack') /\ stack'[b + 5] = Number(eip.code)
    <3> HIDE DEF Kept
    <3> QED BY <1>b, <1>2, <1>4, <1>12, <2>4
  <2>6. gpr' = After(c) /\ IsFile(gpr')
    <3>1. \A x \in Regs : gpr'[x] = After(c)[x]
      BY <1>4, <1>12, <2>3 DEF Saves
    <3>2. IsFile(After(c))
      BY <1>2 DEF After, IsFile
    <3>3. IsFile(gpr')
      BY <2>3
    <3> DEFINE h == After(c)
               g == gpr'
    <3>4. IsFile(h) /\ IsFile(g) /\ \A x \in Regs : g[x] = h[x]
      BY <3>1, <3>2, <3>3
    <3> HIDE DEF h, g
    <3>5. g = h
      BY <3>4 DEF IsFile
    <3> QED BY <3>3, <3>5 DEF g, h
  <2>7. eip'.code = eip.code /\ eip'.at = 8 /\ contexts' = contexts
    BY <2>3
  <2> QED BY <1>a, <2>4, <2>5, <2>6, <2>7, Heights
<1>13. CASE eip.at = 8
  <2>1. Op = "drop" /\ Instruction[2] = 2 /\ Len(stack) = b + 5
    BY <1>1, <1>3, <1>13, EntryAt, Heights
  <2>2. b + 5 - 2 = b + 3 /\ b + 3 \in 0 .. Len(stack)
    BY <1>2, <2>1
  <2>3. /\ stack' = SubSeq(stack, 1, b + 3) /\ eip'.code = eip.code /\ eip'.at = 9
        /\ gpr' = gpr /\ contexts' = contexts
    <3>1. Drop
      BY <2>1, EntryOps
    <3>2. Len(stack) - Instruction[2] = b + 3
      BY <1>2, <2>1, <2>2
    <3> QED BY <1>5, <1>13, <3>1, <3>2, Effects
  <2>4. /\ IsSeq(stack') /\ Len(stack') = b + 3
        /\ Kept(b + 3)
    BY <1>2, <2>2, <2>3, Prefixed
  <2>5. Interrupted(c, stack')
    <3> HIDE DEF Kept
    <3> QED BY <1>b, <1>2, <2>4
  <2> QED BY <1>a, <1>2, <1>4, <1>13, <2>3, <2>4, <2>5, Heights
<1>14. CASE eip.at = 9
  BY <1>1, <1>14, EntryAt
<1> QED BY <1>1, <1>6, <1>7, <1>8, <1>9, <1>10, <1>11, <1>12, <1>13, <1>14

-----------------------------------------------------------------------------
(* The guest's programs.  This one only goes on, or jumps to a place of    *)
(* its own, and leaves the stack alone.                                    *)
Flows(p) ==
  /\ IsSeq(p)
  /\ \A i \in 1 .. Len(p) :
       /\ p[i][1] \notin {"push", "pop", "drop", "call", "ret", "leave"}
       /\ p[i][1] = "j" => p[i][3] \in Int /\ i + 1 + p[i][3] \in 1 .. Len(p) + 1
       /\ p[i][1] = "jmp" => p[i][2] \in Int /\ i + 1 + p[i][2] \in 1 .. Len(p) + 1

LEMMA FlowsOn ==
  ASSUME NEW p, NEW q, Flows(p), Flows(q)
  PROVE  Flows(p \o q)
<1>1. /\ IsSeq(p \o q) /\ Len(p \o q) = Len(p) + Len(q)
      /\ \A i \in 1 .. Len(p) : (p \o q)[i] = p[i]
      /\ \A i \in 1 .. Len(q) : (p \o q)[Len(p) + i] = q[i]
  BY Concatenated DEF Flows
<1>2. Len(p) \in Nat /\ Len(q) \in Nat
  BY DEF Flows, IsSeq
<1> DEFINE m == Len(p)
           n == Len(q)
           r == p \o q
<1> HIDE DEF m, n, r
<1>3. SUFFICES ASSUME NEW i \in 1 .. m + n
               PROVE  /\ r[i][1] \notin {"push", "pop", "drop", "call", "ret", "leave"}
                      /\ r[i][1] = "j" => r[i][3] \in Int /\ i + 1 + r[i][3] \in 1 .. m + n + 1
                      /\ r[i][1] = "jmp" => r[i][2] \in Int /\ i + 1 + r[i][2] \in 1 .. m + n + 1
  BY <1>1, <1>2 DEF Flows, m, n, r
<1>4. CASE i \in 1 .. m
  <2>1. r[i] = p[i]
    BY <1>1, <1>4 DEF m, r
  <2>2. /\ p[i][1] \notin {"push", "pop", "drop", "call", "ret", "leave"}
        /\ p[i][1] = "j" => p[i][3] \in Int /\ i + 1 + p[i][3] \in 1 .. m + 1
        /\ p[i][1] = "jmp" => p[i][2] \in Int /\ i + 1 + p[i][2] \in 1 .. m + 1
    BY <1>4 DEF Flows, m
  <2>3. m + 1 <= m + n + 1 /\ m \in Nat /\ n \in Nat
    BY <1>2 DEF m, n
  <2> QED BY <2>1, <2>2, <2>3
<1>5. CASE i \notin 1 .. m
  <2> DEFINE k == i - m
  <2>1. k \in 1 .. n /\ i = m + k /\ m \in Nat /\ n \in Nat
    BY <1>2, <1>5 DEF m, n
  <2> HIDE DEF k
  <2>2. r[i] = q[k]
    BY <1>1, <2>1 DEF m, n, r
  <2>3. /\ q[k][1] \notin {"push", "pop", "drop", "call", "ret", "leave"}
        /\ q[k][1] = "j" => q[k][3] \in Int /\ k + 1 + q[k][3] \in 1 .. n + 1
        /\ q[k][1] = "jmp" => q[k][2] \in Int /\ k + 1 + q[k][2] \in 1 .. n + 1
    BY <2>1 DEF Flows, n
  <2> QED BY <2>1, <2>2, <2>3
<1> QED BY <1>4, <1>5

LEMMA WideFlows ==
  ASSUME NEW x \in {"add", "sub"}, NEW y \in {"adc", "sbb"}
  PROVE  Flows(Wide(x, y))
<1> DEFINE p == Wide(x, y)
<1>1. Len(p) = 7 /\ IsSeq(p)
  BY DEF Wide, IsSeq
<1>2. \A i \in 1 .. 7 : p[i][1] \notin {"push", "pop", "drop", "call", "ret", "leave"}
  BY DEF Wide
<1>3. \A i \in 1 .. 7 :
        /\ p[i][1] = "j" => p[i][3] \in Int /\ i + 1 + p[i][3] \in 1 .. 8
        /\ p[i][1] = "jmp" => p[i][2] \in Int /\ i + 1 + p[i][2] \in 1 .. 8
  BY DEF Wide
<1> SUFFICES Flows(p)
  OBVIOUS
<1> HIDE DEF p
<1> QED BY <1>1, <1>2, <1>3 DEF Flows

LEMMA PrimeFlows ==
  Flows(Prime)
<1> DEFINE p == Prime
<1>1. Len(p) = 14 /\ IsSeq(p)
  BY DEF Prime, IsSeq
<1>2. \A i \in 1 .. 14 : p[i][1] \notin {"push", "pop", "drop", "call", "ret", "leave"}
  BY DEF Prime
<1>3. \A i \in 1 .. 14 :
        /\ p[i][1] = "j" => p[i][3] \in Int /\ i + 1 + p[i][3] \in 1 .. 15
        /\ p[i][1] = "jmp" => p[i][2] \in Int /\ i + 1 + p[i][2] \in 1 .. 15
  BY DEF Prime
<1> SUFFICES Flows(p)
  OBVIOUS
<1> HIDE DEF p
<1> QED BY <1>1, <1>2, <1>3 DEF Flows

LEMMA ExpressionFlows ==
  ASSUME NEW op \in {"fadds", "fsubs", "fmuls", "fdivs"}
  PROVE  Flows(Expression(op))
<1> DEFINE p == Expression(op)
<1>1. Len(p) = 5 /\ IsSeq(p)
  BY DEF Expression, IsSeq
<1>2. \A i \in 1 .. 5 : p[i][1] \notin {"push", "pop", "drop", "call", "ret", "leave"}
  BY DEF Expression
<1>3. \A i \in 1 .. 5 :
        /\ p[i][1] = "j" => p[i][3] \in Int /\ i + 1 + p[i][3] \in 1 .. 6
        /\ p[i][1] = "jmp" => p[i][2] \in Int /\ i + 1 + p[i][2] \in 1 .. 6
  BY DEF Expression
<1> HIDE DEF p
<1> QED BY <1>1, <1>2, <1>3 DEF Flows, p

LEMMA CompareFlows ==
  ASSUME NEW cmp \in {"cmpl", "cmpb", "movz", "movs"}
  PROVE  Flows(Compare(cmp))
<1>1. CASE cmp \in {"movz", "movs"}
  <2> DEFINE p == << <<cmp, "a", "eax">>, <<cmp, "b", "edx">>, <<"cmpl", "edx", "eax">> >>
  <2>1. Compare(cmp) = p
    BY <1>1 DEF Compare
  <2>2. IsSeq(p) /\ Len(p) = 3
    BY DEF IsSeq
  <2>3. \A i \in 1 .. 3 : p[i][1] \in {cmp, "cmpl"}
    OBVIOUS
  <2> HIDE DEF p
  <2>4. Flows(p)
    BY <2>2, <2>3 DEF Flows
  <2> QED BY <2>1, <2>4
<1>2. CASE cmp \in {"cmpl", "cmpb"}
  <2> DEFINE p == << <<"mov", "a", "eax">>, <<cmp, "b", "eax">> >>
  <2>1. Compare(cmp) = p
    BY <1>2 DEF Compare
  <2>2. IsSeq(p) /\ Len(p) = 2
    BY DEF IsSeq
  <2>3. \A i \in 1 .. 2 : p[i][1] \in {"mov", cmp}
    OBVIOUS
  <2> HIDE DEF p
  <2>4. Flows(p)
    BY <2>2, <2>3 DEF Flows
  <2> QED BY <2>1, <2>4
<1> QED BY <1>1, <1>2

LEMMA OneBitFlows ==
  ASSUME NEW op \in {"get", "set", "clear", "flip"}
  PROVE  Flows(OneBit(op))
<1> DEFINE p == << <<"mov", "$1", "eax">>, <<"mov", "b", "ecx">>,
                   <<"shl", "ecx", "eax">>, <<"mov", "a", "edx">> >>
           q == CASE op = "get"   -> << <<"test", "eax", "edx">>, <<"set", "ne", "r">> >>
                  [] op = "set"   -> << <<"or", "eax", "edx">>, <<"mov", "edx", "r">> >>
                  [] op = "flip"  -> << <<"xor", "eax", "edx">>, <<"mov", "edx", "r">> >>
                  [] op = "clear" -> << <<"not", "eax">>, <<"and", "eax", "edx">>,
                                        <<"mov", "edx", "r">> >>
<1>1. OneBit(op) = p \o q
  BY DEF OneBit
<1>2. Flows(p)
  <2>1. IsSeq(p) /\ Len(p) = 4
    BY DEF IsSeq
  <2>2. \A i \in 1 .. 4 : p[i][1] \in {"mov", "shl"}
    OBVIOUS
  <2> HIDE DEF p
  <2> QED BY <2>1, <2>2 DEF Flows
<1>3. Flows(q)
  <2> DEFINE u == << <<"test", "eax", "edx">>, <<"set", "ne", "r">> >>
             v == << <<"or", "eax", "edx">>, <<"mov", "edx", "r">> >>
             w == << <<"xor", "eax", "edx">>, <<"mov", "edx", "r">> >>
             x == << <<"not", "eax">>, <<"and", "eax", "edx">>, <<"mov", "edx", "r">> >>
  <2>1. Flows(u)
    <3>1. IsSeq(u) /\ Len(u) = 2 /\ \A i \in 1 .. 2 : u[i][1] \in {"test", "set"}
      BY DEF IsSeq
    <3> HIDE DEF u
    <3> QED BY <3>1 DEF Flows
  <2>2. Flows(v)
    <3>1. IsSeq(v) /\ Len(v) = 2 /\ \A i \in 1 .. 2 : v[i][1] \in {"or", "mov"}
      BY DEF IsSeq
    <3> HIDE DEF v
    <3> QED BY <3>1 DEF Flows
  <2>3. Flows(w)
    <3>1. IsSeq(w) /\ Len(w) = 2 /\ \A i \in 1 .. 2 : w[i][1] \in {"xor", "mov"}
      BY DEF IsSeq
    <3> HIDE DEF w
    <3> QED BY <3>1 DEF Flows
  <2>4. Flows(x)
    <3>1. IsSeq(x) /\ Len(x) = 3 /\ \A i \in 1 .. 3 : x[i][1] \in {"not", "and", "mov"}
      BY DEF IsSeq
    <3> HIDE DEF x
    <3> QED BY <3>1 DEF Flows
  <2>5. q = CASE op = "get" -> u [] op = "set" -> v [] op = "flip" -> w
              [] op = "clear" -> x
    OBVIOUS
  <2> HIDE DEF q, u, v, w, x
  <2> QED BY <2>1, <2>2, <2>3, <2>4, <2>5
<1> HIDE DEF p, q
<1> QED BY <1>1, <1>2, <1>3, FlowsOn

(* Every program but two only goes on, or jumps inside.                    *)
LEMMA ProgramFlows ==
  ASSUME NEW j \in Jobs, j.program \notin {"factorial", "product"}
  PROVE  Flows(Program(j))
<1>1. CASE j.program = "sum"
  BY <1>1, WideFlows DEF Program
<1>2. CASE j.program = "difference"
  BY <1>2, WideFlows DEF Program
<1>3. CASE j.program = "negation"
  <2> DEFINE p == << <<"mov", "a", "eax">>, <<"neg", "eax">>, <<"mov", "A", "edx">>,
                     <<"adc", "$0", "edx">>, <<"neg", "edx">>, <<"mov", "eax", "r">>,
                     <<"mov", "edx", "R">> >>
  <2>1. Program(j) = p
    BY <1>3 DEF Program
  <2>2. IsSeq(p) /\ Len(p) = 7
    BY DEF IsSeq
  <2>3. \A i \in 1 .. 7 : p[i][1] \in {"mov", "neg", "adc"}
    OBVIOUS
  <2> HIDE DEF p
  <2> QED BY <2>1, <2>2, <2>3 DEF Flows
<1>4. CASE j.program = "set"
  <2> DEFINE q == << <<"set", j.cc, "r">> >>
  <2>1. Program(j) = Compare(j.cmp) \o q /\ Flows(Compare(j.cmp))
    BY <1>4, CompareFlows, JobsAssumption DEF Program
  <2>2. IsSeq(q) /\ Len(q) = 1
    BY DEF IsSeq
  <2>3. \A i \in 1 .. 1 : q[i][1] \in {"set"}
    OBVIOUS
  <2> HIDE DEF q
  <2>5. Flows(q)
    BY <2>2, <2>3 DEF Flows
  <2> QED BY <2>1, <2>5, FlowsOn
<1>5. CASE j.program = "move"
  <2> DEFINE q == << <<"mov", "$0", "ecx">>, <<"mov", "$1", "edx">>,
                     <<"cmov", j.cc, "edx", "ecx">>, <<"mov", "ecx", "r">> >>
  <2>1. Program(j) = Compare(j.cmp) \o q /\ Flows(Compare(j.cmp))
    BY <1>5, CompareFlows, JobsAssumption DEF Program
  <2>2. IsSeq(q) /\ Len(q) = 4
    BY DEF IsSeq
  <2>3. \A i \in 1 .. 4 : q[i][1] \in {"mov", "cmov"}
    OBVIOUS
  <2> HIDE DEF q
  <2>5. Flows(q)
    BY <2>2, <2>3 DEF Flows
  <2> QED BY <2>1, <2>5, FlowsOn
<1>6. CASE j.program = "branch"
  <2> DEFINE p == << <<"mov", "$1", "r">> >>
             q == << <<"j", j.cc, 1>>, <<"mov", "$0", "r">> >>
  <2>1. Program(j) = p \o Compare(j.cmp) \o q /\ Flows(Compare(j.cmp))
    BY <1>6, CompareFlows, JobsAssumption DEF Program
  <2>2. Flows(p)
    <3>1. IsSeq(p) /\ Len(p) = 1 /\ p[1][1] = "mov"
      BY DEF IsSeq
    <3> HIDE DEF p
    <3> QED BY <3>1 DEF Flows
  <2>3. Flows(q)
    <3>1. IsSeq(q) /\ Len(q) = 2
      BY DEF IsSeq
    <3>2. /\ q[1][1] = "j" /\ q[1][3] = 1 /\ q[2][1] = "mov"
      OBVIOUS
    <3> HIDE DEF q
    <3> QED BY <3>1, <3>2 DEF Flows
  <2> HIDE DEF p, q
  <2> QED BY <2>1, <2>2, <2>3, FlowsOn
<1>7. CASE j.program = "wide_compare"
  <2> DEFINE p == << <<"mov", "$1", "r">>, <<"mov", "a", "eax">>,
                     <<"cmpl", "b", "eax">>, <<"mov", "A", "edx">>,
                     <<"sbb", "B", "edx">>, <<"j", j.cc, 1>>, <<"mov", "$0", "r">> >>
  <2>1. Program(j) = p
    BY <1>7 DEF Program
  <2>2. IsSeq(p) /\ Len(p) = 7
    BY DEF IsSeq
  <2>3. \A i \in 1 .. 7 : p[i][1] \in {"mov", "cmpl", "sbb", "j"}
    OBVIOUS
  <2>4. \A i \in 1 .. 7 : p[i][1] = "j" => p[i][3] \in Int /\ i + 1 + p[i][3] \in 1 .. 8
    OBVIOUS
  <2> HIDE DEF p
  <2> QED BY <2>1, <2>2, <2>3, <2>4 DEF Flows
<1>8. CASE j.program = "float"
  BY <1>8, ExpressionFlows, JobsAssumption DEF Program
<1>9. CASE j.program = "float_compare"
  <2> DEFINE p == << <<"flds", "a">>, <<"flds", "b">>, <<"fxch", 1>>,
                     <<"fucomip", 1>>, <<"set", j.cc, "r">>, <<"fstps", "R">> >>
  <2>1. Program(j) = p
    BY <1>9 DEF Program
  <2>2. IsSeq(p) /\ Len(p) = 6
    BY DEF IsSeq
  <2>3. \A i \in 1 .. 6 : p[i][1] \in {"flds", "fxch", "fucomip", "set", "fstps"}
    OBVIOUS
  <2> HIDE DEF p
  <2> QED BY <2>1, <2>2, <2>3 DEF Flows
<1>10. CASE j.program = "prime"
  BY <1>10, PrimeFlows DEF Program
<1>11. CASE j.program = "bit"
  BY <1>11, OneBitFlows, JobsAssumption DEF Program
<1>12. CASE j.program = "shift"
  <2> DEFINE p == << <<"mov", "a", "eax">>, <<"mov", "b", "ecx">>,
                     <<j.op, "ecx", "eax">>, <<"set", "c", "c">>, <<"mov", "eax", "r">> >>
  <2>1. Program(j) = p
    BY <1>12 DEF Program
  <2>2. IsSeq(p) /\ Len(p) = 5
    BY DEF IsSeq
  <2>3. \A i \in 1 .. 5 : p[i][1] \in {"mov", j.op, "set"}
    OBVIOUS
  <2> HIDE DEF p
  <2>4. j.op \in {"shl", "shr", "sar"}
    BY <1>12, JobsAssumption
  <2> QED BY <2>1, <2>2, <2>3, <2>4 DEF Flows
<1>13. CASE j.program = "quotient"
  <2> DEFINE p == << <<"mov", "a", "eax">>, <<"cltd">>, <<"idiv", "b">>,
                     <<"mov", "eax", "r">>, <<"mov", "edx", "R">> >>
  <2>1. Program(j) = p
    BY <1>13 DEF Program
  <2>2. IsSeq(p) /\ Len(p) = 5
    BY DEF IsSeq
  <2>3. \A i \in 1 .. 5 : p[i][1] \in {"mov", "cltd", "idiv"}
    OBVIOUS
  <2> HIDE DEF p
  <2> QED BY <2>1, <2>2, <2>3 DEF Flows
<1>14. CASE j.program = "wide_quotient"
  <2> DEFINE p == << <<"mov", "a", "eax">>, <<"mov", "A", "edx">>, <<"div", "b">>,
                     <<"mov", "eax", "r">>, <<"mov", "edx", "R">> >>
  <2>1. Program(j) = p
    BY <1>14 DEF Program
  <2>2. IsSeq(p) /\ Len(p) = 5
    BY DEF IsSeq
  <2>3. \A i \in 1 .. 5 : p[i][1] \in {"mov", "div"}
    OBVIOUS
  <2> HIDE DEF p
  <2> QED BY <2>1, <2>2, <2>3 DEF Flows
<1>15. CASE j.program = "system_call"
  <2> DEFINE p == << <<"mov", "a", "eax">>, <<"mov", "b", "ebx">>, <<"int">>,
                     <<"mov", "eax", "r">> >>
  <2>1. Program(j) = p
    BY <1>15 DEF Program
  <2>2. IsSeq(p) /\ Len(p) = 4
    BY DEF IsSeq
  <2>3. \A i \in 1 .. 4 : p[i][1] \in {"mov", "int"}
    OBVIOUS
  <2> HIDE DEF p
  <2> QED BY <2>1, <2>2, <2>3 DEF Flows
<1> QED BY <1>1, <1>2, <1>3, <1>4, <1>5, <1>6, <1>7, <1>8, <1>9, <1>10, <1>11, <1>12,
           <1>13, <1>14, <1>15, JobsAssumption

-----------------------------------------------------------------------------
(* Which instructions a step of the guest can be.                          *)
IntegerOps ==
  {"mov", "movz", "movs", "add", "adc", "sub", "sbb", "cmpl", "cmpb",
   "neg", "imul", "mul", "inc", "dec", "and", "or", "xor", "test", "not",
   "shl", "shr", "sar", "cltd", "div", "idiv", "set", "cmov", "j"}
FloatOps == {"flds", "fadds", "fsubs", "fmuls", "fdivs", "fstps", "fxch",
             "fucomip"}

LEMMA OpsOf ==
  /\ IntegerInst => Op \in IntegerOps
  /\ FloatInst => Op \in FloatOps
  /\ StackInst => Op \in {"jmp", "push", "pop", "drop", "call", "ret", "leave"}
<1>1. ASSUME IntegerInst PROVE Op \in IntegerOps
  <2>1. Mov => Op \in {"mov"}
    BY DEF Mov
  <2>2. MovExtend => Op \in {"movz", "movs"}
    BY DEF MovExtend
  <2>3. AddSub => Op \in {"add", "adc", "sub", "sbb"}
    BY DEF AddSub
  <2>4. Cmp => Op \in {"cmpl", "cmpb"}
    BY DEF Cmp
  <2>5. Neg => Op \in {"neg"}
    BY DEF Neg
  <2>6. Imul => Op \in {"imul"}
    BY DEF Imul
  <2>7. Mul => Op \in {"mul"}
    BY DEF Mul
  <2>8. IncDec => Op \in {"inc", "dec"}
    BY DEF IncDec
  <2>9. Logic => Op \in {"and", "or", "xor"}
    BY DEF Logic
  <2>10. Test => Op \in {"test"}
    BY DEF Test
  <2>11. Not => Op \in {"not"}
    BY DEF Not
  <2>12. Shift => Op \in {"shl", "shr", "sar"}
    BY DEF Shift
  <2>13. Cltd => Op \in {"cltd"}
    BY DEF Cltd
  <2>14. Div => Op \in {"div", "idiv"}
    BY DEF Div
  <2>15. Setcc => Op \in {"set"}
    BY DEF Setcc
  <2>16. Cmovcc => Op \in {"cmov"}
    BY DEF Cmovcc
  <2>17. Jcc => Op \in {"j"}
    BY DEF Jcc
  <2> HIDE DEF Op
  <2> QED BY <1>1, <2>1, <2>2, <2>3, <2>4, <2>5, <2>6, <2>7, <2>8, <2>9,
             <2>10, <2>11, <2>12, <2>13, <2>14, <2>15, <2>16, <2>17
           DEF IntegerInst, IntegerOps
<1>2. ASSUME FloatInst PROVE Op \in FloatOps
  <2>1. Flds => Op \in {"flds"}
    BY DEF Flds
  <2>2. FloatOp => Op \in {"fadds", "fsubs", "fmuls", "fdivs"}
    BY DEF FloatOp
  <2>3. Fstps => Op \in {"fstps"}
    BY DEF Fstps
  <2>4. Fxch => Op \in {"fxch"}
    BY DEF Fxch
  <2>5. Fucomip => Op \in {"fucomip"}
    BY DEF Fucomip
  <2> HIDE DEF Op
  <2> QED BY <1>2, <2>1, <2>2, <2>3, <2>4, <2>5 DEF FloatInst, FloatOps
<1>3. ASSUME StackInst
      PROVE  Op \in {"jmp", "push", "pop", "drop", "call", "ret", "leave"}
  <2>1. Jmp => Op \in {"jmp"}
    BY DEF Jmp
  <2>2. Push => Op \in {"push"}
    BY DEF Push
  <2>3. Pop => Op \in {"pop"}
    BY DEF Pop
  <2>4. Drop => Op \in {"drop"}
    BY DEF Drop
  <2>5. Call => Op \in {"call"}
    BY DEF Call
  <2>6. Ret => Op \in {"ret"}
    BY DEF Ret
  <2>7. Leave => Op \in {"leave"}
    BY DEF Leave
  <2> HIDE DEF Op
  <2> QED BY <1>3, <2>1, <2>2, <2>3, <2>4, <2>5, <2>6, <2>7 DEF StackInst
<1> QED BY <1>1, <1>2, <1>3

(* operand_write keeps the register file a file, and a register that is    *)
(* not the operand.                                                        *)
LEMMA PutKeeps ==
  ASSUME IsFile(gpr), NEW x, NEW val, Put(x, val)
  PROVE  IsFile(gpr') /\ \A y \in Regs : y # x => gpr'[y] = gpr[y]
<1>1. CASE x \in Regs
  BY <1>1 DEF Put, IsFile
<1>2. CASE x \notin Regs
  BY <1>2 DEF Put, IsFile
<1> QED BY <1>1, <1>2

(* Integer and floating-point instructions leave the stack alone and go on *)
(* or jump as they say.                                                    *)
Plain ==
  /\ IsFile(gpr') /\ stack' = stack /\ contexts' = contexts
  /\ \/ Advance
     \/ Op = "j" /\ eip' = From(Instruction[3])
     \/ Op = "jmp" /\ eip' = From(Instruction[2])

LEMMA PlainSteps ==
  ASSUME IsFile(gpr), IntegerInst \/ FloatInst \/ Jmp
  PROVE  Plain
<1> HIDE DEF Op, Instruction, Advance
<1>1. CASE Mov
  <2>1. \E x, val : Put(x, val)
    BY <1>1 DEF Mov
  <2>2. Advance /\ stack' = stack /\ contexts' = contexts
    BY <1>1 DEF Mov
  <2> QED BY <2>1, <2>2, PutKeeps DEF Plain
<1>2. CASE MovExtend
  <2>1. \E x, val : Put(x, val)
    BY <1>2 DEF MovExtend
  <2>2. Advance /\ stack' = stack /\ contexts' = contexts
    BY <1>2 DEF MovExtend
  <2> QED BY <2>1, <2>2, PutKeeps DEF Plain
<1>3. CASE AddSub
  <2>1. \E x, val : Put(x, val)
    BY <1>3 DEF AddSub
  <2>2. Advance /\ stack' = stack /\ contexts' = contexts
    BY <1>3 DEF AddSub
  <2> QED BY <2>1, <2>2, PutKeeps DEF Plain
<1>4. CASE Cmp
  BY <1>4 DEF Cmp, Plain
<1>5. CASE Neg
  <2>1. \E x, val : Put(x, val)
    BY <1>5 DEF Neg
  <2>2. Advance /\ stack' = stack /\ contexts' = contexts
    BY <1>5 DEF Neg
  <2> QED BY <2>1, <2>2, PutKeeps DEF Plain
<1>6. CASE Imul
  <2>1. \E x, val : Put(x, val)
    BY <1>6 DEF Imul
  <2>2. Advance /\ stack' = stack /\ contexts' = contexts
    BY <1>6 DEF Imul
  <2> QED BY <2>1, <2>2, PutKeeps DEF Plain
<1>7. CASE Mul
  <2>1. IsFile(gpr')
    BY <1>7 DEF Mul, IsFile
  <2>2. Advance /\ stack' = stack /\ contexts' = contexts
    BY <1>7 DEF Mul
  <2> QED BY <2>1, <2>2 DEF Plain
<1>8. CASE IncDec
  <2>1. \E x, val : Put(x, val)
    BY <1>8 DEF IncDec
  <2>2. Advance /\ stack' = stack /\ contexts' = contexts
    BY <1>8 DEF IncDec
  <2> QED BY <2>1, <2>2, PutKeeps DEF Plain
<1>9. CASE Logic
  <2>1. \E x, val : Put(x, val)
    BY <1>9 DEF Logic
  <2>2. Advance /\ stack' = stack /\ contexts' = contexts
    BY <1>9 DEF Logic
  <2> QED BY <2>1, <2>2, PutKeeps DEF Plain
<1>10. CASE Test
  BY <1>10 DEF Test, Plain
<1>11. CASE Not
  <2>1. \E x, val : Put(x, val)
    BY <1>11 DEF Not
  <2>2. Advance /\ stack' = stack /\ contexts' = contexts
    BY <1>11 DEF Not
  <2> QED BY <2>1, <2>2, PutKeeps DEF Plain
<1>12. CASE Shift
  <2>1. \E x, val : Put(x, val)
    BY <1>12 DEF Shift
  <2>2. Advance /\ stack' = stack /\ contexts' = contexts
    BY <1>12 DEF Shift
  <2> QED BY <2>1, <2>2, PutKeeps DEF Plain
<1>13. CASE Cltd
  <2>1. \E x, val : Put(x, val)
    BY <1>13 DEF Cltd
  <2>2. Advance /\ stack' = stack /\ contexts' = contexts
    BY <1>13 DEF Cltd
  <2> QED BY <2>1, <2>2, PutKeeps DEF Plain
<1>14. CASE Div
  <2>1. IsFile(gpr')
    BY <1>14 DEF Div, IsFile
  <2>2. Advance /\ stack' = stack /\ contexts' = contexts
    BY <1>14 DEF Div
  <2> QED BY <2>1, <2>2 DEF Plain
<1>15. CASE Setcc
  <2>1. \E x, val : Put(x, val)
    BY <1>15 DEF Setcc
  <2>2. Advance /\ stack' = stack /\ contexts' = contexts
    BY <1>15 DEF Setcc
  <2> QED BY <2>1, <2>2, PutKeeps DEF Plain
<1>16. CASE Cmovcc
  <2>1. (\E x, val : Put(x, val)) \/ gpr' = gpr
    BY <1>16 DEF Cmovcc
  <2>2. Advance /\ stack' = stack /\ contexts' = contexts
    BY <1>16 DEF Cmovcc
  <2> QED BY <2>1, <2>2, PutKeeps DEF Plain
<1>17. CASE Jcc
  <2>1. /\ Op = "j" /\ stack' = stack /\ contexts' = contexts /\ gpr' = gpr
        /\ eip' = From(IF Condition(Instruction[2], flags) THEN Instruction[3] ELSE 0)
    BY <1>17 DEF Jcc
  <2>2. eip' = From(Instruction[3]) \/ eip' = From(0)
    <3>1. CASE Condition(Instruction[2], flags)
      BY <2>1, <3>1
    <3>2. CASE ~Condition(Instruction[2], flags)
      BY <2>1, <3>2
    <3> QED BY <3>1, <3>2
  <2> QED BY <2>1, <2>2 DEF Plain, Advance
<1>18. CASE Flds
  BY <1>18 DEF Flds, Plain
<1>19. CASE FloatOp
  BY <1>19 DEF FloatOp, Plain
<1>20. CASE Fstps
  <2>1. \E x, val : Put(x, val)
    BY <1>20 DEF Fstps
  <2>2. Advance /\ stack' = stack /\ contexts' = contexts
    BY <1>20 DEF Fstps
  <2> QED BY <2>1, <2>2, PutKeeps DEF Plain
<1>21. CASE Fxch
  BY <1>21 DEF Fxch, Plain
<1>22. CASE Fucomip
  BY <1>22 DEF Fucomip, Plain
<1>23. CASE Jmp
  BY <1>23 DEF Jmp, Plain
<1> QED BY <1>1, <1>2, <1>3, <1>4, <1>5, <1>6, <1>7, <1>8, <1>9, <1>10,
             <1>11, <1>12, <1>13, <1>14, <1>15, <1>16, <1>17, <1>18, <1>19,
             <1>20, <1>21, <1>22, <1>23
           DEF IntegerInst, FloatInst

(* A step of a program that flows.                                         *)
LEMMA Fetch ==
  ASSUME IsSeq(Program(job)), eip.code = "guest",
         eip.at \in 1 .. Len(Program(job)) + 1
  PROVE  /\ eip.at \in 1 .. Len(Program(job)) => Instruction = Program(job)[eip.at]
         /\ eip.at = Len(Program(job)) + 1 => Op = "nemu_trap"
<1> DEFINE p == Program(job)
           e == <<"nemu_trap">>
<1>1. Instruction = Append(p, e)[eip.at]
  BY DEF Instruction, CodeOf
<1> HIDE DEF p, e
<1>2. IsSeq(p)
  BY DEF p
<1>3. /\ \A i \in 1 .. Len(p) : Append(p, e)[i] = p[i]
      /\ Append(p, e)[Len(p) + 1] = e
  BY <1>2, Appended
<1>4. e[1] = "nemu_trap"
  BY DEF e
<1> QED BY <1>1, <1>3, <1>4 DEF Op, p

LEMMA FlowSteps ==
  ASSUME Flows(Program(job)), eip.code = "guest",
         eip.at \in 1 .. Len(Program(job)) + 1, IsFile(gpr),
         IntegerInst \/ StackInst \/ FloatInst
  PROVE  /\ IsFile(gpr') /\ stack' = stack /\ contexts' = contexts
         /\ eip'.code = "guest" /\ eip'.at \in 1 .. Len(Program(job)) + 1
<1> DEFINE p == Program(job)
<1>1. Op # "nemu_trap"
  BY OpsOf DEF IntegerOps, FloatOps
<1>2. IsSeq(p) /\ Len(p) \in Nat
  BY DEF Flows, IsSeq
<1>3. eip.at \in 1 .. Len(p) /\ Instruction = p[eip.at]
  BY <1>1, <1>2, Fetch
<1>4. /\ Op \notin {"push", "pop", "drop", "call", "ret", "leave"}
      /\ Op = "j" => /\ Instruction[3] \in Int
                     /\ eip.at + 1 + Instruction[3] \in 1 .. Len(p) + 1
      /\ Op = "jmp" => /\ Instruction[2] \in Int
                       /\ eip.at + 1 + Instruction[2] \in 1 .. Len(p) + 1
  BY <1>3 DEF Op, Flows
<1>5. StackInst => Jmp
  <2> HIDE DEF Op
  <2> QED BY <1>4 DEF StackInst, Push, Pop, Drop, Call, Ret, Leave
<1>6. Plain
  BY <1>5, PlainSteps
<1> HIDE DEF p
<1>7. CASE Advance
  <2>1. eip'.code = "guest" /\ eip'.at = eip.at + 1
    BY <1>7 DEF Advance, From
  <2> QED BY <1>2, <1>3, <1>6, <2>1 DEF Plain, p
<1>8. CASE Op = "j" /\ eip' = From(Instruction[3])
  <2>1. eip'.code = "guest" /\ eip'.at = eip.at + 1 + Instruction[3]
    BY <1>8 DEF From
  <2> QED BY <1>4, <1>6, <1>8, <2>1 DEF Plain, p
<1>9. CASE Op = "jmp" /\ eip' = From(Instruction[2])
  <2>1. eip'.code = "guest" /\ eip'.at = eip.at + 1 + Instruction[2]
    BY <1>9 DEF From
  <2> QED BY <1>4, <1>6, <1>9, <2>1 DEF Plain, p
<1> QED BY <1>6, <1>7, <1>8, <1>9 DEF Plain

(* The product of two-long numbers keeps ebx on the stack meanwhile.       *)
LEMMA ProductOps ==
  ASSUME NEW j, j.program = "product"
  PROVE  /\ IsSeq(Program(j)) /\ Len(Program(j)) = 12
         /\ Program(j)[1] = <<"push", "ebx">> /\ Program(j)[12] = <<"pop", "ebx">>
         /\ \A i \in 2 .. 11 : Program(j)[i][1] \in {"mov", "imul", "add", "mul"}
<1> DEFINE p == << <<"push", "ebx">>, <<"mov", "A", "ecx">>, <<"imul", "b", "ecx">>,
            <<"mov", "B", "ebx">>, <<"imul", "a", "ebx">>, <<"add", "ebx", "ecx">>,
            <<"mov", "a", "eax">>, <<"mul", "b">>, <<"add", "ecx", "edx">>,
            <<"mov", "eax", "r">>, <<"mov", "edx", "R">>, <<"pop", "ebx">> >>
<1>1. Program(j) = p
  BY DEF Program
<1>2. IsSeq(p) /\ Len(p) = 12
  BY DEF IsSeq
<1>3. p[1] = <<"push", "ebx">> /\ p[12] = <<"pop", "ebx">>
  OBVIOUS
<1>4. \A i \in 2 .. 11 : p[i][1] \in {"mov", "imul", "add", "mul"}
  OBVIOUS
<1> HIDE DEF p
<1> QED BY <1>1, <1>2, <1>3, <1>4

LEMMA ProductSteps ==
  ASSUME job.program = "product", eip.code = "guest", eip.at \in 1 .. 13,
         IsFile(gpr), IsSeq(stack), Len(stack) = IF eip.at \in 2 .. 12 THEN 1 ELSE 0,
         IntegerInst \/ StackInst \/ FloatInst
  PROVE  /\ IsFile(gpr') /\ IsSeq(stack') /\ contexts' = contexts
         /\ eip'.code = "guest" /\ eip'.at \in 1 .. 13
         /\ Len(stack') = IF eip'.at \in 2 .. 12 THEN 1 ELSE 0
<1>1. Op # "nemu_trap"
  BY OpsOf DEF IntegerOps, FloatOps
<1>2. eip.at \in 1 .. 12 /\ Instruction = Program(job)[eip.at]
  <2>1. IsSeq(Program(job)) /\ Len(Program(job)) = 12
    BY ProductOps
  <2>2. eip.at \in 1 .. Len(Program(job)) + 1
    BY <2>1
  <2>3. /\ eip.at \in 1 .. Len(Program(job)) => Instruction = Program(job)[eip.at]
        /\ eip.at = Len(Program(job)) + 1 => Op = "nemu_trap"
    BY <2>1, <2>2, Fetch
  <2> QED BY <1>1, <2>1, <2>3
<1>3. /\ eip.at = 1 => Op = "push"
      /\ eip.at = 12 => Op = "pop" /\ Instruction[2] = "ebx"
      /\ eip.at \in 2 .. 11 => Op \in {"mov", "imul", "add", "mul"}
  BY <1>2, ProductOps DEF Op
<1>4. Advance => eip'.code = "guest" /\ eip'.at = eip.at + 1
  BY DEF Advance, From
<1>5. /\ Op = "push" => Push
      /\ Op = "pop" => Pop
      /\ Op \in {"mov", "imul", "add", "mul"} => IntegerInst
  <2>1. Op \in {"push", "pop"} => StackInst
    <3> HIDE DEF Op
    <3> QED BY OpsOf DEF IntegerOps, FloatOps
  <2>2. Op \in {"mov", "imul", "add", "mul"} => IntegerInst
    <3> HIDE DEF Op
    <3> QED BY OpsOf DEF FloatOps
  <2> HIDE DEF Op
  <2> QED BY <2>1, <2>2 DEF StackInst, Jmp, Push, Pop, Drop, Call, Ret, Leave
<1>6. CASE eip.at = 1
  <2>1. Push
    BY <1>3, <1>5, <1>6
  <2>2. /\ stack' = Append(stack, ValueOf(Instruction[2]))
        /\ Advance /\ gpr' = gpr /\ contexts' = contexts
    BY <2>1 DEF Push
  <2>3. Len(stack) = 0
    BY <1>6
  <2>4. IsSeq(stack') /\ Len(stack') = Len(stack) + 1
    BY <2>2, Appended
  <2> QED BY <1>4, <1>6, <2>2, <2>3, <2>4
<1>7. CASE eip.at = 12
  <2>1. Pop
    BY <1>3, <1>5, <1>7
  <2>2. /\ stack' = Front(stack) /\ \E val : Put(Instruction[2], val)
        /\ Advance /\ contexts' = contexts
    BY <2>1 DEF Pop
  <2>3. IsFile(gpr')
    BY <2>2, PutKeeps
  <2>4. Len(stack) = 1
    BY <1>7
  <2>5. IsSeq(stack') /\ Len(stack') = 0
    <3>1. IsSeq(Front(stack)) /\ Len(Front(stack)) = Len(stack) - 1
      <4>1. 1 > 0
        OBVIOUS
      <4>2. Len(stack) > 0
        BY <2>4, <4>1, Zenon
      <4> QED BY <4>2, Shortened, Zenon
    <3> QED BY <2>2, <2>4, <3>1
  <2> QED BY <1>4, <1>7, <2>2, <2>3, <2>5
<1>8. CASE eip.at \in 2 .. 11
  <2>1. Plain /\ Op # "j" /\ Op # "jmp"
    BY <1>3, <1>5, <1>8, PlainSteps
  <2>2. Advance /\ stack' = stack /\ contexts' = contexts /\ IsFile(gpr')
    BY <2>1 DEF Plain
  <2>3. Len(stack) = 1
    BY <1>8
  <2> QED BY <1>4, <1>8, <2>2, <2>3
<1> QED BY <1>2, <1>6, <1>7, <1>8

-----------------------------------------------------------------------------
(* The recursion of fact: each call that waits for an inner one has four   *)
(* words on the stack: its argument, where it returns to, its caller's ebp *)
(* and ebx.                                                                *)
Returns(s) ==
  \A k \in Nat :
    /\ 4 * k + 2 <= Len(s) =>
         s[4 * k + 2] = [code |-> "guest", at |-> IF k = 0 THEN 3 ELSE 17]
    /\ k > 0 /\ 4 * k + 3 <= Len(s) => s[4 * k + 3] = 4 * k - 1

(* Inside fact, with d calls waiting.                                      *)
Inside(d, g, e, s) ==
  \/ e.at \in {6, 21} /\ Len(s) = 4 * d + 2 /\ (d > 0 => g["ebp"] = 4 * d - 1)
  \/ e.at = 7 /\ Len(s) = 4 * d + 3 /\ (d > 0 => g["ebp"] = 4 * d - 1)
  \/ e.at = 8 /\ Len(s) = 4 * d + 3 /\ g["ebp"] = 4 * d + 3
  \/ /\ e.at \in (9 .. 15) \cup (18 .. 20)
     /\ Len(s) = 4 * d + 4 /\ g["ebp"] = 4 * d + 3
  \/ e.at \in {16, 17} /\ Len(s) = 4 * d + 5 /\ g["ebp"] = 4 * d + 3

Recursing(g, e, s) ==
  \/ e.at \in {1, 4, 5, 22} /\ Len(s) = 0
  \/ e.at \in {2, 3} /\ Len(s) = 1
  \/ Returns(s) /\ \E d \in Nat : Inside(d, g, e, s)

LEMMA FactorialOps ==
  ASSUME NEW j, j.program = "factorial"
  PROVE  /\ IsSeq(Program(j)) /\ Len(Program(j)) = 21
         /\ Program(j)[1] = <<"push", "a">> /\ Program(j)[2] = <<"call", 3>>
         /\ Program(j)[3] = <<"drop", 1>> /\ Program(j)[5] = <<"jmp", 16>>
         /\ Program(j)[4] = <<"mov", "eax", "r">>
         /\ Program(j)[6] = <<"push", "ebp">> /\ Program(j)[8] = <<"push", "ebx">>
         /\ Program(j)[7] = <<"mov", "esp", "ebp">>
         /\ Program(j)[9] = <<"mov", "arg", "ebx">>
         /\ Program(j)[10] = <<"mov", "$1", "eax">>
         /\ Program(j)[11] = <<"cmpl", "$1", "ebx">>
         /\ Program(j)[12] = <<"j", "le", 6>>
         /\ Program(j)[13] = <<"mov", "ebx", "eax">>
         /\ Program(j)[14] = <<"dec", "eax">> /\ Program(j)[15] = <<"push", "eax">>
         /\ Program(j)[16] = <<"call", -11>> /\ Program(j)[17] = <<"drop", 1>>
         /\ Program(j)[18] = <<"imul", "ebx", "eax">>
         /\ Program(j)[19] = <<"mov", "local", "ebx">>
         /\ Program(j)[20] = <<"leave">> /\ Program(j)[21] = <<"ret">>
<1>1. Program(j) = Factorial
  BY DEF Program
<1>2. IsSeq(Factorial) /\ Len(Factorial) = 21
  BY DEF IsSeq, Factorial
<1>3. /\ Factorial[1] = <<"push", "a">> /\ Factorial[2] = <<"call", 3>>
      /\ Factorial[3] = <<"drop", 1>> /\ Factorial[5] = <<"jmp", 16>>
      /\ Factorial[4] = <<"mov", "eax", "r">>
      /\ Factorial[6] = <<"push", "ebp">> /\ Factorial[8] = <<"push", "ebx">>
      /\ Factorial[7] = <<"mov", "esp", "ebp">>
      /\ Factorial[9] = <<"mov", "arg", "ebx">>
      /\ Factorial[10] = <<"mov", "$1", "eax">>
      /\ Factorial[11] = <<"cmpl", "$1", "ebx">>
      /\ Factorial[12] = <<"j", "le", 6>>
      /\ Factorial[13] = <<"mov", "ebx", "eax">>
      /\ Factorial[14] = <<"dec", "eax">> /\ Factorial[15] = <<"push", "eax">>
      /\ Factorial[16] = <<"call", -11>> /\ Factorial[17] = <<"drop", 1>>
      /\ Factorial[18] = <<"imul", "ebx", "eax">>
      /\ Factorial[19] = <<"mov", "local", "ebx">>
      /\ Factorial[20] = <<"leave">> /\ Factorial[21] = <<"ret">>
  BY DEF Factorial
<1> QED BY <1>1, <1>2, <1>3

(* What a step does that executes one of these instructions.               *)
LEMMA RoutineOps ==
  ASSUME IntegerInst \/ StackInst \/ FloatInst
  PROVE  /\ Op = "mov" => Mov
         /\ Op = "cmpl" => Cmp
         /\ Op = "j" => Jcc
         /\ Op = "dec" => IncDec
         /\ Op = "imul" => Imul
         /\ Op = "push" => Push
         /\ Op = "call" => Call
         /\ Op = "drop" => Drop
         /\ Op = "jmp" => Jmp
         /\ Op = "leave" => Leave
         /\ Op = "ret" => Ret
<1>1. Op \in {"push", "call", "drop", "jmp", "leave", "ret"} => StackInst
  <2> HIDE DEF Op
  <2> QED BY OpsOf DEF IntegerOps, FloatOps
<1>2. Op \in {"mov", "cmpl", "j", "dec", "imul"} => IntegerInst
  <2> HIDE DEF Op
  <2> QED BY OpsOf DEF FloatOps
<1> HIDE DEF Op
<1>3. /\ StackInst /\ Op = "push" => Push
      /\ StackInst /\ Op = "call" => Call
      /\ StackInst /\ Op = "drop" => Drop
      /\ StackInst /\ Op = "jmp" => Jmp
      /\ StackInst /\ Op = "leave" => Leave
      /\ StackInst /\ Op = "ret" => Ret
  BY DEF StackInst, Jmp, Push, Pop, Drop, Call, Ret, Leave
<1>4. /\ MovExtend => Op \in {"movz", "movs"}
      /\ AddSub => Op \in {"add", "adc", "sub", "sbb"}
      /\ Logic => Op \in {"and", "or", "xor"}
      /\ Test => Op = "test"
      /\ Not => Op = "not"
  BY DEF MovExtend, AddSub, Logic, Test, Not
<1>5. /\ Shift => Op \in {"shl", "shr", "sar"}
      /\ Cltd => Op = "cltd"
      /\ Div => Op \in {"div", "idiv"}
      /\ Setcc => Op = "set"
      /\ Cmovcc => Op = "cmov"
  BY DEF Shift, Cltd, Div, Setcc, Cmovcc
<1>6. Mul => Op = "mul"
  BY DEF Mul
<1>7. Neg => Op = "neg"
  BY DEF Neg
<1>8. /\ Mov => Op = "mov"
      /\ Cmp => Op \in {"cmpl", "cmpb"}
      /\ Imul => Op = "imul"
      /\ IncDec => Op \in {"inc", "dec"}
      /\ Jcc => Op = "j"
  BY DEF Mov, Cmp, Imul, IncDec, Jcc
<1>9. /\ IntegerInst /\ Op = "mov" => Mov
      /\ IntegerInst /\ Op = "cmpl" => Cmp
      /\ IntegerInst /\ Op = "j" => Jcc
      /\ IntegerInst /\ Op = "dec" => IncDec
      /\ IntegerInst /\ Op = "imul" => Imul
  BY <1>4, <1>5, <1>6, <1>7, <1>8 DEF IntegerInst
<1> QED BY <1>1, <1>2, <1>3, <1>9

(* ebp stays when the operand written is another one.                      *)
LEMMA EbpKept ==
  ASSUME IsFile(gpr)
  PROVE  /\ Mov /\ Instruction[3] # "ebp" => gpr'["ebp"] = gpr["ebp"]
         /\ Imul /\ Instruction[3] # "ebp" => gpr'["ebp"] = gpr["ebp"]
         /\ IncDec /\ Instruction[2] # "ebp" => gpr'["ebp"] = gpr["ebp"]
         /\ Cmp \/ Jcc => gpr'["ebp"] = gpr["ebp"]
<1>1. "ebp" \in Regs
  BY DEF Regs
<1>2. Mov => \E val : Put(Instruction[3], val)
  BY DEF Mov
<1>3. Imul => \E val : Put(Instruction[3], val)
  BY DEF Imul
<1>4. IncDec => \E val : Put(Instruction[2], val)
  BY DEF IncDec
<1>5. Cmp \/ Jcc => gpr' = gpr
  BY DEF Cmp, Jcc
<1>6. ASSUME NEW x, NEW val, Put(x, val), x # "ebp" PROVE gpr'["ebp"] = gpr["ebp"]
  BY <1>1, <1>6, PutKeeps
<1> QED BY <1>2, <1>3, <1>4, <1>5, <1>6

LEMMA ReturnsBelow ==
  ASSUME NEW s, NEW t, Returns(s), Len(s) \in Nat, Len(t) \in 0 .. Len(s),
         \A i \in 1 .. Len(t) : t[i] = s[i]
  PROVE  Returns(t)
<1> SUFFICES ASSUME NEW k \in Nat
             PROVE  /\ 4 * k + 2 <= Len(t) =>
                         t[4 * k + 2] = [code |-> "guest", at |-> IF k = 0 THEN 3 ELSE 17]
                    /\ k > 0 /\ 4 * k + 3 <= Len(t) => t[4 * k + 3] = 4 * k - 1
  BY DEF Returns
<1>1. /\ 4 * k + 2 <= Len(t) => 4 * k + 2 \in 1 .. Len(t) /\ 4 * k + 2 <= Len(s)
      /\ 4 * k + 3 <= Len(t) => 4 * k + 3 \in 1 .. Len(t) /\ 4 * k + 3 <= Len(s)
  OBVIOUS
<1>2. /\ 4 * k + 2 <= Len(s) =>
           s[4 * k + 2] = [code |-> "guest", at |-> IF k = 0 THEN 3 ELSE 17]
      /\ k > 0 /\ 4 * k + 3 <= Len(s) => s[4 * k + 3] = 4 * k - 1
  BY DEF Returns
<1> QED BY <1>1, <1>2

LEMMA ReturnsAbove ==
  ASSUME NEW s, NEW t, Returns(s), Len(s) \in Nat, Len(t) = Len(s) + 1,
         \A i \in 1 .. Len(s) : t[i] = s[i],
         \A k \in Nat :
           /\ 4 * k + 2 = Len(t) =>
                t[Len(t)] = [code |-> "guest", at |-> IF k = 0 THEN 3 ELSE 17]
           /\ k > 0 /\ 4 * k + 3 = Len(t) => t[Len(t)] = 4 * k - 1
  PROVE  Returns(t)
<1> SUFFICES ASSUME NEW k \in Nat
             PROVE  /\ 4 * k + 2 <= Len(t) =>
                         t[4 * k + 2] = [code |-> "guest", at |-> IF k = 0 THEN 3 ELSE 17]
                    /\ k > 0 /\ 4 * k + 3 <= Len(t) => t[4 * k + 3] = 4 * k - 1
  BY DEF Returns
<1>1. CASE 4 * k + 2 = Len(t)
  <2>1. t[Len(t)] = [code |-> "guest", at |-> IF k = 0 THEN 3 ELSE 17]
    BY <1>1
  <2>2. ~(4 * k + 3 <= Len(t))
    BY <1>1
  <2> QED BY <1>1, <2>1, <2>2
<1>2. CASE 4 * k + 3 = Len(t)
  <2>1. 4 * k + 2 \in 1 .. Len(s)
    BY <1>2
  <2> QED BY <1>2, <2>1 DEF Returns
<1>3. CASE 4 * k + 2 # Len(t) /\ 4 * k + 3 # Len(t)
  <2>1. /\ 4 * k + 2 <= Len(t) => 4 * k + 2 \in 1 .. Len(s)
        /\ 4 * k + 3 <= Len(t) => 4 * k + 3 \in 1 .. Len(s)
    BY <1>3
  <2> QED BY <1>3, <2>1 DEF Returns
<1> QED BY <1>1, <1>2, <1>3

LEMMA InsideAt ==
  ASSUME NEW d, NEW g, NEW e, NEW s, Inside(d, g, e, s)
  PROVE  e.at \in 6 .. 21
<1>1. CASE e.at \in {6, 21}
  BY <1>1
<1>2. CASE e.at = 7
  BY <1>2
<1>3. CASE e.at = 8
  BY <1>3
<1>4. CASE e.at \in (9 .. 15) \cup (18 .. 20)
  BY <1>4
<1>5. CASE e.at \in {16, 17}
  BY <1>5
<1> QED BY <1>1, <1>2, <1>3, <1>4, <1>5 DEF Inside

LEMMA InsideEdge ==
  ASSUME NEW d, NEW g, NEW e, NEW s, e.at \in {6, 21}, Len(s) = 4 * d + 2,
         d > 0 => g["ebp"] = 4 * d - 1
  PROVE  Inside(d, g, e, s)
BY DEF Inside

(* Outside fact: before the first call and after it.                       *)
LEMMA AtTop ==
  ASSUME NEW g, NEW e, NEW s, e.at \in 1 .. 22
  PROVE  /\ e.at \in 1 .. 5 /\ Recursing(g, e, s) =>
              Len(s) = IF e.at \in {2, 3} THEN 1 ELSE 0
         /\ e.at \in 6 .. 21 /\ Recursing(g, e, s) =>
              Returns(s) /\ \E d \in Nat : Inside(d, g, e, s)
         /\ e.at \in {2, 3} /\ Len(s) = 1 => Recursing(g, e, s)
<1>1. \A d : e.at \in 1 .. 5 => ~Inside(d, g, e, s)
  <2> TAKE d
  <2>1. e.at \in 1 .. 5 => e.at \notin 6 .. 21
    OBVIOUS
  <2> QED BY <2>1, InsideAt
<1>2. /\ e.at \in 1 .. 5 => (e.at \in {2, 3} \/ e.at \in {1, 4, 5})
      /\ e.at \in {2, 3} => e.at \notin {1, 4, 5, 22}
      /\ e.at \in {1, 4, 5} => e.at \notin {2, 3}
      /\ e.at \in 6 .. 21 => e.at \notin {2, 3} /\ e.at \notin {1, 4, 5, 22}
  OBVIOUS
<1>3. e.at \in 1 .. 5 /\ Recursing(g, e, s) =>
        Len(s) = IF e.at \in {2, 3} THEN 1 ELSE 0
  BY <1>1, <1>2, Zenon DEF Recursing
<1>4. e.at \in 6 .. 21 /\ Recursing(g, e, s) =>
        Returns(s) /\ \E d \in Nat : Inside(d, g, e, s)
  BY <1>2, Zenon DEF Recursing
<1>5. e.at \in {2, 3} /\ Len(s) = 1 => Recursing(g, e, s)
  BY Zenon DEF Recursing
<1> QED BY <1>3, <1>4, <1>5

LEMMA RecursionSteps ==
  ASSUME job.program = "factorial", eip.code = "guest", eip.at \in 1 .. 22,
         IsFile(gpr), IsSeq(stack), Recursing(gpr, eip, stack),
         IntegerInst \/ StackInst \/ FloatInst
  PROVE  /\ IsFile(gpr') /\ IsSeq(stack') /\ contexts' = contexts
         /\ eip'.code = "guest" /\ eip'.at \in 1 .. 22
         /\ Recursing(gpr', eip', stack')
<1>1. eip.at \in 1 .. 21 /\ Instruction = Program(job)[eip.at]
  <2>1. IsSeq(Program(job)) /\ Len(Program(job)) = 21
    BY FactorialOps
  <2>2. eip.at \in 1 .. Len(Program(job)) + 1
    BY <2>1
  <2>3. /\ eip.at \in 1 .. Len(Program(job)) => Instruction = Program(job)[eip.at]
        /\ eip.at = Len(Program(job)) + 1 => Op = "nemu_trap"
    BY <2>1, <2>2, Fetch
  <2>4. Op # "nemu_trap"
    BY OpsOf DEF IntegerOps, FloatOps
  <2> QED BY <2>1, <2>3, <2>4
<1>2. Len(stack) \in Nat
  BY DEF IsSeq
<1>3. Advance => eip'.code = "guest" /\ eip'.at = eip.at + 1
  BY DEF Advance, From
<1>4. Push => /\ IsSeq(stack') /\ Len(stack') = Len(stack) + 1
              /\ \A i \in 1 .. Len(stack) : stack'[i] = stack[i]
              /\ stack'[Len(stack) + 1] = ValueOf(Instruction[2])
              /\ gpr' = gpr /\ contexts' = contexts /\ Advance
  <2> SUFFICES ASSUME Push
               PROVE  /\ IsSeq(stack') /\ Len(stack') = Len(stack) + 1
                      /\ \A i \in 1 .. Len(stack) : stack'[i] = stack[i]
                      /\ stack'[Len(stack) + 1] = ValueOf(Instruction[2])
                      /\ gpr' = gpr /\ contexts' = contexts /\ Advance
    OBVIOUS
  <2>1. /\ stack' = Append(stack, ValueOf(Instruction[2]))
        /\ gpr' = gpr /\ contexts' = contexts /\ Advance
    BY DEF Push
  <2> QED BY <2>1, Appended
<1>5. Call => /\ IsSeq(stack') /\ Len(stack') = Len(stack) + 1
              /\ \A i \in 1 .. Len(stack) : stack'[i] = stack[i]
              /\ stack'[Len(stack) + 1] = [code |-> "guest", at |-> eip.at + 1]
              /\ gpr' = gpr /\ contexts' = contexts /\ eip' = From(Instruction[2])
  <2> SUFFICES ASSUME Call
               PROVE  /\ IsSeq(stack') /\ Len(stack') = Len(stack) + 1
                      /\ \A i \in 1 .. Len(stack) : stack'[i] = stack[i]
                      /\ stack'[Len(stack) + 1] = [code |-> "guest", at |-> eip.at + 1]
                      /\ gpr' = gpr /\ contexts' = contexts
                      /\ eip' = From(Instruction[2])
    OBVIOUS
  <2>1. /\ stack' = Append(stack, From(0))
        /\ gpr' = gpr /\ contexts' = contexts /\ eip' = From(Instruction[2])
    BY DEF Call
  <2>2. From(0) = [code |-> "guest", at |-> eip.at + 1]
    BY <1>1 DEF From
  <2> QED BY <2>1, <2>2, Appended
<1>6. Drop /\ Instruction[2] = 1 /\ Len(stack) > 0 =>
        /\ IsSeq(stack') /\ Len(stack') = Len(stack) - 1
        /\ \A i \in 1 .. Len(stack) - 1 : stack'[i] = stack[i]
        /\ gpr' = gpr /\ contexts' = contexts /\ Advance
  <2> SUFFICES ASSUME Drop, Instruction[2] = 1, Len(stack) > 0
               PROVE  /\ IsSeq(stack') /\ Len(stack') = Len(stack) - 1
                      /\ \A i \in 1 .. Len(stack) - 1 : stack'[i] = stack[i]
                      /\ gpr' = gpr /\ contexts' = contexts /\ Advance
    OBVIOUS
  <2>1. /\ stack' = SubSeq(stack, 1, Len(stack) - Instruction[2])
        /\ gpr' = gpr /\ contexts' = contexts /\ Advance
    BY Effects
  <2>2. stack' = SubSeq(stack, 1, Len(stack) - 1)
    BY <2>1
  <2>3. Len(stack) - 1 \in 0 .. Len(stack)
    BY <1>2
  <2> QED BY <2>1, <2>2, <2>3, Prefixed
<1>7. CASE eip.at \in 1 .. 5
  <2>1. Len(stack) = IF eip.at \in {2, 3} THEN 1 ELSE 0
    BY <1>7, AtTop
  <2>2. CASE eip.at = 1
    <3>1. Push
      BY <1>1, <2>2, FactorialOps, RoutineOps DEF Op
    <3>2. eip'.code = "guest" /\ eip'.at = 2 /\ Len(stack') = 1
      BY <1>3, <1>4, <2>1, <2>2, <3>1
    <3> QED BY <1>4, <3>1, <3>2 DEF Recursing
  <2>3. CASE eip.at = 2
    <3>1. Op = "call" /\ Instruction[2] = 3
      BY <1>1, <2>3, FactorialOps DEF Op
    <3>2. Call
      BY <3>1, RoutineOps
    <3>3. eip'.code = "guest" /\ eip'.at = 6 /\ Len(stack') = 2
      BY <1>5, <2>1, <2>3, <3>1, <3>2 DEF From
    <3>4. stack'[2] = [code |-> "guest", at |-> 3]
      BY <1>5, <2>1, <2>3, <3>2
    <3>5. Returns(stack')
      BY <3>3, <3>4 DEF Returns
    <3>6. Inside(0, gpr', eip', stack')
      BY <3>3 DEF Inside
    <3> QED BY <1>5, <3>2, <3>3, <3>5, <3>6 DEF Recursing
  <2>4. CASE eip.at = 3
    <3>1. Op = "drop" /\ Instruction[2] = 1
      BY <1>1, <2>4, FactorialOps DEF Op
    <3>2. Drop
      BY <3>1, RoutineOps
    <3>3. Len(stack) = 1 /\ Len(stack) > 0
      BY <2>1, <2>4
    <3>4. eip'.code = "guest" /\ eip'.at = 4 /\ Len(stack') = 0
      BY <1>3, <1>6, <2>4, <3>1, <3>2, <3>3
    <3> QED BY <1>6, <3>1, <3>2, <3>3, <3>4 DEF Recursing
  <2>5. CASE eip.at = 4
    <3>1. Op = "mov"
      BY <1>1, <2>5, FactorialOps DEF Op
    <3>2. IntegerInst
      BY <3>1, RoutineOps DEF IntegerInst
    <3>3. Plain
      BY <3>2, PlainSteps
    <3>4. Advance
      BY <3>1, <3>3 DEF Plain
    <3> QED BY <1>3, <2>1, <2>5, <3>3, <3>4 DEF Plain, Recursing
  <2>6. CASE eip.at = 5
    <3>1. Op = "jmp" /\ Instruction[2] = 16
      BY <1>1, <2>6, FactorialOps DEF Op
    <3>2. Jmp
      BY <3>1, RoutineOps
    <3>3. /\ eip' = From(Instruction[2])
          /\ gpr' = gpr /\ stack' = stack /\ contexts' = contexts
      BY <3>2 DEF Jmp
    <3>4. eip'.code = "guest" /\ eip'.at = 22
      BY <2>6, <3>1, <3>3 DEF From
    <3> QED BY <2>1, <2>6, <3>3, <3>4 DEF Recursing
  <2> QED BY <1>7, <2>2, <2>3, <2>4, <2>5, <2>6
<1>8. CASE eip.at \in 6 .. 21
  <2>1. Returns(stack) /\ \E d \in Nat : Inside(d, gpr, eip, stack)
    BY <1>8, AtTop
  <2>2. PICK d \in Nat : Inside(d, gpr, eip, stack)
    BY <2>1
  <2>a. ASSUME NEW k \in Nat, Returns(stack'), Inside(k, gpr', eip', stack')
        PROVE  Recursing(gpr', eip', stack')
    BY <2>a DEF Recursing
  <2>3. CASE eip.at = 6
    <3>1. Op = "push" /\ Instruction[2] = "ebp"
      BY <1>1, <2>3, FactorialOps DEF Op
    <3>2. Push
      BY <3>1, RoutineOps
    <3>3. ValueOf(Instruction[2]) = gpr["ebp"]
      BY <3>1 DEF ValueOf, Regs, Immediates, OnStack, Variables
    <3>4. Len(stack) = 4 * d + 2 /\ (d > 0 => gpr["ebp"] = 4 * d - 1)
      BY <2>2, <2>3 DEF Inside
    <3>5. /\ eip'.code = "guest" /\ eip'.at = 7 /\ Len(stack') = 4 * d + 3
          /\ stack'[4 * d + 3] = gpr["ebp"]
      BY <1>3, <1>4, <2>3, <3>2, <3>3, <3>4
    <3>6. Returns(stack')
      <4>1. \A k \in Nat :
              /\ 4 * k + 2 = Len(stack') =>
                   stack'[Len(stack')]
                     = [code |-> "guest", at |-> IF k = 0 THEN 3 ELSE 17]
              /\ k > 0 /\ 4 * k + 3 = Len(stack') => stack'[Len(stack')] = 4 * k - 1
        <5> TAKE k \in Nat
        <5>1. 4 * k + 2 # Len(stack')
          BY <3>5
        <5>2. 4 * k + 3 = Len(stack') => k = d
          BY <3>5
        <5> QED BY <3>4, <3>5, <5>1, <5>2
      <4> QED BY <1>2, <1>4, <2>1, <3>2, <4>1, ReturnsAbove
    <3>7. Inside(d, gpr', eip', stack')
      BY <1>4, <3>2, <3>4, <3>5 DEF Inside
    <3> QED BY <1>4, <2>a, <3>2, <3>5, <3>6, <3>7
  <2>4. CASE eip.at = 7
    <3>1. Op = "mov" /\ Instruction[2] = "esp" /\ Instruction[3] = "ebp"
      BY <1>1, <2>4, FactorialOps DEF Op
    <3>2. Mov
      BY <3>1, RoutineOps
    <3>3. ValueOf(Instruction[2]) = Len(stack)
      BY <3>1, Values
    <3>4. Len(stack) = 4 * d + 3
      BY <2>2, <2>4 DEF Inside
    <3>5. /\ Put("ebp", 4 * d + 3) /\ Advance
          /\ stack' = stack /\ contexts' = contexts
      BY <3>1, <3>2, <3>3, <3>4 DEF Mov
    <3>6. IsFile(gpr') /\ gpr'["ebp"] = 4 * d + 3
      BY <3>5 DEF Put, IsFile, Regs
    <3>7. eip'.code = "guest" /\ eip'.at = 8
      BY <1>3, <2>4, <3>5
    <3>8. Inside(d, gpr', eip', stack')
      BY <3>4, <3>5, <3>6, <3>7 DEF Inside
    <3> QED BY <2>1, <2>a, <3>5, <3>6, <3>7, <3>8
  <2>5. CASE eip.at \in {8, 15}
    <3>1. Op = "push"
      BY <1>1, <2>5, FactorialOps DEF Op
    <3>2. Push
      BY <3>1, RoutineOps
    <3>3. /\ Len(stack) = IF eip.at = 8 THEN 4 * d + 3 ELSE 4 * d + 4
          /\ gpr["ebp"] = 4 * d + 3
      BY <2>2, <2>5 DEF Inside
    <3>4. /\ eip'.code = "guest" /\ eip'.at = eip.at + 1
          /\ Len(stack') = IF eip.at = 8 THEN 4 * d + 4 ELSE 4 * d + 5
      BY <1>3, <1>4, <3>2, <3>3
    <3>5. Returns(stack')
      <4>1. \A k \in Nat : 4 * k + 2 # Len(stack') /\ 4 * k + 3 # Len(stack')
        BY <3>4
      <4> QED BY <1>2, <1>4, <2>1, <3>2, <4>1, ReturnsAbove
    <3>6. Inside(d, gpr', eip', stack')
      BY <1>4, <2>5, <3>2, <3>3, <3>4 DEF Inside
    <3> QED BY <1>4, <2>5, <2>a, <3>2, <3>4, <3>5, <3>6
  <2>6. CASE eip.at \in {9, 10, 11, 13, 14, 18, 19}
    <3>1. /\ Op \in {"mov", "cmpl", "dec", "imul"}
          /\ Op \in {"mov", "imul"} => Instruction[3] # "ebp"
          /\ Op = "dec" => Instruction[2] # "ebp"
      BY <1>1, <2>6, FactorialOps DEF Op
    <3>2. IntegerInst /\ gpr'["ebp"] = gpr["ebp"]
      BY <3>1, RoutineOps, EbpKept DEF IntegerInst
    <3>3. Plain
      BY <3>2, PlainSteps
    <3>4. Advance
      BY <3>1, <3>3 DEF Plain
    <3>5. Len(stack) = 4 * d + 4 /\ gpr["ebp"] = 4 * d + 3
      BY SMTT(20), <2>2, <2>6 DEF Inside
    <3>6. eip'.code = "guest" /\ eip'.at = eip.at + 1
      BY <1>3, <3>4
    <3>7. Inside(d, gpr', eip', stack')
      BY <2>6, <3>2, <3>3, <3>5, <3>6 DEF Inside, Plain
    <3>8. stack' = stack /\ contexts' = contexts /\ IsFile(gpr')
      BY <3>3 DEF Plain
    <3> QED BY <2>1, <2>6, <2>a, <3>6, <3>7, <3>8
  <2>7. CASE eip.at = 12
    <3>1. Op = "j" /\ Instruction[3] = 6
      BY <1>1, <2>7, FactorialOps DEF Op
    <3>2. IntegerInst /\ gpr'["ebp"] = gpr["ebp"]
      BY <3>1, RoutineOps, EbpKept DEF IntegerInst
    <3>3. Plain
      BY <3>2, PlainSteps
    <3>4. Advance \/ eip' = From(6)
      BY <3>1, <3>3 DEF Plain
    <3>5. Len(stack) = 4 * d + 4 /\ gpr["ebp"] = 4 * d + 3
      BY <2>2, <2>7 DEF Inside
    <3>6. eip'.code = "guest" /\ eip'.at \in {13, 19}
      BY <1>3, <2>7, <3>4 DEF From
    <3>7. Inside(d, gpr', eip', stack')
      BY <3>2, <3>3, <3>5, <3>6 DEF Inside, Plain
    <3>8. stack' = stack /\ contexts' = contexts /\ IsFile(gpr')
      BY <3>3 DEF Plain
    <3> QED BY <2>1, <2>a, <3>6, <3>7, <3>8
  <2>8. CASE eip.at = 16
    <3>1. Op = "call" /\ Instruction[2] = -11
      BY <1>1, <2>8, FactorialOps DEF Op
    <3>2. Call
      BY <3>1, RoutineOps
    <3>3. Len(stack) = 4 * d + 5 /\ gpr["ebp"] = 4 * d + 3
      BY <2>2, <2>8 DEF Inside
    <3>4. eip'.code = "guest" /\ eip'.at = 6
      BY <1>5, <2>8, <3>1, <3>2 DEF From
    <3>5. /\ Len(stack') = 4 * (d + 1) + 2
          /\ stack'[4 * (d + 1) + 2] = [code |-> "guest", at |-> 17]
      BY <1>5, <2>8, <3>2, <3>3
    <3>6. Returns(stack')
      <4>1. \A k \in Nat :
              /\ 4 * k + 2 = Len(stack') =>
                   stack'[Len(stack')]
                     = [code |-> "guest", at |-> IF k = 0 THEN 3 ELSE 17]
              /\ k > 0 /\ 4 * k + 3 = Len(stack') => stack'[Len(stack')] = 4 * k - 1
        <5> TAKE k \in Nat
        <5>1. 4 * k + 3 # Len(stack')
          BY <3>5
        <5>2. 4 * k + 2 = Len(stack') => k = d + 1 /\ k # 0
          BY <3>5
        <5> QED BY <3>5, <5>1, <5>2
      <4> QED BY <1>2, <1>5, <2>1, <3>2, <4>1, ReturnsAbove
    <3>7. Inside(d + 1, gpr', eip', stack')
      BY <1>5, <3>2, <3>3, <3>4, <3>5 DEF Inside
    <3> QED BY <1>5, <2>a, <3>2, <3>4, <3>6, <3>7
  <2>9. CASE eip.at = 17
    <3>1. Op = "drop" /\ Instruction[2] = 1
      BY <1>1, <2>9, FactorialOps DEF Op
    <3>2. Drop
      BY <3>1, RoutineOps
    <3>3. Len(stack) = 4 * d + 5 /\ Len(stack) > 0 /\ gpr["ebp"] = 4 * d + 3
      BY <2>2, <2>9 DEF Inside
    <3>4. eip'.code = "guest" /\ eip'.at = 18 /\ Len(stack') = 4 * d + 4
      BY <1>3, <1>6, <2>9, <3>1, <3>2, <3>3
    <3>5. Returns(stack')
      <4>1. Len(stack') \in 0 .. Len(stack) /\ Len(stack') = Len(stack) - 1
        BY <1>6, <3>1, <3>2, <3>3, <3>4
      <4> QED BY <1>2, <1>6, <2>1, <3>1, <3>2, <3>3, <4>1, ReturnsBelow
    <3>6. Inside(d, gpr', eip', stack')
      BY <1>6, <3>1, <3>2, <3>3, <3>4 DEF Inside
    <3> QED BY <1>6, <2>a, <3>1, <3>2, <3>3, <3>4, <3>5, <3>6
  <2>10. CASE eip.at = 20
    <3>1. Op = "leave"
      BY <1>1, <2>10, FactorialOps DEF Op
    <3>2. Leave
      BY <3>1, RoutineOps
    <3>3. Len(stack) = 4 * d + 4 /\ gpr["ebp"] = 4 * d + 3
      BY <2>2, <2>10 DEF Inside
    <3>4. gpr["ebp"] - 1 = 4 * d + 2 /\ 4 * d + 2 \in 0 .. Len(stack)
      BY <3>3
    <3>5. /\ gpr' = [gpr EXCEPT !["ebp"] = stack[gpr["ebp"]]]
          /\ stack' = SubSeq(stack, 1, gpr["ebp"] - 1)
          /\ contexts' = contexts /\ Advance
      BY <3>2 DEF Leave
    <3>6. /\ IsSeq(stack') /\ Len(stack') = 4 * d + 2
          /\ \A i \in 1 .. 4 * d + 2 : stack'[i] = stack[i]
      <4>1. stack' = SubSeq(stack, 1, 4 * d + 2)
        BY <3>4, <3>5
      <4> QED BY <3>4, <4>1, Prefixed
    <3>7. IsFile(gpr') /\ gpr'["ebp"] = stack[4 * d + 3]
      BY <3>3, <3>5 DEF IsFile, Regs
    <3>8. d > 0 => stack[4 * d + 3] = 4 * d - 1
      <4>1. 4 * d + 3 <= Len(stack)
        BY <3>3
      <4>2. \A k \in Nat :
              k > 0 /\ 4 * k + 3 <= Len(stack) => stack[4 * k + 3] = 4 * k - 1
        BY <2>1 DEF Returns
      <4> QED BY <4>1, <4>2
    <3>9. eip'.code = "guest" /\ eip'.at = 21
      BY <1>3, <2>10, <3>5
    <3>10. Returns(stack')
      <4>1. Len(stack') \in 0 .. Len(stack)
        BY <3>4, <3>6
      <4> QED BY <1>2, <2>1, <3>6, <4>1, ReturnsBelow
    <3>11. Inside(d, gpr', eip', stack')
      <4>1. d > 0 => gpr'["ebp"] = 4 * d - 1
        BY <3>7, <3>8
      <4>2. Len(stack') = 4 * d + 2
        BY <3>6, Zenon
      <4>3. eip'.at \in {6, 21}
        BY <3>9
      <4> QED BY <4>1, <4>2, <4>3, Zenon DEF Inside
    <3>12. Recursing(gpr', eip', stack')
      BY <2>a, <3>10, <3>11
    <3>13. contexts' = contexts /\ eip'.at \in 1 .. 22
      BY <3>5, <3>9
    <3>14. IsFile(gpr') /\ IsSeq(stack') /\ eip'.code = "guest"
      BY <3>6, <3>7, <3>9, Zenon
    <3> QED BY <3>12, <3>13, <3>14
  <2>11. CASE eip.at = 21
    <3>1. Op = "ret"
      BY <1>1, <2>11, FactorialOps DEF Op
    <3>2. Ret
      BY <3>1, RoutineOps
    <3>3. Len(stack) = 4 * d + 2 /\ (d > 0 => gpr["ebp"] = 4 * d - 1)
      BY <2>2, <2>11 DEF Inside
    <3>4. /\ eip' = Last(stack) /\ stack' = Front(stack)
          /\ gpr' = gpr /\ contexts' = contexts
      BY <3>2 DEF Ret
    <3>5. Len(stack) > 0 /\ Len(stack) - 1 = 4 * d + 1
      BY <3>3
    <3>6. /\ IsSeq(stack') /\ Len(stack') = Len(stack) - 1
          /\ \A i \in 1 .. Len(stack) - 1 : stack'[i] = stack[i]
          /\ eip' = stack[Len(stack)]
      BY <3>4, <3>5, Shortened
    <3>7. Len(stack') = 4 * d + 1
      BY <3>5, <3>6
    <3>8. stack[4 * d + 2] = [code |-> "guest", at |-> IF d = 0 THEN 3 ELSE 17]
      BY <2>1, <3>3 DEF Returns
    <3>9. eip'.code = "guest" /\ eip'.at = IF d = 0 THEN 3 ELSE 17
      BY <3>3, <3>6, <3>8
    <3>10. CASE d = 0
      <4>2. eip'.at = 3
        BY <3>9, <3>10
      <4>3. 4 * d + 1 = 1
        BY <3>10
      <4>1. eip'.at = 3 /\ Len(stack') = 1
        BY <3>7, <4>2, <4>3
      <4>4. eip'.at \in {2, 3} /\ eip'.at \in 1 .. 22
        BY <4>2
      <4>5. Recursing(gpr', eip', stack')
        BY <4>1, <4>4, AtTop
      <4> QED BY <3>4, <3>6, <3>9, <4>4, <4>5
    <3>11. CASE d > 0
      <4>1. Returns(stack')
        <5>1. Len(stack') \in 0 .. Len(stack)
          BY <3>3, <3>7
        <5> QED BY <1>2, <2>1, <3>6, <5>1, ReturnsBelow
      <4>2. d - 1 \in Nat /\ 4 * (d - 1) + 5 = 4 * d + 1 /\ 4 * (d - 1) + 3 = 4 * d - 1
        BY <3>11
      <4>3. Inside(d - 1, gpr', eip', stack')
        BY <3>3, <3>4, <3>7, <3>9, <3>11, <4>2 DEF Inside
      <4> QED BY <2>a, <3>4, <3>6, <3>9, <3>11, <4>1, <4>2, <4>3
    <3> QED BY <3>10, <3>11
  <2> QED BY <1>8, <2>3, <2>4, <2>5, <2>6, <2>7, <2>8, <2>9, <2>10, <2>11
<1> QED BY <1>1, <1>7, <1>8

-----------------------------------------------------------------------------
(* The guest, with registers g, at e, on stack s: in its program, and what *)
(* that needs from the stack is there.                                     *)
Guest(j, g, e, s) ==
  /\ e.code = "guest" /\ e.at \in 1 .. Len(Program(j)) + 1
  /\ IsFile(g) /\ IsSeq(s)
  /\ j.program = "product" => Len(s) = IF e.at \in 2 .. 12 THEN 1 ELSE 0
  /\ j.program = "factorial" => Recursing(g, e, s)

LEMMA GuestSteps ==
  ASSUME job \in Jobs, Guest(job, gpr, eip, stack),
         IntegerInst \/ StackInst \/ FloatInst
  PROVE  Guest(job, gpr', eip', stack') /\ contexts' = contexts
<1>1. /\ eip.code = "guest" /\ eip.at \in 1 .. Len(Program(job)) + 1
      /\ IsFile(gpr) /\ IsSeq(stack)
  BY DEF Guest
<1>2. CASE job.program = "product"
  <2>0. Len(Program(job)) = 12
    BY <1>2, ProductOps
  <2>1. Len(Program(job)) + 1 = 13
    BY <2>0
  <2>2. Len(stack) = IF eip.at \in 2 .. 12 THEN 1 ELSE 0
    BY <1>2 DEF Guest
  <2>3. eip.at \in 1 .. 13
    BY <1>1, <2>1
  <2>4. /\ IsFile(gpr') /\ IsSeq(stack') /\ contexts' = contexts
        /\ eip'.code = "guest" /\ eip'.at \in 1 .. 13
        /\ Len(stack') = IF eip'.at \in 2 .. 12 THEN 1 ELSE 0
    BY <1>1, <1>2, <2>2, <2>3, ProductSteps
  <2> QED BY <1>2, <2>1, <2>4 DEF Guest
<1>3. CASE job.program = "factorial"
  <2>0. Len(Program(job)) = 21
    BY <1>3, FactorialOps
  <2>1. Len(Program(job)) + 1 = 22
    BY <2>0
  <2>2. Recursing(gpr, eip, stack)
    BY <1>3 DEF Guest
  <2>3. eip.at \in 1 .. 22
    BY <1>1, <2>1
  <2>4. /\ IsFile(gpr') /\ IsSeq(stack') /\ contexts' = contexts
        /\ eip'.code = "guest" /\ eip'.at \in 1 .. 22
        /\ Recursing(gpr', eip', stack')
    BY <1>1, <1>3, <2>2, <2>3, RecursionSteps
  <2> QED BY <1>3, <2>1, <2>4 DEF Guest
<1>4. CASE job.program \notin {"factorial", "product"}
  <2>1. Flows(Program(job))
    BY <1>4, ProgramFlows
  <2>2. /\ IsFile(gpr') /\ stack' = stack /\ contexts' = contexts
        /\ eip'.code = "guest" /\ eip'.at \in 1 .. Len(Program(job)) + 1
    BY <1>1, <2>1, FlowSteps
  <2> QED BY <1>1, <1>4, <2>2 DEF Guest
<1> QED BY <1>2, <1>3, <1>4

(* int: the guest goes on after it.                                        *)
LEMMA GuestCalls ==
  ASSUME job \in Jobs, Guest(job, gpr, eip, stack), Op = "int"
  PROVE  Guest(job, gpr, From(0), stack)
<1>1. /\ eip.code = "guest" /\ eip.at \in 1 .. Len(Program(job)) + 1
      /\ IsFile(gpr) /\ IsSeq(stack)
  BY DEF Guest
<1>2. IsSeq(Program(job))
  <2>1. job.program \notin {"factorial", "product"} => Flows(Program(job))
    BY ProgramFlows
  <2> QED BY <2>1, ProductOps, FactorialOps DEF Flows
<1>3. eip.at \in 1 .. Len(Program(job)) /\ Instruction = Program(job)[eip.at]
  <2>1. Len(Program(job)) \in Nat
    BY <1>2 DEF IsSeq
  <2>2. Op # "nemu_trap"
    <3> HIDE DEF Op
    <3> QED OBVIOUS
  <2>3. /\ eip.at \in 1 .. Len(Program(job)) => Instruction = Program(job)[eip.at]
        /\ eip.at = Len(Program(job)) + 1 => Op = "nemu_trap"
    BY <1>1, <1>2, Fetch
  <2> QED BY <1>1, <2>1, <2>2, <2>3
<1>4. From(0).code = "guest" /\ From(0).at \in 1 .. Len(Program(job)) + 1
  <2>1. Len(Program(job)) \in Nat
    BY <1>2 DEF IsSeq
  <2> QED BY <1>1, <1>3, <2>1 DEF From
<1>5. job.program # "product"
  <2> SUFFICES ASSUME job.program = "product" PROVE FALSE
    OBVIOUS
  <2>1. eip.at \in 1 .. 12 /\ Op = Program(job)[eip.at][1]
    BY <1>3, ProductOps DEF Op
  <2>2. /\ Program(job)[1][1] = "push" /\ Program(job)[12][1] = "pop"
        /\ \A i \in 2 .. 11 : Program(job)[i][1] \in {"mov", "imul", "add", "mul"}
    BY ProductOps
  <2> HIDE DEF Op
  <2>3. eip.at = 1 \/ eip.at = 12 \/ eip.at \in 2 .. 11
    BY <2>1
  <2> QED BY <2>1, <2>2, <2>3
<1>6. job.program # "factorial"
  <2> SUFFICES ASSUME job.program = "factorial" PROVE FALSE
    OBVIOUS
  <2>1. eip.at \in 1 .. 21 /\ Op = Program(job)[eip.at][1]
    BY <1>3, FactorialOps DEF Op
  <2>2. \A i \in 1 .. 21 : Program(job)[i][1] # "int"
    <3> SUFFICES ASSUME NEW i \in 1 .. 21 PROVE Program(job)[i][1] # "int"
      OBVIOUS
    <3> QED BY FactorialOps
  <2> HIDE DEF Op
  <2> QED BY <2>1, <2>2
<1> QED BY <1>1, <1>4, <1>5, <1>6 DEF Guest

(* A call's result in eax is nothing the guest's place depends on.         *)
LEMMA GuestAfter ==
  ASSUME NEW j, NEW c, Guest(j, c.gpr, c.eip, c.stack)
  PROVE  Guest(j, After(c), c.eip, c.stack)
<1>1. IsFile(After(c)) /\ After(c)["ebp"] = c.gpr["ebp"]
  BY DEF Guest, After, IsFile, Regs
<1>2. ASSUME NEW d, Inside(d, c.gpr, c.eip, c.stack)
      PROVE  Inside(d, After(c), c.eip, c.stack)
  BY <1>1, <1>2, Zenon DEF Inside
<1>3. Recursing(c.gpr, c.eip, c.stack) => Recursing(After(c), c.eip, c.stack)
  BY <1>2, Zenon DEF Recursing
<1> QED BY <1>1, <1>3 DEF Guest

-----------------------------------------------------------------------------
(* The invariant: each context was interrupted in the entry code of the    *)
(* one before it, the first in the guest, and what runs now is on its way  *)
(* back to the last.                                                       *)
Nested(j, cs) ==
  /\ IsSeq(cs)
  /\ \A k \in 1 .. Len(cs) : IsContext(cs[k]) /\ (cs[k].call => k = 1)
  /\ \A k \in 1 .. Len(cs) - 1 :
       Frame(cs[k], cs[k + 1].gpr, cs[k + 1].eip, cs[k + 1].stack)
  /\ Len(cs) > 0 => Guest(j, cs[1].gpr, cs[1].eip, cs[1].stack)

LEMMA NestedIf ==
  ASSUME NEW j, NEW cs, NEW n, NEW m, IsSeq(cs), Len(cs) = n, n = m + 1, m \in Nat,
         \A k \in 1 .. n : IsContext(cs[k]) /\ (cs[k].call => k = 1),
         \A k \in 1 .. m :
           Frame(cs[k], cs[k + 1].gpr, cs[k + 1].eip, cs[k + 1].stack),
         n > 0 => Guest(j, cs[1].gpr, cs[1].eip, cs[1].stack)
  PROVE  Nested(j, cs)
BY DEF Nested

Running(j, cs, g, e, s) ==
  /\ Len(cs) = 0 => Guest(j, g, e, s)
  /\ Len(cs) > 0 => Frame(cs[Len(cs)], g, e, s)

Inv ==
  /\ job \in Jobs
  /\ Nested(job, contexts)
  /\ Running(job, contexts, gpr, eip, stack)

LEMMA Started == Init => Inv
<1> SUFFICES ASSUME Init PROVE Inv
  OBVIOUS
<1>1. job \in Jobs
  BY DEF Init
<1>2. contexts = <<>> /\ stack = <<>> /\ eip = [code |-> "guest", at |-> 1]
  BY DEF Init
<1>3. Len(contexts) = 0 /\ IsSeq(contexts) /\ Len(stack) = 0 /\ IsSeq(stack)
  BY <1>2 DEF IsSeq
<1>4. IsFile(gpr)
  BY DEF Init, IsFile
<1>5. Len(Program(job)) \in Nat
  <2>1. job.program \notin {"factorial", "product"} => Flows(Program(job))
    BY <1>1, ProgramFlows
  <2> QED BY <2>1, ProductOps, FactorialOps DEF Flows, IsSeq
<1>6. eip.code = "guest" /\ eip.at = 1
  BY <1>2
<1>7. Recursing(gpr, eip, stack)
  BY <1>3, <1>6 DEF Recursing
<1>8. eip.at \in 1 .. Len(Program(job)) + 1
  BY <1>5, <1>6
<1>9. Guest(job, gpr, eip, stack)
  BY <1>3, <1>4, <1>6, <1>7, <1>8 DEF Guest
<1>10. Nested(job, contexts)
  BY <1>3 DEF Nested
<1>11. Running(job, contexts, gpr, eip, stack)
  BY <1>3, <1>9 DEF Running
<1> QED BY <1>1, <1>10, <1>11 DEF Inv

LEMMA Files ==
  ASSUME NEW j, NEW cs, NEW g, NEW e, NEW s, Nested(j, cs), Running(j, cs, g, e, s)
  PROVE  IsFile(g) /\ IsSeq(s) /\ Len(cs) \in Nat
<1>1. Len(cs) \in Nat
  BY DEF Nested, IsSeq
<1>2. CASE Len(cs) = 0
  BY <1>2, <1>1 DEF Running, Guest
<1>3. CASE Len(cs) > 0
  <2>1. Frame(cs[Len(cs)], g, e, s)
    BY <1>3 DEF Running
  <2> QED BY <1>1, <2>1 DEF Frame
<1> QED BY <1>1, <1>2, <1>3

(* What raise_intr leaves is a frame of the context it interrupts.         *)
LEMMA Raised ==
  ASSUME job \in Jobs, Nested(job, contexts), NEW code \in {"irq", "vecsys"},
         NEW no, NEW from, Running(job, contexts, gpr, from, stack),
         code = "vecsys" => Len(contexts) = 0,
         RaiseIntr(code, no, from), job' = job
  PROVE  Inv'
<1> DEFINE c == [gpr |-> gpr, flags |-> flags, eip |-> from, stack |-> stack,
                 call |-> code = "vecsys"]
           n == Len(contexts)
           t == <<flags, "cs", from>>
<1>1. /\ contexts' = Append(contexts, c) /\ stack' = stack \o t
      /\ gpr' = gpr /\ eip' = [code |-> code, at |-> 1]
  BY DEF RaiseIntr
<1>2. IsFile(gpr) /\ IsSeq(stack) /\ n \in Nat /\ IsSeq(contexts)
  BY Files DEF Nested
<1>3. /\ c.gpr = gpr /\ c.flags = flags /\ c.eip = from /\ c.stack = stack
      /\ c.call <=> code = "vecsys"
  OBVIOUS
<1> HIDE DEF c
<1>4. IsContext(c)
  BY <1>2, <1>3 DEF IsContext
<1>5. /\ IsSeq(contexts') /\ Len(contexts') = n + 1
      /\ \A k \in 1 .. n : contexts'[k] = contexts[k]
      /\ contexts'[n + 1] = c
  BY <1>1, <1>2, Appended
<1>6. Frame(c, gpr', eip', stack')
  <2>1. IsSeq(t) /\ Len(t) = 3 /\ t[1] = flags /\ t[3] = from
    BY Triple
  <2> HIDE DEF t
  <2>2. /\ IsSeq(stack \o t) /\ Len(stack \o t) = Len(stack) + Len(t)
        /\ \A i \in 1 .. Len(stack) : (stack \o t)[i] = stack[i]
        /\ \A i \in 1 .. Len(t) : (stack \o t)[Len(stack) + i] = t[i]
    <3>1. Len(stack) \in Nat /\ Len(t) \in Nat
      BY <1>2, <2>1 DEF IsSeq
    <3>2. \A i \in 1 .. Len(t) : (stack \o t)[Len(stack) + i] = t[i]
      BY <3>1
    <3> QED BY <1>2, <2>1, <3>2, Concatenated
  <2>3. /\ IsSeq(stack') /\ Len(stack') = Len(stack) + 3
        /\ \A i \in 1 .. Len(stack) : stack'[i] = stack[i]
        /\ stack'[Len(stack) + 1] = flags /\ stack'[Len(stack) + 3] = from
    BY <1>1, <2>1, <2>2
  <2>4. Interrupted(c, stack')
    BY <1>3, <2>3 DEF Interrupted
  <2>5. eip'.code = code /\ eip'.at = 1 /\ IsFile(gpr') /\ gpr' = c.gpr
    BY <1>1, <1>2, <1>3
  <2> QED BY <1>3, <2>3, <2>4, <2>5, Heights DEF Frame
<1> HIDE DEF n
<1>7. Nested(job', contexts')
  <2>1. ASSUME NEW k \in 1 .. n + 1
        PROVE  IsContext(contexts'[k]) /\ (contexts'[k].call => k = 1)
    <3>1. CASE k = n + 1
      BY <1>3, <1>4, <1>5, <3>1 DEF n
    <3>2. CASE k \in 1 .. n
      BY <1>5, <3>2 DEF Nested, n
    <3> QED BY <1>2, <3>1, <3>2
  <2>2. ASSUME NEW k \in 1 .. n
        PROVE  Frame(contexts'[k], contexts'[k + 1].gpr, contexts'[k + 1].eip,
                     contexts'[k + 1].stack)
    <3>1. CASE k = n
      <4>1. contexts'[k] = contexts[Len(contexts)] /\ contexts'[k + 1] = c
        BY <1>5, <3>1 DEF n
      <4>2. Frame(contexts[Len(contexts)], gpr, from, stack)
        BY <1>2, <3>1 DEF Running, n
      <4> QED BY <1>3, <4>1, <4>2
    <3>2. CASE k \in 1 .. n - 1
      <4>1. k + 1 \in 1 .. n /\ k \in 1 .. n
        BY <1>2, <3>2
      <4>2. contexts'[k] = contexts[k] /\ contexts'[k + 1] = contexts[k + 1]
        BY <1>5, <4>1
      <4>3. Frame(contexts[k], contexts[k + 1].gpr, contexts[k + 1].eip,
                  contexts[k + 1].stack)
        BY <3>2 DEF Nested, n
      <4> QED BY <4>2, <4>3
    <3> QED BY <1>2, <3>1, <3>2
  <2>3. Guest(job, contexts'[1].gpr, contexts'[1].eip, contexts'[1].stack)
    <3>1. CASE n = 0
      <4>1. contexts'[1] = c
        BY <1>5, <3>1
      <4>2. Guest(job, gpr, from, stack)
        BY <3>1 DEF Running, n
      <4> QED BY <1>3, <4>1, <4>2
    <3>2. CASE n > 0
      <4>1. contexts'[1] = contexts[1]
        BY <1>2, <1>5, <3>2
      <4> QED BY <3>2, <4>1 DEF Nested, n
    <3> QED BY <1>2, <3>1, <3>2
  <2>4. Len(contexts') = n + 1 /\ n \in Nat
    BY <1>2, <1>5
  <2>5. job' = job /\ IsSeq(contexts')
    BY <1>5
  <2>6. Nested(job, contexts')
    <3>1. \A k \in 1 .. n + 1 : IsContext(contexts'[k]) /\ (contexts'[k].call => k = 1)
      BY <2>1
    <3>2. \A k \in 1 .. n : Frame(contexts'[k], contexts'[k + 1].gpr,
                                  contexts'[k + 1].eip, contexts'[k + 1].stack)
      BY <2>2
    <3> HIDE DEF IsContext, Frame, Guest
    <3> QED BY <2>3, <2>4, <2>5, <3>1, <3>2, NestedIf
  <2> QED BY <2>5, <2>6
<1>8. Running(job', contexts', gpr', eip', stack')
  <2>1. Len(contexts') > 0 /\ contexts'[Len(contexts')] = c
    BY <1>2, <1>5
  <2> QED BY <1>6, <2>1 DEF Running
<1> QED BY <1>7, <1>8 DEF Inv

(* iret: the last context goes on as it was.                               *)
LEMMA Returned ==
  ASSUME Inv, Iret, eip.code # "guest"
  PROVE  LET c == contexts[Len(contexts)]
         IN  /\ Len(contexts) > 0
             /\ gpr' = After(c) /\ flags' = c.flags
             /\ eip' = c.eip /\ stack' = c.stack
             /\ contexts' = Front(contexts)
<1> DEFINE c == contexts[Len(contexts)]
           b == Len(c.stack)
<1>1. Nested(job, contexts) /\ Running(job, contexts, gpr, eip, stack)
  BY DEF Inv
<1>2. Len(contexts) \in Nat
  BY <1>1 DEF Nested, IsSeq
<1>3. Len(contexts) > 0
  BY <1>1, <1>2 DEF Running, Guest
<1>4. Frame(c, gpr, eip, stack) /\ IsContext(c)
  <2>1. Len(contexts) \in 1 .. Len(contexts)
    BY <1>2, <1>3
  <2> QED BY <1>1, <1>3, <2>1 DEF Running, Nested
<1> HIDE DEF c
<1>5. eip.at = 9
  <2>1. eip.code \in {"irq", "vecsys"} /\ eip.at \in 1 .. 9
    BY <1>4 DEF Frame
  <2>2. Op = "iret"
    BY DEF Iret
  <2>3. eip.at # 9 => Op \in {"push", "pusha", "irq_handle", "drop", "popa"}
    BY <2>1, EntryAt
  <2> HIDE DEF Op
  <2> QED BY <2>2, <2>3
<1>6. /\ IsSeq(c.stack) /\ b \in Nat /\ IsSeq(stack) /\ Len(stack) = b + 3
      /\ Interrupted(c, stack) /\ gpr = After(c)
  BY <1>4, <1>5, Heights DEF Frame, IsContext, IsSeq
<1>7. /\ eip' = stack[Len(stack)] /\ flags' = stack[Len(stack) - 2]
      /\ stack' = SubSeq(stack, 1, Len(stack) - 3)
      /\ contexts' = Front(contexts) /\ gpr' = gpr
  BY DEF Iret
<1>8. Len(stack) = b + 3 /\ Len(stack) - 2 = b + 1 /\ Len(stack) - 3 = b
  BY <1>6
<1>9. eip' = c.eip /\ flags' = c.flags
  BY <1>6, <1>7, <1>8 DEF Interrupted
<1>10. stack' = c.stack
  <2>1. stack' = SubSeq(stack, 1, b) /\ b \in 0 .. Len(stack)
    BY <1>6, <1>7, <1>8
  <2>2. IsSeq(stack') /\ Len(stack') = b /\ \A i \in 1 .. b : stack'[i] = stack[i]
    BY <1>6, <2>1, Prefixed
  <2>3. \A i \in 1 .. Len(c.stack) : stack[i] = c.stack[i]
    BY <1>6 DEF Interrupted
  <2> QED BY <1>6, <2>2, <2>3, SameSeq
<1> QED BY <1>3, <1>6, <1>7, <1>9, <1>10 DEF c

LEMMA ReturnKeeps ==
  ASSUME Inv, Iret, eip.code # "guest", job' = job
  PROVE  Inv'
<1> DEFINE n == Len(contexts)
           c == contexts[n]
<1>1. /\ n > 0 /\ gpr' = After(c)
      /\ eip' = c.eip /\ stack' = c.stack /\ contexts' = Front(contexts)
  BY Returned
<1>2. n \in Nat /\ IsSeq(contexts) /\ Nested(job, contexts) /\ job \in Jobs
  BY DEF Inv, Nested, IsSeq
<1>3. /\ IsSeq(contexts') /\ Len(contexts') = n - 1
      /\ \A k \in 1 .. n - 1 : contexts'[k] = contexts[k]
  BY <1>1, <1>2, Shortened
<1>4. /\ \A k \in 1 .. n : IsContext(contexts[k]) /\ (contexts[k].call => k = 1)
      /\ \A k \in 1 .. n - 1 : Frame(contexts[k], contexts[k + 1].gpr,
                                     contexts[k + 1].eip, contexts[k + 1].stack)
      /\ n > 0 => Guest(job, contexts[1].gpr, contexts[1].eip, contexts[1].stack)
  BY <1>2 DEF Nested
<1> HIDE DEF n, c
<1>5. Nested(job', contexts')
  <2>1. ASSUME NEW k \in 1 .. n - 1
        PROVE  IsContext(contexts'[k]) /\ (contexts'[k].call => k = 1)
    <3>1. k \in 1 .. n
      BY <1>2
    <3> QED BY <1>3, <1>4, <3>1
  <2>2. ASSUME NEW k \in 1 .. n - 1 - 1
        PROVE  Frame(contexts'[k], contexts'[k + 1].gpr, contexts'[k + 1].eip,
                     contexts'[k + 1].stack)
    <3>1. k \in 1 .. n - 1 /\ k + 1 \in 1 .. n - 1
      BY <1>2
    <3>2. contexts'[k] = contexts[k] /\ contexts'[k + 1] = contexts[k + 1]
      BY <1>3, <3>1
    <3> QED BY <1>4, <3>1, <3>2
  <2>3. n - 1 > 0 => Guest(job, contexts'[1].gpr, contexts'[1].eip, contexts'[1].stack)
    <3>1. n - 1 > 0 => contexts'[1] = contexts[1] /\ n > 0
      BY <1>2, <1>3
    <3> QED BY <1>4, <3>1
  <2>4. Len(contexts') = n - 1
    BY <1>3
  <2> QED BY <1>3, <2>1, <2>2, <2>3, <2>4 DEF Nested
<1>6. Running(job', contexts', gpr', eip', stack')
  <2>1. CASE n = 1
    <3>1. c = contexts[1]
      BY <2>1 DEF c
    <3>2. Guest(job, After(c), c.eip, c.stack)
      BY <1>1, <1>4, <3>1, GuestAfter
    <3>3. Len(contexts') = 0
      BY <1>3, <2>1
    <3> QED BY <1>1, <3>2, <3>3 DEF Running
  <2>2. CASE n > 1
    <3>1. n - 1 \in 1 .. n - 1 /\ n - 1 + 1 = n /\ n \in 1 .. n /\ n - 1 > 0
      BY <1>2, <2>2
    <3>2. After(c) = c.gpr
      <4>1. ~c.call
        BY <1>4, <2>2, <3>1 DEF c
      <4> QED BY <4>1 DEF After
    <3>3. Frame(contexts[n - 1], c.gpr, c.eip, c.stack)
      <4>1. Frame(contexts[n - 1], contexts[n - 1 + 1].gpr,
                  contexts[n - 1 + 1].eip, contexts[n - 1 + 1].stack)
        BY <1>4, <3>1
      <4> QED BY <3>1, <4>1 DEF c
    <3>4. Len(contexts') = n - 1 /\ contexts'[n - 1] = contexts[n - 1]
      BY <1>3, <3>1
    <3>5. Len(contexts') > 0 /\ Len(contexts') # 0
      BY <3>1, <3>4
    <3>6. Frame(contexts'[Len(contexts')], gpr', eip', stack')
      BY <1>1, <3>2, <3>3, <3>4
    <3> QED BY <3>5, <3>6 DEF Running
  <2> QED BY <1>1, <1>2, <2>1, <2>2
<1> QED BY <1>2, <1>5, <1>6 DEF Inv

(* Every step, and which of them end a context.                            *)
LEMMA Stepped ==
  ASSUME Inv, Next
  PROVE  /\ Inv'
         /\ contexts' = contexts \/ Len(contexts') = Len(contexts) + 1
              \/ (Iret /\ eip.code # "guest")
<1>1. /\ job \in Jobs /\ Nested(job, contexts)
      /\ Running(job, contexts, gpr, eip, stack)
  BY DEF Inv
<1>2. Len(contexts) \in Nat /\ IsSeq(contexts)
  BY <1>1 DEF Nested, IsSeq
<1>3. /\ Len(contexts) = 0 <=> eip.code = "guest"
      /\ Len(contexts) = 0 => Guest(job, gpr, eip, stack)
  <2>1. Len(contexts) = 0 => Guest(job, gpr, eip, stack)
    BY <1>1 DEF Running
  <2>2. Len(contexts) > 0 => eip.code \in {"irq", "vecsys"}
    BY <1>1 DEF Running, Frame
  <2> QED BY <1>2, <2>1, <2>2 DEF Guest
<1>a. ASSUME NEW code, NEW no, NEW from, RaiseIntr(code, no, from)
      PROVE  Len(contexts') = Len(contexts) + 1
  <2>1. \E e : contexts' = Append(contexts, e)
    BY <1>a DEF RaiseIntr
  <2> QED BY <1>2, <2>1, Appended
<1>4. CASE DoIntr
  <2>1. RaiseIntr("irq", IRQ_BASE + TIMER_IRQ, eip) /\ job' = job
    BY <1>4 DEF DoIntr
  <2>2. Inv'
    BY <1>1, <2>1, Raised
  <2> QED BY <1>a, <2>1, <2>2
<1>5. CASE eip.code = "guest" /\ (IntegerInst \/ StackInst \/ FloatInst) /\ job' = job
  <2>1. Guest(job, gpr', eip', stack') /\ contexts' = contexts
    BY <1>1, <1>3, <1>5, GuestSteps
  <2>2. Len(contexts) = 0 /\ ~(Len(contexts) > 0)
    BY <1>3, <1>5
  <2> QED BY <1>1, <1>5, <2>1, <2>2 DEF Inv, Running
<1>6. CASE eip.code = "guest" /\ IntInst /\ job' = job
  <2>1. Op = "int" /\ RaiseIntr("vecsys", 128, From(0))
    BY <1>6 DEF IntInst
  <2>2. Len(contexts) = 0 /\ ~(Len(contexts) > 0)
    BY <1>3, <1>6
  <2>3. Running(job, contexts, gpr, From(0), stack)
    BY <1>1, <1>3, <2>1, <2>2, GuestCalls DEF Running
  <2>4. Inv'
    BY <1>1, <1>6, <2>1, <2>2, <2>3, Raised
  <2> QED BY <1>a, <2>1, <2>4
<1>7. CASE eip.code # "guest" /\ EntryInst /\ Op # "iret" /\ job' = job
  <2>1. Len(contexts) > 0 /\ Len(contexts) \in 1 .. Len(contexts) /\ Len(contexts) # 0
    BY <1>2, <1>3, <1>7
  <2> DEFINE c == contexts[Len(contexts)]
  <2>2. Frame(c, gpr, eip, stack) /\ IsContext(c)
    BY <1>1, <2>1 DEF Running, Nested
  <2> HIDE DEF c
  <2>3. Frame(c, gpr', eip', stack') /\ contexts' = contexts
    BY <1>7, <2>2, EntrySteps
  <2>4. Running(job', contexts', gpr', eip', stack')
    BY <1>7, <2>1, <2>3 DEF Running, c
  <2> QED BY <1>1, <1>7, <2>3, <2>4 DEF Inv
<1>8. CASE eip.code # "guest" /\ EntryInst /\ Op = "iret" /\ job' = job
  <2>1. Iret
    BY <1>8, EntryOps
  <2> QED BY <1>8, <2>1, ReturnKeeps
<1>9. ExecInst =>
        /\ job' = job
        /\ eip.code = "guest" => IntegerInst \/ StackInst \/ FloatInst \/ IntInst
        /\ eip.code # "guest" => EntryInst
  BY DEF ExecInst
<1> QED BY <1>4, <1>5, <1>6, <1>7, <1>8, <1>9 DEF Next

(* What ContextRestored says of a step.                                    *)
Restores ==
  Len(contexts') < Len(contexts) =>
    LET c == Last(contexts)
    IN  /\ gpr' = IF c.call THEN [c.gpr EXCEPT !["eax"] = 0] ELSE c.gpr
        /\ flags' = c.flags /\ eip' = c.eip /\ stack' = c.stack

LEMMA RestoredBy ==
  ASSUME Inv, Next
  PROVE  Restores
<1>1. Len(contexts) \in Nat
  BY DEF Inv, Nested, IsSeq
<1>2. CASE contexts' = contexts \/ Len(contexts') = Len(contexts) + 1
  BY <1>1, <1>2 DEF Restores
<1>3. CASE Iret /\ eip.code # "guest"
  BY <1>3, Returned DEF Restores, After, Last
<1> QED BY <1>2, <1>3, Stepped

(* ContextRestored: whatever the job, however deep handlers interrupt one  *)
(* another, and whatever C code leaves in the registers it does not keep,  *)
(* who is returned to finds its registers, flags, stack and instruction.   *)
THEOREM ContextsSafe == Spec => ContextRestored
<1>1. Inv /\ [Next]_vars => Inv'
  <2> SUFFICES ASSUME Inv, [Next]_vars PROVE Inv'
    OBVIOUS
  <2>1. CASE Next
    BY <2>1, Stepped
  <2>2. CASE UNCHANGED vars
    BY <2>2 DEF Inv, vars
  <2> QED BY <2>1, <2>2
<1>2. Inv /\ [Next]_vars => [Restores]_vars
  BY RestoredBy
<1> QED BY <1>1, <1>2, Started, PTL DEF Spec, ContextRestored, Restores

-----------------------------------------------------------------------------
(* What the programs without a loop or a call compute, whatever interrupts *)
(* them.  The machine as the program has it: its own registers, flags and  *)
(* instruction, those that wait below the handlers if there are any.       *)
Own ==
  IF Len(contexts) = 0 THEN [gpr |-> gpr, flags |-> flags, eip |-> eip]
  ELSE [gpr |-> contexts[1].gpr, flags |-> contexts[1].flags,
        eip |-> contexts[1].eip]

(* No system call waits for its result.                                    *)
Uncalled == Len(contexts) > 0 => ~contexts[1].call

(* A step of the program itself, or one the program does not notice.       *)
LEMMA OwnSteps ==
  ASSUME Inv, Uncalled, Next
  PROVE  /\ job' = job
         /\ \/ Own' = Own /\ mem' = mem /\ fpu' = fpu /\ Uncalled'
            \/ /\ Len(contexts) = 0 /\ contexts' = contexts /\ Guest(job, gpr, eip, stack)
               /\ IntegerInst \/ StackInst \/ FloatInst
            \/ Op = "int" /\ Len(contexts) = 0 /\ Guest(job, gpr, eip, stack)
<1> DEFINE n == Len(contexts)
<1>1. /\ job \in Jobs /\ Nested(job, contexts)
      /\ Running(job, contexts, gpr, eip, stack)
  BY DEF Inv
<1>2. n \in Nat /\ IsSeq(contexts)
  BY <1>1 DEF Nested, IsSeq
<1>3. /\ n = 0 <=> eip.code = "guest"
      /\ n = 0 => Guest(job, gpr, eip, stack)
  <2>1. n = 0 => Guest(job, gpr, eip, stack)
    BY <1>1 DEF Running
  <2>2. n > 0 => eip.code \in {"irq", "vecsys"}
    BY <1>1 DEF Running, Frame
  <2> QED BY <1>2, <2>1, <2>2 DEF Guest
<1>4. CASE DoIntr
  <2> DEFINE c == [gpr |-> gpr, flags |-> flags, eip |-> eip, stack |-> stack,
                   call |-> "irq" = "vecsys"]
  <2>1. /\ contexts' = Append(contexts, c) /\ mem' = mem /\ fpu' = fpu
        /\ job' = job
    BY <1>4 DEF DoIntr, RaiseIntr
  <2>2. c.gpr = gpr /\ c.flags = flags /\ c.eip = eip /\ ~c.call
    OBVIOUS
  <2> HIDE DEF c
  <2>3. /\ Len(contexts') = n + 1 /\ contexts'[n + 1] = c
        /\ \A i \in 1 .. n : contexts'[i] = contexts[i]
    BY <1>2, <2>1, Appended
  <2> HIDE DEF n
  <2>4. CASE n = 0
    <3>1. contexts'[1] = c /\ Len(contexts') # 0
      BY <2>3, <2>4
    <3>2. Own' = [gpr |-> gpr, flags |-> flags, eip |-> eip] /\ Uncalled'
      BY <2>2, <3>1 DEF Own, Uncalled
    <3>3. Own = [gpr |-> gpr, flags |-> flags, eip |-> eip]
      BY <2>4 DEF Own, n
    <3> QED BY <2>1, <3>2, <3>3
  <2>5. CASE n > 0
    <3>1. contexts'[1] = contexts[1] /\ Len(contexts') # 0 /\ Len(contexts) # 0
      BY <1>2, <2>3, <2>5 DEF n
    <3>2. Own' = Own /\ Uncalled'
      BY <2>5, <3>1 DEF Own, Uncalled, n
    <3> QED BY <2>1, <3>2
  <2> QED BY <1>2, <2>4, <2>5
<1>5. CASE ExecInst /\ eip.code = "guest"
  <2>1. job' = job /\ (IntegerInst \/ StackInst \/ FloatInst \/ IntInst)
    BY <1>5 DEF ExecInst
  <2>2. IntInst => Op = "int"
    BY DEF IntInst
  <2>3. IntegerInst \/ StackInst \/ FloatInst => contexts' = contexts
    BY <1>1, <1>3, <1>5, GuestSteps
  <2> QED BY <1>3, <1>5, <2>1, <2>2, <2>3
<1>6. CASE ExecInst /\ eip.code # "guest"
  <2>1. job' = job /\ EntryInst
    BY <1>6 DEF ExecInst
  <2>2. mem' = mem /\ fpu' = fpu
    BY <2>1 DEF EntryInst, Push, Pusha, IrqHandle, Drop, Popa, Iret
  <2>3. CASE contexts' = contexts
    <3>1. n > 0
      BY <1>2, <1>3, <1>6
    <3>2. Own' = Own /\ Uncalled'
      BY <1>2, <2>3, <3>1 DEF Own, Uncalled
    <3> QED BY <2>1, <2>2, <3>2
  <2>4. CASE Iret
    <3> DEFINE c == contexts[n]
    <3>1. /\ n > 0 /\ gpr' = After(c) /\ flags' = c.flags
          /\ eip' = c.eip /\ contexts' = Front(contexts)
      BY <1>6, <2>4, Returned
    <3>2. /\ Len(contexts') = n - 1
          /\ \A i \in 1 .. n - 1 : contexts'[i] = contexts[i]
      BY <1>2, <3>1, Shortened
    <3> HIDE DEF c, n
    <3>3. CASE n = 1
      <4>1. c = contexts[1] /\ gpr' = c.gpr
        BY <3>1, <3>3 DEF c, After, Uncalled, n
      <4>2. Own = [gpr |-> c.gpr, flags |-> c.flags, eip |-> c.eip]
        BY <3>3, <4>1 DEF Own, n
      <4>3. Len(contexts') = 0
        BY <3>2, <3>3
      <4>4. Own' = [gpr |-> gpr', flags |-> flags', eip |-> eip'] /\ Uncalled'
        BY <4>3 DEF Own, Uncalled
      <4> QED BY <2>1, <2>2, <3>1, <4>1, <4>2, <4>4
    <3>4. CASE n > 1
      <4>1. contexts'[1] = contexts[1] /\ Len(contexts') # 0 /\ n # 0
        BY <1>2, <3>2, <3>4 DEF n
      <4>2. Own' = Own /\ Uncalled'
        BY <3>4, <4>1 DEF Own, Uncalled, n
      <4> QED BY <2>1, <2>2, <4>2
    <3>5. n = 1 \/ n > 1
      BY <1>2, <3>1
    <3> QED BY <3>3, <3>4, <3>5
  <2>5. contexts' = contexts \/ Iret
    BY <2>1 DEF EntryInst, Push, Pusha, IrqHandle, Drop, Popa
  <2> QED BY <2>3, <2>4, <2>5
<1> QED BY <1>4, <1>5, <1>6 DEF Next

-----------------------------------------------------------------------------
(* What an instruction does, by its name.                                  *)
LEMMA InstOf ==
  ASSUME IntegerInst \/ StackInst \/ FloatInst
  PROVE  /\ Op = "mov" => Mov
         /\ Op \in {"movz", "movs"} => MovExtend
         /\ Op \in {"add", "adc", "sub", "sbb"} => AddSub
         /\ Op \in {"cmpl", "cmpb"} => Cmp
         /\ Op = "neg" => Neg
         /\ Op = "imul" => Imul
         /\ Op = "mul" => Mul
         /\ Op = "set" => Setcc
         /\ Op = "cmov" => Cmovcc
         /\ Op = "j" => Jcc
         /\ Op = "push" => Push
         /\ Op = "pop" => Pop
         /\ Op = "flds" => Flds
         /\ Op = "fxch" => Fxch
         /\ Op = "fucomip" => Fucomip
         /\ Op = "fstps" => Fstps
<1> HIDE DEF Op
<1>1. ASSUME Op \in IntegerOps PROVE IntegerInst
  BY <1>1, OpsOf DEF IntegerOps, FloatOps
<1>2. ASSUME Op \in FloatOps PROVE FloatInst
  BY <1>2, OpsOf DEF IntegerOps, FloatOps
<1>3. ASSUME Op \in {"push", "pop"} PROVE StackInst
  BY <1>3, OpsOf DEF IntegerOps, FloatOps
<1>4. ASSUME IntegerInst
      PROVE  /\ Op = "mov" => Mov
             /\ Op \in {"movz", "movs"} => MovExtend
             /\ Op \in {"add", "adc", "sub", "sbb"} => AddSub
             /\ Op \in {"cmpl", "cmpb"} => Cmp
             /\ Op = "neg" => Neg
             /\ Op = "imul" => Imul
             /\ Op = "mul" => Mul
             /\ Op = "set" => Setcc
             /\ Op = "cmov" => Cmovcc
             /\ Op = "j" => Jcc
  <2> DEFINE One == \/ Mov \/ MovExtend \/ AddSub \/ Cmp \/ Neg \/ Imul \/ Mul
                    \/ IncDec \/ Logic \/ Test \/ Not \/ Shift \/ Cltd \/ Div
                    \/ Setcc \/ Cmovcc \/ Jcc
  <2>1. /\ Mov => Op = "mov"
        /\ MovExtend => Op \in {"movz", "movs"}
        /\ AddSub => Op \in {"add", "adc", "sub", "sbb"}
        /\ Cmp => Op \in {"cmpl", "cmpb"}
    BY DEF Mov, MovExtend, AddSub, Cmp
  <2>2. /\ Neg => Op = "neg"
        /\ Imul => Op = "imul"
        /\ Mul => Op = "mul"
        /\ IncDec => Op \in {"inc", "dec"}
        /\ Logic => Op \in {"and", "or", "xor"}
    BY DEF Neg, Imul, Mul, IncDec, Logic
  <2>3. /\ Test => Op = "test"
        /\ Not => Op = "not"
        /\ Shift => Op \in {"shl", "shr", "sar"}
        /\ Cltd => Op = "cltd"
        /\ Div => Op \in {"div", "idiv"}
    BY DEF Test, Not, Shift, Cltd, Div
  <2>4. /\ Setcc => Op = "set"
        /\ Cmovcc => Op = "cmov"
        /\ Jcc => Op = "j"
    BY DEF Setcc, Cmovcc, Jcc
  <2>5. One
    BY <1>4 DEF IntegerInst
  <2> QED BY <2>1, <2>2, <2>3, <2>4, <2>5
<1>5. ASSUME StackInst
      PROVE  (Op = "push" => Push) /\ (Op = "pop" => Pop)
  BY <1>5 DEF StackInst, Jmp, Push, Pop, Drop, Call, Ret, Leave
<1>6. ASSUME FloatInst
      PROVE  /\ Op = "flds" => Flds
             /\ Op = "fxch" => Fxch
             /\ Op = "fucomip" => Fucomip
             /\ Op = "fstps" => Fstps
  BY <1>6 DEF FloatInst, Flds, FloatOp, Fstps, Fxch, Fucomip
<1> QED BY <1>1, <1>2, <1>3, <1>4, <1>5, <1>6 DEF IntegerOps, FloatOps

(* The program's variables and nothing else.                               *)
IsMem(m) == m = [x \in Variables |-> m[x]]

(* v is stored in y, and nothing anywhere else.                            *)
Stores(y, v) ==
  IF y \in Regs
  THEN /\ mem' = mem /\ gpr'[y] = v
       /\ \A z \in Regs : z # y => gpr'[z] = gpr[z]
  ELSE /\ gpr' = gpr /\ mem'[y] = v
       /\ \A z \in Variables : z # y => mem'[z] = mem[z]

LEMMA PutStores ==
  ASSUME IsFile(gpr), IsMem(mem), NEW y \in Regs \cup Variables, NEW v, Put(y, v)
  PROVE  Stores(y, v) /\ IsMem(mem')
<1>1. CASE y \in Regs
  BY <1>1 DEF Put, Stores, IsFile, IsMem
<1>2. CASE y \notin Regs
  BY <1>2 DEF Put, Stores, IsFile, IsMem
<1> QED BY <1>1, <1>2

(* An operand is a register, a variable or an immediate.                   *)
LEMMA Operands ==
  /\ \A x \in Regs : ValueOf(x) = gpr[x]
  /\ \A x \in Variables : ValueOf(x) = mem[x]
  /\ ValueOf("$0") = 0 /\ ValueOf("$1") = 1
<1>1. ASSUME NEW x \in Regs PROVE ValueOf(x) = gpr[x]
  <2>1. /\ x # "esp" /\ x \notin DOMAIN Immediates /\ x \notin DOMAIN OnStack
        /\ x \notin Variables
    BY DEF Regs, Immediates, OnStack, Variables
  <2> QED BY <2>1 DEF ValueOf
<1>2. ASSUME NEW x \in Variables PROVE ValueOf(x) = mem[x]
  <2>1. /\ x # "esp" /\ x \notin DOMAIN Immediates /\ x \notin DOMAIN OnStack
        /\ x \notin Regs
    BY DEF Regs, Immediates, OnStack, Variables
  <2> QED BY <2>1 DEF ValueOf
<1>3. ASSUME NEW x \in {"$0", "$1"} PROVE ValueOf(x) = IF x = "$0" THEN 0 ELSE 1
  <2>1. /\ x # "esp" /\ x \in DOMAIN Immediates /\ x \notin DOMAIN OnStack
        /\ x \notin Variables /\ x \notin Regs
    BY DEF Regs, Immediates, OnStack, Variables
  <2>2. ValueOf(x) = Immediates[x]
    BY <2>1 DEF ValueOf
  <2>3. Immediates[x] = IF x = "$0" THEN 0 ELSE 1
    BY DEF Immediates
  <2> QED BY <2>2, <2>3
<1> QED BY <1>1, <1>2, <1>3

(* What a step of the program leaves, by its instruction.                  *)
Doing ==
  /\ eip.at \in Nat /\ IsFile(gpr) /\ IsMem(mem)
  /\ IntegerInst \/ StackInst \/ FloatInst

Places == Regs \cup Variables

Forward == eip'.at = eip.at + 1

LEMMA Forwards == Doing /\ Advance => Forward
<1>1. ASSUME Doing, Advance PROVE Forward
  <2>1. eip' = [code |-> eip.code, at |-> eip.at + 1 + 0] /\ eip.at \in Nat
    BY <1>1 DEF Doing, Advance, From
  <2> QED BY <2>1 DEF Forward
<1> QED BY <1>1

LEMMA Moves ==
  ASSUME Doing, Op \in {"mov", "movz", "movs"}, Instruction[3] \in Places
  PROVE  /\ Forward /\ flags' = flags /\ fpu' = fpu /\ IsMem(mem')
         /\ Op = "mov" => Stores(Instruction[3], ValueOf(Instruction[2]))
         /\ Op = "movz" => Stores(Instruction[3], ValueOf(Instruction[2]) % (2 * ByteHalf))
         /\ Op = "movs" => Stores(Instruction[3],
                                  sign_ext(ValueOf(Instruction[2]) % (2 * ByteHalf)))
<1> HIDE DEF Op, Instruction
<1>1. CASE Op = "mov"
  <2>1. Mov
    BY <1>1, InstOf DEF Doing
  <2>2. Put(Instruction[3], ValueOf(Instruction[2])) /\ Advance /\ flags' = flags /\ fpu' = fpu
    BY <2>1 DEF Mov
  <2> QED BY <1>1, <2>2, PutStores, Forwards DEF Doing, Places
<1>2. CASE Op \in {"movz", "movs"}
  <2> DEFINE byte == ValueOf(Instruction[2]) % (2 * ByteHalf)
  <2>1. MovExtend
    BY <1>2, InstOf DEF Doing
  <2>2. /\ Put(Instruction[3], IF Op = "movz" THEN byte ELSE sign_ext(byte))
        /\ Advance /\ flags' = flags /\ fpu' = fpu
    BY <2>1 DEF MovExtend
  <2> HIDE DEF byte
  <2>3. /\ Stores(Instruction[3], IF Op = "movz" THEN byte ELSE sign_ext(byte))
        /\ IsMem(mem')
    BY <2>2, PutStores DEF Doing, Places
  <2> QED BY <1>2, <2>2, <2>3, Forwards DEF byte
<1> QED BY <1>1, <1>2

LEMMA Adds ==
  ASSUME Doing, Op \in {"add", "adc", "sub", "sbb"}, Instruction[3] \in Places
  PROVE  LET src == ValueOf(Instruction[2])
             dest == ValueOf(Instruction[3])
             res == CASE Op = "add" -> alu_add(src, dest, flags)
                      [] Op = "adc" -> alu_adc(src, dest, flags)
                      [] Op = "sub" -> alu_sub(src, dest, flags)
                      [] Op = "sbb" -> alu_sbb(src, dest, flags)
         IN  /\ Stores(Instruction[3], res.val) /\ flags' = res.flags
             /\ Forward /\ fpu' = fpu /\ IsMem(mem')
<1> DEFINE src == ValueOf(Instruction[2])
           dest == ValueOf(Instruction[3])
           res == CASE Op = "add" -> alu_add(src, dest, flags)
                    [] Op = "adc" -> alu_adc(src, dest, flags)
                    [] Op = "sub" -> alu_sub(src, dest, flags)
                    [] Op = "sbb" -> alu_sbb(src, dest, flags)
<1> HIDE DEF Op, Instruction
<1>1. AddSub
  BY InstOf DEF Doing
<1>2. Put(Instruction[3], res.val) /\ flags' = res.flags /\ Advance /\ fpu' = fpu
  BY <1>1 DEF AddSub
<1> HIDE DEF res
<1>3. Stores(Instruction[3], res.val) /\ IsMem(mem')
  BY <1>2, PutStores DEF Doing, Places
<1> QED BY <1>2, <1>3, Forwards DEF res

LEMMA Compares ==
  ASSUME Doing, Op \in {"cmpl", "cmpb"}
  PROVE  LET Read(x) == IF Op = "cmpl" THEN ValueOf(x)
                        ELSE sign_ext(ValueOf(x) % (2 * ByteHalf))
         IN  /\ flags' = alu_sub(Read(Instruction[2]), Read(Instruction[3]), flags).flags
             /\ gpr' = gpr /\ mem' = mem /\ fpu' = fpu /\ Forward
<1> HIDE DEF Op, Instruction
<1>1. Cmp
  BY InstOf DEF Doing
<1> QED BY <1>1, Forwards DEF Cmp

LEMMA Negates ==
  ASSUME Doing, Op = "neg", Instruction[2] \in Places
  PROVE  /\ Stores(Instruction[2], neg(ValueOf(Instruction[2]), flags).val)
         /\ flags' = neg(ValueOf(Instruction[2]), flags).flags
         /\ Forward /\ fpu' = fpu /\ IsMem(mem')
<1> HIDE DEF Op, Instruction
<1>1. Neg
  BY InstOf DEF Doing
<1>2. /\ Put(Instruction[2], neg(ValueOf(Instruction[2]), flags).val)
      /\ flags' = neg(ValueOf(Instruction[2]), flags).flags /\ Advance /\ fpu' = fpu
  BY <1>1 DEF Neg
<1> QED BY <1>2, PutStores, Forwards DEF Doing, Places

LEMMA Multiplies ==
  /\ Doing /\ Op = "imul" /\ Instruction[3] \in Places =>
       LET res == alu_imul(ValueOf(Instruction[2]), ValueOf(Instruction[3]), flags)
       IN  /\ Stores(Instruction[3], res.val) /\ flags' = res.flags
           /\ Forward /\ fpu' = fpu /\ IsMem(mem')
  /\ Doing /\ Op = "mul" =>
       LET res == alu_mul(ValueOf(Instruction[2]), gpr["eax"], flags)
       IN  /\ gpr'["eax"] = res.low /\ gpr'["edx"] = res.high
           /\ \A z \in Regs \ {"eax", "edx"} : gpr'[z] = gpr[z]
           /\ mem' = mem /\ Forward /\ fpu' = fpu
<1> HIDE DEF Op, Instruction
<1>1. ASSUME Doing, Op = "imul", Instruction[3] \in Places
      PROVE  LET res == alu_imul(ValueOf(Instruction[2]), ValueOf(Instruction[3]), flags)
             IN  /\ Stores(Instruction[3], res.val) /\ flags' = res.flags
                 /\ Forward /\ fpu' = fpu /\ IsMem(mem')
  <2> DEFINE res == alu_imul(ValueOf(Instruction[2]), ValueOf(Instruction[3]), flags)
  <2>1. Imul
    BY <1>1, InstOf DEF Doing
  <2>2. Put(Instruction[3], res.val) /\ flags' = res.flags /\ Advance /\ fpu' = fpu
    BY <2>1 DEF Imul
  <2> HIDE DEF res
  <2>3. Stores(Instruction[3], res.val) /\ IsMem(mem')
    BY <1>1, <2>2, PutStores DEF Doing, Places
  <2> QED BY <1>1, <2>2, <2>3, Forwards DEF res
<1>2. ASSUME Doing, Op = "mul"
      PROVE  LET res == alu_mul(ValueOf(Instruction[2]), gpr["eax"], flags)
             IN  /\ gpr'["eax"] = res.low /\ gpr'["edx"] = res.high
                 /\ \A z \in Regs \ {"eax", "edx"} : gpr'[z] = gpr[z]
                 /\ mem' = mem /\ Forward /\ fpu' = fpu
  <2> DEFINE res == alu_mul(ValueOf(Instruction[2]), gpr["eax"], flags)
  <2>1. Mul
    BY <1>2, InstOf DEF Doing
  <2>2. /\ gpr' = [gpr EXCEPT !["eax"] = res.low, !["edx"] = res.high]
        /\ mem' = mem /\ Advance /\ fpu' = fpu
    BY <2>1 DEF Mul
  <2> HIDE DEF res
  <2>3. IsFile(gpr)
    BY <1>2 DEF Doing
  <2>4. /\ gpr'["eax"] = res.low /\ gpr'["edx"] = res.high
        /\ \A z \in Regs \ {"eax", "edx"} : gpr'[z] = gpr[z]
    BY <2>2, <2>3 DEF IsFile, Regs
  <2> QED BY <1>2, <2>2, <2>4, Forwards DEF res
<1> QED BY <1>1, <1>2

(* set, cmov and the conditional jump.                                     *)
LEMMA Decides ==
  /\ Doing /\ Op = "set" /\ Instruction[3] \in Places =>
       /\ Stores(Instruction[3], B(Condition(Instruction[2], flags)))
       /\ Forward /\ flags' = flags /\ fpu' = fpu /\ IsMem(mem')
  /\ Doing /\ Op = "cmov" /\ Instruction[4] \in Places =>
       /\ IF Condition(Instruction[2], flags)
          THEN Stores(Instruction[4], ValueOf(Instruction[3]))
          ELSE gpr' = gpr /\ mem' = mem
       /\ Forward /\ flags' = flags /\ fpu' = fpu /\ IsMem(mem')
  /\ Doing /\ Op = "j" =>
       /\ eip'.at = eip.at + 1
                    + IF Condition(Instruction[2], flags) THEN Instruction[3] ELSE 0
       /\ gpr' = gpr /\ mem' = mem /\ flags' = flags /\ fpu' = fpu
<1> HIDE DEF Op, Instruction, Condition
<1>1. ASSUME Doing, Op = "set", Instruction[3] \in Places
      PROVE  /\ Stores(Instruction[3], B(Condition(Instruction[2], flags)))
             /\ Forward /\ flags' = flags /\ fpu' = fpu /\ IsMem(mem')
  <2>1. Setcc
    BY <1>1, InstOf DEF Doing
  <2>2. /\ Put(Instruction[3], B(Condition(Instruction[2], flags)))
        /\ Advance /\ flags' = flags /\ fpu' = fpu
    BY <2>1 DEF Setcc
  <2> QED BY <1>1, <2>2, PutStores, Forwards DEF Doing, Places
<1>2. ASSUME Doing, Op = "cmov", Instruction[4] \in Places
      PROVE  /\ IF Condition(Instruction[2], flags)
                THEN Stores(Instruction[4], ValueOf(Instruction[3]))
                ELSE gpr' = gpr /\ mem' = mem
             /\ Forward /\ flags' = flags /\ fpu' = fpu /\ IsMem(mem')
  <2>1. Cmovcc
    BY <1>2, InstOf DEF Doing
  <2>2. /\ IF Condition(Instruction[2], flags)
           THEN Put(Instruction[4], ValueOf(Instruction[3]))
           ELSE gpr' = gpr /\ mem' = mem
        /\ Advance /\ flags' = flags /\ fpu' = fpu
    BY <2>1 DEF Cmovcc
  <2>3. /\ IF Condition(Instruction[2], flags)
           THEN Stores(Instruction[4], ValueOf(Instruction[3]))
           ELSE gpr' = gpr /\ mem' = mem
        /\ IsMem(mem')
    BY <1>2, <2>2, PutStores DEF Doing, Places
  <2> QED BY <1>2, <2>2, <2>3, Forwards
<1>3. ASSUME Doing, Op = "j"
      PROVE  /\ eip'.at = eip.at + 1
                          + IF Condition(Instruction[2], flags) THEN Instruction[3] ELSE 0
             /\ gpr' = gpr /\ mem' = mem /\ flags' = flags /\ fpu' = fpu
  <2>1. Jcc
    BY <1>3, InstOf DEF Doing
  <2>2. /\ eip' = From(IF Condition(Instruction[2], flags) THEN Instruction[3] ELSE 0)
        /\ gpr' = gpr /\ mem' = mem /\ flags' = flags /\ fpu' = fpu
    BY <2>1 DEF Jcc
  <2> QED BY <2>2 DEF From
<1> QED BY <1>1, <1>2, <1>3

LEMMA Stacks ==
  /\ Doing /\ Op = "push" =>
       gpr' = gpr /\ mem' = mem /\ flags' = flags /\ fpu' = fpu /\ Forward
  /\ Doing /\ Op = "pop" /\ Instruction[2] \in Regs =>
       /\ \A z \in Regs : z # Instruction[2] => gpr'[z] = gpr[z]
       /\ mem' = mem /\ flags' = flags /\ fpu' = fpu /\ Forward
<1> HIDE DEF Op, Instruction
<1>1. ASSUME Doing, Op = "push"
      PROVE  gpr' = gpr /\ mem' = mem /\ flags' = flags /\ fpu' = fpu /\ Forward
  <2>1. Push
    BY <1>1, InstOf DEF Doing
  <2> QED BY <1>1, <2>1, Forwards DEF Push
<1>2. ASSUME Doing, Op = "pop", Instruction[2] \in Regs
      PROVE  /\ \A z \in Regs : z # Instruction[2] => gpr'[z] = gpr[z]
             /\ mem' = mem /\ flags' = flags /\ fpu' = fpu /\ Forward
  <2>1. Pop
    BY <1>2, InstOf DEF Doing
  <2>2. Put(Instruction[2], Last(stack)) /\ Advance /\ flags' = flags /\ fpu' = fpu
    BY <2>1 DEF Pop
  <2>3. Stores(Instruction[2], Last(stack))
    BY <1>2, <2>2, PutStores DEF Doing
  <2> QED BY <1>2, <2>2, <2>3, Forwards DEF Stores
<1> QED BY <1>1, <1>2

(* The programs followed here: no loop, no routine and no system call.     *)
Straight == {"sum", "difference", "negation", "product", "set", "move", "branch",
             "float_compare"}

(* The flags a program starts with.                                        *)
Start == [CF |-> 0, PF |-> 0, ZF |-> 0, SF |-> 0, OF |-> 0, IF_ |-> 1]

(* No program overwrites its inputs.                                       *)
Inputs(j, m) == \A x \in DOMAIN j.in : m[x] = j.in[x]

LEMMA InputsKept ==
  ASSUME job \in Jobs, Inputs(job, mem), NEW y \in Regs \cup {"r", "R", "c"},
         NEW v, Stores(y, v)
  PROVE  Inputs(job, mem')
<1>1. DOMAIN job.in \subseteq {"a", "A", "b", "B"}
  BY InputsAssumption
<1>2. CASE y \in Regs
  BY <1>2 DEF Stores, Inputs
<1>3. CASE y \notin Regs
  <2>1. \A x \in {"a", "A", "b", "B"} : mem'[x] = mem[x]
    BY <1>3 DEF Stores, Variables
  <2> QED BY <1>1, <2>1 DEF Inputs
<1> QED BY <1>2, <1>3

-----------------------------------------------------------------------------
(* A sum or difference: the low halves first, and with the flags that      *)
(* leaves the high ones.                                                   *)
Low(j) == IF j.program = "sum" THEN alu_add(j.in["b"], j.in["a"], Start)
          ELSE alu_sub(j.in["b"], j.in["a"], Start)
High(j) == IF j.program = "sum" THEN alu_adc(j.in["B"], j.in["A"], Low(j).flags)
           ELSE alu_sbb(j.in["B"], j.in["A"], Low(j).flags)

WideAt(j, g, f, at, m) ==
  /\ at \in 1 .. 2 => f = Start
  /\ at \in 3 .. 5 => f = Low(j).flags
  /\ at \in 6 .. 7 => f = High(j).flags
  /\ at = 2 => g["eax"] = j.in["a"]
  /\ at = 3 => g["eax"] = Low(j).val
  /\ at \in 4 .. 8 => m["r"] = Low(j).val
  /\ at = 5 => g["edx"] = j.in["A"]
  /\ at = 6 => g["edx"] = High(j).val
  /\ at \in 7 .. 8 => m["R"] = High(j).val
  /\ at = 8 => m["c"] = B(Condition("c", High(j).flags))

LEMMA WideCode ==
  ASSUME NEW j, j.program \in {"sum", "difference"}
  PROVE  LET p == Program(j)
         IN  /\ IsSeq(p) /\ Len(p) = 7
             /\ p[1] = <<"mov", "a", "eax">>
             /\ p[2] = <<IF j.program = "sum" THEN "add" ELSE "sub", "b", "eax">>
             /\ p[3] = <<"mov", "eax", "r">>
             /\ p[4] = <<"mov", "A", "edx">>
             /\ p[5] = <<IF j.program = "sum" THEN "adc" ELSE "sbb", "B", "edx">>
             /\ p[6] = <<"mov", "edx", "R">>
             /\ p[7] = <<"set", "c", "c">>
<1> DEFINE x == IF j.program = "sum" THEN "add" ELSE "sub"
           y == IF j.program = "sum" THEN "adc" ELSE "sbb"
<1>1. Program(j) = Wide(x, y)
  BY DEF Program
<1> HIDE DEF x, y
<1>2. /\ IsSeq(Wide(x, y)) /\ Len(Wide(x, y)) = 7
      /\ Wide(x, y)[1] = <<"mov", "a", "eax">>
      /\ Wide(x, y)[2] = <<x, "b", "eax">>
      /\ Wide(x, y)[3] = <<"mov", "eax", "r">>
      /\ Wide(x, y)[4] = <<"mov", "A", "edx">>
      /\ Wide(x, y)[5] = <<y, "B", "edx">>
      /\ Wide(x, y)[6] = <<"mov", "edx", "R">>
      /\ Wide(x, y)[7] = <<"set", "c", "c">>
  BY DEF Wide, IsSeq
<1> QED BY <1>1, <1>2 DEF x, y

LEMMA WideSteps ==
  ASSUME job \in Jobs, job.program \in {"sum", "difference"}, Doing,
         Inputs(job, mem), eip.at \in 1 .. 7, Instruction = Program(job)[eip.at],
         WideAt(job, gpr, flags, eip.at, mem)
  PROVE  /\ WideAt(job, gpr', flags', eip'.at, mem')
         /\ Inputs(job, mem') /\ IsMem(mem')
<1>1. /\ mem["a"] = job.in["a"] /\ mem["A"] = job.in["A"]
      /\ mem["b"] = job.in["b"] /\ mem["B"] = job.in["B"]
  BY InputsAssumption DEF Inputs
<1>2. /\ ValueOf("a") = mem["a"] /\ ValueOf("A") = mem["A"]
      /\ ValueOf("b") = mem["b"] /\ ValueOf("B") = mem["B"]
      /\ ValueOf("eax") = gpr["eax"] /\ ValueOf("edx") = gpr["edx"]
  BY Operands DEF Regs, Variables
<1>3. {"eax", "edx"} \subseteq Regs /\ {"eax", "edx", "r", "R", "c"} \subseteq Places
  BY DEF Regs, Places, Variables
<1> DEFINE L == Low(job)
           H == High(job)
<1>4. /\ eip.at \in 1 .. 2 => flags = Start
      /\ eip.at \in 3 .. 5 => flags = L.flags
      /\ eip.at \in 6 .. 7 => flags = H.flags
      /\ eip.at = 2 => gpr["eax"] = job.in["a"]
      /\ eip.at = 3 => gpr["eax"] = L.val
      /\ eip.at \in 4 .. 8 => mem["r"] = L.val
      /\ eip.at = 5 => gpr["edx"] = job.in["A"]
      /\ eip.at = 6 => gpr["edx"] = H.val
      /\ eip.at \in 7 .. 8 => mem["R"] = H.val
  BY DEF WideAt
<1>5. ASSUME NEW v, Forward, \/ Stores("eax", v) \/ Stores("edx", v) \/ Stores("r", v)
                             \/ Stores("R", v) \/ Stores("c", v)
      PROVE  Inputs(job, mem')
  BY <1>5, InputsKept DEF Regs
<1> HIDE DEF Condition, L, H
<1>6. CASE eip.at = 1
  <2>1. Instruction = <<"mov", "a", "eax">>
    BY <1>6, WideCode
  <2>2. /\ Stores("eax", job.in["a"]) /\ flags' = flags /\ Forward /\ IsMem(mem')
    BY <1>1, <1>2, <1>3, <2>1, Moves DEF Op
  <2>3. eip'.at = 2 /\ gpr'["eax"] = job.in["a"] /\ flags' = Start
    BY <1>3, <1>4, <1>6, <2>2 DEF Forward, Stores
  <2> QED BY <1>5, <2>2, <2>3 DEF WideAt
<1>7. CASE eip.at = 2
  <2>1. Instruction = <<IF job.program = "sum" THEN "add" ELSE "sub", "b", "eax">>
    BY <1>7, WideCode
  <2>2. /\ Stores("eax", L.val) /\ flags' = L.flags /\ Forward /\ IsMem(mem')
    BY <1>1, <1>2, <1>3, <1>4, <1>7, <2>1, Adds DEF Op, L, Low
  <2>3. eip'.at = 3 /\ gpr'["eax"] = L.val
    BY <1>3, <1>7, <2>2 DEF Forward, Stores
  <2> QED BY <1>5, <2>2, <2>3 DEF WideAt, L
<1>8. CASE eip.at = 3
  <2>1. Instruction = <<"mov", "eax", "r">>
    BY <1>8, WideCode
  <2>2. /\ Stores("r", L.val) /\ flags' = flags /\ Forward /\ IsMem(mem')
    BY <1>2, <1>3, <1>4, <1>8, <2>1, Moves DEF Op
  <2>3. eip'.at = 4 /\ mem'["r"] = L.val /\ flags' = L.flags
    BY <1>4, <1>8, <2>2 DEF Forward, Stores, Regs
  <2> QED BY <1>5, <2>2, <2>3 DEF WideAt, L
<1>9. CASE eip.at = 4
  <2>1. Instruction = <<"mov", "A", "edx">>
    BY <1>9, WideCode
  <2>2. /\ Stores("edx", job.in["A"]) /\ flags' = flags /\ Forward /\ IsMem(mem')
    BY <1>1, <1>2, <1>3, <2>1, Moves DEF Op
  <2>3. /\ eip'.at = 5 /\ gpr'["edx"] = job.in["A"] /\ flags' = L.flags
        /\ mem'["r"] = L.val
    BY <1>3, <1>4, <1>9, <2>2 DEF Forward, Stores
  <2> QED BY <1>5, <2>2, <2>3 DEF WideAt, L
<1>10. CASE eip.at = 5
  <2>1. Instruction = <<IF job.program = "sum" THEN "adc" ELSE "sbb", "B", "edx">>
    BY <1>10, WideCode
  <2>2. /\ Stores("edx", H.val) /\ flags' = H.flags /\ Forward /\ IsMem(mem')
    BY <1>1, <1>2, <1>3, <1>4, <1>10, <2>1, Adds DEF Op, L, H, High
  <2>3. eip'.at = 6 /\ gpr'["edx"] = H.val /\ mem'["r"] = L.val
    BY <1>3, <1>4, <1>10, <2>2 DEF Forward, Stores
  <2> QED BY <1>5, <2>2, <2>3 DEF WideAt, L, H
<1>11. CASE eip.at = 6
  <2>1. Instruction = <<"mov", "edx", "R">>
    BY <1>11, WideCode
  <2>2. /\ Stores("R", H.val) /\ flags' = flags /\ Forward /\ IsMem(mem')
    BY <1>2, <1>3, <1>4, <1>11, <2>1, Moves DEF Op
  <2>3. /\ eip'.at = 7 /\ mem'["R"] = H.val /\ flags' = H.flags
        /\ mem'["r"] = L.val
    BY <1>4, <1>11, <2>2 DEF Forward, Stores, Regs, Variables
  <2> QED BY <1>5, <2>2, <2>3 DEF WideAt, L, H
<1>12. CASE eip.at = 7
  <2>1. Instruction = <<"set", "c", "c">>
    BY <1>12, WideCode
  <2>2. /\ Stores("c", B(Condition("c", H.flags))) /\ Forward /\ IsMem(mem')
    BY <1>3, <1>4, <1>12, <2>1, Decides DEF Op
  <2>3. /\ eip'.at = 8 /\ mem'["c"] = B(Condition("c", H.flags))
        /\ mem'["r"] = L.val /\ mem'["R"] = H.val
    BY <1>4, <1>12, <2>2 DEF Forward, Stores, Regs, Variables
  <2> QED BY <1>5, <2>2, <2>3 DEF WideAt, L, H
<1> QED BY <1>6, <1>7, <1>8, <1>9, <1>10, <1>11, <1>12

-----------------------------------------------------------------------------
(* A negation: what neg leaves in CF is added to the high half, and that   *)
(* is negated.                                                             *)
NegLow(j) == neg(j.in["a"], Start)
Carried(j) == alu_adc(0, j.in["A"], NegLow(j).flags)
NegHigh(j) == neg(Carried(j).val, Carried(j).flags).val

NegationAt(j, g, f, at, m) ==
  /\ at \in 1 .. 2 => f = Start
  /\ at \in 3 .. 4 => f = NegLow(j).flags
  /\ at = 5 => f = Carried(j).flags
  /\ at = 2 => g["eax"] = j.in["a"]
  /\ at \in 3 .. 6 => g["eax"] = NegLow(j).val
  /\ at = 4 => g["edx"] = j.in["A"]
  /\ at = 5 => g["edx"] = Carried(j).val
  /\ at \in 6 .. 7 => g["edx"] = NegHigh(j)
  /\ at \in 7 .. 8 => m["r"] = NegLow(j).val
  /\ at = 8 => m["R"] = NegHigh(j)

LEMMA NegationCode ==
  ASSUME NEW j, j.program = "negation"
  PROVE  LET p == Program(j)
         IN  /\ IsSeq(p) /\ Len(p) = 7
             /\ p[1] = <<"mov", "a", "eax">>
             /\ p[2] = <<"neg", "eax">>
             /\ p[3] = <<"mov", "A", "edx">>
             /\ p[4] = <<"adc", "$0", "edx">>
             /\ p[5] = <<"neg", "edx">>
             /\ p[6] = <<"mov", "eax", "r">>
             /\ p[7] = <<"mov", "edx", "R">>
<1> DEFINE p == << <<"mov", "a", "eax">>, <<"neg", "eax">>, <<"mov", "A", "edx">>,
                   <<"adc", "$0", "edx">>, <<"neg", "edx">>, <<"mov", "eax", "r">>,
                   <<"mov", "edx", "R">> >>
<1>1. Program(j) = p
  BY DEF Program
<1>2. /\ IsSeq(p) /\ Len(p) = 7
      /\ p[1] = <<"mov", "a", "eax">>
      /\ p[2] = <<"neg", "eax">>
      /\ p[3] = <<"mov", "A", "edx">>
      /\ p[4] = <<"adc", "$0", "edx">>
      /\ p[5] = <<"neg", "edx">>
      /\ p[6] = <<"mov", "eax", "r">>
      /\ p[7] = <<"mov", "edx", "R">>
  BY DEF IsSeq
<1> HIDE DEF p
<1> QED BY <1>1, <1>2

LEMMA NegationSteps ==
  ASSUME job \in Jobs, job.program = "negation", Doing,
         Inputs(job, mem), eip.at \in 1 .. 7, Instruction = Program(job)[eip.at],
         NegationAt(job, gpr, flags, eip.at, mem)
  PROVE  /\ NegationAt(job, gpr', flags', eip'.at, mem')
         /\ Inputs(job, mem') /\ IsMem(mem')
<1>1. mem["a"] = job.in["a"] /\ mem["A"] = job.in["A"]
  BY InputsAssumption DEF Inputs
<1>2. /\ ValueOf("a") = mem["a"] /\ ValueOf("A") = mem["A"] /\ ValueOf("$0") = 0
      /\ ValueOf("eax") = gpr["eax"] /\ ValueOf("edx") = gpr["edx"]
  BY Operands DEF Regs, Variables
<1>3. {"eax", "edx"} \subseteq Regs /\ {"eax", "edx", "r", "R"} \subseteq Places
  BY DEF Regs, Places, Variables
<1> DEFINE L == NegLow(job)
           C == Carried(job)
           H == NegHigh(job)
<1>4. /\ eip.at \in 1 .. 2 => flags = Start
      /\ eip.at \in 3 .. 4 => flags = L.flags
      /\ eip.at = 5 => flags = C.flags
      /\ eip.at = 2 => gpr["eax"] = job.in["a"]
      /\ eip.at \in 3 .. 6 => gpr["eax"] = L.val
      /\ eip.at = 4 => gpr["edx"] = job.in["A"]
      /\ eip.at = 5 => gpr["edx"] = C.val
      /\ eip.at \in 6 .. 7 => gpr["edx"] = H
      /\ eip.at \in 7 .. 8 => mem["r"] = L.val
  BY DEF NegationAt
<1>5. ASSUME NEW v, \/ Stores("eax", v) \/ Stores("edx", v) \/ Stores("r", v)
                    \/ Stores("R", v)
      PROVE  Inputs(job, mem')
  BY <1>5, InputsKept DEF Regs
<1> HIDE DEF L, C, H
<1>6. CASE eip.at = 1
  <2>1. Instruction = <<"mov", "a", "eax">>
    BY <1>6, NegationCode
  <2>2. Stores("eax", job.in["a"]) /\ flags' = flags /\ Forward /\ IsMem(mem')
    BY <1>1, <1>2, <1>3, <2>1, Moves DEF Op
  <2>3. eip'.at = 2 /\ gpr'["eax"] = job.in["a"] /\ flags' = Start
    BY <1>3, <1>4, <1>6, <2>2 DEF Forward, Stores
  <2> QED BY <1>5, <2>2, <2>3 DEF NegationAt
<1>7. CASE eip.at = 2
  <2>1. Instruction = <<"neg", "eax">>
    BY <1>7, NegationCode
  <2>2. Stores("eax", L.val) /\ flags' = L.flags /\ Forward /\ IsMem(mem')
    BY <1>2, <1>3, <1>4, <1>7, <2>1, Negates DEF Op, L, NegLow
  <2>3. eip'.at = 3 /\ gpr'["eax"] = L.val
    BY <1>3, <1>7, <2>2 DEF Forward, Stores
  <2> QED BY <1>5, <2>2, <2>3 DEF NegationAt, L
<1>8. CASE eip.at = 3
  <2>1. Instruction = <<"mov", "A", "edx">>
    BY <1>8, NegationCode
  <2>2. Stores("edx", job.in["A"]) /\ flags' = flags /\ Forward /\ IsMem(mem')
    BY <1>1, <1>2, <1>3, <2>1, Moves DEF Op
  <2>3. /\ eip'.at = 4 /\ gpr'["edx"] = job.in["A"] /\ flags' = L.flags
        /\ gpr'["eax"] = L.val
    BY <1>3, <1>4, <1>8, <2>2 DEF Forward, Stores
  <2> QED BY <1>5, <2>2, <2>3 DEF NegationAt, L
<1>9. CASE eip.at = 4
  <2>1. Instruction = <<"adc", "$0", "edx">>
    BY <1>9, NegationCode
  <2>2. Stores("edx", C.val) /\ flags' = C.flags /\ Forward /\ IsMem(mem')
    BY <1>2, <1>3, <1>4, <1>9, <2>1, Adds DEF Op, L, C, Carried
  <2>3. eip'.at = 5 /\ gpr'["edx"] = C.val /\ gpr'["eax"] = L.val
    BY <1>3, <1>4, <1>9, <2>2 DEF Forward, Stores
  <2> QED BY <1>5, <2>2, <2>3 DEF NegationAt, L, C
<1>10. CASE eip.at = 5
  <2>1. Instruction = <<"neg", "edx">>
    BY <1>10, NegationCode
  <2>2. Stores("edx", H) /\ Forward /\ IsMem(mem')
    BY <1>2, <1>3, <1>4, <1>10, <2>1, Negates DEF Op, C, H, NegHigh
  <2>3. eip'.at = 6 /\ gpr'["edx"] = H /\ gpr'["eax"] = L.val
    BY <1>3, <1>4, <1>10, <2>2 DEF Forward, Stores
  <2> QED BY <1>5, <2>2, <2>3 DEF NegationAt, L, H
<1>11. CASE eip.at = 6
  <2>1. Instruction = <<"mov", "eax", "r">>
    BY <1>11, NegationCode
  <2>2. Stores("r", L.val) /\ Forward /\ IsMem(mem')
    BY <1>2, <1>3, <1>4, <1>11, <2>1, Moves DEF Op
  <2>3. eip'.at = 7 /\ mem'["r"] = L.val /\ gpr'["edx"] = H
    BY <1>4, <1>11, <2>2 DEF Forward, Stores, Regs
  <2> QED BY <1>5, <2>2, <2>3 DEF NegationAt, L, H
<1>12. CASE eip.at = 7
  <2>1. Instruction = <<"mov", "edx", "R">>
    BY <1>12, NegationCode
  <2>2. Stores("R", H) /\ Forward /\ IsMem(mem')
    BY <1>2, <1>3, <1>4, <1>12, <2>1, Moves DEF Op
  <2>3. eip'.at = 8 /\ mem'["R"] = H /\ mem'["r"] = L.val
    BY <1>4, <1>12, <2>2 DEF Forward, Stores, Regs, Variables
  <2> QED BY <1>5, <2>2, <2>3 DEF NegationAt, L, H
<1> QED BY <1>6, <1>7, <1>8, <1>9, <1>10, <1>11, <1>12

-----------------------------------------------------------------------------
(* A product: twice the low half of a product of a low and a high half,    *)
(* and on top of that the high half of the product of the low ones.        *)
Cross(x, y) == (Signed(x) * Signed(y)) % (2 * LongHalf)
Crossed(j) == Wrap(Cross(j.in["b"], j.in["A"]) + Cross(j.in["a"], j.in["B"]))
ProductLow(j) == (j.in["b"] * j.in["a"]) % (2 * LongHalf)
Carry(j) == (j.in["b"] * j.in["a"]) \div (2 * LongHalf)
ProductHigh(j) == Wrap(Carry(j) + Crossed(j))

ProductAt(j, g, at, m) ==
  /\ at = 3 => g["ecx"] = j.in["A"]
  /\ at \in 4 .. 6 => g["ecx"] = Cross(j.in["b"], j.in["A"])
  /\ at = 5 => g["ebx"] = j.in["B"]
  /\ at = 6 => g["ebx"] = Cross(j.in["a"], j.in["B"])
  /\ at \in 7 .. 9 => g["ecx"] = Crossed(j)
  /\ at = 8 => g["eax"] = j.in["a"]
  /\ at \in 9 .. 10 => g["eax"] = ProductLow(j)
  /\ at = 9 => g["edx"] = Carry(j)
  /\ at \in 10 .. 11 => g["edx"] = ProductHigh(j)
  /\ at \in 11 .. 13 => m["r"] = ProductLow(j)
  /\ at \in 12 .. 13 => m["R"] = ProductHigh(j)

LEMMA ProductCode ==
  ASSUME NEW j, j.program = "product"
  PROVE  LET p == Program(j)
         IN  /\ IsSeq(p) /\ Len(p) = 12
             /\ p[1] = <<"push", "ebx">>
             /\ p[2] = <<"mov", "A", "ecx">>
             /\ p[3] = <<"imul", "b", "ecx">>
             /\ p[4] = <<"mov", "B", "ebx">>
             /\ p[5] = <<"imul", "a", "ebx">>
             /\ p[6] = <<"add", "ebx", "ecx">>
             /\ p[7] = <<"mov", "a", "eax">>
             /\ p[8] = <<"mul", "b">>
             /\ p[9] = <<"add", "ecx", "edx">>
             /\ p[10] = <<"mov", "eax", "r">>
             /\ p[11] = <<"mov", "edx", "R">>
             /\ p[12] = <<"pop", "ebx">>
<1> DEFINE p == << <<"push", "ebx">>, <<"mov", "A", "ecx">>, <<"imul", "b", "ecx">>,
            <<"mov", "B", "ebx">>, <<"imul", "a", "ebx">>, <<"add", "ebx", "ecx">>,
            <<"mov", "a", "eax">>, <<"mul", "b">>, <<"add", "ecx", "edx">>,
            <<"mov", "eax", "r">>, <<"mov", "edx", "R">>, <<"pop", "ebx">> >>
<1>1. Program(j) = p
  BY DEF Program
<1>2. /\ IsSeq(p) /\ Len(p) = 12
      /\ p[1] = <<"push", "ebx">>
      /\ p[2] = <<"mov", "A", "ecx">>
      /\ p[3] = <<"imul", "b", "ecx">>
      /\ p[4] = <<"mov", "B", "ebx">>
      /\ p[5] = <<"imul", "a", "ebx">>
      /\ p[6] = <<"add", "ebx", "ecx">>
      /\ p[7] = <<"mov", "a", "eax">>
      /\ p[8] = <<"mul", "b">>
      /\ p[9] = <<"add", "ecx", "edx">>
      /\ p[10] = <<"mov", "eax", "r">>
      /\ p[11] = <<"mov", "edx", "R">>
      /\ p[12] = <<"pop", "ebx">>
  BY DEF IsSeq
<1> HIDE DEF p
<1> QED BY <1>1, <1>2

LEMMA ProductComputes ==
  ASSUME job \in Jobs, job.program = "product", Doing,
         Inputs(job, mem), eip.at \in 1 .. 12, Instruction = Program(job)[eip.at],
         ProductAt(job, gpr, eip.at, mem)
  PROVE  /\ ProductAt(job, gpr', eip'.at, mem')
         /\ Inputs(job, mem') /\ IsMem(mem')
<1>1. /\ mem["a"] = job.in["a"] /\ mem["A"] = job.in["A"]
      /\ mem["b"] = job.in["b"] /\ mem["B"] = job.in["B"]
  BY InputsAssumption DEF Inputs
<1>2. /\ ValueOf("a") = mem["a"] /\ ValueOf("A") = mem["A"]
      /\ ValueOf("b") = mem["b"] /\ ValueOf("B") = mem["B"]
      /\ ValueOf("eax") = gpr["eax"] /\ ValueOf("edx") = gpr["edx"]
      /\ ValueOf("ecx") = gpr["ecx"] /\ ValueOf("ebx") = gpr["ebx"]
  BY Operands DEF Regs, Variables
<1>3. /\ {"eax", "edx", "ecx", "ebx"} \subseteq Regs
      /\ {"eax", "edx", "ecx", "ebx", "r", "R"} \subseteq Places
  BY DEF Regs, Places, Variables
<1> DEFINE X == Cross(job.in["b"], job.in["A"])
           Y == Cross(job.in["a"], job.in["B"])
           Z == Crossed(job)
           L == ProductLow(job)
           C == Carry(job)
           H == ProductHigh(job)
<1>4. /\ eip.at = 3 => gpr["ecx"] = job.in["A"]
      /\ eip.at \in 4 .. 6 => gpr["ecx"] = X
      /\ eip.at = 5 => gpr["ebx"] = job.in["B"]
      /\ eip.at = 6 => gpr["ebx"] = Y
      /\ eip.at \in 7 .. 9 => gpr["ecx"] = Z
      /\ eip.at = 8 => gpr["eax"] = job.in["a"]
      /\ eip.at \in 9 .. 10 => gpr["eax"] = L
      /\ eip.at = 9 => gpr["edx"] = C
      /\ eip.at \in 10 .. 11 => gpr["edx"] = H
      /\ eip.at \in 11 .. 13 => mem["r"] = L
      /\ eip.at \in 12 .. 13 => mem["R"] = H
  BY DEF ProductAt
<1>5. ASSUME NEW v, \/ Stores("eax", v) \/ Stores("edx", v) \/ Stores("ecx", v)
                    \/ Stores("ebx", v) \/ Stores("r", v) \/ Stores("R", v)
      PROVE  Inputs(job, mem')
  BY <1>5, InputsKept DEF Regs
<1>a. IsMem(mem)
  BY DEF Doing
<1>b. \A src, dest, f : alu_add(src, dest, f).val = Wrap(dest + src)
  BY DEF alu_add, Result
<1>c. \A src, dest, f : alu_imul(src, dest, f).val = Cross(src, dest)
  BY DEF alu_imul, Cross
<1>d. \A src, dest, f : /\ alu_mul(src, dest, f).low = (src * dest) % (2 * LongHalf)
                        /\ alu_mul(src, dest, f).high = (src * dest) \div (2 * LongHalf)
  BY DEF alu_mul
<1>e. Z = Wrap(X + Y) /\ H = Wrap(C + Z)
  BY DEF Crossed, ProductHigh
<1>f. /\ L = (job.in["b"] * job.in["a"]) % (2 * LongHalf)
      /\ C = (job.in["b"] * job.in["a"]) \div (2 * LongHalf)
  BY DEF ProductLow, Carry
<1> HIDE DEF X, Y, Z, L, C, H, alu_add, alu_imul, alu_mul
<1>6. CASE eip.at = 1
  <2>1. Instruction = <<"push", "ebx">>
    BY <1>6, ProductCode
  <2>2. mem' = mem /\ Forward
    BY <2>1, Stacks DEF Op
  <2>3. eip'.at = 2
    BY <1>6, <2>2 DEF Forward
  <2> QED BY <1>a, <2>2, <2>3 DEF ProductAt, Inputs
<1>7. CASE eip.at = 2
  <2>1. Instruction = <<"mov", "A", "ecx">>
    BY <1>7, ProductCode
  <2>2. Stores("ecx", job.in["A"]) /\ Forward /\ IsMem(mem')
    BY <1>1, <1>2, <1>3, <2>1, Moves DEF Op
  <2>3. eip'.at = 3 /\ gpr'["ecx"] = job.in["A"]
    BY <1>3, <1>7, <2>2 DEF Forward, Stores
  <2> QED BY <1>5, <2>2, <2>3 DEF ProductAt
<1>8. CASE eip.at = 3
  <2>1. Instruction = <<"imul", "b", "ecx">>
    BY <1>8, ProductCode
  <2>2. Stores("ecx", X) /\ Forward /\ IsMem(mem')
    <3>1. /\ Stores("ecx", alu_imul(job.in["b"], job.in["A"], flags).val)
          /\ Forward /\ IsMem(mem')
      BY <1>1, <1>2, <1>3, <1>4, <1>8, <2>1, Multiplies DEF Op
    <3> QED BY <1>c, <3>1 DEF X
  <2>3. eip'.at = 4 /\ gpr'["ecx"] = X
    BY <1>3, <1>8, <2>2 DEF Forward, Stores
  <2> QED BY <1>5, <2>2, <2>3 DEF ProductAt, X
<1>9. CASE eip.at = 4
  <2>1. Instruction = <<"mov", "B", "ebx">>
    BY <1>9, ProductCode
  <2>2. Stores("ebx", job.in["B"]) /\ Forward /\ IsMem(mem')
    BY <1>1, <1>2, <1>3, <2>1, Moves DEF Op
  <2>3. eip'.at = 5 /\ gpr'["ebx"] = job.in["B"] /\ gpr'["ecx"] = X
    BY <1>3, <1>4, <1>9, <2>2 DEF Forward, Stores
  <2> QED BY <1>5, <2>2, <2>3 DEF ProductAt, X
<1>10. CASE eip.at = 5
  <2>1. Instruction = <<"imul", "a", "ebx">>
    BY <1>10, ProductCode
  <2>2. Stores("ebx", Y) /\ Forward /\ IsMem(mem')
    <3>1. /\ Stores("ebx", alu_imul(job.in["a"], job.in["B"], flags).val)
          /\ Forward /\ IsMem(mem')
      BY <1>1, <1>2, <1>3, <1>4, <1>10, <2>1, Multiplies DEF Op
    <3> QED BY <1>c, <3>1 DEF Y
  <2>3. eip'.at = 6 /\ gpr'["ebx"] = Y /\ gpr'["ecx"] = X
    BY <1>3, <1>4, <1>10, <2>2 DEF Forward, Stores
  <2> QED BY <1>5, <2>2, <2>3 DEF ProductAt, X, Y
<1>11. CASE eip.at = 6
  <2>1. Instruction = <<"add", "ebx", "ecx">>
    BY <1>11, ProductCode
  <2>2. Stores("ecx", Z) /\ Forward /\ IsMem(mem')
    <3>1. Stores("ecx", alu_add(Y, X, flags).val) /\ Forward /\ IsMem(mem')
      BY <1>2, <1>3, <1>4, <1>11, <2>1, Adds DEF Op
    <3> QED BY <1>b, <1>e, <3>1
  <2>3. eip'.at = 7 /\ gpr'["ecx"] = Z
    BY <1>3, <1>11, <2>2 DEF Forward, Stores
  <2> QED BY <1>5, <2>2, <2>3 DEF ProductAt, Z
<1>12. CASE eip.at = 7
  <2>1. Instruction = <<"mov", "a", "eax">>
    BY <1>12, ProductCode
  <2>2. Stores("eax", job.in["a"]) /\ Forward /\ IsMem(mem')
    BY <1>1, <1>2, <1>3, <2>1, Moves DEF Op
  <2>3. eip'.at = 8 /\ gpr'["eax"] = job.in["a"] /\ gpr'["ecx"] = Z
    BY <1>3, <1>4, <1>12, <2>2 DEF Forward, Stores
  <2> QED BY <1>5, <2>2, <2>3 DEF ProductAt, Z
<1>13. CASE eip.at = 8
  <2>1. Instruction = <<"mul", "b">>
    BY <1>13, ProductCode
  <2>2. /\ gpr'["eax"] = L /\ gpr'["edx"] = C /\ gpr'["ecx"] = gpr["ecx"]
        /\ mem' = mem /\ Forward
    <3>1. /\ gpr'["eax"] = alu_mul(job.in["b"], job.in["a"], flags).low
          /\ gpr'["edx"] = alu_mul(job.in["b"], job.in["a"], flags).high
          /\ gpr'["ecx"] = gpr["ecx"] /\ mem' = mem /\ Forward
      BY <1>1, <1>2, <1>3, <1>4, <1>13, <2>1, Multiplies DEF Op
    <3> QED BY <1>d, <1>f, <3>1
  <2>3. eip'.at = 9 /\ gpr'["ecx"] = Z
    BY <1>4, <1>13, <2>2 DEF Forward
  <2> QED BY <1>a, <2>2, <2>3 DEF ProductAt, Inputs, Z, L, C
<1>14. CASE eip.at = 9
  <2>1. Instruction = <<"add", "ecx", "edx">>
    BY <1>14, ProductCode
  <2>2. Stores("edx", H) /\ Forward /\ IsMem(mem')
    <3>1. Stores("edx", alu_add(Z, C, flags).val) /\ Forward /\ IsMem(mem')
      BY <1>2, <1>3, <1>4, <1>14, <2>1, Adds DEF Op
    <3> QED BY <1>b, <1>e, <3>1
  <2>3. eip'.at = 10 /\ gpr'["edx"] = H /\ gpr'["eax"] = L
    BY <1>3, <1>4, <1>14, <2>2 DEF Forward, Stores
  <2> QED BY <1>5, <2>2, <2>3 DEF ProductAt, H, L
<1>15. CASE eip.at = 10
  <2>1. Instruction = <<"mov", "eax", "r">>
    BY <1>15, ProductCode
  <2>2. Stores("r", L) /\ Forward /\ IsMem(mem')
    BY <1>2, <1>3, <1>4, <1>15, <2>1, Moves DEF Op
  <2>3. eip'.at = 11 /\ mem'["r"] = L /\ gpr'["edx"] = H
    BY <1>4, <1>15, <2>2 DEF Forward, Stores, Regs
  <2> QED BY <1>5, <2>2, <2>3 DEF ProductAt, H, L
<1>16. CASE eip.at = 11
  <2>1. Instruction = <<"mov", "edx", "R">>
    BY <1>16, ProductCode
  <2>2. Stores("R", H) /\ Forward /\ IsMem(mem')
    BY <1>2, <1>3, <1>4, <1>16, <2>1, Moves DEF Op
  <2>3. eip'.at = 12 /\ mem'["R"] = H /\ mem'["r"] = L
    BY <1>4, <1>16, <2>2 DEF Forward, Stores, Regs, Variables
  <2> QED BY <1>5, <2>2, <2>3 DEF ProductAt, H, L
<1>17. CASE eip.at = 12
  <2>1. Instruction = <<"pop", "ebx">>
    BY <1>17, ProductCode
  <2>2. mem' = mem /\ Forward
    BY <1>3, <2>1, Stacks DEF Op
  <2>3. eip'.at = 13 /\ mem'["R"] = H /\ mem'["r"] = L
    BY <1>4, <1>17, <2>2 DEF Forward
  <2> QED BY <1>a, <2>2, <2>3 DEF ProductAt, Inputs, H, L
<1> QED BY <1>6, <1>7, <1>8, <1>9, <1>10, <1>11, <1>12, <1>13, <1>14, <1>15,
           <1>16, <1>17

-----------------------------------------------------------------------------
(* A comparison: the flags it leaves are those of the subtraction of its   *)
(* operands, as its instructions extend them.                              *)
Extended(cmp, x) ==
  CASE cmp = "cmpl" -> x
    [] cmp = "movz" -> x % (2 * ByteHalf)
    [] cmp \in {"cmpb", "movs"} -> sign_ext(x % (2 * ByteHalf))

Compared(j) ==
  alu_sub(Extended(j.cmp, j.in["b"]), Extended(j.cmp, j.in["a"]), Start).flags

(* What a set, a move or a jump is to make of it.                          *)
Decision(j) == B(Condition(j.cc, Compared(j)))

(* How many instructions it takes.                                         *)
Takes(cmp) == IF cmp \in {"movz", "movs"} THEN 3 ELSE 2

Cmps == {"cmpl", "cmpb", "movz", "movs"}

ComparedAt(j, g, f, k) ==
  /\ k \in 1 .. Takes(j.cmp) => f = Start
  /\ k = Takes(j.cmp) + 1 => f = Compared(j)
  /\ j.cmp \in {"movz", "movs"} =>
       /\ k \in 2 .. 3 => g["eax"] = Extended(j.cmp, j.in["a"])
       /\ k = 3 => g["edx"] = Extended(j.cmp, j.in["b"])
  /\ j.cmp \in {"cmpl", "cmpb"} => (k = 2 => g["eax"] = j.in["a"])

LEMMA CompareCode ==
  ASSUME NEW cmp \in Cmps
  PROVE  /\ IsSeq(Compare(cmp)) /\ Len(Compare(cmp)) = Takes(cmp)
         /\ cmp \in {"movz", "movs"} => /\ Compare(cmp)[1] = <<cmp, "a", "eax">>
                                        /\ Compare(cmp)[2] = <<cmp, "b", "edx">>
                                        /\ Compare(cmp)[3] = <<"cmpl", "edx", "eax">>
         /\ cmp \in {"cmpl", "cmpb"} => /\ Compare(cmp)[1] = <<"mov", "a", "eax">>
                                        /\ Compare(cmp)[2] = <<cmp, "b", "eax">>
<1>1. CASE cmp \in {"movz", "movs"}
  <2> DEFINE p == << <<cmp, "a", "eax">>, <<cmp, "b", "edx">>, <<"cmpl", "edx", "eax">> >>
  <2>1. Compare(cmp) = p
    BY <1>1 DEF Compare
  <2>2. /\ IsSeq(p) /\ Len(p) = 3 /\ p[1] = <<cmp, "a", "eax">>
        /\ p[2] = <<cmp, "b", "edx">> /\ p[3] = <<"cmpl", "edx", "eax">>
    BY DEF IsSeq
  <2>3. cmp \notin {"cmpl", "cmpb"} /\ Takes(cmp) = 3
    BY <1>1 DEF Takes
  <2> HIDE DEF p
  <2> QED BY <2>1, <2>2, <2>3
<1>2. CASE cmp \in {"cmpl", "cmpb"}
  <2> DEFINE p == << <<"mov", "a", "eax">>, <<cmp, "b", "eax">> >>
  <2>1. Compare(cmp) = p
    BY <1>2 DEF Compare
  <2>2. /\ IsSeq(p) /\ Len(p) = 2 /\ p[1] = <<"mov", "a", "eax">>
        /\ p[2] = <<cmp, "b", "eax">>
    BY DEF IsSeq
  <2>3. cmp \notin {"movz", "movs"} /\ Takes(cmp) = 2
    BY <1>2 DEF Takes
  <2> HIDE DEF p
  <2> QED BY <2>1, <2>2, <2>3
<1> QED BY <1>1, <1>2 DEF Cmps

LEMMA ComparedSteps ==
  ASSUME job \in Jobs, job.program \in {"set", "move", "branch"}, Doing,
         Inputs(job, mem), NEW k \in 1 .. Takes(job.cmp),
         Instruction = Compare(job.cmp)[k], ComparedAt(job, gpr, flags, k)
  PROVE  ComparedAt(job, gpr', flags', k + 1) /\ mem' = mem /\ Forward
<1>1. mem["a"] = job.in["a"] /\ mem["b"] = job.in["b"] /\ job.cmp \in Cmps
  BY InputsAssumption, JobsAssumption DEF Inputs, Cmps
<1>2. /\ ValueOf("a") = mem["a"] /\ ValueOf("b") = mem["b"]
      /\ ValueOf("eax") = gpr["eax"] /\ ValueOf("edx") = gpr["edx"]
  BY Operands DEF Regs, Variables
<1>3. {"eax", "edx"} \subseteq Regs /\ {"eax", "edx"} \subseteq Places
  BY DEF Regs, Places
<1> DEFINE c == job.cmp
           a == job.in["a"]
           b == job.in["b"]
<1>4. /\ k \in 1 .. Takes(c) => flags = Start
      /\ c \in {"movz", "movs"} =>
           /\ k \in 2 .. 3 => gpr["eax"] = Extended(c, a)
           /\ k = 3 => gpr["edx"] = Extended(c, b)
      /\ c \in {"cmpl", "cmpb"} => (k = 2 => gpr["eax"] = a)
  BY DEF ComparedAt
<1> HIDE DEF c, a, b
<1>5. CASE c \in {"movz", "movs"}
  <2>1. /\ Compare(c)[1] = <<c, "a", "eax">>
        /\ Compare(c)[2] = <<c, "b", "edx">>
        /\ Compare(c)[3] = <<"cmpl", "edx", "eax">>
    BY <1>1, <1>5, CompareCode DEF c
  <2>2. Takes(c) = 3 /\ c \notin {"cmpl", "cmpb"} /\ flags = Start
    BY <1>4, <1>5 DEF Takes, c
  <2>3. \A x : Extended(c, x) = IF c = "movz" THEN x % (2 * ByteHalf)
                                ELSE sign_ext(x % (2 * ByteHalf))
    BY <1>5 DEF Extended
  <2>4. CASE k = 1
    <3>1. Instruction = <<c, "a", "eax">>
      BY <2>1, <2>4 DEF c
    <3>2. Op = c /\ Instruction[2] = "a" /\ Instruction[3] = "eax"
      BY <3>1 DEF Op
    <3>3. Stores("eax", Extended(c, a)) /\ flags' = flags /\ Forward
      <4> HIDE DEF Op, Instruction
      <4> QED BY <1>1, <1>2, <1>3, <1>5, <2>3, <3>2, Moves DEF a
    <3>4. gpr'["eax"] = Extended(c, a) /\ mem' = mem /\ k + 1 = 2
      BY <1>3, <2>4, <3>3 DEF Stores
    <3> QED BY <2>2, <3>3, <3>4 DEF ComparedAt, c, a
  <2>5. CASE k = 2
    <3>1. Instruction = <<c, "b", "edx">>
      BY <2>1, <2>5 DEF c
    <3>2. Op = c /\ Instruction[2] = "b" /\ Instruction[3] = "edx"
      BY <3>1 DEF Op
    <3>3. Stores("edx", Extended(c, b)) /\ flags' = flags /\ Forward
      <4> HIDE DEF Op, Instruction
      <4> QED BY <1>1, <1>2, <1>3, <1>5, <2>3, <3>2, Moves DEF b
    <3>4. /\ gpr'["eax"] = Extended(c, a) /\ gpr'["edx"] = Extended(c, b)
          /\ mem' = mem /\ k + 1 = 3
      BY <1>3, <1>4, <1>5, <2>5, <3>3 DEF Stores
    <3> QED BY <2>2, <3>3, <3>4 DEF ComparedAt, c, a, b
  <2>6. CASE k = 3
    <3>1. Instruction = <<"cmpl", "edx", "eax">>
      BY <2>1, <2>6 DEF c
    <3>2. Op = "cmpl" /\ Instruction[2] = "edx" /\ Instruction[3] = "eax"
      BY <3>1 DEF Op
    <3>3. /\ flags' = alu_sub(Extended(c, b), Extended(c, a), Start).flags
          /\ mem' = mem /\ Forward
      <4>1. gpr["eax"] = Extended(c, a) /\ gpr["edx"] = Extended(c, b)
        BY <1>4, <1>5, <2>6
      <4>2. /\ flags' = alu_sub(ValueOf("edx"), ValueOf("eax"), flags).flags
            /\ mem' = mem /\ Forward
        <5> HIDE DEF Op, Instruction
        <5> QED BY <3>2, Compares
      <4> QED BY <1>2, <2>2, <4>1, <4>2
    <3>4. k + 1 = 4
      BY <2>6
    <3> QED BY <2>2, <3>3, <3>4 DEF ComparedAt, Compared, c, a, b
  <2>7. k = 1 \/ k = 2 \/ k = 3
    BY <2>2 DEF c
  <2> QED BY <2>4, <2>5, <2>6, <2>7
<1>6. CASE c \in {"cmpl", "cmpb"}
  <2>1. /\ Compare(c)[1] = <<"mov", "a", "eax">>
        /\ Compare(c)[2] = <<c, "b", "eax">>
    BY <1>1, <1>6, CompareCode DEF c
  <2>2. Takes(c) = 2 /\ c \notin {"movz", "movs"} /\ flags = Start
    BY <1>4, <1>6 DEF Takes, c
  <2>3. \A x : Extended(c, x) = IF c = "cmpl" THEN x
                                ELSE sign_ext(x % (2 * ByteHalf))
    BY <1>6 DEF Extended
  <2>4. CASE k = 1
    <3>1. Instruction = <<"mov", "a", "eax">>
      BY <2>1, <2>4 DEF c
    <3>2. Stores("eax", a) /\ flags' = flags /\ Forward
      BY <1>1, <1>2, <1>3, <3>1, Moves DEF Op, a
    <3>3. gpr'["eax"] = a /\ mem' = mem /\ k + 1 = 2
      BY <1>3, <2>4, <3>2 DEF Stores
    <3> QED BY <2>2, <3>2, <3>3 DEF ComparedAt, c, a
  <2>5. CASE k = 2
    <3>1. Instruction = <<c, "b", "eax">>
      BY <2>1, <2>5 DEF c
    <3>2. Op = c /\ Instruction[2] = "b" /\ Instruction[3] = "eax"
      BY <3>1 DEF Op
    <3>3. /\ flags' = alu_sub(Extended(c, b), Extended(c, a), Start).flags
          /\ mem' = mem /\ Forward
      <4>1. gpr["eax"] = a /\ mem["b"] = b
        BY <1>1, <1>4, <1>6, <2>5 DEF b
      <4>2. /\ flags' = alu_sub(Extended(c, ValueOf("b")), Extended(c, ValueOf("eax")),
                                flags).flags
            /\ mem' = mem /\ Forward
        <5> HIDE DEF Op, Instruction
        <5> QED BY <1>6, <2>3, <3>2, Compares
      <4> QED BY <1>2, <2>2, <4>1, <4>2
    <3>4. k + 1 = 3
      BY <2>5
    <3> QED BY <2>2, <3>3, <3>4 DEF ComparedAt, Compared, c, a, b
  <2>6. k = 1 \/ k = 2
    BY <2>2 DEF c
  <2> QED BY <2>4, <2>5, <2>6
<1> QED BY <1>1, <1>5, <1>6 DEF Cmps, c

(* Used as a value, in a conditional move, and through a jump.             *)
SetAt(j, g, f, at, m) ==
  LET n == Takes(j.cmp)
  IN  /\ at \in 1 .. n + 1 => ComparedAt(j, g, f, at)
      /\ at = n + 2 => m["r"] = Decision(j)

MoveAt(j, g, f, at, m) ==
  LET n == Takes(j.cmp)
  IN  /\ at \in 1 .. n + 1 => ComparedAt(j, g, f, at)
      /\ at \in n + 2 .. n + 3 => f = Compared(j) /\ g["ecx"] = 0
      /\ at = n + 3 => g["edx"] = 1
      /\ at = n + 4 => g["ecx"] = Decision(j)
      /\ at = n + 5 => m["r"] = Decision(j)

BranchAt(j, g, f, at, m) ==
  LET n == Takes(j.cmp)
  IN  /\ at = 1 => f = Start
      /\ at \in 2 .. n + 2 => ComparedAt(j, g, f, at - 1)
      /\ at \in 2 .. n + 3 => m["r"] = 1
      /\ at = n + 3 => ~Condition(j.cc, Compared(j))
      /\ at = n + 4 => m["r"] = Decision(j)

LEMMA SetCode ==
  ASSUME NEW j \in Jobs, j.program = "set"
  PROVE  LET p == Program(j)
             n == Takes(j.cmp)
         IN  /\ IsSeq(p) /\ Len(p) = n + 1
             /\ \A i \in 1 .. n : p[i] = Compare(j.cmp)[i]
             /\ p[n + 1] = <<"set", j.cc, "r">>
<1> DEFINE q == << <<"set", j.cc, "r">> >>
<1>1. Program(j) = Compare(j.cmp) \o q
  BY DEF Program
<1>2. IsSeq(Compare(j.cmp)) /\ Len(Compare(j.cmp)) = Takes(j.cmp)
  BY CompareCode, JobsAssumption DEF Cmps
<1>3. IsSeq(q) /\ Len(q) = 1 /\ q[1] = <<"set", j.cc, "r">>
  BY DEF IsSeq
<1> DEFINE c == Compare(j.cmp)
           n == Takes(j.cmp)
<1>4. n \in Nat /\ IsSeq(c) /\ Len(c) = n
  BY <1>2 DEF Takes
<1> HIDE DEF q, c, n
<1>5. /\ IsSeq(c \o q) /\ Len(c \o q) = n + 1
      /\ \A i \in 1 .. n : (c \o q)[i] = c[i]
      /\ \A i \in 1 .. 1 : (c \o q)[n + i] = q[i]
  <2>0. IsSeq(c) /\ IsSeq(q)
    BY <1>3, <1>4
  <2>1. /\ IsSeq(c \o q) /\ Len(c \o q) = Len(c) + Len(q)
        /\ \A i \in 1 .. Len(c) : (c \o q)[i] = c[i]
        /\ \A i \in 1 .. Len(q) : (c \o q)[Len(c) + i] = q[i]
    BY <2>0, Concatenated
  <2> QED BY <2>1, <1>3, <1>4
<1>6. 1 \in 1 .. 1
  OBVIOUS
<1> QED BY <1>1, <1>3, <1>5, <1>6 DEF c, n

LEMMA MoveCode ==
  ASSUME NEW j \in Jobs, j.program = "move"
  PROVE  LET p == Program(j)
             n == Takes(j.cmp)
         IN  /\ IsSeq(p) /\ Len(p) = n + 4
             /\ \A i \in 1 .. n : p[i] = Compare(j.cmp)[i]
             /\ p[n + 1] = <<"mov", "$0", "ecx">>
             /\ p[n + 2] = <<"mov", "$1", "edx">>
             /\ p[n + 3] = <<"cmov", j.cc, "edx", "ecx">>
             /\ p[n + 4] = <<"mov", "ecx", "r">>
<1> DEFINE q == << <<"mov", "$0", "ecx">>, <<"mov", "$1", "edx">>,
                   <<"cmov", j.cc, "edx", "ecx">>, <<"mov", "ecx", "r">> >>
<1>1. Program(j) = Compare(j.cmp) \o q
  BY DEF Program
<1>2. IsSeq(Compare(j.cmp)) /\ Len(Compare(j.cmp)) = Takes(j.cmp)
  BY CompareCode, JobsAssumption DEF Cmps
<1>3. /\ IsSeq(q) /\ Len(q) = 4
      /\ q[1] = <<"mov", "$0", "ecx">> /\ q[2] = <<"mov", "$1", "edx">>
      /\ q[3] = <<"cmov", j.cc, "edx", "ecx">> /\ q[4] = <<"mov", "ecx", "r">>
  BY DEF IsSeq
<1> DEFINE c == Compare(j.cmp)
           n == Takes(j.cmp)
<1>4. n \in Nat /\ IsSeq(c) /\ Len(c) = n
  BY <1>2 DEF Takes
<1> HIDE DEF q, c, n
<1>5. /\ IsSeq(c \o q) /\ Len(c \o q) = n + 4
      /\ \A i \in 1 .. n : (c \o q)[i] = c[i]
      /\ \A i \in 1 .. 4 : (c \o q)[n + i] = q[i]
  <2>0. IsSeq(c) /\ IsSeq(q)
    BY <1>3, <1>4
  <2>1. /\ IsSeq(c \o q) /\ Len(c \o q) = Len(c) + Len(q)
        /\ \A i \in 1 .. Len(c) : (c \o q)[i] = c[i]
        /\ \A i \in 1 .. Len(q) : (c \o q)[Len(c) + i] = q[i]
    BY <2>0, Concatenated
  <2> QED BY <2>1, <1>3, <1>4
<1>6. 1 \in 1 .. 4 /\ 2 \in 1 .. 4 /\ 3 \in 1 .. 4 /\ 4 \in 1 .. 4
  OBVIOUS
<1> QED BY <1>1, <1>3, <1>5, <1>6 DEF c, n

LEMMA BranchCode ==
  ASSUME NEW j \in Jobs, j.program = "branch"
  PROVE  LET p == Program(j)
             n == Takes(j.cmp)
         IN  /\ IsSeq(p) /\ Len(p) = n + 3
             /\ p[1] = <<"mov", "$1", "r">>
             /\ \A i \in 1 .. n : p[i + 1] = Compare(j.cmp)[i]
             /\ p[n + 2] = <<"j", j.cc, 1>>
             /\ p[n + 3] = <<"mov", "$0", "r">>
<1> DEFINE p == << <<"mov", "$1", "r">> >>
           q == << <<"j", j.cc, 1>>, <<"mov", "$0", "r">> >>
           c == Compare(j.cmp)
           n == Takes(j.cmp)
<1>1. Program(j) = (p \o c) \o q
  BY DEF Program
<1>2. IsSeq(c) /\ Len(c) = n
  BY CompareCode, JobsAssumption DEF Cmps
<1>3. IsSeq(p) /\ Len(p) = 1 /\ p[1] = <<"mov", "$1", "r">>
  BY DEF IsSeq
<1>4. /\ IsSeq(q) /\ Len(q) = 2
      /\ q[1] = <<"j", j.cc, 1>> /\ q[2] = <<"mov", "$0", "r">>
  BY DEF IsSeq
<1>5. n \in Nat
  BY DEF Takes
<1> HIDE DEF p, q, c, n
<1>a. 1 \in 1 .. 1 /\ 1 \in 1 .. 2 /\ 2 \in 1 .. 2
  OBVIOUS
<1>6. /\ IsSeq(p \o c) /\ Len(p \o c) = 1 + n
      /\ \A i \in 1 .. 1 : (p \o c)[i] = p[i]
      /\ \A i \in 1 .. n : (p \o c)[1 + i] = c[i]
  <2>0. IsSeq(p) /\ IsSeq(c)
    BY <1>2, <1>3
  <2>1. /\ IsSeq(p \o c) /\ Len(p \o c) = Len(p) + Len(c)
        /\ \A i \in 1 .. Len(p) : (p \o c)[i] = p[i]
        /\ \A i \in 1 .. Len(c) : (p \o c)[Len(p) + i] = c[i]
    BY <2>0, Concatenated
  <2> QED BY <2>1, <1>2, <1>3
<1> DEFINE r == p \o c
<1> HIDE DEF r
<1>7. IsSeq(r) /\ Len(r) = 1 + n /\ r[1] = p[1] /\ \A i \in 1 .. n : r[1 + i] = c[i]
  BY <1>a, <1>6 DEF r
<1>8. /\ IsSeq(r \o q) /\ Len(r \o q) = 1 + n + 2
      /\ \A i \in 1 .. 1 + n : (r \o q)[i] = r[i]
      /\ \A i \in 1 .. 2 : (r \o q)[1 + n + i] = q[i]
  <2>0. IsSeq(r) /\ IsSeq(q)
    BY <1>4, <1>5, <1>7
  <2>1. /\ IsSeq(r \o q) /\ Len(r \o q) = Len(r) + Len(q)
        /\ \A i \in 1 .. Len(r) : (r \o q)[i] = r[i]
        /\ \A i \in 1 .. Len(q) : (r \o q)[Len(r) + i] = q[i]
    BY <2>0, Concatenated
  <2> QED BY <2>1, <1>4, <1>5, <1>7
<1>9. Program(j) = r \o q
  BY <1>1 DEF r
<1>10. \A i \in 1 .. n : i + 1 \in 1 .. 1 + n /\ 1 + i = i + 1
  BY <1>5
<1>11. 1 + n + 1 = n + 2 /\ 1 + n + 2 = n + 3 /\ 1 \in 1 .. 1 + n
  BY <1>5
<1>12. \A i \in 1 .. n : Program(j)[i + 1] = c[i]
  BY <1>7, <1>8, <1>9, <1>10
<1>13. Program(j)[1] = p[1] /\ Program(j)[n + 2] = q[1] /\ Program(j)[n + 3] = q[2]
  <2>1. (r \o q)[1 + n + 1] = q[1] /\ (r \o q)[1 + n + 2] = q[2]
    BY <1>8, <1>a
  <2>2. (r \o q)[1] = p[1]
    BY <1>7, <1>8, <1>11
  <2> QED BY <1>9, <1>11, <2>1, <2>2
<1> QED BY <1>3, <1>4, <1>8, <1>9, <1>11, <1>12, <1>13 DEF c, n

LEMMA SetSteps ==
  ASSUME job \in Jobs, job.program = "set", Doing,
         Inputs(job, mem), eip.at \in 1 .. Takes(job.cmp) + 1,
         Instruction = Program(job)[eip.at], SetAt(job, gpr, flags, eip.at, mem)
  PROVE  /\ SetAt(job, gpr', flags', eip'.at, mem')
         /\ Inputs(job, mem') /\ IsMem(mem')
<1> DEFINE n == Takes(job.cmp)
<1>1. n \in {2, 3}
  BY DEF Takes
<1>2. /\ eip.at \in 1 .. n + 1 => ComparedAt(job, gpr, flags, eip.at)
      /\ IsMem(mem)
  BY DEF SetAt, Doing
<1>3. CASE eip.at \in 1 .. n
  <2>1. Instruction = Compare(job.cmp)[eip.at] /\ ComparedAt(job, gpr, flags, eip.at)
    BY <1>1, <1>2, <1>3, SetCode
  <2>2. ComparedAt(job, gpr', flags', eip.at + 1) /\ mem' = mem /\ Forward
    BY <1>3, <2>1, ComparedSteps
  <2>3. eip'.at = eip.at + 1 /\ eip.at + 1 \in 1 .. n + 1 /\ eip.at + 1 # n + 2
    BY <1>1, <1>3, <2>2 DEF Forward
  <2> QED BY <1>2, <2>2, <2>3 DEF SetAt, Inputs
<1>4. CASE eip.at = n + 1
  <2>1. Instruction = <<"set", job.cc, "r">> /\ flags = Compared(job)
    BY <1>1, <1>2, <1>4, SetCode DEF ComparedAt
  <2>2. "r" \in Places /\ "r" \notin Regs
    BY DEF Places, Variables, Regs
  <2>3. Op = "set" /\ Instruction[2] = job.cc /\ Instruction[3] = "r"
    BY <2>1 DEF Op
  <2>4. Stores("r", Decision(job)) /\ Forward /\ IsMem(mem')
    <3> HIDE DEF Op, Instruction, Condition
    <3> QED BY <2>1, <2>2, <2>3, Decides DEF Decision
  <2>5. Inputs(job, mem') /\ mem'["r"] = Decision(job)
    BY <2>2, <2>4, InputsKept DEF Stores
  <2>6. eip'.at = n + 2 /\ n + 2 \notin 1 .. n + 1
    BY <1>1, <1>4, <2>4 DEF Forward
  <2> QED BY <2>4, <2>5, <2>6 DEF SetAt
<1> QED BY <1>1, <1>3, <1>4

LEMMA MoveSteps ==
  ASSUME job \in Jobs, job.program = "move", Doing,
         Inputs(job, mem), eip.at \in 1 .. Takes(job.cmp) + 4,
         Instruction = Program(job)[eip.at], MoveAt(job, gpr, flags, eip.at, mem)
  PROVE  /\ MoveAt(job, gpr', flags', eip'.at, mem')
         /\ Inputs(job, mem') /\ IsMem(mem')
<1> DEFINE n == Takes(job.cmp)
<1>1. n \in {2, 3}
  BY DEF Takes
<1>2. /\ eip.at \in 1 .. n + 1 => ComparedAt(job, gpr, flags, eip.at)
      /\ eip.at \in n + 2 .. n + 3 => flags = Compared(job) /\ gpr["ecx"] = 0
      /\ eip.at = n + 3 => gpr["edx"] = 1
      /\ eip.at = n + 4 => gpr["ecx"] = Decision(job)
      /\ IsMem(mem)
  BY DEF MoveAt, Doing
<1>3. /\ {"ecx", "edx"} \subseteq Regs /\ {"ecx", "edx", "r"} \subseteq Places
      /\ "r" \notin Regs
  BY DEF Places, Variables, Regs
<1>4. /\ ValueOf("$0") = 0 /\ ValueOf("$1") = 1 /\ ValueOf("edx") = gpr["edx"]
      /\ ValueOf("ecx") = gpr["ecx"]
  BY Operands DEF Regs
<1>5. CASE eip.at \in 1 .. n
  <2>1. Instruction = Compare(job.cmp)[eip.at] /\ ComparedAt(job, gpr, flags, eip.at)
    BY <1>1, <1>2, <1>5, MoveCode
  <2>2. ComparedAt(job, gpr', flags', eip.at + 1) /\ mem' = mem /\ Forward
    BY <1>5, <2>1, ComparedSteps
  <2>3. eip'.at = eip.at + 1 /\ eip.at + 1 \in 1 .. n + 1 /\ eip.at + 1 < n + 2
    BY <1>1, <1>5, <2>2 DEF Forward
  <2>4. /\ eip'.at \in 1 .. n + 1 /\ eip'.at \notin n + 2 .. n + 3 /\ eip'.at # n + 3
        /\ eip'.at # n + 4 /\ eip'.at # n + 5
    BY <1>1, <2>3
  <2> QED BY <1>2, <2>2, <2>3, <2>4 DEF MoveAt, Inputs
<1>6. CASE eip.at = n + 1
  <2>0. eip.at \in 1 .. n + 1 /\ eip.at = Takes(job.cmp) + 1
    BY <1>1, <1>6
  <2>1. Instruction = <<"mov", "$0", "ecx">> /\ flags = Compared(job)
    BY <1>2, <1>6, <2>0, MoveCode DEF ComparedAt
  <2>2. Stores("ecx", 0) /\ flags' = flags /\ Forward /\ IsMem(mem')
    BY <1>3, <1>4, <2>1, Moves DEF Op
  <2>3. gpr'["ecx"] = 0 /\ Inputs(job, mem')
    BY <1>3, <2>2, InputsKept DEF Stores
  <2>4. /\ eip'.at \notin 1 .. n + 1 /\ eip'.at # n + 3 /\ eip'.at # n + 4
        /\ eip'.at # n + 5
    BY <1>1, <1>6, <2>2 DEF Forward
  <2> QED BY <2>1, <2>2, <2>3, <2>4 DEF MoveAt
<1>7. CASE eip.at = n + 2
  <2>1. /\ Instruction = <<"mov", "$1", "edx">> /\ flags = Compared(job)
        /\ gpr["ecx"] = 0
    <3>1. eip.at \in n + 2 .. n + 3
      BY <1>1, <1>7
    <3> QED BY <1>2, <1>7, <3>1, MoveCode
  <2>2. Stores("edx", 1) /\ flags' = flags /\ Forward /\ IsMem(mem')
    BY <1>3, <1>4, <2>1, Moves DEF Op
  <2>3. gpr'["edx"] = 1 /\ gpr'["ecx"] = 0 /\ Inputs(job, mem')
    BY <1>3, <2>1, <2>2, InputsKept DEF Stores
  <2>4. eip'.at \notin 1 .. n + 1 /\ eip'.at # n + 4 /\ eip'.at # n + 5
    BY <1>1, <1>7, <2>2 DEF Forward
  <2> QED BY <2>1, <2>2, <2>3, <2>4 DEF MoveAt
<1>8. CASE eip.at = n + 3
  <2>1. /\ Instruction = <<"cmov", job.cc, "edx", "ecx">> /\ flags = Compared(job)
        /\ gpr["ecx"] = 0 /\ gpr["edx"] = 1
    <3>1. eip.at \in n + 2 .. n + 3
      BY <1>1, <1>8
    <3> QED BY <1>2, <1>8, <3>1, MoveCode
  <2>2. /\ Op = "cmov" /\ Instruction[2] = job.cc /\ Instruction[3] = "edx"
        /\ Instruction[4] = "ecx"
    BY <2>1 DEF Op
  <2>3. /\ IF Condition(job.cc, Compared(job)) THEN Stores("ecx", ValueOf("edx"))
           ELSE gpr' = gpr /\ mem' = mem
        /\ Forward /\ IsMem(mem')
    <3> HIDE DEF Op, Instruction, Condition
    <3> QED BY <1>3, <2>1, <2>2, Decides
  <2>4. gpr'["ecx"] = Decision(job) /\ Inputs(job, mem')
    <3>1. CASE Condition(job.cc, Compared(job))
      <4> HIDE DEF Condition
      <4>1. Stores("ecx", 1) /\ Decision(job) = 1
        BY <1>4, <2>1, <2>3, <3>1 DEF Decision, B
      <4> QED BY <1>3, <4>1, InputsKept DEF Stores
    <3>2. CASE ~Condition(job.cc, Compared(job))
      <4> HIDE DEF Condition
      <4> QED BY <2>1, <2>3, <3>2 DEF Decision, B, Inputs
    <3> QED BY <3>1, <3>2
  <2>5. /\ eip'.at \notin 1 .. n + 1 /\ eip'.at \notin n + 2 .. n + 3
        /\ eip'.at # n + 3 /\ eip'.at # n + 5
    BY <1>1, <1>8, <2>3 DEF Forward
  <2> QED BY <2>3, <2>4, <2>5 DEF MoveAt
<1>9. CASE eip.at = n + 4
  <2>1. Instruction = <<"mov", "ecx", "r">> /\ gpr["ecx"] = Decision(job)
    BY <1>1, <1>2, <1>9, MoveCode
  <2>2. Stores("r", Decision(job)) /\ Forward /\ IsMem(mem')
    BY <1>3, <1>4, <2>1, Moves DEF Op
  <2>3. mem'["r"] = Decision(job) /\ Inputs(job, mem')
    BY <1>3, <2>2, InputsKept DEF Stores
  <2>4. /\ eip'.at \notin 1 .. n + 1 /\ eip'.at \notin n + 2 .. n + 3
        /\ eip'.at # n + 3 /\ eip'.at # n + 4
    BY <1>1, <1>9, <2>2 DEF Forward
  <2> QED BY <2>2, <2>3, <2>4 DEF MoveAt
<1> QED BY <1>1, <1>5, <1>6, <1>7, <1>8, <1>9

LEMMA BranchSteps ==
  ASSUME job \in Jobs, job.program = "branch", Doing,
         Inputs(job, mem), eip.at \in 1 .. Takes(job.cmp) + 3,
         Instruction = Program(job)[eip.at], BranchAt(job, gpr, flags, eip.at, mem)
  PROVE  /\ BranchAt(job, gpr', flags', eip'.at, mem')
         /\ Inputs(job, mem') /\ IsMem(mem')
<1> DEFINE n == Takes(job.cmp)
<1>1. n \in {2, 3}
  BY DEF Takes
<1>2. /\ eip.at = 1 => flags = Start
      /\ eip.at \in 2 .. n + 2 => ComparedAt(job, gpr, flags, eip.at - 1)
      /\ eip.at \in 2 .. n + 3 => mem["r"] = 1
      /\ eip.at = n + 3 => ~Condition(job.cc, Compared(job))
      /\ IsMem(mem)
  BY DEF BranchAt, Doing
<1>3. "r" \in Places /\ "r" \notin Regs
  BY DEF Places, Variables, Regs
<1>4. ValueOf("$0") = 0 /\ ValueOf("$1") = 1
  BY Operands
<1> HIDE DEF Condition
<1>5. CASE eip.at = 1
  <2>1. Instruction = <<"mov", "$1", "r">> /\ flags = Start
    BY <1>2, <1>5, BranchCode
  <2>2. Stores("r", 1) /\ flags' = flags /\ Forward /\ IsMem(mem')
    BY <1>3, <1>4, <2>1, Moves DEF Op
  <2>3. mem'["r"] = 1 /\ Inputs(job, mem')
    BY <1>3, <2>2, InputsKept DEF Stores
  <2>4. eip'.at = 2 /\ 2 - 1 = 1 /\ 2 # n + 3 /\ 2 # n + 4
    BY <1>1, <1>5, <2>2 DEF Forward
  <2>5. ComparedAt(job, gpr', flags', 1)
    BY <1>1, <2>1, <2>2 DEF ComparedAt
  <2> QED BY <2>2, <2>3, <2>4, <2>5 DEF BranchAt
<1>6. CASE eip.at \in 2 .. n + 1
  <2> DEFINE k == eip.at - 1
  <2>1. k \in 1 .. n /\ k + 1 = eip.at /\ eip.at \in 2 .. n + 2
    BY <1>1, <1>6
  <2> HIDE DEF k
  <2>2. Instruction = Compare(job.cmp)[k] /\ ComparedAt(job, gpr, flags, k)
    <3>1. Program(job)[k + 1] = Compare(job.cmp)[k]
      BY <2>1, BranchCode
    <3> QED BY <1>2, <2>1, <3>1 DEF k
  <2>3. ComparedAt(job, gpr', flags', k + 1) /\ mem' = mem /\ Forward
    BY <2>1, <2>2, ComparedSteps
  <2>4. /\ eip'.at = eip.at + 1 /\ eip'.at - 1 = k + 1 /\ eip'.at # 1
        /\ eip'.at # n + 3 /\ eip'.at # n + 4 /\ mem["r"] = 1
    BY <1>1, <1>2, <1>6, <2>1, <2>3 DEF Forward
  <2> QED BY <1>2, <2>3, <2>4 DEF BranchAt, Inputs
<1>7. CASE eip.at = n + 2
  <2>1. /\ Instruction = <<"j", job.cc, 1>> /\ mem["r"] = 1
        /\ ComparedAt(job, gpr, flags, eip.at - 1)
    <3>1. eip.at \in 2 .. n + 2 /\ eip.at \in 2 .. n + 3
      BY <1>1, <1>7
    <3> QED BY <1>2, <1>7, <3>1, BranchCode
  <2>2. flags = Compared(job)
    <3>1. eip.at - 1 = n + 1
      BY <1>1, <1>7
    <3> QED BY <2>1, <3>1 DEF ComparedAt
  <2>3. Op = "j" /\ Instruction[2] = job.cc /\ Instruction[3] = 1
    BY <2>1 DEF Op
  <2>4. /\ eip'.at = eip.at + 1 + IF Condition(job.cc, Compared(job)) THEN 1 ELSE 0
        /\ mem' = mem
    <3> HIDE DEF Op, Instruction
    <3> QED BY <2>2, <2>3, Decides
  <2>5. CASE Condition(job.cc, Compared(job))
    <3>1. eip'.at = n + 4 /\ Decision(job) = 1
      BY <1>1, <1>7, <2>4, <2>5 DEF Decision, B
    <3>2. n + 4 # 1 /\ n + 4 \notin 2 .. n + 3 /\ n + 4 \notin 2 .. n + 2 /\ n + 4 # n + 3
      BY <1>1
    <3> QED BY <1>2, <2>1, <2>4, <3>1, <3>2 DEF BranchAt, Inputs
  <2>6. CASE ~Condition(job.cc, Compared(job))
    <3>1. eip'.at = n + 3
      BY <1>1, <1>7, <2>4, <2>6
    <3>2. n + 3 # 1 /\ n + 3 \notin 2 .. n + 2 /\ n + 3 # n + 4
      BY <1>1
    <3> QED BY <1>2, <2>1, <2>4, <2>6, <3>1, <3>2 DEF BranchAt, Inputs
  <2> QED BY <2>5, <2>6
<1>8. CASE eip.at = n + 3
  <2>1. Instruction = <<"mov", "$0", "r">> /\ Decision(job) = 0
    BY <1>2, <1>8, BranchCode DEF Decision, B
  <2>2. Stores("r", 0) /\ Forward /\ IsMem(mem')
    BY <1>3, <1>4, <2>1, Moves DEF Op
  <2>3. mem'["r"] = Decision(job) /\ Inputs(job, mem')
    BY <1>3, <2>1, <2>2, InputsKept DEF Stores
  <2>4. /\ eip'.at # 1 /\ eip'.at \notin 2 .. n + 3 /\ eip'.at \notin 2 .. n + 2
        /\ eip'.at # n + 3
    BY <1>1, <1>8, <2>2 DEF Forward
  <2> QED BY <2>2, <2>3, <2>4 DEF BranchAt
<1> QED BY <1>1, <1>5, <1>6, <1>7, <1>8

-----------------------------------------------------------------------------
(* What the instructions on the register stack leave.                      *)
LEMMA Floats ==
  /\ Doing /\ Op = "flds" =>
       /\ fpu' = fpu_load(ValueOf(Instruction[2]))
       /\ mem' = mem /\ flags' = flags /\ Forward
  /\ Doing /\ Op = "fxch" =>
       LET i == (fpu.top + Instruction[2]) % 8
       IN  /\ fpu' = [fpu EXCEPT !.regStack[fpu.top] = fpu.regStack[i],
                                 !.regStack[i] = fpu.regStack[fpu.top]]
           /\ mem' = mem /\ flags' = flags /\ Forward
  /\ Doing /\ Op = "fucomip" =>
       LET a == ST(0)
           b == ST(Instruction[2])
       IN  /\ flags' = [flags EXCEPT !.PF = 0, !.CF = B(Greater(b, a)),
                          !.ZF = B(~Greater(a, b) /\ ~Greater(b, a))]
           /\ mem' = mem /\ Forward
  /\ Doing /\ Op = "fstps" /\ Instruction[2] \in Places =>
       Stores(Instruction[2], ST(0)) /\ IsMem(mem') /\ Forward
<1> HIDE DEF Op, Instruction, ST, Greater, fpu_load, fpu_store
<1>1. ASSUME Doing, Op = "flds"
      PROVE  /\ fpu' = fpu_load(ValueOf(Instruction[2]))
             /\ mem' = mem /\ flags' = flags /\ Forward
  <2>1. Flds
    BY <1>1, InstOf DEF Doing
  <2> QED BY <1>1, <2>1, Forwards DEF Flds
<1>2. ASSUME Doing, Op = "fxch"
      PROVE  LET i == (fpu.top + Instruction[2]) % 8
             IN  /\ fpu' = [fpu EXCEPT !.regStack[fpu.top] = fpu.regStack[i],
                                       !.regStack[i] = fpu.regStack[fpu.top]]
                 /\ mem' = mem /\ flags' = flags /\ Forward
  <2>1. Fxch
    BY <1>2, InstOf DEF Doing
  <2> QED BY <1>2, <2>1, Forwards DEF Fxch
<1>3. ASSUME Doing, Op = "fucomip"
      PROVE  LET a == ST(0)
                 b == ST(Instruction[2])
             IN  /\ flags' = [flags EXCEPT !.PF = 0, !.CF = B(Greater(b, a)),
                                !.ZF = B(~Greater(a, b) /\ ~Greater(b, a))]
                 /\ mem' = mem /\ Forward
  <2>1. Fucomip
    BY <1>3, InstOf DEF Doing
  <2> QED BY <1>3, <2>1, Forwards DEF Fucomip
<1>4. ASSUME Doing, Op = "fstps", Instruction[2] \in Places
      PROVE  Stores(Instruction[2], ST(0)) /\ IsMem(mem') /\ Forward
  <2>1. Fstps
    BY <1>4, InstOf DEF Doing
  <2>2. Put(Instruction[2], ST(0)) /\ Advance
    BY <2>1 DEF Fstps
  <2> QED BY <1>4, <2>2, PutStores, Forwards DEF Doing, Places
<1> QED BY <1>1, <1>2, <1>3, <1>4

(* A comparison of floats: b and a are pushed, exchanged, and the flags    *)
(* say how a is to b.                                                      *)
Weighed(j) ==
  [Start EXCEPT !.PF = 0, !.CF = B(Greater(j.in["b"], j.in["a"])),
     !.ZF = B(~Greater(j.in["a"], j.in["b"]) /\ ~Greater(j.in["b"], j.in["a"]))]

IsFpu(u) ==
  /\ u = [top |-> u.top, regStack |-> u.regStack]
  /\ u.regStack = [i \in 0 .. 7 |-> u.regStack[i]]

FloatCompareAt(j, f, at, m, u) ==
  /\ at \in 1 .. 4 => f = Start /\ IsFpu(u)
  /\ at = 1 => u.top = 0
  /\ at = 2 => u.top = 7 /\ u.regStack[7] = j.in["a"]
  /\ at = 3 => u.top = 6 /\ u.regStack[6] = j.in["b"] /\ u.regStack[7] = j.in["a"]
  /\ at = 4 => u.top = 6 /\ u.regStack[6] = j.in["a"] /\ u.regStack[7] = j.in["b"]
  /\ at = 5 => f = Weighed(j)
  /\ at \in 6 .. 7 => m["r"] = B(Condition(j.cc, Weighed(j)))

LEMMA FloatCompareCode ==
  ASSUME NEW j, j.program = "float_compare"
  PROVE  LET p == Program(j)
         IN  /\ IsSeq(p) /\ Len(p) = 6
             /\ p[1] = <<"flds", "a">>
             /\ p[2] = <<"flds", "b">>
             /\ p[3] = <<"fxch", 1>>
             /\ p[4] = <<"fucomip", 1>>
             /\ p[5] = <<"set", j.cc, "r">>
             /\ p[6] = <<"fstps", "R">>
<1> DEFINE p == << <<"flds", "a">>, <<"flds", "b">>, <<"fxch", 1>>,
                   <<"fucomip", 1>>, <<"set", j.cc, "r">>, <<"fstps", "R">> >>
<1>1. Program(j) = p
  BY DEF Program
<1>2. /\ IsSeq(p) /\ Len(p) = 6
      /\ p[1] = <<"flds", "a">>
      /\ p[2] = <<"flds", "b">>
      /\ p[3] = <<"fxch", 1>>
      /\ p[4] = <<"fucomip", 1>>
      /\ p[5] = <<"set", j.cc, "r">>
      /\ p[6] = <<"fstps", "R">>
  BY DEF IsSeq
<1> HIDE DEF p
<1> QED BY <1>1, <1>2

LEMMA Rewritten ==
  ASSUME NEW u, IsFpu(u), NEW i, NEW k, NEW x, NEW y
  PROVE  [u EXCEPT !.regStack[i] = x, !.regStack[k] = y]
         = [top |-> u.top, regStack |-> [u.regStack EXCEPT ![i] = x, ![k] = y]]
<1> DEFINE w == [top |-> u.top, regStack |-> [u.regStack EXCEPT ![i] = x]]
<1>1. [u EXCEPT !.regStack = [u.regStack EXCEPT ![i] = x]] = w
  BY DEF IsFpu
<1>2. [w EXCEPT !.regStack = [w.regStack EXCEPT ![k] = y]]
      = [top |-> u.top, regStack |-> [u.regStack EXCEPT ![i] = x, ![k] = y]]
  OBVIOUS
<1> HIDE DEF w
<1> QED BY <1>1, <1>2, Zenon

LEMMA Exchanged ==
  ASSUME NEW s, s = [i \in 0 .. 7 |-> s[i]]
  PROVE  [s EXCEPT ![6] = s[7], ![7] = s[6]]
         = [i \in 0 .. 7 |-> IF i = 6 THEN s[7] ELSE IF i = 7 THEN s[6] ELSE s[i]]
<1> DEFINE w == [i \in 0 .. 7 |-> IF i = 6 THEN s[7] ELSE s[i]]
<1>1. [s EXCEPT ![6] = s[7]] = w
  OBVIOUS
<1>2. [w EXCEPT ![7] = s[6]]
      = [i \in 0 .. 7 |-> IF i = 6 THEN s[7] ELSE IF i = 7 THEN s[6] ELSE s[i]]
  OBVIOUS
<1> HIDE DEF w
<1> QED BY <1>1, <1>2, Zenon

LEMMA FloatCompareSteps ==
  ASSUME job \in Jobs, job.program = "float_compare", Doing,
         Inputs(job, mem), eip.at \in 1 .. 6, Instruction = Program(job)[eip.at],
         FloatCompareAt(job, flags, eip.at, mem, fpu)
  PROVE  /\ FloatCompareAt(job, flags', eip'.at, mem', fpu')
         /\ Inputs(job, mem') /\ IsMem(mem')
<1>1. mem["a"] = job.in["a"] /\ mem["b"] = job.in["b"]
  BY InputsAssumption DEF Inputs
<1>2. ValueOf("a") = mem["a"] /\ ValueOf("b") = mem["b"]
  BY Operands DEF Variables
<1>3. {"r", "R"} \subseteq Places /\ "r" \notin Regs /\ "R" \notin Regs
  BY DEF Regs, Places, Variables
<1> DEFINE a == job.in["a"]
           b == job.in["b"]
           u == fpu
<1>4. /\ eip.at \in 1 .. 4 => flags = Start /\ IsFpu(u)
      /\ eip.at = 1 => u.top = 0
      /\ eip.at = 2 => u.top = 7 /\ u.regStack[7] = a
      /\ eip.at = 3 => u.top = 6 /\ u.regStack[6] = b /\ u.regStack[7] = a
      /\ eip.at = 4 => u.top = 6 /\ u.regStack[6] = a /\ u.regStack[7] = b
      /\ eip.at = 5 => flags = Weighed(job)
      /\ eip.at \in 6 .. 7 => mem["r"] = B(Condition(job.cc, Weighed(job)))
      /\ IsMem(mem)
  BY DEF FloatCompareAt, Doing
<1>5. (6 + 1) % 8 = 7 /\ (6 + 0) % 8 = 6
  OBVIOUS
<1> HIDE DEF a, b, Condition, Greater, Start
<1>6. CASE eip.at = 1
  <2>1. Instruction = <<"flds", "a">>
    BY <1>6, FloatCompareCode
  <2>2. fpu' = fpu_load(a) /\ mem' = mem /\ flags' = flags /\ Forward
    BY <1>1, <1>2, <2>1, Floats DEF Op, a
  <2>3. fpu' = [top |-> 7, regStack |-> [fpu.regStack EXCEPT ![7] = a]]
    BY <1>4, <1>6, <2>2 DEF fpu_load
  <2>4. /\ fpu'.top = 7 /\ fpu'.regStack[7] = a /\ IsFpu(fpu')
        /\ eip'.at = 2 /\ flags' = Start
    BY <1>4, <1>6, <2>2, <2>3 DEF IsFpu, Forward
  <2> QED BY <1>4, <2>2, <2>4 DEF FloatCompareAt, Inputs, a
<1>7. CASE eip.at = 2
  <2>1. Instruction = <<"flds", "b">>
    BY <1>7, FloatCompareCode
  <2>2. fpu' = fpu_load(b) /\ mem' = mem /\ flags' = flags /\ Forward
    BY <1>1, <1>2, <2>1, Floats DEF Op, b
  <2>3. fpu' = [top |-> 6, regStack |-> [fpu.regStack EXCEPT ![6] = b]]
    BY <1>4, <1>7, <2>2 DEF fpu_load
  <2>4. /\ fpu'.top = 6 /\ fpu'.regStack[6] = b /\ fpu'.regStack[7] = a
        /\ IsFpu(fpu') /\ eip'.at = 3 /\ flags' = Start
    BY <1>4, <1>7, <2>2, <2>3 DEF IsFpu, Forward
  <2> QED BY <1>4, <2>2, <2>4 DEF FloatCompareAt, Inputs, a, b
<1>8. CASE eip.at = 3
  <2>1. Instruction = <<"fxch", 1>>
    BY <1>8, FloatCompareCode
  <2>2. /\ fpu' = [fpu EXCEPT !.regStack[6] = fpu.regStack[7],
                              !.regStack[7] = fpu.regStack[6]]
        /\ mem' = mem /\ flags' = flags /\ Forward
    <3>1. Op = "fxch" /\ Instruction[2] = 1 /\ fpu.top = 6
      BY <1>4, <1>8, <2>1 DEF Op
    <3> HIDE DEF Op, Instruction
    <3>2. /\ fpu' = [fpu EXCEPT
                       !.regStack[fpu.top] = fpu.regStack[(fpu.top + Instruction[2]) % 8],
                       !.regStack[(fpu.top + Instruction[2]) % 8] = fpu.regStack[fpu.top]]
          /\ mem' = mem /\ flags' = flags /\ Forward
      BY <3>1, Floats
    <3>3. fpu.top = 6 /\ (fpu.top + Instruction[2]) % 8 = 7
      BY <1>5, <3>1
    <3> QED BY <3>2, <3>3
  <2>3. fpu'.top = 6 /\ fpu'.regStack[6] = a /\ fpu'.regStack[7] = b /\ IsFpu(fpu')
    <3>1. IsFpu(fpu) /\ fpu.top = 6 /\ fpu.regStack[6] = b /\ fpu.regStack[7] = a
      BY <1>4, <1>8
    <3>2. /\ fpu'.top = 6 /\ fpu'.regStack[6] = fpu.regStack[7]
          /\ fpu'.regStack[7] = fpu.regStack[6] /\ IsFpu(fpu')
      <4> DEFINE t == [fpu.regStack EXCEPT ![6] = fpu.regStack[7],
                                           ![7] = fpu.regStack[6]]
           r == [i \in 0 .. 7 |-> IF i = 6 THEN fpu.regStack[7]
                                 ELSE IF i = 7 THEN fpu.regStack[6]
                                 ELSE fpu.regStack[i]]
      <4>1. fpu' = [top |-> fpu.top, regStack |-> t]
        BY <2>2, <3>1, Rewritten, Zenon
      <4>2. t = r
        BY <3>1, Exchanged DEF IsFpu
      <4>3. /\ r[6] = fpu.regStack[7] /\ r[7] = fpu.regStack[6]
            /\ r = [i \in 0 .. 7 |-> r[i]]
        OBVIOUS
      <4> HIDE DEF t, r
      <4> QED BY <3>1, <4>1, <4>2, <4>3 DEF IsFpu
    <3> QED BY <3>1, <3>2
  <2>4. eip'.at = 4 /\ flags' = Start
    BY <1>4, <1>8, <2>2 DEF Forward
  <2> QED BY <1>4, <2>2, <2>3, <2>4 DEF FloatCompareAt, Inputs, a, b
<1>9. CASE eip.at = 4
  <2>1. Instruction = <<"fucomip", 1>>
    BY <1>9, FloatCompareCode
  <2>2. ST(0) = a /\ ST(1) = b
    BY <1>4, <1>5, <1>9 DEF ST
  <2>3. /\ flags' = [flags EXCEPT !.PF = 0, !.CF = B(Greater(ST(1), ST(0))),
                       !.ZF = B(~Greater(ST(0), ST(1)) /\ ~Greater(ST(1), ST(0)))]
        /\ mem' = mem /\ Forward
    <3>1. Op = "fucomip" /\ Instruction[2] = 1
      BY <2>1 DEF Op
    <3> HIDE DEF Op, Instruction, ST
    <3> QED BY <3>1, Floats
  <2>4. flags' = Weighed(job)
    <3>1. flags = Start
      BY <1>4, <1>9
    <3>2. flags' = [Start EXCEPT !.PF = 0, !.CF = B(Greater(b, a)),
                      !.ZF = B(~Greater(a, b) /\ ~Greater(b, a))]
      <4> HIDE DEF ST
      <4> QED BY <2>2, <2>3, <3>1
    <3> QED BY <3>2 DEF Weighed, a, b
  <2>5. eip'.at = 5
    BY <1>9, <2>3 DEF Forward
  <2> QED BY <1>4, <2>3, <2>4, <2>5 DEF FloatCompareAt, Inputs
<1>10. CASE eip.at = 5
  <2>1. Instruction = <<"set", job.cc, "r">>
    BY <1>10, FloatCompareCode
  <2>2. /\ Stores("r", B(Condition(job.cc, Weighed(job)))) /\ Forward /\ IsMem(mem')
    BY <1>3, <1>4, <1>10, <2>1, Decides DEF Op
  <2>3. /\ eip'.at = 6 /\ mem'["r"] = B(Condition(job.cc, Weighed(job)))
        /\ Inputs(job, mem')
    BY <1>3, <1>10, <2>2, InputsKept DEF Forward, Stores
  <2> QED BY <2>2, <2>3 DEF FloatCompareAt
<1>11. CASE eip.at = 6
  <2>1. Instruction = <<"fstps", "R">>
    BY <1>11, FloatCompareCode
  <2>2. Stores("R", ST(0)) /\ Forward /\ IsMem(mem')
    <3>1. Op = "fstps" /\ Instruction[2] = "R"
      BY <2>1 DEF Op
    <3> HIDE DEF Op, Instruction, ST
    <3> QED BY <1>3, <3>1, Floats
  <2>3. mem'["r"] = mem["r"] /\ Inputs(job, mem')
    <3> HIDE DEF ST
    <3> QED BY <1>3, <2>2, InputsKept DEF Stores, Variables
  <2>4. eip'.at = 7
    BY <1>11, <2>2 DEF Forward
  <2> QED BY <1>4, <1>11, <2>2, <2>3, <2>4 DEF FloatCompareAt
<1> QED BY <1>6, <1>7, <1>8, <1>9, <1>10, <1>11

-----------------------------------------------------------------------------
(* The invariant of the computation: the program's own machine, which the  *)
(* handlers leave alone, is where its place in the program says.           *)
Follows(j, o, m, u) ==
  /\ IsMem(m) /\ Inputs(j, m)
  /\ j.program \in {"sum", "difference"} => WideAt(j, o.gpr, o.flags, o.eip.at, m)
  /\ j.program = "negation" => NegationAt(j, o.gpr, o.flags, o.eip.at, m)
  /\ j.program = "product" => ProductAt(j, o.gpr, o.eip.at, m)
  /\ j.program = "set" => SetAt(j, o.gpr, o.flags, o.eip.at, m)
  /\ j.program = "move" => MoveAt(j, o.gpr, o.flags, o.eip.at, m)
  /\ j.program = "branch" => BranchAt(j, o.gpr, o.flags, o.eip.at, m)
  /\ j.program = "float_compare" => FloatCompareAt(j, o.flags, o.eip.at, m, u)

Computing ==
  /\ Inv
  /\ job.program \in Straight => Uncalled /\ Follows(job, Own, mem, fpu)

LEMMA Computes == Init => Computing
<1> SUFFICES ASSUME Init PROVE Computing
  OBVIOUS
<1>1. Inv /\ job \in Jobs
  BY Started DEF Inv
<1>2. Len(contexts) = 0
  <2>1. contexts = <<>>
    BY DEF Init
  <2> QED BY <2>1
<1>3. Uncalled /\ Own = [gpr |-> gpr, flags |-> flags, eip |-> eip]
  BY <1>2 DEF Uncalled, Own
<1> DEFINE o == [gpr |-> gpr, flags |-> flags, eip |-> eip]
<1>4. o.gpr = gpr /\ o.flags = Start /\ o.eip.at = 1
  BY DEF Init, Start
<1>5. IsFpu(fpu) /\ fpu.top = 0
  BY DEF Init, IsFpu
<1>6. mem = [x \in Variables |-> IF x \in DOMAIN job.in THEN job.in[x] ELSE 0]
  BY DEF Init
<1>7. IsMem(mem)
  BY <1>6 DEF IsMem
<1>8. Inputs(job, mem)
  <2>1. DOMAIN job.in \subseteq Variables
    BY <1>1, InputsAssumption DEF Variables
  <2> QED BY <1>6, <2>1 DEF Inputs
<1>9. Takes(job.cmp) \in {2, 3}
  BY DEF Takes
<1> HIDE DEF o, Start
<1>10. WideAt(job, o.gpr, o.flags, o.eip.at, mem)
  BY <1>4 DEF WideAt
<1>11. NegationAt(job, o.gpr, o.flags, o.eip.at, mem)
  BY <1>4 DEF NegationAt
<1>12. ProductAt(job, o.gpr, o.eip.at, mem)
  BY <1>4 DEF ProductAt
<1>13. ComparedAt(job, o.gpr, o.flags, 1)
  <2>1. 1 # Takes(job.cmp) + 1
    BY <1>9
  <2> QED BY <1>4, <2>1 DEF ComparedAt
<1>14. SetAt(job, o.gpr, o.flags, o.eip.at, mem)
  <2>1. 1 # Takes(job.cmp) + 2
    BY <1>9
  <2> QED BY <1>4, <1>13, <2>1 DEF SetAt
<1>15. MoveAt(job, o.gpr, o.flags, o.eip.at, mem)
  <2>1. LET n == Takes(job.cmp)
        IN  1 \notin n + 2 .. n + 3 /\ 1 # n + 3 /\ 1 # n + 4 /\ 1 # n + 5
    BY <1>9
  <2> QED BY <1>4, <1>13, <2>1 DEF MoveAt
<1>16. BranchAt(job, o.gpr, o.flags, o.eip.at, mem)
  <2>1. LET n == Takes(job.cmp)
        IN  1 \notin 2 .. n + 2 /\ 1 \notin 2 .. n + 3 /\ 1 # n + 3 /\ 1 # n + 4
    BY <1>9
  <2> QED BY <1>4, <2>1 DEF BranchAt
<1>17. FloatCompareAt(job, o.flags, o.eip.at, mem, fpu)
  BY <1>4, <1>5 DEF FloatCompareAt
<1>18. Follows(job, o, mem, fpu)
  BY <1>7, <1>8, <1>10, <1>11, <1>12, <1>14, <1>15, <1>16, <1>17 DEF Follows
<1> QED BY <1>1, <1>3, <1>18 DEF Computing, o

(* The programs followed here: none of their instructions ends the program *)
(* or calls the kernel.                                                    *)
LEMMA StraightCode ==
  ASSUME NEW j \in Jobs, j.program \in Straight
  PROVE  /\ IsSeq(Program(j)) /\ Len(Program(j)) \in Nat
         /\ \A i \in 1 .. Len(Program(j)) : Program(j)[i][1] \notin {"int", "nemu_trap"}
         /\ j.program \in {"sum", "difference", "negation"} => Len(Program(j)) = 7
         /\ j.program = "product" => Len(Program(j)) = 12
         /\ j.program = "set" => Len(Program(j)) = Takes(j.cmp) + 1
         /\ j.program = "move" => Len(Program(j)) = Takes(j.cmp) + 4
         /\ j.program = "branch" => Len(Program(j)) = Takes(j.cmp) + 3
         /\ j.program = "float_compare" => Len(Program(j)) = 6
<1> DEFINE p == Program(j)
           n == Takes(j.cmp)
           q == Compare(j.cmp)
<1>1. IsSeq(p)
  <2>1. j.program \notin {"factorial"}
    BY DEF Straight
  <2>2. j.program # "product" => Flows(p)
    BY <2>1, ProgramFlows
  <2> QED BY <2>2, ProductOps DEF Flows
<1>2. Len(p) \in Nat
  BY <1>1 DEF IsSeq
<1>3. n \in {2, 3}
  BY DEF Takes
<1>4. j.program \in {"set", "move", "branch"} => \A i \in 1 .. n : q[i][1] \notin {"int", "nemu_trap"}
  <2> SUFFICES ASSUME j.program \in {"set", "move", "branch"}, NEW i \in 1 .. n
               PROVE  q[i][1] \notin {"int", "nemu_trap"}
    OBVIOUS
  <2>1. j.cmp \in Cmps
    BY JobsAssumption DEF Cmps
  <2>2. /\ j.cmp \in {"movz", "movs"} => /\ q[1] = <<j.cmp, "a", "eax">>
                                         /\ q[2] = <<j.cmp, "b", "edx">>
                                         /\ q[3] = <<"cmpl", "edx", "eax">>
        /\ j.cmp \in {"cmpl", "cmpb"} => /\ q[1] = <<"mov", "a", "eax">>
                                         /\ q[2] = <<j.cmp, "b", "eax">>
    BY <2>1, CompareCode
  <2>3. /\ j.cmp \in {"movz", "movs"} => i \in 1 .. 3
        /\ j.cmp \in {"cmpl", "cmpb"} => i \in 1 .. 2
    BY DEF Takes
  <2> HIDE DEF q, n
  <2> QED BY <2>1, <2>2, <2>3 DEF Cmps
<1> HIDE DEF p, n, q
<1>5. CASE j.program \in {"sum", "difference"}
  <2>1. Len(p) = 7 /\ \A i \in 1 .. 7 : p[i][1] \notin {"int", "nemu_trap"}
    BY <1>5, WideCode DEF p
  <2> QED BY <1>1, <1>2, <1>5, <2>1 DEF p
<1>6. CASE j.program = "negation"
  <2>1. Len(p) = 7 /\ \A i \in 1 .. 7 : p[i][1] \notin {"int", "nemu_trap"}
    BY <1>6, NegationCode DEF p
  <2> QED BY <1>1, <1>2, <1>6, <2>1 DEF p
<1>7. CASE j.program = "product"
  <2>1. Len(p) = 12 /\ \A i \in 1 .. 12 : p[i][1] \notin {"int", "nemu_trap"}
    BY <1>7, ProductCode DEF p
  <2> QED BY <1>1, <1>2, <1>7, <2>1 DEF p
<1>8. CASE j.program = "set"
  <2>1. /\ Len(p) = n + 1 /\ \A i \in 1 .. n : p[i] = q[i]
        /\ p[n + 1] = <<"set", j.cc, "r">>
    BY <1>8, SetCode DEF p, n, q
  <2>2. \A i \in 1 .. n + 1 : i \in 1 .. n \/ i = n + 1
    BY <1>3
  <2>3. \A i \in 1 .. n + 1 : p[i][1] \notin {"int", "nemu_trap"}
    BY <1>4, <1>8, <2>1, <2>2
  <2> QED BY <1>1, <1>2, <1>8, <2>1, <2>3 DEF p, n
<1>9. CASE j.program = "move"
  <2>1. /\ Len(p) = n + 4 /\ \A i \in 1 .. n : p[i] = q[i]
        /\ p[n + 1] = <<"mov", "$0", "ecx">>
        /\ p[n + 2] = <<"mov", "$1", "edx">>
        /\ p[n + 3] = <<"cmov", j.cc, "edx", "ecx">>
        /\ p[n + 4] = <<"mov", "ecx", "r">>
    BY <1>9, MoveCode DEF p, n, q
  <2>2. \A i \in 1 .. n + 4 :
          i \in 1 .. n \/ i = n + 1 \/ i = n + 2 \/ i = n + 3 \/ i = n + 4
    BY <1>3
  <2>3. \A i \in 1 .. n + 4 : p[i][1] \notin {"int", "nemu_trap"}
    BY <1>4, <1>9, <2>1, <2>2
  <2> QED BY <1>1, <1>2, <1>9, <2>1, <2>3 DEF p, n
<1>10. CASE j.program = "branch"
  <2>1. /\ Len(p) = n + 3 /\ p[1] = <<"mov", "$1", "r">>
        /\ \A i \in 1 .. n : p[i + 1] = q[i]
        /\ p[n + 2] = <<"j", j.cc, 1>>
        /\ p[n + 3] = <<"mov", "$0", "r">>
    BY <1>10, BranchCode DEF p, n, q
  <2> SUFFICES ASSUME NEW i \in 1 .. n + 3 PROVE p[i][1] \notin {"int", "nemu_trap"}
    BY <1>1, <1>2, <1>10, <2>1 DEF p, n
  <2>2. i = 1 \/ (i - 1 \in 1 .. n /\ (i - 1) + 1 = i) \/ i = n + 2 \/ i = n + 3
    BY <1>3
  <2>3. CASE i - 1 \in 1 .. n /\ (i - 1) + 1 = i
    <3>1. p[(i - 1) + 1] = q[i - 1] /\ q[i - 1][1] \notin {"int", "nemu_trap"}
      BY <1>4, <1>10, <2>1, <2>3
    <3> QED BY <2>3, <3>1
  <2> QED BY <2>1, <2>2, <2>3
<1>11. CASE j.program = "float_compare"
  <2>1. Len(p) = 6 /\ \A i \in 1 .. 6 : p[i][1] \notin {"int", "nemu_trap"}
    BY <1>11, FloatCompareCode DEF p
  <2> QED BY <1>1, <1>2, <1>11, <2>1 DEF p
<1> QED BY <1>5, <1>6, <1>7, <1>8, <1>9, <1>10, <1>11 DEF Straight

LEMMA FollowSteps ==
  ASSUME job \in Jobs, job.program \in Straight, Doing, Guest(job, gpr, eip, stack),
         NEW o, o = [gpr |-> gpr, flags |-> flags, eip |-> eip],
         Follows(job, o, mem, fpu)
  PROVE  Follows(job, [gpr |-> gpr', flags |-> flags', eip |-> eip'], mem', fpu')
<1> DEFINE p == Program(job)
           w == [gpr |-> gpr', flags |-> flags', eip |-> eip']
<1>1. /\ w.gpr = gpr' /\ w.flags = flags' /\ w.eip = eip'
      /\ o.gpr = gpr /\ o.flags = flags /\ o.eip = eip
  OBVIOUS
<1>2. eip.code = "guest" /\ eip.at \in 1 .. Len(p) + 1
  BY DEF Guest
<1>3. IsSeq(p) /\ Len(p) \in Nat
  BY StraightCode
<1>4. /\ eip.at \in 1 .. Len(p) => Instruction = p[eip.at]
      /\ eip.at = Len(p) + 1 => Op = "nemu_trap"
  BY <1>2, <1>3, Fetch
<1>5. Op # "nemu_trap"
  <2> HIDE DEF Op
  <2> QED BY OpsOf DEF Doing, IntegerOps, FloatOps
<1>6. eip.at \in 1 .. Len(p) /\ Instruction = p[eip.at]
  BY <1>2, <1>3, <1>4, <1>5
<1> DEFINE n == Takes(job.cmp)
<1>7. /\ job.program \in {"sum", "difference", "negation"} => Len(p) = 7
      /\ job.program = "product" => Len(p) = 12
      /\ job.program = "set" => Len(p) = n + 1
      /\ job.program = "move" => Len(p) = n + 4
      /\ job.program = "branch" => Len(p) = n + 3
      /\ job.program = "float_compare" => Len(p) = 6
  BY StraightCode
<1> HIDE DEF w
<1>8. CASE job.program \in {"sum", "difference"}
  <2>1. Inputs(job, mem) /\ WideAt(job, gpr, flags, eip.at, mem)
    BY <1>1, <1>8 DEF Follows
  <2>2. eip.at \in 1 .. 7 /\ Instruction = Program(job)[eip.at]
    BY <1>6, <1>7, <1>8
  <2>3. /\ WideAt(job, gpr', flags', eip'.at, mem')
        /\ Inputs(job, mem') /\ IsMem(mem')
    BY <1>8, <2>1, <2>2, WideSteps
  <2> QED BY <1>1, <1>8, <2>3 DEF Follows, w
<1>9. CASE job.program = "negation"
  <2>1. Inputs(job, mem) /\ NegationAt(job, gpr, flags, eip.at, mem)
    BY <1>1, <1>9 DEF Follows
  <2>2. eip.at \in 1 .. 7 /\ Instruction = Program(job)[eip.at]
    BY <1>6, <1>7, <1>9
  <2>3. /\ NegationAt(job, gpr', flags', eip'.at, mem')
        /\ Inputs(job, mem') /\ IsMem(mem')
    BY <1>9, <2>1, <2>2, NegationSteps
  <2> QED BY <1>1, <1>9, <2>3 DEF Follows, w
<1>10. CASE job.program = "product"
  <2>1. Inputs(job, mem) /\ ProductAt(job, gpr, eip.at, mem)
    BY <1>1, <1>10 DEF Follows
  <2>2. eip.at \in 1 .. 12 /\ Instruction = Program(job)[eip.at]
    BY <1>6, <1>7, <1>10
  <2>3. /\ ProductAt(job, gpr', eip'.at, mem')
        /\ Inputs(job, mem') /\ IsMem(mem')
    BY <1>10, <2>1, <2>2, ProductComputes
  <2> QED BY <1>1, <1>10, <2>3 DEF Follows, w
<1>11. CASE job.program = "set"
  <2>1. Inputs(job, mem) /\ SetAt(job, gpr, flags, eip.at, mem)
    BY <1>1, <1>11 DEF Follows
  <2>2. eip.at \in 1 .. Takes(job.cmp) + 1 /\ Instruction = Program(job)[eip.at]
    BY <1>6, <1>7, <1>11
  <2>3. /\ SetAt(job, gpr', flags', eip'.at, mem')
        /\ Inputs(job, mem') /\ IsMem(mem')
    BY <1>11, <2>1, <2>2, SetSteps
  <2> QED BY <1>1, <1>11, <2>3 DEF Follows, w
<1>12. CASE job.program = "move"
  <2>1. Inputs(job, mem) /\ MoveAt(job, gpr, flags, eip.at, mem)
    BY <1>1, <1>12 DEF Follows
  <2>2. eip.at \in 1 .. Takes(job.cmp) + 4 /\ Instruction = Program(job)[eip.at]
    BY <1>6, <1>7, <1>12
  <2>3. /\ MoveAt(job, gpr', flags', eip'.at, mem')
        /\ Inputs(job, mem') /\ IsMem(mem')
    BY <1>12, <2>1, <2>2, MoveSteps
  <2> QED BY <1>1, <1>12, <2>3 DEF Follows, w
<1>13. CASE job.program = "branch"
  <2>1. Inputs(job, mem) /\ BranchAt(job, gpr, flags, eip.at, mem)
    BY <1>1, <1>13 DEF Follows
  <2>2. eip.at \in 1 .. Takes(job.cmp) + 3 /\ Instruction = Program(job)[eip.at]
    BY <1>6, <1>7, <1>13
  <2>3. /\ BranchAt(job, gpr', flags', eip'.at, mem')
        /\ Inputs(job, mem') /\ IsMem(mem')
    BY <1>13, <2>1, <2>2, BranchSteps
  <2> QED BY <1>1, <1>13, <2>3 DEF Follows, w
<1>14. CASE job.program = "float_compare"
  <2>1. Inputs(job, mem) /\ FloatCompareAt(job, flags, eip.at, mem, fpu)
    BY <1>1, <1>14 DEF Follows
  <2>2. eip.at \in 1 .. 6 /\ Instruction = Program(job)[eip.at]
    BY <1>6, <1>7, <1>14
  <2>3. /\ FloatCompareAt(job, flags', eip'.at, mem', fpu')
        /\ Inputs(job, mem') /\ IsMem(mem')
    BY <1>14, <2>1, <2>2, FloatCompareSteps
  <2> QED BY <1>1, <1>14, <2>3 DEF Follows, w
<1> QED BY <1>8, <1>9, <1>10, <1>11, <1>12, <1>13, <1>14 DEF Straight

LEMMA Computed ==
  ASSUME Computing, Next
  PROVE  Computing'
<1>1. Inv /\ Inv' /\ job \in Jobs
  BY Stepped DEF Computing, Inv
<1>2. job' = job
  BY DEF Next, ExecInst, DoIntr
<1> SUFFICES ASSUME job.program \in Straight
             PROVE  Uncalled' /\ Follows(job, Own', mem', fpu')
  BY <1>1, <1>2 DEF Computing
<1>3. Uncalled /\ Follows(job, Own, mem, fpu)
  BY DEF Computing
<1>4. CASE Own' = Own /\ mem' = mem /\ fpu' = fpu /\ Uncalled'
  BY <1>3, <1>4
<1> DEFINE o == [gpr |-> gpr, flags |-> flags, eip |-> eip]
<1>5. CASE /\ Len(contexts) = 0 /\ contexts' = contexts /\ Guest(job, gpr, eip, stack)
           /\ IntegerInst \/ StackInst \/ FloatInst
  <2>1. Own = o /\ Own' = o' /\ Uncalled'
    BY <1>5 DEF Own, Uncalled
  <2>2. Follows(job, o, mem, fpu)
    BY <1>3, <2>1
  <2>3. Doing
    <3>1. eip.at \in 1 .. Len(Program(job)) + 1 /\ IsFile(gpr)
      BY <1>5 DEF Guest
    <3>2. IsMem(mem)
      BY <1>3 DEF Follows
    <3>3. Len(Program(job)) \in Nat
      BY <1>1, StraightCode
    <3>4. eip.at \in Nat
      BY <3>1, <3>3
    <3> QED BY <1>5, <3>1, <3>2, <3>4 DEF Doing
  <2>4. Follows(job, [gpr |-> gpr', flags |-> flags', eip |-> eip'], mem', fpu')
    <3> DEFINE q == o
    <3>1. q = [gpr |-> gpr, flags |-> flags, eip |-> eip]
      OBVIOUS
    <3> HIDE DEF q
    <3> QED BY <1>1, <1>5, <2>2, <2>3, FollowSteps
  <2> QED BY <2>1, <2>4
<1>6. CASE Op = "int" /\ Len(contexts) = 0 /\ Guest(job, gpr, eip, stack)
  <2> DEFINE p == Program(job)
  <2>1. /\ IsSeq(p) /\ Len(p) \in Nat /\ \A i \in 1 .. Len(p) : p[i][1] # "int"
    BY <1>1, StraightCode
  <2>2. eip.code = "guest" /\ eip.at \in 1 .. Len(p) + 1
    BY <1>6 DEF Guest
  <2>3. /\ eip.at \in 1 .. Len(p) => Instruction = p[eip.at]
        /\ eip.at = Len(p) + 1 => Op = "nemu_trap"
    BY <2>1, <2>2, Fetch
  <2>4. eip.at \in 1 .. Len(p) \/ eip.at = Len(p) + 1
    BY <2>1, <2>2
  <2>5. Instruction = p[eip.at] => Op = p[eip.at][1]
    BY DEF Op
  <2> HIDE DEF Op, Instruction, p
  <2> QED BY <1>6, <2>1, <2>3, <2>4, <2>5
<1> QED BY <1>1, <1>3, <1>4, <1>5, <1>6, OwnSteps

LEMMA Computation == Spec => []Computing
<1>1. Computing /\ [Next]_vars => Computing'
  <2> SUFFICES ASSUME Computing, [Next]_vars PROVE Computing'
    OBVIOUS
  <2>1. CASE Next
    BY <2>1, Computed
  <2>2. CASE UNCHANGED vars
    BY <2>2 DEF Computing, Inv, Uncalled, Own, vars
  <2> QED BY <2>1, <2>2
<1> QED BY <1>1, Computes, PTL DEF Spec

(* Where a program that has finished is.                                   *)
LEMMA AtTheEnd ==
  ASSUME Computing, Finished, job.program \in Straight
  PROVE  /\ job \in Jobs
         /\ Follows(job, [gpr |-> gpr, flags |-> flags, eip |-> eip], mem, fpu)
         /\ eip.at = Len(Program(job)) + 1
<1> DEFINE p == Program(job)
<1>1. Inv /\ job \in Jobs /\ Follows(job, Own, mem, fpu)
  BY DEF Computing, Inv
<1>2. Len(contexts) = 0
  <2>1. contexts = <<>>
    BY DEF Finished
  <2> QED BY <2>1
<1>3. Guest(job, gpr, eip, stack) /\ Own = [gpr |-> gpr, flags |-> flags, eip |-> eip]
  BY <1>1, <1>2 DEF Inv, Running, Own
<1>4. IsSeq(p) /\ Len(p) \in Nat
  BY <1>1, StraightCode
<1>5. eip.code = "guest" /\ eip.at \in 1 .. Len(p) + 1
  BY <1>3 DEF Guest
<1>6. eip.at \in 1 .. Len(p) => Instruction = p[eip.at]
  BY <1>4, <1>5, Fetch
<1>7. eip.at \notin 1 .. Len(p)
  <2> SUFFICES ASSUME eip.at \in 1 .. Len(p) PROVE FALSE
    OBVIOUS
  <2>1. p[eip.at][1] = "nemu_trap"
    BY <1>6 DEF Finished, Op
  <2>2. \A i \in 1 .. Len(p) : p[i][1] # "nemu_trap"
    BY <1>1, StraightCode
  <2> HIDE DEF p
  <2> QED BY <2>1, <2>2
<1>8. eip.at = Len(p) + 1
  BY <1>4, <1>5, <1>7
<1> QED BY <1>1, <1>3, <1>8

-----------------------------------------------------------------------------
(* What a comparison of longs or bytes says, and what it is to say.        *)
LEMMA Extends ==
  ASSUME NEW cmp \in Cmps, NEW x \in Longs
  PROVE  LET half == IF cmp = "cmpl" THEN LongHalf ELSE ByteHalf
             z == x % (2 * half)
             S(v) == IF v >= half /\ cmp # "movz" THEN v - 2 * half ELSE v
         IN  /\ Extended(cmp, x) \in Longs /\ z \in Nat
             /\ Signed(Extended(cmp, x)) = S(z)
<1>1. CASE cmp = "cmpl"
  <2>1. Extended(cmp, x) = x
    BY <1>1 DEF Extended
  <2>2. x % (2 * LongHalf) = x /\ x \in Nat
    BY HalvesAssumption DEF Longs
  <2> QED BY <1>1, <2>1, <2>2 DEF Signed
<1> DEFINE z == x % (2 * ByteHalf)
<1>2. z \in Bytes
  BY HalvesAssumption DEF Longs, Bytes
<1>3. CASE cmp = "movz"
  <2>1. Extended(cmp, x) = z
    BY <1>3 DEF Extended
  <2> HIDE DEF z
  <2>2. z \in Longs /\ z \in Nat /\ Signed(z) = z
    BY <1>2, HalvesAssumption DEF Bytes, Longs, Signed
  <2> QED BY <1>3, <2>1, <2>2 DEF z
<1>4. CASE cmp \in {"cmpb", "movs"}
  <2>1. Extended(cmp, x) = sign_ext(z)
    BY <1>4 DEF Extended
  <2> HIDE DEF z
  <2>2. z \in Nat
    BY <1>2, HalvesAssumption DEF Bytes
  <2>3. /\ sign_ext(z) \in Longs
        /\ Signed(sign_ext(z)) = IF z >= ByteHalf THEN z - 2 * ByteHalf ELSE z
    BY <1>2, BytesKeepOrder
  <2> QED BY <1>4, <2>1, <2>2, <2>3 DEF z
<1> QED BY <1>1, <1>3, <1>4 DEF Cmps

LEMMA OrderKept ==
  ASSUME NEW cmp \in Cmps, NEW x \in Longs, NEW y \in Longs
  PROVE  LET half == IF cmp = "cmpl" THEN LongHalf ELSE ByteHalf
         IN  /\ Extended(cmp, x) < Extended(cmp, y) <=> x % (2 * half) < y % (2 * half)
             /\ Extended(cmp, x) = Extended(cmp, y) <=> x % (2 * half) = y % (2 * half)
<1>1. CASE cmp = "cmpl"
  <2>1. Extended(cmp, x) = x /\ Extended(cmp, y) = y
    BY <1>1 DEF Extended
  <2>2. x % (2 * LongHalf) = x /\ y % (2 * LongHalf) = y
    BY HalvesAssumption DEF Longs
  <2> QED BY <1>1, <2>1, <2>2
<1>2. CASE cmp = "movz"
  BY <1>2 DEF Extended
<1> DEFINE z == x % (2 * ByteHalf)
           w == y % (2 * ByteHalf)
<1>3. z \in Bytes /\ w \in Bytes
  BY HalvesAssumption DEF Longs, Bytes
<1>4. CASE cmp \in {"cmpb", "movs"}
  <2>1. Extended(cmp, x) = sign_ext(z) /\ Extended(cmp, y) = sign_ext(w)
    BY <1>4 DEF Extended
  <2> HIDE DEF z, w
  <2>2. /\ sign_ext(z) < sign_ext(w) <=> z < w
        /\ sign_ext(z) = sign_ext(w) <=> z = w
    BY <1>3, BytesKeepOrder
  <2> QED BY <1>4, <2>1, <2>2 DEF z, w
<1> QED BY <1>1, <1>2, <1>4 DEF Cmps

LEMMA Decided ==
  ASSUME NEW j \in Jobs, j.program \in {"set", "move", "branch"}
  PROVE  Condition(j.cc, Compared(j)) <=> Relation(j)
<1> DEFINE cmp == j.cmp
           half == IF cmp = "cmpl" THEN LongHalf ELSE ByteHalf
           S(v) == IF v >= half /\ cmp # "movz" THEN v - 2 * half ELSE v
           x == j.in["a"]
           y == j.in["b"]
           a == x % (2 * half)
           b == y % (2 * half)
           dest == Extended(cmp, x)
           src == Extended(cmp, y)
           f == Compared(j)
           s == S(a)
           t == S(b)
<1>1. x \in Longs /\ y \in Longs /\ cmp \in Cmps
  BY InputsAssumption, JobsAssumption DEF Cmps
<1>2. /\ j.cc \in {"e", "ne", "a", "ae", "b", "be", "c", "na", "g", "ge", "l", "le"}
      /\ Start \in Flags
  BY JobsAssumption DEF Start, Flags, Bit
<1>3. /\ dest \in Longs /\ src \in Longs /\ a \in Nat /\ b \in Nat
      /\ Signed(dest) = s /\ Signed(src) = t
  <2> HIDE DEF x, y, cmp
  <2> QED BY <1>1, Extends
<1>4. /\ dest < src <=> a < b
      /\ dest = src <=> a = b
  <2> HIDE DEF x, y, cmp
  <2> QED BY <1>1, OrderKept
<1> DEFINE r == [e |-> a = b, ne |-> a # b, a |-> a > b, ae |-> a >= b, b |-> a < b,
                 be |-> a <= b, c |-> a < b, na |-> a <= b, g |-> s > t,
                 ge |-> s >= t, l |-> s < t, le |-> s <= t]
<1>5. Relation(j) <=> r[j.cc]
  BY DEF Relation
<1>6. f = alu_sub(src, dest, Start).flags
  BY DEF Compared
<1>7. dest \in Int /\ src \in Int /\ s \in Int /\ t \in Int
  <2>1. dest \in Int /\ src \in Int /\ Signed(dest) \in Int /\ Signed(src) \in Int
    <3> HIDE DEF dest, src
    <3> QED BY <1>3, HalvesAssumption DEF Longs, Signed
  <2> HIDE DEF dest, src, s, t
  <2> QED BY <1>3, <2>1
<1> HIDE DEF dest, src, f, s, t, a, b, Condition, alu_sub, Start
<1>8. /\ Condition("e", f) <=> a = b
      /\ Condition("ne", f) <=> a # b
      /\ Condition("a", f) <=> a > b
      /\ Condition("ae", f) <=> a >= b
      /\ Condition("b", f) <=> a < b
      /\ Condition("be", f) <=> a <= b
      /\ Condition("c", f) <=> a < b
      /\ Condition("na", f) <=> a <= b
      /\ Condition("g", f) <=> s > t
      /\ Condition("ge", f) <=> s >= t
      /\ Condition("l", f) <=> s < t
      /\ Condition("le", f) <=> s <= t
  <2>1. /\ Condition("e", f) <=> dest = src
        /\ Condition("ne", f) <=> dest # src
        /\ Condition("a", f) <=> dest > src
        /\ Condition("ae", f) <=> dest >= src
        /\ Condition("b", f) <=> dest < src
        /\ Condition("be", f) <=> dest <= src
        /\ Condition("c", f) <=> dest < src
        /\ Condition("na", f) <=> dest <= src
        /\ Condition("g", f) <=> Signed(dest) > Signed(src)
        /\ Condition("ge", f) <=> Signed(dest) >= Signed(src)
        /\ Condition("l", f) <=> Signed(dest) < Signed(src)
        /\ Condition("le", f) <=> Signed(dest) <= Signed(src)
    BY <1>2, <1>3, <1>6, CompareDecides
  <2> QED BY <1>3, <1>4, <1>7, <2>1
<1>9. /\ r["e"] <=> a = b
      /\ r["ne"] <=> a # b
      /\ r["a"] <=> a > b
      /\ r["ae"] <=> a >= b
      /\ r["b"] <=> a < b
      /\ r["be"] <=> a <= b
      /\ r["c"] <=> a < b
      /\ r["na"] <=> a <= b
      /\ r["g"] <=> s > t
      /\ r["ge"] <=> s >= t
      /\ r["l"] <=> s < t
      /\ r["le"] <=> s <= t
  OBVIOUS
<1> HIDE DEF r
<1>10. Condition(j.cc, f) <=> r[j.cc]
  BY <1>2, <1>8, <1>9
<1> QED BY <1>5, <1>10 DEF f

(* A comparison of floats.                                                 *)
LEMMA Powers ==
  ASSUME NEW n \in Nat
  PROVE  2^n \in Nat /\ 2^n > 0
<1> DEFINE S == 1 .. n
<1>1. IsFiniteSet(S) /\ Cardinality(S) = n
  BY FS_Interval
<1>2. IsFiniteSet(SUBSET S) /\ Cardinality(SUBSET S) = 2^n
  <2> HIDE DEF S
  <2> QED BY <1>1, FS_SUBSET
<1>3. SUBSET S # {}
  OBVIOUS
<1> HIDE DEF S
<1> DEFINE c == Cardinality(SUBSET S)
<1>4. c \in Nat /\ c # 0
  BY <1>2, <1>3, FS_CardinalityType, FS_EmptySet
<1>5. c = 2^n
  BY <1>2
<1> HIDE DEF c
<1>6. c > 0
  BY <1>4
<1> QED BY <1>4, <1>5, <1>6

LEMMA OrderedTyped ==
  ASSUME NEW f \in Codes
  PROVE  Ordered(f) \in Int
<1>1. Hidden \in Nat /\ Hidden > 0
  BY Powers, WidthsAssumption DEF Hidden
<1>2. MaxExp + 1 \in Nat /\ MaxExp + 1 > 0
  <2> DEFINE e == 2^ExpBits
  <2>1. e \in Nat /\ e > 0
    BY Powers, WidthsAssumption
  <2>2. MaxExp = e - 1
    BY DEF MaxExp
  <2> HIDE DEF e
  <2> QED BY <2>1, <2>2
<1>3. f \in Int
  BY DEF Codes
<1> DEFINE H == Hidden
           E == MaxExp + 1
<1>4. Exponent(f) = (f \div H) % E /\ Fraction(f) = f % H
  BY DEF Exponent, Fraction
<1>5. H \in Nat /\ H > 0 /\ E \in Nat /\ E > 0
  BY <1>1, <1>2
<1> HIDE DEF H, E
<1>6. f \div H \in Int /\ f % H \in Int
  BY <1>3, <1>5
<1>7. (f \div H) % E \in Int
  BY <1>5, <1>6
<1>8. Magnitude(f) \in Int
  BY <1>4, <1>5, <1>6, <1>7 DEF Magnitude, H
<1> QED BY <1>8 DEF Ordered

LEMMA FloatDecided ==
  ASSUME NEW j \in Jobs, j.program = "float_compare",
         ~IsNaN(j.in["a"]), ~IsNaN(j.in["b"])
  PROVE  LET a == Ordered(j.in["a"])
             b == Ordered(j.in["b"])
         IN  Condition(j.cc, Weighed(j))
               <=> [a |-> a > b, ae |-> a >= b, b |-> a < b, e |-> a = b,
                    ne |-> a # b][j.cc]
<1> DEFINE x == j.in["a"]
           y == j.in["b"]
           a == Ordered(x)
           b == Ordered(y)
           f == Weighed(j)
           r == [a |-> a > b, ae |-> a >= b, b |-> a < b, e |-> a = b, ne |-> a # b]
<1>1. x \in Codes /\ y \in Codes /\ j.cc \in {"a", "ae", "b", "e", "ne"}
  BY InputsAssumption, JobsAssumption
<1>2. a \in Int /\ b \in Int
  <2> HIDE DEF x, y
  <2> QED BY <1>1, OrderedTyped
<1>3. (Greater(x, y) <=> a > b) /\ (Greater(y, x) <=> b > a)
  BY DEF Greater
<1>4. f.CF = B(Greater(y, x)) /\ f.ZF = B(~Greater(x, y) /\ ~Greater(y, x))
  <2> HIDE DEF x, y
  <2> QED BY DEF Weighed, Start, x, y
<1> HIDE DEF f, x, y, a, b
<1>5. /\ f.CF = IF b > a THEN 1 ELSE 0
      /\ f.ZF = IF a > b \/ b > a THEN 0 ELSE 1
  BY <1>3, <1>4 DEF B
<1>6. /\ Condition("a", f) <=> f.CF = 0 /\ f.ZF = 0
      /\ Condition("ae", f) <=> f.CF = 0 \/ f.ZF = 1
      /\ Condition("b", f) <=> f.CF = 1 /\ f.ZF = 0
      /\ Condition("e", f) <=> f.ZF = 1
      /\ Condition("ne", f) <=> f.ZF = 0
  BY DEF Condition
<1>7. /\ r["a"] <=> a > b
      /\ r["ae"] <=> a >= b
      /\ r["b"] <=> a < b
      /\ r["e"] <=> a = b
      /\ r["ne"] <=> a # b
  OBVIOUS
<1> HIDE DEF r
<1>8. Condition(j.cc, f) <=> r[j.cc]
  BY <1>1, <1>2, <1>5, <1>6, <1>7
<1> QED BY <1>8 DEF f, r, a, b, x, y

(* Nothing is above or below a NaN.                                        *)
LEMMA FloatUnordered ==
  ASSUME NEW j \in Jobs, j.program = "float_compare", j.cc \in {"a", "b"},
         IsNaN(j.in["a"]) \/ IsNaN(j.in["b"])
  PROVE  ~Condition(j.cc, Weighed(j))
<1> DEFINE x == j.in["a"]
           y == j.in["b"]
           f == Weighed(j)
<1>1. ~Greater(x, y) /\ ~Greater(y, x)
  BY DEF Greater
<1>2. f.CF = B(Greater(y, x)) /\ f.ZF = B(~Greater(x, y) /\ ~Greater(y, x))
  <2> HIDE DEF x, y
  <2> QED BY DEF Weighed, Start, x, y
<1> HIDE DEF f, x, y
<1>3. f.CF = 0 /\ f.ZF = 1
  BY <1>1, <1>2 DEF B
<1>4. /\ Condition("a", f) <=> f.CF = 0 /\ f.ZF = 0
      /\ Condition("b", f) <=> f.CF = 1 /\ f.ZF = 0
  BY DEF Condition
<1> HIDE DEF Condition
<1> QED BY <1>3, <1>4 DEF f

(* What a finished comparison says, in the invariant's terms.              *)
LEMMA FinishedCompare ==
  ASSUME Computing
  PROVE  ComparesRight
<1> DEFINE o == [gpr |-> gpr, flags |-> flags, eip |-> eip]
           n == Takes(job.cmp)
<1>1. ASSUME Finished, job.program \in {"set", "move", "branch"}
      PROVE  mem["r"] = 1 <=> Relation(job)
  <2>1. /\ job \in Jobs /\ Follows(job, o, mem, fpu)
        /\ eip.at = Len(Program(job)) + 1
    BY <1>1, AtTheEnd DEF Straight
  <2>2. /\ job.program = "set" => eip.at = n + 2
        /\ job.program = "move" => eip.at = n + 5
        /\ job.program = "branch" => eip.at = n + 4
    <3>1. /\ job.program = "set" => Len(Program(job)) = n + 1
          /\ job.program = "move" => Len(Program(job)) = n + 4
          /\ job.program = "branch" => Len(Program(job)) = n + 3
      BY <1>1, <2>1, StraightCode DEF Straight
    <3>2. n \in Nat
      BY DEF Takes
    <3> HIDE DEF n
    <3> QED BY <2>1, <3>1, <3>2
  <2>3. mem["r"] = Decision(job)
    <3>1. o.eip.at = eip.at
      OBVIOUS
    <3> HIDE DEF o
    <3> QED BY <1>1, <2>1, <2>2, <3>1 DEF Follows, SetAt, MoveAt, BranchAt
  <2>4. Condition(job.cc, Compared(job)) <=> Relation(job)
    BY <1>1, <2>1, Decided
  <2> HIDE DEF Relation, Condition
  <2> QED BY <2>3, <2>4 DEF Decision, B
<1>2. ASSUME Finished, job.program = "float_compare"
      PROVE  job \in Jobs /\ mem["r"] = B(Condition(job.cc, Weighed(job)))
  <2>1. /\ job \in Jobs /\ Follows(job, o, mem, fpu)
        /\ eip.at = Len(Program(job)) + 1
    BY <1>2, AtTheEnd DEF Straight
  <2>2. Len(Program(job)) = 6
    BY <1>2, <2>1, StraightCode DEF Straight
  <2>3. eip.at = 7 /\ 7 \in 6 .. 7 /\ o.flags = flags /\ o.eip.at = eip.at
    BY <2>1, <2>2
  <2> HIDE DEF o
  <2> QED
    BY <1>2, <2>1, <2>3 DEF Follows, FloatCompareAt
<1>3. ASSUME Finished, job.program = "float_compare",
             IsNaN(job.in["a"]) \/ IsNaN(job.in["b"]), job.cc \in {"a", "b"}
      PROVE  mem["r"] # 1
  <2>1. ~Condition(job.cc, Weighed(job))
    BY <1>2, <1>3, FloatUnordered
  <2> HIDE DEF Condition
  <2> QED BY <1>2, <1>3, <2>1 DEF B
<1>4. ASSUME Finished, job.program = "float_compare",
             ~IsNaN(job.in["a"]), ~IsNaN(job.in["b"])
      PROVE  LET a == Ordered(job.in["a"])
                 b == Ordered(job.in["b"])
             IN  mem["r"] = 1 <=> [a |-> a > b, ae |-> a >= b, b |-> a < b, e |-> a = b,
                                   ne |-> a # b][job.cc]
  <2> DEFINE a == Ordered(job.in["a"])
             b == Ordered(job.in["b"])
             r == [a |-> a > b, ae |-> a >= b, b |-> a < b, e |-> a = b, ne |-> a # b]
  <2>5. Condition(job.cc, Weighed(job)) <=> r[job.cc]
    BY <1>2, <1>4, FloatDecided
  <2> HIDE DEF Condition, r
  <2>6. mem["r"] = 1 <=> r[job.cc]
    BY <1>2, <1>4, <2>5 DEF B
  <2> QED BY <2>6 DEF r
<1> QED BY <1>1, <1>3, <1>4 DEF ComparesRight

(* ComparesRight: whatever the width, the operands, the condition and the  *)
(* interrupts, a comparison used as a value says what the relation is.     *)
THEOREM ComparisonsRight == Spec => []ComparesRight
<1> QED BY Computation, FinishedCompare, PTL

-----------------------------------------------------------------------------
(* Arithmetic modulo 2^64: a number of two longs is the remainder of what  *)
(* it differs from by a multiple.                                          *)
LEMMA AtLeast ==
  ASSUME NEW W \in Nat, W > 0, NEW k \in Int, k >= 1
  PROVE  W * k >= W
<1> DEFINE i == k - 1
           P == W * i
<1>1. i \in Nat /\ k = i + 1
  OBVIOUS
<1>2. P \in Nat
  <2> HIDE DEF i
  <2> QED BY <1>1
<1>3. W * k = P + W
  OBVIOUS
<1> HIDE DEF P
<1> QED BY <1>2, <1>3

LEMMA OneRemainder ==
  ASSUME NEW W \in Nat, W > 0, NEW q \in Int, NEW r \in 0 .. W - 1,
         NEW d \in Int, NEW s \in 0 .. W - 1, W * q + r = W * d + s
  PROVE  r = s
<1> DEFINE P == W * q
           Q == W * d
           k == q - d
           l == d - q
<1>1. P \in Int /\ Q \in Int /\ P + r = Q + s
  OBVIOUS
<1>2. W * k = P - Q /\ W * l = Q - P /\ k \in Int /\ l \in Int
  OBVIOUS
<1>3. k >= 1 => P - Q >= W
  <2> HIDE DEF k, l, P, Q
  <2> QED BY <1>2, AtLeast
<1>4. l >= 1 => Q - P >= W
  <2> HIDE DEF k, l, P, Q
  <2> QED BY <1>2, AtLeast
<1>5. k >= 1 \/ l >= 1 \/ k = 0
  OBVIOUS
<1>6. k = 0 => P = Q
  OBVIOUS
<1> HIDE DEF P, Q, k, l
<1>7. ~(k >= 1) /\ ~(l >= 1)
  BY <1>1, <1>3, <1>4
<1> QED BY <1>1, <1>5, <1>6, <1>7

LEMMA Remainder ==
  ASSUME NEW W \in Nat, W > 0, NEW x \in Int, NEW q \in Int, NEW r \in 0 .. W - 1,
         x = W * q + r
  PROVE  x % W = r
<1> DEFINE d == x \div W
           s == x % W
<1>1. d \in Int /\ s \in 0 .. W - 1 /\ x = W * d + s
  OBVIOUS
<1> HIDE DEF d, s
<1>2. W * q + r = W * d + s
  BY <1>1
<1>3. r = s
  BY <1>1, <1>2, OneRemainder
<1> QED BY <1>3 DEF s

Whole == 4 * LongHalf * LongHalf

LEMMA WholeIs ==
  /\ Whole \in Nat /\ Whole > 0
  /\ Whole = (2 * LongHalf) * (2 * LongHalf)
  /\ \A c \in Int : 2 * LongHalf * (2 * LongHalf) * c = Whole * c
<1> DEFINE L == LongHalf
           P == L * L
<1>1. L \in Nat /\ L >= 1
  BY HalvesAssumption
<1>2. P \in Nat /\ P > 0
  <2> HIDE DEF L
  <2>1. L * L >= L
    BY <1>1, AtLeast
  <2> QED BY <1>1, <2>1
<1>3. Whole = 4 * P /\ (2 * L) * (2 * L) = 4 * P
  BY <1>1 DEF Whole
<1>4. Whole \in Nat /\ Whole > 0
  <2> HIDE DEF P
  <2> QED BY <1>2, <1>3
<1>5. ASSUME NEW c \in Int PROVE 2 * LongHalf * (2 * LongHalf) * c = Whole * c
  BY <1>1 DEF Whole
<1> QED BY <1>3, <1>4, <1>5

LEMMA DoubleTyped ==
  ASSUME NEW l \in Longs, NEW h \in Longs
  PROVE  WideOf(l, h) \in 0 .. Whole - 1 /\ WideOf(l, h) = Double(l, h)
<1> DEFINE M == 2 * LongHalf
           i == M - 1 - h
           P == M * h
           Q == M * i
<1>1. M \in Nat /\ l \in 0 .. M - 1 /\ h \in 0 .. M - 1
  BY HalvesAssumption DEF Longs
<1>2. WideOf(l, h) = l + P /\ Double(l, h) = l + P
  BY DEF WideOf, Double
<1>3. Whole = M * M
  BY WholeIs
<1> HIDE DEF M
<1>4. i \in Nat /\ h \in Nat
  BY <1>1
<1>5. P + Q = M * M - M
  BY <1>1
<1>6. P \in Nat /\ Q \in Nat
  <2> HIDE DEF i
  <2> QED BY <1>1, <1>4
<1> DEFINE N == M * M
<1> HIDE DEF P, Q, i
<1>7. N \in Int /\ P + Q = N - M
  BY <1>1, <1>5
<1> HIDE DEF N
<1>8. l + P \in 0 .. N - 1
  BY <1>1, <1>6, <1>7
<1> QED BY <1>2, <1>3, <1>8 DEF N

(* A sum or difference is exact, and its carry tells when it did not fit.  *)
LEMMA WideRight ==
  ASSUME NEW j \in Jobs, j.program \in {"sum", "difference"}
  PROVE  /\ WideOf(Low(j).val, High(j).val) = WideExpected(j) % Whole
         /\ B(Condition("c", High(j).flags)) = 1
              <=> WideExpected(j) \notin 0 .. Whole - 1
<1> DEFINE al == j.in["a"]
           ah == j.in["A"]
           bl == j.in["b"]
           bh == j.in["B"]
           x == WideExpected(j)
           l == Low(j)
           h == High(j)
           D == WideOf(l.val, h.val)
           c == h.flags.CF
<1>1. al \in Longs /\ ah \in Longs /\ bl \in Longs /\ bh \in Longs
  BY InputsAssumption
<1>2. Start \in Flags
  BY DEF Start, Flags, Bit
<1>3. /\ j.program = "sum" => x = WideOf(al, ah) + WideOf(bl, bh)
      /\ j.program = "difference" => x = WideOf(al, ah) - WideOf(bl, bh)
  BY DEF WideExpected
<1>4. B(Condition("c", h.flags)) = 1 <=> c = 1
  <2> HIDE DEF h
  <2>1. Condition("c", h.flags) <=> c = 1
    BY DEF Condition
  <2> HIDE DEF Condition
  <2> QED BY <2>1 DEF B
<1> HIDE DEF al, ah, bl, bh, x
<1>5. /\ WideOf(al, ah) = Double(al, ah) /\ WideOf(bl, bh) = Double(bl, bh)
      /\ WideOf(al, ah) \in Int /\ WideOf(bl, bh) \in Int
  <2>1. /\ WideOf(al, ah) \in 0 .. Whole - 1 /\ WideOf(al, ah) = Double(al, ah)
        /\ WideOf(bl, bh) \in 0 .. Whole - 1 /\ WideOf(bl, bh) = Double(bl, bh)
    BY <1>1, DoubleTyped
  <2> QED BY <2>1
<1>6. x \in Int
  BY <1>3, <1>5
<1>7. CASE j.program = "sum"
  <2>1. l = alu_add(bl, al, Start) /\ h = alu_adc(bh, ah, l.flags)
    BY <1>7 DEF Low, High, al, ah, bl, bh
  <2> HIDE DEF l, h
  <2>2. l.val \in Longs /\ l.flags \in Flags
    BY <1>1, <1>2, <2>1, AddExact
  <2>3. h.val \in Longs /\ h.flags \in Flags
    BY <1>1, <2>1, <2>2, AdcExact
  <2>4. c \in {0, 1}
    BY <2>3 DEF Flags, Bit
  <2>5. Double(al, ah) + Double(bl, bh)
          = Double(l.val, h.val) + 2 * LongHalf * (2 * LongHalf) * h.flags.CF
    BY <1>1, <1>2, <2>1, WideSumExact
  <2>6. D \in 0 .. Whole - 1 /\ D = Double(l.val, h.val)
    BY <2>2, <2>3, DoubleTyped
  <2>7. 2 * LongHalf * (2 * LongHalf) * c = Whole * c
    BY <2>4, WholeIs
  <2> HIDE DEF c
  <2>8. x = D + Whole * c
    BY <1>3, <1>5, <1>7, <2>5, <2>6, <2>7 DEF c
  <2>9. x = Whole * c + D /\ c \in Int /\ Whole \in Nat /\ Whole > 0 /\ D \in Int
    BY <2>4, <2>6, <2>8, WholeIs
  <2> HIDE DEF D
  <2>10. x % Whole = D
    BY <1>6, <2>6, <2>9, Remainder
  <2>11. (c = 0 => x = D) /\ (c = 1 => x = D + Whole)
    BY <2>9
  <2>12. c = 1 <=> x \notin 0 .. Whole - 1
    BY <2>4, <2>6, <2>9, <2>11
  <2> QED BY <1>4, <2>10, <2>12 DEF D, x, l, h, c
<1>8. CASE j.program = "difference"
  <2>1. l = alu_sub(bl, al, Start) /\ h = alu_sbb(bh, ah, l.flags)
    BY <1>8 DEF Low, High, al, ah, bl, bh
  <2> HIDE DEF l, h
  <2>2. l.val \in Longs /\ l.flags \in Flags
    BY <1>1, <1>2, <2>1, SubExact
  <2>3. h.val \in Longs /\ h.flags \in Flags
    BY <1>1, <2>1, <2>2, SbbExact
  <2>4. c \in {0, 1}
    BY <2>3 DEF Flags, Bit
  <2>5. Double(al, ah) - Double(bl, bh)
          = Double(l.val, h.val) - 2 * LongHalf * (2 * LongHalf) * h.flags.CF
    BY <1>1, <1>2, <2>1, WideDifferenceExact
  <2>6. D \in 0 .. Whole - 1 /\ D = Double(l.val, h.val)
    BY <2>2, <2>3, DoubleTyped
  <2>7. 2 * LongHalf * (2 * LongHalf) * c = Whole * c
    BY <2>4, WholeIs
  <2> HIDE DEF c
  <2>8. x = D - Whole * c
    BY <1>3, <1>5, <1>8, <2>5, <2>6, <2>7 DEF c
  <2>9. c \in Int /\ -c \in Int /\ Whole \in Nat /\ Whole > 0 /\ D \in Int
    BY <2>4, <2>6, WholeIs
  <2> HIDE DEF D
  <2>10. x = Whole * (-c) + D
    BY <2>8, <2>9
  <2>11. x % Whole = D
    BY <1>6, <2>6, <2>9, <2>10, Remainder
  <2>12. (c = 0 => x = D) /\ (c = 1 => x = D - Whole)
    BY <2>8, <2>9
  <2>13. c = 1 <=> x \notin 0 .. Whole - 1
    BY <2>4, <2>6, <2>9, <2>12
  <2> QED BY <1>4, <2>11, <2>13 DEF D, x, l, h, c
<1> QED BY <1>7, <1>8

(* A negation, its carries c and e counted.                                *)
LEMMA NegationRight ==
  ASSUME NEW j \in Jobs, j.program = "negation"
  PROVE  WideOf(NegLow(j).val, NegHigh(j)) = WideExpected(j) % Whole
<1> DEFINE al == j.in["a"]
           ah == j.in["A"]
           M == 2 * LongHalf
           x == WideExpected(j)
           low == NegLow(j).val
           f == NegLow(j).flags
           c == f.CF
           v == Carried(j).val
           d == Carried(j).flags.CF
           high == NegHigh(j)
           e == IF v = 0 THEN 0 ELSE 1
<1>1. al \in Longs /\ ah \in Longs /\ M \in Nat /\ M > 0
  BY InputsAssumption, HalvesAssumption
<1>2. x = -WideOf(al, ah)
  BY DEF WideExpected
<1>3. NegLow(j) = neg(al, Start) /\ Carried(j) = alu_adc(0, ah, f)
  BY DEF NegLow, Carried
<1>4. high = Wrap(-v)
  BY DEF NegHigh, neg
<1>5. low = Wrap(-al) /\ c = (IF al = 0 THEN 0 ELSE 1) /\ f \in Flags
  <2> DEFINE g == [Start EXCEPT !.CF = B(al # 0), !.ZF = B(al = 0), !.OF = 0,
                                !.SF = B(0 < al /\ al < LongHalf)]
  <2>1. low = Wrap(-al) /\ f = g
    <3> HIDE DEF al
    <3> QED BY <1>3 DEF neg
  <2>2. /\ B(al # 0) \in Bit /\ B(al = 0) \in Bit /\ 0 \in Bit
        /\ B(0 < al /\ al < LongHalf) \in Bit
    BY DEF B, Bit
  <2>3. Start \in Flags
    BY DEF Start, Flags, Bit
  <2>4. g \in Flags /\ g.CF = B(al # 0)
    <3> HIDE DEF al, B, Bit, Start
    <3> QED BY <2>2, <2>3 DEF Flags
  <2> HIDE DEF g
  <2> QED BY <2>1, <2>4 DEF B
<1> HIDE DEF al, ah, low, f, x, high
<1>6. /\ v \in Longs /\ Carried(j).flags \in Flags /\ 0 \in Longs
      /\ ah + 0 + c = v + M * d
  <2>1. 0 \in Longs
    BY HalvesAssumption DEF Longs
  <2> QED BY <1>1, <1>3, <1>5, <2>1, AdcExact
<1>7. c \in {0, 1} /\ d \in {0, 1} /\ e \in {0, 1}
  BY <1>5, <1>6 DEF Flags, Bit
<1> HIDE DEF v, d, c
<1>8. low \in Longs /\ low = M * c - al
  BY <1>1, <1>5, HalvesAssumption DEF Wrap, Longs
<1>9. high \in Longs /\ high = M * e - v
  BY <1>4, <1>6, HalvesAssumption DEF Wrap, Longs
<1> HIDE DEF e
<1> DEFINE D == WideOf(low, high)
           q == -(d + e)
<1>10. D \in 0 .. Whole - 1 /\ Whole \in Nat /\ Whole > 0 /\ Whole = M * M
  BY <1>8, <1>9, DoubleTyped, WholeIs
<1>11. /\ al \in Int /\ ah \in Int /\ low \in Int /\ high \in Int /\ v \in Int
       /\ M \in Int /\ c \in Int /\ d \in Int /\ e \in Int
  <2>1. \A i \in Longs : i \in Int
    BY HalvesAssumption DEF Longs
  <2>2. low \in Longs /\ high \in Longs /\ v \in Longs /\ M \in Int
    BY <1>1, <1>6, <1>8, <1>9
  <2> HIDE DEF M
  <2>3. c \in Int /\ d \in Int /\ e \in Int
    BY <1>7
  <2>4. /\ al \in Int /\ ah \in Int
        /\ low \in Int /\ high \in Int /\ v \in Int
    BY <1>1, <2>1, <2>2
  <2> QED BY <2>2, <2>3, <2>4
<1>12. D = low + M * high /\ WideOf(al, ah) = al + M * ah
  BY DEF WideOf
<1> HIDE DEF M, D
<1>13. -(al + M * ah) = (M * M) * q + (low + M * high)
  <2>1. v = ah + c - M * d
    <3> DEFINE P == M * d
    <3>1. P \in Int
      BY <1>11
    <3> HIDE DEF P
    <3>2. ah + 0 + c = v + P
      BY <1>6 DEF P
    <3>3. v = ah + c - P
      BY <1>11, <3>1, <3>2
    <3> QED BY <3>3 DEF P
  <2>2. high = M * e - (ah + c - M * d)
    BY <1>9, <2>1
  <2>3. low + M * high = (M * c - al) + M * (M * e - (ah + c - M * d))
    BY <1>8, <2>2
  <2>4. (M * c - al) + M * (M * e - (ah + c - M * d))
        = (M * M) * (d + e) - (al + M * ah)
    BY <1>11
  <2> DEFINE w == (M * M) * (d + e)
             y == al + M * ah
  <2>5. w \in Int /\ y \in Int /\ (M * M) * q = -w
    BY <1>11
  <2>6. low + M * high = w - y
    BY <2>3, <2>4
  <2> HIDE DEF w, y, q
  <2>7. -y = -w + (low + M * high)
    BY <2>5, <2>6
  <2> QED BY <2>5, <2>7 DEF y
<1>14. x = Whole * q + D
  BY <1>2, <1>10, <1>12, <1>13
<1>15. x \in Int /\ q \in Int
  <2>1. q \in Int
    BY <1>11
  <2> HIDE DEF q
  <2> QED BY <1>10, <1>14, <2>1
<1> HIDE DEF q
<1>16. x % Whole = D
  BY <1>10, <1>14, <1>15, Remainder
<1> QED BY <1>16 DEF D, x, low, high

(* A product.  A number taken as signed differs from itself by a multiple  *)
(* of 2^32, so a low half is that of the unsigned product too.             *)
LEMMA CrossOf ==
  ASSUME NEW a \in Longs, NEW b \in Longs
  PROVE  /\ Cross(a, b) \in Longs
         /\ \E z \in Int : Cross(a, b) = a * b - 2 * LongHalf * z
<1> DEFINE M == 2 * LongHalf
           i == IF a >= LongHalf THEN 1 ELSE 0
           k == IF b >= LongHalf THEN 1 ELSE 0
           s == Signed(a)
           t == Signed(b)
           p == s * t
           q == p \div M
           z == a * k + b * i - M * (i * k) + q
<1>1. M \in Nat /\ M > 0 /\ a \in Int /\ b \in Int /\ i \in Int /\ k \in Int
  BY HalvesAssumption DEF Longs
<1>2. s = a - M * i /\ t = b - M * k
  BY HalvesAssumption DEF Longs, Signed
<1>3. s \in Int /\ t \in Int
  BY <1>1, HalvesAssumption DEF Signed
<1>4. Cross(a, b) = p % M
  BY DEF Cross
<1> HIDE DEF i, k, s, t, M
<1>5. p \in Int
  BY <1>3
<1>6. (a - M * i) * (b - M * k) = a * b - M * (a * k + b * i - M * (i * k))
  BY <1>1
<1>7. p = a * b - M * (a * k + b * i - M * (i * k))
  BY <1>2, <1>6
<1> HIDE DEF p
<1>8. q \in Int /\ p % M \in 0 .. M - 1 /\ p % M = p - M * q
  BY <1>1, <1>5
<1> HIDE DEF q
<1>9. z \in Int
  BY <1>1, <1>8
<1>10. p % M = a * b - M * z
  <2> DEFINE w == a * k + b * i - M * (i * k)
  <2>1. w \in Int /\ z = w + q
    BY <1>1
  <2> DEFINE ab == a * b
  <2>2. p = ab - M * w /\ ab \in Int
    BY <1>1, <1>7
  <2> HIDE DEF w, z, ab
  <2>3. M * z = M * w + M * q
    BY <1>1, <1>8, <2>1
  <2> DEFINE x == M * w
             y == M * q
  <2>4. x \in Int /\ y \in Int
    BY <1>1, <1>8, <2>1
  <2>5. p = ab - x /\ p % M = p - y /\ M * z = x + y
    BY <1>8, <2>2, <2>3
  <2> HIDE DEF x, y
  <2>6. p % M = ab - (x + y)
    <3>1. p - y = ab - (x + y)
      BY <2>2, <2>4, <2>5
    <3> QED BY <2>5, <3>1
  <2> QED BY <2>5, <2>6 DEF ab
<1> HIDE DEF z
<1>11. p % M \in Longs
  BY <1>8 DEF M, Longs
<1> QED BY <1>4, <1>9, <1>10, <1>11 DEF M

(* A sum of two longs cut to a long.                                       *)
LEMMA WrapOf ==
  ASSUME NEW a \in Longs, NEW b \in Longs
  PROVE  /\ Wrap(a + b) \in Longs
         /\ \E s \in Int : Wrap(a + b) = a + b - 2 * LongHalf * s
<1>1. Wrap(a + b) \in Longs
  BY HalvesAssumption DEF Longs, Wrap
<1>2. CASE a + b >= 2 * LongHalf
  <2>1. Wrap(a + b) = a + b - 2 * LongHalf * 1
    BY <1>2, HalvesAssumption DEF Longs, Wrap
  <2> QED BY <1>1, <2>1
<1>3. CASE ~(a + b >= 2 * LongHalf)
  <2>1. Wrap(a + b) = a + b - 2 * LongHalf * 0
    BY <1>3, HalvesAssumption DEF Longs, Wrap
  <2> QED BY <1>1, <2>1
<1> QED BY <1>2, <1>3

(* Both halves of the product of two longs.                                *)
LEMMA Halves ==
  ASSUME NEW a \in Longs, NEW b \in Longs
  PROVE  LET p == a * b
             M == 2 * LongHalf
         IN  /\ p % M \in Longs /\ p \div M \in Longs
             /\ p = (p % M) + M * (p \div M)
<1> DEFINE M == 2 * LongHalf
           p == a * b
           l == p % M
           h == p \div M
           i == M - 1 - a
           k == M - 1 - b
<1>1. /\ M \in Nat /\ M > 0 /\ a \in Nat /\ b \in Nat /\ i \in Nat /\ k \in Nat
      /\ Longs = 0 .. M - 1
  BY HalvesAssumption DEF Longs
<1> HIDE DEF M
<1>2. p \in Nat
  BY <1>1
<1>3. p < M * M
  <2> DEFINE x == M * i
             y == a * k
             w == M * M
  <2>0. a = M - 1 - i /\ b = M - 1 - k
    BY <1>1
  <2> HIDE DEF i, k
  <2>1. x \in Nat /\ y \in Nat /\ w \in Nat
    BY <1>1
  <2>2. a * (M - 1 - k) = a * M - a - y
    BY <1>1
  <2>3. M * (M - 1 - i) = w - M - x
    BY <1>1
  <2>4. p = M * a - a - y
    BY <1>1, <2>0, <2>2
  <2>5. M * a = w - M - x
    BY <2>0, <2>3
  <2> HIDE DEF x, y, w, p
  <2>6. p = w - M - x - a - y
    BY <2>4, <2>5
  <2> QED BY <1>1, <2>1, <2>6 DEF w
<1> DEFINE N == M * M
<1> HIDE DEF p
<1>4. l \in 0 .. M - 1 /\ h \in Int /\ p = l + M * h
  BY <1>1, <1>2
<1> HIDE DEF l, h
<1>5. h >= 0
  <2> SUFFICES ASSUME -h >= 1 PROVE FALSE
    BY <1>4
  <2> DEFINE g == -h
             y == M * g
  <2>1. g \in Int /\ g >= 1 /\ p = l - y
    BY <1>1, <1>4
  <2> HIDE DEF g
  <2>2. y >= M /\ y \in Int
    BY <1>1, <2>1, AtLeast
  <2> HIDE DEF y
  <2> QED BY <1>1, <1>2, <1>4, <2>1, <2>2
<1>6. h <= M - 1
  <2> SUFFICES ASSUME h - (M - 1) >= 1 PROVE FALSE
    BY <1>1, <1>4
  <2> DEFINE g == h - (M - 1)
             y == M * g
  <2>1. g \in Int /\ g >= 1
    BY <1>1, <1>4
  <2>2. M * h = y + M * M - M
    BY <1>1, <1>4
  <2> HIDE DEF g
  <2>3. y >= M /\ y \in Int /\ N \in Int
    BY <1>1, <2>1, AtLeast
  <2> DEFINE x == M * h
  <2>4. x = y + N - M /\ p = l + x /\ p < N
    BY <1>3, <1>4, <2>2
  <2> HIDE DEF y, x, N
  <2> QED BY <1>1, <1>4, <2>3, <2>4
<1>7. h \in 0 .. M - 1
  BY <1>1, <1>4, <1>5, <1>6
<1> QED BY <1>1, <1>4, <1>7 DEF l, h, p, M

LEMMA ProductRight ==
  ASSUME NEW j \in Jobs, j.program = "product"
  PROVE  WideOf(ProductLow(j), ProductHigh(j)) = WideExpected(j) % Whole
<1> DEFINE al == j.in["a"]
           ah == j.in["A"]
           bl == j.in["b"]
           bh == j.in["B"]
           M == 2 * LongHalf
           x == WideExpected(j)
           low == ProductLow(j)
           k == Carry(j)
           c == Cross(bl, ah)
           d == Cross(al, bh)
           m == Crossed(j)
           high == ProductHigh(j)
<1>1. /\ al \in Longs /\ ah \in Longs /\ bl \in Longs /\ bh \in Longs
      /\ M \in Nat /\ M > 0
  BY InputsAssumption, HalvesAssumption
<1>2. x = (al + M * ah) * (bl + M * bh)
  BY DEF WideExpected, WideOf
<1>3. low = (bl * al) % M /\ k = (bl * al) \div M
  BY DEF ProductLow, Carry
<1>4. m = Wrap(c + d) /\ high = Wrap(k + m)
  BY DEF Crossed, ProductHigh
<1> HIDE DEF al, ah, bl, bh, x, low, k, c, d, m, high
<1>5. low \in Longs /\ k \in Longs /\ bl * al = low + M * k
  BY <1>1, <1>3, Halves
<1>6. c \in Longs /\ d \in Longs
  BY <1>1, CrossOf DEF c, d
<1>7. PICK y \in Int : c = bl * ah - M * y
  BY <1>1, CrossOf DEF c
<1>8. PICK z \in Int : d = al * bh - M * z
  BY <1>1, CrossOf DEF d
<1>9. m \in Longs
  BY <1>4, <1>6, WrapOf
<1>10. PICK s \in Int : m = c + d - M * s
  BY <1>4, <1>6, WrapOf
<1>11. high \in Longs
  BY <1>4, <1>5, <1>9, WrapOf
<1>12. PICK t \in Int : high = k + m - M * t
  BY <1>4, <1>5, <1>9, WrapOf
<1>13. /\ al \in Int /\ ah \in Int /\ bl \in Int /\ bh \in Int
       /\ low \in Int /\ k \in Int /\ c \in Int /\ d \in Int /\ m \in Int
       /\ high \in Int
  <2>1. \A i \in Longs : i \in Int
    BY HalvesAssumption DEF Longs
  <2> HIDE DEF M
  <2> QED BY <1>1, <1>5, <1>6, <1>9, <1>11, <2>1
<1> DEFINE D == WideOf(low, high)
           q == ah * bh + (y + z + s + t)
<1>14. D \in 0 .. Whole - 1 /\ Whole \in Nat /\ Whole > 0 /\ Whole = M * M
  BY <1>5, <1>11, DoubleTyped, WholeIs
<1>15. D = low + M * high
  BY DEF WideOf
<1> HIDE DEF M, D
<1> DEFINE p == bl * al
           e == bl * ah
           f == al * bh
           g == ah * bh
<1>16. x = p + M * (e + f) + (M * M) * g
  BY <1>1, <1>2, <1>13
<1>17. p \in Int /\ e \in Int /\ f \in Int /\ g \in Int
  BY <1>13
<1>18. p = low + M * k /\ c = e - M * y /\ d = f - M * z
  BY <1>5, <1>7, <1>8
<1> HIDE DEF p, e, f, g
<1>19. high = k + (((e - M * y) + (f - M * z)) - M * s) - M * t
  <2>1. m = ((e - M * y) + (f - M * z)) - M * s
    <3> DEFINE My == M * y
               Mz == M * z
               Ms == M * s
    <3>1. c = e - My /\ d = f - Mz /\ m = c + d - Ms
      BY <1>10, <1>18
    <3>2. My \in Int /\ Mz \in Int /\ Ms \in Int
      BY <1>1
    <3> HIDE DEF My, Mz, Ms
    <3>3. m = ((e - My) + (f - Mz)) - Ms
      BY <1>13, <1>17, <3>1, <3>2
    <3> QED BY <3>3 DEF My, Mz, Ms
  <2> QED BY <1>12, <2>1, Zenon
<1>20. M * high = M * k + M * (e + f) - (M * M) * (y + z + s + t)
  BY <1>1, <1>13, <1>17, <1>19
<1> DEFINE u == M * (e + f)
           w == M * k
           r == y + z + s + t
           v == (M * M) * r
<1>21. u \in Int /\ w \in Int /\ r \in Int /\ v \in Int /\ M * M \in Int
  BY <1>1, <1>13, <1>17
<1>22. D = p + u - v
  <2>1. D = low + (w + u - v) /\ p = low + w
    BY <1>15, <1>18, <1>20
  <2> HIDE DEF u, v, w, r
  <2> QED BY <1>13, <1>17, <1>21, <2>1
<1>23. x = (M * M) * (g + r) + D
  <2>1. (M * M) * (g + r) = (M * M) * g + v
    BY <1>1, <1>17, <1>21
  <2> DEFINE h == (M * M) * g
  <2>2. h \in Int /\ x = p + u + h /\ (M * M) * (g + r) = h + v
    BY <1>1, <1>16, <1>17, <2>1
  <2> DEFINE n == (M * M) * (g + r)
  <2>3. n = h + v /\ x = p + u + h
    BY <2>2
  <2> HIDE DEF u, v, h, n, r
  <2>4. x = n + D
    BY <1>17, <1>21, <1>22, <2>2, <2>3
  <2> QED BY <2>4 DEF n
<1>24. g + r \in Int
  BY <1>17, <1>21
<1> DEFINE i == g + r
<1> HIDE DEF r, i
<1>25. x = Whole * i + D /\ i \in Int
  BY <1>14, <1>23, <1>24 DEF i
<1>26. x \in Int
  BY <1>14, <1>25
<1>27. x % Whole = D
  BY <1>14, <1>25, <1>26, Remainder
<1> QED BY <1>27 DEF D, x, low, high

LEMMA FinishedWide ==
  ASSUME Computing
  PROVE  WideExact
<1> DEFINE o == [gpr |-> gpr, flags |-> flags, eip |-> eip]
<1>1. ASSUME Finished, job.program \in {"sum", "difference", "negation", "product"}
      PROVE  /\ job \in Jobs /\ Follows(job, o, mem, fpu) /\ o.eip.at = eip.at
             /\ job.program # "product" => eip.at = 8
             /\ job.program = "product" => eip.at = 13
  <2>1. /\ job \in Jobs /\ Follows(job, o, mem, fpu)
        /\ eip.at = Len(Program(job)) + 1
    BY <1>1, AtTheEnd DEF Straight
  <2>2. /\ job.program # "product" => Len(Program(job)) = 7
        /\ job.program = "product" => Len(Program(job)) = 12
    <3> HIDE DEF o
    <3> QED BY <1>1, <2>1, StraightCode DEF Straight
  <2>3. o.eip.at = eip.at
    OBVIOUS
  <2> HIDE DEF o
  <2>4. ASSUME job.program # "product" PROVE eip.at = 8
    <3>1. Len(Program(job)) = 7
      BY <2>2, <2>4
    <3> QED BY <2>1, <3>1
  <2>5. ASSUME job.program = "product" PROVE eip.at = 13
    <3>1. Len(Program(job)) = 12
      BY <2>2, <2>5
    <3> QED BY <2>1, <3>1
  <2> QED BY <2>1, <2>3, <2>4, <2>5
<1> HIDE DEF o
<1>2. Whole = 4 * LongHalf * LongHalf
  BY DEF Whole
<1>3. ASSUME Finished, job.program \in {"sum", "difference"}
      PROVE  /\ WideOf(mem["r"], mem["R"]) = WideExpected(job) % Whole
             /\ mem["c"] = 1 <=> WideExpected(job) \notin 0 .. Whole - 1
  <2>1. WideAt(job, o.gpr, o.flags, 8, mem) /\ job \in Jobs
    BY <1>1, <1>3 DEF Follows
  <2>2. /\ mem["r"] = Low(job).val /\ mem["R"] = High(job).val
        /\ mem["c"] = B(Condition("c", High(job).flags))
    BY <2>1 DEF WideAt
  <2>3. /\ WideOf(Low(job).val, High(job).val) = WideExpected(job) % Whole
        /\ B(Condition("c", High(job).flags)) = 1
             <=> WideExpected(job) \notin 0 .. Whole - 1
    BY <1>3, <2>1, WideRight
  <2> HIDE DEF WideOf, WideExpected, Condition, B, Whole
  <2> QED BY <2>2, <2>3
<1>4. ASSUME Finished, job.program = "negation"
      PROVE  WideOf(mem["r"], mem["R"]) = WideExpected(job) % Whole
  <2>1. NegationAt(job, o.gpr, o.flags, 8, mem) /\ job \in Jobs
    BY <1>1, <1>4 DEF Follows
  <2>2. mem["r"] = NegLow(job).val /\ mem["R"] = NegHigh(job)
    BY <2>1 DEF NegationAt
  <2>3. WideOf(NegLow(job).val, NegHigh(job)) = WideExpected(job) % Whole
    BY <1>4, <2>1, NegationRight
  <2> QED BY <2>2, <2>3
<1>5. ASSUME Finished, job.program = "product"
      PROVE  WideOf(mem["r"], mem["R"]) = WideExpected(job) % Whole
  <2>1. ProductAt(job, o.gpr, 13, mem) /\ job \in Jobs
    BY <1>1, <1>5 DEF Follows
  <2>2. mem["r"] = ProductLow(job) /\ mem["R"] = ProductHigh(job)
    BY <2>1 DEF ProductAt
  <2>3. WideOf(ProductLow(job), ProductHigh(job)) = WideExpected(job) % Whole
    BY <1>5, <2>1, ProductRight
  <2> QED BY <2>2, <2>3
<1> QED BY <1>2, <1>3, <1>4, <1>5 DEF WideExact

(* WideExact: whatever the width, the operands and the interrupts, a       *)
(* 64-bit sum, difference, negation or product put together from 32-bit    *)
(* instructions is the exact one modulo 2^64, and the carry that is left   *)
(* says whether it fitted.                                                 *)
THEOREM WideIsExact == Spec => []WideExact
<1> QED BY Computation, FinishedWide, PTL
=============================================================================
