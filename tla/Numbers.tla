------------------------------- MODULE Numbers --------------------------------
(***************************************************************************)
(* Numbers computed in integers: binary64 arithmetic on a target without   *)
(* it (softfloat.rs), what the language does with doubles (value.rs,       *)
(* numeric.rs), and the integers of BigInt (bigint.rs).                    *)
(*                                                                         *)
(* The widths are constants, so that a run goes through every pattern of a *)
(* small format.  A double is its bits, a natural number; what the code    *)
(* does with shifts and masks is division and remainder here.              *)
(***************************************************************************)
EXTENDS Integers, Sequences, SequencesExt

CONSTANTS
    FractionBits,     \* 52
    ExponentBits,     \* 11
    HalfWord,         \* half the bits of a machine word, 32
    SingleFraction,   \* 23
    SingleExponent,   \* 8
    IntegerBits,      \* 32: those of an exact integer
    RootTurns,        \* 24
    LimbBits,         \* 32: those of a limb of a BigInt
    MaxLimbs          \* 128: limbs of a value in the heap

Word   == 2 ^ (2 * HalfWord)
Hidden == 2 ^ FractionBits
Sign   == 2 ^ (FractionBits + ExponentBits)
TopExponent == 2 ^ ExponentBits - 1
Bias   == 2 ^ (ExponentBits - 1) - 1
Lowest == 1 - Bias - FractionBits        \* the exponent of the last bit of a subnormal
Infinity == TopExponent * Hidden
QuietNaN == Infinity + Hidden \div 2
Zero == 0

Max2(a, b) == IF a > b THEN a ELSE b
Min2(a, b) == IF a < b THEN a ELSE b
Abs(a) == IF a < 0 THEN -a ELSE a

\* The bits v has, and the zeros before them in a word.
Width(v) == CHOOSE w \in 0 .. 30 : v < 2 ^ w /\ (w = 0 \/ v >= 2 ^ (w - 1))
LeadingZeros(v) == 2 * HalfWord - Width(v)

Signed(negative, magnitude) == IF negative THEN Sign + magnitude ELSE magnitude
Negative(bits)  == bits >= Sign
Magnitude(bits) == bits % Sign

----------------------------------------------------------------------------
(* Binary arithmetic.                                                      *)

\* A double taken apart: its value is significand * 2^exponent.
Decomposed(negative, class, exponent, significand) ==
    [negative |-> negative, class |-> class, exponent |-> exponent, significand |-> significand]
Fields(negative, biased, fraction) ==
    CASE biased = TopExponent -> Decomposed(negative, IF fraction = 0 THEN "Infinite" ELSE "NaN", 0, fraction)
      [] biased = 0           -> Decomposed(negative, IF fraction = 0 THEN "Zero" ELSE "Finite", Lowest, fraction)
      [] OTHER                -> Decomposed(negative, "Finite", biased - Bias - FractionBits, fraction + Hidden)
decompose(bits) == Fields(Negative(bits), (bits \div Hidden) % (TopExponent + 1), bits % Hidden)

\* A value to be rounded: sticky says that bits under the significand were lost.
Exact(negative, exponent, significand, sticky) ==
    [negative |-> negative, exponent |-> exponent, significand |-> significand, sticky |-> sticky]

\* places bits dropped from the end, or zeros put there.
Dropped(f, places) ==
    IF places <= 0 THEN f
    ELSE Exact(f.negative, f.exponent + places, f.significand \div 2 ^ places,
               f.sticky \/ f.significand % 2 ^ places # 0)
Lifted(f, places) == [f EXCEPT !.exponent = @ - places, !.significand = @ * 2 ^ places]

\* One bit more than the format holds is kept to round by, and fewer where the
\* double is subnormal.
Fitted(f, spare) == IF spare > 0 THEN Lifted(f, spare) ELSE Dropped(f, -spare)
Subnormal(f) == Dropped(f, Lowest - 1 - f.exponent)

\* To nearest and even.  A carry out of the fraction steps the exponent.
RoundedHalf(half, f) == half + (IF f.significand % 2 = 1 /\ (f.sticky \/ half % 2 = 1) THEN 1 ELSE 0)
Packed(value, biased) ==
    IF value # 0 /\ biased >= TopExponent THEN Infinity
    ELSE IF value < Hidden THEN value ELSE (value % Hidden) + biased * Hidden
Stepped(value, biased) == Packed(value, IF value = 2 * Hidden THEN biased + 1 ELSE biased)
Encoded(f) == Stepped(RoundedHalf(f.significand \div 2, f), f.exponent + 1 + Bias + FractionBits)

assemble(f) ==
    Signed(f.negative,
           IF f.significand = 0 /\ ~f.sticky THEN 0
           ELSE Encoded(Subnormal(Fitted(f, FractionBits + 2 - Width(f.significand)))))

\* Three bits below the significands are kept while they are aligned; what is
\* lost beyond them is a residue of the smaller one.
SumAligned(high, low, wide, aligned, lost) ==
    IF high.negative = low.negative
    THEN Dropped(Exact(high.negative, high.exponent - 3, wide + aligned, lost), IF wide + aligned >= Word THEN 1 ELSE 0)
    ELSE IF aligned = wide /\ ~lost THEN Exact(FALSE, 0, 0, FALSE)
    ELSE LET rest == wide - aligned - (IF lost THEN 1 ELSE 0)
         IN Exact(high.negative # (rest < 0), high.exponent - 3, Abs(rest), lost)
SumShifted(high, low, shift) ==
    IF shift >= 2 * HalfWord THEN SumAligned(high, low, high.significand * 8, 0, low.significand # 0)
    ELSE SumAligned(high, low, high.significand * 8, (low.significand * 8) \div 2 ^ shift,
                    (low.significand * 8) % 2 ^ shift # 0)
SumOrdered(high, low) == SumShifted(high, low, high.exponent - low.exponent)
IsAbove(a, b) == a.exponent > b.exponent \/ (a.exponent = b.exponent /\ a.significand >= b.significand)
AddFinite(a, b) == assemble(SumOrdered(IF IsAbove(a, b) THEN a ELSE b, IF IsAbove(a, b) THEN b ELSE a))

AddDecomposed(left, right, a, b) ==
    CASE "NaN" \in {a.class, b.class} -> QuietNaN
      [] a.class = "Infinite" /\ b.class = "Infinite" -> IF a.negative # b.negative THEN QuietNaN ELSE left
      [] a.class = "Infinite" /\ b.class \in {"Zero", "Finite"} -> left
      [] b.class = "Infinite" /\ a.class \in {"Zero", "Finite"} -> right
      [] a.class = "Zero" /\ b.class = "Zero" -> IF a.negative = b.negative THEN left ELSE Zero
      [] a.class = "Zero" /\ b.class = "Finite" -> right
      [] a.class = "Finite" /\ b.class = "Zero" -> left
      [] OTHER -> AddFinite(a, b)
add_bits(left, right) == AddDecomposed(left, right, decompose(left), decompose(right))

sub(left, right) == add_bits(left, Signed(~Negative(right), Magnitude(right)))

\* A product of two words, as two words, from the products of their halves.
Carried2(low, middle, high) ==
    [low |-> low % Word, high |-> high + (middle % Word) \div 2 ^ HalfWord + (middle \div Word) * 2 ^ HalfWord + low \div Word]
Summed(low, middle, high) == Carried2(low + (middle % 2 ^ HalfWord) * 2 ^ HalfWord, middle, high)
wide_multiply(left, right) ==
    LET half == 2 ^ HalfWord
    IN Summed((left % half) * (right % half),
              (left % half) * (right \div half) + (left \div half) * (right % half),
              (left \div half) * (right \div half))

\* A significand of two words in a double.
fold(negative, exponent, p) ==
    assemble(IF p.high = 0 THEN Exact(negative, exponent, p.low, FALSE)
             ELSE Dropped(Exact(negative, exponent, p.high * Word + p.low, FALSE),
                          2 * HalfWord + Width(p.high) - (FractionBits + 2)))

MulDecomposed(negative, a, b) ==
    CASE "NaN" \in {a.class, b.class} -> QuietNaN
      [] {a.class, b.class} = {"Infinite", "Zero"} -> QuietNaN
      [] {a.class, b.class} \in {{"Infinite"}, {"Infinite", "Finite"}} -> Signed(negative, Infinity)
      [] {a.class, b.class} \in {{"Zero"}, {"Zero", "Finite"}} -> Signed(negative, Zero)
      [] OTHER -> fold(negative, a.exponent + b.exponent, wide_multiply(a.significand, b.significand))
mul_bits(left, right) == MulDecomposed(Negative(left) # Negative(right), decompose(left), decompose(right))

\* Shifted up to the hidden bit.
normalise(f) == Lifted(f, FractionBits + 1 - Width(f.significand))

\* A quotient bit by bit, three more than the format holds.
QuotientBit(q, divisor) ==
    IF q.remainder >= divisor
    THEN [quotient |-> q.quotient * 2 + 1, remainder |-> (q.remainder - divisor) * 2]
    ELSE [quotient |-> q.quotient * 2, remainder |-> q.remainder * 2]
Quotient(dividend, divisor) ==
    LET Bits[i \in 0 .. FractionBits + 3] ==
            IF i = 0 THEN [quotient |-> 0, remainder |-> dividend] ELSE QuotientBit(Bits[i - 1], divisor)
    IN Bits[FractionBits + 3]
DivNormal(negative, exponent, q) ==
    assemble(Exact(negative, exponent - (FractionBits + 2), q.quotient, q.remainder # 0))
DivFinite(negative, a, b) ==
    DivNormal(negative, a.exponent - b.exponent, Quotient(a.significand, b.significand))

DivDecomposed(negative, a, b) ==
    CASE "NaN" \in {a.class, b.class} -> QuietNaN
      [] a.class = b.class /\ a.class \in {"Infinite", "Zero"} -> QuietNaN
      [] a.class = "Infinite" /\ b.class \in {"Zero", "Finite"} -> Signed(negative, Infinity)
      [] b.class = "Infinite" /\ a.class \in {"Zero", "Finite"} -> Signed(negative, Zero)
      [] a.class = "Zero" /\ b.class = "Finite" -> Signed(negative, Zero)
      [] a.class = "Finite" /\ b.class = "Zero" -> Signed(negative, Infinity)
      [] OTHER -> DivFinite(negative, normalise(a), normalise(b))
div_bits(left, right) == DivDecomposed(Negative(left) # Negative(right), decompose(left), decompose(right))

\* value % divisor by shifting the divisor up under it and back down.
reduce(value, divisor) ==
    LET top == Width(value) - Width(divisor)
        Down[shift \in 0 .. Max2(top, 0)] ==
            LET above == IF shift = top THEN value ELSE Down[shift + 1]
            IN IF above >= divisor * 2 ^ shift THEN above - divisor * 2 ^ shift ELSE above
    IN IF value < divisor THEN value ELSE Down[0]

\* The remainder, lifted against the divisor as far as a word has room and
\* reduced, until the exponents have met.
RemRaised(r, b, lift, raised) ==
    IF raised >= b.significand
    THEN [value |-> reduce(raised, b.significand), exponent |-> Max2(r.exponent - lift, b.exponent), steps |-> r.steps - lift]
    ELSE [value |-> raised, exponent |-> r.exponent - lift, steps |-> r.steps - lift]
RemLifted(r, b, lift) == RemRaised(r, b, lift, r.value * 2 ^ lift)
RECURSIVE Rem(_, _)
Rem(r, b) ==
    LET next == RemLifted(r, b, IF r.value < b.significand THEN Min2(r.steps, LeadingZeros(r.value)) ELSE 0)
    IN IF next.steps = 0 \/ next.value = 0 THEN next ELSE Rem(next, b)
RemFinite(a, b) ==
    LET end == Rem([value |-> a.significand, exponent |-> a.exponent, steps |-> a.exponent - b.exponent], b)
    IN assemble(Exact(a.negative, Min2(b.exponent, end.exponent), end.value, FALSE))
RemDecomposed(left, a, b) ==
    CASE "NaN" \in {a.class, b.class} \/ a.class = "Infinite" \/ b.class = "Zero" -> QuietNaN
      [] a.class \in {"Zero", "Finite"} /\ b.class = "Infinite" -> left
      [] a.class = "Zero" /\ b.class = "Finite" -> left
      [] a.class = "Finite" /\ b.class = "Finite" /\ a.exponent < b.exponent -> left
      [] OTHER -> RemFinite(a, b)
rem_bits(left, right) == RemDecomposed(left, decompose(left), decompose(right))

is_nan(bits) == Magnitude(bits) > Infinity

Order(l, r) == IF l < r THEN -1 ELSE IF l > r THEN 1 ELSE 0
\* -1, 0, 1, or 2 where they are unordered: negative values order downwards.
compare(left, right) ==
    IF is_nan(left) \/ is_nan(right) THEN 2
    ELSE Order(IF Negative(left) THEN -Magnitude(left) ELSE left, IF Negative(right) THEN -Magnitude(right) ELSE right)

from_i64(value) == assemble(Exact(value < 0, 0, Abs(value), FALSE))

\* Towards zero, and to the nearest word where it is outside.
shift_significand(f) ==
    IF f.exponent >= 0
    THEN IF f.exponent >= 2 * HalfWord \/ LeadingZeros(f.significand) < f.exponent THEN Word - 1
         ELSE f.significand * 2 ^ f.exponent
    ELSE IF -f.exponent >= 2 * HalfWord THEN 0 ELSE f.significand \div 2 ^ (-f.exponent)
to_i64(bits) ==
    LET f == decompose(bits)
        magnitude == IF f.class = "Infinite" THEN Word - 1 ELSE shift_significand(f)
    IN CASE f.class \in {"Zero", "NaN"} -> 0
         [] f.class \in {"Finite", "Infinite"} /\ f.negative -> -Min2(magnitude, Word \div 2)
         [] f.class \in {"Finite", "Infinite"} /\ ~f.negative -> Min2(magnitude, Word \div 2 - 1)

\* The integer a double is, or that it is none of that width.
exact_i32(bits) ==
    LET biased    == Magnitude(bits) \div Hidden
        power     == biased - Bias
        mantissa  == (bits % Hidden) + Hidden
        shift     == FractionBits - power
        magnitude == IF shift >= 0 THEN mantissa \div 2 ^ shift ELSE mantissa * 2 ^ (-shift)
    IN IF biased = 0 THEN IF bits % Hidden = 0 THEN <<0>> ELSE <<>>
       ELSE IF biased = TopExponent \/ power \notin 0 .. IntegerBits - 1 THEN <<>>
       ELSE IF shift > 0 /\ mantissa % 2 ^ shift # 0 THEN <<>>
       ELSE IF Negative(bits) THEN IF magnitude > 2 ^ (IntegerBits - 1) THEN <<>> ELSE <<-magnitude>>
       ELSE IF magnitude >= 2 ^ (IntegerBits - 1) THEN <<>> ELSE <<magnitude>>

----------------------------------------------------------------------------
(* The single format.                                                      *)

SingleTop  == 2 ^ SingleExponent - 1
SingleBias == 2 ^ (SingleExponent - 1) - 1
SingleSign == 2 ^ (SingleFraction + SingleExponent)
Narrower   == FractionBits - SingleFraction

round_shift(value, shift) ==
    LET kept == value \div 2 ^ shift
        rest == value % 2 ^ shift
        half == 2 ^ (shift - 1)
    IN kept + (IF rest > half \/ (rest = half /\ kept % 2 = 1) THEN 1 ELSE 0)

\* The fraction rounded on its own: a carry out of it steps the exponent.
to_f32_bits(bits) ==
    LET biased   == Magnitude(bits) \div Hidden
        mantissa == bits % Hidden
        narrowed == biased - Bias + SingleBias
        top      == SingleTop * 2 ^ SingleFraction
        quiet    == 2 ^ (SingleFraction - 1)
        payload  == mantissa \div 2 ^ Narrower
        single   ==
            CASE biased = TopExponent ->
                    top + (IF mantissa = 0 THEN 0 ELSE IF payload >= quiet THEN payload ELSE payload + quiet)
              [] biased # TopExponent /\ narrowed >= SingleTop -> top
              [] biased # TopExponent /\ narrowed <= 0 ->
                    IF narrowed < -(SingleFraction + 1) \/ biased = 0 THEN 0
                    ELSE round_shift(mantissa + Hidden, Narrower + 1 - narrowed)
              [] OTHER -> narrowed * 2 ^ SingleFraction + round_shift(mantissa, Narrower)
    IN (IF Negative(bits) THEN SingleSign ELSE 0) + single

from_f32_bits(bits) ==
    LET exponent == (bits \div 2 ^ SingleFraction) % (SingleTop + 1)
        mantissa == bits % 2 ^ SingleFraction
        lift     == SingleFraction + 1 - Width(mantissa)
        power    == 1 - SingleBias - lift
    IN Signed(bits >= SingleSign,
              CASE exponent = SingleTop -> Infinity + mantissa * 2 ^ Narrower
                [] exponent = 0 /\ mantissa = 0 -> 0
                [] exponent = 0 /\ mantissa # 0 ->
                      (power + Bias) * Hidden + ((mantissa * 2 ^ lift) % 2 ^ SingleFraction) * 2 ^ Narrower
                [] OTHER -> (exponent - SingleBias + Bias) * Hidden + mantissa * 2 ^ Narrower)


----------------------------------------------------------------------------
(* What the language does with them.                                       *)

One == Bias * Hidden
Less(left, right)  == compare(left, right) = -1
Equal(left, right) == compare(left, right) = 0
unary_minus(bits)  == Signed(~Negative(bits), Magnitude(bits))

\* Modulo the width, of the value towards zero.
to_uint32(bits) ==
    LET biased      == Magnitude(bits) \div Hidden
        exponent    == biased - Bias - FractionBits
        significand == (bits % Hidden) + Hidden
        magnitude   == IF Abs(exponent) >= 2 * HalfWord THEN 0
                       ELSE IF exponent >= 0 THEN (significand * 2 ^ exponent) % Word
                       ELSE significand \div 2 ^ (-exponent)
    IN IF biased \in {0, TopExponent} THEN 0
       ELSE (IF Negative(bits) THEN -magnitude ELSE magnitude) % 2 ^ IntegerBits

AsSigned(v) == IF v >= 2 ^ (IntegerBits - 1) THEN v - 2 ^ IntegerBits ELSE v
to_int32(bits) == AsSigned(to_uint32(bits))

truncate(bits) ==
    LET biased == Magnitude(bits) \div Hidden
    IN IF biased >= Bias + FractionBits THEN bits
       ELSE IF biased < Bias THEN Signed(Negative(bits), Zero)
       ELSE bits - (bits % 2 ^ (Bias + FractionBits - biased))
floor(bits) == IF Less(bits, Zero) /\ ~Equal(truncate(bits), bits) THEN sub(truncate(bits), One) ELSE truncate(bits)
ceil(bits)  == IF Less(Zero, bits) /\ ~Equal(truncate(bits), bits) THEN add_bits(truncate(bits), One) ELSE truncate(bits)

to_integer_or_infinity(bits) ==
    IF is_nan(bits) THEN Zero ELSE IF Magnitude(bits) \in {Zero, Infinity} THEN bits ELSE truncate(bits)
to_length(bits) ==
    LET integer == to_integer_or_infinity(bits)
        maximum == from_i64(2 * Hidden - 1)
    IN IF ~Less(Zero, integer) THEN Zero ELSE IF Less(maximum, integer) THEN maximum ELSE integer
is_integral(bits) == Magnitude(bits) < Infinity /\ Equal(truncate(bits), bits)

\* Two integers combined bit by bit.
ByBit(l, r, width, keep) ==
    LET Upto[i \in 0 .. width] ==
            IF i = 0 THEN 0
            ELSE Upto[i - 1] + (IF <<(l \div 2 ^ (i - 1)) % 2, (r \div 2 ^ (i - 1)) % 2>> \in keep THEN 2 ^ (i - 1) ELSE 0)
    IN Upto[width]
\* The pairs of bits that make a bit.
Both   == {<<1, 1>>}
Either == {<<0, 1>>, <<1, 0>>, <<1, 1>>}
Differ == {<<0, 1>>, <<1, 0>>}
bitwise(left, right, keep) == from_i64(AsSigned(ByBit(to_uint32(left), to_uint32(right), IntegerBits, keep)))
bitwise_not(bits) == from_i64(-to_int32(bits) - 1)

Places(right) == to_uint32(right) % IntegerBits
shift_left(left, right)  == from_i64(AsSigned((to_uint32(left) * 2 ^ Places(right)) % 2 ^ IntegerBits))
shift_right(left, right) == from_i64(to_int32(left) \div 2 ^ Places(right))
unsigned_shift_right(left, right) == from_i64(to_uint32(left) \div 2 ^ Places(right))

same_value_number(left, right) == (is_nan(left) /\ is_nan(right)) \/ left = right
same_value_zero_number(left, right) == (is_nan(left) /\ is_nan(right)) \/ Equal(left, right)

----------------------------------------------------------------------------
(* Roots and powers, by the four operations alone.                         *)

\* Newton's method from the value with its exponent halved.
RECURSIVE Newton(_, _, _)
Newton(bits, estimate, turns) ==
    LET next == div_bits(add_bits(estimate, div_bits(bits, estimate)), from_i64(2))
    IN IF turns = 0 \/ Equal(next, estimate) THEN estimate ELSE Newton(bits, next, turns - 1)
sqrt(bits) ==
    LET biased   == Magnitude(bits) \div Hidden
        away     == biased - Bias
        halved   == (IF away < 0 THEN -((-away) \div 2) ELSE away \div 2) + Bias
        estimate == IF biased = 0 THEN bits ELSE halved * Hidden + (bits % Hidden) \div 2
    IN IF is_nan(bits) \/ Less(bits, Zero) THEN QuietNaN
       ELSE IF Magnitude(bits) \in {Zero, Infinity} THEN bits
       ELSE Newton(bits, estimate, RootTurns)

\* A product with the error it was rounded by: a double is cut in halves whose
\* products are exact.
IsFinite(bits) == Magnitude(bits) < Infinity
Beside(value, high) == <<high, sub(value, high)>>
HighHalf(value, scaled) == sub(scaled, sub(scaled, value))
Halves(value) == Beside(value, HighHalf(value, mul_bits(from_i64(2 ^ ((FractionBits + 2) \div 2) + 1), value)))
ErrorOf(product, l, r) ==
    add_bits(add_bits(add_bits(sub(mul_bits(l[1], r[1]), product), mul_bits(l[1], r[2])), mul_bits(l[2], r[1])),
             mul_bits(l[2], r[2]))
WithError(product, l, r) ==
    <<product, IF IsFinite(product) /\ IsFinite(l[1]) /\ IsFinite(r[1]) THEN ErrorOf(product, l, r) ELSE Zero>>
exact_product(left, right) == WithError(mul_bits(left, right), Halves(left), Halves(right))

\* The product of two pairs, each a double and what it leaves out.
Renewed(product, low, value) == <<value, sub(low, sub(value, product[1]))>>
PairWith(product, left, right) ==
    IF ~IsFinite(product[1]) THEN <<product[1], Zero>>
    ELSE LET low == add_bits(product[2], add_bits(mul_bits(left[1], right[2]), mul_bits(left[2], right[1])))
         IN Renewed(product, low, add_bits(product[1], low))
multiply_pair(left, right) == PairWith(exact_product(left[1], right[1]), left, right)

RECURSIVE Squared(_, _, _)
Squared(remaining, factor, result) ==
    IF remaining = 0 THEN result
    ELSE Squared(remaining \div 2, IF remaining > 1 THEN multiply_pair(factor, factor) ELSE factor,
                 IF remaining % 2 = 1 THEN multiply_pair(result, factor) ELSE result)
Corrected(estimate, product, low) ==
    add_bits(estimate, mul_bits(estimate, sub(sub(sub(One, product[1]), product[2]), low)))
Reciprocal(result, estimate, product) ==
    IF ~IsFinite(product[1]) THEN div_bits(One, add_bits(result[1], result[2]))
    ELSE Corrected(estimate, product, mul_bits(result[2], estimate))
Inverted(result, estimate) == Reciprocal(result, estimate, exact_product(result[1], estimate))
OfPair(result, exponent) ==
    IF exponent >= 0 THEN add_bits(result[1], result[2]) ELSE Inverted(result, div_bits(One, result[1]))
integer_power(base, exponent) == OfPair(Squared(Abs(exponent), <<base, Zero>>, <<One, Zero>>), exponent)

\* A power that is not integral goes by logarithms, which are left out: <<>>.
power(base, exponent) ==
    LET magnitude == Magnitude(base)
        downward  == Negative(exponent)
        integral  == exact_i32(exponent)
        odd       == integral # <<>> /\ integral[1] % 2 # 0
        negative  == Negative(base) /\ odd
    IN IF is_nan(exponent) THEN <<QuietNaN>>
       ELSE IF Magnitude(exponent) = Zero THEN <<One>>
       ELSE IF is_nan(base) THEN <<QuietNaN>>
       ELSE IF Magnitude(exponent) = Infinity
            THEN IF magnitude = One THEN <<QuietNaN>>
                 ELSE IF (magnitude > One) # downward THEN <<Infinity>> ELSE <<Zero>>
       ELSE IF magnitude = Infinity THEN <<Signed(negative, IF downward THEN Zero ELSE Infinity)>>
       ELSE IF magnitude = Zero THEN <<Signed(negative, IF downward THEN Infinity ELSE Zero)>>
       ELSE IF integral = <<>> THEN IF Negative(base) THEN <<QuietNaN>> ELSE <<>>
       ELSE <<Signed(negative, integer_power(magnitude, integral[1]))>>

----------------------------------------------------------------------------
(* The integers of BigInt: a sign and limbs, least significant first.      *)
(* Nothing rounds but the conversion to a double, and a value of more      *)
(* limbs than a build admits is refused.                                   *)

Base == 2 ^ LimbBits
WORK_LIMBS == MaxLimbs + 2

Big(negative, limbs) == [negative |-> negative, limbs |-> limbs, error |-> "none"]
Refused(why) == [negative |-> FALSE, limbs |-> <<>>, error |-> why]
IsZero(v) == v.limbs = <<>>
Limb(v, i) == IF i \in 1 .. Len(v.limbs) THEN v.limbs[i] ELSE 0

\* Without the zero limbs at the end; zero has no sign.
Trimmed(v) ==
    LET kept == CHOOSE k \in 0 .. Len(v.limbs) :
                    /\ k > 0 => v.limbs[k] # 0
                    /\ \A i \in k + 1 .. Len(v.limbs) : v.limbs[i] = 0
    IN [v EXCEPT !.limbs = SubSeq(@, 1, kept), !.negative = @ /\ kept > 0]
Checked(v) == IF Len(v.limbs) > WORK_LIMBS THEN Refused("TooLarge") ELSE v
write(v) == IF v.error # "none" THEN v
            ELSE IF Len(Trimmed(v).limbs) > MaxLimbs THEN Refused("TooLarge") ELSE Trimmed(v)

\* length limbs, each the low part of a sum that carries into the next.
Ripple(Sum(_), length, first) ==
    LET Upto[i \in 0 .. length] ==
            IF i = 0 THEN [limbs |-> <<>>, carry |-> first]
            ELSE LET sum == Sum(i) + Upto[i - 1].carry
                 IN [limbs |-> Append(Upto[i - 1].limbs, sum % Base), carry |-> sum \div Base]
    IN Upto[length]
Carrying(r) == IF r.carry = 0 THEN r.limbs ELSE Append(r.limbs, r.carry)

multiply_small(v, factor) == Checked([v EXCEPT !.limbs = Carrying(Ripple(LAMBDA i : v.limbs[i] * factor, Len(v.limbs), 0))])
add_small(v, addend) == Checked([v EXCEPT !.limbs = Carrying(Ripple(LAMBDA i : v.limbs[i], Len(v.limbs), addend))])
shift_left_one(v) == multiply_small(v, 2)

\* A limb divided with the remainder above it, bit by bit in the width of a limb.
divide_step(remainder, limb, divisor) ==
    LET Down[bit \in 0 .. LimbBits] ==
            IF bit = LimbBits THEN [rest |-> remainder, quotient |-> 0]
            ELSE LET above   == Down[bit + 1]
                     doubled == (above.rest * 2 + ((limb \div 2 ^ bit) % 2)) % Base
                 IN IF above.rest * 2 >= Base \/ doubled >= divisor
                    THEN [rest |-> (doubled - divisor) % Base, quotient |-> above.quotient + 2 ^ bit]
                    ELSE [rest |-> doubled, quotient |-> above.quotient]
    IN Down[0]
divide_small(v, divisor) ==
    LET Step(limb, d) == LET s == divide_step(d.rest, limb, divisor)
                         IN [rest |-> s.rest, limbs |-> <<s.quotient>> \o d.limbs]
        d == FoldRight(Step, v.limbs, [rest |-> 0, limbs |-> <<>>])
    IN [quotient |-> Trimmed([v EXCEPT !.limbs = d.limbs]), remainder |-> d.rest]

\* Longer is larger, and then the highest limb that differs decides.
compare_magnitude(left, right) ==
    IF Len(left.limbs) # Len(right.limbs) THEN IF Len(left.limbs) < Len(right.limbs) THEN -1 ELSE 1
    ELSE IF left.limbs = right.limbs THEN 0
    ELSE LET at == CHOOSE i \in 1 .. Len(left.limbs) :
                       left.limbs[i] # right.limbs[i] /\ \A j \in i + 1 .. Len(left.limbs) : left.limbs[j] = right.limbs[j]
         IN IF left.limbs[at] < right.limbs[at] THEN -1 ELSE 1
big_compare(left, right) ==
    CASE left.negative # right.negative -> IF left.negative THEN -1 ELSE 1
      [] left.negative /\ right.negative -> compare_magnitude(right, left)
      [] ~left.negative /\ ~right.negative -> compare_magnitude(left, right)

add_magnitude(left, right) ==
    LET length == Max2(Len(left.limbs), Len(right.limbs))
    IN Checked(Big(FALSE, Carrying(Ripple(LAMBDA i : Limb(left, i) + Limb(right, i), length, 0))))
\* The smaller magnitude from the larger: what is borrowed is a negative carry.
subtract_magnitude(left, right) ==
    Big(FALSE, Ripple(LAMBDA i : Limb(left, i) - Limb(right, i), Len(left.limbs), 0).limbs)

big_add(left, right) ==
    LET order == compare_magnitude(left, right)
    IN CASE left.negative = right.negative -> Trimmed([add_magnitude(left, right) EXCEPT !.negative = left.negative])
         [] left.negative # right.negative /\ order = 0 -> Big(FALSE, <<>>)
         [] left.negative # right.negative /\ order = 1 ->
                Trimmed([subtract_magnitude(left, right) EXCEPT !.negative = left.negative])
         [] left.negative # right.negative /\ order = -1 ->
                Trimmed([subtract_magnitude(right, left) EXCEPT !.negative = right.negative])
negate(v) == IF IsZero(v) THEN v ELSE [v EXCEPT !.negative = ~@]
big_subtract(left, right) == big_add(left, negate(right))

\* A row for every limb of the left, added in where it stands.
big_multiply(left, right) ==
    LET length == Len(left.limbs) + Len(right.limbs)
        Row(made, i) == Ripple(LAMBDA k : made[k] + left.limbs[i] * Limb(right, k - i + 1), length, 0).limbs
        Rows[i \in 0 .. Len(left.limbs)] == IF i = 0 THEN [k \in 1 .. length |-> 0] ELSE Row(Rows[i - 1], i)
    IN IF IsZero(left) \/ IsZero(right) THEN Big(FALSE, <<>>)
       ELSE IF length > WORK_LIMBS THEN Refused("TooLarge")
       ELSE Trimmed(Big(left.negative # right.negative, Rows[Len(left.limbs)]))

\* Towards zero, and the remainder with the sign of the dividend: by one limb
\* at once, and by more of them bit by bit.
big_divide(left, right) ==
    LET unsigned == [right EXCEPT !.negative = FALSE]
        short    == divide_small(left, right.limbs[1])
        BitOf(k) == (Limb(left, k \div LimbBits + 1) \div 2 ^ (k % LimbBits)) % 2
        Down[k \in 0 .. Len(left.limbs) * LimbBits] ==
            IF k = Len(left.limbs) * LimbBits
            THEN [quotient |-> [i \in 1 .. Len(left.limbs) |-> 0], remainder |-> Big(FALSE, <<>>)]
            ELSE LET above  == Down[k + 1]
                     raised == shift_left_one(above.remainder)
                     next   == IF BitOf(k) = 0 THEN raised
                               ELSE IF IsZero(raised) THEN Big(FALSE, <<1>>)
                               ELSE [raised EXCEPT !.limbs[1] = @ + 1]
                 IN IF compare_magnitude(next, unsigned) >= 0
                    THEN [quotient  |-> [above.quotient EXCEPT ![k \div LimbBits + 1] = @ + 2 ^ (k % LimbBits)],
                          remainder |-> Trimmed(subtract_magnitude(next, unsigned))]
                    ELSE [quotient |-> above.quotient, remainder |-> next]
        Result(quotient, remainder) ==
            [quotient  |-> Trimmed(Big(left.negative # right.negative, quotient)),
             remainder |-> Trimmed(Big(left.negative, remainder))]
    IN IF IsZero(right) THEN [quotient |-> Refused("DivisionByZero"), remainder |-> Refused("DivisionByZero")]
       ELSE IF compare_magnitude(left, right) = -1 THEN Result(<<>>, left.limbs)
       ELSE IF Len(right.limbs) = 1 THEN Result(short.quotient.limbs, <<short.remainder>>)
       ELSE Result(Down[0].quotient, Down[0].remainder.limbs)

\* The value as an integer of two words, or none.
big_to_i64(v) ==
    LET magnitude == Limb(v, 1) + Limb(v, 2) * Base
    IN IF Len(v.limbs) > 2 \/ magnitude > (Base * Base) \div 2 - (IF v.negative THEN 0 ELSE 1) THEN <<>>
       ELSE <<IF v.negative THEN -magnitude ELSE magnitude>>

RECURSIVE Multiplied(_, _, _)
Multiplied(result, base, count) ==
    IF count = 0 \/ result.error # "none" THEN result ELSE Multiplied(big_multiply(result, base), base, count - 1)
big_power(base, exponent) ==
    LET count == big_to_i64(exponent)
    IN IF exponent.negative THEN Refused("NegativeExponent")
       ELSE IF count = <<>> THEN Refused("TooLarge")
       ELSE Multiplied(Big(FALSE, <<1>>), base, count[1])

RECURSIVE big_shift_left(_, _)
big_shift_left(v, count) ==
    IF count = 0 \/ v.error # "none" THEN v ELSE big_shift_left(shift_left_one(v), count - 1)

\* Halved count times, downwards: a negative value that is gone is minus one.
HalfBelow(half, negative) ==
    IF negative /\ ~IsZero(half.remainder) THEN big_subtract(half.quotient, Big(FALSE, <<1>>)) ELSE half.quotient
RECURSIVE Halved(_, _, _)
Halved(v, count, negative) ==
    IF count = 0 \/ IsZero(v) THEN v
    ELSE Halved(HalfBelow(big_divide(v, Big(FALSE, <<2>>)), negative), count - 1, negative)
Floored(v, result) == IF v.negative /\ IsZero(result) THEN Big(TRUE, <<1>>) ELSE result
big_shift_right(v, count) == Floored(v, Halved(v, count, v.negative))

\* Two's complement, limb by limb, and back.
Complement(v, length) ==
    IF v.negative THEN Ripple(LAMBDA i : Base - 1 - Limb(v, i), length, 1).limbs
    ELSE [i \in 1 .. length |-> Limb(v, i)]
SignBit(v) == IF v.negative THEN 1 ELSE 0
big_bitwise(left, right, keep) ==
    LET length   == Max2(Len(left.limbs), Len(right.limbs)) + 1
        l        == Complement(left, length)
        r        == Complement(right, length)
        combined == [i \in 1 .. length |-> ByBit(l[i], r[i], LimbBits, keep)]
        negative == <<SignBit(left), SignBit(right)>> \in keep
    IN IF length > WORK_LIMBS THEN Refused("TooLarge")
       ELSE Trimmed(Big(negative, IF negative THEN Ripple(LAMBDA i : Base - 1 - combined[i], length, 1).limbs ELSE combined))

\* Digits of a radix taken one at a time, and the text of a value from its end.
from_digits(digits, radix, negative) ==
    LET Taken(v, digit) == IF v.error # "none" THEN v
                           ELSE IF digit \notin 0 .. radix - 1 THEN Refused("Malformed")
                           ELSE LET scaled == multiply_small(v, radix)
                                IN IF scaled.error # "none" THEN scaled ELSE add_small(scaled, digit)
        v == FoldLeft(Taken, Big(FALSE, <<>>), digits)
    IN IF v.error # "none" THEN v ELSE Trimmed([v EXCEPT !.negative = negative])
RECURSIVE TextFromEnd(_, _)
TextFromEnd(v, radix) ==
    LET d == divide_small(v, radix)
    IN IF IsZero(d.quotient) THEN <<d.remainder>> ELSE Append(TextFromEnd(d.quotient, radix), d.remainder)

\* The limbs of a whole double from the highest down, and a value as a double
\* limb by limb.
RECURSIVE Highest(_, _)
Highest(magnitude, by) ==
    IF Less(div_bits(magnitude, by), from_i64(Base)) THEN by ELSE Highest(magnitude, mul_bits(by, from_i64(Base)))
RECURSIVE LimbsFrom(_, _, _), LimbTaken(_, _, _, _)
LimbTaken(magnitude, by, quotient, limbs) ==
    IF by = One THEN <<to_i64(quotient)>> \o limbs
    ELSE LimbsFrom(sub(magnitude, mul_bits(quotient, by)), div_bits(by, from_i64(Base)), <<to_i64(quotient)>> \o limbs)
LimbsFrom(magnitude, by, limbs) == LimbTaken(magnitude, by, truncate(div_bits(magnitude, by)), limbs)
from_f64(bits) ==
    IF ~IsFinite(bits) \/ ~Equal(truncate(bits), bits) THEN Refused("Malformed")
    ELSE Trimmed(Big(Less(bits, Zero), LimbsFrom(Magnitude(bits), Highest(Magnitude(bits), One), <<>>)))
to_f64(v) ==
    LET value == FoldRight(LAMBDA limb, sum : add_bits(mul_bits(sum, from_i64(Base)), from_i64(limb)), v.limbs, Zero)
    IN IF v.negative THEN unary_minus(value) ELSE value
===============================================================================
