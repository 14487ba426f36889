------------------------------ MODULE Numerals --------------------------------
(***************************************************************************)
(* Decimal text read as a double (numeric.rs, value.rs) and a double       *)
(* written as text (dtoa.rs), and what a program asks of Numbers and       *)
(* BigInts (vm/natives/numbers.rs, vm/bigints.rs).                         *)
(*                                                                         *)
(* A behaviour is one computation: what is asked is chosen at the start    *)
(* and the step answers it.                                                *)
(*                                                                         *)
(* A text is a sequence of characters: a digit or a letter is its value in *)
(* a radix, 0 to 35, and the others are negative.  The widths are the      *)
(* constants of Numbers and those below.                                   *)
(***************************************************************************)
EXTENDS Numbers

CONSTANTS
    Questions,        \* what may be asked: records of an op and its operands
    MaxDigits,        \* decimal digits kept exactly, 800
    MaxShift,         \* places a decimal shifts at once, 60
    InfinitePoint,    \* 310: a decimal point past it is infinite
    ZeroPoint,        \* 330: one that far before the digits is zero
    ParseRoom,        \* 128: characters parseInt and parseFloat look at, and digits they keep
    TextDigits,       \* 1024: digits of either part ToNumber keeps
    RadixRoom,        \* 64: digits of a text in another radix
    ShortestDigits,   \* 24: digits a shortest text may have
    PlainUpTo,        \* 21: digits written before the point at most
    MostDigits,       \* 100: digits asked for at most
    PlainDownTo       \* 6: zeros after the point beyond which a text is exponential

VARIABLE n        \* the question, and its answer once there is one

Minus == -1
Plus  == -2
Point == -3
Space == -4
InfinityWord == -5
NaNWord == -6
LetterB == 11
LetterE == 14
LetterO == 24
LetterX == 33

IsDigit(c) == c \in 0 .. 9
DigitsOf[v \in Nat] == IF v < 10 THEN <<v>> ELSE Append(DigitsOf[v \div 10], v % 10)
NumberOf(digits) == FoldLeft(LAMBDA v, d : v * 10 + d, 0, digits)
Zeros(count) == [i \in 1 .. count |-> 0]
First(digits, count) == SubSeq(digits, 1, Min2(Len(digits), count))

----------------------------------------------------------------------------
(* A decimal shifted by powers of two until its integer part is the        *)
(* significand.                                                            *)

Decimal == [digits |-> <<>>, point |-> 0, truncated |-> FALSE]
Digit(d, i) == IF i \in 1 .. Len(d.digits) THEN d.digits[i] ELSE 0

push(d, digit) ==
    IF d.digits = <<>> /\ digit = 0 THEN [d EXCEPT !.point = @ - 1]
    ELSE IF Len(d.digits) < MaxDigits THEN [d EXCEPT !.digits = Append(@, digit)]
    ELSE [d EXCEPT !.truncated = @ \/ digit # 0]

trim(d) ==
    LET kept == CHOOSE k \in 0 .. Len(d.digits) :
                    /\ k > 0 => d.digits[k] # 0
                    /\ \A i \in k + 1 .. Len(d.digits) : d.digits[i] = 0
    IN [d EXCEPT !.digits = SubSeq(@, 1, kept), !.point = IF kept = 0 THEN 0 ELSE @]

\* Digits made beyond those kept are dropped: whether one was not zero is kept.
Kept(d, digits, point) ==
    trim([digits |-> First(digits, MaxDigits), point |-> point,
          truncated |-> d.truncated \/ \E i \in MaxDigits + 1 .. Len(digits) : digits[i] # 0])

\* Long division by 2^shift, digit by digit.
RECURSIVE Divided(_, _, _, _, _)
Divided(d, shift, carry, read, digits) ==
    IF carry = 0 /\ read > Len(d.digits) THEN digits
    ELSE Divided(d, shift, (carry % 2 ^ shift) * 10 + Digit(d, read), read + 1, Append(digits, carry \div 2 ^ shift))
RECURSIVE Lead(_, _, _, _)
Lead(d, shift, carry, read) ==
    IF carry >= 2 ^ shift THEN [carry |-> carry, read |-> read]
    ELSE Lead(d, shift, carry * 10 + Digit(d, read), read + 1)
decimal_shift_right(d, shift) ==
    LET lead == Lead(d, shift, 0, 1)
    IN Kept(d, Divided(d, shift, lead.carry, lead.read, <<>>), d.point - (lead.read - 2))

\* Multiplication by 2^shift from the last digit.  The table says how many
\* digits it gains: those of 2^shift, or one fewer before the digits of 5^shift.
PrefixIsLessThan(d, cutoff) ==
    \E i \in 1 .. Len(cutoff) :
        /\ \A j \in 1 .. i - 1 : j <= Len(d.digits) /\ d.digits[j] = cutoff[j]
        /\ i > Len(d.digits) \/ d.digits[i] < cutoff[i]
Gain(d, shift) ==
    IF shift = 0 THEN 0
    ELSE Len(DigitsOf[2 ^ shift]) - (IF PrefixIsLessThan(d, DigitsOf[5 ^ shift]) THEN 1 ELSE 0)
decimal_shift_left(d, shift) ==
    LET delta == Gain(d, shift)
        Step(made, digit) == [carry |-> (made.carry + digit * 2 ^ shift) \div 10,
                              digits |-> <<(made.carry + digit * 2 ^ shift) % 10>> \o made.digits]
        made == FoldRight(LAMBDA digit, m : Step(m, digit), d.digits, [carry |-> 0, digits |-> <<>>])
        \* The gained places: one the carry does not reach keeps what it held.
        gained == [i \in 1 .. delta |->
                      IF made.carry \div 10 ^ (delta - i) = 0 THEN Digit(d, i) ELSE (made.carry \div 10 ^ (delta - i)) % 10]
    IN Kept(d, gained \o made.digits, d.point + delta)

RECURSIVE shift_by(_, _)
shift_by(d, places) ==
    CASE d.digits = <<>> \/ places = 0 -> d
      [] d.digits # <<>> /\ places > 0 ->
            shift_by(decimal_shift_left(d, Min2(places, MaxShift)), Max2(0, places - MaxShift))
      [] d.digits # <<>> /\ places < 0 ->
            shift_by(decimal_shift_right(d, Min2(-places, MaxShift)), Min2(0, places + MaxShift))

should_round_up(d, place) ==
    /\ place < Len(d.digits)
    /\ IF Digit(d, place + 1) = 5 /\ place + 1 = Len(d.digits)
       THEN d.truncated \/ (place > 0 /\ Digit(d, place) % 2 = 1)
       ELSE Digit(d, place + 1) >= 5
rounded_integer(d) ==
    IF d.point < 0 THEN 0
    ELSE NumberOf([i \in 1 .. d.point |-> Digit(d, i)]) + (IF should_round_up(d, d.point) THEN 1 ELSE 0)

\* The places a decimal is moved by at once to bring its point towards 0.
POWER_TABLE == <<1, 3, 6, 9, 13, 16, 19, 23, 26>>
Places10(point) == IF Abs(point) < Len(POWER_TABLE) THEN POWER_TABLE[Abs(point) + 1] ELSE 27
RECURSIVE Scaled(_, _)
Scaled(d, exponent) ==
    IF d.point = 0 /\ Digit(d, 1) >= 5 THEN [decimal |-> d, exponent |-> exponent - 1]
    ELSE LET places == IF d.point > 0 THEN -Places10(d.point) ELSE Places10(d.point)
         IN Scaled(shift_by(d, places), exponent - places)

\* The fraction's bits and the exponent: a carry steps it, and a value below the
\* hidden bit has none.
WithFraction(mantissa, exponent) ==
    IF exponent + Bias >= TopExponent THEN Infinity
    ELSE (mantissa % Hidden) + (IF (mantissa \div Hidden) % 2 = 0 THEN 0 ELSE exponent + Bias) * Hidden
Settled(rounded, exponent) ==
    IF rounded = 2 * Hidden THEN WithFraction(Hidden, exponent + 1) ELSE WithFraction(rounded, exponent)
FromLow(scaled, low) ==
    Settled(rounded_integer(shift_by(shift_by(scaled.decimal, -low), FractionBits + 1)), scaled.exponent + low)
FromScaled(scaled) == FromLow(scaled, Max2(0, 1 - Bias - scaled.exponent))
into_f64(d) ==
    IF d.digits = <<>> \/ d.point < -ZeroPoint THEN Zero
    ELSE IF d.point > InfinitePoint THEN Infinity
    ELSE FromScaled(Scaled(d, 0))

decimal_value(integer, fraction, exponent) ==
    LET read == trim(FoldLeft(push, FoldLeft(LAMBDA d, c : [push(d, c) EXCEPT !.point = @ + 1], Decimal, integer), fraction))
    IN into_f64([read EXCEPT !.point = @ + exponent])

----------------------------------------------------------------------------
(* A radix that is a power of two, rounded once from its bits.             *)

round_binary(significand, sticky, exponent) ==
    LET drop    == Width(significand) - (FractionBits + 1)
        halfway == 2 ^ (drop - 1)
        kept    == significand \div 2 ^ drop
        lost    == significand % 2 ^ drop
        up      == drop > 0 /\ (lost > halfway \/ (lost = halfway /\ (sticky \/ kept % 2 = 1)))
        rounded == IF drop > 0 THEN kept + (IF up THEN 1 ELSE 0) ELSE significand * 2 ^ (-drop)
        over    == rounded = 2 * Hidden
        value   == IF over THEN Hidden ELSE rounded
        unbiased == exponent + drop + (IF over THEN 1 ELSE 0) + FractionBits
    IN IF unbiased > Bias THEN Infinity
       ELSE IF unbiased < Lowest THEN Zero
       ELSE IF unbiased < 1 - Bias THEN value \div 2 ^ (1 - Bias - unbiased)
       ELSE (value % Hidden) + (unbiased + Bias) * Hidden

radix_value(digits, radix) ==
    LET width == Width(radix) - 1
        Step(v, digit) ==
            IF v.significand = 0 THEN [v EXCEPT !.significand = digit]
            ELSE IF v.significand \div 2 ^ (2 * HalfWord - width) = 0
                 THEN [v EXCEPT !.significand = @ * 2 ^ width + digit]
            ELSE [v EXCEPT !.exponent = @ + width, !.sticky = @ \/ digit # 0]
        v == FoldLeft(Step, [significand |-> 0, exponent |-> 0, sticky |-> FALSE], digits)
    IN IF v.significand = 0 THEN Zero ELSE round_binary(v.significand, v.sticky, v.exponent)

----------------------------------------------------------------------------
(* Text read.                                                              *)

At(units, i) == IF i \in 1 .. Len(units) THEN units[i] ELSE NaNWord
\* The first place from i on that Holds nothing of.
After(units, i, Holds(_)) ==
    CHOOSE j \in i .. Len(units) + 1 :
        /\ \A k \in i .. j - 1 : Holds(units[k])
        /\ j > Len(units) \/ ~Holds(units[j])
Signs == {Minus, Plus}
PastSpace(units) == After(units, 1, LAMBDA c : c = Space)
PastDigits(units, i) == IF i > Len(units) THEN i ELSE After(units, i, IsDigit)
PastSign(units, i) == IF At(units, i) \in Signs THEN i + 1 ELSE i

\* The first of the units that is no space, to the last.
WithoutSpaces(units) ==
    LET end == CHOOSE e \in 0 .. Len(units) :
                   /\ e > 0 => units[e] # Space
                   /\ \A i \in e + 1 .. Len(units) : units[i] = Space
    IN SubSeq(units, PastSpace(units), end)
RadixOf(letter) ==
    CASE letter = LetterX -> 16
      [] letter = LetterO -> 8
      [] letter = LetterB -> 2
      [] OTHER -> 0
Opposite(negative, value) == IF negative THEN unary_minus(value) ELSE value

\* Where the parts of a decimal end: its digits, its fraction, the sign of its
\* exponent and the exponent.
Spans(units, from) ==
    LET point  == PastDigits(units, from)
        mark   == IF At(units, point) = Point THEN PastDigits(units, point + 1) ELSE point
        marked == At(units, mark) = LetterE
        power10 == IF marked THEN PastSign(units, mark + 1) ELSE mark
    IN [point |-> point, mark |-> mark, power10 |-> power10, past |-> IF marked THEN PastDigits(units, power10) ELSE mark,
        marked |-> marked, seen |-> point > from \/ mark > point + 1]
ExponentOf(body, at) ==
    (IF At(body, at.mark + 1) = Minus THEN -1 ELSE 1)
    * (IF at.marked THEN Min2(NumberOf(SubSeq(body, at.power10, at.past - 1)), 100000) ELSE 0)
OfDecimal(body, negative, at) ==
    IF ~at.seen \/ (at.marked /\ at.past = at.power10) \/ at.past # Len(body) + 1 THEN QuietNaN
    ELSE Opposite(negative, decimal_value(First(SubSeq(body, 1, at.point - 1), TextDigits),
                                          First(SubSeq(body, at.point + 1, at.mark - 1), TextDigits),
                                          ExponentOf(body, at)))
OfRadix(digits, radix) ==
    IF \E i \in 1 .. Min2(Len(digits), TextDigits + 1) : digits[i] \notin 0 .. radix - 1 THEN QuietNaN
    ELSE IF Len(digits) > TextDigits THEN Infinity ELSE radix_value(digits, radix)
OfBody(body, negative) ==
    IF body = <<>> THEN QuietNaN
    ELSE IF body = <<InfinityWord>> THEN Signed(negative, Infinity)
    ELSE IF ~negative /\ Len(body) > 2 /\ body[1] = 0 /\ RadixOf(body[2]) # 0
         THEN OfRadix(SubSeq(body, 3, Len(body)), RadixOf(body[2]))
    ELSE OfDecimal(body, negative, Spans(body, 1))
OfTrimmed(trimmed) ==
    IF trimmed = <<>> THEN Zero
    ELSE OfBody(SubSeq(trimmed, PastSign(trimmed, 1), Len(trimmed)), trimmed[1] = Minus)
\* What ToNumber reads of a string: all of it, or none.
string_to_number(units) == OfTrimmed(WithoutSpaces(units))

\* What parseFloat reads from the front: the longest number there is.
FloatOf(units, start, at) ==
    IF ~at.seen THEN QuietNaN
    ELSE string_to_number(SubSeq(units, start, (IF at.past = at.power10 THEN at.mark ELSE at.past) - 1))
parse_float_prefix(units) ==
    LET start == PastSpace(units)
    IN FloatOf(units, start, Spans(units, PastSign(units, start)))

\* What parseInt reads.  Ten and the powers of two are rounded once over the
\* digits held, and another radix at every digit.
PastHeld(held, base, extra) ==
    IF extra = 0 THEN radix_value(held, base)
    ELSE mul_bits(radix_value(held, base), power(from_i64(base), from_i64(extra))[1])
IntegerIn(digits, base) ==
    CASE base = 10 -> decimal_value(First(digits, ParseRoom), <<>>, Max2(0, Len(digits) - ParseRoom))
      [] base \in {2, 8, 16} -> PastHeld(First(digits, ParseRoom), base, Max2(0, Len(digits) - ParseRoom))
      [] OTHER -> FoldLeft(LAMBDA v, d : add_bits(mul_bits(v, from_i64(base)), from_i64(d)), Zero, digits)
DigitsFrom(units, first, base) ==
    IF first > Len(units) THEN <<>> ELSE SubSeq(units, first, After(units, first, LAMBDA c : c \in 0 .. base - 1) - 1)
IntegerOrNone(negative, digits, base) ==
    IF base \notin 2 .. 36 \/ digits = <<>> THEN QuietNaN ELSE Opposite(negative, IntegerIn(digits, base))
parse_int_prefix(units, radix) ==
    LET start == PastSpace(units)
        sign  == PastSign(units, start)
        hex   == radix \in {0, 16} /\ At(units, sign) = 0 /\ At(units, sign + 1) = LetterX
        base  == IF hex THEN 16 ELSE IF radix = 0 THEN 10 ELSE radix
    IN IntegerOrNone(At(units, start) = Minus, DigitsFrom(units, IF hex THEN sign + 2 ELSE sign, base), base)
----------------------------------------------------------------------------
(* The shortest digits that read back as a double.                         *)

estimate_exponent(significand, exponent) ==
    LET binary == exponent + Width(significand)
        scaled == binary * 78913
    IN scaled \div 2 ^ 18 + (IF scaled % 2 ^ 18 # 0 /\ binary > 0 THEN 1 ELSE 0)

Passes(value, limit, closed)   == value > limit \/ (closed /\ value = limit)
FallsUnder(value, limit, closed) == value < limit \/ (closed /\ value = limit)

\* The digits with one more unit in the last place: nines are dropped, and
\* nothing but nines is a one a place higher.
RECURSIVE RoundedUp(_, _)
RoundedUp(digits, exponent) ==
    IF digits = <<>> THEN [digits |-> <<1>>, exponent |-> exponent + 1]
    ELSE IF Last(digits) = 9 THEN RoundedUp(Front(digits), exponent)
    ELSE [digits |-> Append(Front(digits), Last(digits) + 1), exponent |-> exponent]

\* Digits until what is left lies within half the distance to a neighbour.
LastDigit(f, digits, left, low, high) ==
    IF high /\ (~low \/ left * 2 > f.denominator \/ (left * 2 = f.denominator /\ Last(digits) % 2 = 1))
    THEN RoundedUp(digits, f.exponent) ELSE [digits |-> digits, exponent |-> f.exponent]
RECURSIVE Emitted(_, _, _, _, _), Emitting(_, _, _, _, _, _, _)
Emitting(f, closed, digits, left, scale, low, high) ==
    IF ~low /\ ~high /\ Len(digits) < ShortestDigits THEN Emitted(f, closed, left, digits, scale)
    ELSE LastDigit(f, digits, left, low, high)
Emitted(f, closed, numerator, digits, scale) ==
    LET digit == Min2(10, (numerator * 10) \div f.denominator)
        left  == numerator * 10 - digit * f.denominator
    IN Emitting(f, closed, Append(digits, digit), left, scale * 10,
                FallsUnder(left, f.below * scale * 10, closed), Passes(left + f.above * scale * 10, f.denominator, closed))

\* The value and half the distances to its neighbours as fractions of one
\* denominator.
Ratio(significand, exponent, edge, estimate) ==
    LET scale == 2 ^ Max2(0, exponent) * 10 ^ Max2(0, -estimate)
    IN [numerator |-> significand * 2 * edge * scale, above |-> edge * scale, below |-> scale,
        denominator |-> 2 * edge * 2 ^ Max2(0, -exponent) * 10 ^ Max2(0, estimate), exponent |-> estimate]
\* Scaled so that the first digit comes first: the power of ten is estimated,
\* and put right by one.
Started(f, closed) ==
    IF Passes(f.numerator + f.above, f.denominator, closed)
    THEN [f EXCEPT !.denominator = @ * 10, !.exponent = @ + 1]
    ELSE IF ~Passes((f.numerator + f.above) * 10, f.denominator, closed)
    THEN [f EXCEPT !.numerator = @ * 10, !.above = @ * 10, !.below = @ * 10, !.exponent = @ - 1]
    ELSE f
EmittedFrom(f, closed) == Emitted(f, closed, f.numerator, <<>>, 1)
Estimated(significand, exponent, edge, estimate) ==
    EmittedFrom(Started(Ratio(significand, exponent, edge, estimate), significand % 2 = 0), significand % 2 = 0)
ShortestOf(significand, exponent, edge) ==
    Estimated(significand, exponent, edge, estimate_exponent(significand, exponent))
shortest(magnitude) ==
    LET biased   == magnitude \div Hidden
        fraction == magnitude % Hidden
    IN IF biased = 0 THEN ShortestOf(fraction, Lowest, 1)
       ELSE ShortestOf(fraction + Hidden, biased - Bias - FractionBits, IF fraction = 0 /\ biased > 1 THEN 2 ELSE 1)

\* The value of a whole number that is exact as one, read off the bits.
small_integer(magnitude) ==
    LET biased == magnitude \div Hidden
        shift  == Bias + FractionBits - biased
        significand == (magnitude % Hidden) + Hidden
    IN IF biased = 0 \/ shift < 0 \/ shift > FractionBits \/ significand % 2 ^ shift # 0 THEN <<>>
       ELSE <<significand \div 2 ^ shift>>

----------------------------------------------------------------------------
(* The text of a double.                                                   *)

SignOf(negative) == IF negative THEN <<Minus>> ELSE <<>>
Pointed(digits) == IF digits = <<>> THEN <<>> ELSE <<Point>> \o digits
From(digits, i) == SubSeq(digits, i, Len(digits))
Exponential(digits, exponent) ==
    First(digits, 1) \o Pointed(From(digits, 2)) \o <<LetterE, IF exponent > 0 THEN Plus ELSE Minus>>
        \o DigitsOf[Abs(exponent - 1)]

Plain(s, length) ==
    CASE length <= s.exponent /\ s.exponent <= PlainUpTo -> s.digits \o Zeros(s.exponent - length)
      [] 0 < s.exponent /\ s.exponent < length /\ s.exponent <= PlainUpTo ->
            First(s.digits, s.exponent) \o Pointed(From(s.digits, s.exponent + 1))
      [] -PlainDownTo < s.exponent /\ s.exponent <= 0 -> <<0, Point>> \o Zeros(-s.exponent) \o s.digits
      [] OTHER -> Exponential(s.digits, s.exponent)
Laid(s) == Plain(s, Len(s.digits))
Digits(magnitude, whole) == IF whole # <<>> THEN DigitsOf[whole[1]] ELSE Laid(shortest(magnitude))
shortest_text(bits) ==
    IF is_nan(bits) THEN <<NaNWord>>
    ELSE IF Magnitude(bits) = Zero THEN <<0>>
    ELSE SignOf(Negative(bits))
         \o (IF Magnitude(bits) = Infinity THEN <<InfinityWord>>
             ELSE Digits(Magnitude(bits), small_integer(Magnitude(bits))))

\* Digits rounded half up at a place: a carry past the first adds a digit.
RECURSIVE Carried(_)
Carried(digits) ==
    IF digits = <<>> THEN <<1>>
    ELSE IF Last(digits) = 9 THEN Append(Carried(Front(digits)), 0)
    ELSE Append(Front(digits), Last(digits) + 1)

NoDigits == [digits |-> <<0>>, exponent |-> 1]
DigitsFor(magnitude) == IF magnitude = Zero THEN NoDigits ELSE shortest(magnitude)
RoundedTo(s, keep) ==
    LET cut == First(s.digits, keep)
    IN CASE keep < 0 -> NoDigits
         [] keep >= Len(s.digits) -> s
         [] keep \in 0 .. Len(s.digits) - 1 /\ s.digits[keep + 1] >= 5 ->
               [digits |-> Carried(cut), exponent |-> s.exponent + Len(Carried(cut)) - Len(cut)]
         [] keep \in 0 .. Len(s.digits) - 1 /\ s.digits[keep + 1] < 5 ->
               IF cut = <<>> THEN NoDigits ELSE [s EXCEPT !.digits = cut]
RoundedAt(s, digits) == RoundedTo(s, s.exponent + digits)
FixedText(r, digits) ==
    LET At0(i) == IF i \in 1 .. Len(r.digits) THEN r.digits[i] ELSE 0
    IN (IF r.exponent <= 0 THEN <<0>> ELSE [i \in 1 .. r.exponent |-> At0(i)])
       \o Pointed([i \in 1 .. digits |-> At0(r.exponent + i)])
fixed(bits, digits) ==
    IF Magnitude(bits) >= Infinity \/ ~Less(Magnitude(bits), decimal_value(<<1>>, <<>>, PlainUpTo))
    THEN shortest_text(bits)
    ELSE SignOf(Less(bits, Zero)) \o FixedText(RoundedAt(DigitsFor(Magnitude(bits)), digits), digits)

Significant(s, count) ==
    IF count >= Len(s.digits) THEN s
    ELSE IF s.digits[count + 1] >= 5 THEN RoundedUp(First(s.digits, count), s.exponent)
    ELSE [s EXCEPT !.digits = First(@, count)]
significant(magnitude, count) == Significant(DigitsFor(magnitude), count)

\* digits is a sequence of the one number asked for, or of none.
PaddedExponential(r, count) == Exponential(r.digits \o Zeros(count - Len(r.digits)), r.exponent)
exponential(bits, digits) ==
    IF Magnitude(bits) >= Infinity THEN shortest_text(bits)
    ELSE SignOf(Less(bits, Zero))
         \o (IF digits = <<>> THEN PaddedExponential(significant(Magnitude(bits), ShortestDigits), 0)
             ELSE PaddedExponential(significant(Magnitude(bits), digits[1] + 1), digits[1] + 1))

PrecisionText(r, e, count, padding) ==
    CASE e < -PlainDownTo \/ e >= count -> Exponential(r.digits \o padding, r.exponent)
      [] e = count - 1 -> r.digits \o padding
      [] e \in 0 .. count - 2 ->
            First(r.digits, e + 1) \o Zeros(e + 1 - Len(r.digits)) \o <<Point>> \o From(r.digits, e + 2) \o padding
      [] -PlainDownTo <= e /\ e < Min2(0, count - 1) -> <<0, Point>> \o Zeros(-(e + 1)) \o r.digits \o padding
Precise(r, count) == PrecisionText(r, r.exponent - 1, count, Zeros(count - Len(r.digits)))
precision(bits, count) ==
    IF Magnitude(bits) >= Infinity THEN shortest_text(bits)
    ELSE SignOf(Less(bits, Zero)) \o Precise(significant(Magnitude(bits), count), count)

\* The digits of a whole part in a radix, by division in doubles, the last
\* ones of a longer text.
RECURSIVE RadixDigits(_, _, _)
RadixDigits(magnitude, radix, room) ==
    LET quotient == truncate(div_bits(magnitude, from_i64(radix)))
        digit    == sub(magnitude, mul_bits(quotient, from_i64(radix)))
    IN IF room = 0 \/ Less(magnitude, One) THEN <<>>
       ELSE Append(RadixDigits(quotient, radix, room - 1), to_uint32(digit))
radix_text(bits, radix) ==
    LET magnitude == truncate(Magnitude(bits))
    IN IF is_nan(bits) THEN <<NaNWord>>
       ELSE SignOf(Less(bits, Zero))
            \o (IF Magnitude(bits) = Infinity THEN <<InfinityWord>>
                ELSE IF magnitude = Zero THEN <<0>> ELSE RadixDigits(magnitude, radix, RadixRoom))

----------------------------------------------------------------------------
(* What a program asks.                                                    *)

\* A result kept as a value: one that a cell has no room for ends the program.
big_int_value(v) ==
    IF v.error # "none" THEN Refused("RangeError")
    ELSE IF Len(Trimmed(v).limbs) > MaxLimbs THEN Refused("HeapExhausted") ELSE Trimmed(v)

big_int_arithmetic(op, left, right) ==
    big_int_value(CASE op = "big +" -> big_add(left, right)
                    [] op = "big -" -> big_subtract(left, right)
                    [] op = "big *" -> big_multiply(left, right)
                    [] op = "big /" -> big_divide(left, right).quotient
                    [] op = "big %" -> big_divide(left, right).remainder
                    [] op = "big **" -> big_power(left, right))

big_int_bitwise(op, left, right) ==
    LET count  == big_to_i64(right)
        upward == (op = "big <<") = (count[1] >= 0)
    IN big_int_value(CASE op = "big &" -> big_bitwise(left, right, Both)
                       [] op = "big |" -> big_bitwise(left, right, Either)
                       [] op = "big ^" -> big_bitwise(left, right, Differ)
                       [] op \in {"big <<", "big >>"} ->
                             IF count = <<>> THEN Refused("RangeError")
                             ELSE IF upward THEN Trimmed(big_shift_left(left, Abs(count[1])))
                             ELSE big_shift_right(left, Abs(count[1])))

\* -1, 0 or 1, or 2 for a number that orders with nothing: by the whole part,
\* and then by what the fraction adds.
WholeThenFraction(order, fraction) ==
    IF order # 0 THEN order ELSE IF Less(Zero, fraction) THEN -1 ELSE IF Less(fraction, Zero) THEN 1 ELSE 0
big_int_ordering(big, bits) ==
    IF is_nan(bits) THEN 2
    ELSE IF Magnitude(bits) = Infinity THEN IF Negative(bits) THEN 1 ELSE -1
    ELSE WholeThenFraction(big_compare(big, from_f64(truncate(bits))), sub(bits, truncate(bits)))

BigOrNone(digits, v) ==
    IF digits = <<>> \/ v.error = "Malformed" THEN Refused("SyntaxError") ELSE big_int_value(v)
BigFrom(digits, radix, negative) == BigOrNone(digits, from_digits(digits, radix, negative))
BigOfTrimmed(text) ==
    IF text = <<>> THEN Big(FALSE, <<>>)
    ELSE IF Len(text) > 1 /\ text[1] = 0 /\ RadixOf(text[2]) # 0
    THEN BigFrom(SubSeq(text, 3, Len(text)), RadixOf(text[2]), FALSE)
    ELSE BigFrom(SubSeq(text, PastSign(text, 1), Len(text)), 10, text[1] = Minus)
big_int_of(units) == BigOfTrimmed(WithoutSpaces(units))

WholeOrNone(v) == IF v.error # "none" THEN Refused("RangeError") ELSE big_int_value(v)
big_int_of_number(bits) == WholeOrNone(from_f64(bits))
big_int_text(v, radix) == SignOf(v.negative) \o TextFromEnd([v EXCEPT !.negative = FALSE], radix)

parse_number(units, radix, float) ==
    LET seen == First(units, ParseRoom)
    IN IF float THEN parse_float_prefix(seen) ELSE parse_int_prefix(seen, radix)

RangeError == <<"RangeError">>
Omitted == -2      \* digits not given
NumberToString(bits, radix) ==
    IF radix \notin 2 .. 36 THEN RangeError
    ELSE IF radix = 10 THEN shortest_text(bits) ELSE radix_text(bits, radix)
NumberToFixed(bits, digits) == IF digits \notin 0 .. MostDigits THEN RangeError ELSE fixed(bits, digits)
NumberToExponential(bits, digits) ==
    IF IsFinite(bits) /\ digits # <<>> /\ digits[1] \notin 0 .. MostDigits THEN RangeError
    ELSE exponential(bits, IF IsFinite(bits) THEN digits ELSE <<>>)
NumberToPrecision(bits, count) ==
    IF ~IsFinite(bits) THEN shortest_text(bits)
    ELSE IF count \notin 1 .. MostDigits THEN RangeError ELSE precision(bits, count)

----------------------------------------------------------------------------
(* The computation.                                                        *)

Asks(ops) == n.answer = <<>> /\ n.asked.op \in ops
Answers(value) == n' = [n EXCEPT !.answer = <<value>>]

Calculate ==
    LET l == n.asked.left
        r == n.asked.right
        op == n.asked.op
    IN /\ Asks({"+", "-", "*", "/", "%", "**", "<", "is", "includes", "&", "|", "^", "<<", ">>", ">>>"})
       /\ Answers(CASE op = "+" -> add_bits(l, r)
                    [] op = "-" -> sub(l, r)
                    [] op = "*" -> mul_bits(l, r)
                    [] op = "/" -> div_bits(l, r)
                    [] op = "%" -> rem_bits(l, r)
                    [] op = "**" -> power(l, r)
                    [] op = "<" -> compare(l, r)
                    [] op = "is" -> same_value_number(l, r)
                    [] op = "includes" -> same_value_zero_number(l, r)
                    [] op = "&" -> bitwise(l, r, Both)
                    [] op = "|" -> bitwise(l, r, Either)
                    [] op = "^" -> bitwise(l, r, Differ)
                    [] op = "<<" -> shift_left(l, r)
                    [] op = ">>" -> shift_right(l, r)
                    [] op = ">>>" -> unsigned_shift_right(l, r))

Convert ==
    LET v == n.asked.value
        op == n.asked.op
    IN /\ Asks({"~", "floor", "ceil", "truncate", "sqrt", "single", "int32", "length", "isInteger"})
       /\ Answers(CASE op = "~" -> bitwise_not(v)
                    [] op = "isInteger" -> is_integral(v)
                    [] op = "floor" -> floor(v)
                    [] op = "ceil" -> ceil(v)
                    [] op = "truncate" -> to_integer_or_infinity(v)
                    [] op = "sqrt" -> sqrt(v)
                    [] op = "single" -> from_f32_bits(to_f32_bits(v))
                    [] op = "int32" -> to_int32(v)
                    [] op = "length" -> to_length(v))

Read ==
    LET units == n.asked.units
        op == n.asked.op
    IN /\ Asks({"Number", "parseFloat", "parseInt", "BigInt"})
       /\ Answers(CASE op = "Number" -> string_to_number(units)
                    [] op = "parseFloat" -> parse_number(units, 10, TRUE)
                    [] op = "parseInt" -> parse_number(units, n.asked.radix, FALSE)
                    [] op = "BigInt" -> big_int_of(units))

Write ==
    LET v == n.asked.value
        digits == n.asked.digits
        op == n.asked.op
    IN /\ Asks({"toString", "toFixed", "toExponential", "toPrecision"})
       /\ Answers(CASE op = "toString" -> NumberToString(v, digits)
                    [] op = "toFixed" -> NumberToFixed(v, digits)
                    [] op = "toExponential" -> NumberToExponential(v, IF digits = Omitted THEN <<>> ELSE <<digits>>)
                    [] op = "toPrecision" -> NumberToPrecision(v, digits))

Whole ==
    LET op == n.asked.op
    IN /\ n.answer = <<>>
       /\ \/ /\ op \in {"big +", "big -", "big *", "big /", "big %", "big **"}
             /\ Answers(big_int_arithmetic(op, n.asked.left, n.asked.right))
          \/ /\ op \in {"big &", "big |", "big ^", "big <<", "big >>"}
             /\ Answers(big_int_bitwise(op, n.asked.left, n.asked.right))
          \/ /\ op = "big <"
             /\ Answers(big_int_ordering(n.asked.left, n.asked.double))
          \/ /\ op = "asNumber"
             /\ Answers(to_f64(n.asked.left))
          \/ /\ op = "big of"
             /\ Answers(big_int_of_number(n.asked.double))
          \/ /\ op = "big text"
             /\ Answers(big_int_text(n.asked.left, n.asked.radix))

Init == n \in [asked : Questions, answer : {<<>>}]
Next == Calculate \/ Convert \/ Read \/ Write \/ Whole

----------------------------------------------------------------------------
(* What is meant, over the integers.  A magnitude counts units of the last *)
(* bit of a subnormal, and the infinite one is the next there would be.    *)

UnitsOfOne == 2 ^ (-Lowest)
UnitsIn(m, fractionBits, exponentBits) ==
    LET biased == m \div 2 ^ fractionBits
        least  == 2 - 2 ^ (exponentBits - 1) - fractionBits
    IN (IF biased = 0 THEN m ELSE 2 ^ fractionBits + (m % 2 ^ fractionBits))
       * 2 ^ (Max2(biased, 1) - 1 + least - Lowest)
Units(bits) == UnitsIn(Magnitude(bits), FractionBits, ExponentBits)
SignedUnits(bits) == IF Negative(bits) THEN -Units(bits) ELSE Units(bits)
Towards0(v, by) == IF v < 0 THEN -((-v) \div by) ELSE v \div by
Integral(bits) == Towards0(SignedUnits(bits), UnitsOfOne)

\* The magnitude m is nearest to num / den units, or the even one of two.
NearestBy(U(_), top, m, num, den) ==
    LET Beyond(neighbour) == 2 * num - den * (U(m) + U(neighbour))
    IN /\ m > 0 => Beyond(m - 1) > 0 \/ (Beyond(m - 1) = 0 /\ m % 2 = 0)
       /\ m < top => Beyond(m + 1) < 0 \/ (Beyond(m + 1) = 0 /\ m % 2 = 0)
Nearest(m, num, den) == NearestBy(Units, Infinity, m, num, den)
NextTo(m, num, den) == \E near \in Max2(0, m - 1) .. Min2(Infinity, m + 1) : Nearest(near, num, den)

\* The classes of a meaning: no number, an infinite one, num / den units.
Unordered == [is |-> "NaN"]
Endless(negative) == [is |-> "infinity", negative |-> negative]
Value(negative, num, den) == [is |-> "value", negative |-> negative, num |-> num, den |-> den]
Scaled2(negative, num, den, exponent) ==
    IF exponent >= 0 THEN Value(negative, num * 2 ^ exponent, den) ELSE Value(negative, num, den * 2 ^ (-exponent))
IsMeant(bits, meant) ==
    CASE meant.is = "NaN" -> is_nan(bits)
      [] meant.is = "infinity" -> bits = Signed(meant.negative, Infinity)
      [] meant.is = "value" -> Negative(bits) = meant.negative /\ Nearest(Magnitude(bits), meant.num, meant.den)

MeantBy(op, l, r) ==
    LET sign == Negative(l) # Negative(r)
        sum  == SignedUnits(l) + SignedUnits(r)
        p    == decompose(l)
        q    == decompose(r)
        Nothing(b)   == Magnitude(b) = 0
        Boundless(b) == Magnitude(b) = Infinity
    IN CASE is_nan(l) \/ is_nan(r) -> Unordered
         [] op = "+" -> IF Boundless(l) /\ Boundless(r) /\ sign THEN Unordered
                        ELSE IF Boundless(l) THEN Endless(Negative(l))
                        ELSE IF Boundless(r) THEN Endless(Negative(r))
                        ELSE Value(sum < 0 \/ (sum = 0 /\ Negative(l) /\ Negative(r)), Abs(sum), 1)
         [] op = "*" -> IF (Boundless(l) /\ Nothing(r)) \/ (Nothing(l) /\ Boundless(r)) THEN Unordered
                        ELSE IF Boundless(l) \/ Boundless(r) THEN Endless(sign)
                        ELSE Scaled2(sign, p.significand * q.significand, 1, p.exponent + q.exponent - Lowest)
         [] op = "/" -> IF (Boundless(l) /\ Boundless(r)) \/ (Nothing(l) /\ Nothing(r)) THEN Unordered
                        ELSE IF Boundless(l) \/ Nothing(r) THEN Endless(sign)
                        ELSE IF Boundless(r) \/ Nothing(l) THEN Value(sign, 0, 1)
                        ELSE Scaled2(sign, p.significand, q.significand, p.exponent - q.exponent - Lowest)
         [] op = "%" -> IF Boundless(l) \/ Nothing(r) THEN Unordered
                        ELSE Value(Negative(l), IF Boundless(r) THEN Units(l) ELSE Units(l) % Units(r), 1)

Narrow == -2 ^ (IntegerBits - 1) .. 2 ^ (IntegerBits - 1) - 1
\* The integer of that width that v is modulo it.
Wrapped(v) == CHOOSE z \in Narrow : (z - v) % 2 ^ IntegerBits = 0
BitAt(v, i) == (v \div 2 ^ i) % 2 = 1
\* Every bit of z, down to where the signs go on, is made of those of l and r.
Combines(z, op, l, r, length) ==
    \A i \in 0 .. length :
        BitAt(z, i) = CASE op \in {"&", "big &"} -> BitAt(l, i) /\ BitAt(r, i)
                        [] op \in {"|", "big |"} -> BitAt(l, i) \/ BitAt(r, i)
                        [] op \in {"^", "big ^"} -> BitAt(l, i) # BitAt(r, i)
IntegerMeant(op, l, r, answer) ==
    LET L == Integral(l)
        places == Integral(r) % IntegerBits
        z == Integral(answer)
    IN /\ SignedUnits(answer) = z * UnitsOfOne
       /\ CASE op = ">>>" -> z = (L % 2 ^ IntegerBits) \div 2 ^ places
            [] op = "<<"  -> z = Wrapped(L * 2 ^ places)
            [] op = ">>"  -> z = Wrapped(L) \div 2 ^ places
            [] OTHER      -> z \in Narrow /\ Combines(z, op, L, Integral(r), IntegerBits - 1)

\* A power of a finite base with an integral exponent, or one next to it.
PowerMeant(base, exponent, answer) ==
    LET p   == decompose(base)
        low == CHOOSE i \in 0 .. FractionBits : p.significand % 2 ^ i = 0 /\ (p.significand \div 2 ^ i) % 2 = 1
        k   == Integral(exponent)
        s   == (p.significand \div 2 ^ low) ^ Abs(k)
        v   == Scaled2(Negative(base) /\ k % 2 = 1, IF k < 0 THEN 1 ELSE s, IF k < 0 THEN s ELSE 1,
                       (p.exponent + low) * k - Lowest)
    IN IF k = 0 THEN answer = One
       ELSE Negative(answer) = v.negative /\ NextTo(Magnitude(answer), v.num, v.den)

OperationMeant(op, l, r, answer) ==
    CASE op \in {"+", "*", "/", "%"} -> IsMeant(answer, MeantBy(op, l, r))
      [] op = "-"  -> IsMeant(answer, MeantBy("+", l, unary_minus(r)))
      [] op = "**" -> PowerMeant(l, r, answer[1])
      [] op = "<"  -> IF is_nan(l) \/ is_nan(r) THEN answer = 2
                      ELSE /\ answer = -1 <=> SignedUnits(l) < SignedUnits(r)
                           /\ answer = 0 <=> SignedUnits(l) = SignedUnits(r)
                           /\ answer = 1 <=> SignedUnits(l) > SignedUnits(r)
      [] op = "is" -> answer <=> (is_nan(l) /\ is_nan(r)) \/
                                 (~is_nan(l) /\ ~is_nan(r) /\ Units(l) = Units(r) /\ Negative(l) = Negative(r))
      [] op = "includes" -> answer <=> (is_nan(l) /\ is_nan(r)) \/
                                       (~is_nan(l) /\ ~is_nan(r) /\ SignedUnits(l) = SignedUnits(r))
      [] OTHER     -> IntegerMeant(op, l, r, answer)

\* The doubles that are of the single format, and the nearest of them.
SingleUnits(m) == UnitsIn(m, SingleFraction, SingleExponent)
SingleMeant(bits, answer) ==
    \E m \in 0 .. SingleTop * 2 ^ SingleFraction :
        /\ NearestBy(SingleUnits, SingleTop * 2 ^ SingleFraction, m, Units(bits), 1)
        /\ IF m = SingleTop * 2 ^ SingleFraction THEN Magnitude(answer) = Infinity
           ELSE Units(answer) = SingleUnits(m)

\* A root is a double on one side of the real one or the other, and an exact
\* one is itself.
RootMeant(bits, answer) ==
    LET m == Magnitude(answer)
        Under(root) == Units(root) * Units(root) <= Units(bits) * UnitsOfOne
    IN CASE Magnitude(bits) = 0 -> answer = bits
         [] Negative(bits) /\ Magnitude(bits) # 0 -> is_nan(answer)
         [] OTHER -> /\ ~Negative(answer)
                     /\ Under(m) \/ Under(m - 1)
                     /\ ~Under(m + 1)
                     /\ Under(m) \/ Units(m - 1) * Units(m - 1) # Units(bits) * UnitsOfOne

ConversionMeant(op, v, answer) ==
    LET s == SignedUnits(v)
        Same(units) == SignedUnits(answer) = units /\ Negative(answer) = Negative(v)
    IN CASE op = "~" -> LET L == IF IsFinite(v) THEN Integral(v) ELSE 0
                        IN SignedUnits(answer) = (-Wrapped(L) - 1) * UnitsOfOne
         [] op = "isInteger" -> answer <=> IsFinite(v) /\ s % UnitsOfOne = 0
         [] is_nan(v) -> CASE op \in {"int32", "truncate", "length"} -> answer = 0
                           [] OTHER -> is_nan(answer)
         [] Magnitude(v) = Infinity ->
                CASE op = "int32" -> answer = 0
                  [] op = "length" -> SignedUnits(answer) = (IF Negative(v) THEN 0 ELSE (2 * Hidden - 1) * UnitsOfOne)
                  [] op = "sqrt" -> IF Negative(v) THEN is_nan(answer) ELSE answer = v
                  [] OTHER -> answer = v
         [] OTHER ->
                CASE op = "floor" -> Same((s \div UnitsOfOne) * UnitsOfOne)
                  [] op = "ceil"  -> Same(-(((-s) \div UnitsOfOne) * UnitsOfOne))
                  [] op = "truncate" -> Same(Towards0(s, UnitsOfOne) * UnitsOfOne)
                  [] op = "sqrt" -> RootMeant(v, answer)
                  [] op = "single" -> Negative(answer) = Negative(v) /\ SingleMeant(v, answer)
                  [] op = "int32" -> answer = Wrapped(Integral(v))
                  [] op = "length" -> SignedUnits(answer) = Max2(0, Min2(Integral(v), 2 * Hidden - 1)) * UnitsOfOne

\* The value of a decimal text as the fraction num / den.
FractionAt(shown, after, ten) ==
    [num |-> NumberOf(shown) * 10 ^ Max2(0, ten), den |-> 10 ^ Max2(0, -ten), ten |-> ten, after |-> after, shown |-> shown]
FractionBefore(shown, tens) ==
    LET point == After(shown, 1, LAMBDA c : c # Point)
        after == Len(shown) - Min2(point, Len(shown))
    IN FractionAt(SelectSeq(shown, IsDigit), after, tens - after)
FractionMarked(body, mark) ==
    FractionBefore(SubSeq(body, 1, mark - 1),
                   (IF At(body, mark + 1) = Minus THEN -1 ELSE 1)
                   * (IF mark > Len(body) THEN 0 ELSE NumberOf(SubSeq(body, mark + 2, Len(body)))))
FractionOf(body) == FractionMarked(body, After(body, 1, LAMBDA c : c # LetterE))
Fraction(text) == FractionOf(IF At(text, 1) = Minus THEN Tail(text) ELSE text)

\* The text reads back as the double, and no text of fewer digits does, nor one
\* of as many digits that is nearer.
ShortestValue(bits, value, place, den) ==
    LET ReadsBack(v) == Nearest(Magnitude(bits), v * place * UnitsOfOne, den)
        Away(v) == Abs(v * place * UnitsOfOne - Units(bits) * den)
    IN /\ ReadsBack(value)
       /\ \A v \in {value - 1, value + 1} : ReadsBack(v) => Away(value) <= Away(v)
       /\ value >= 10 => \A v \in {value \div 10, value \div 10 + 1} : ~ReadsBack(v * 10)
\* f.num \div value is what the last digit counts, over f.den.
ShortestFraction(bits, f, value) == ShortestValue(bits, value, f.num \div value, f.den)
ShortestRead(bits, f) == ShortestFraction(bits, f, NumberOf(trim([Decimal EXCEPT !.digits = f.shown]).digits))
ShortestMeant(bits, text) == ShortestRead(bits, Fraction(text))

\* v * 10^ten with no zero at the end of v.
Stripped(v, ten) ==
    LET zeros == CHOOSE z \in 0 .. 9 : v % 10 ^ z = 0 /\ (v \div 10 ^ z) % 10 # 0
    IN IF v = 0 THEN <<0, 0>> ELSE <<v \div 10 ^ zeros, ten + zeros>>
\* The shortest digits to a number of places, rounded half up there.
CutMeant(f, v, cut, places) ==
    Stripped(NumberOf(f.shown), f.ten) =
    IF cut <= 0 THEN Stripped(v, -(places + cut)) ELSE Stripped((2 * v + 10 ^ cut) \div (2 * 10 ^ cut), -places)
RoundedMeant(s, text, places) == CutMeant(Fraction(text), NumberOf(s.digits), Len(s.digits) - s.exponent - places, places)

\* A finite v that is not zero, s its shortest digits.
TextMeant(op, v, digits, text, s) ==
    CASE op = "toString" /\ digits = 10 ->
            /\ ShortestMeant(v, text)
            /\ (\E i \in 1 .. Len(text) : text[i] = LetterE)
                  <=> s.exponent \notin 1 - PlainDownTo .. PlainUpTo /\ small_integer(Magnitude(v)) = <<>>
      \* Another radix divides in doubles: exactly while they are integers.
      [] op = "toString" /\ digits # 10 ->
            Units(v) < 2 * Hidden * UnitsOfOne =>
            FoldLeft(LAMBDA sum, d : sum * digits + d, 0, SelectSeq(text, LAMBDA c : c >= 0)) = Units(v) \div UnitsOfOne
      [] op = "toFixed" ->
            IF Units(v) >= 10 ^ PlainUpTo * UnitsOfOne THEN text = shortest_text(v)
            ELSE Fraction(text).after = digits /\ RoundedMeant(s, text, digits)
      [] op \in {"toExponential", "toPrecision"} ->
            RoundedMeant(s, text,
                         -s.exponent + (CASE op = "toPrecision" -> digits
                                          [] op = "toExponential" /\ digits = Omitted -> Len(s.digits)
                                          [] OTHER -> digits + 1))

WritingMeant(op, v, digits, text) ==
    LET outside == CASE op = "toString" -> digits \notin 2 .. 36
                     [] op = "toFixed" -> digits \notin 0 .. MostDigits
                     [] op = "toPrecision" -> IsFinite(v) /\ digits \notin 1 .. MostDigits
                     [] op = "toExponential" ->
                            IsFinite(v) /\ digits \notin {Omitted} \cup 0 .. MostDigits
    IN IF outside THEN text = RangeError
       ELSE IF is_nan(v) THEN text = <<NaNWord>>
       ELSE IF Magnitude(v) = Infinity THEN text = SignOf(Negative(v)) \o <<InfinityWord>>
       ELSE IF Magnitude(v) = Zero THEN Fraction(text).num = 0
       ELSE (text[1] = Minus) = Negative(v) /\ TextMeant(op, v, digits, text, shortest(Magnitude(v)))

\* A whole number is its limbs, and what a cell has no room for is refused.
IntegerOf(v) ==
    LET magnitude == FoldRight(LAMBDA limb, sum : sum * Base + limb, v.limbs, 0)
    IN IF v.negative THEN -magnitude ELSE magnitude
Canonical(v) ==
    /\ \A i \in 1 .. Len(v.limbs) : v.limbs[i] \in 0 .. Base - 1
    /\ v.limbs # <<>> => Last(v.limbs) # 0
    /\ v.limbs = <<>> => ~v.negative
Makes(answer, value) ==
    IF Abs(value) >= Base ^ MaxLimbs THEN answer.error # "none"
    ELSE answer.error = "none" /\ Canonical(answer) /\ IntegerOf(answer) = value

WholeMeant(q, answer) ==
    LET op     == q.op
        l      == IntegerOf(q.left)
        r      == IntegerOf(q.right)
        double == q.double
        Shown  == SelectSeq(answer, LAMBDA c : c >= 0)
    IN CASE op = "big +" -> Makes(answer, l + r)
         [] op = "big -" -> Makes(answer, l - r)
         [] op = "big *" -> Makes(answer, l * r)
         [] op = "big /" -> IF r = 0 THEN answer.error # "none"
                            ELSE Makes(answer, IF r < 0 THEN -Towards0(l, -r) ELSE Towards0(l, r))
         [] op = "big %" -> IF r = 0 THEN answer.error # "none"
                            ELSE Makes(answer, l - Towards0(l, Abs(r)) * Abs(r))
         [] op = "big **" -> IF r < 0 THEN answer.error # "none" ELSE Makes(answer, IF r = 0 THEN 1 ELSE l ^ r)
         [] op \in {"big <<", "big >>"} ->
                LET places == IF op = "big <<" THEN r ELSE -r
                IN Makes(answer, IF places >= 0 THEN l * 2 ^ places ELSE l \div 2 ^ (-places))
         [] op \in {"big &", "big |", "big ^"} ->
                IF answer.error = "none"
                THEN /\ Canonical(answer)
                     /\ Combines(IntegerOf(answer), op, l, r, LimbBits * MaxLimbs + 1)
                \* Two that are representable may make the one that is not.
                ELSE Combines(-Base ^ MaxLimbs, op, l, r, LimbBits * MaxLimbs + 1)
         [] op = "big <" ->
                IF is_nan(double) THEN answer = 2
                ELSE IF Magnitude(double) = Infinity THEN answer = (IF Negative(double) THEN 1 ELSE -1)
                ELSE answer = (IF l * UnitsOfOne < SignedUnits(double) THEN -1
                               ELSE IF l * UnitsOfOne > SignedUnits(double) THEN 1 ELSE 0)
         [] op = "asNumber" -> /\ Negative(answer) = (l < 0)
                               /\ NextTo(Magnitude(answer), Abs(l) * UnitsOfOne, 1)
         [] op = "big of" -> IF ~IsFinite(double) \/ SignedUnits(double) % UnitsOfOne # 0 THEN answer.error # "none"
                             ELSE Makes(answer, Integral(double))
         [] op = "big text" -> /\ answer = SignOf(l < 0) \o Shown
                               /\ FoldLeft(LAMBDA sum, d : sum * q.radix + d, 0, Shown) = Abs(l)
                               /\ Len(Shown) > 1 => Shown[1] # 0

\* A text asked to be read comes with what it means.
ReadingMeant(means, answer) ==
    CASE means.is = "integer" -> Makes(answer, means.value)
      [] means.is = "SyntaxError" -> answer.error = "SyntaxError"
      [] OTHER -> IsMeant(answer, means)

\* Every answer is what the question means.
AnsweredAsMeant ==
    n.answer # <<>> =>
        LET q == n.asked
            answer == n.answer[1]
        IN CASE q.kind = "operation"  -> OperationMeant(q.op, q.left, q.right, answer)
             [] q.kind = "conversion" -> ConversionMeant(q.op, q.value, answer)
             [] q.kind = "reading"    -> ReadingMeant(q.means, answer)
             [] q.kind = "writing"    -> WritingMeant(q.op, q.value, q.digits, answer)
             [] q.kind = "whole"      -> WholeMeant(q, answer)
===============================================================================
