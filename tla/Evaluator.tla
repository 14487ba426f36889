------------------------------ MODULE Evaluator -------------------------------
(***************************************************************************)
(* The bounded expression evaluator (modules/app/phasor_eval/mod.rs over   *)
(* common/eval_core.rs): stage a source until it hangs up, evaluate sums   *)
(* of decimal integers under a fuel and a width, push the result in        *)
(* pieces, exit.                                                           *)
(*                                                                         *)
(* A byte is a digit, a sign, a space or something else.  The width is a   *)
(* parameter: MaxInt stands for i32::MAX.                                  *)
(***************************************************************************)
EXTENDS Integers, Sequences, FiniteSets, SequencesExt

CONSTANTS
    Digits,         \* digits a source may hold, as one-character strings
    Texts,          \* the sources a run reads
    MaxInt,         \* i32::MAX; u32::MAX is 2 * MaxInt + 1
    Fuel,           \* FUEL_LIMIT: bytes an evaluation may consume
    SourceCells     \* SOURCE_CAPACITY

VARIABLES
    text,           \* what the source's producer has still to write
    source,         \* bytes staged
    overflow,       \* source_overflow
    phase,          \* 0 reading, 1 writing, 2 done
    outcome,        \* what was evaluated: [ok, value]
    pending,        \* parts of the result still to write
    wrote           \* parts written

evars == <<text, source, overflow, phase, outcome, pending, wrote>>

Signs == {"+", "-"}
Space == " "
Value == [b \in Digits |-> CHOOSE n \in 0..9 : ToString(n) = b]
MinInt == -MaxInt - 1
Nothing == [ok |-> FALSE, value |-> 0]

----------------------------------------------------------------------------
(* Parser: the bytes one at a time, the error that ends it kept.           *)

Started == [mode |-> "integer", neg |-> FALSE, mag |-> 0, op |-> "+", value |-> 0,
            fuel |-> Fuel, error |-> FALSE]

Fits(n) == n >= MinInt /\ n <= MaxInt

\* Mutant: a sum is not checked against the width.
integer_wide(p) ==
    LET n == IF p.neg THEN -p.mag ELSE p.mag
        sum == IF p.op = "+" THEN p.value + n ELSE p.value - n
    IN  [p EXCEPT !.mode = "after", !.value = sum, !.neg = FALSE, !.mag = 0,
                  !.error = @ \/ ~Fits(n)]

\* The end of an integer: i32::MIN has a magnitude no i32 has.
integer(p) ==
    LET n == IF p.neg THEN -p.mag ELSE p.mag
        sum == IF p.op = "+" THEN p.value + n ELSE p.value - n
    IN  [p EXCEPT !.mode = "after", !.value = sum, !.neg = FALSE, !.mag = 0,
                  !.error = @ \/ ~Fits(n) \/ ~Fits(sum)]

consume(p) == [p EXCEPT !.fuel = @ - 1, !.error = @ \/ p.fuel = 0]

Digit(p, d) ==
    LET mag == p.mag * 10 + Value[d]
    IN  [consume(p) EXCEPT !.mode = "digits", !.mag = mag,
                           !.error = @ \/ p.fuel = 0 \/ mag > 2 * MaxInt + 1]

parse_byte(p, b) ==
    LET q == IF p.mode = "digits" /\ b \notin Digits THEN integer(p) ELSE p
    IN  IF q.error THEN q
        ELSE CASE b \in Digits /\ q.mode # "after"      -> Digit(q, b)
               [] b = Space                             -> consume(q)
               [] b \in Signs /\ q.mode = "integer"     -> [consume(q) EXCEPT !.mode = "signed",
                                                                               !.neg = b = "-"]
               [] b \in Signs /\ q.mode = "after"       -> [consume(q) EXCEPT !.mode = "integer",
                                                                               !.op = b]
               [] OTHER                                 -> [q EXCEPT !.error = TRUE]

evaluate(bytes) ==
    LET p == FoldLeft(parse_byte, Started, bytes)
        e == IF p.mode = "digits" THEN integer(p) ELSE p
    IN  [ok |-> ~e.error /\ e.mode = "after",
         value |-> IF ~e.error /\ e.mode = "after" THEN e.value ELSE 0]

----------------------------------------------------------------------------
(* The module: read, evaluate at the hang-up, write, exit.                 *)

EvaluatorInit ==
    /\ text \in Texts
    /\ source = <<>> /\ overflow = FALSE
    /\ phase = 0 /\ outcome = Nothing /\ pending = 0 /\ wrote = 0

\* As many bytes as the buffer has room for; past it they are dropped.
Read ==
    /\ phase = 0 /\ pending = 0 /\ text # <<>>
    /\ LET room == SourceCells - Len(source)
           n == IF room = 0 THEN 1 ELSE IF Len(text) < room THEN Len(text) ELSE room
       IN  /\ \E k \in {1, n} :
                 /\ text' = SubSeq(text, k + 1, Len(text))
                 /\ source' = IF room = 0 THEN source ELSE source \o SubSeq(text, 1, k)
           /\ overflow' = (overflow \/ room = 0)
    /\ UNCHANGED <<phase, outcome, pending, wrote>>

\* Two parts stand for a result or an error the port may take in pieces.
Evaluate ==
    /\ phase = 0 /\ pending = 0 /\ text = <<>>
    /\ outcome' = IF overflow THEN Nothing ELSE evaluate(source)
    /\ phase' = 1 /\ pending' = 2
    /\ UNCHANGED <<text, source, overflow, wrote>>

Flush ==
    /\ pending > 0
    /\ \E n \in 1..pending : pending' = pending - n /\ wrote' = wrote + n
    /\ UNCHANGED <<text, source, overflow, phase, outcome>>

Exit ==
    /\ phase = 1 /\ pending = 0
    /\ phase' = 2
    /\ UNCHANGED <<text, source, overflow, outcome, pending, wrote>>

EvaluatorNext == Read \/ Evaluate \/ Flush \/ Exit

----------------------------------------------------------------------------
(* Properties.                                                             *)

\* The numbers of a source: its longest runs of digits, and what they say.
Runs(b) == {r \in (DOMAIN b) \X (DOMAIN b) :
              /\ r[1] <= r[2]
              /\ \A i \in r[1]..r[2] : b[i] \in Digits
              /\ r[1] = 1 \/ b[r[1] - 1] \notin Digits
              /\ r[2] = Len(b) \/ b[r[2] + 1] \notin Digits}
Magnitude(b, r) == FoldLeft(LAMBDA n, d : n * 10 + Value[d], 0, SubSeq(b, r[1], r[2]))
Earlier(b, r) == {q \in Runs(b) : q[2] < r[1]}
\* The signs between a number and the one before it.
SignsOf(b, r) == {i \in DOMAIN b : /\ i < r[1] /\ b[i] \in Signs
                                   /\ \A q \in Earlier(b, r) : q[2] < i}
Term(b, r) == LET minus == Cardinality({i \in SignsOf(b, r) : b[i] = "-"})
              IN  IF minus % 2 = 1 THEN -Magnitude(b, r) ELSE Magnitude(b, r)
Own(b, r) == IF Earlier(b, r) = {} \/ Cardinality(SignsOf(b, r)) = 2
             THEN LET minus == {i \in SignsOf(b, r) : b[i] = "-"}
                      last == {i \in SignsOf(b, r) : \A j \in SignsOf(b, r) : j <= i}
                  IN  IF minus \cap last # {} THEN -Magnitude(b, r) ELSE Magnitude(b, r)
             ELSE Magnitude(b, r)
Total(b, rs) == FoldLeft(LAMBDA n, r : n + Term(b, r), 0, SetToSeq(rs))
Shaped(b) ==
    /\ Runs(b) # {}
    /\ \A i \in DOMAIN b : b[i] \in Digits \cup Signs \cup {Space}
    /\ \A r \in Runs(b) : Cardinality(SignsOf(b, r)) \in
          (IF Earlier(b, r) = {} THEN {0, 1} ELSE {1, 2})
    /\ \A i \in DOMAIN b : b[i] \in Signs => \E r \in Runs(b) : i < r[1]

\* A source has the value of the sum it writes, or an error: never a sum cut
\* at the width, at the fuel or at the buffer (evaluate, module_step).
EvaluatesTheSum ==
    phase > 0 /\ ~overflow =>
        /\ outcome.ok = /\ Shaped(source) /\ Len(source) <= Fuel
                        /\ \A r \in Runs(source) :
                              Fits(Own(source, r)) /\ Fits(Total(source, Earlier(source, r) \cup {r}))
        /\ outcome.ok => outcome.value = Total(source, Runs(source))

\* A source longer than the buffer is an error, whatever its prefix says, and
\* the result is written whole before the module ends.
PrefixIsNoSource == /\ phase > 0 /\ overflow => ~outcome.ok
                    /\ phase = 2 => wrote = 2

===============================================================================
