------------------------------- MODULE Regexp -------------------------------
(***************************************************************************)
(* Regular expressions: the compiler and the matcher of                    *)
(* modules/common/regexp.rs, and the natives that drive the matcher        *)
(* (modules/common/vm/regexps.rs, vm/natives/regexps.rs).                  *)
(*                                                                         *)
(* The compiler is a recursive descent over the units of a pattern that    *)
(* writes instructions as it reads.  Alternation and quantifiers lift what *)
(* they have already written and put splits and jumps around it, so every  *)
(* displacement is relative to its own instruction.  A program here is a   *)
(* sequence of instructions and a displacement counts instructions, where  *)
(* the code counts bytes.                                                  *)
(*                                                                         *)
(* A pattern under test is a tree: Text writes it out as the units the     *)
(* compiler reads, and Meaning says, in the order a backtracking matcher   *)
(* must try them, every way ECMA-262 lets the tree match.  Nothing of the  *)
(* compiler is used in saying that.  Unicode mode and the numeric escapes  *)
(* are left out: they change which unit is read, not what is built around  *)
(* it.                                                                     *)
(*                                                                         *)
(* The matcher is a loop over instructions: it keeps the choices it may go *)
(* back to and a log of the captures to put back, both in fixed arrays the *)
(* machine owns, and spends fuel on every instruction.  A lookahead calls  *)
(* the matcher again on a part of the program, with the same two arrays.   *)
(* What stops a match for want of room or fuel is told apart from a match  *)
(* that failed.  Above it, match_regexp tries one start after another, and *)
(* exec, match, search, replace and split call match_regexp as often as    *)
(* they need.                                                              *)
(*                                                                         *)
(* One instruction is one step.  A case is what a program wrote: a         *)
(* pattern, its flags, a subject and the native that was called.           *)
(***************************************************************************)
EXTENDS Integers, Sequences, SequencesExt, FiniteSets

CONSTANTS MaxProgram,   \* MAX_PROGRAM, in instructions
          MaxGroups,    \* MAX_GROUPS
          MaxCopies,    \* MAX_REPEAT_COPIES
          MaxDepth,     \* the nesting one pattern may have
          Cases,        \* what programs ask; see CaseType
          MatchFuel,    \* REGEXP_FUEL: what one match may spend
          TaskFuel      \* what the task has when the native is called

VARIABLE rx

-----------------------------------------------------------------------------
(* Units: two letters in two cases, and a line feed, in code order.        *)

Alphabet == <<"LF", "A", "B", "a", "b">>

Code(u) == CHOOSE i \in 1..Len(Alphabet) : Alphabet[i] = u

IsWordUnit(u) == u # "LF"

IsLineTerminator(u) == u = "LF"

Fold(u) == CASE u = "A" -> "a" [] u = "B" -> "b" [] OTHER -> u

(* u32::MAX as the upper bound of a repetition. *)
Many == 99

(* Is u inside one of the ranges, the case folded or not? *)
InRanges(u, ranges, folded) ==
    \E k \in DOMAIN ranges :
        LET lo == Code(ranges[k][1]) hi == Code(ranges[k][2]) IN
        \/ Code(u) \in lo..hi
        \/ /\ folded
           /\ Code(Fold(u)) \in Code(Fold(ranges[k][1]))..Code(Fold(ranges[k][2]))

WordRanges == << <<"A", "B">>, <<"a", "b">> >>
NotWordRanges == << <<"LF", "LF">> >>

-----------------------------------------------------------------------------
(* The compiler.                                                           *)

Digits == <<"0", "1", "2", "3">>
IsDigit(u) == \E k \in DOMAIN Digits : Digits[k] = u
Value(u) == (CHOOSE k \in DOMAIN Digits : Digits[k] = u) - 1

(* A name, in a pattern or after `\k`, is one unit here. *)
GroupNames == {"x", "y"}

Peek(p, at) == IF at <= Len(p) THEN p[at] ELSE "end"

Fail(c, why) == [c EXCEPT !.err = why]

Emit(c, is) ==
    IF Len(c.code) + Len(is) > MaxProgram THEN Fail(c, "TooLarge")
    ELSE [c EXCEPT !.code = @ \o is]

(* Where a name that starts at `at` ends, or 0 where it is not one. *)
GroupNameEnd(p, at) ==
    IF Peek(p, at) \in GroupNames /\ Peek(p, at + 1) = ">" THEN at + 1 ELSE 0

(* prescan_names: the names a pattern declares, each with the number of its
   group, found before anything is compiled. *)
RECURSIVE Prescan(_, _, _, _, _)
Prescan(p, at, inClass, groups, names) ==
    LET u == Peek(p, at)
        next == Peek(p, at + 1)
    IN  CASE u = "end" -> names
          [] u = "\\" -> Prescan(p, at + 2, inClass, groups, names)
          [] u # "\\" /\ u # "end" /\ inClass ->
                Prescan(p, at + 1, u # "]", groups, names)
          [] u = "[" /\ ~inClass -> Prescan(p, at + 1, TRUE, groups, names)
          [] u = "(" /\ ~inClass /\ next # "?" ->
                Prescan(p, at + 1, FALSE, groups + 1, names)
          [] u = "(" /\ ~inClass /\ next = "?" /\ Peek(p, at + 2) # "<" ->
                Prescan(p, at + 2, FALSE, groups, names)
          [] u = "(" /\ ~inClass /\ next = "?" /\ Peek(p, at + 2) = "<" ->
                LET end == GroupNameEnd(p, at + 3)
                    name == p[at + 3]
                IN  IF end = 0 \/ \E k \in DOMAIN names : names[k][1] = name
                    THEN << <<"bad", 0>> >>
                    ELSE Prescan(p, end + 1, FALSE, groups + 1,
                                 Append(names, <<name, groups + 1>>))
          [] OTHER -> Prescan(p, at + 1, FALSE, groups, names)

(* digits: <<value, where they end>>, or the same place where there are none. *)
RECURSIVE ReadDigits(_, _, _)
ReadDigits(p, at, value) ==
    IF IsDigit(Peek(p, at)) THEN ReadDigits(p, at + 1, value * 10 + Value(p[at]))
    ELSE <<value, at>>

(* counted: {n}, {n,} or {n,m} at `at`; <<>> where the brace is only a unit. *)
Counted(p, at) ==
    LET low == ReadDigits(p, at + 1, 0)
        comma == Peek(p, low[2]) = ","
        high == IF comma THEN ReadDigits(p, low[2] + 1, 0) ELSE low
        max == IF comma /\ high[2] = low[2] + 1 THEN Many ELSE high[1]
    IN  IF low[2] = at + 1 \/ Peek(p, high[2]) # "}" THEN <<>>
        ELSE <<low[1], max, high[2] + 1>>

(* The splits of a quantifier: what is tried first depends on greed. *)
Split(first, second, lazy) ==
    IF lazy THEN <<"split", second, first>> ELSE <<"split", first, second>>

StarOf(body, lazy) ==
    <<Split(1, Len(body) + 2, lazy)>> \o body \o << <<"jump", -(Len(body) + 1)>> >>

RECURSIVE CopiesOf(_, _)
CopiesOf(body, n) == IF n = 0 THEN <<>> ELSE body \o CopiesOf(body, n - 1)

(* One optional copy after another, each entered by a split whose other
   branch is the end of them all. *)
RECURSIVE OptionalOf(_, _, _)
OptionalOf(body, n, lazy) ==
    IF n = 0 THEN <<>>
    ELSE <<Split(1, n * (Len(body) + 1), lazy)>> \o body \o OptionalOf(body, n - 1, lazy)

(* Greed turned round at `+`, and the optional copies left out. *)
QuantifiedShort(body, min, max, lazy) ==
    CASE min = 0 /\ max = Many -> StarOf(body, lazy)
      [] min = 1 /\ max = Many -> body \o <<Split(1, -Len(body), lazy)>>
      [] OTHER -> CopiesOf(body, min)

Quantified(body, min, max, lazy) ==
    CASE min = 0 /\ max = Many -> StarOf(body, lazy)
      [] min = 1 /\ max = Many -> body \o <<Split(-Len(body), 1, lazy)>>
      [] min = 0 /\ max = 1    -> <<Split(1, Len(body) + 1, lazy)>> \o body
      [] max = Many /\ min > 1 -> CopiesOf(body, min) \o StarOf(body, lazy)
      [] OTHER -> CopiesOf(body, min) \o OptionalOf(body, max - min, lazy)

(* quantify: the instructions from `start` on are lifted and wrapped. *)
Wrapped(c, start, min, max, lazy) ==
    LET body == SubSeq(c.code, start + 1, Len(c.code))
        optional == IF max = Many THEN 0 ELSE max - min
        plain == (min \in {0, 1} /\ max = Many) \/ (min = 0 /\ max = 1)
    IN  CASE body = <<>> -> Fail(c, "InvalidQuantifier")
          [] body # <<>> /\ ~plain /\ min + optional > MaxCopies -> Fail(c, "TooLarge")
          [] OTHER -> Emit([c EXCEPT !.code = SubSeq(@, 1, start)],
                           Quantified(body, min, max, lazy))

(* class: units and ranges up to the bracket; an escape that is a set may
   not end a range. *)
ClassSet(u) == CASE u = "w" -> WordRanges [] u = "W" -> NotWordRanges [] OTHER -> <<>>

RECURSIVE ClassRanges(_, _, _)
ClassRanges(p, at, ranges) ==
    LET u == Peek(p, at)
        escaped == u = "\\"
        low == IF escaped THEN Peek(p, at + 1) ELSE u
        after == IF escaped THEN at + 2 ELSE at + 1
        high == Peek(p, after + 1)
    IN  CASE u = "end" -> <<0, ranges>>
          [] u = "]" -> <<at + 1, ranges>>
          [] escaped /\ ClassSet(low) # <<>> -> ClassRanges(p, after, ranges \o ClassSet(low))
          [] OTHER ->
                IF Peek(p, after) = "-" /\ high # "]"
                THEN IF high \notin ToSet(Alphabet) \/ Code(high) < Code(low) THEN <<0, ranges>>
                     ELSE ClassRanges(p, after + 2, Append(ranges, <<low, high>>))
                ELSE ClassRanges(p, after, Append(ranges, <<low, low>>))

Class(p, c) ==
    LET negated == Peek(p, c.at) = "^"
        read == ClassRanges(p, IF negated THEN c.at + 1 ELSE c.at, <<>>)
    IN  IF read[1] = 0 THEN Fail(c, "InvalidClass")
        ELSE Emit([c EXCEPT !.at = read[1]], << <<"set", negated, read[2]>> >>)

EmitChar(c, u) ==
    Emit(c, << IF c.fold THEN <<"folded", Fold(u)>> ELSE <<"chr", u>> >>)

(* escape, its backslash read: a set, a boundary, a reference by number or by
   name, or the unit itself. *)
Escape(p, c) ==
    LET e == Peek(p, c.at)
        past == [c EXCEPT !.at = @ + 1]
        number == ReadDigits(p, c.at, 0)
        named == SelectInSeq(c.names, LAMBDA n : n[1] = Peek(p, c.at + 2))
        end == GroupNameEnd(p, c.at + 2)
    IN  CASE e = "end" -> Fail(c, "InvalidEscape")
          [] e \in {"w", "W"} -> Emit(past, << <<"set", FALSE, ClassSet(e)>> >>)
          [] e \in {"b", "B"} ->
                [Emit(past, << <<"boundary", e = "B">> >>) EXCEPT !.quantifiable = FALSE]
          [] IsDigit(e) /\ e # "0" ->
                Emit([c EXCEPT !.at = number[2]], << <<"back", number[1]>> >>)
          [] e = "k" /\ c.names # <<>> ->
                IF Peek(p, c.at + 1) # "<" \/ end = 0 \/ named = 0
                THEN Fail(c, "InvalidGroupName")
                ELSE Emit([c EXCEPT !.at = end + 1], << <<"back", c.names[named][2]>> >>)
          [] OTHER -> EmitChar(past, e)

RECURSIVE Alternation(_, _), Branches(_, _, _), Terms(_, _), Term(_, _), Group(_, _)

(* Where `)` must stand: past it, or the refusal. *)
Closed(p, c) ==
    CASE c.err # "" -> c
      [] c.err = "" /\ Peek(p, c.at) # ")" -> Fail(c, "UnmatchedParenthesis")
      [] OTHER -> [c EXCEPT !.at = @ + 1]

(* atom: one atom, noting whether a quantifier may follow it. *)
Atom(p, c) ==
    LET u == Peek(p, c.at)
        past == [c EXCEPT !.at = @ + 1, !.quantifiable = TRUE]
        fixed == [past EXCEPT !.quantifiable = FALSE]
    IN  CASE u = "^" -> Emit(fixed, << <<"start">> >>)
          [] u = "$" -> Emit(fixed, << <<"end">> >>)
          [] u = "." -> Emit(past, << <<"any">> >>)
          [] u = "(" -> Group(p, past)
          [] u = "[" -> Class(p, past)
          [] u = "\\" -> Escape(p, past)
          [] u \in {"*", "+", "?"} -> Fail(c, "InvalidQuantifier")
          [] u = ")" -> Fail(c, "UnmatchedParenthesis")
          [] OTHER -> EmitChar(past, u)

(* A capturing group, its parenthesis and name read. *)
SaveEnd(c, n) ==
    IF c.err # "" THEN c
    ELSE [Emit(c, << <<"save", 2 * n + 1>> >>) EXCEPT !.quantifiable = TRUE]
CaptureGroup(p, c) ==
    LET n == c.groups + 1
    IN  IF c.groups >= MaxGroups THEN Fail(c, "TooLarge")
        ELSE SaveEnd(Closed(p, Alternation(p, Emit([c EXCEPT !.groups = n], << <<"save", 2 * n>> >>))), n)

(* A lookahead: its body ends in a match of its own, and its length follows
   it so that the matcher can pass over it. *)
LookEnd(c, mark, negated) ==
    IF c.err # "" THEN c
    ELSE [c EXCEPT !.code[mark] = <<"look", negated, Len(c.code) - mark>>, !.quantifiable = FALSE]
LookAhead(p, c, negated) ==
    LookEnd(Emit(Closed(p, Alternation(p, Emit(c, << <<"look", negated, 0>> >>))), << <<"match">> >>),
            Len(c.code) + 1, negated)

Group(p, c) ==
    LET kind == Peek(p, c.at + 1)
        inside == [c EXCEPT !.at = @ + 2]
        end == GroupNameEnd(p, c.at + 2)
    IN  CASE Peek(p, c.at) # "?" -> CaptureGroup(p, c)
          [] Peek(p, c.at) = "?" /\ kind = ":" ->
                [Closed(p, Alternation(p, inside)) EXCEPT !.quantifiable = TRUE]
          [] Peek(p, c.at) = "?" /\ kind \in {"=", "!"} -> LookAhead(p, inside, kind = "!")
          [] Peek(p, c.at) = "?" /\ kind = "<" ->
                IF end = 0 THEN Fail(c, "InvalidGroupName")
                ELSE CaptureGroup(p, [c EXCEPT !.at = end + 1])
          [] OTHER -> Fail(c, "NotAdmitted")

(* The quantifier at `at`: <<least, most, where it ends>>, or <<>>. *)
Quantifier(p, at) ==
    LET u == Peek(p, at)
    IN  CASE u = "*" -> <<0, Many, at + 1>>
          [] u = "+" -> <<1, Many, at + 1>>
          [] u = "?" -> <<0, 1, at + 1>>
          [] u = "{" -> Counted(p, at)
          [] OTHER -> <<>>

(* term: an atom with its quantifier, if it has one. *)
QuantifyAtom(p, atom, start, bounds) ==
    LET lazy == Peek(p, bounds[3]) = "?"
    IN  CASE atom.err # "" \/ bounds = <<>> -> atom
          [] OTHER -> IF bounds[2] < bounds[1] \/ ~atom.quantifiable
                      THEN Fail(atom, "InvalidQuantifier")
                      ELSE Wrapped([atom EXCEPT !.at = IF lazy THEN bounds[3] + 1 ELSE bounds[3]],
                                   start, bounds[1], bounds[2], lazy)
MaybeQuantified(p, atom, start) == QuantifyAtom(p, atom, start, Quantifier(p, atom.at))
Term(p, c) == MaybeQuantified(p, Atom(p, c), Len(c.code))

(* sequence: terms up to a bar or a parenthesis. *)
Terms(p, c) ==
    IF c.err # "" \/ Peek(p, c.at) \in {"end", "|", ")"} THEN c
    ELSE Terms(p, Term(p, c))

(* The rest of an alternation: what is written so far goes up by one, a split
   before it and a jump over the next branch after it. *)
Opened(c, start) ==
    LET body == SubSeq(c.code, start + 1, Len(c.code))
    IN  Emit([c EXCEPT !.at = @ + 1, !.code = SubSeq(@, 1, start)],
             << <<"split", 1, Len(body) + 2>> >> \o body \o << <<"jump", 0>> >>)
Jumped(c, jump) ==
    IF c.err # "" THEN c ELSE [c EXCEPT !.code[jump] = <<"jump", Len(c.code) + 1 - jump>>]
Branches(p, start, c) ==
    IF c.err # "" \/ Peek(p, c.at) # "|" THEN c
    ELSE Branches(p, start, Jumped(Terms(p, Opened(c, start)), Len(c.code) + 2))

Alternation(p, c) ==
    IF c.err # "" \/ c.depth >= MaxDepth THEN Fail(c, IF c.err # "" THEN c.err ELSE "TooLarge")
    ELSE LET whole == Branches(p, Len(c.code), Terms(p, [c EXCEPT !.depth = @ + 1]))
         IN  [whole EXCEPT !.depth = c.depth]

(* compile: the program, its groups and its names, or why not. *)
Read(p, names, fold) ==
    Alternation(p, [at |-> 1, code |-> <<>>, groups |-> 0, depth |-> 0, names |-> names,
                    err |-> IF \E k \in DOMAIN names : names[k][2] = 0 THEN "InvalidGroupName" ELSE "",
                    quantifiable |-> TRUE, fold |-> fold])
Finished(p, c) ==
    CASE c.err # "" -> c
      [] c.err = "" /\ c.at <= Len(p) -> Fail(c, "UnmatchedParenthesis")
      [] OTHER -> Emit(c, << <<"match">> >>)
Compile(p, fold) == Finished(p, Read(p, Prescan(p, 1, FALSE, 0, <<>>), fold))

-----------------------------------------------------------------------------
(* Trees, how they are written and what they mean.                         *)

Chr(u) == <<"chr", u>>
Dot == <<"any">>
Set(negated, ranges) == <<"set", negated, ranges>>
Word == <<"word">>
Start == <<"start">>
End == <<"end">>
Bound(negated) == <<"bound", negated>>
Grp(n, t) == <<"grp", n, t>>
Named(n, name, t) == <<"named", n, t, name>>
Non(t) == <<"non", t>>
Look(negated, t) == <<"look", negated, t>>
Back(n) == <<"back", n>>
NamedBack(n, name) == <<"namedback", n, name>>
Rep(t, min, max, lazy) == <<"rep", t, min, max, lazy>>
Cat(ts) == <<"cat", ts>>
Alt(s, t) == <<"alt", s, t>>

Suffix(min, max) ==
    CASE min = 0 /\ max = Many -> <<"*">>
      [] min = 1 /\ max = Many -> <<"+">>
      [] min = 0 /\ max = 1 -> <<"?">>
      [] min > 1 /\ max = Many -> <<"{", Digits[min + 1], ",", "}">>
      [] min = max -> <<"{", Digits[min + 1], "}">>
      [] OTHER -> <<"{", Digits[min + 1], ",", Digits[max + 1], "}">>

RECURSIVE Text(_)
Text(t) ==
    CASE t[1] = "chr" -> <<t[2]>>
      [] t[1] = "any" -> <<".">>
      [] t[1] = "set" -> <<"[">> \o (IF t[2] THEN <<"^">> ELSE <<>>)
                             \o FlattenSeq([k \in DOMAIN t[3] |->
                                    IF t[3][k][1] = t[3][k][2] THEN <<t[3][k][1]>>
                                    ELSE <<t[3][k][1], "-", t[3][k][2]>>])
                             \o <<"]">>
      [] t[1] = "word" -> <<"\\", "w">>
      [] t[1] = "start" -> <<"^">>
      [] t[1] = "end" -> <<"$">>
      [] t[1] = "bound" -> <<"\\", IF t[2] THEN "B" ELSE "b">>
      [] t[1] = "grp" -> <<"(">> \o Text(t[3]) \o <<")">>
      [] t[1] = "named" -> <<"(", "?", "<", t[4], ">">> \o Text(t[3]) \o <<")">>
      [] t[1] = "non" -> <<"(", "?", ":">> \o Text(t[2]) \o <<")">>
      [] t[1] = "look" -> <<"(", "?", IF t[2] THEN "!" ELSE "=">> \o Text(t[3]) \o <<")">>
      [] t[1] = "back" -> <<"\\", Digits[t[2] + 1]>>
      [] t[1] = "namedback" -> <<"\\", "k", "<", t[3], ">">>
      [] t[1] = "rep" -> Text(t[2]) \o Suffix(t[3], t[4]) \o (IF t[5] THEN <<"?">> ELSE <<>>)
      [] t[1] = "cat" -> FlattenSeq([k \in DOMAIN t[2] |-> Text(t[2][k])])
      [] t[1] = "alt" -> Text(t[2]) \o <<"|">> \o Text(t[3])

(* The groups a tree declares. *)
RECURSIVE Groups(_)
Groups(t) ==
    CASE t[1] \in {"grp", "named"} -> {t[2]} \cup Groups(t[3])
      [] t[1] \in {"non", "rep"} -> Groups(t[2])
      [] t[1] = "look" -> Groups(t[3])
      [] t[1] = "cat" -> UNION {Groups(t[2][k]) : k \in DOMAIN t[2]}
      [] t[1] = "alt" -> Groups(t[2]) \cup Groups(t[3])
      [] OTHER -> {}

(* Every way t matches x.subject from position i, best first: where it ends
   and what its groups then hold.  A position counts the units before it.
   A lookahead keeps no captures. *)
RECURSIVE Meaning(_, _, _, _), Turns(_, _, _, _, _, _, _)
Meaning(t, x, i, caps) ==
    LET unit == x.subject[i + 1]
        more == i < Len(x.subject)
        before == i > 0 /\ IsWordUnit(x.subject[i])
        after == more /\ IsWordUnit(unit)
        held == caps[t[2]]
        text(f, n) == [k \in 1..n |-> IF x.fold THEN Fold(x.subject[f + k]) ELSE x.subject[f + k]]
        If(ok, to) == IF ok THEN << [to |-> to, caps |-> caps] >> ELSE <<>>
        group(n, b) == LET ways == Meaning(b, x, i, caps) IN
            [k \in DOMAIN ways |-> [ways[k] EXCEPT !.caps[n] = <<i, ways[k].to>>]]
    IN  CASE t[1] = "chr" -> If(more /\ (IF x.fold THEN Fold(unit) = Fold(t[2])
                                         ELSE unit = t[2]), i + 1)
          [] t[1] = "any" -> If(more /\ (x.dotAll \/ ~IsLineTerminator(unit)), i + 1)
          [] t[1] = "set" -> If(more /\ InRanges(unit, t[3], x.fold) # t[2], i + 1)
          [] t[1] = "word" -> If(more /\ IsWordUnit(unit), i + 1)
          [] t[1] = "start" -> If(i = 0 \/ (x.multiline /\ IsLineTerminator(x.subject[i])), i)
          [] t[1] = "end" -> If(~more \/ (x.multiline /\ IsLineTerminator(unit)), i)
          [] t[1] = "bound" -> If((before # after) # t[2], i)
          [] t[1] \in {"grp", "named"} -> group(t[2], t[3])
          [] t[1] = "non" -> Meaning(t[2], x, i, caps)
          [] t[1] = "look" -> If((Meaning(t[3], x, i, caps) # <<>>) # t[2], i)
          [] t[1] \in {"back", "namedback"} ->
                IF held = <<>> THEN If(TRUE, i)
                ELSE LET n == held[2] - held[1] IN
                     If(i + n <= Len(x.subject) /\ text(i, n) = text(held[1], n), i + n)
          [] t[1] = "rep" -> Turns(t[2], t[3], t[4], t[5], x, i, caps)
          [] t[1] = "alt" -> Meaning(t[2], x, i, caps) \o Meaning(t[3], x, i, caps)
          [] t[1] = "cat" ->
                IF t[2] = <<>> THEN If(TRUE, i)
                ELSE LET ways == Meaning(Head(t[2]), x, i, caps) IN
                     FlattenSeq([k \in DOMAIN ways |->
                         Meaning(Cat(Tail(t[2])), x, ways[k].to, ways[k].caps)])

(* RepeatMatcher: a turn forgets what the turn before captured, and a turn
   that is not required may not be empty. *)
Turns(t, min, max, lazy, x, i, caps) ==
    LET forgotten == [n \in DOMAIN caps |-> IF n \in Groups(t) THEN <<>> ELSE caps[n]]
        ways == SelectSeq(Meaning(t, x, i, forgotten), LAMBDA w : min > 0 \/ w.to # i)
        again == FlattenSeq([k \in DOMAIN ways |->
                     Turns(t, IF min = 0 THEN 0 ELSE min - 1,
                           IF max = Many THEN Many ELSE max - 1, lazy, x,
                           ways[k].to, ways[k].caps)])
        stop == IF min = 0 THEN << [to |-> i, caps |-> caps] >> ELSE <<>>
    IN  CASE max = 0 -> << [to |-> i, caps |-> caps] >>
          [] max # 0 /\ lazy -> stop \o again
          [] OTHER -> again \o stop

(* The match RegExpBuiltinExec finds: at the first start that has one. *)
FirstFound(ways, start, sticky) ==
    LET starts == {s \in DOMAIN ways : ways[s] # <<>>}
        from == CHOOSE s \in starts : \A r \in starts : s <= r
    IN  IF starts = {} \/ (sticky /\ from # start) THEN <<>>
        ELSE << [from |-> from, to |-> ways[from][1].to, caps |-> ways[from][1].caps] >>
Found(t, x, start, sticky) ==
    FirstFound([s \in start..Len(x.subject) |-> Meaning(t, x, s, [n \in Groups(t) |-> <<>>])],
               start, sticky)

-----------------------------------------------------------------------------
(* What a program asks of the matcher.                                     *)

(* u32::MAX in a slot: the group took no part. *)
Unset == -1

Natives == {"exec", "match", "search", "replace", "split"}

(* A case: a tree, the flags it was written with, the subject, the native,
   the replacement, lastIndex before the call, and how many entries the two
   arrays of the matcher have. *)
CaseType(c) ==
    /\ c.native \in Natives
    /\ {c.global, c.sticky, c.fold, c.multiline, c.dotAll} \subseteq BOOLEAN
    /\ c.last \in Nat /\ c.room \in Nat

-----------------------------------------------------------------------------
(* Replacement templates: a sequence of parts, written with dollars.       *)

Lit(u) == <<"lit", u>>
Whole == <<"whole">>
Before == <<"before">>
After == <<"after">>
Dollar == <<"dollar">>
Capture(n) == <<"capture", n>>
NamedCapture(n, name) == <<"named", n, name>>

TemplateText(template) ==
    FlattenSeq([k \in DOMAIN template |->
        LET piece == template[k] IN
        CASE piece[1] = "lit" -> <<piece[2]>>
          [] piece[1] = "whole" -> <<"$", "&">>
          [] piece[1] = "before" -> <<"$", "backtick">>
          [] piece[1] = "after" -> <<"$", "quote">>
          [] piece[1] = "dollar" -> <<"$", "$">>
          [] piece[1] = "capture" -> <<"$", Digits[piece[2] + 1]>>
          [] piece[1] = "named" -> <<"$", "<", piece[3], ">">>])

(* string::slice, by the positions of a match. *)
Slice(text, from, to) == SubSeq(text, from + 1, to)

(* What group n of the match holds: the empty text where it took no part. *)
GroupText(subject, slots, n) ==
    IF slots[2 * n] = Unset \/ slots[2 * n + 1] = Unset THEN <<>>
    ELSE Slice(subject, slots[2 * n], slots[2 * n + 1])

(* expand_replacement, from unit k of the replacement on: a dollar with what
   it names, or a plain unit. *)
RECURSIVE Expand(_, _, _, _, _)
Expand(units, k, subject, slots, prog) ==
    LET next == Peek(units, k + 1)
        third == Peek(units, k + 2)
        one == Value(next)
        wide == one * 10 + Value(third)
        wider == IsDigit(third) /\ wide # 0 /\ wide <= prog.groups
        number == IF wider THEN wide ELSE one
        named == SelectInSeq(prog.names, LAMBDA n : n[1] = third)
        Rest(piece, width) == piece \o Expand(units, k + width, subject, slots, prog)
        plain == Rest(<<units[k]>>, 1)
    IN  CASE k > Len(units) -> <<>>
          [] k <= Len(units) /\ units[k] # "$" -> plain
          [] OTHER ->
                CASE next = "$" -> Rest(<<"$">>, 2)
                  [] next = "&" -> Rest(Slice(subject, slots[0], slots[1]), 2)
                  [] next = "backtick" -> Rest(Slice(subject, 0, slots[0]), 2)
                  [] next = "quote" -> Rest(Slice(subject, slots[1], Len(subject)), 2)
                  [] IsDigit(next) ->
                        IF number = 0 \/ number > prog.groups THEN plain
                        ELSE Rest(GroupText(subject, slots, number), IF wider THEN 3 ELSE 2)
                  [] next = "<" /\ prog.names # <<>> ->
                        IF Peek(units, k + 3) # ">" THEN plain
                        ELSE Rest(IF named = 0 THEN <<>>
                                  ELSE GroupText(subject, slots, prog.names[named][2]), 4)
                  [] OTHER -> plain

-----------------------------------------------------------------------------
(* run: the matcher's own state, one frame per nested match.               *)

Frame(code, at) ==
    [code |-> code, pc |-> 1, at |-> at, choices |-> 0, undo |-> 0, halted |-> FALSE,
     slots |-> [k \in 0..(2 * MaxGroups + 1) |-> IF k = 0 THEN at ELSE Unset]]

NoReply == <<"none yet">>

(* run returns: the slots where it matched, and whether it was stopped. *)
Returned(s, matched, slots, halted) ==
    [s EXCEPT !.frames = Front(@), !.reply = <<"returned", matched, slots, halted>>]

Gone(s, f) == Returned(s, FALSE, f.slots, f.halted)
Halted(s, f) == Returned(s, FALSE, f.slots, TRUE)

With(s, f) == [s EXCEPT !.frames[Len(s.frames)] = f]

(* Put back the captures logged after entry `to`, the last one first. *)
RECURSIVE PutBack(_, _, _, _)
PutBack(slots, undo, from, to) ==
    IF from <= to THEN slots
    ELSE PutBack([slots EXCEPT ![undo[from][1]] = undo[from][2]], undo, from - 1, to)

(* Go back to the last choice, with the captures it had. *)
Backtracked(s, f) ==
    IF f.choices = 0 THEN Gone(s, f)
    ELSE LET choice == s.choices[f.choices] IN
         With(s, [f EXCEPT !.choices = @ - 1, !.pc = choice.pc, !.at = choice.at,
                           !.undo = IF @ > choice.undo THEN choice.undo ELSE @,
                           !.slots = PutBack(@, s.undo, f.undo, choice.undo)])

(* Does the unit at the frame's position satisfy the instruction? *)
Accepts(s, f, i) ==
    LET u == s.case.subject[f.at + 1] IN
    /\ f.at < Len(s.case.subject)
    /\ CASE i[1] = "chr" -> u = i[2]
         [] i[1] = "folded" -> Fold(u) = i[2]
         [] i[1] = "any" -> s.case.dotAll \/ ~IsLineTerminator(u)
         [] i[1] = "set" -> InRanges(u, i[3], s.case.fold) # i[2]

Holds(s, f, i) ==
    LET input == s.case.subject
        before == f.at > 0 /\ IsWordUnit(input[f.at])
        after == f.at < Len(input) /\ IsWordUnit(input[f.at + 1])
    IN  CASE i[1] = "start" -> \/ f.at = 0
                               \/ s.case.multiline /\ IsLineTerminator(input[f.at])
          [] i[1] = "end" -> \/ f.at = Len(input)
                             \/ s.case.multiline /\ IsLineTerminator(input[f.at + 1])
          [] i[1] = "boundary" -> (before # after) # i[2]

(* How far a reference reaches, or -1 where the text is not there again. *)
Again(s, f, n) ==
    LET input == s.case.subject
        from == f.slots[2 * n]
        to == f.slots[2 * n + 1]
        length == IF to > from THEN to - from ELSE 0
        unit(k) == IF s.case.fold THEN Fold(input[k]) ELSE input[k]
    IN  CASE from = Unset \/ to = Unset -> 0
          [] OTHER -> IF /\ f.at + length <= Len(input)
                         /\ \A k \in 1..length : unit(from + k) = unit(f.at + k)
                      THEN length ELSE -1

Top == Last(rx.frames)
Instr == Top.code[Top.pc]

Running == rx.answer = "" /\ rx.frames # <<>> /\ rx.reply = NoReply

At(ops) == Running /\ rx.fuel > 0 /\ Top.pc \in DOMAIN Top.code /\ Instr[1] \in ops

(* Every instruction costs one. *)
Spent == [rx EXCEPT !.fuel = @ - 1]

(* Out of fuel, or past the code: nothing is decided, or nothing matches. *)
Stop ==
    /\ Running
    /\ rx.fuel = 0 \/ Top.pc \notin DOMAIN Top.code
    /\ rx' = IF rx.fuel = 0 THEN Halted(rx, Top) ELSE Gone(Spent, Top)

Match ==
    /\ At({"match"})
    /\ rx' = Returned(Spent, TRUE, [Top.slots EXCEPT ![1] = Top.at], Top.halted)

Consume ==
    /\ At({"chr", "folded", "any", "set"})
    /\ rx' = IF Accepts(rx, Top, Instr)
             THEN With(Spent, [Top EXCEPT !.at = @ + 1, !.pc = @ + 1])
             ELSE Backtracked(Spent, Top)

Test ==
    /\ At({"start", "end", "boundary"})
    /\ rx' = IF Holds(rx, Top, Instr) THEN With(Spent, [Top EXCEPT !.pc = @ + 1])
             ELSE Backtracked(Spent, Top)

Fork ==
    /\ At({"split"})
    /\ rx' = IF Top.choices >= rx.case.room THEN Halted(Spent, Top)
             ELSE With([Spent EXCEPT !.choices[Top.choices + 1] =
                            [pc |-> Top.pc + Instr[3], at |-> Top.at, undo |-> Top.undo]],
                       [Top EXCEPT !.choices = @ + 1, !.pc = @ + Instr[2]])

Jump == At({"jump"}) /\ rx' = With(Spent, [Top EXCEPT !.pc = @ + Instr[2]])

Save ==
    /\ At({"save"})
    /\ rx' = IF Top.undo >= rx.case.room THEN Halted(Spent, Top)
             ELSE With([Spent EXCEPT !.undo[Top.undo + 1] = <<Instr[2], Top.slots[Instr[2]]>>],
                       [Top EXCEPT !.undo = @ + 1, !.pc = @ + 1, !.slots[Instr[2]] = Top.at])

Refer ==
    /\ At({"back"})
    /\ rx' = IF Instr[2] > MaxGroups THEN Gone(Spent, Top)
             ELSE LET length == Again(rx, Top, Instr[2]) IN
                  IF length < 0 THEN Backtracked(Spent, Top)
                  ELSE With(Spent, [Top EXCEPT !.at = @ + length, !.pc = @ + 1])

(* A lookahead: the matcher is called on the part that follows ... *)
LookIn ==
    /\ At({"look"})
    /\ rx' = [Spent EXCEPT !.frames =
                 Append(@, Frame(SubSeq(Top.code, Top.pc + 1, Top.pc + Instr[3]), Top.at))]

(* ... and what it answers decides whether the outer match goes on. *)
LookOut ==
    /\ rx.answer = "" /\ rx.frames # <<>> /\ rx.reply # NoReply
    /\ LET heard == [rx EXCEPT !.reply = NoReply]
           f == [Top EXCEPT !.halted = @ \/ rx.reply[4]]
       IN  rx' = IF rx.reply[2] # Instr[2] THEN With(heard, [f EXCEPT !.pc = @ + Instr[3] + 1])
                 ELSE Backtracked(heard, f)

-----------------------------------------------------------------------------
(* match_regexp and the natives above it.                                  *)

Least(m, n) == IF m < n THEN m ELSE n

(* What each native passes for `sticky`. *)
StickyMatch(c) ==
    c.sticky /\ (c.native \in {"exec", "search", "replace"} \/ (c.native = "match" /\ ~c.global))

(* The end of the text not yet taken. *)
TailOf(s) == Slice(s.case.subject, s.position, Len(s.case.subject))

Answered(s) ==
    [s EXCEPT !.frames = <<>>, !.answer = "done",
              !.out = CASE s.case.native = "replace" -> @ \o TailOf(s)
                        [] s.case.native = "split" -> Append(@, TailOf(s))
                        [] OTHER -> @]

(* No match: exec starts over next time, the others end with what is left. *)
NotFound(s) ==
    Answered([s EXCEPT !.last = IF s.case.native = "exec" /\ (s.case.global \/ s.case.sticky)
                                THEN 0 ELSE @])

(* match_regexp from `start`, with a budget out of what the task has left. *)
MatchFrom(s, start) ==
    IF start > Len(s.case.subject) THEN NotFound(s)
    ELSE [s EXCEPT !.frames = <<Frame(s.prog.code, start)>>, !.at = start,
                   !.fuel = Least(s.task, MatchFuel)]

(* Past this match: one further where it was empty. *)
Further(slots) == IF slots[1] > slots[0] THEN slots[1] ELSE slots[1] + 1

Kept(s, slots) == [s EXCEPT !.found = Append(@, slots)]

(* REG_EXP_EXEC with a match. *)
ExecFound(s, slots) ==
    Answered([Kept(s, slots) EXCEPT !.last = IF s.case.global \/ s.case.sticky THEN slots[1] ELSE @])

(* STRING_MATCH and STRING_SEARCH. *)
MatchFound(s, slots) ==
    IF s.case.native = "match" /\ s.case.global THEN MatchFrom(Kept(s, slots), Further(slots))
    ELSE Answered(Kept(s, slots))

(* replace_with_pattern: the text before the match, then the replacement. *)
ReplaceFound(s, slots) ==
    LET c == s.case
        replaced == [Kept(s, slots) EXCEPT !.position = slots[1],
                        !.out = @ \o Slice(c.subject, s.position, slots[0])
                                  \o Expand(TemplateText(c.template), 1, c.subject, slots, s.prog)]
    IN  IF ~c.global \/ Further(slots) > Len(c.subject) THEN Answered(replaced)
        ELSE MatchFrom(replaced, Further(slots))

(* split_by_pattern: the text before the match, then the groups; an empty
   match at the very end is not taken. *)
SplitFound(s, slots) ==
    LET subject == s.case.subject
        captured == [n \in 1..s.prog.groups |-> GroupText(subject, slots, n)]
    IN  IF slots[1] = slots[0] /\ slots[0] >= Len(subject) THEN Answered(s)
        ELSE MatchFrom([Kept(s, slots) EXCEPT !.position = slots[1],
                            !.out = Append(@, Slice(subject, s.position, slots[0])) \o captured],
                       Further(slots))

(* What each native does with a match. *)
FoundOne(s, slots) ==
    CASE s.case.native = "exec" -> ExecFound(s, slots)
      [] s.case.native \in {"match", "search"} -> MatchFound(s, slots)
      [] s.case.native = "replace" -> ReplaceFound(s, slots)
      [] s.case.native = "split" -> SplitFound(s, slots)

(* What the match spent comes off the task's fuel. *)
Charged(s) == [s EXCEPT !.task = @ - (Least(s.task, MatchFuel) - s.fuel), !.reply = NoReply]

(* match_regexp hears from the matcher: found, stopped, or the next start. *)
Settle ==
    /\ rx.answer = "" /\ rx.frames = <<>> /\ rx.reply # NoReply
    /\ LET s == Charged(rx)
           missed == rx.at + 1
       IN  rx' = CASE rx.reply[2] -> FoundOne(s, rx.reply[3])
                   [] ~rx.reply[2] /\ rx.reply[4] -> [s EXCEPT !.answer = "exhausted"]
                   [] ~rx.reply[2] /\ ~rx.reply[4] /\ StickyMatch(rx.case) -> NotFound(s)
                   [] OTHER ->
                         CASE rx.fuel = 0 -> [s EXCEPT !.answer = "exhausted", !.task = 0]
                           [] rx.fuel > 0 /\ missed > Len(rx.case.subject) -> NotFound(s)
                           [] OTHER -> [rx EXCEPT !.reply = NoReply, !.at = missed,
                                            !.frames = <<Frame(rx.prog.code, missed)>>]

(* The native is called: a global or sticky exec starts at lastIndex. *)
Called(c) ==
    LET prog == Compile(Text(c.tree), c.fold)
        s == [case |-> c, prog |-> prog, frames |-> <<>>, reply |-> NoReply, fuel |-> 0,
              choices |-> [k \in 1..c.room |-> [pc |-> 1, at |-> 0, undo |-> 0]],
              undo |-> [k \in 1..c.room |-> <<0, 0>>],
              task |-> TaskFuel, at |-> 0, position |-> 0, found |-> <<>>, out |-> <<>>,
              last |-> c.last, answer |-> ""]
    IN  IF prog.err # "" THEN [s EXCEPT !.answer = "SyntaxError"]
        ELSE MatchFrom(s, IF c.native = "exec" /\ (c.global \/ c.sticky) THEN c.last ELSE 0)

Init == \E c \in Cases : rx = Called(c)

Next == Stop \/ Match \/ Consume \/ Test \/ Fork \/ Jump \/ Save \/ Refer
            \/ LookIn \/ LookOut \/ Settle

Spec == Init /\ [][Next]_rx

-----------------------------------------------------------------------------
(* Properties.                                                             *)

TypeOK ==
    /\ CaseType(rx.case)
    /\ rx.fuel \in 0..MatchFuel /\ rx.task \in 0..TaskFuel
    /\ \A k \in DOMAIN rx.frames : /\ rx.frames[k].choices \in 0..rx.case.room
                                   /\ rx.frames[k].undo \in 0..rx.case.room
    /\ rx.answer \in {"", "done", "exhausted", "SyntaxError"}

(* The groups of a tree that are inside a repetition. *)
RECURSIVE Looped(_)
Looped(t) ==
    CASE t[1] = "rep" -> Groups(t[2])
      [] t[1] = "non" -> Looped(t[2])
      [] t[1] \in {"grp", "named", "look"} -> Looped(t[3])
      [] t[1] = "cat" -> UNION {Looped(t[2][k]) : k \in DOMAIN t[2]}
      [] t[1] = "alt" -> Looped(t[2]) \cup Looped(t[3])
      [] OTHER -> {}

(* Is there a lookahead whose body writes to the shared arrays? *)
LookWrites(prog) ==
    \E k \in DOMAIN prog.code :
        /\ prog.code[k][1] = "look"
        /\ \E j \in (k + 1)..(k + prog.code[k][3]) : prog.code[j][1] \in {"split", "save"}

(* The matches ECMA-262 says the native meets, from `start` on. *)
RECURSIVE Meant(_, _)
MeantAfter(c, one) ==
    IF one # <<>> /\ (c.native = "split" \/ (c.global /\ c.native \in {"match", "replace"}))
    THEN one \o Meant(c, IF one[1].to > one[1].from THEN one[1].to ELSE one[1].to + 1)
    ELSE one
Meant(c, start) ==
    IF start > Len(c.subject) THEN <<>>
    ELSE MeantAfter(c, Found(c.tree, c, start, StickyMatch(c)))

AllMeant(c) == Meant(c, IF c.native = "exec" /\ (c.global \/ c.sticky) THEN c.last ELSE 0)

(* split does not take an empty match at the very end. *)
Taken(c, list) ==
    IF c.native = "split" /\ list # <<>> /\ Last(list).from = Len(c.subject)
    THEN Front(list) ELSE list

SameMatch(slots, m, groups) ==
    /\ slots[0] = m.from /\ slots[1] = m.to
    /\ \A n \in groups : m.caps[n] = IF Unset \in {slots[2 * n], slots[2 * n + 1]} THEN <<>>
                                     ELSE <<slots[2 * n], slots[2 * n + 1]>>

SameMatches(found, meant, groups) ==
    /\ Len(found) = Len(meant)
    /\ \A k \in DOMAIN meant : SameMatch(found[k], meant[k], groups)
AsMeant(s) ==
    s.answer = "done" =>
        SameMatches(s.found, Taken(s.case, AllMeant(s.case)), Groups(s.case.tree) \ Looped(s.case.tree))

(* What a native finds is what ECMA-262 says the pattern matches, in order
   and with its captures, or the task is ended for want of fuel or room: a
   full choice stack or a spent budget is never read as "no match".  A
   group inside a repetition is compared by what its match consumes only.
   A lookahead whose body backtracks or captures is left out: it writes over
   the choices of the match around it. *)
FoundAsMeant ==
    /\ rx.answer # "SyntaxError"
    /\ LookWrites(rx.prog) \/ AsMeant(rx)

TextOf(subject, m, piece) ==
    CASE piece[1] = "lit" -> <<piece[2]>>
      [] piece[1] = "whole" -> Slice(subject, m.from, m.to)
      [] piece[1] = "before" -> Slice(subject, 0, m.from)
      [] piece[1] = "after" -> Slice(subject, m.to, Len(subject))
      [] piece[1] = "dollar" -> <<"$">>
      [] piece[1] \in {"capture", "named"} ->
            IF m.caps[piece[2]] = <<>> THEN <<>>
            ELSE Slice(subject, m.caps[piece[2]][1], m.caps[piece[2]][2])

(* The subject with every match replaced by what the template says of it. *)
RECURSIVE ReplacedBy(_, _, _)
ReplacedBy(c, list, from) ==
    IF list = <<>> THEN Slice(c.subject, from, Len(c.subject))
    ELSE LET m == Head(list) IN
         Slice(c.subject, from, m.from)
         \o FlattenSeq([k \in DOMAIN c.template |-> TextOf(c.subject, m, c.template[k])])
         \o ReplacedBy(c, Tail(list), m.to)

(* replace answers the subject with each match it must find, and nothing
   else of the text, exchanged for what the template says of that match:
   empty matches are passed over without losing or doubling a unit. *)
ReplacedAsMeant ==
    (rx.answer = "done" /\ rx.case.native = "replace" /\ ~LookWrites(rx.prog)) =>
        rx.out = ReplacedBy(rx.case, AllMeant(rx.case), 0)

(* split answers the text between the matches: with the matched text put
   back between them the pieces are the subject, and each is followed by
   one entry for each group. *)
PiecesMakeSubject ==
    (rx.answer = "done" /\ rx.case.native = "split") =>
        LET width == rx.prog.groups + 1
            n == Len(rx.found)
            piece(k) == rx.out[(k - 1) * width + 1]
            matched(k) == Slice(rx.case.subject, rx.found[k][0], rx.found[k][1])
        IN  /\ Len(rx.out) = n * width + 1
            /\ rx.case.subject = FlattenSeq([k \in 1..n |-> piece(k) \o matched(k)])
                                     \o piece(n + 1)
=============================================================================
