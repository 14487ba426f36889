------------------------------ MODULE MCRuntime ------------------------------
(***************************************************************************)
(* What programs run on: keyed collections and their walkers, objects and  *)
(* their properties, classes and private names, regular expressions,       *)
(* buffers, the names of scripts and of functions, dynamic source, and the *)
(* numbers computed, read and written.  A behaviour is one of the part     *)
(* chosen at the start; the variables of the others stand still.           *)
(***************************************************************************)
EXTENDS Collections, Integers, FiniteSets

CONSTANTS
    Parts,                                  \* the parts a run checks
    None,
    MaxPrototypes, ObjectWorlds,            \* Objects
    MaxProgram, MaxGroups, MaxCopies, MaxDepth, MatchFuel, TaskFuel,  \* Regexp
    MaxScripts, HeadRoom, FreshRoom, MaxScope,  \* Scripts
    MaxContexts, Scenes,                    \* Scoping
    Numbers, Sizes, MaxBytes, MaxBuffers, MaxViews, MaxNested, MaxBegun,  \* Buffers
    Families, MaxFrames, MaxActs,           \* Classes
    MaxClasses, MaxObjects, MaxScopes,      \* Classes, their private names
    Realms, MaxStack, MaxActive, MaxSources, \* Evals
    FractionBits, ExponentBits, HalfWord, SingleFraction, SingleExponent,  \* Numbers
    IntegerBits, RootTurns, LimbBits, MaxLimbs, Topics,
    MaxDigits, MaxShift, InfinitePoint, ZeroPoint, ParseRoom, TextDigits,  \* Numerals
    RadixRoom, ShortestDigits, PlainUpTo, MostDigits, PlainDownTo

VARIABLES
    part,   \* the one this behaviour is of
    w, rx, g, s, m, built, privates, evals, numerals

-----------------------------------------------------------------------------
(* Worlds of objects.                                                      *)

O == INSTANCE Objects WITH Worlds <- {}, MaxChain <- MaxPrototypes

Plain(proto, table) ==
    [proto |-> proto, ext |-> TRUE, table |-> table, map |-> {}, target |-> O!Null, traps |-> {}]
Proxy(target, traps) == [Plain(O!Null, <<>>) EXCEPT !.target = O!Obj(target), !.traps = traps]
X == O!Name("x")
Descriptor(v, get, set, wr, e, c) == [value |-> v, get |-> get, set |-> set, w |-> wr, e |-> e, c |-> c]
Descriptors == {
    Descriptor(<<O!Num(1)>>, <<>>, <<>>, <<>>, <<>>, <<>>),
    Descriptor(<<O!Num(2)>>, <<>>, <<>>, <<FALSE>>, <<>>, <<>>),
    Descriptor(<<>>, <<>>, <<>>, <<>>, <<FALSE>>, <<>>),
    Descriptor(<<>>, <<>>, <<>>, <<>>, <<>>, <<FALSE>>),
    Descriptor(<<>>, <<>>, <<O!Fn("s")>>, <<>>, <<>>, <<>>),
    Descriptor(<<>>, <<O!Fn("g")>>, <<>>, <<>>, <<>>, <<>>),
    Descriptor(<<>>, <<>>, <<>>, <<TRUE>>, <<TRUE>>, <<TRUE>>)}

World(objs, params, used, ops) ==
    [objs |-> objs, params |-> params,
     uses |-> [keys |-> used, values |-> {O!Num(1), O!Num(2)}, descs |-> Descriptors, ops |-> ops]]
OneValue(world) == [world EXCEPT !.uses.values = {O!Num(1)}]
NoParameters == <<>>
Array(ops) ==
    World([o |-> Plain(O!Obj(O!ArrayPrototype), <<O!Data(O!LengthKey, O!Num(0), TRUE, FALSE, FALSE)>>),
           ArrayPrototype |-> Plain(O!Null, <<>>)],
          NoParameters, {O!Index(0), O!Index(1), O!LengthKey}, ops)
Arguments(ops) ==
    World([o |-> [Plain(O!Null, <<O!Default(O!Index(0), O!Num(1))>>) EXCEPT !.map = {0}]],
          [n \in {0} |-> O!Num(1)], {O!Index(0)}, ops)
Proxied(traps, ops) ==
    World([o |-> Plain(O!Null, <<>>), p |-> Proxy("o", traps)], NoParameters, {X}, ops)

AllWorlds == [
    pair    |-> World([o |-> Plain(O!Obj("p"), <<>>), p |-> Plain(O!Null, <<>>)], NoParameters, {X},
                      {"assign", "reflect", "super", "define", "delete", "close"}),
    parents |-> OneValue(World([o |-> Plain(O!Obj("p"), <<>>), p |-> Plain(O!Null, <<>>), q |-> Plain(O!Null, <<>>)],
                               NoParameters, {X}, {"assign", "reparent", "close"})),
    keyed   |-> OneValue(World([o |-> Plain(O!Null, <<>>)], NoParameters,
                               {O!Index(0), O!Index(1), X, O!Name("y"), O!Symbol("s")}, {"assign", "delete"})),
    array   |-> Array({"assign", "delete", "push"}),
    sealed  |-> Array({"assign", "delete", "push", "close"}),
    args    |-> Arguments({"assign", "delete", "define", "parameter"}),
    frozen  |-> Arguments({"assign", "close", "parameter"}),
    proxied |-> Proxied({"has"}, {"assign", "delete", "define", "close", "reflect"}),
    trapped |-> Proxied({"get", "set", "deleteProperty"}, {"assign", "delete", "close", "reflect"})]

-----------------------------------------------------------------------------
(* What programs ask of regular expressions.                               *)

P == INSTANCE Regexp WITH Cases <- {}

a == P!Chr("a")
b == P!Chr("b")
Ask(tree, subject, native) ==
    [tree |-> tree, subject |-> subject, native |-> native, global |-> FALSE, sticky |-> FALSE,
     fold |-> FALSE, multiline |-> FALSE, dotAll |-> FALSE, last |-> 0, room |-> 8,
     template |-> << <<"whole">> >>]
Subjects == {<<>>, <<"a">>, <<"b">>, <<"a", "b">>, <<"b", "a", "a">>, <<"a", "b", "a", "b">>,
             <<"a", "LF", "A">>}

Repeated == {a, P!Grp(1, a), P!Non(P!Alt(a, P!Cat(<<a, b>>))), P!Grp(1, P!Rep(a, 0, 1, FALSE)),
             P!Grp(1, P!Alt(a, b))}
Counts == {<<0, P!Many>>, <<1, P!Many>>, <<0, 1>>, <<2, 2>>, <<1, 2>>, <<2, P!Many>>, <<0, 2>>}
Ends == {<<>>, <<b>>, <<P!End>>, <<P!Bound(FALSE)>>, <<P!Look(FALSE, b)>>, <<P!Look(TRUE, b)>>,
         <<a, b>>}
Repetitions == {P!Cat(<<P!Rep(t, n[1], n[2], lazy)>> \o e) :
                   t \in Repeated, n \in Counts, lazy \in BOOLEAN, e \in Ends}

Letter == P!Set(FALSE, << <<"a", "b">> >>)
Nothing == P!Cat(<<>>)
Others == {
    P!Cat(<<P!Grp(1, Letter), P!Grp(2, P!Alt(Nothing, P!Dot)), P!Back(1)>>),
    P!Alt(P!Start, P!Alt(P!Cat(<<a, P!Bound(TRUE), b>>), P!Named(1, "x", P!Dot))),
    P!Cat(<<P!Named(1, "x", P!Rep(P!Word, 1, P!Many, TRUE)), P!NamedBack(1, "x")>>),
    P!Cat(<<P!Rep(P!Set(TRUE, << <<"b", "b">> >>), 0, P!Many, FALSE), P!End>>)}

\* Flags, lastIndex and the room of the matcher's arrays.
Flagged(c) == {[c EXCEPT !.global = gl, !.sticky = st, !.last = n] :
                  gl \in BOOLEAN, st \in BOOLEAN, n \in {0, 1, 5}}
Moded(c) == {[c EXCEPT !.fold = TRUE], [c EXCEPT !.multiline = TRUE], [c EXCEPT !.dotAll = TRUE],
             [c EXCEPT !.room = 2]}
Short == {a, P!Rep(a, 0, P!Many, FALSE), P!Grp(1, P!Rep(b, 0, 1, TRUE)),
          P!Alt(b, P!Named(1, "x", a)), P!Start}
Templates == {<< <<"whole">>, <<"lit", "2">> >>, << <<"before">>, <<"dollar">>, <<"after">> >>,
              << <<"lit", "$">>, <<"lit", "2">> >>}

Cases ==
    {Ask(t, u, "exec") : t \in Repetitions \cup Others, u \in Subjects}
    \cup UNION {Flagged(Ask(t, u, n)) : t \in Short, u \in Subjects, n \in {"exec", "match", "search"}}
    \cup UNION {Moded(Ask(t, u, "exec")) : t \in Short \cup Others, u \in Subjects}
    \cup {[Ask(t, u, "replace") EXCEPT !.global = gl, !.template = r] :
             t \in Short, u \in Subjects, gl \in BOOLEAN, r \in Templates}
    \cup {[Ask(P!Named(1, "x", a), u, "replace") EXCEPT !.global = TRUE,
             !.template = << <<"capture", 1>>, <<"lit", "0">>, <<"named", 1, "x">> >>] : u \in Subjects}
    \cup {Ask(t, u, "split") : t \in {a, P!Grp(1, b), P!Alt(P!Cat(<<a, b>>), P!End)}, u \in Subjects}

-----------------------------------------------------------------------------
(* Scripts and indirect evals one realm may run.                           *)

Script(text) == [goal |-> "script", text |-> text]
IndirectEval(text) == [goal |-> "eval", text |-> text]
Library == {
    Script(<< <<"let", <<"x">> >> >>),
    Script(<< <<"LdaGlobal", "y">>, <<"const", <<"x">> >>, <<"StaGlobal", "x", "other">> >>),
    Script(<< <<"var", <<"y">> >>, <<"let", <<"z">> >> >>),
    Script(<< <<"nest", << <<"var", <<"x">> >> >> >>, <<"function", "y">> >>),
    Script(<< <<"function", "x">>, <<"let", <<"y">> >> >>),
    Script(<< <<"StaGlobal", "y", "other">>, <<"DeleteDynamic", "x">> >>),
    Script(<< <<"HasGlobal", "y">>, <<"DeleteDynamic", "y">>, <<"StaGlobalResolved", "y">> >>),
    Script(<< <<"StaGlobalStrict", "x">>, <<"LdaGlobalOrUndefined", "x">> >>),
    Script(<< <<"PreventExtensions">> >>),
    IndirectEval(<< <<"var", <<"z", "x">> >> >>),
    IndirectEval(<< <<"function", "y">> >>)}

-----------------------------------------------------------------------------
(* Places in functions where names are used.                               *)

N == INSTANCE Scoping WITH Situations <- {}, Names <- {}, Values <- {}, MaxChain <- MaxContexts

Function(names, spare) == N!Record("function", names, spare)
Block(names) == N!Record("declarative", names, 0)
NoProperties == [x \in {} |-> x]
Site(chain, o, blocks, strict, uses) ==
    [chain |-> chain \o <<N!ObjectRecord("global")>>,
     objects |-> IF o THEN [global |-> NoProperties, o |-> [x \in {"x"} |-> "own"]]
                 ELSE [global |-> NoProperties],
     hidden |-> IF o THEN [global |-> {}, o |-> {"y"}] ELSE [global |-> {}],
     blocks |-> blocks, strict |-> strict, dynamic |-> "eval" \in uses, uses |-> uses]
Withed(strict) ==
    Site(<<Function(<< <<"y", "var">> >>, 0), N!ObjectRecord("o"), Function(<< <<"x", "var">> >>, 1)>>,
         TRUE, {Block(<< <<"y", "const">> >>)}, strict, {"store", "assign", "objects"})

AllSites == [
    nested |-> Site(<<Function(<< <<"y", "var">> >>, 2), Function(<< <<"x", "var">> >>, 1)>>, FALSE,
                    {Block(<< <<"y", "const">> >>), N!Record("arrow", << <<"y", "var">> >>, 1)},
                    FALSE, {"store", "eval", "assign"}),
    sloppy |-> Withed(FALSE),
    strict |-> Withed(TRUE),
    withEval |-> Site(<<N!ObjectRecord("o"), Function(<< <<"x", "var">> >>, 1)>>, TRUE,
                      {Function(<<>>, 1)}, FALSE, {"store", "assign", "objects", "eval"}),
    deleting |-> Site(<<Function(<< <<"y", "var">> >>, 2)>>, FALSE,
                      {Block(<< <<"y", "const">> >>), Function(<<>>, 2)},
                      FALSE, {"store", "eval", "delete"}),
    deletes  |-> Site(<<Function(<< <<"y", "var">> >>, 2)>>, FALSE, {}, FALSE,
                      {"eval", "delete", "assign"}),
    kinds    |-> Site(<<Function(<<>>, 2), Function(<< <<"x", "function">> >>, 0)>>, FALSE, {},
                      FALSE, {"eval"})]

-----------------------------------------------------------------------------
(* A resizable buffer with a view that tracks it and one that does not.    *)

B == INSTANCE Buffers WITH Stores <- {}

Shared == [buffers |-> <<B!Buffer(<<1, 2>>, B!Fixed(2), FALSE)>>,
           views |-> <<B!View(1, 1, 1, B!Tracking), B!View(1, 2, 0, B!Fixed(1))>>]

-----------------------------------------------------------------------------
(* Families of classes.  A derived class has fields of its own, the arrows *)
(* that call super() are called while no other activation of their         *)
(* constructor runs, and super() into the library is called once: the rest *)
(* is where the code and its comments part.                                *)

C == INSTANCE Classes WITH Hierarchies <- {}, k <- built, v <- privates

Field(c, name, init) == [of |-> c, name |-> name, init |-> init]
Class(parent, fields, private) == [parent |-> parent, fields |-> fields, private |-> private]
Family(classes, uses) == [classes |-> classes, uses |-> uses]
XOf(private) == Class(C!Base, <<Field("B", "x", TRUE)>>, private)
Empty(parent) == Class(parent, <<>>, FALSE)

AllFamilies == [
    fields |-> Family([B |-> XOf(TRUE),
                       D |-> Class("B", <<Field("D", "y", TRUE), Field("D", "z", FALSE)>>, TRUE)],
                      {"new", "nest", "super", "twice", "throw", "override", "seal"}),
    three  |-> Family([B |-> Empty(C!Base), D |-> Empty("B"), E |-> Empty("D")],
                      {"new", "nest", "super", "twice", "throw"}),
    arrows |-> Family([B |-> Class(C!Base, <<>>, TRUE), D |-> Empty("B")],
                      {"new", "super", "twice", "throw", "arrow"}),
    native |-> Family([D |-> Class(C!Native, <<Field("D", "y", TRUE)>>, TRUE), N |-> Empty(C!Null)],
                      {"new", "nest", "super", "throw"}),
    bare   |-> Family([B |-> XOf(FALSE), D |-> Empty("B")], {"new", "super"})]

-----------------------------------------------------------------------------
(* What is computed, read and written: doubles of a few bits, all of them  *)
(* or those at the edges, whole numbers around the edges of their limbs,   *)
(* and texts put together beside what they mean.                           *)

D == INSTANCE Numerals WITH Questions <- {}, n <- numerals

Doubles == 0 .. 2 * D!Sign - 1
Of(fractions, biased) ==
    {x \in Doubles : x % D!Hidden \in fractions /\ D!Magnitude(x) \div D!Hidden \in biased}
Edges   == Of({0, 1, 9, 15}, {0, 1, 2, 7, 14, 15})
Factors == Of({0, 1, 3, 9, 15}, {0, 3, 6, 7, 10, 15})
Counts9 == {D!from_i64(v) : v \in -9 .. 9} \cup Of({3, 14}, {3, 9, 10, 12})
Operation(ops, values) == [kind : {"operation"}, op : ops, left : values, right : values]
Conversion(ops, values) == [kind : {"conversion"}, op : ops, value : values]
Powers == [kind : {"operation"}, op : {"**"}, left : Of({0, 4, 8}, 5 .. 9), right : {D!from_i64(v) : v \in -3 .. 4}]

BigOf(v) ==
    LET size == D!Abs(v)
    IN D!Big(v < 0, IF size = 0 THEN <<>> ELSE IF size < D!Base THEN <<size>> ELSE <<size % D!Base, size \div D!Base>>)
Wholes == {BigOf(v) : v \in {-255, -240, -128, -100, -17, -16, -3, -1, 0, 1, 2, 15, 16, 31, 200, 240, 255}}
Few    == {BigOf(v) : v \in -3 .. 5}
OfWhole(ops, left, right) == [kind : {"whole"}, op : ops, left : left, right : right]

Reading(op, units, radix, means) == [kind |-> "reading", op |-> op, units |-> units, radix |-> radix, means |-> means]
Strings(letters, most) == UNION {[1 .. k -> letters] : k \in 1 .. most}
Padded(text) == <<D!Space>> \o text \o <<D!Space>>
WholeMeaning(negative, v) == D!Value(negative, v * D!UnitsOfOne, 1)
DecimalMeaning(negative, digits, exponent) ==
    D!Value(negative, D!NumberOf(digits) * 10 ^ D!Max2(0, exponent) * D!UnitsOfOne, 10 ^ D!Max2(0, -exponent))
Exponent(e) == IF e = 0 THEN <<>> ELSE <<D!LetterE>> \o D!SignOf(e < 0) \o <<D!Abs(e)>>
Decimals == {t \in [negative : BOOLEAN, whole : Strings({0, 1, 5, 9}, 3) \cup {<<>>},
                    fraction : Strings({0, 2, 5}, 2) \cup {<<>>}, e : {-2, 0, 1}] :
                Len(t.whole) + Len(t.fraction) \in 1 .. 4}
ReadDecimals(op, rest) ==
    {Reading(op, Padded(D!SignOf(t.negative) \o t.whole \o D!Pointed(t.fraction) \o Exponent(t.e)) \o rest, 10,
             DecimalMeaning(t.negative, t.whole \o t.fraction, t.e - Len(t.fraction))) : t \in Decimals}
InRadix(digits, radix) ==
    LET Upto[k \in 0 .. Len(digits)] == IF k = 0 THEN 0 ELSE Upto[k - 1] * radix + digits[k] IN Upto[Len(digits)]
Mark(radix) == IF radix = 2 THEN D!LetterB ELSE IF radix = 8 THEN D!LetterO ELSE D!LetterX
Octets == Strings({0, 1, 7}, 2)
ReadRadixes ==
    {Reading("Number", <<0, Mark(r)>> \o t, 10, WholeMeaning(FALSE, InRadix(t, r))) : r \in {8, 16}, t \in Octets}
    \cup {Reading("parseInt", <<1>> \o t, 2, WholeMeaning(FALSE, InRadix(<<1>> \o t, 2))) : t \in [1 .. 8 -> {0, 1}]}
    \cup {Reading("parseInt", <<D!Minus>> \o t \o <<r>>, r, WholeMeaning(TRUE, InRadix(t, r))) :
             r \in {8, 10, 16}, t \in Strings({0, 1, 7}, 3)}
NoNumbers == {
    Reading("Number", <<D!Minus, 0, D!LetterX, 1>>, 10, D!Unordered), Reading("Number", <<0, D!LetterB, 2>>, 10, D!Unordered),
    Reading("Number", <<1, D!LetterE>>, 10, D!Unordered), Reading("Number", <<D!Point>>, 10, D!Unordered),
    Reading("Number", <<1, D!Space, 1>>, 10, D!Unordered), Reading("parseInt", <<D!LetterX>>, 10, D!Unordered),
    Reading("parseInt", <<1>>, 1, D!Unordered), Reading("parseFloat", <<D!Plus>>, 10, D!Unordered),
    Reading("Number", <<>>, 10, WholeMeaning(FALSE, 0)), Reading("Number", <<D!Minus, D!InfinityWord>>, 10, D!Endless(TRUE))}
Integer(v) == [is |-> "integer", value |-> v]
Malformed == [is |-> "SyntaxError"]
ReadWholes ==
    {Reading("BigInt", Padded(D!SignOf(negative) \o t), 10, Integer(IF negative THEN -D!NumberOf(t) ELSE D!NumberOf(t))) :
        negative \in BOOLEAN, t \in Strings({0, 1, 2, 5}, 3)}
    \cup {Reading("BigInt", <<0, Mark(r)>> \o t, 10, Integer(InRadix(t, r))) : r \in {8, 16}, t \in Octets}
    \cup {Reading("BigInt", t, 10, Malformed) :
             t \in {<<D!Minus>>, <<1, D!Point>>, <<D!Minus, 0, D!LetterX, 1>>, <<0, D!LetterO, 8>>}}
    \cup {Reading("BigInt", <<>>, 10, Integer(0))}
Writing(op, digits) == [kind : {"writing"}, op : {op}, value : Doubles, digits : digits]

AllTopics == [
    sums      |-> Operation({"+", "-", "%", "<", "is", "includes"}, Edges),
    products  |-> Operation({"*", "/"}, Factors) \cup Powers,
    bits      |-> Operation({"&", "|", "^", "<<", ">>", ">>>"}, Counts9),
    converted |-> Conversion({"~", "floor", "ceil", "truncate", "single", "int32", "length", "isInteger"}, Doubles)
                  \cup Conversion({"sqrt"}, {x \in Doubles : D!Magnitude(x) < 11 * D!Hidden \/ D!Magnitude(x) >= D!Infinity}),
    wholes    |-> OfWhole({"big +", "big -", "big *", "big /", "big %", "big &", "big |", "big ^"}, Wholes, Wholes)
                  \cup OfWhole({"big <<", "big >>"}, Wholes, Few)
                  \cup OfWhole({"big **"}, {x \in Wholes : Len(x.limbs) = 1}, Few)
                  \cup [kind : {"whole"}, op : {"big <"}, left : Wholes, double : Edges]
                  \cup [kind : {"whole"}, op : {"asNumber"}, left : Wholes]
                  \cup [kind : {"whole"}, op : {"big of"}, double : Doubles]
                  \cup [kind : {"whole"}, op : {"big text"}, left : Wholes, radix : {2, 7, 10}],
    read      |-> ReadDecimals("Number", <<>>) \cup ReadDecimals("parseFloat", <<D!LetterX>>)
                  \cup ReadRadixes \cup NoNumbers \cup ReadWholes,
    written   |-> Writing("toString", {1, 2, 7, 10}) \cup Writing("toFixed", {-1, 0, 1, 3, 4})
                  \cup Writing("toExponential", {D!Omitted, 0, 1, 3, 4}) \cup Writing("toPrecision", {0, 1, 2, 3})]

-----------------------------------------------------------------------------
Objects_ == INSTANCE Objects WITH Worlds <- {AllWorlds[k] : k \in ObjectWorlds},
                                  MaxChain <- MaxPrototypes
Matcher  == INSTANCE Regexp
Globals  == INSTANCE Scripts WITH MaxDepth <- MaxScope
Names    == INSTANCE Scoping WITH Situations <- {AllSites[k] : k \in Scenes}, Names <- {"x", "y"},
                                  Values <- {"1"}, MaxChain <- MaxContexts

Bytes    == INSTANCE Buffers WITH Stores <- {Shared}
Building == INSTANCE Classes WITH Hierarchies <- {AllFamilies[k] : k \in Families}, k <- built,
                                  v <- privates
Dynamic  == INSTANCE Evals WITH x <- evals
Computed == INSTANCE Numerals WITH Questions <- UNION {AllTopics[k] : k \in Topics}, n <- numerals

vars == <<part, collection, w, rx, g, s, m, built, privates, evals, numerals>>

Init ==
    /\ part \in Parts
    /\ CollectionInit
    /\ part # "collections" => kind = "map"
    /\ IF part = "objects" THEN Objects_!Init ELSE w = None
    /\ IF part = "regexp" THEN Matcher!Init ELSE rx = None
    /\ IF part = "scripts" THEN Globals!Init ELSE g = None
    /\ IF part = "names" THEN Names!Init ELSE s = None
    /\ IF part = "buffers" THEN Bytes!Init ELSE m = None
    /\ IF part = "classes" THEN Building!ClassesInit ELSE built = None
    /\ IF part = "privates" THEN Building!PrivatesInit ELSE privates = None
    /\ IF part = "evals" THEN Dynamic!EvalsInit ELSE evals = None
    /\ IF part = "numbers" THEN Computed!Init ELSE numerals = None

Next ==
    /\ \/ part = "collections" /\ CollectionNext /\ UNCHANGED <<w, rx, g, s, m, built, privates, evals, numerals>>
       \/ part = "objects" /\ Objects_!Next /\ UNCHANGED <<collection, rx, g, s, m, built, privates, evals, numerals>>
       \/ part = "regexp" /\ Matcher!Next /\ UNCHANGED <<collection, w, g, s, m, built, privates, evals, numerals>>
       \/ part = "scripts" /\ Globals!Next /\ UNCHANGED <<collection, w, rx, s, m, built, privates, evals, numerals>>
       \/ part = "names" /\ Names!Next /\ UNCHANGED <<collection, w, rx, g, m, built, privates, evals, numerals>>
       \/ part = "buffers" /\ Bytes!Next /\ UNCHANGED <<collection, w, rx, g, s, built, privates, evals, numerals>>
       \/ part = "classes" /\ Building!ClassesNext /\ UNCHANGED <<collection, w, rx, g, s, m, privates, evals, numerals>>
       \/ part = "privates" /\ Building!PrivatesNext /\ UNCHANGED <<collection, w, rx, g, s, m, built, evals, numerals>>
       \/ part = "evals" /\ Dynamic!EvalsNext /\ UNCHANGED <<collection, w, rx, g, s, m, built, privates, numerals>>
       \/ part = "numbers" /\ Computed!Next /\ UNCHANGED <<collection, w, rx, g, s, m, built, privates, evals>>
    /\ UNCHANGED part

Spec == Init /\ [][Next]_vars

-----------------------------------------------------------------------------
(* The properties of Collections keep their names.                         *)

\* Objects: no chain of prototypes meets itself, keys are listed as they were
\* added, the ways to write agree and what lands is read back, for-in visits
\* what is visible, and an array's length covers its indices.
ObjectsSound ==
    part = "objects" =>
        /\ Objects_!ChainsEnd /\ Objects_!KeysAsAdded /\ Objects_!ForInSeesVisible
        /\ Objects_!WritesAgree /\ Objects_!ReadsBack /\ Objects_!LengthCoversIndices
\* Objects: what is not configurable stays, and what is closed stays closed.
\* The worlds of a frozen arguments object and of a sealed array are not run.
FixedStaysFixed ==
    [][part = "objects" => Objects_!FixedStaysFixed /\ Objects_!ClosedStaysClosed]_vars
\* Regexp: what is found is what the pattern means, a replacement is what the
\* template says of each match, and the pieces of a split make the subject.
\* Numerals: what is computed, read or written is the number it means.
FoundAsMeant ==
    CASE part = "regexp"  -> Matcher!FoundAsMeant /\ Matcher!ReplacedAsMeant /\ Matcher!PiecesMakeSubject
      [] part = "numbers" -> Computed!AnsweredAsMeant
      [] OTHER            -> TRUE
\* Scripts: no name is bound twice, and a script refused leaves every name as it
\* was.  Names: variables are where scoping puts them.  Classes: a private name
\* is that of the class it means, and its methods are never replaced.
NamesAsScoped ==
    CASE part = "scripts"  -> Globals!NoNameTwice /\ Globals!RefusedLeavesNothing
      [] part = "names"    -> Names!VariablesAsScoped
      [] part = "privates" -> Building!ResolvesAsScoped /\ Building!MethodsKept
      [] OTHER             -> TRUE
\* Scripts: lexicals stay, and a strict assignment makes no property.  Names: a
\* prepared assignment writes to its own name, and a constant keeps its value.
\* Classes: this is bound once.
NamesKept ==
    [][CASE part = "scripts" -> Globals!LexicalsStay /\ Globals!StrictNeverCreates
         [] part = "names"   -> Names!PreparedWritesItsName /\ Names!ConstantsKept
         [] part = "classes" -> Building!ThisBoundOnce
         [] OTHER            -> TRUE]_vars
\* Buffers: a byte changes only inside the view written through, as it stands at
\* the write, immutable bytes stay, and a resize keeps what stays and clears what
\* it adds.
BytesKept ==
    [][part = "buffers" => Bytes!WritesInsideViews /\ Bytes!ImmutableKept /\ Bytes!ResizeKeeps]_vars
\* Classes: a constructor initialises its own class's fields, once.
OwnFieldsOnce == part = "classes" => Building!OwnFieldsOnce
\* Classes: a constructor's frame and environment agree on this, which a derived
\* class has after its parent's constructor; fields and brands are given once, by
\* their own class; and an instance answers to the class new named.
ConstructedOnce ==
    part = "classes" =>
        /\ Building!ThisAgrees /\ Building!ParentsFirst /\ Building!AnswersToNewTarget
        /\ Building!OwnFieldsOnce /\ Building!BrandedOnce
\* Evals: a source runs once, over the frame that asked for it and in the realm
\* of what was asked, and a function made takes its class's prototype.
AnswersItsCall ==
    part = "evals" =>
        Dynamic!AnswersItsCall /\ Dynamic!RealmOfItsMaker /\ Dynamic!BuiltForItsClass
=============================================================================
