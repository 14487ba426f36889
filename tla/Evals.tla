-------------------------------- MODULE Evals ---------------------------------
(***************************************************************************)
(* Dynamic source (vm/eval.rs, the calls of vm/calls.rs that ask for it    *)
(* and the loop of vm.rs): eval, Function, a script of its own and classes *)
(* over Function leave a source in the machine's registers, the loop has   *)
(* it compiled before the next instruction and enters it as a frame, and   *)
(* what that frame returns answers the call.                               *)
(*                                                                         *)
(* There is one set of registers for all of it, while evals nest: in the   *)
(* code an eval runs, in the field initialisers of a class over Function,  *)
(* in the handlers of what a refused one throws, and in the jobs that run  *)
(* between two slices of a body.  The program is free.  A source that      *)
(* makes a function makes it and does nothing else.                        *)
(***************************************************************************)
EXTENDS Naturals, Sequences, FiniteSets

CONSTANTS
    Realms,        \* realms of the machine, from 1
    MaxStack,      \* frames the stack holds
    MaxActive,     \* bound on the frames of a program
    MaxSources     \* bound on the sources it asks for

VARIABLE x

Depth == Len(x.frames)
Top   == x.frames[Depth]
Below == SubSeq(x.frames, 1, Depth - 1)

\* Classes over Function without a constructor of their own: one has fields.
Subclasses == {1, 2}
HasFields(c) == c = 2

Frame(id, kind, handles, nested, of, env, realm) ==
    [id |-> id, kind |-> kind, handles |-> handles, nested |-> nested,
     of |-> of, env |-> env, realm |-> realm]

\* The registers: the source that waits, the frame a direct eval is in, the
\* prototype and the class a made function takes, whose realm it is, and the
\* depth of the frame whose return delivers it.
Registers == [source |-> 0, env |-> 0, prototype |-> 0, fields |-> 0, realm |-> 1, result |-> 0]

Runs == ~x.thrown /\ ~x.ended /\ x.reg.source = 0
Calls == Runs /\ Top.kind # "leaving" /\ ~(Top.of # 0 /\ x.asked[Top.of].makes)
Source == Len(x.asked) + 1

Asks(reg, makes, direct, realm, prototype, astray) ==
    /\ Calls /\ Len(x.asked) < MaxSources
    /\ x' = [x EXCEPT
          !.reg = reg, !.astray = astray,
          !.asked = Append(@, [by |-> Top.id, makes |-> makes, env |-> IF direct THEN Top.id ELSE 0,
                               realm |-> realm, prototype |-> prototype, entered |-> 0, given |-> 0])]

----------------------------------------------------------------------------
(* What asks.                                                              *)

\* eval with a string, of realm r's eval: at a site the image recorded it is
\* over this frame, and where this frame's this waits for super() the call
\* throws with the source in the registers.
OpCall(direct, r) ==
    LET asked == [x.reg EXCEPT !.source = Source, !.realm = r, !.env = IF direct THEN Top.id ELSE 0]
        throws == direct /\ Top.kind = "waiting"
    IN /\ Calls /\ Len(x.asked) < MaxSources
       /\ x' = [x EXCEPT
             !.reg = asked, !.thrown = throws,
             !.astray = IF throws THEN @ \cup {"waits"} ELSE @,
             !.asked = Append(@, [by |-> Top.id, makes |-> FALSE, env |-> asked.env, realm |-> r,
                                  prototype |-> 0, entered |-> 0, given |-> 0])]

\* A script of its own.
EvalScript(r) ==
    Asks([x.reg EXCEPT !.source = Source, !.realm = r, !.env = 0], FALSE, FALSE, r, 0, x.astray)

\* Function(...), called or constructed.
Builds(r) ==
    Asks([x.reg EXCEPT !.source = Source, !.realm = r], TRUE, FALSE, r, 0, x.astray)

\* new of a class over realm r's Function that wrote no constructor: the
\* register of the realm is left as it was.
OpConstruct(c, r) ==
    Asks([x.reg EXCEPT !.source = Source, !.prototype = c, !.fields = c], TRUE, FALSE, r, c,
         IF x.reg.realm = r THEN x.astray ELSE x.astray \cup {"realm"})

\* super() into Function: the constructor's this is what is made.
SuperBuildsFromSource(c, r) ==
    /\ Top.kind = "waiting"
    /\ Asks([x.reg EXCEPT !.source = Source, !.realm = r, !.prototype = c, !.fields = 0], TRUE, FALSE, r, c, x.astray)

----------------------------------------------------------------------------
(* What answers.                                                           *)

\* The unit the compiler made runs over the frame of a direct eval, and as
\* global code for any other.
EnterEval ==
    LET s == x.reg.source
    IN /\ s # 0 /\ ~x.thrown /\ ~x.ended
       /\ Depth < MaxStack
       /\ x' = [x EXCEPT
             !.reg = [@ EXCEPT !.source = 0, !.env = 0,
                               !.result = IF x.reg.prototype # 0 THEN Depth + 1 ELSE @],
             !.asked[s].entered = @ + 1,
             !.made = @ + 1,
             !.frames = Append(@, Frame(x.made + 1, "unit", FALSE, FALSE, s, x.reg.env, x.reg.realm))]

FailEvalTo(reg) ==
    /\ x.reg.source # 0 /\ ~x.thrown /\ ~x.ended
    /\ x' = [x EXCEPT !.reg = reg, !.thrown = TRUE]
FailEvalKeeps == FailEvalTo([x.reg EXCEPT !.source = 0, !.env = 0])

\* The source did not compile: a syntax error where the call was.
FailEval == FailEvalTo([Registers EXCEPT !.realm = x.reg.realm])

\* A frame returns.  At the depth that delivers a function the function takes
\* the prototype, and the class's fields run on it before the frame is left.
Left(frames) ==
    IF Top.of # 0 /\ frames[Len(frames)].kind = "waiting" /\ x.asked[Top.of].makes
    THEN [frames EXCEPT ![Len(frames)].kind = "function"] ELSE frames
Delivers == x.reg.result = Depth
Taken(reg) == [reg EXCEPT !.prototype = 0, !.fields = 0, !.result = 0]

\* Whose answer the returning frame is: an eval's, or no one's.
Given == IF Top.of = 0 THEN x.asked
         ELSE [x.asked EXCEPT ![Top.of].given = IF Delivers THEN x.reg.prototype ELSE 0]
RunsFields == Delivers /\ x.reg.fields # 0 /\ HasFields(x.reg.fields)
Return ==
    /\ Runs /\ Depth > 1
    /\ IF RunsFields
       THEN /\ Depth < MaxStack
            /\ x' = [x EXCEPT
                  !.reg = Taken(@), !.asked = Given, !.made = @ + 1,
                  !.frames = Append([@ EXCEPT ![Depth].kind = "leaving"],
                      Frame(x.made + 1, "fields", FALSE, TRUE, 0, 0, 1))]
       ELSE IF Top.kind = "fields"
       THEN x' = [x EXCEPT !.frames = SubSeq(@, 1, Depth - 2)]
       ELSE x' = [x EXCEPT !.reg = IF Delivers THEN Taken(@) ELSE @, !.asked = Given, !.frames = Left(Below)]

----------------------------------------------------------------------------
(* What happens besides.                                                   *)

\* A call of a function, or of a native that calls one, with or without a
\* handler around what it does; or new of a class that has a constructor.
EnterCall(kind, handles, nested) ==
    /\ Calls /\ Depth < MaxStack /\ x.made < MaxActive
    /\ x' = [x EXCEPT !.made = @ + 1,
                      !.frames = Append(@, Frame(x.made + 1, kind, handles, nested, 0, 0, 1))]

\* A slice of the body ends, and a job runs before the next.
RunJob ==
    /\ Runs /\ \A i \in 1 .. Depth : ~x.frames[i].nested
    /\ Depth < MaxStack /\ x.made < MaxActive
    /\ x' = [x EXCEPT !.made = @ + 1,
                      !.astray = IF x.reg.result # 0 THEN @ \cup {"window"} ELSE @,
                      !.frames = Append(@, Frame(x.made + 1, "job", FALSE, TRUE, 0, 0, 1))]

Raise ==
    /\ Calls
    /\ x' = [x EXCEPT !.thrown = TRUE]

\* A throw goes to the nearest handler; out of a job it goes to the job's
\* promise; and out of field initialisers it ends the run they are in, which
\* for the body is the task.
Stops(i) == x.frames[i].handles \/ x.frames[i].kind \in {"job", "fields"}
Unwind ==
    LET stops == {i \in 1 .. Depth : Stops(i)}
        n == CHOOSE i \in stops : \A j \in stops : j <= i
        rest == SubSeq(x.frames, 1, n - 1)
    IN /\ x.thrown /\ ~x.ended
       /\ x' = IF stops = {} THEN [x EXCEPT !.ended = TRUE]
               ELSE IF x.frames[n].handles
               THEN [x EXCEPT !.thrown = FALSE, !.frames = SubSeq(@, 1, n)]
               ELSE IF x.frames[n].kind = "job"
               THEN [x EXCEPT !.thrown = FALSE, !.frames = rest]
               ELSE [x EXCEPT !.frames = rest, !.ended = \A i \in 1 .. n - 1 : ~x.frames[i].nested]

EvalsInit ==
    \E handles \in BOOLEAN :
        x = [frames |-> <<Frame(1, "script", handles, FALSE, 0, 0, 1)>>, made |-> 1, reg |-> Registers,
             asked |-> <<>>, thrown |-> FALSE, ended |-> FALSE, astray |-> {}]

EvalsNext ==
    \/ \E r \in Realms :
          \/ \E direct \in BOOLEAN : OpCall(direct, r)
          \/ EvalScript(r) \/ Builds(r)
          \/ \E c \in Subclasses : OpConstruct(c, r) \/ SuperBuildsFromSource(c, r)
    \/ EnterEval \/ FailEval \/ Return
    \/ \E kind \in {"function", "waiting"}, handles, nested \in BOOLEAN : EnterCall(kind, handles, nested)
    \/ RunJob \/ Raise \/ Unwind

----------------------------------------------------------------------------
Units == {i \in 1 .. Depth : x.frames[i].kind \in {"unit", "leaving"}}

\* The code of a source runs once, directly over the frame that asked for it,
\* in that frame's scope where the eval was direct and in no frame's where it
\* was not; while a source waits, its asker is the one running.  It is not so
\* after a direct eval where this waits for super(): the call throws, and the
\* source runs in the handler or whatever else comes next.
AnswersItsCall ==
    "waits" \notin x.astray =>
        /\ \A i \in Units : LET a == x.asked[x.frames[i].of] IN
              /\ i > 1 /\ x.frames[i - 1].id = a.by
              /\ x.frames[i].env = a.env
        /\ \A s \in DOMAIN x.asked : x.asked[s].entered <= 1
        /\ x.reg.source # 0 /\ ~x.ended => Top.id = x.asked[x.reg.source].by

\* A function made from source takes the prototype of the class it was made
\* for, and one made for no class keeps its own, however evals nest and are
\* refused; and nothing else is given one.  It is not so where a slice ends
\* between the entry of the source and its return and a job asks in between.
BuiltForItsClass ==
    x.astray \cap {"window", "waits"} = {} =>
        /\ \A s \in DOMAIN x.asked : x.asked[s].given \in {0, x.asked[s].prototype}
        /\ \A i \in Units : LET s == x.frames[i].of IN
              x.asked[s].prototype # 0 /\ x.asked[s].given = 0 => x.reg.result = i /\ x.reg.prototype = x.asked[s].prototype
        /\ x.reg.result # 0 => x.reg.result \in Units /\ x.asked[x.frames[x.reg.result].of].prototype # 0

\* The code of a source is in the realm of the function that was asked, unless
\* a class without a constructor asked, which leaves that of an earlier one.
RealmOfItsMaker ==
    x.astray \cap {"realm", "waits"} = {} =>
        \A i \in Units : x.frames[i].realm = x.asked[x.frames[i].of].realm
============================================================================
