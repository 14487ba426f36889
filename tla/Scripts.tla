------------------------------- MODULE Scripts -------------------------------
(***************************************************************************)
(* The names scripts share: one realm's global lexical records, the list   *)
(* of names scripts declared with `var`, and the global object, as scripts *)
(* and indirect evals run one after another over them.  A script is        *)
(* lowered to a prologue that checks every name and then binds it          *)
(* (lower/prologues.rs), followed by its statements; the machine runs one  *)
(* instruction a step (vm/names.rs) and an instruction that throws ends    *)
(* the script where it stands, so what a refused script leaves behind is   *)
(* what the next one finds.                                                *)
(***************************************************************************)
EXTENDS Naturals, Sequences, FiniteSets

CONSTANTS
    Library,     \* the scripts that may run: records [goal, text]
    MaxScripts,  \* how many run, one after another
    HeadRoom,    \* GLOBAL_LEXICAL_CAPACITY: bindings the first record holds
    FreshRoom,   \* what a record threaded beneath it holds
    MaxDepth     \* env::MAX_SCOPE_DEPTH, the longest chain a lookup walks

VARIABLE g

Undefined == "undefined"
Closure == "closure"
NoScript == <<>>

(***************************************************************************)
(* Declarations.  A statement is <<"var", names>>, <<"let", names>>,       *)
(* <<"const", names>>, <<"function", name>>, <<"nest", statements>> (a     *)
(* block, loop, handler, switch or label, whose own statements the walk    *)
(* enters) or a statement with no declaration, which is one instruction.   *)
(***************************************************************************)
Concat(seqs) ==
    LET all[i \in 0 .. Len(seqs)] == IF i = 0 THEN <<>> ELSE all[i - 1] \o seqs[i]
    IN  all[Len(seqs)]

Each(names, Instruction(_)) == [i \in 1 .. Len(names) |-> Instruction(names[i])]

RECURSIVE VarNames(_)
VarNames(text) ==
    Concat([i \in 1 .. Len(text) |->
        CASE text[i][1] = "var"  -> text[i][2]
          [] text[i][1] = "nest" -> VarNames(text[i][2])
          [] OTHER               -> <<>>])

LexicalNames(text) ==
    Concat([i \in 1 .. Len(text) |->
        IF text[i][1] \in {"let", "const"}
        THEN Each(text[i][2], LAMBDA x : [name |-> x, mutable |-> text[i][1] = "let"])
        ELSE <<>>])

FunctionNames(text) ==
    Concat([i \in 1 .. Len(text) |-> IF text[i][1] = "function" THEN <<text[i][2]>> ELSE <<>>])

(***************************************************************************)
(* script_prologue: for a whole script every check comes first; an         *)
(* indirect eval checks its functions only.                                *)
(***************************************************************************)
ScriptPrologueLate(script) ==
    LET lexicals == LexicalNames(script.text)
        functions == FunctionNames(script.text)
        vars == VarNames(script.text)
        whole == script.goal = "script"
    IN  (IF whole
         THEN Each(lexicals, LAMBDA b : <<"CheckGlobalLexical", b.name>>)
              \o Each(vars, LAMBDA x : <<"CheckGlobalVar", x>>)
              \o Each(lexicals, LAMBDA b : <<"DeclareGlobalLexical", b.name, b.mutable>>)
              \o Each(functions, LAMBDA x : <<"CheckGlobalVar", x>>)
         ELSE <<>>)
        \o Each(functions, LAMBDA x : <<"DeclareGlobalFunction", x, "check">>)
        \o Each(vars, LAMBDA x : <<IF whole THEN "DeclareGlobal" ELSE "DeclareEvalVar", x>>)
        \o Concat(Each(functions, LAMBDA x :
               <<<<"DeclareGlobalFunction", x, IF whole THEN "script" ELSE "eval">>,
                 <<"StaGlobal", x, Closure>>>>))

ScriptPrologue(script) ==
    LET lexicals == LexicalNames(script.text)
        functions == FunctionNames(script.text)
        vars == VarNames(script.text)
        whole == script.goal = "script"
    IN  (IF whole
         THEN Each(lexicals, LAMBDA b : <<"CheckGlobalLexical", b.name>>)
              \o Each(vars, LAMBDA x : <<"CheckGlobalVar", x>>)
              \o Each(functions, LAMBDA x : <<"CheckGlobalVar", x>>)
         ELSE <<>>)
        \o Each(functions, LAMBDA x : <<"DeclareGlobalFunction", x, "check">>)
        \o Each(vars, LAMBDA x : <<IF whole THEN "DeclareGlobal" ELSE "DeclareEvalVar", x>>)
        \o Concat(Each(functions, LAMBDA x :
               <<<<"DeclareGlobalFunction", x, IF whole THEN "script" ELSE "eval">>,
                 <<"StaGlobal", x, Closure>>>>))
        \o (IF whole
            THEN Each(lexicals, LAMBDA b : <<"DeclareGlobalLexical", b.name, b.mutable>>)
            ELSE <<>>)

(* The statements: a lexical declaration initialises its names, a `var`    *)
(* with an initialiser is a store.                                         *)
RECURSIVE Statements(_)
Statements(text) ==
    Concat([i \in 1 .. Len(text) |->
        CASE text[i][1] \in {"let", "const"} ->
                 Each(text[i][2], LAMBDA x : <<"InitGlobalLexical", x, "value">>)
          [] text[i][1] = "var" -> Each(text[i][2], LAMBDA x : <<"StaGlobal", x, "value">>)
          [] text[i][1] = "nest" -> Statements(text[i][2])
          [] text[i][1] = "function" -> <<>>
          [] OTHER -> <<text[i]>>])

(***************************************************************************)
(* Records of bindings, the head first.                                    *)
(***************************************************************************)
Walked(chain) == 1 .. (IF Len(chain) < MaxDepth + 2 THEN Len(chain) ELSE MaxDepth + 2)

IndexOf(record, x) == {i \in 1 .. Len(record.held) : record.held[i].name = x}

Holding(chain, x) == {i \in Walked(chain) : IndexOf(chain[i], x) # {}}

Least(S) == CHOOSE i \in S : \A j \in S : i <= j

Found(chain, x) == Holding(chain, x) # {}

Where(chain, x) ==
    LET i == Least(Holding(chain, x)) IN <<i, Least(IndexOf(chain[i], x))>>

Binding(chain, x) == LET at == Where(chain, x) IN chain[at[1]].held[at[2]]

SetBinding(chain, x, b) ==
    LET at == Where(chain, x) IN [chain EXCEPT ![at[1]].held[at[2]] = b]

(* declare_in_chain takes the first record with room; where none has any a *)
(* fresh one is threaded beneath the head.                                 *)
Declare(chain, b) ==
    LET roomy == {i \in Walked(chain) : Len(chain[i].held) < chain[i].room}
    IN  IF roomy # {}
        THEN LET i == Least(roomy) IN [chain EXCEPT ![i].held = Append(@, b)]
        ELSE <<Head(chain), [held |-> <<b>>, room |-> FreshRoom]>> \o Tail(chain)

VarNameDeclare(chain, x) == IF Found(chain, x) THEN chain ELSE Declare(chain, [name |-> x])

(***************************************************************************)
(* The global object: a property has a value and its attributes.           *)
(***************************************************************************)
Has(x) == x \in DOMAIN g.object.props

Property(v, w, e, c) == [value |-> v, w |-> w, e |-> e, c |-> c]

With(x, p) == [y \in DOMAIN g.object.props \cup {x} |-> IF y = x THEN p ELSE g.object.props[y]]

Without(x) == [y \in DOMAIN g.object.props \ {x} |-> g.object.props[y]]

(***************************************************************************)
(* The machine.  `run` is what is left of the running script and how much  *)
(* of it is prologue; `before` holds the names as they were when a script  *)
(* started, until its prologue is over; `refused` is the error that ended  *)
(* one inside its prologue.                                                *)
(***************************************************************************)
NoRun == [code |-> <<>>, prologue |-> 0]

Names == [lexical |-> g.lexical, vars |-> g.vars, object |-> g.object]

Init ==
    g = [lexical |-> <<[held |-> <<>>, room |-> HeadRoom]>>,
         vars    |-> <<[held |-> <<>>, room |-> HeadRoom]>>,
         object  |-> [ext |-> TRUE, props |-> <<>>],
         run     |-> NoRun,
         resolved |-> FALSE,
         before  |-> NoScript,
         refused |-> "no",
         left    |-> MaxScripts]

Running == g.run.code # <<>>

Start(script) ==
    /\ ~Running
    /\ g.left > 0
    /\ LET prologue == ScriptPrologue(script)
           code == prologue \o Statements(script.text)
       IN  /\ code # <<>>
           /\ g' = [g EXCEPT !.run = [code |-> code, prologue |-> Len(prologue)],
                             !.before = IF script.goal = "script" THEN Names ELSE NoScript,
                             !.refused = "no", !.left = @ - 1]

(* The next instruction, taken with the rest of the state it leaves.       *)
Instruction(op) == Running /\ Head(g.run.code)[1] = op

Operand == Head(g.run.code)[2]

Advanced(s) ==
    [s EXCEPT !.run.code = Tail(@),
              !.run.prologue = IF @ = 0 THEN 0 ELSE @ - 1,
              !.before = IF g.run.prologue > 0 THEN @ ELSE NoScript]

Go(s) == g' = Advanced(s)

Throw(s, error) ==
    g' = [s EXCEPT !.run = NoRun, !.resolved = FALSE,
                   !.refused = IF g.run.prologue > 0 THEN error ELSE "no",
                   !.before = IF g.run.prologue > 0 THEN @ ELSE NoScript]

CheckGlobalLexical ==
    /\ Instruction("CheckGlobalLexical")
    /\ LET x == Operand
       IN  IF \/ Found(g.lexical, x)
              \/ Found(g.vars, x)
              \/ Has(x) /\ ~g.object.props[x].c
           THEN Throw(g, "syntax")
           ELSE Go(g)

CheckGlobalVar ==
    /\ Instruction("CheckGlobalVar")
    /\ IF Found(g.lexical, Operand) THEN Throw(g, "syntax") ELSE Go(g)

DeclareGlobalLexical ==
    /\ Instruction("DeclareGlobalLexical")
    /\ Go([g EXCEPT !.lexical =
              Declare(@, [name |-> Operand, mutable |-> Head(g.run.code)[3],
                          init |-> FALSE, value |-> Undefined])])

InitGlobalLexical ==
    /\ Instruction("InitGlobalLexical")
    /\ LET x == Operand
           held == Binding(g.lexical, x)
       IN  Go([g EXCEPT !.lexical =
                  SetBinding(@, x, [held EXCEPT !.init = TRUE, !.value = Head(g.run.code)[3]])])

(* The name joins the list of `var`s before the property is defined.       *)
DeclareGlobal ==
    /\ Instruction("DeclareGlobal")
    /\ LET x == Operand
           named == [g EXCEPT !.vars = VarNameDeclare(@, x)]
       IN  CASE Found(g.lexical, x) -> Throw(g, "syntax")
             [] ~Found(g.lexical, x) /\ Has(x) -> Go(named)
             [] ~Found(g.lexical, x) /\ ~Has(x) /\ ~g.object.ext -> Throw(named, "type")
             [] OTHER -> Go([named EXCEPT !.object.props =
                                With(x, Property(Undefined, TRUE, TRUE, FALSE))])

(* DeclareEvalVar over the global chain: configurable, and not recorded.   *)
DeclareEvalVar ==
    /\ Instruction("DeclareEvalVar")
    /\ LET x == Operand
       IN  CASE Found(g.lexical, x) -> Throw(g, "syntax")
             [] ~Found(g.lexical, x) /\ Has(x) -> Go(g)
             [] ~Found(g.lexical, x) /\ ~Has(x) /\ ~g.object.ext -> Throw(g, "type")
             [] OTHER -> Go([g EXCEPT !.object.props =
                                With(x, Property(Undefined, TRUE, TRUE, TRUE))])

Definable(x) ==
    IF Has(x)
    THEN LET p == g.object.props[x] IN p.c \/ (p.w /\ p.e)
    ELSE g.object.ext

DeclareGlobalFunction ==
    /\ Instruction("DeclareGlobalFunction")
    /\ LET x == Operand
           mode == Head(g.run.code)[3]
           fresh == ~Has(x) \/ g.object.props[x].c
           named == IF mode = "script" THEN [g EXCEPT !.vars = VarNameDeclare(@, x)] ELSE g
       IN  CASE ~Definable(x) -> Throw(g, "type")
             [] Definable(x) /\ mode = "check" -> Go(g)
             [] OTHER -> Go(IF fresh
                            THEN [named EXCEPT !.object.props =
                                     With(x, Property(Undefined, TRUE, TRUE, mode = "eval"))]
                            ELSE named)

(* global_lexical_write answers for a lexical; then set_property_of.       *)
LexicalWrite(x, v) ==
    LET held == Binding(g.lexical, x)
    IN  CASE ~held.init -> Throw(g, "reference")
          [] held.init /\ ~held.mutable -> Throw(g, "type")
          [] OTHER -> Go([g EXCEPT !.lexical = SetBinding(@, x, [held EXCEPT !.value = v])])

PropertyWrite(x, v, strict) ==
    LET refused == IF Has(x) THEN ~g.object.props[x].w ELSE ~g.object.ext
        held == IF Has(x) THEN g.object.props[x] ELSE Property(Undefined, TRUE, TRUE, TRUE)
    IN  CASE refused /\ strict -> Throw(g, "type")
          [] refused /\ ~strict -> Go(g)
          [] OTHER -> Go([g EXCEPT !.object.props = With(x, [held EXCEPT !.value = v])])

StaGlobal ==
    /\ Instruction("StaGlobal")
    /\ LET x == Operand
           v == Head(g.run.code)[3]
       IN  IF Found(g.lexical, x) THEN LexicalWrite(x, v) ELSE PropertyWrite(x, v, FALSE)

StaGlobalStrict ==
    /\ Instruction("StaGlobalStrict")
    /\ LET x == Operand
       IN  CASE Found(g.lexical, x) -> LexicalWrite(x, "value")
             [] ~Found(g.lexical, x) /\ ~Has(x) -> Throw(g, "reference")
             [] OTHER -> PropertyWrite(x, "value", TRUE)

(* A strict assignment asks whether the name is there before its value is  *)
(* made, and again when it stores it.                                      *)
HasGlobal ==
    /\ Instruction("HasGlobal")
    /\ Go([g EXCEPT !.resolved = Found(g.lexical, Operand) \/ Has(Operand)])

StaGlobalResolved ==
    /\ Instruction("StaGlobalResolved")
    /\ LET x == Operand
       IN  CASE ~g.resolved -> Throw(g, "reference")
             [] g.resolved /\ Found(g.lexical, x) -> LexicalWrite(x, "value")
             [] g.resolved /\ ~Found(g.lexical, x) /\ ~Has(x) -> Throw(g, "reference")
             [] OTHER -> PropertyWrite(x, "value", TRUE)

LdaGlobal ==
    /\ Instruction("LdaGlobal")
    /\ LET x == Operand
       IN  IF IF Found(g.lexical, x) THEN ~Binding(g.lexical, x).init ELSE ~Has(x)
           THEN Throw(g, "reference")
           ELSE Go(g)

LdaGlobalOrUndefined ==
    /\ Instruction("LdaGlobalOrUndefined")
    /\ IF Found(g.lexical, Operand) /\ ~Binding(g.lexical, Operand).init
       THEN Throw(g, "reference")
       ELSE Go(g)

(* A lexical is permanent and a script's `var` is not configurable.        *)
DeleteDynamic ==
    /\ Instruction("DeleteDynamic")
    /\ LET x == Operand
       IN  IF ~Found(g.lexical, x) /\ Has(x) /\ g.object.props[x].c
           THEN Go([g EXCEPT !.object.props = Without(x)])
           ELSE Go(g)

(* Object.preventExtensions(globalThis).                                   *)
PreventExtensions ==
    /\ Instruction("PreventExtensions")
    /\ Go([g EXCEPT !.object.ext = FALSE])

Next ==
    \/ \E script \in Library : Start(script)
    \/ CheckGlobalLexical
    \/ CheckGlobalVar
    \/ DeclareGlobalLexical
    \/ InitGlobalLexical
    \/ DeclareGlobal
    \/ DeclareEvalVar
    \/ DeclareGlobalFunction
    \/ StaGlobal
    \/ StaGlobalStrict
    \/ HasGlobal
    \/ StaGlobalResolved
    \/ LdaGlobal
    \/ LdaGlobalOrUndefined
    \/ DeleteDynamic
    \/ PreventExtensions

Spec == Init /\ [][Next]_g

-----------------------------------------------------------------------------
AllHeld(chain) == {<<i, j>> \in (1 .. Len(chain)) \X (1 .. HeadRoom + FreshRoom) :
                       j <= Len(chain[i].held)}

(* Every record keeps to its room and every chain is still headed by the   *)
(* realm's own record, which is the one lookups start from.                *)
TypeOK ==
    /\ \A chain \in {g.lexical, g.vars} :
           /\ chain[1].room = HeadRoom
           /\ \A i \in 1 .. Len(chain) : Len(chain[i].held) <= chain[i].room
    /\ g.refused \in {"no", "syntax", "type", "reference"}
    /\ g.left \in 0 .. MaxScripts

(* No name is bound twice: a name is held by one record of one chain at    *)
(* most, however many scripts declared it, failed on it or threw before    *)
(* they initialised it (the checks of GlobalDeclarationInstantiation in    *)
(* script_prologue and op_check_global_lexical).                           *)
NoNameTwice ==
    \A p \in AllHeld(g.lexical) :
        LET x == g.lexical[p[1]].held[p[2]].name
        IN  /\ ~Found(g.vars, x)
            /\ \A q \in AllHeld(g.lexical) :
                   g.lexical[q[1]].held[q[2]].name = x => q = p

(* A script refused with a SyntaxError leaves every name as it was,        *)
(* whichever of its names was the one refused: the checks of               *)
(* script_prologue all come before anything is bound.                      *)
RefusedLeavesNothing ==
    (g.refused = "syntax" /\ g.before # NoScript) => Names = g.before

(* A lexical name stays declared, and once it has its value it is never    *)
(* back in its dead zone; a constant keeps the value it was given.         *)
LexicalsStay ==
    \A p \in AllHeld(g.lexical) :
           LET b == g.lexical[p[1]].held[p[2]]
           IN  /\ Found(g.lexical', b.name)
               /\ b.init => LET c == Binding(g.lexical', b.name)
                            IN  c.init /\ (~b.mutable => c.value = b.value)

(* A strict assignment never makes a property of the global object, even   *)
(* where the value's own evaluation deleted the one the reference found.   *)
StrictNeverCreates ==
    (Instruction("StaGlobalStrict") \/ Instruction("StaGlobalResolved"))
           => DOMAIN g'.object.props = DOMAIN g.object.props
=============================================================================
