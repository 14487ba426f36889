------------------------------- MODULE Classes --------------------------------
(***************************************************************************)
(* Construction of class instances: the constructors lower/classes.rs,     *)
(* lower/functions.rs and lower/expressions.rs make, and the machine's     *)
(* new, super(), this, brands and instance fields (vm/calls.rs,            *)
(* vm/names.rs, vm/privates.rs, vm/coroutines.rs and the return of vm.rs). *)
(*                                                                         *)
(* The program is free: at every step the running code may construct, call *)
(* super(), call an arrow that does, throw, catch, close an object or      *)
(* return, as far as the hierarchy's uses admit.  A constructor's this is  *)
(* kept twice, in its frame and in the environment arrows read through.    *)
(*                                                                         *)
(* Below it, private names (vm/privates.rs): where a class evaluation      *)
(* keeps its #x, how a #x in the code of nested classes finds the class it *)
(* means, and what a read, a write or a test of it answers.                *)
(***************************************************************************)
EXTENDS Integers, Sequences, FiniteSets

CONSTANTS
    Hierarchies,   \* classes, and what programs over them may do
    MaxFrames,     \* frames the stack holds
    MaxActs,       \* bound on the constructions, calls and throws of a program
    MaxClasses,    \* class evaluations of a run about private names
    MaxObjects,    \* objects constructed in one
    MaxScopes      \* MAX_SCOPE_DEPTH: nested classes a walk goes through

VARIABLES
    k,   \* the stack, the environments and the objects of a program
    v    \* classes and objects with private names

Base   == "base"        \* no heritage
Native == "native"      \* a constructor of the library, which makes its own instance
Null   == "null"        \* extends null
Undefined == 0
Primitive == -1

IsObject(value) == value \notin {Undefined, Primitive}
Class(c)  == k.classes[c]
Derived(c) == Class(c).parent # Base

Depth == Len(k.frames)
Top   == k.frames[Depth]

----------------------------------------------------------------------------
(* Frames and environments.                                                *)

\* The nearest function environment: an arrow's is its constructor's.
FunctionEnv(e) ==
    LET Up[i \in DOMAIN k.envs] == IF k.envs[i].kind = "Function" THEN i ELSE Up[k.envs[i].parent]
    IN Up[e]

FrameIsArrow(f) == f.callee = "arrow"

\* The environment of the constructor whose super() this frame's is.
SuperConstructorOf(f) == IF FrameIsArrow(f) THEN FunctionEnv(f.env) ELSE f.env

\* Undefined where this waits for super().
ThisValue(f) ==
    LET e == FunctionEnv(f.env)
    IN IF f.pending \/ k.envs[e].uninit THEN Undefined ELSE k.envs[e].this

Environment(kind, this, uninit, function, target, parent, from) ==
    [kind |-> kind, this |-> this, uninit |-> uninit, function |-> function, target |-> target,
     parent |-> parent, from |-> from, ran |-> <<>>, over |-> FALSE, broken |-> FALSE]

Frame(callee, construct, this, pending, env, at) ==
    [callee |-> callee, construct |-> construct, this |-> this, pending |-> pending,
     env |-> env, at |-> at, list |-> <<>>]

\* The frame below waits at `at`; a base class starts with its fields, and
\* this of a derived one waits for super().
EnterCall(frames, envs, objs, at, c, this, target, from) ==
    /\ Depth < MaxFrames
    /\ k' = [k EXCEPT
          !.envs = Append(envs, Environment("Function", this, Derived(c), c, target, 0, from)),
          !.objs = objs, !.acts = @ + 1,
          !.frames = Append([frames EXCEPT ![Depth].at = at],
              Frame(c, TRUE, this, Derived(c), Len(envs) + 1,
                    IF Derived(c) THEN "body" ELSE "brand"))]

Throw(frames, envs, e) == [k EXCEPT !.frames = frames, !.envs = envs, !.thrown = e]

Instance(c) == [proto |-> c, ext |-> TRUE, own |-> {}, brands |-> <<>>]

----------------------------------------------------------------------------
(* this.                                                                   *)

\* Bind this for a constructor whose super() ran in an arrow: its environment
\* and its frames on the stack.
BindConstructorThis(frames, envs, home, this) ==
    [frames |-> [i \in DOMAIN frames |->
        IF frames[i].construct /\ frames[i].callee = envs[home].function
        THEN [frames[i] EXCEPT !.this = this, !.pending = FALSE] ELSE frames[i]],
     envs |-> [envs EXCEPT ![home].this = this, ![home].uninit = FALSE]]

OpBindThisFrameOnly(frames, envs, objs, answered) ==
    LET n == Len(frames)
        f == frames[n]
        home == SuperConstructorOf(f)
    IN IF (FrameIsArrow(f) /\ envs[home].uninit) \/ (~FrameIsArrow(f) /\ f.pending)
       THEN [k EXCEPT !.frames = [frames EXCEPT ![n].this = answered, ![n].pending = FALSE, ![n].at = "brand"],
                      !.envs = [envs EXCEPT ![home].uninit = FALSE], !.objs = objs]
       ELSE [Throw(frames, envs, "ReferenceError") EXCEPT !.objs = objs]

\* super() answered, and what it answered is this, once.
OpBindThis(frames, envs, objs, answered) ==
    LET n == Len(frames)
        f == frames[n]
        home == SuperConstructorOf(f)
        bound == BindConstructorThis(frames, envs, home, answered)
        own == [frames |-> [frames EXCEPT ![n].this = answered, ![n].pending = FALSE],
                envs |-> [envs EXCEPT ![home].this = answered, ![home].uninit = FALSE]]
        r == IF FrameIsArrow(f) THEN bound ELSE own
    IN IF (FrameIsArrow(f) /\ envs[home].uninit) \/ (~FrameIsArrow(f) /\ f.pending)
       THEN [k EXCEPT !.frames = [r.frames EXCEPT ![n].at = "brand"], !.envs = r.envs, !.objs = objs]
       ELSE [Throw(frames, envs, "ReferenceError") EXCEPT !.objs = objs]

----------------------------------------------------------------------------
(* Brands and instance fields.                                             *)

CarriesBrand(o, c) == \E i \in DOMAIN k.objs[o].brands : k.objs[o].brands[i] = c

\* The list on the constructor or, where it has none, on what it inherits
\* from; an arrow's callee has neither.
FieldsOf(c) ==
    LET Up[x \in DOMAIN k.classes] ==
            IF Class(x).fields # <<>> THEN Class(x).fields
            ELSE IF Class(x).parent \in DOMAIN k.classes THEN Up[Class(x).parent] ELSE <<>>
    IN IF c \in DOMAIN k.classes THEN Up[c] ELSE <<>>

\* The instance takes its class's brand, before any initialiser: only where
\* the class declares a private member, and an arrow is never told so.
OpBrand ==
    LET c == k.envs[SuperConstructorOf(Top)].function
        this == ThisValue(Top)
        started == [k.frames EXCEPT ![Depth].at = "fields", ![Depth].list = FieldsOf(Top.callee)]
    IN /\ Top.at = "brand"
       /\ k' = IF FrameIsArrow(Top) \/ ~Class(c).private
               THEN [k EXCEPT !.frames = started]
               ELSE IF ~k.objs[this].ext \/ CarriesBrand(this, c)
               THEN Throw(k.frames, k.envs, "TypeError")
               ELSE [k EXCEPT !.frames = started, !.objs[this].brands = Append(@, c)]

\* The field at the head of the list, on this.
DefineField(frames) ==
    LET n == Len(frames)
        f == frames[n]
        this == ThisValue(f)
        field == Head(f.list)
        home == SuperConstructorOf(f)
    IN IF ~k.objs[this].ext /\ field \notin k.objs[this].own
       THEN Throw(frames, k.envs, "TypeError")
       ELSE [k EXCEPT !.objs[this].own = @ \cup {field}, !.envs[home].ran = Append(@, field),
                      !.frames = [frames EXCEPT ![n].at = "fields", ![n].list = Tail(f.list)]]

\* The walk of emit_init_fields: an initialiser runs as a call.
InitFields ==
    /\ Top.at = "fields"
    /\ \/ /\ Top.list = <<>>
          /\ k' = [k EXCEPT !.frames[Depth].at = "body"]
       \/ /\ Top.list # <<>> /\ ~Head(Top.list).init
          /\ k' = DefineField(k.frames)
       \/ /\ Top.list # <<>> /\ Head(Top.list).init
          /\ Depth < MaxFrames
          /\ k' = [k EXCEPT
                !.envs = Append(@, Environment("Function", ThisValue(Top), FALSE, "init", Undefined, 0, 0)),
                !.frames = Append([@ EXCEPT ![Depth].at = "init"],
                    Frame("init", FALSE, ThisValue(Top), FALSE, Len(k.envs) + 1, "body"))]

----------------------------------------------------------------------------
(* What the running code may do next.                                      *)

Acts(use) == k.thrown = "none" /\ Top.at = "body" /\ k.acts < MaxActs /\ use \in k.uses

\* new c(): the instance is made before the constructor runs.
OpConstruct(c) ==
    /\ Acts("new")
    /\ "nest" \in k.uses \/ Top.callee = "script"
    /\ EnterCall(k.frames, k.envs, Append(k.objs, Instance(c)), "new", c, Len(k.objs) + 1, c, 0)

SuperFrom(home) == k.envs[home].function

\* super() into a class: for the same new.target, on the instance so far.
OpCallSuperClass ==
    LET home == SuperConstructorOf(Top)
        this == IF FrameIsArrow(Top) THEN k.envs[home].this ELSE Top.this
        target == k.envs[FunctionEnv(Top.env)].target
    IN EnterCall(k.frames, k.envs, k.objs, "super", Class(SuperFrom(home)).parent, this, target, home)

\* super() into a constructor of the library: what it makes takes the
\* prototype of the class and is this at once, unless an arrow asked.
SuperCallNative ==
    LET home == SuperConstructorOf(Top)
        made == Len(k.objs) + 1
        frames == IF FrameIsArrow(Top) THEN k.frames ELSE [k.frames EXCEPT ![Depth].this = made]
        envs == IF FrameIsArrow(Top) THEN k.envs
                ELSE [k.envs EXCEPT ![home].this = made, ![home].uninit = FALSE]
    IN k' = [OpBindThis(frames, envs, Append(k.objs, Instance(SuperFrom(home))), made) EXCEPT !.acts = @ + 1]

OpCallSuper ==
    LET home == SuperConstructorOf(Top)
        parent == Class(SuperFrom(home)).parent
    IN /\ Acts("super")
       /\ FrameIsArrow(Top) \/ (Top.callee \in DOMAIN k.classes /\ Derived(Top.callee))
       /\ "twice" \in k.uses \/ k.envs[home].uninit
       /\ \/ parent \in DOMAIN k.classes /\ OpCallSuperClass
          \/ parent = Native /\ SuperCallNative
          \/ parent = Null /\ k' = [Throw(k.frames, k.envs, "TypeError") EXCEPT !.acts = @ + 1]

\* No other activation of the constructor is on the stack.
Alone(e) == \A i \in DOMAIN k.frames :
    k.frames[i].construct /\ k.frames[i].callee = k.envs[e].function => k.frames[i].env = e

\* An arrow a derived constructor made is called, by whoever has it by now.
CallArrow(e) ==
    /\ Acts("arrow")
    /\ k.envs[e].kind = "Function" /\ k.envs[e].function \in DOMAIN k.classes
    /\ Derived(k.envs[e].function)
    /\ "escape" \in k.uses \/ Alone(e)
    /\ Depth < MaxFrames
    /\ k' = [k EXCEPT
          !.acts = @ + 1,
          !.envs = Append(@, Environment("Arrow", Undefined, FALSE, "arrow", Undefined, e, 0)),
          !.frames = Append([@ EXCEPT ![Depth].at = "call"],
              Frame("arrow", FALSE, Undefined, FALSE, Len(k.envs) + 1, "body"))]

Raise ==
    /\ Acts("throw")
    /\ k' = [k EXCEPT !.thrown = "program", !.acts = @ + 1]

PreventExtensions(o) ==
    /\ Acts("seal")
    /\ k.objs[o].ext
    /\ k' = [k EXCEPT !.objs[o].ext = FALSE, !.acts = @ + 1]

\* A return: a derived constructor answers an object or the this it bound.
ReturnValue(value) ==
    LET popped == SubSeq(k.frames, 1, Depth - 1)
        below == popped[Depth - 1]
        derived == Top.construct /\ Derived(Top.callee)
        answer == IF Top.construct /\ ~IsObject(value) THEN Top.this ELSE value
        ended == [k.envs EXCEPT ![Top.env].over = TRUE]
        on == [popped EXCEPT ![Depth - 1].at = "body"]
    IN /\ k.thrown = "none" /\ Top.at = "body" /\ Depth > 1
       /\ k' = IF derived /\ value = Primitive
               THEN Throw(popped, k.envs, "TypeError")
               ELSE IF Top.construct /\ Top.pending /\ ~IsObject(value)
               THEN Throw(popped, k.envs, "ReferenceError")
               ELSE IF below.at = "super" THEN OpBindThis(popped, ended, k.objs, answer)
               ELSE IF below.at = "init" THEN [DefineField(popped) EXCEPT !.envs[Top.env].over = TRUE]
               ELSE [k EXCEPT !.frames = on, !.envs = ended]
Return(value) ==
    /\ value # Undefined => "override" \in k.uses
    /\ ReturnValue(value)

\* Code that has no handler of its own: a base class's fields run before its
\* body does.
Prologue == {"brand", "fields", "init"}
Handles(f) == ~(f.callee \in DOMAIN k.classes /\ ~Derived(f.callee) /\ f.at \in Prologue)

\* A throw leaves frames until one that handles it.
Unwind(n) ==
    /\ k.thrown # "none"
    /\ Handles(k.frames[n])
    /\ k' = [k EXCEPT
          !.thrown = "none",
          !.frames = [SubSeq(@, 1, n) EXCEPT ![n].at = "body", ![n].list = <<>>],
          !.envs = [e \in DOMAIN @ |->
              [@[e] EXCEPT !.broken = @ \/ \E i \in n .. Depth :
                  k.frames[i].env = e /\ (i > n \/ k.frames[i].at \in Prologue)]]]

----------------------------------------------------------------------------
ClassesInit ==
    \E h \in Hierarchies :
        k = [classes |-> h.classes, uses |-> h.uses, objs |-> <<>>, thrown |-> "none", acts |-> 0,
             envs |-> <<Environment("Function", Undefined, FALSE, "script", Undefined, 0, 0)>>,
             frames |-> <<Frame("script", FALSE, Undefined, FALSE, 1, "body")>>]

ClassesNext ==
    \/ \E c \in DOMAIN k.classes : OpConstruct(c)
    \/ OpCallSuper
    \/ \E e \in DOMAIN k.envs : CallArrow(e)
    \/ Raise
    \/ \E o \in DOMAIN k.objs : PreventExtensions(o)
    \/ \E value \in {Undefined, Primitive} \cup DOMAIN k.objs : Return(value)
    \/ k.thrown = "none" /\ (OpBrand \/ InitFields)
    \/ \E n \in DOMAIN k.frames : Unwind(n)

----------------------------------------------------------------------------
Activations == {e \in DOMAIN k.envs : k.envs[e].function \in DOMAIN k.classes}

\* A running constructor's frame and its environment agree on this: both wait
\* for super() or both hold the same object, whoever bound it, so that the
\* body, its arrows and the caller of `new` see one instance.
ThisAgrees ==
    \A i \in DOMAIN k.frames : LET f == k.frames[i] IN f.construct =>
        /\ f.pending = k.envs[f.env].uninit
        /\ ~f.pending => f.this = k.envs[f.env].this

\* Once an activation of a constructor has its this, it keeps it, whatever
\* super() is called again, by arrows too.
ThisBoundOnce ==
    \A e \in Activations : ~k.envs[e].uninit =>
        ~k'.envs[e].uninit /\ k'.envs[e].this = k.envs[e].this

\* An activation initialises the fields of its own class, in order, each
\* once, and all of them unless something was thrown on the way.
OwnFieldsOnce ==
    \A e \in Activations :
        LET a == k.envs[e]
            fields == Class(a.function).fields
        IN /\ Len(a.ran) <= Len(fields) /\ a.ran = SubSeq(fields, 1, Len(a.ran))
           /\ a.over /\ ~a.broken /\ ~a.uninit => a.ran = fields

\* A derived constructor has its this only after a constructor of its parent
\* class, run for it, has ended.
ParentsFirst ==
    \A e \in Activations : ~k.envs[e].uninit /\ Class(k.envs[e].function).parent \in DOMAIN k.classes =>
        \E p \in Activations : k.envs[p].from = e /\ k.envs[p].over

\* Where no constructor returns another object, this answers to the class
\* `new` named, however many constructors it has been through.
AnswersToNewTarget ==
    "override" \notin k.uses => \A e \in Activations :
        ~k.envs[e].uninit => k.objs[k.envs[e].this].proto = k.envs[e].target

\* An object carries a brand once, and a field of a class with private
\* members only under its brand, returned by whatever constructor.
BrandedOnce ==
    \A o \in DOMAIN k.objs :
        /\ Cardinality({k.objs[o].brands[i] : i \in DOMAIN k.objs[o].brands}) = Len(k.objs[o].brands)
        /\ \A field \in k.objs[o].own : Class(field.of).private => CarriesBrand(o, field.of)

----------------------------------------------------------------------------
(* Private names.  One is enough: two never meet.  The private name of an  *)
(* evaluation is a key no other evaluation has, on the instance, the       *)
(* prototype or the constructor.  Resolution walks the prototypes of the   *)
(* classes the code was written in, each linked to the next when the class *)
(* was made, and finds their constructors through a property the program   *)
(* may write.                                                              *)

\* How a class declares #x, if it does.
Declarations == {"none", "field", "method", "setter", "staticField", "staticMethod"}
Static(c) == v.classes[c].declares \in {"staticField", "staticMethod"}

Prototype(c)   == <<"prototype", c>>
Constructor(c) == <<"constructor", c>>
Object(i)      == <<"object", i>>
Other == <<"other", 0>>     \* a value that holds no private name

Things == {Prototype(c) : c \in DOMAIN v.classes} \cup {Constructor(c) : c \in DOMAIN v.classes}
             \cup {Object(i) : i \in DOMAIN v.objs}

----------------------------------------------------------------------------
\* Whether the thing itself holds the key of class c: instances their fields,
\* the prototype methods and accessors, the constructor what is static.
Holds(t, c) ==
    \/ t[1] = "object" /\ c \in DOMAIN v.objs[t[2]].fields
    \/ t = Prototype(c) /\ v.classes[c].declares \in {"method", "setter"}
    \/ t = Constructor(c) /\ Static(c) /\ v.classes[c].made

\* The declaration marker of a field, which methods do without.
Marked(c) ==
    \/ v.classes[c].declares = "field"
    \/ v.classes[c].declares = "staticField" /\ v.classes[c].made

BearsBrand(t, c) == t[1] = "object" /\ c \in v.objs[t[2]].brands

\* Where the walk stands: a class and what its code takes for its constructor.
\* A static method's home is the constructor itself; any other way there is
\* through the prototype's property.
PrivateSite(c, static) == [class |-> c, ctor |-> IF static THEN Constructor(c) ELSE v.classes[c].ctor]
Sites(c) == {PrivateSite(c, static) : static \in BOOLEAN}
\* A class further out is reached through the link of the one inside it.
OuterPrivateScope(c) == PrivateSite(c, FALSE)

\* How one class on the way answers, or that it does not.
ResolveIn(at, t) ==
    LET c == at.class
    IN IF Holds(Prototype(c), c)
       THEN IF t = Prototype(c) \/ BearsBrand(t, c) THEN <<"Member", c>> ELSE <<"TypeError", 0>>
       ELSE IF Holds(at.ctor, c)
       THEN IF t = at.ctor THEN <<"Member", c>> ELSE <<"TypeError", 0>>
       ELSE IF Holds(t, c) THEN <<"Field", c>>
       ELSE IF Marked(c) THEN <<"TypeError", 0>>
       ELSE <<"further", 0>>

PrivateResolve(at, t) ==
    LET Walk[n \in 0 .. MaxScopes, c \in DOMAIN v.classes] ==
            LET here == IF c = at.class THEN at ELSE OuterPrivateScope(c)
                found == ResolveIn(here, t)
            IN IF found[1] # "further" THEN found
               ELSE IF v.classes[c].outer = 0 \/ n = MaxScopes THEN <<"TypeError", 0>>
               ELSE Walk[n + 1, v.classes[c].outer]
    IN Walk[0, at.class]

----------------------------------------------------------------------------
\* A class is made in the code of another, or of none.  A static field's
\* initialiser runs, and may use the class, before the field is there.
MakeClass(declares, outer) ==
    /\ Len(v.classes) < MaxClasses
    /\ v' = [v EXCEPT !.classes = Append(@,
              [declares |-> declares, outer |-> outer, ctor |-> Constructor(Len(@) + 1),
               made |-> declares # "staticField", value |-> 0, rewired |-> FALSE])]

StaticFieldMade(c) ==
    /\ ~v.classes[c].made
    /\ v' = [v EXCEPT !.classes[c].made = TRUE]

\* The constructor of c brands its instance and gives it its field: a new
\* object, or one that some other constructor answered.
Branded(i, c) ==
    IF v.classes[c].declares = "none" THEN v' = v
    ELSE IF c \in v.objs[i].brands THEN v' = v
    ELSE v' = [v EXCEPT !.objs[i] =
        [brands |-> @.brands \cup {c},
         fields |-> IF v.classes[c].declares # "field" THEN @.fields
                    ELSE [d \in DOMAIN @.fields \cup {c} |-> IF d = c THEN 0 ELSE @.fields[d]]]]
Construct(c) ==
    /\ Len(v.objs) < MaxObjects
    /\ v' = [v EXCEPT !.objs = Append(@,
              [brands |-> IF v.classes[c].declares = "none" THEN {} ELSE {c},
               fields |-> IF v.classes[c].declares # "field" THEN [d \in {} |-> 0] ELSE [d \in {c} |-> 0]])]

\* The program writes the prototype's constructor property.
Rewire(c) ==
    /\ \A d \in DOMAIN v.classes : ~v.classes[d].rewired    \* once in a run
    /\ v' = [v EXCEPT !.classes[c].ctor = Other, !.classes[c].rewired = TRUE]

\* t.#x = 1: a field takes it, a setter is called, a method refuses.
Put(t, c) ==
    /\ ~v.written    \* once in a run
    /\ v' = IF t[1] = "object" THEN [v EXCEPT !.objs[t[2]].fields[c] = 1, !.written = TRUE]
            ELSE [v EXCEPT !.classes[c].value = 1, !.written = TRUE]
PrivateSet(at, t) ==
    LET found == PrivateResolve(at, t)
        d == found[2]
    IN \/ found[1] = "Field" /\ Put(t, d)
       \/ found[1] = "Member" /\ v.classes[d].declares = "staticField" /\ Put(t, d)
       \/ found[1] = "Member" /\ v.classes[d].declares = "setter" /\ UNCHANGED v

PrivatesInit == v = [classes |-> <<>>, objs |-> <<>>, written |-> FALSE]

PrivatesNext ==
    \/ \E d \in Declarations, o \in DOMAIN v.classes \cup {0} : MakeClass(d, o)
    \/ \E c \in DOMAIN v.classes :
          \/ StaticFieldMade(c)
          \/ Construct(c)
          \/ \E i \in DOMAIN v.objs : Branded(i, c)
          \/ Rewire(c)
          \/ \E at \in Sites(c), t \in Things : PrivateSet(at, t)

----------------------------------------------------------------------------
\* The class #x means in the code of c: the nearest around it to declare #x.
Meant(c) ==
    LET Up[d \in DOMAIN v.classes \cup {0}] ==
            IF d = 0 THEN 0 ELSE IF v.classes[d].declares # "none" THEN d ELSE Up[v.classes[d].outer]
    IN Up[c]

\* Whether t has the #x of class d.
Has(t, d) ==
    CASE v.classes[d].declares = "field"              -> t[1] = "object" /\ d \in DOMAIN v.objs[t[2]].fields
      [] v.classes[d].declares \in {"method", "setter"} -> t[1] = "object" /\ d \in v.objs[t[2]].brands
      [] OTHER                                         -> t = Constructor(d)

Settled(d) == d # 0 /\ v.classes[d].made /\ (Static(d) => v.classes[d].ctor = Constructor(d))

\* A #x is that of the class it means, on the things that have it, and a
\* TypeError on all others: never the #x of a class further out, nor that of
\* another evaluation.  A static #x is so once it is there and while its
\* prototype names its constructor; the prototype of a class is not asked.
ResolvesAsScoped ==
    \A c \in DOMAIN v.classes : LET d == Meant(c) IN
        Settled(d) => \A at \in Sites(c), t \in Things \ {Prototype(d)} :
                LET found == PrivateResolve(at, t)
                IN IF Has(t, d) THEN found[1] \in {"Field", "Member"} /\ found[2] = d
                   ELSE found[1] = "TypeError"

\* A private method is never replaced.
MethodsKept ==
    \A c \in DOMAIN v.classes :
        v.classes[c].declares \in {"method", "staticMethod"} /\ ~v.classes[c].rewired => v.classes[c].value = 0
============================================================================
