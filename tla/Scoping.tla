------------------------------- MODULE Scoping -------------------------------
(***************************************************************************)
(* Names inside functions: where the lowering says a name is               *)
(* (lower/references.rs), where the machine finds it at run time once      *)
(* direct evals and `with` statements have put bindings in between         *)
(* (vm/names.rs), and the environment records both of them count           *)
(* (env.rs).  Static bindings are unnamed slots of their record; a binding *)
(* a sloppy direct eval made carries its name and takes the record's spare *)
(* room.                                                                   *)
(***************************************************************************)
EXTENDS Naturals, Sequences, FiniteSets

CONSTANTS
    Situations,  \* [chain, objects, hidden, blocks, strict, dynamic, uses] to start from
    Names,       \* the names the program writes
    Values,      \* the values it assigns
    MaxChain     \* bound: contexts open at once

VARIABLE s

Unnamed == "unnamed"
Undefined == "undefined"
Declared == "declared"
NoReference == <<>>
Nowhere == <<>>

(***************************************************************************)
(* Records.  `names` is what the lowering knows of a context's slots,      *)
(* pairs of a name and a binding kind; the chain has the innermost context *)
(* first and the global object's environment last.                         *)
(***************************************************************************)
Record(kind, names, spare) ==
    [kind |-> kind, names |-> names, room |-> Len(names) + spare, object |-> "none",
     slots |-> [j \in 1 .. Len(names) |->
                   [name |-> Unnamed, init |-> names[j][2] \in {"var", "function", "self"},
                    value |-> Undefined]]]

ObjectRecord(o) == [kind |-> "object", names |-> <<>>, room |-> 0, object |-> o, slots |-> <<>>]

Least(S) == CHOOSE i \in S : \A j \in S : i <= j

Root(chain) == Len(chain)

HasOwn(o, x) == x \in DOMAIN s.objects[o]

(***************************************************************************)
(* The lowering: the first scope outwards that declares the name, with the *)
(* contexts crossed on the way; what is found nowhere is global.           *)
(***************************************************************************)
Declaring(x) == {i \in 1 .. Root(s.chain) :
                     \E j \in 1 .. Len(s.chain[i].names) : s.chain[i].names[j][1] = x}

IsSlot(x) == Declaring(x) # {}

Resolve(x) ==
    LET i == Least(Declaring(x))
        j == Least({k \in 1 .. Len(s.chain[i].names) : s.chain[i].names[k][1] = x})
    IN  [depth |-> i - 1, slot |-> j, kind |-> s.chain[i].names[j][2]]

Slot(r) == <<r.depth + 1, r.slot>>

InWith == \E i \in 1 .. Root(s.chain) - 1 : s.chain[i].kind = "object"

Late == s.dynamic \/ InWith

Shadowable(x) == Late /\ IsSlot(x) /\ Resolve(x).kind = "var" /\ Resolve(x).depth >= 1

(***************************************************************************)
(* The machine: a record binds a name through a named slot or a property   *)
(* of its object, unless that object's Symbol.unscopables blocks it.       *)
(***************************************************************************)
IndexOf(record, x) == {j \in 1 .. Len(record.slots) : record.slots[j].name = x}

Binds(i, x) ==
    IF s.chain[i].kind = "object"
    THEN HasOwn(s.chain[i].object, x) /\ (i = Root(s.chain) \/ x \notin s.hidden[s.chain[i].object])
    ELSE IndexOf(s.chain[i], x) # {}

Place(i, x) == <<i, IF s.chain[i].kind = "object" THEN 0 ELSE Least(IndexOf(s.chain[i], x))>>

ResolveName(x) ==
    LET at == {i \in 1 .. Root(s.chain) : Binds(i, x)}
    IN  IF at = {} THEN Nowhere ELSE Place(Least(at), x)

Within(place, depth) == place # Nowhere /\ place[1] - 1 <= depth

(* LdaShadowable and StaShadowable: a binding no further out than the slot *)
(* wins over it.                                                           *)
ShadowPlace(x) ==
    LET r == Resolve(x)
        found == ResolveName(x)
    IN  IF Within(found, r.depth) THEN found ELSE Slot(r)

GlobalPlace(x) == IF HasOwn("global", x) THEN <<Root(s.chain), 0>> ELSE Nowhere

FreePlace(x) == IF Late THEN ResolveName(x) ELSE GlobalPlace(x)

(* load_name.                                                              *)
LoadPlace(x) ==
    CASE Shadowable(x) -> ShadowPlace(x)
      [] IsSlot(x) /\ ~Shadowable(x) -> Slot(Resolve(x))
      [] OTHER -> FreePlace(x)

(* store_name: a constant throws and a function expression's own name      *)
(* drops the value; strict code stores a free name on the global object.   *)
StoreRefused(x) == IsSlot(x) /\ Resolve(x).kind \in {"const", "self"}

StorePlace(x) ==
    IF ~IsSlot(x) /\ s.strict THEN GlobalPlace(x) ELSE LoadPlace(x)

WithProperty(o, x, v) ==
    [s.objects EXCEPT ![o] = [y \in DOMAIN @ \cup {x} |-> IF y = x THEN v ELSE @[y]]]

WithoutProperty(o, x) == [s.objects EXCEPT ![o] = [y \in DOMAIN @ \ {x} |-> @[y]]]

(* slot_write and set_property: a slot in its dead zone refuses.           *)
Stored(place, x, v) ==
    CASE place[2] = 0 -> [s EXCEPT !.objects = WithProperty(s.chain[place[1]].object, x, v)]
      [] place[2] # 0 /\ s.chain[place[1]].slots[place[2]].init ->
             [s EXCEPT !.chain[place[1]].slots[place[2]].value = v]
      [] OTHER -> s

StoredAnywhere(place, x, v) ==
    IF place # Nowhere THEN Stored(place, x, v)
    ELSE [s EXCEPT !.objects = WithProperty("global", x, v)]

StoreName(x, v) ==
    /\ "store" \in s.uses
    /\ ~StoreRefused(x)
    /\ ~(StorePlace(x) = Nowhere /\ s.strict)
    /\ s' = StoredAnywhere(StorePlace(x), x, v)

(***************************************************************************)
(* An assignment to a name an eval or a `with` could shadow picks its      *)
(* environment when the reference forms and writes after its right side    *)
(* has run.  `env` counts from the root, which no context opened meanwhile *)
(* disturbs; the slot of a free name is the first.                         *)
(***************************************************************************)
Prepares(x) == Late /\ (IsSlot(x) => Shadowable(x))

PreparedEnv(x) ==
    LET found == ResolveName(x)
    IN  CASE IsSlot(x) /\ Within(found, Resolve(x).depth) -> found[1]
          [] IsSlot(x) /\ ~Within(found, Resolve(x).depth) -> Resolve(x).depth + 1
          [] ~IsSlot(x) /\ found # Nowhere -> found[1]
          [] ~IsSlot(x) /\ found = Nowhere /\ s.strict -> 0
          [] OTHER -> Root(s.chain)

Prepare(x) ==
    /\ "assign" \in s.uses
    /\ s.prepared = NoReference
    /\ Prepares(x)
    /\ LET i == PreparedEnv(x)
       IN  s' = [s EXCEPT !.prepared =
                     [name |-> x, slot |-> IF IsSlot(x) THEN Resolve(x).slot ELSE 1,
                      env |-> IF i = 0 THEN Root(s.chain) + 1 ELSE Root(s.chain) - i]]

PreparedAt == Root(s.chain) - s.prepared.env

PreparedPlaceSlot ==
    IF s.chain[PreparedAt].kind = "object" THEN <<PreparedAt, 0>>
    ELSE <<PreparedAt, s.prepared.slot>>

PreparedPlace ==
    LET record == s.chain[PreparedAt]
        named == IndexOf(record, s.prepared.name)
    IN  CASE record.kind = "object" -> <<PreparedAt, 0>>
          [] record.kind # "object" /\ named # {} -> <<PreparedAt, Least(named)>>
          [] OTHER -> <<PreparedAt, s.prepared.slot>>

Unresolvable == s.prepared.env > Root(s.chain)

Lost == PreparedPlace[2] = 0 /\ ~HasOwn(s.chain[PreparedAt].object, s.prepared.name)

WritePrepared(v) ==
    /\ s.prepared # NoReference
    /\ s' = [(IF Unresolvable \/ (s.strict /\ Lost) THEN s
              ELSE Stored(PreparedPlace, s.prepared.name, v))
             EXCEPT !.prepared = NoReference]

(***************************************************************************)
(* A sloppy direct eval of `var x = v` at this site.  The compiler refuses *)
(* it where a visible binding of that name is lexical, and reuses the      *)
(* variable environment's own binding of it.                               *)
(***************************************************************************)
Variable == {i \in 1 .. Root(s.chain) : s.chain[i].kind \in {"function", "arrow"}}

Reuses(x) == IsSlot(x) /\ Variable # {} /\ Resolve(x).depth + 1 = Least(Variable)

(* declare_eval_var: outwards to the first function record, giving up at   *)
(* an object's; what finds no room lands on the global object.             *)
DeclareEvalVar(x) ==
    LET stop == Least({i \in 1 .. Root(s.chain) : s.chain[i].kind # "declarative"})
        record == s.chain[stop]
        onGlobal == IF HasOwn("global", x) THEN s
                    ELSE [s EXCEPT !.objects = WithProperty("global", x, Undefined)]
    IN  CASE record.kind = "object" -> onGlobal
          [] record.kind # "object" /\ IndexOf(record, x) # {} -> s
          [] record.kind # "object" /\ IndexOf(record, x) = {} /\ Len(record.slots) < record.room ->
                 [s EXCEPT !.chain[stop].slots =
                     Append(@, [name |-> x, init |-> TRUE, value |-> Undefined])]
          [] OTHER -> onGlobal

EvalStored(t, x, v) ==
    LET at == {i \in 1 .. Len(t.chain) :
                   IF t.chain[i].kind = "object"
                   THEN /\ x \in DOMAIN t.objects[t.chain[i].object]
                        /\ i = Len(t.chain) \/ x \notin t.hidden[t.chain[i].object]
                   ELSE IndexOf(t.chain[i], x) # {}}
        i == Least(at)
    IN  IF t.chain[i].kind = "object"
        THEN [t EXCEPT !.objects[t.chain[i].object] =
                  [y \in DOMAIN @ \cup {x} |-> IF y = x THEN v ELSE @[y]]]
        ELSE [t EXCEPT !.chain[i].slots[Least(IndexOf(t.chain[i], x))].value = v]

(* A lexical binding of the name that the eval's text can see.             *)
EvalRefused(x) == IsSlot(x) /\ Resolve(x).kind \in {"let", "const"}

EvalVar(x, v) ==
    /\ "eval" \in s.uses
    /\ s.dynamic
    /\ ~s.strict
    /\ ~EvalRefused(x)
    /\ s' = IF Reuses(x)
            THEN IF StoreRefused(x) THEN s ELSE Stored(LoadPlace(x), x, v)
            ELSE EvalStored(DeclareEvalVar(x), x, v)

(* `delete x`: a declared name stays; otherwise dynamic_delete blanks the  *)
(* binding an eval made or deletes the property.                           *)
DeleteName(x) ==
    /\ "delete" \in s.uses
    /\ ~s.strict
    /\ ~IsSlot(x)
    /\ LET place == ResolveName(x)
       IN  /\ place # Nowhere
           /\ s' = IF place[2] = 0
                   THEN [s EXCEPT !.objects = WithoutProperty(s.chain[place[1]].object, x)]
                   ELSE [s EXCEPT !.chain[place[1]].slots[place[2]] =
                             [name |-> Unnamed, init |-> FALSE, value |-> Undefined]]

(***************************************************************************)
(* Contexts and what other code does to the objects meanwhile.             *)
(***************************************************************************)
PushContext(record) ==
    /\ s.prepared = NoReference
    /\ Root(s.chain) < MaxChain
    /\ s' = [s EXCEPT !.chain = <<record>> \o @, !.opened = @ + 1]

PopContext ==
    /\ s.prepared = NoReference
    /\ s.opened > 0
    /\ s' = [s EXCEPT !.chain = Tail(@), !.opened = @ - 1]

InitContextSlot(j) ==
    /\ j \in 1 .. Len(s.chain[1].names)
    /\ ~s.chain[1].slots[j].init
    /\ s' = [s EXCEPT !.chain[1].slots[j] = [@ EXCEPT !.init = TRUE, !.value = Declared]]

ChangeObject(o, x, v) ==
    /\ "objects" \in s.uses
    /\ \/ s' = [s EXCEPT !.objects = WithProperty(o, x, v)]
       \/ HasOwn(o, x) /\ s' = [s EXCEPT !.objects = WithoutProperty(o, x)]

Init ==
    \E c \in Situations :
        s = [chain |-> c.chain, objects |-> c.objects, hidden |-> c.hidden, blocks |-> c.blocks,
             strict |-> c.strict, dynamic |-> c.dynamic, uses |-> c.uses,
             prepared |-> NoReference, opened |-> 0]

Next ==
    \/ \E x \in Names, v \in Values : StoreName(x, v)
    \/ \E x \in Names : Prepare(x)
    \/ \E v \in Values : WritePrepared(v)
    \/ \E x \in Names, v \in Values : EvalVar(x, v)
    \/ \E x \in Names : DeleteName(x)
    \/ \E record \in s.blocks : PushContext(record)
    \/ PopContext
    \/ \E j \in 1 .. 2 : InitContextSlot(j)
    \/ \E o \in DOMAIN s.objects \ {"global"}, x \in Names, v \in Values : ChangeObject(o, x, v)

Spec == Init /\ [][Next]_s

-----------------------------------------------------------------------------
(* The scoping rule itself: the innermost record that binds the name, by   *)
(* its text or at run time, whatever the lowering knew.                    *)
Bound(i, x) ==
    \/ \E j \in 1 .. Len(s.chain[i].names) : s.chain[i].names[j][1] = x
    \/ IndexOf(s.chain[i], x) # {}
    \/ /\ s.chain[i].kind = "object"
       /\ HasOwn(s.chain[i].object, x)
       /\ x \in s.hidden[s.chain[i].object] => i = Root(s.chain)

Scoped(x) ==
    LET at == {i \in 1 .. Root(s.chain) : Bound(i, x)}
        i == Least(at)
        declared == {j \in 1 .. Len(s.chain[i].names) : s.chain[i].names[j][1] = x}
    IN  CASE at = {} -> Nowhere
          [] at # {} /\ declared # {} -> <<i, Least(declared)>>
          [] OTHER -> Place(i, x)

(* Every record keeps to its room, every static slot stays unnamed, and a  *)
(* prepared reference names an environment of the chain.                   *)
TypeOK ==
    /\ \A i \in 1 .. Root(s.chain) :
           /\ Len(s.chain[i].slots) <= s.chain[i].room
           /\ \A j \in 1 .. Len(s.chain[i].names) : s.chain[i].slots[j].name = Unnamed
    /\ s.prepared # NoReference => (s.prepared.env < Root(s.chain) \/ Unresolvable)

(* A `var`, a parameter or a free name is read and stored where scoping    *)
(* puts it: a binding an eval declared or a `with` object holds nearer     *)
(* than the slot the lowering chose is the one that is used, and one       *)
(* further out never is (load_name, store_name, resolve_name).             *)
VariablesAsScoped ==
    \A x \in Names :
        (~IsSlot(x) \/ Resolve(x).kind = "var")
            => /\ Late => LoadPlace(x) = Scoped(x)
               /\ (Late /\ ~s.strict) => StorePlace(x) = Scoped(x)

(* What a step on one name leaves of another's bindings.                   *)
OthersKept(x) ==
    /\ \A i \in 1 .. Root(s.chain) : \A j \in 1 .. Len(s.chain[i].names) :
           s.chain[i].names[j][1] # x => s.chain'[i].slots[j] = s.chain[i].slots[j]
    /\ \A o \in DOMAIN s.objects : \A y \in DOMAIN s.objects[o] \ {x} :
           y \in DOMAIN s'.objects[o] /\ s'.objects[o][y] = s.objects[o][y]

(* An assignment whose environment was chosen before its right side ran    *)
(* changes no binding of another name, whatever the right side declared or *)
(* deleted meanwhile (prepare_shadowable, write_prepared).                 *)
PreparedWritesItsName ==
    (s.prepared # NoReference /\ s'.prepared = NoReference) => OthersKept(s.prepared.name)

(* A constant keeps its value: its slot is as writable as any other at run *)
(* time, so only the lowering's paths protect it.                          *)
ConstantsKept ==
    \A i \in 1 .. Root(s.chain), j \in 1 .. 2 :
           (/\ s.opened = s'.opened
            /\ j <= Len(s.chain[i].names)
            /\ s.chain[i].names[j][2] = "const"
            /\ s.chain[i].slots[j].init)
               => s.chain'[i].slots[j] = s.chain[i].slots[j]
=============================================================================
