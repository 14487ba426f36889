------------------------------ MODULE Objects ------------------------------
(***************************************************************************)
(* Objects and their properties: the property tables of                    *)
(* modules/common/object.rs, the operations programs reach them by         *)
(* (modules/common/vm/properties.rs, vm/proxy.rs) and the natives of       *)
(* Object and Reflect (vm/natives/objects.rs, vm/natives/reflect.rs).      *)
(*                                                                         *)
(* A table is a sequence of records in the order they were added.  An      *)
(* array is an object whose chain reaches Array.prototype; its `length` is *)
(* a record like any other, kept in step by the writes that pass it.  A    *)
(* sloppy function's arguments object shares its indices with the          *)
(* parameters while they are mapped.  A proxy holds a target and the traps *)
(* its handler has.                                                        *)
(*                                                                         *)
(* One action is one operation of a program.  A world is the objects a     *)
(* program starts with and the keys, values and descriptors it uses.       *)
(***************************************************************************)
EXTENDS Integers, Sequences, SequencesExt, FiniteSets

CONSTANTS Worlds,       \* where a program may start; see Start
          MaxChain      \* MAX_PROTOTYPE_DEPTH

VARIABLE w

(* A key is an index, a name or a symbol; a value is tagged by its kind. *)
Index(n) == <<"index", n>>
Name(s) == <<"name", s>>
Symbol(s) == <<"symbol", s>>
LengthKey == Name("length")

Undefined == <<"undefined", 0>>
Num(n) == <<"number", n>>
Obj(o) == <<"object", o>>
Fn(f) == <<"function", f>>
Null == <<"null", 0>>

ArrayPrototype == "ArrayPrototype"

IsObject(v) == v[1] = "object"

Data(k, v, wr, e, c) ==
    [key |-> k, kind |-> "data", value |-> v, get |-> Undefined, set |-> Undefined,
     w |-> wr, e |-> e, c |-> c]

Accessor(k, g, s, wr, e, c) ==
    [key |-> k, kind |-> "accessor", value |-> Undefined, get |-> g, set |-> s,
     w |-> wr, e |-> e, c |-> c]

Default(k, v) == Data(k, v, TRUE, TRUE, TRUE)

-----------------------------------------------------------------------------
(* object.rs.                                                              *)

(* find: the record of a key, the place its index suggests tried first. *)
Find(t, k) ==
    IF k[1] = "index" /\ k[2] + 2 <= Len(t) /\ t[k[2] + 2].key = k THEN k[2] + 2
    ELSE SelectInSeq(t, LAMBDA r : r.key = k)

Has(ob, k) == Find(ob.table, k) # 0
Own(ob, k) == ob.table[Find(ob.table, k)]

(* The kind and the value are not looked at. *)
IsCompatibleLoose(current, proposed) ==
    \/ current.c
    \/ ~proposed.c /\ current.e = proposed.e

(* is_compatible: may this record take the place of that one? *)
IsCompatible(current, proposed) ==
    \/ current.c
    \/ /\ ~proposed.c
       /\ current.e = proposed.e
       /\ current.kind = proposed.kind
       /\ IF current.kind = "data"
          THEN current.w \/ (~proposed.w /\ current.value = proposed.value)
          ELSE current.get = proposed.get /\ current.set = proposed.set

(* append: a new record comes last, in a table grown to hold it. *)
Added(ob, d) == [ob EXCEPT !.table = Append(@, d)]

(* define_own_property: <<admitted, the object>>. *)
DefineOwn(ob, d) ==
    CASE Has(ob, d.key) /\ IsCompatible(Own(ob, d.key), d) ->
            <<TRUE, [ob EXCEPT !.table[Find(ob.table, d.key)] = d]>>
      [] ~Has(ob, d.key) /\ ob.ext -> <<TRUE, Added(ob, d)>>
      [] OTHER -> <<FALSE, ob>>

(* The last record takes the place of the one deleted. *)
DeleteOwnSwapped(ob, k) ==
    CASE ~Has(ob, k) -> <<TRUE, ob>>
      [] Has(ob, k) /\ ~Own(ob, k).c -> <<FALSE, ob>>
      [] OTHER -> <<TRUE, [ob EXCEPT !.table =
                     Front([@ EXCEPT ![Find(ob.table, k)] = Last(ob.table)])]>>

(* delete: the later records move down. *)
DeleteOwn(ob, k) ==
    CASE ~Has(ob, k) -> <<TRUE, ob>>
      [] Has(ob, k) /\ ~Own(ob, k).c -> <<FALSE, ob>>
      [] OTHER -> <<TRUE, [ob EXCEPT !.table = RemoveAt(@, Find(ob.table, k))]>>

(* The objects of the chain that starts at v, nearest first. *)
RECURSIVE Chain(_, _, _)
Chain(objs, v, depth) ==
    IF ~IsObject(v) \/ depth > MaxChain THEN <<>>
    ELSE <<v[2]>> \o Chain(objs, objs[v[2]].proto, depth + 1)

(* The nearest record of the key on the chain of v: <<record>>, or nothing. *)
Nearest(objs, v, k) ==
    LET chain == Chain(objs, v, 0)
        at == SelectInSeq(chain, LAMBDA o : Has(objs[o], k))
    IN  IF at = 0 THEN <<>> ELSE <<Own(objs[chain[at]], k)>>

(* set: <<what happened, the object, the setter to call>>. *)
SetOwn(objs, o, k, v) ==
    LET ob == objs[o]
        inherited == Nearest(objs, ob.proto, k)
        Through(d) == IF d.set[1] = "function" THEN <<"setter", ob, d.set>>
                      ELSE <<"refused", ob, Undefined>>
    IN  CASE Has(ob, k) /\ Own(ob, k).kind = "data" ->
                IF Own(ob, k).w
                THEN <<"done", [ob EXCEPT !.table[Find(ob.table, k)].value = v], Undefined>>
                ELSE <<"refused", ob, Undefined>>
          [] Has(ob, k) /\ Own(ob, k).kind = "accessor" -> Through(Own(ob, k))
          [] ~Has(ob, k) /\ inherited # <<>> /\ inherited[1].kind = "accessor" ->
                Through(inherited[1])
          [] OTHER ->
                IF (inherited # <<>> /\ ~inherited[1].w) \/ ~ob.ext
                THEN <<"refused", ob, Undefined>>
                ELSE <<"done", Added(ob, Default(k, v)), Undefined>>

(* set_prototype: refused where the object is closed or the chain would meet
   itself. *)
SetPrototypeOf(objs, o, v) ==
    CASE objs[o].proto = v -> <<TRUE, objs[o]>>
      [] objs[o].proto # v /\ ~objs[o].ext -> <<FALSE, objs[o]>>
      [] OTHER -> IF o \in ToSet(Chain(objs, v, 0)) THEN <<FALSE, objs[o]>>
                  ELSE <<TRUE, [objs[o] EXCEPT !.proto = v]>>

(* own_keys: indices ascending, then names, then symbols, as they were added. *)
OwnKeys(ob) ==
    LET keys == [i \in DOMAIN ob.table |-> ob.table[i].key]
        Of(tag) == SelectSeq(keys, LAMBDA k : k[1] = tag)
    IN  SortSeq(Of("index"), LAMBDA j, k : j[2] < k[2]) \o Of("name") \o Of("symbol")

-----------------------------------------------------------------------------
(* properties.rs: what a program's expressions do.  s holds the objects,   *)
(* the parameters the arguments object shares, and the last call made.     *)

Mapped(s, o, k) == k[1] = "index" /\ k[2] \in s.objs[o].map

IsArray(s, o) == ArrayPrototype \in ToSet(Tail(Chain(s.objs, Obj(o), 0)))

LengthOf(s, o) ==
    LET d == Nearest(s.objs, Obj(o), LengthKey) IN IF d = <<>> THEN 0 ELSE d[1].value[2]

Read(d) == IF d = <<>> THEN Undefined
           ELSE IF d[1].kind = "data" THEN d[1].value ELSE d[1].get

(* get_property, a getter answering itself, and what a proxy makes of it. *)

RECURSIVE GetProperty(_, _, _)
ProxyGet(s, o, k) ==
    IF "get" \in s.objs[o].traps THEN Fn("get") ELSE GetProperty(s, s.objs[o].target[2], k)

GetProperty(s, o, k) ==
    CASE Mapped(s, o, k) -> s.params[k[2]]
      [] ~Mapped(s, o, k) /\ s.objs[o].target # Null -> ProxyGet(s, o, k)
      [] OTHER -> Read(Nearest(s.objs, Obj(o), k))

(* has_property_of; a trap answers as it likes. *)
ProxyHas(s, o, k) == "has" \in s.objs[o].traps \/ Nearest(s.objs, s.objs[o].target, k) # <<>>

HasProperty(s, o, k) ==
    IF s.objs[o].target # Null THEN ProxyHas(s, o, k) ELSE Nearest(s.objs, Obj(o), k) # <<>>

Told(s, what) == [s EXCEPT !.told = what]
Thrown(s) == Told(s, "TypeError")

(* delete_element over the indices a shorter length leaves behind. *)
RECURSIVE Dropped(_, _, _)
Dropped(ob, from, to) ==
    IF from >= to THEN ob ELSE Dropped(DeleteOwn(ob, Index(from))[2], from + 1, to)

(* Assigning an array's length. *)
SetLength(s, o, v) ==
    LET old == LengthOf(s, o)
        out == SetOwn(s.objs, o, LengthKey, v)
    IN  IF out[1] = "done" THEN Told([s EXCEPT !.objs[o] = Dropped(out[2], v[2], old)], "done")
        ELSE Told(s, "done")

(* set_property_of: an assignment, under strict code or not. *)
RECURSIVE SetProperty(_, _, _, _, _)
ProxySet(s, o, k, v) ==
    IF "set" \in s.objs[o].traps THEN Told([s EXCEPT !.call = <<Fn("set"), o, v>>], "done")
    ELSE Told(SetProperty(s, s.objs[o].target[2], k, v, FALSE), "done")

SetOrdinary(s, o, k, v, strict, out) ==
    CASE out[1] = "refused" -> IF strict THEN Thrown(s) ELSE Told(s, "done")
      [] out[1] = "setter" -> Told([s EXCEPT !.call = <<out[3], o, v>>], "done")
      [] out[1] = "done" ->
            IF k[1] = "index" /\ IsArray(s, o) /\ k[2] >= LengthOf(s, o)
            THEN SetLength([s EXCEPT !.objs[o] = out[2]], o, Num(k[2] + 1))
            ELSE Told([s EXCEPT !.objs[o] = out[2]], "done")

SetProperty(s, o, k, v, strict) ==
    CASE Mapped(s, o, k) -> Told([s EXCEPT !.params[k[2]] = v], "done")
      [] ~Mapped(s, o, k) /\ s.objs[o].target # Null -> ProxySet(s, o, k, v)
      [] ~Mapped(s, o, k) /\ s.objs[o].target = Null /\ k = LengthKey /\ IsArray(s, o) ->
            SetLength(s, o, v)
      [] OTHER -> SetOrdinary(s, o, k, v, strict, SetOwn(s.objs, o, k, v))

(* set_with_receiver, which Reflect.set and a proxy's chain use: the answer
   says whether the write was taken. *)
RECURSIVE SetWithReceiver(_, _, _, _, _)
SetWithReceiver(s, v0, k, v, receiver) ==
    LET chain == Chain(s.objs, v0, 0)
        stop == SelectInSeq(chain, LAMBDA o : s.objs[o].target # Null \/ Has(s.objs[o], k))
        holder == s.objs[chain[stop]]
        found == IF stop = 0 THEN <<>> ELSE <<Own(holder, k)>>
        ob == s.objs[receiver]
        No == Told(s, "false")
        record == IF Has(ob, k) THEN [Own(ob, k) EXCEPT !.value = v] ELSE Default(k, v)
    IN  CASE stop # 0 /\ holder.target # Null ->
                IF "set" \in holder.traps THEN Told([s EXCEPT !.call = <<Fn("set"), receiver, v>>], "true")
                ELSE SetWithReceiver(s, holder.target, k, v, receiver)
          [] OTHER ->
                CASE found # <<>> /\ found[1].kind = "accessor" ->
                        IF found[1].set[1] = "function"
                        THEN Told([s EXCEPT !.call = <<found[1].set, receiver, v>>], "true") ELSE No
                  [] found # <<>> /\ found[1].kind = "data" /\ ~found[1].w -> No
                  [] OTHER ->
                        IF IF Has(ob, k) THEN Own(ob, k).kind = "accessor" \/ ~Own(ob, k).w ELSE ~ob.ext
                        THEN No
                        ELSE Told([s EXCEPT !.objs[receiver] = DefineOwn(ob, record)[2]], "true")

(* super_set: `super.k = v` from a method whose home object's prototype is
   base. *)
SuperSet(s, base, k, v, receiver, strict) ==
    LET found == Nearest(s.objs, base, k)
        ob == s.objs[receiver]
        defined == DefineOwn(ob, IF Has(ob, k) THEN [Own(ob, k) EXCEPT !.value = v] ELSE Default(k, v))
        writable == ~Has(ob, k) \/ (Own(ob, k).kind = "data" /\ Own(ob, k).w)
        Refused == IF strict THEN Thrown(s) ELSE Told(s, "done")
    IN  CASE found # <<>> /\ found[1].kind = "accessor" /\ found[1].set[1] = "function" ->
                Told([s EXCEPT !.call = <<found[1].set, receiver, v>>], "done")
          [] found # <<>> /\ found[1].kind = "accessor" /\ found[1].set[1] # "function" -> Refused
          [] found # <<>> /\ found[1].kind = "data" /\ ~found[1].w -> Refused
          [] OTHER -> IF writable /\ defined[1]
                      THEN Told([s EXCEPT !.objs[receiver] = defined[2]], "done")
                      ELSE Refused

(* delete_property: a mapped index that goes stops being mapped. *)
RECURSIVE DeleteProperty(_, _, _)
ProxyDelete(s, o, k) ==
    IF "deleteProperty" \in s.objs[o].traps
    THEN Told([s EXCEPT !.call = <<Fn("delete"), o, Undefined>>], "true")
    ELSE DeleteProperty(s, s.objs[o].target[2], k)

DeleteProperty(s, o, k) ==
    LET out == DeleteOwn(s.objs[o], k)
        unmapped == IF out[1] /\ k[1] = "index" THEN [out[2] EXCEPT !.map = @ \ {k[2]}] ELSE out[2]
    IN  IF s.objs[o].target # Null THEN ProxyDelete(s, o, k)
        ELSE Told([s EXCEPT !.objs[o] = unmapped], IF out[1] THEN "true" ELSE "false")

(* Object.defineProperty.  A field of the descriptor is <<>> where it is not
   stated, and then keeps what the property has. *)
DefineProperty(s, o, k, d) ==
    LET ob == s.objs[o]
        cur == IF Has(ob, k) THEN Own(ob, k) ELSE Data(k, Undefined, FALSE, FALSE, FALSE)
        Stated(field, held) == IF field = <<>> THEN held ELSE field[1]
        wr == Stated(d.w, cur.w)
        accessor == \/ d.get # <<>> \/ d.set # <<>>
                    \/ (d.value = <<>> /\ cur.kind = "accessor")
        mapped == Mapped(s, o, k)
        value == IF mapped /\ d.value = <<>> /\ ~accessor /\ ~wr THEN s.params[k[2]]
                 ELSE Stated(d.value, cur.value)
        record == IF accessor
                  THEN Accessor(k, Stated(d.get, cur.get), Stated(d.set, cur.set),
                                wr, Stated(d.e, cur.e), Stated(d.c, cur.c))
                  ELSE Data(k, value, wr, Stated(d.e, cur.e), Stated(d.c, cur.c))
        Lengthened(t) == IF k[1] = "index" /\ IsArray(s, o) /\ k[2] >= LengthOf(s, o)
                         THEN SetLength(t, o, Num(k[2] + 1)) ELSE t
        Aliased(t) == IF mapped /\ d.value # <<>> /\ ~accessor
                      THEN [t EXCEPT !.params[k[2]] = value] ELSE t
        Parted(t) == IF mapped /\ (accessor \/ ~wr)
                     THEN [t EXCEPT !.objs[o].map = @ \ {k[2]}] ELSE t
        Taken(out) == IF (d.value # <<>> /\ (d.get # <<>> \/ d.set # <<>>)) \/ ~out[1] THEN Thrown(s)
                      ELSE Told(Parted(Aliased(Lengthened([s EXCEPT !.objs[o] = out[2]]))), "done")
    IN  Taken(DefineOwn(ob, record))

(* Object.preventExtensions, Object.seal and Object.freeze: the object is
   closed, then every record is redefined with less. *)
Integrity(ob, level) ==
    LET Less(d) == CASE level = "prevent" -> d
                     [] level = "seal" -> [d EXCEPT !.c = FALSE]
                     [] level = "freeze" -> [d EXCEPT !.c = FALSE, !.w = FALSE]
    IN  [ob EXCEPT !.ext = FALSE,
                   !.table = [i \in DOMAIN @ |-> IF IsCompatible(@[i], Less(@[i])) THEN Less(@[i])
                                                  ELSE @[i]]]

IsFrozen(ob) == ~ob.ext /\ \A i \in DOMAIN ob.table : ~ob.table[i].w /\ ~ob.table[i].c

(* enumerable_keys: what for-in walks, the nearest object's keys first, each
   key once, and a key some nearer object owns not at all. *)
EnumerableKeys(s, o) ==
    LET chain == Chain(s.objs, Obj(o), 0)
        Own_(n) == SelectSeq(OwnKeys(s.objs[chain[n]]),
                       LAMBDA k : /\ k[1] # "symbol"
                                  /\ Own(s.objs[chain[n]], k).e
                                  /\ \A m \in 1..(n - 1) : ~Has(s.objs[chain[m]], k))
    IN  FlattenSeq([n \in DOMAIN chain |-> Own_(n)])

(* Array.prototype.push. *)
Push(s, o, v) ==
    LET n == LengthOf(s, o)
        out == DefineOwn(s.objs[o], Default(Index(n), v))
    IN  IF ~out[1] THEN Thrown(s)
        ELSE SetLength([s EXCEPT !.objs[o] = out[2]], o, Num(n + 1))

-----------------------------------------------------------------------------
(* A program.  added remembers the keys of each object in the order they   *)
(* came to be there.                                                       *)

KeysOf(ob) == [i \in DOMAIN ob.table |-> ob.table[i].key]

NoCall == <<Undefined, "", Undefined>>

Start(world) ==
    [objs |-> world.objs, params |-> world.params, call |-> NoCall,
     told |-> "", uses |-> world.uses,
     added |-> [o \in DOMAIN world.objs |-> KeysOf(world.objs[o])]]

(* The outcome goes to the program, which does what it likes next. *)
Noted(s) ==
    [s EXCEPT !.told = "", !.call = NoCall,
              !.added = [o \in DOMAIN @ |->
        LET kept == SelectSeq(@[o], LAMBDA k : Has(s.objs[o], k))
            new == {k \in ToSet(KeysOf(s.objs[o])) : k \notin ToSet(kept)}
        IN  kept \o SetToSeq(new)]]

Does(op) == op \in w.uses.ops
Some == DOMAIN w.objs \ {ArrayPrototype}

Assign == \E o \in Some, k \in w.uses.keys, v \in w.uses.values, strict \in BOOLEAN :
    /\ Does("assign")
    /\ k = LengthKey => v[1] = "number"
    /\ w' = Noted(SetProperty(w, o, k, v, strict))

ReflectSet == \E o, r \in Some, k \in w.uses.keys, v \in w.uses.values :
    /\ Does("reflect") /\ o # r /\ w.objs[r].target = Null
    /\ w' = Noted(SetWithReceiver(w, Obj(o), k, v, r))

AssignSuper == \E o \in Some, k \in w.uses.keys, v \in w.uses.values, strict \in BOOLEAN :
    /\ Does("super")
    /\ w' = Noted(IF w.objs[o].proto = Null THEN Thrown(w)
                  ELSE SuperSet(w, w.objs[o].proto, k, v, o, strict))

Define == \E o \in Some, k \in w.uses.keys, d \in w.uses.descs :
    Does("define") /\ w.objs[o].target = Null /\ w' = Noted(DefineProperty(w, o, k, d))

Delete == \E o \in Some, k \in w.uses.keys :
    Does("delete") /\ w' = Noted(DeleteProperty(w, o, k))

Close == \E o \in Some, level \in {"prevent", "seal", "freeze"} :
    /\ Does("close") /\ w.objs[o].target = Null
    /\ w' = Noted(Told([w EXCEPT !.objs[o] = Integrity(@, level)], "done"))

Reparent == \E o \in Some, v \in {Obj(p) : p \in Some} \cup {Null} :
    /\ Does("reparent")
    /\ LET out == SetPrototypeOf(w.objs, o, v) IN
       w' = Noted(IF out[1] THEN Told([w EXCEPT !.objs[o] = out[2]], "done") ELSE Thrown(w))

PushOne == \E o \in Some, v \in w.uses.values :
    Does("push") /\ LengthOf(w, o) < 2 /\ w' = Noted(Push(w, o, v))

(* The function assigns one of its parameters. *)
AssignParameter == \E n \in DOMAIN w.params, v \in w.uses.values :
    Does("parameter") /\ w' = [w EXCEPT !.params[n] = v]

Init == \E world \in Worlds : w = Start(world)

Next == \/ Assign \/ ReflectSet \/ AssignSuper \/ Define \/ Delete
        \/ Close \/ Reparent \/ PushOne \/ AssignParameter

Spec == Init /\ [][Next]_w

-----------------------------------------------------------------------------
(* Properties.                                                             *)

TypeOK ==
    /\ \A o \in DOMAIN w.objs : /\ w.objs[o].ext \in BOOLEAN
                                /\ w.objs[o].map \subseteq DOMAIN w.params
                                /\ IsObject(w.objs[o].proto) \/ w.objs[o].proto = Null

(* What a property looks like from outside: a mapped index shows its
   parameter. *)
Seen(s, o, k) ==
    [Own(s.objs[o], k) EXCEPT !.value = IF Mapped(s, o, k) THEN s.params[k[2]] ELSE @]

(* A property that is not configurable stays what it is: never deleted,
   never configurable again, its kind and enumerability kept, an accessor's
   functions kept, and once it is not writable either its value as well,
   whichever object, proxy, receiver or parameter a write goes through. *)
FixedStaysFixed ==
    \A o \in DOMAIN w.objs : \A k \in ToSet(KeysOf(w.objs[o])) :
        LET was == Seen(w, o, k) IN
        ~was.c => /\ Has(w'.objs[o], k)
                  /\ LET is == Seen(w', o, k) IN
                     /\ ~is.c /\ is.e = was.e /\ is.kind = was.kind
                     /\ is.get = was.get /\ is.set = was.set
                     /\ ~was.w => ~is.w /\ is.value = was.value

(* A closed object gains no property, keeps its prototype and is never open
   again, through any of the ways to write or define. *)
ClosedStaysClosed ==
    \A o \in DOMAIN w.objs : ~w.objs[o].ext =>
        /\ ~w'.objs[o].ext
        /\ w'.objs[o].proto = w.objs[o].proto
        /\ ToSet(KeysOf(w'.objs[o])) \subseteq ToSet(KeysOf(w.objs[o]))

(* No chain of prototypes meets itself, so every walk along one ends. *)
ChainsEnd ==
    \A o \in DOMAIN w.objs : o \notin ToSet(Chain(w.objs, w.objs[o].proto, 0))

(* own_keys lists indices by their number and the rest as they were added;
   a key that was deleted and came back is listed last. *)
KeysAsAdded ==
    \A o \in DOMAIN w.objs :
        LET keys == OwnKeys(w.objs[o])
            At(k) == SelectInSeq(keys, LAMBDA j : j = k)
            rank == [index |-> 1, name |-> 2, symbol |-> 3]
        IN  /\ Cardinality(ToSet(keys)) = Len(keys)
            /\ ToSet(keys) = ToSet(w.added[o])
            /\ \A m, n \in DOMAIN w.added[o] :
                 LET j == w.added[o][m] k == w.added[o][n] IN
                 \/ m >= n
                 \/ rank[j[1]] = rank[k[1]] /\ j[1] # "index" /\ At(j) < At(k)
                 \/ rank[j[1]] < rank[k[1]] /\ At(j) < At(k)
                 \/ rank[j[1]] > rank[k[1]] /\ At(j) > At(k)
                 \/ j[1] = "index" /\ k[1] = "index" /\ (j[2] < k[2]) = (At(j) < At(k))

Ordinary(s, o) == s.objs[o].target = Null /\ s.objs[o].map = {} /\ ~IsArray(s, o)

(* The three places the code carries out OrdinarySet agree: an assignment, a
   write with a receiver of its own and a write through super, of the same
   value to the same ordinary object, change the same things, call the same
   setter and refuse alike. *)
WritesAgree ==
    \A o \in DOMAIN w.objs, k \in w.uses.keys, v \in w.uses.values :
        Ordinary(w, o) =>
            LET plain == SetProperty(w, o, k, v, TRUE)
                given == SetWithReceiver(w, Obj(o), k, v, o)
                super == SuperSet(w, Obj(o), k, v, o, TRUE)
            IN  /\ plain.objs = given.objs /\ given.objs = super.objs
                /\ plain.call = given.call /\ given.call = super.call
                /\ (plain.told = "TypeError") = (given.told = "false")
                /\ plain.told = super.told

(* An assignment that is neither refused nor handed to a setter is read
   back, whether a record, a shared parameter or an array's length took it,
   and the key is then there. *)
ReadsBack ==
    \A o \in Some, k \in w.uses.keys, v \in w.uses.values :
        LET after == SetProperty(w, o, k, v, TRUE) IN
        (w.objs[o].target = Null /\ after.told = "done" /\ after.call = NoCall)
            => GetProperty(after, o, k) = v /\ HasProperty(after, o, k)

(* for-in visits exactly the names whose nearest record is enumerable, each
   once. *)
ForInSeesVisible ==
    \A o \in DOMAIN w.objs :
        LET keys == EnumerableKeys(w, o)
            visible == {k \in UNION {ToSet(KeysOf(w.objs[p])) : p \in DOMAIN w.objs} :
                          /\ k[1] # "symbol"
                          /\ Nearest(w.objs, Obj(o), k) # <<>>
                          /\ Nearest(w.objs, Obj(o), k)[1].e}
        IN  Cardinality(ToSet(keys)) = Len(keys) /\ ToSet(keys) = visible

(* "An array's `length` follows its highest index": every index an array has
   is below its length, whatever was assigned, pushed, deleted or cut. *)
LengthCoversIndices ==
    \A o \in Some : IsArray(w, o) =>
        \A k \in ToSet(KeysOf(w.objs[o])) : k[1] = "index" => k[2] < LengthOf(w, o)
=============================================================================
