------------------------------- MODULE Bindings -------------------------------
(***************************************************************************)
(* The capability table of one isolate (modules/common/binding.rs): the    *)
(* bindings a deployment admitted, the calls outstanding on them, and the  *)
(* resources providers opened, which a program holds by handle.            *)
(*                                                                         *)
(* The descriptors, the pending slots and the resource slots are storage   *)
(* that outlives a module step.  The struct over them does not: a step     *)
(* adopts the storage with what the last step saved and saves again before *)
(* it returns, so every operation below happens inside a step.             *)
(***************************************************************************)
EXTENDS Integers, FiniteSets

CONSTANTS
    BindingCount,    \* descriptors the profile holds
    PendingCount,    \* pending slots the profile holds
    ResourceCount,   \* resource slots; 0 is a host that attached no table
    RequestMax,      \* the largest request identifier, u64::MAX in the code
    GenerationCount, \* generations of a handle, 2^32 in the code
    Names,           \* digests of binding names
    Scopes,          \* capabilities a binding may belong to
    Limits,          \* values in_flight_max may take
    Traces, Promises, Tokens,
    Undefined,       \* what an empty slot holds in place of any of these
    MaxReleases      \* bound on the releases of one resource slot

ASSUME CountsAssumption ==
    /\ BindingCount \in Nat /\ PendingCount \in Nat /\ ResourceCount \in Nat
    /\ RequestMax \in Nat \ {0} /\ GenerationCount \in Nat \ {0}
    /\ Limits \subseteq Nat /\ MaxReleases \in Nat
    /\ Undefined \notin Names \cup Scopes \cup Traces \cup Promises \cup Tokens

BindingIds  == 0 .. BindingCount - 1
Slots       == 0 .. PendingCount - 1
Indexes     == 0 .. ResourceCount - 1
Generations == 0 .. GenerationCount - 1
Classes     == {"Async", "Snapshot"}
Values      == {"unset", "set"}       \* a snapshot's value, before and after

OrUndefined(S) == S \cup {Undefined}

Binding  == [name : OrUndefined(Names), scope : OrUndefined(Scopes),
             class : Classes, snapshot : Values, in_flight : Nat, in_flight_max : Nat]
Pending  == [request : 0 .. RequestMax, trace : OrUndefined(Traces),
             binding : Nat, promise : OrUndefined(Promises), live : BOOLEAN]
Resource == [scope : OrUndefined(Scopes), token : OrUndefined(Tokens),
             generation : Generations, live : BOOLEAN]

EmptyBinding  == [name |-> Undefined, scope |-> Undefined, class |-> "Async",
                  snapshot |-> "unset", in_flight |-> 0, in_flight_max |-> 0]
EmptyPending  == [request |-> 0, trace |-> Undefined, binding |-> 0,
                  promise |-> Undefined, live |-> FALSE]
EmptyResource == [scope |-> Undefined, token |-> Undefined, generation |-> 0,
                  live |-> FALSE]

Handle   == [index : Indexes, generation : Generations]

VARIABLES
    bindings,      \* the descriptors, meaningful below admitted
    admitted,      \* how many of them a deployment admitted
    pending,       \* the calls waiting for a completion
    next_request,  \* the identifier the next call gets
    resources,     \* what providers opened
    save,          \* BindingsSave, what the last step left
    active,        \* whether a step holds the table
    answered,      \* history: the requests a completion was accepted for
    releases,      \* history: how often each resource slot was released
    issued         \* history: every handle given to a program and what it named

table   == <<bindings, admitted, pending, next_request, resources>>
history == <<answered, releases, issued>>
bvars   == <<table, save, active, history>>

----------------------------------------------------------------------------
\* The calls outstanding on a binding, and across every binding.
LiveOn(b) == {s \in Slots : pending[s].live /\ pending[s].binding = b}
InFlight  == Cardinality({s \in Slots : pending[s].live})

Outstanding == {pending[s].request : s \in {t \in Slots : pending[t].live}}

\* The slot a request is found at: the first live one that carries it.
IsSlotOf(s, request) ==
    /\ pending[s].live /\ pending[s].request = request
    /\ \A t \in Slots : t < s => ~(pending[t].live /\ pending[t].request = request)

TraceMatches(request, trace) ==
    \E s \in Slots : IsSlotOf(s, request) /\ pending[s].trace = trace

\* The first slot not in use.
FirstFreePending(s) == ~pending[s].live /\ \A t \in Slots : t < s => pending[t].live
FirstFreeResource(i) ==
    ~resources[i].live /\ \A j \in Indexes : j < i => resources[j].live

\* A handle names a live resource of the capability the binding belongs to.
Resolves(b, h) ==
    /\ b < admitted
    /\ h.index \in Indexes
    /\ resources[h.index].live
    /\ resources[h.index].generation = h.generation
    /\ resources[h.index].scope = bindings[b].scope

\* What a lookup by name answers: the first admitted binding of that name.
IndexOf(name) ==
    {b \in BindingIds : /\ b < admitted /\ bindings[b].name = name
                        /\ \A c \in BindingIds : c < b => bindings[c].name # name}

----------------------------------------------------------------------------
\* The storage of a task that has not started, as new and attach_resources
\* leave it: nothing admitted, no slot in use, identifiers from one.
Init ==
    /\ bindings = [b \in BindingIds |-> EmptyBinding]
    /\ admitted = 0
    /\ pending = [s \in Slots |-> EmptyPending]
    /\ next_request = 1
    /\ resources = [i \in Indexes |-> EmptyResource]
    /\ save = [admitted |-> 0, next_request |-> 1]
    /\ active = TRUE
    /\ answered = {}
    /\ releases = [i \in Indexes |-> 0]
    /\ issued = {}

\* The end of a step: what the struct held is saved, the storage stays.
SaveStep ==
    /\ active
    /\ save' = [admitted |-> admitted, next_request |-> next_request]
    /\ active' = FALSE
    /\ UNCHANGED <<table, history>>

\* The start of the next step takes up the storage and what was saved.

Adopt ==
    /\ ~active
    /\ active' = TRUE
    /\ admitted' = save.admitted
    /\ next_request' = save.next_request
    /\ UNCHANGED <<bindings, pending, resources, save, history>>

Admit(name, scope, class, limit) ==
    /\ active
    /\ admitted < BindingCount
    /\ bindings' = [bindings EXCEPT ![admitted] =
            [name |-> name, scope |-> scope, class |-> class,
             snapshot |-> "unset", in_flight |-> 0, in_flight_max |-> limit]]
    /\ admitted' = admitted + 1
    /\ UNCHANGED <<pending, next_request, resources, save, active, history>>

SetSnapshot(b) ==
    /\ active
    /\ b < admitted
    /\ bindings[b].class = "Snapshot"
    /\ bindings' = [bindings EXCEPT ![b].snapshot = "set"]
    /\ UNCHANGED <<admitted, pending, next_request, resources, save, active, history>>

\* Begin a call: admitted, below its own limit, and a pending slot free.
Begin(b, promise, trace) ==
    /\ active
    /\ b < admitted
    /\ bindings[b].in_flight < bindings[b].in_flight_max
    /\ \E s \in Slots :
          /\ FirstFreePending(s)
          /\ pending' = [pending EXCEPT ![s] =
                [request |-> next_request, trace |-> trace, binding |-> b,
                 promise |-> promise, live |-> TRUE]]
    /\ next_request' = IF next_request < RequestMax THEN next_request + 1
                                                    ELSE next_request
    /\ bindings' = [bindings EXCEPT ![b].in_flight = @ + 1]
    /\ UNCHANGED <<admitted, resources, save, active, history>>

\* Complete a request: the slot that carries it is freed and its binding's
\* count comes down.  No live slot carries it: UnknownRequest, nothing changes.
CompleteUncounted(request) ==
    /\ active
    /\ \E s \in Slots :
          /\ IsSlotOf(s, request)
          /\ pending' = [pending EXCEPT ![s].live = FALSE]
    /\ answered' = answered \cup {request}
    /\ UNCHANGED <<bindings, admitted, next_request, resources, save, active,
                   releases, issued>>

CompleteKeepsSlot(request) ==
    /\ active
    /\ \E s \in Slots :
          /\ IsSlotOf(s, request)
          /\ bindings' = [bindings EXCEPT ![pending[s].binding].in_flight =
                             IF @ > 0 THEN @ - 1 ELSE 0]
    /\ answered' = answered \cup {request}
    /\ UNCHANGED <<admitted, pending, next_request, resources, save, active,
                   releases, issued>>

Complete(request) ==
    /\ active
    /\ \E s \in Slots :
          /\ IsSlotOf(s, request)
          /\ pending' = [pending EXCEPT ![s].live = FALSE]
          /\ bindings' = [bindings EXCEPT ![pending[s].binding].in_flight =
                             IF @ > 0 THEN @ - 1 ELSE 0]
    /\ answered' = answered \cup {request}
    /\ UNCHANGED <<admitted, next_request, resources, save, active, releases, issued>>

\* Record a resource a provider opened, in the first slot not in use.
Open(b, token) ==
    /\ active
    /\ b < admitted
    /\ \E i \in Indexes :
          /\ FirstFreeResource(i)
          /\ resources' = [resources EXCEPT ![i].scope = bindings[b].scope,
                                            ![i].token = token, ![i].live = TRUE]
          /\ issued' = issued \cup
                {[handle |-> [index |-> i, generation |-> resources[i].generation],
                  scope |-> bindings[b].scope, token |-> token,
                  opening |-> releases[i]]}
    /\ UNCHANGED <<bindings, admitted, pending, next_request, save, active,
                   answered, releases>>

\* Release a handle that resolves: the slot's generation advances, wrapping.
ReleaseKeepsGeneration(b, h) ==
    /\ active
    /\ Resolves(b, h)
    /\ releases[h.index] < MaxReleases
    /\ resources' = [resources EXCEPT ![h.index].live = FALSE]
    /\ releases' = [releases EXCEPT ![h.index] = @ + 1]
    /\ UNCHANGED <<bindings, admitted, pending, next_request, save, active,
                   answered, issued>>

Release(b, h) ==
    /\ active
    /\ Resolves(b, h)
    /\ releases[h.index] < MaxReleases
    /\ resources' = [resources EXCEPT ![h.index].live = FALSE,
                        ![h.index].generation = (@ + 1) % GenerationCount]
    /\ releases' = [releases EXCEPT ![h.index] = @ + 1]
    /\ UNCHANGED <<bindings, admitted, pending, next_request, save, active,
                   answered, issued>>

Next ==
    \/ SaveStep
    \/ Adopt
    \/ \E n \in Names, c \in Scopes, k \in Classes, l \in Limits : Admit(n, c, k, l)
    \/ \E b \in BindingIds : SetSnapshot(b)
    \/ \E b \in BindingIds, p \in Promises, t \in Traces : Begin(b, p, t)
    \/ \E r \in 1 .. RequestMax : Complete(r)
    \/ \E b \in BindingIds, k \in Tokens : Open(b, k)
    \/ \E b \in BindingIds, h \in Handle : Release(b, h)

Spec == Init /\ [][Next]_bvars

----------------------------------------------------------------------------
TypeOK ==
    /\ bindings \in [BindingIds -> Binding]
    /\ admitted \in 0 .. BindingCount
    /\ pending \in [Slots -> Pending]
    /\ next_request \in 1 .. RequestMax
    /\ resources \in [Indexes -> Resource]
    /\ save \in [admitted : 0 .. BindingCount, next_request : 1 .. RequestMax]
    /\ active \in BOOLEAN
    /\ answered \subseteq 1 .. RequestMax
    /\ releases \in [Indexes -> Nat]
    /\ issued \subseteq [handle : Handle, scope : OrUndefined(Scopes), token : Tokens, opening : Nat]

\* The count begin and complete keep on a descriptor is the number of pending
\* slots that name it, whatever the order of calls, answers and steps: a count
\* left high refuses calls for ever, one left low admits more than the limit.
CountsAgree ==
    \A b \in BindingIds : /\ bindings[b].in_flight = Cardinality(LiveOn(b))
                          /\ Cardinality(LiveOn(b)) <= bindings[b].in_flight_max

\* "The next correlation identifier, which never repeats within a run": until
\* the counter saturates, no two outstanding calls share an identifier and an
\* outstanding call's was never answered, steps that saved and adopted the
\* table between them included.
RequestsDistinct ==
    \A s \in Slots : pending[s].live /\ pending[s].request < RequestMax =>
        /\ pending[s].request \notin answered
        /\ \A t \in Slots \ {s} : pending[t].live => pending[t].request # pending[s].request

\* A request identifier is answered once: complete never accepts one again,
\* until the counter saturates.
AnsweredOnce ==
    [][\A r \in 1 .. RequestMax - 1 : Complete(r) => r \notin answered]_bvars

\* A handle that resolves names the very resource it was issued for, on a
\* binding of the capability that opened it: one kept past its resource's life
\* names nothing, as long as no slot's generation has come round.
HandleNamesItsResource ==
    \A e \in issued, b \in BindingIds :
        /\ Resolves(b, e.handle)
        /\ releases[e.handle.index] < GenerationCount
        => /\ e.opening = releases[e.handle.index]
           /\ resources[e.handle.index].token = e.token
           /\ bindings[b].scope = e.scope
============================================================================
