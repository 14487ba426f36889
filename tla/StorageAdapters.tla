-------------------------- MODULE StorageAdapters -----------------------------
(***************************************************************************)
(* modules/app/phasor_store: a granted call becomes one operation on an    *)
(* object store the adapter does not own.  The store may say "not yet": the *)
(* call is then held, one at a time, and asked again every step.  A store  *)
(* with roots admits nothing without a grant, which the adapter presents   *)
(* its capability for before it takes a call.                              *)
(*                                                                         *)
(* modules/app/phasor_fs: files under one root, through a provider that    *)
(* may not have attached its volume yet.  A whole-file call opens, acts    *)
(* and closes within a step; a file a program opens stays open in a table. *)
(* A call the provider says "not yet" to is held, one at a time, and the   *)
(* next step re-opens for it or reads through its file.                    *)
(*                                                                         *)
(* A key is well formed and a name admitted, or not; bytes are the offsets *)
(* they lie at.  The store and the provider (env) are external: what they  *)
(* answer is chosen freely.                                                *)
(***************************************************************************)
EXTENDS AdapterPort

CONSTANTS
    Entries,      \* ENTRY_COUNT: objects held open at once
    MaxNotYet,    \* bound on how often the store says "not yet"
    OpenFiles,    \* OPEN_FILES: files held open at once
    MaxAttach     \* bound on how often the provider says "not yet"

----------------------------------------------------------------------------
(* phasor_store.                                                           *)

Closed == [live |-> FALSE, descriptor |-> 0, offset |-> 0]
NotWaiting == [live |-> FALSE, request |-> 0, method |-> "none", slot |-> 0,
               descriptor |-> 0, offset |-> 0]
NoPayload == [request |-> 0, method |-> "none", key |-> "none", slot |-> 0]

\* env: whether the store has roots and the graph names a scope, the
\* descriptors it issued, the operation it took and has not decided, and
\* whether it ever saw an operation without a grant it wants, or another
\* operation while one was undecided.
StoreInit ==
    /\ PortInit
    /\ \E quota \in Quotas :
          state = Staging @@ [quota |-> quota, answered |-> 0, payload |-> NoPayload,
                              waiting |-> NotWaiting, entries |-> [i \in 1 .. Entries |-> Closed],
                              standing |-> "open", grant |-> FALSE]
    /\ env \in [guarded : BOOLEAN, scope : BOOLEAN, descriptors : {{}},
                notyet : {0}, undecided : {<<>>}, breached : {FALSE}, swapped : {FALSE}]
    /\ env.guarded => env.scope

\* The handle an operation passes is the grant, once one is held.
Handle(s) == s.standing = "granted" /\ s.grant

----------------------------------------------------------------------------
(* The store's side of an operation: v is the adapter's state s and the    *)
(* store e.                                                                *)

\* It is asked a question: the member held or taken, over the staged payload.
Asked(v, method) ==
    LET question == <<method, v.s.payload>>
    IN  [v EXCEPT !.e.breached = @ \/ (v.e.guarded /\ ~Handle(v.s)),
                  !.e.swapped  = @ \/ (v.e.undecided \notin {<<>>, question})]

Undecided(v, method) ==
    [Asked(v, method) EXCEPT !.e.undecided = <<method, v.s.payload>>, !.e.notyet = @ + 1]
Decided(v, method) == [Asked(v, method) EXCEPT !.e.undecided = <<>>]

\* GET issues a descriptor, the smallest not out, which CLOSE gives back.
Fresh(v) == CHOOSE d \in 1 .. Entries + 1 :
                d \notin v.e.descriptors /\ \A c \in 1 .. d - 1 : c \in v.e.descriptors
Opened(v, method) == [Decided(v, method) EXCEPT !.e.descriptors = @ \cup {Fresh(v)}]
Released(v, descriptor) == [v EXCEPT !.e.descriptors = @ \ {descriptor}]

\* The bytes a range read takes from an offset.
Bytes(offset) == [i \in 1 .. PayloadCells |-> offset + i]

----------------------------------------------------------------------------
(* Answering.  Replied and Waits are the two ways answer comes out.        *)

Replied(v, request, outcome, data, slot) ==
    [v EXCEPT !.s = [Reply(v.s, Completion(request, outcome, data) @@ [slot |-> slot])
                        EXCEPT !.answered = @ + 1, !.payload = NoPayload]]

Waits(v, waiting) == [v EXCEPT !.s.waiting = waiting @@ [live |-> TRUE]]

\* hold_from_payload: nothing is owned, the whole question is asked again.
HoldFromPayload(v, request, method) ==
    Waits(v, [request |-> request, method |-> method, slot |-> 0, descriptor |-> 0, offset |-> 0])

\* readAt goes on from where the entry's last read ended.
ReadAt(v, request, rc) ==
    LET slot  == v.s.payload.slot
        entry == v.s.entries[slot]
    IN  IF ~entry.live THEN Replied(v, request, "Malformed", <<>>, slot)
        ELSE CASE rc = "again" ->
                    Waits(Undecided(v, "readAt"),
                          [request |-> request, method |-> "readAt", slot |-> slot,
                           descriptor |-> entry.descriptor, offset |-> entry.offset])
               [] rc = "fail" -> Replied(Decided(v, "readAt"), request, "Unavailable", <<>>, slot)
               [] OTHER ->
                    Replied([Decided(v, "readAt") EXCEPT !.s.entries[slot].offset = @ + PayloadCells],
                            request, "fulfilled", Bytes(entry.offset), slot)

Open(v, request, rc) ==
    LET free == {i \in 1 .. Entries : ~v.s.entries[i].live}
        slot == CHOOSE i \in free : \A j \in free : i <= j
    IN  IF free = {} THEN Replied(v, request, "Busy", <<>>, 0)
        ELSE CASE rc = "again" -> HoldFromPayload(Undecided(v, "open"), request, "open")
               [] rc = "busy"  -> Replied(Decided(v, "open"), request, "Busy", <<>>, 0)
               [] rc = "fail"  -> Replied(Decided(v, "open"), request, "Malformed", <<>>, 0)
               [] OTHER ->
                    Replied([Opened(v, "open") EXCEPT !.s.entries[slot] =
                                [live |-> TRUE, descriptor |-> Fresh(v), offset |-> 0]],
                            request, "fulfilled", <<>>, slot)

\* read opens, reads from the start and closes; a "not yet" between the two
\* keeps the descriptor for the retry.
Read(v, request, rc) ==
    LET descriptor == Fresh(v)
    IN  CASE rc = "again" -> HoldFromPayload(Undecided(v, "read"), request, "read")
          [] rc = "busy"  -> Replied(Decided(v, "read"), request, "Busy", <<>>, 0)
          [] rc = "none"  -> Replied(Decided(v, "read"), request, "fulfilled", <<>>, 0)
          [] rc = "range again" ->
                Waits([Opened(v, "read") EXCEPT !.e.undecided = <<"read", v.s.payload>>,
                                                !.e.notyet = @ + 1],
                      [request |-> request, method |-> "read", slot |-> 0,
                       descriptor |-> descriptor, offset |-> 0])
          [] rc = "fail" -> Replied(Released(Opened(v, "read"), descriptor),
                                    request, "Unavailable", <<>>, 0)
          [] OTHER -> Replied(Released(Opened(v, "read"), descriptor),
                              request, "fulfilled", Bytes(0), 0)

\* write, delete and list: one operation, held while it is not decided.
Plain(v, request, method, rc) ==
    CASE rc = "again" -> HoldFromPayload(Undecided(v, method), request, method)
      [] rc = "fail" /\ method # "delete" ->
            Replied(Decided(v, method), request, "Unavailable", <<>>, 0)
      [] OTHER -> Replied(Decided(v, method), request, "fulfilled", <<>>, 0)

\* What the store may come back with, by the member asked.
Outcomes(method) ==
    CASE method = "open" -> {"ok", "again", "busy", "fail"}
      [] method = "read" -> {"ok", "again", "busy", "none", "range again", "fail"}
      [] OTHER           -> {"ok", "again", "fail"}

NotYet == {"again", "range again"}

Answer(v, request, method, rc) ==
    IF Spent(v.s) THEN Replied(v, request, "Denied", <<>>, 0)
    ELSE IF v.s.standing = "refused" THEN Replied(v, request, "Denied", <<>>, 0)
    ELSE IF v.s.payload.key = "malformed" THEN Replied(v, request, "Malformed", <<>>, 0)
    ELSE CASE method = "readAt" -> ReadAt(v, request, rc)
           [] method = "open"   -> Open(v, request, rc)
           [] method = "read"   -> Read(v, request, rc)
           [] OTHER             -> Plain(v, request, method, rc)

----------------------------------------------------------------------------
(* A step.                                                                 *)

\* A held call that owns no descriptor is asked again whole; one that owns
\* one reads through it, and a read closes what it opened.
Answering(v) ==
    LET held == v.s.waiting
        w    == [Decided(v, held.method) EXCEPT !.s.waiting = NotWaiting]
    IN  IF held.slot = 0 THEN Released(w, held.descriptor) ELSE w

\* Mutant: a held read leaves the entry where it was.
RetryRangeStill(v, rc) ==
    LET held == v.s.waiting
    IN  CASE rc \in NotYet -> Undecided(v, held.method)
          [] rc = "fail" -> Replied(Answering(v), held.request, "Unavailable", <<>>, held.slot)
          [] OTHER -> Replied(Answering(v), held.request, "fulfilled", Bytes(held.offset), held.slot)

RetryRange(v, rc) ==
    LET held == v.s.waiting
        done == Answering(v)
    IN  CASE rc \in NotYet -> Undecided(v, held.method)
          [] rc = "fail" -> Replied(done, held.request, "Unavailable", <<>>, held.slot)
          [] OTHER ->
                Replied(IF held.slot = 0 THEN done
                        ELSE [done EXCEPT !.s.entries[held.slot].offset = @ + PayloadCells],
                        held.request, "fulfilled", Bytes(held.offset), held.slot)

Retry(v, rc) ==
    LET held == v.s.waiting
    IN  IF ~held.live THEN v
        ELSE IF held.descriptor = 0
             THEN Answer([v EXCEPT !.s.waiting = NotWaiting], held.request, held.method, rc)
        ELSE RetryRange(v, rc)

Stands(s) == ~env.scope \/ s.standing \in {"granted", "refused"}

\* stand: the capability is presented until the store has decided.
Standing(s, rc) ==
    IF Stands(s) THEN s
    ELSE CASE rc = "again"   -> [s EXCEPT !.standing = "presenting"]
           [] rc = "refused" -> [s EXCEPT !.standing = "refused"]
           [] OTHER          -> [s EXCEPT !.standing = "granted", !.grant = env.guarded]

MayServe(s) == Stands(s)

Takes(v) == calls # <<>> /\ MayServe(v.s) /\ ~v.s.waiting.live /\ Room(v.s, PayloadCells)

Taken(v, rc) ==
    IF ~Takes(v) THEN v
    ELSE Answer([v EXCEPT !.s.payload = Head(calls)], Head(calls).request, Head(calls).method, rc)

\* The adapter ends when the stream has hung up and nothing is staged.
FinishStore(s) == [s EXCEPT !.phase = IF hung /\ s.staged = <<>> THEN 1 ELSE @]

Patient(rc) == rc \in NotYet => env.notyet < MaxNotYet

StoreStep ==
    /\ state.phase = 0
    /\ \E rc1 \in IF state.waiting.live THEN Outcomes(state.waiting.method) ELSE {"ok"},
          rc2 \in IF Stands(state) THEN {"ok"} ELSE {"ok", "again", "refused"},
          rc3 \in IF calls # <<>> THEN Outcomes(Head(calls).method) ELSE {"ok"} :
          /\ Patient(rc1) /\ Patient(rc2) /\ Patient(rc3)
          /\ LET a == Retry([s |-> state, e |-> env], rc1)
                 b == [a EXCEPT !.s = Standing(a.s, rc2),
                                !.e.notyet = IF rc2 = "again" THEN @ + 1 ELSE @]
                 c == Taken(b, rc3)
             IN  /\ IF MayServe(b.s) THEN Pushing(c.s, FinishStore)
                    ELSE state' = b.s /\ UNCHANGED sent
                 /\ calls' = IF Takes(b) THEN Tail(calls) ELSE calls
                 /\ env' = c.e
    /\ UNCHANGED <<made, hung>>

StoreCalls ==
    [method : {"open", "read", "write", "delete", "list"}, key : {"key"}, slot : {0}]
    \cup [method : {"write"}, key : {"malformed"}, slot : {0}]
    \cup [method : {"readAt"}, key : {"digits"}, slot : 1 .. Entries]

StoreNext == StoreStep \/ MakeCall(StoreCalls) \/ HangUp

----------------------------------------------------------------------------

\* The descriptors the store has out are those of the live entries and the
\* one a held read owns: none leaks when a read is held between its open and
\* its range, refused or retried, and none is used after it was given back.
DescriptorsKept ==
    LET live   == {i \in 1 .. Entries : state.entries[i].live}
        opened == {state.entries[i].descriptor : i \in live}
        owned  == IF state.waiting.live /\ state.waiting.descriptor # 0 /\ state.waiting.slot = 0
                  THEN {state.waiting.descriptor} ELSE {}
    IN  /\ env.descriptors = opened \cup owned
        /\ Cardinality(opened) = Cardinality(live) /\ opened \cap owned = {}

\* What readAt answers through one entry is the object from its start, each
\* answer going on where the last one ended, however often it was held.
ReadsGoOn ==
    LET through(slot) == SelectSeq(Told, LAMBDA c : c.slot = slot /\ c.data # <<>>)
    IN  \A slot \in 1 .. Entries :
            FlattenSeq([i \in DOMAIN through(slot) |-> through(slot)[i].data])
                = [n \in 1 .. PayloadCells * Len(through(slot)) |-> n]

\* A question the store has not decided is asked again as it was, over the
\* same payload, before the store is asked anything else.
AskedAgainAsItWas == ~env.swapped

\* A store with roots never sees an operation without its grant: no call is
\* taken while the capability is still being decided, or after it was refused.
NothingBeforeTheGrant == ~env.breached

\* Past the quota every call is refused.
StoreWithinQuota == WithinQuota(LAMBDA c : FALSE)

----------------------------------------------------------------------------
(* phasor_fs.                                                              *)

NoFile == [live |-> FALSE, descriptor |-> 0, offset |-> 0, opened |-> 0]
NoneHeld == [live |-> FALSE, request |-> 0, method |-> "none", slot |-> 0]
NothingStaged == [request |-> 0, method |-> "none", name |-> "none", slot |-> 0, want |-> 0]

\* env: where the provider reads next through each descriptor it has out, the
\* question it has not decided, whether it was asked another meanwhile,
\* whether anything was created or written, and whether a write put down
\* another call's bytes.  A file's opened is the call that opened it.
FsInit ==
    /\ PortInit
    /\ \E writable \in BOOLEAN, quota \in Quotas :
          state = Staging @@ [quota |-> quota, answered |-> 0, payload |-> NothingStaged,
                              waiting |-> NoneHeld, files |-> [i \in 1 .. OpenFiles |-> NoFile],
                              writable |-> writable]
    /\ env = [at |-> <<>>, notyet |-> 0, undecided |-> <<>>, swapped |-> FALSE,
              changed |-> FALSE, mixed |-> FALSE]

Admits(name) == name = "name"

\* What a completion of a read says of it: whose file, the length asked for,
\* and whether the call was held.
NoRead == [file |-> 0, asked |-> PayloadCells, held |-> FALSE]

FsTell(v, completion) ==
    [v EXCEPT !.s = [Reply(v.s, completion) EXCEPT !.answered = @ + 1, !.payload = NothingStaged]]

FsReply(v, request, outcome) == FsTell(v, Completion(request, outcome, <<>>) @@ NoRead)

\* A whole-file read answers with a chunk from the start of its file.
FsDone(v, request, method) ==
    FsTell(v, Completion(request, "fulfilled", IF method = "read" THEN Bytes(0) ELSE <<>>) @@ NoRead)

FsHolds(v, request, method, slot) ==
    [v EXCEPT !.s.waiting = [live |-> TRUE, request |-> request, method |-> method, slot |-> slot]]

----------------------------------------------------------------------------
(* The provider's side.  Whether a question is decided is all it keeps of   *)
(* one; the length of a read is not part of the question.                  *)

FsAsks(v, method, rc) ==
    LET question == <<method, v.s.payload>>
        notyet   == rc \in {"open again", "again"}
    IN  [v EXCEPT !.e.swapped = @ \/ v.e.undecided \notin {<<>>, question},
                  !.e.undecided = IF notyet THEN question ELSE <<>>,
                  !.e.notyet = IF notyet THEN @ + 1 ELSE @]

\* The descriptor it issues next is the smallest it does not have out, and a
\* file just opened is read from its start.
FreshFile(v) == CHOOSE d \in 1 .. OpenFiles + 1 :
                d \notin DOMAIN v.e.at /\ \A c \in 1 .. d - 1 : c \in DOMAIN v.e.at

ProviderOpen(v, method) ==
    [v EXCEPT !.e.at = @ @@ (FreshFile(v) :> 0), !.e.changed = @ \/ method = "write"]
ProviderClose(v, descriptor) == [v EXCEPT !.e.at = Restrict(@, DOMAIN @ \ {descriptor})]

\* What an operation comes to: the volume is not attached when it opens or
\* when it acts, it refuses to open or fails, or it is done; a read may come
\* one cell short.
Rcs(method) ==
    CASE method = "readAt" -> {"ok", "short", "again", "fail"}
      [] method = "open" -> {"ok", "open again", "refused"}
      [] method \in {"read", "size", "write"} -> {"ok", "open again", "again", "refused", "fail"}
      [] OTHER -> {"ok"}

\* whole_file: read, size and write act; any other member is one this was
\* not written for.  A write's bytes are those of the staged payload.
WholeFile(v, method, request, rc) ==
    CASE method \notin {"read", "size", "write"} -> [v |-> v, done |-> "failed"]
      [] rc = "again" -> [v |-> v, done |-> "not yet"]
      [] rc = "fail"  -> [v |-> v, done |-> "failed"]
      [] OTHER -> [v |-> IF method = "write"
                         THEN [v EXCEPT !.e.mixed = @ \/ request # v.s.payload.request]
                         ELSE v,
                   done |-> "answered"]

\* Opened, acted on and closed, whatever became of it.
OpenAndAct(v, method, request, rc) ==
    LET act == WholeFile(ProviderOpen(v, method), method, request, rc)
    IN  [act EXCEPT !.v = ProviderClose(@, FreshFile(v))]

\* read_chunk through an open file: the provider reads on from where it is,
\* and the offset goes with it.
ReadThrough(v, request, slot, length, held, rc) ==
    LET file == v.s.files[slot]
        took == IF rc = "short" THEN length - 1 ELSE length
        data == [i \in 1 .. took |-> v.e.at[file.descriptor] + i]
    IN  FsTell([v EXCEPT !.e.at[file.descriptor] = @ + took, !.s.files[slot].offset = @ + took],
               Completion(request, "fulfilled", data)
                   @@ [file |-> file.opened, asked |-> v.s.payload.want, held |-> held])

----------------------------------------------------------------------------
(* Answering a call just taken.                                            *)

FsOpen(v, request, rc) ==
    LET free == {i \in 1 .. OpenFiles : ~v.s.files[i].live}
        slot == CHOOSE i \in free : \A j \in free : i <= j
        v1   == ProviderOpen(v, "open")
    IN  CASE rc = "open again" -> FsHolds(v, request, "open", 0)
          [] rc = "refused" -> FsReply(v, request, "Unavailable")
          [] rc = "ok" /\ free = {} ->
                FsReply(ProviderClose(v1, FreshFile(v)), request, "Busy")
          [] OTHER ->
                FsReply([v1 EXCEPT !.s.files[slot] =
                            [live |-> TRUE, descriptor |-> FreshFile(v), offset |-> 0, opened |-> request]],
                        request, "fulfilled")

FsWhole(v, request, method, rc) ==
    IF rc = "open again" THEN FsHolds(v, request, method, 0)
    ELSE IF rc = "refused" THEN FsReply(v, request, "Unavailable")
    ELSE LET act == OpenAndAct(v, method, request, rc)
         IN  CASE act.done = "answered" -> FsDone(act.v, request, method)
               [] act.done = "not yet"  -> FsHolds(act.v, request, method, 0)
               [] OTHER                 -> FsReply(act.v, request, "Internal")

\* readAt: no more than the call wants, and no more than a chunk.
Wanted(want) == IF want < PayloadCells THEN want ELSE PayloadCells

FsReadAt(v, request, rc) ==
    LET slot == v.s.payload.slot
    IN  CASE ~v.s.files[slot].live -> FsReply(v, request, "Malformed")
          [] rc = "again" -> FsHolds(v, request, "readAt", slot)
          [] rc = "fail"  -> FsReply(v, request, "Internal")
          [] OTHER -> ReadThrough(v, request, slot, Wanted(v.s.payload.want), FALSE, rc)

FsClose(v, request) ==
    LET slot == v.s.payload.slot
    IN  IF ~v.s.files[slot].live THEN FsReply(v, request, "Malformed")
        ELSE FsReply([ProviderClose(v, v.s.files[slot].descriptor) EXCEPT !.s.files[slot] = NoFile],
                     request, "fulfilled")

MayWrite(s, method) == method \in {"write", "delete"} => s.writable

FsAnswer(v, request, method, rc) ==
    LET asks == FsAsks(v, method, rc)
    IN  CASE Spent(v.s) \/ ~MayWrite(v.s, method) -> FsReply(v, request, "Denied")
          [] method = "readAt" ->
                FsReadAt(IF v.s.files[v.s.payload.slot].live THEN asks ELSE v, request, rc)
          [] method = "close"  -> FsClose(v, request)
          [] method \in {"list", "delete"} -> FsReply(v, request, "Malformed")
          [] ~Admits(v.s.payload.name) -> FsReply(v, request, "Denied")
          [] method = "open"   -> FsOpen(asks, request, rc)
          [] OTHER             -> FsWhole(asks, request, method, rc)

----------------------------------------------------------------------------
(* A step.                                                                 *)

\* A held call that owns no file is re-opened and acted on as the member it
\* was.
RetryWhole(v, held, rc) ==
    LET act == OpenAndAct(v, held.method, held.request, rc)
    IN  CASE rc = "open again" -> v
          [] rc = "refused" -> FsReply([v EXCEPT !.s.waiting = NoneHeld], held.request, "Unavailable")
          [] act.done = "not yet" -> act.v
          [] act.done = "answered" -> FsDone([act.v EXCEPT !.s.waiting = NoneHeld], held.request, held.method)
          [] OTHER -> FsReply([act.v EXCEPT !.s.waiting = NoneHeld], held.request, "Unavailable")

\* A held readAt reads through its file: a whole chunk, whatever it wanted.
RetryRead(v, held, rc) ==
    CASE rc = "again" -> v
      [] rc = "fail" \/ ~v.s.files[held.slot].live ->
            FsReply([v EXCEPT !.s.waiting = NoneHeld], held.request, "Unavailable")
      [] OTHER -> ReadThrough([v EXCEPT !.s.waiting = NoneHeld], held.request, held.slot, PayloadCells, TRUE, rc)

FsRetry(v, rc) ==
    LET held == v.s.waiting
        asks == FsAsks(v, held.method, rc)
    IN  CASE ~held.live -> v
          [] held.live /\ held.slot # 0 -> RetryRead(asks, held, rc)
          [] OTHER -> RetryWhole(asks, held, rc)

FsTakesWhileHeld(v) == calls # <<>> /\ Room(v.s, PayloadCells)
FsTakes(v) == calls # <<>> /\ ~v.s.waiting.live /\ Room(v.s, PayloadCells)

FsTaken(v, rc) ==
    IF ~FsTakes(v) THEN v
    ELSE FsAnswer([v EXCEPT !.s.payload = Head(calls)], Head(calls).request, Head(calls).method, rc)

FinishFs(s) == [s EXCEPT !.phase = IF hung /\ s.staged = <<>> THEN 1 ELSE @]

FsStep ==
    /\ state.phase = 0
    /\ \E rc1 \in IF state.waiting.live THEN Rcs(state.waiting.method) ELSE {"ok"},
          rc2 \in IF calls # <<>> THEN Rcs(Head(calls).method) ELSE {"ok"} :
          /\ {rc1, rc2} \cap {"open again", "again"} # {} => env.notyet < MaxAttach
          /\ LET a == FsRetry([s |-> state, e |-> env], rc1)
                 b == FsTaken(a, rc2)
             IN  /\ Pushing(b.s, FinishFs)
                 /\ calls' = IF FsTakes(a) THEN Tail(calls) ELSE calls
                 /\ env' = b.e
    /\ UNCHANGED <<made, hung>>

FsCalls ==
    [method : {"open", "read", "write"}, name : {"name"}, slot : {0}, want : {0}]
    \cup [method : {"size"}, name : {"name", "climbs"}, slot : {0}, want : {0}]
    \cup [method : {"readAt"}, name : {"digits"}, slot : 1 .. OpenFiles, want : {1, PayloadCells + 1}]
    \cup [method : {"close"}, name : {"digits"}, slot : 1 .. OpenFiles, want : {0}]
    \cup [method : {"list"}, name : {"none"}, slot : {0}, want : {0}]

FsNext == FsStep \/ MakeCall(FsCalls) \/ HangUp

----------------------------------------------------------------------------

\* Between steps the provider has out one descriptor for each file the table
\* holds and no other, at the offset the table says: a whole-file call leaves
\* none behind, whether it was answered, held, refused or retried, and a
\* close gives back the right one.
FilesKept ==
    LET live == {i \in 1 .. OpenFiles : state.files[i].live}
    IN  /\ DOMAIN env.at = {state.files[i].descriptor : i \in live}
        /\ Cardinality(DOMAIN env.at) = Cardinality(live)
        /\ \A i \in live : env.at[state.files[i].descriptor] = state.files[i].offset

\* A write puts down the bytes its own call carried, however often it was
\* held and asked again while other calls waited.
OwnBytesWritten == ~env.mixed

\* A deployment that admits no writing has none: neither a write nor the
\* retry of one creates a file.
ReadOnlyKept == ~state.writable => ~env.changed

\* What readAt answers through one opening of a file is the file from its
\* start, each answer going on where the last one ended, and no call has more
\* than it wanted unless it was held: then it has up to a whole chunk.
FsReadsGoOn ==
    LET through(opening) == SelectSeq(Told, LAMBDA c : c.file = opening)
        given(opening) == FlattenSeq([n \in DOMAIN through(opening) |-> through(opening)[n].data])
    IN  /\ \A opening \in 1 .. made : given(opening) = [n \in DOMAIN given(opening) |-> n]
        /\ \A c \in Range(Told) : Len(c.data) <= IF c.held THEN PayloadCells ELSE Wanted(c.asked)

\* A question the provider has not decided is asked again, for the same call
\* and member, before the provider is asked anything else.
FsAskedAgain == ~env.swapped

\* Past the quota every call is refused.
FsWithinQuota == WithinQuota(LAMBDA c : FALSE)
============================================================================
