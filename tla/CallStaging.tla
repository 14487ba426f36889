----------------------------- MODULE CallStaging ------------------------------
(***************************************************************************)
(* How a call and its arguments get from the program to the isolate's call *)
(* port: host_call and stage_payload of modules/common/vm/host.rs put a    *)
(* record in the outbox and its bytes in one buffer behind the others; at  *)
(* the end of a step modules/app/phasor_isolate stages both for the port;  *)
(* the next step adopts the machine it saved.                              *)
(*                                                                         *)
(* Bytes are cells that know the call they were written for, so a call     *)
(* that leaves with another's arguments is a state of the model.           *)
(***************************************************************************)
EXTENDS Integers, Sequences, FiniteSets

CONSTANTS
    OutboxCount,     \* PENDING_COUNT: calls outstanding, and records of the outbox
    PayloadBytes,    \* PAYLOAD_BYTES: the machine's buffer for arguments
    WireBuffer,      \* cells the port side stages: frames and what follows them
    PayloadLengths,  \* cells of arguments a call may carry
    MaxCalls         \* bound on the calls the program makes

CallStagingAssumption ==
    /\ OutboxCount \in Nat \ {0} /\ PayloadBytes \in Nat /\ WireBuffer \in Nat
    /\ PayloadLengths \subseteq Nat /\ MaxCalls \in Nat

ASSUME CallStagingConstants == CallStagingAssumption

Requests == 1 .. MaxCalls
Record   == [request : Requests, length : PayloadLengths]
Cell     == [request : Requests, length : PayloadLengths, at : Nat]

VARIABLES
    payloads,  \* the bytes of the buffer, those a step wrote and older ones
    payload_length, \* how many of them this step staged
    outbox,    \* the records the port side has not taken
    outstanding, \* the calls outstanding
    made,      \* calls begun so far, which number them
    stepping,  \* a step of the isolate has the machine
    ended,     \* a quota ended the task
    staged,    \* cells staged for the port
    written,   \* how many of them the port took
    sent,      \* history: the cells that left
    strained   \* history: a call was made within another's staging ("nested"),
               \* or waited past its step with arguments ("waited")

machine == <<payloads, payload_length, outbox, outstanding, made, ended>>
port    == <<staged, written, sent>>
svars   == <<machine, stepping, port, strained>>

StagingTypeOK ==
    /\ payloads \in Seq(Cell) /\ Len(payloads) <= PayloadBytes
    /\ payload_length \in 0 .. Len(payloads)
    /\ outbox \in Seq(Record) /\ Len(outbox) <= OutboxCount
    /\ outstanding \subseteq Requests /\ Cardinality(outstanding) <= OutboxCount
    /\ made \in 0 .. MaxCalls /\ stepping \in BOOLEAN /\ ended \in BOOLEAN
    /\ staged \in Seq(Cell) /\ Len(staged) <= WireBuffer
    /\ written \in 0 .. Len(staged) /\ sent \in Seq(Cell)
    /\ strained \subseteq {"nested", "waited"}

StagingInit ==
    /\ payloads = <<>> /\ payload_length = 0 /\ outbox = <<>> /\ outstanding = {}
    /\ made = 0 /\ stepping = FALSE /\ ended = FALSE
    /\ staged = <<>> /\ written = 0 /\ sent = <<>> /\ strained = {}

\* The cells of a record: its frame, which is cell 0, and its arguments.
CellAt(record, n) == [request |-> record.request, length |-> record.length, at |-> n]
Arguments(record) == [n \in 1 .. record.length |-> CellAt(record, n)]

\* Bytes written over a buffer from an offset on.
Overlay(buffer, start, bytes) ==
    [n \in 1 .. IF start + Len(bytes) > Len(buffer) THEN start + Len(bytes) ELSE Len(buffer)
        |-> IF n > start /\ n <= start + Len(bytes) THEN bytes[n - start] ELSE buffer[n]]

----------------------------------------------------------------------------
(* The program, in a step.                                                 *)

\* begin, and the record: with the table full the promise is rejected and no
\* record made, whatever was staged for it; a full outbox is a quota.
BeginCall(record) ==
    \/ /\ Cardinality(outstanding) = OutboxCount
       /\ UNCHANGED <<outbox, outstanding, made, ended>>
    \/ /\ Cardinality(outstanding) < OutboxCount
       /\ made' = made + 1
       /\ outstanding' = outstanding \cup {record.request}
       /\ outbox' = IF Len(outbox) < OutboxCount THEN Append(outbox, record) ELSE outbox
       /\ ended' = (Len(outbox) = OutboxCount)

\* A call whose arguments are plain: they go behind what is staged, or the task
\* is over its quota.
HostCall(length) ==
    LET record == [request |-> made + 1, length |-> length]
    IN  /\ stepping /\ ~ended /\ made < MaxCalls
        /\ \/ /\ payload_length + length > PayloadBytes
              /\ ended' = TRUE
              /\ UNCHANGED <<payloads, payload_length, outbox, outstanding, made>>
           \/ /\ payload_length + length <= PayloadBytes
              /\ payloads' = Overlay(payloads, payload_length, Arguments(record))
              /\ payload_length' = payload_length + length
              /\ BeginCall(record)
        /\ UNCHANGED <<stepping, port, strained>>

\* A call whose argument makes another call when it is read as text.  The outer
\* call has written its first cell and not moved payload_length, so the inner
\* one stages over it, is begun first, and the outer writes on over that.
HostCallReentrant(length, inner) ==
    LET i == [request |-> made + 1, length |-> inner]
        o == [request |-> made + 2, length |-> length]
        first == Overlay(payloads, payload_length, SubSeq(Arguments(o), 1, 1))
        second == Overlay(first, payload_length, Arguments(i))
    IN  /\ stepping /\ ~ended /\ made + 1 < MaxCalls
        /\ length > 0 /\ inner > 0
        /\ payload_length + length <= PayloadBytes
        /\ payload_length + inner <= PayloadBytes
        /\ Cardinality(outstanding) + 1 < OutboxCount /\ Len(outbox) + 1 < OutboxCount
        /\ payloads' = Overlay(second, payload_length + 1,
                               SubSeq(Arguments(o), 2, length))
        /\ payload_length' = payload_length + length
        /\ outbox' = outbox \o <<i, o>>
        /\ outstanding' = outstanding \cup {i.request, o.request}
        /\ made' = made + 2
        /\ strained' = strained \cup {"nested"}
        /\ UNCHANGED <<ended, stepping, port>>

----------------------------------------------------------------------------
(* The isolate, around the program.                                        *)

\* A step adopts the machine: the outbox is as it was saved, and the buffer of
\* arguments is attached afresh.
BeginStep ==
    /\ ~stepping /\ ~ended
    /\ stepping' = TRUE
    /\ payload_length' = 0
    /\ UNCHANGED <<payloads, outbox, outstanding, made, ended, port, strained>>

\* An answer, or a timeout, before the program runs or after it did.
CompleteCall(request) ==
    /\ ~stepping
    /\ outstanding' = outstanding \ {request}
    /\ UNCHANGED <<payloads, payload_length, outbox, made, ended, stepping, port, strained>>

Offset(n) ==
    LET before[k \in 1 .. Len(outbox)] ==
            IF k = 1 THEN 0 ELSE before[k - 1] + outbox[k - 1].length
    IN  before[n]

\* The records whose bytes are all there, up to the first that lacks some.
Carried ==
    {n \in 1 .. Len(outbox) :
        \A k \in 1 .. n : Offset(k) + outbox[k].length <= payload_length}

Needed == IF outbox = <<>> THEN 0
          ELSE Len(outbox) + Offset(Len(outbox)) + outbox[Len(outbox)].length

\* A frame and the bytes at its place in the buffer.
CarriedCells(n) ==
    <<CellAt(outbox[n], 0)>> \o SubSeq(payloads, Offset(n) + 1, Offset(n) + outbox[n].length)

Staging ==
    LET upto[n \in 0 .. Len(outbox)] ==
            IF n = 0 THEN <<>>
            ELSE upto[n - 1] \o (IF n \in Carried THEN CarriedCells(n) ELSE <<>>)
    IN  upto[Len(outbox)]

\* Room on the port side for all of the frames and what follows them.
Fits == Len(staged) + Needed <= WireBuffer

EndStepDropping ==
    /\ stepping /\ ~ended
    /\ stepping' = FALSE
    /\ staged' = IF Fits THEN staged \o Staging ELSE staged
    /\ outbox' = <<>>
    /\ payload_length' = 0
    /\ UNCHANGED <<payloads, outstanding, made, ended, written, sent, strained>>

\* The end of a step: all the records leave for the port, or none does.
EndStep ==
    /\ stepping /\ ~ended
    /\ stepping' = FALSE
    /\ \/ /\ outbox # <<>> /\ Fits
          /\ staged' = staged \o Staging
          /\ outbox' = <<>>
          /\ payload_length' = 0
          /\ UNCHANGED strained
       \/ /\ outbox = <<>> \/ ~Fits
          /\ strained' = IF \E n \in 1 .. Len(outbox) : outbox[n].length > 0
                         THEN strained \cup {"waited"} ELSE strained
          /\ UNCHANGED <<staged, outbox, payload_length>>
    /\ UNCHANGED <<payloads, outstanding, made, ended, written, sent>>

\* push_staged: the port takes some of what is staged, and once it took all the
\* buffer is free again.
PushCalls(n) ==
    /\ ~stepping
    /\ n \in 1 .. Len(staged) - written
    /\ sent' = sent \o SubSeq(staged, written + 1, written + n)
    /\ staged' = IF written + n = Len(staged) THEN <<>> ELSE staged
    /\ written' = IF written + n = Len(staged) THEN 0 ELSE written + n
    /\ UNCHANGED <<machine, stepping, strained>>

StagingNext ==
    \/ \E n \in PayloadLengths : HostCall(n)
    \/ \E n, k \in PayloadLengths : HostCallReentrant(n, k)
    \/ BeginStep
    \/ \E q \in outstanding : CompleteCall(q)
    \/ EndStep
    \/ \E n \in 1 .. WireBuffer : PushCalls(n)

StagingSpec == StagingInit /\ [][StagingNext]_svars

----------------------------------------------------------------------------
Carriage == sent \o SubSeq(staged, written + 1, Len(staged))

\* A call leaves with its own arguments behind it: every frame on the port is
\* followed by the cells its call wrote, all of them and in order, and then by
\* another frame, unless a call was made within another's staging or waited
\* with arguments.
ArgumentsFollow ==
    strained = {} =>
        \A n \in 1 .. Len(Carriage) :
            LET cell == Carriage[n]
            IN  /\ n = 1 => cell.at = 0
                /\ n < Len(Carriage) =>
                      IF cell.at < cell.length
                      THEN Carriage[n + 1] = [cell EXCEPT !.at = @ + 1]
                      ELSE Carriage[n + 1].at = 0

Frames(q) == {n \in 1 .. Len(Carriage) : Carriage[n].request = q /\ Carriage[n].at = 0}
Waiting(q) == {n \in 1 .. Len(outbox) : outbox[n].request = q}

Once == \A q \in 1 .. made : Cardinality(Frames(q)) + Cardinality(Waiting(q)) = 1

\* A record is carried exactly once: every call that was begun waits in the
\* outbox or is on the port, one of the two and once, while the task goes on
\* and neither strain has happened; calls without arguments wait as often as
\* they must.
CarriedOnce == ~ended /\ strained = {} => Once

\* No buffer of host_call, stage_payload or the port side is overrun, a record
\* leaves once, and its own arguments leave behind it.
CarriedWithArguments == StagingTypeOK /\ CarriedOnce /\ ArgumentsFollow
============================================================================
