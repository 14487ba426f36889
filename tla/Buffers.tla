------------------------------- MODULE Buffers -------------------------------
(***************************************************************************)
(* ArrayBuffers and the typed arrays over them (vm/buffers.rs).  A buffer  *)
(* is an array of bytes that may be resized up to its maximum or be        *)
(* immutable; a view has an offset, an element size and either a fixed     *)
(* element count or none, which tracks the buffer.  Turning an argument    *)
(* into a number runs the program's valueOf, which may resize the buffer   *)
(* or make views in the middle of the operation: an operation that does so *)
(* is two steps here, and what it read in the first it still has in the    *)
(* second.                                                                 *)
(***************************************************************************)
EXTENDS Naturals, Sequences

CONSTANTS
    Stores,      \* the buffers and views a program may start with
    Numbers,     \* the numbers it writes
    Sizes,       \* BYTES_PER_ELEMENT of the kinds it uses
    MaxBytes,    \* the longest buffer it asks for
    MaxBuffers, MaxViews,
    MaxNested,   \* bound: operations under way at once
    MaxBegun     \* bound: operations of a behaviour

VARIABLE m

Base == 256
Tracking == <<>>
Fixed(n) == <<n>>

Buffer(bytes, max, immutable) == [bytes |-> bytes, max |-> max, immutable |-> immutable]
View(buffer, size, offset, fixed) ==
    [buffer |-> buffer, size |-> size, offset |-> offset, fixed |-> fixed]

Zeros(n) == [i \in 1 .. n |-> 0]

(* typed_array_length: <<count>>, or nothing where the buffer has shrunk   *)
(* out from under the view.                                                *)
TypedArrayLength(v) ==
    LET available == Len(m.buffers[v.buffer].bytes)
    IN  CASE v.offset > available -> <<>>
          [] v.offset <= available /\ v.fixed = Tracking -> <<(available - v.offset) \div v.size>>
          [] OTHER -> IF v.offset + v.fixed[1] * v.size > available THEN <<>> ELSE v.fixed

Count(v) == IF TypedArrayLength(v) = <<>> THEN 0 ELSE TypedArrayLength(v)[1]

(* The byte of element `index` that number n puts at position k, the least *)
(* significant first.                                                      *)
ByteOf(n, k) == (n \div Base ^ k) % Base

Written(bytes, v, index, n) ==
    LET start == v.offset + index * v.size
    IN  [i \in 1 .. Len(bytes) |->
            IF i > start /\ i <= start + v.size THEN ByteOf(n, i - start - 1) ELSE bytes[i]]

(* A write that trusts a count taken earlier: set_element makes the bytes  *)
(* longer where they have become too short.                                *)
WrittenPast(bytes, v, index, n) ==
    LET start == v.offset + index * v.size
        end == IF start + v.size > Len(bytes) THEN start + v.size ELSE Len(bytes)
    IN  [i \in 1 .. end |->
            IF i > start /\ i <= start + v.size THEN ByteOf(n, i - start - 1)
            ELSE IF i <= Len(bytes) THEN bytes[i] ELSE 0]

(* typed_array_read of an index in bounds.                                 *)
TypedArrayRead(v, index) ==
    LET bytes == m.buffers[v.buffer].bytes
        start == v.offset + index * v.size
        value[k \in 0 .. v.size] ==
            IF k = 0 THEN 0 ELSE value[k - 1] + bytes[start + k] * Base ^ (k - 1)
    IN  value[v.size]

StoreUnchecked(buffers, v, index, n) ==
    [buffers EXCEPT ![v.buffer].bytes = WrittenPast(@, v, index, n)]

(* The end of typed_array_write: stored if the index is in bounds now.     *)
Store(buffers, v, index, n) ==
    IF index < Count(v) THEN [buffers EXCEPT ![v.buffer].bytes = Written(@, v, index, n)]
    ELSE buffers

(***************************************************************************)
(* Operations under way, the innermost last.                               *)
(***************************************************************************)
Top == m.stack[Len(m.stack)]

Under(op) == m.stack # <<>> /\ Top.op = op

Push(op) == m' = [m EXCEPT !.stack = Append(@, op), !.begun = @ + 1]

Popped == SubSeq(m.stack, 1, Len(m.stack) - 1)

Begins == m.begun < MaxBegun

Enters == Begins /\ Len(m.stack) < MaxNested

Views == {m.views[i] : i \in 1 .. Len(m.views)}

Init == \E s \in Stores : m = [buffers |-> s.buffers, views |-> s.views, stack |-> <<>>,
                              begun |-> 0]

(* typed_array_write: immutable bytes refuse before the value is converted. *)
Write(v, index, n) ==
    /\ Enters
    /\ ~m.buffers[v.buffer].immutable
    /\ Push([op |-> "write", view |-> v, index |-> index, value |-> n])

FinishWrite ==
    /\ Under("write")
    /\ m' = [m EXCEPT !.buffers = Store(@, Top.view, Top.index, Top.value), !.stack = Popped]

(* TYPED_ARRAY_FILL: the count is taken before the value, the start and    *)
(* the end are converted; every element is then a write of its own.        *)
Fill(v, n) ==
    /\ Enters
    /\ Push([op |-> "fill", view |-> v, index |-> Count(v), value |-> n])

FinishFill(start, end) ==
    /\ Under("fill")
    /\ end <= Top.index
    /\ m' = [m EXCEPT !.stack = Popped,
                      !.buffers = IF m.buffers[Top.view.buffer].immutable THEN @
                                  ELSE LET filled[i \in 0 .. MaxBytes] ==
                                               IF i = 0 THEN m.buffers
                                               ELSE IF i > start /\ i <= end
                                               THEN Store(filled[i - 1], Top.view, i - 1, Top.value)
                                               ELSE filled[i - 1]
                                       IN  filled[MaxBytes]]

(* TYPED_ARRAY_SET from an array: room is checked once, then element after *)
(* element is read and written, each running the program's code.           *)
Set(v, at, count) ==
    /\ Enters
    /\ at + count <= Count(v)
    /\ Push([op |-> "set", view |-> v, index |-> at, end |-> at + count])

SetOne(n) ==
    /\ Under("set")
    /\ LET done == Top.index = Top.end \/ m.buffers[Top.view.buffer].immutable
       IN  m' = IF done THEN [m EXCEPT !.stack = Popped]
                ELSE [m EXCEPT !.buffers = Store(@, Top.view, Top.index, n),
                               !.stack[Len(m.stack)].index = @ + 1]

(* TYPED_ARRAY_SET from another typed array: nothing of the program runs.  *)
SetFrom(v, source, at) ==
    /\ Begins
    /\ at + Count(source) <= Count(v)
    /\ ~m.buffers[v.buffer].immutable
    /\ v.buffer # source.buffer
    /\ LET set[i \in 0 .. MaxBytes] ==
               IF i = 0 THEN m.buffers
               ELSE IF i <= Count(source)
               THEN Store(set[i - 1], v, at + i - 1, TypedArrayRead(source, i - 1))
               ELSE set[i - 1]
       IN  m' = [m EXCEPT !.buffers = set[MaxBytes], !.begun = @ + 1]

(* ARRAY_BUFFER_RESIZE and array_buffer_resize.                            *)
Resize(b) ==
    /\ Enters
    /\ ~m.buffers[b].immutable
    /\ m.buffers[b].max # Tracking
    /\ Push([op |-> "resize", buffer |-> b])

Resized(bytes, wanted) ==
    IF wanted <= Len(bytes) THEN SubSeq(bytes, 1, wanted)
    ELSE bytes \o Zeros(wanted - Len(bytes))

FinishResize(wanted) ==
    /\ Under("resize")
    /\ m' = [m EXCEPT !.stack = Popped,
                      !.buffers[Top.buffer].bytes =
                          IF wanted > m.buffers[Top.buffer].max[1] THEN @ ELSE Resized(@, wanted)]

(***************************************************************************)
(* Making views and buffers.                                               *)
(***************************************************************************)
MakeTypedArray(s, v) == [s EXCEPT !.views = Append(@, v)]

HasRoom == Len(m.views) < MaxViews

(* construct_typed_array over a buffer, no length given: fixed over a      *)
(* fixed buffer, tracking over a resizable one.                            *)
ConstructWhole(b, size, offset) ==
    LET available == Len(m.buffers[b].bytes)
        fixed == m.buffers[b].max = Tracking
    IN  /\ Begins /\ HasRoom
        /\ offset % size = 0 /\ offset <= available
        /\ fixed => (available - offset) % size = 0
        /\ m' = MakeTypedArray([m EXCEPT !.begun = @ + 1], View(b, size, offset,
                    IF fixed THEN Fixed((available - offset) \div size) ELSE Tracking))

(* With a length: the bytes available are taken before it is converted.    *)
Construct(b, size, offset) ==
    /\ Enters /\ HasRoom
    /\ offset % size = 0
    /\ Push([op |-> "construct", view |-> View(b, size, offset, Tracking),
             index |-> Len(m.buffers[b].bytes)])

FinishConstruct(count) ==
    /\ Under("construct")
    /\ LET v == Top.view
           done == [m EXCEPT !.stack = Popped]
       IN  m' = IF v.offset + count * v.size > Top.index \/ ~HasRoom THEN done
                ELSE MakeTypedArray(done, [v EXCEPT !.fixed = Fixed(count)])

(* construct_typed_array over a typed array or a length: a buffer of its   *)
(* own.                                                                    *)
ConstructCopy(source, size) ==
    /\ Begins /\ HasRoom /\ Len(m.buffers) < MaxBuffers
    /\ LET n == Count(source)
           own == Len(m.buffers) + 1
           fresh == Append(m.buffers, Buffer(Zeros(n * size), Tracking, FALSE))
           copied[i \in 0 .. MaxBytes] ==
               IF i = 0 THEN fresh
               ELSE IF i <= n
               THEN [copied[i - 1] EXCEPT ![own].bytes =
                        Written(@, View(own, size, 0, Fixed(n)), i - 1, TypedArrayRead(source, i - 1))]
               ELSE copied[i - 1]
       IN  m' = MakeTypedArray([m EXCEPT !.buffers = copied[MaxBytes], !.begun = @ + 1],
                               View(own, size, 0, Fixed(n)))

(* TYPED_ARRAY_SUBARRAY: the count is taken before its bounds are          *)
(* converted; a view that tracks gives one that does where no end is asked. *)
Subarray(v) ==
    /\ Enters /\ HasRoom
    /\ Push([op |-> "subarray", view |-> v, index |-> Count(v)])

FinishSubarray(begin, ends, end) ==
    /\ Under("subarray")
    /\ begin <= Top.index /\ end <= Top.index
    /\ LET v == Top.view
           done == [m EXCEPT !.stack = Popped]
           fixed == IF v.fixed = Tracking /\ ~ends THEN Tracking
                    ELSE Fixed(IF end < begin THEN 0 ELSE end - begin)
       IN  m' = IF ~HasRoom THEN done
                ELSE MakeTypedArray(done, View(v.buffer, v.size, v.offset + begin * v.size, fixed))

(* array_buffer_transfer_to_immutable: the old buffer keeps its bytes.     *)
TransferToImmutable(b) ==
    /\ Begins /\ Len(m.buffers) < MaxBuffers
    /\ m' = [m EXCEPT !.buffers = Append(@, Buffer(m.buffers[b].bytes, Tracking, TRUE)),
                      !.begun = @ + 1]

Next ==
    \/ \E v \in Views, index \in 0 .. MaxBytes, n \in Numbers : Write(v, index, n)
    \/ FinishWrite
    \/ \E v \in Views, n \in Numbers : Fill(v, n)
    \/ \E start, end \in 0 .. MaxBytes : FinishFill(start, end)
    \/ \E v \in Views, at, count \in 0 .. MaxBytes : Set(v, at, count)
    \/ \E n \in Numbers : SetOne(n)
    \/ \E v, source \in Views, at \in 0 .. MaxBytes : SetFrom(v, source, at)
    \/ \E b \in 1 .. Len(m.buffers) : Resize(b)
    \/ \E wanted \in 0 .. MaxBytes + 1 : FinishResize(wanted)
    \/ \E b \in 1 .. Len(m.buffers), size \in Sizes, offset \in 0 .. MaxBytes :
           ConstructWhole(b, size, offset)
    \/ \E b \in 1 .. Len(m.buffers), size \in Sizes, offset \in 0 .. MaxBytes :
           Construct(b, size, offset)
    \/ \E count \in 0 .. MaxBytes : FinishConstruct(count)
    \/ \E source \in Views, size \in Sizes : ConstructCopy(source, size)
    \/ \E v \in Views : Subarray(v)
    \/ \E begin, end \in 0 .. MaxBytes, ends \in BOOLEAN : FinishSubarray(begin, ends, end)
    \/ \E b \in 1 .. Len(m.buffers) : TransferToImmutable(b)

Spec == Init /\ [][Next]_m

-----------------------------------------------------------------------------
(* The bytes a view may touch now.                                         *)
Extent(v) == (v.offset + 1) .. (v.offset + Count(v) * v.size)

Changed(b) ==
    {i \in 1 .. Len(m.buffers[b].bytes) :
        i \in 1 .. Len(m'.buffers[b].bytes) /\ m'.buffers[b].bytes[i] # m.buffers[b].bytes[i]}

(* The view an operation that is finished writes through; one that begins  *)
(* and writes in the same step may have any.                               *)
Through == IF m'.begun = m.begun THEN {Top.view} ELSE Views

(* Whatever valueOf did between the checks of an operation and its writes, *)
(* a byte changes only inside the view written through as that view stands *)
(* now, and only a resize makes a buffer longer or shorter                 *)
(* (typed_array_write).                                                    *)
WritesInsideViews ==
    \A b \in 1 .. Len(m.buffers) :
        /\ \A i \in Changed(b) : \E v \in Through : v.buffer = b /\ i \in Extent(v)
        /\ Len(m'.buffers[b].bytes) # Len(m.buffers[b].bytes) => Under("resize")

(* An immutable buffer's bytes never change again, through a view made     *)
(* before or after, or an operation begun on another buffer                *)
(* (array_buffer_transfer_to_immutable).                                   *)
ImmutableKept ==
    \A b \in 1 .. Len(m.buffers) : m.buffers[b].immutable => m'.buffers[b] = m.buffers[b]

(* A resize keeps the bytes that stay and gives back none that went: "the  *)
(* bytes grow with zeros or shrink, within the maximum the buffer was made *)
(* with" (array_buffer_resize).                                            *)
ResizeKeeps ==
    \A b \in 1 .. Len(m.buffers) :
        LET was == m.buffers[b].bytes
            is == m'.buffers[b].bytes
        IN  Len(is) # Len(was) =>
                /\ Len(is) <= m.buffers[b].max[1]
                /\ \A i \in 1 .. Len(is) : is[i] = IF i <= Len(was) THEN was[i] ELSE 0
=============================================================================
