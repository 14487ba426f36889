-------------------------------- MODULE Heap --------------------------------
(***************************************************************************)
(* The isolate heap (modules/common/heap.rs) and its collection driver     *)
(* (modules/common/gc.rs): cells in one arena, addressed through a table   *)
(* of slots whose generations tell a stale handle from a live one, and a   *)
(* mark-compact collection that runs in slices.                            *)
(*                                                                         *)
(* The arena is known by its cell headers: what lies at an aligned address *)
(* is the cell whose header was written there last, with the handles its   *)
(* payload holds, or bytes that are no header.  A slice is so many turns   *)
(* of the loop of marking or of compacting; nothing else of the heap runs  *)
(* between two slices, so a turn is an action and the budget, which only   *)
(* says where a slice ends, is left out.                                   *)
(***************************************************************************)
EXTENDS Integers, FiniteSets, FiniteSetsExt

CONSTANTS
    SlotCount,      \* entries of the handle table
    ArenaSize,      \* bytes of the arena
    CellHeader,     \* CELL_HEADER, which is also what cells are aligned to
    Lengths,        \* lengths a cell is allocated with
    WorklistSize,   \* entries of the worklist
    MaxGeneration,  \* u32::MAX, where a generation stays
    MaxRefs,        \* bound on the handles a cell holds
    MaxCells,       \* bound on the cells allocated, which numbers them
    MaxRetires      \* bound on the slots retired by hand

HeapAssumption ==
    /\ SlotCount \in Nat /\ WorklistSize \in Nat /\ MaxGeneration \in Nat \ {0}
    /\ CellHeader \in Nat \ {0} /\ Lengths \subseteq Nat
    /\ ArenaSize \in Nat /\ ArenaSize % CellHeader = 0
    /\ {MaxRefs, MaxCells, MaxRetires} \subseteq Nat

ASSUME HeapConstants == HeapAssumption

Indices   == 0 .. SlotCount - 1
Marks     == {"WHITE", "GREY", "BLACK"}
Kinds     == {"Free", "Cell"}
Handles   == [index : Indices, generation : 1 .. MaxGeneration]
Addresses == {a \in 0 .. ArenaSize - 1 : a % CellHeader = 0}
Slots     == [offset : 0 .. ArenaSize, length : Lengths \cup {0},
              generation : 1 .. MaxGeneration, kind : Kinds, mark : Marks]
Cells     == [index : Indices, length : Lengths, cell : 1 .. MaxCells,
              refs : SUBSET Handles]
NoHeader  == [index |-> -1, length |-> 0, cell |-> 0, refs |-> {}]

VARIABLES
    arena,         \* what lies at each aligned address
    slots,         \* the handle table
    worklist,      \* the grey slots it lists, in whichever order they are taken
    used,          \* bytes of the arena in use
    live,          \* the count of live cells
    free_hint,     \* where the search for a free slot starts
    phase,         \* "Idle", "Marking" or "Compacting"
    compact_read,  \* where the compactor has reached, reading
    compact_write, \* and writing
    roots,         \* the handles the machine holds
    issued,        \* history: the handle each cell was given
    retired        \* history: how many slots were retired by hand

heap == <<arena, slots, worklist, used, live, free_hint, phase,
          compact_read, compact_write>>
vars == <<heap, roots, issued, retired>>

TypeOK ==
    /\ arena \in [Addresses -> Cells \cup {NoHeader}]
    /\ slots \in [Indices -> Slots]
    /\ worklist \subseteq Indices /\ Cardinality(worklist) <= WorklistSize
    /\ used \in 0 .. ArenaSize /\ live \in 0 .. SlotCount
    /\ free_hint \in 0 .. SlotCount
    /\ phase \in {"Idle", "Marking", "Compacting"}
    /\ compact_read \in 0 .. ArenaSize /\ compact_write \in 0 .. compact_read
    /\ roots \subseteq Handles
    /\ issued \in [1 .. MaxCells -> Handles \cup {NoHeader}]
    /\ retired \in 0 .. MaxRetires

\* with_worklist: a table of free slots over an arena nothing was written to.
Init ==
    /\ arena = [a \in Addresses |-> NoHeader]
    /\ slots = [i \in Indices |-> [offset |-> 0, length |-> 0, generation |-> 1,
                                   kind |-> "Free", mark |-> "WHITE"]]
    /\ worklist = {} /\ used = 0 /\ live = 0 /\ free_hint = 0
    /\ phase = "Idle" /\ compact_read = 0 /\ compact_write = 0
    /\ roots = {} /\ issued = [c \in 1 .. MaxCells |-> NoHeader] /\ retired = 0

----------------------------------------------------------------------------
Align(n) == ((n + CellHeader - 1) \div CellHeader) * CellHeader
Advance(generation) == IF generation < MaxGeneration THEN generation + 1 ELSE generation

InUse       == {i \in Indices : slots[i].kind # "Free"}
Marked(c)   == {i \in Indices : slots[i].mark = c}
Resolves(h) == slots[h.index].kind # "Free" /\ slots[h.index].generation = h.generation
CellOf(i)   == arena[slots[i].offset - CellHeader]

\* The arena after n bytes were written from address a on: no header that lay
\* there is one any more, and c is the one at a.
Written(a, n, c) ==
    [b \in Addresses |-> IF b = a THEN c
                         ELSE IF b \in a .. a + n - 1 THEN NoHeader ELSE arena[b]]

\* take_slot: the first free slot from the hint on, round the table's end.
FirstFree ==
    LET distance(i) == (i - free_hint) % SlotCount
    IN  CHOOSE i \in Indices \ InUse :
            \A j \in Indices \ InUse : distance(i) <= distance(j)

\* note_free: a slot freed below the hint pulls it back.
NoteFree(i) == IF i < free_hint THEN i ELSE free_hint

\* What freeing leaves of a slot.
Freed(slot) ==
    [slot EXCEPT !.kind = "Free", !.length = 0, !.generation = Advance(@)]

----------------------------------------------------------------------------
(* The machine's use of the heap, while no collection is open.             *)

NextCell == Cardinality({c \in DOMAIN issued : issued[c] # NoHeader}) + 1

AllocateTo(length, end) ==
    LET header == Align(used)
        i == FirstFree
        h == [index |-> i, generation |-> slots[i].generation]
    IN  /\ phase = "Idle" /\ InUse # Indices /\ NextCell <= MaxCells
        /\ slots' = [slots EXCEPT ![i].offset = header + CellHeader, ![i].length = length,
                                  ![i].kind = "Cell", ![i].mark = "WHITE"]
        /\ arena' = Written(header, CellHeader + length,
                            [index |-> i, length |-> length, cell |-> NextCell, refs |-> {}])
        /\ used' = end /\ live' = live + 1 /\ free_hint' = i + 1
        /\ roots' = roots \cup {h}
        /\ issued' = [issued EXCEPT ![NextCell] = h]
        /\ UNCHANGED <<worklist, phase, compact_read, compact_write, retired>>

\* allocate: past the arena's end, with every slot in use or while a collection
\* is open it is refused and changes nothing.
Allocate(length) ==
    /\ Align(used) + CellHeader + length <= ArenaSize
    /\ AllocateTo(length, Align(used) + CellHeader + length)

\* A write through cell_mut of handles the machine holds.  The machine runs
\* only while no collection is open.
Store(h, refs) ==
    /\ phase = "Idle" /\ h \in roots /\ Resolves(h) /\ refs # CellOf(h.index).refs
    /\ arena' = [arena EXCEPT ![slots[h.index].offset - CellHeader].refs = refs]
    /\ UNCHANGED <<slots, worklist, used, live, free_hint, phase, compact_read,
                   compact_write, roots, issued, retired>>

\* A read through cell of a handle, and a handle that is let go.
Load(h) ==
    /\ phase = "Idle" /\ h \in roots /\ Resolves(h)
    /\ \E k \in CellOf(h.index).refs : k \notin roots /\ roots' = roots \cup {k}
    /\ UNCHANGED <<heap, issued, retired>>

Drop(h) ==
    /\ phase = "Idle" /\ h \in roots
    /\ roots' = roots \ {h}
    /\ UNCHANGED <<heap, issued, retired>>

\* retire: by the handle's generation alone.
Retire(h) ==
    /\ phase = "Idle" /\ h \in roots /\ slots[h.index].generation = h.generation
    /\ slots' = [slots EXCEPT ![h.index] = Freed(@)]
    /\ live' = Max({live - 1, 0})
    /\ free_hint' = NoteFree(h.index)
    /\ retired < MaxRetires /\ retired' = retired + 1
    /\ UNCHANGED <<arena, worklist, used, phase, compact_read, compact_write,
                   roots, issued>>

----------------------------------------------------------------------------
(* A collection.                                                           *)

\* shade, for some handles at once: each white cell they name turns grey, and
\* the worklist lists as many of them as it has room for.
Shade(handles, table, listed) ==
    LET fresh == {i \in Indices : \E h \in handles :
                     /\ h.index = i /\ table[i].generation = h.generation
                     /\ table[i].kind # "Free" /\ table[i].mark = "WHITE"}
    IN  /\ slots' = [i \in Indices |->
                        IF i \in fresh THEN [table[i] EXCEPT !.mark = "GREY"] ELSE table[i]]
        /\ \E t \in kSubset(Min({Cardinality(fresh), WorklistSize - Cardinality(listed)}), fresh) :
              worklist' = listed \cup t

BeginCollectionUnwhitened ==
    /\ phase = "Idle"
    /\ phase' = "Marking"
    /\ Shade(roots, slots, {})
    /\ UNCHANGED <<arena, used, live, free_hint, compact_read, compact_write, roots,
                   issued, retired>>

\* begin_collection: every mark is cleared and the roots are shaded.
BeginCollection ==
    /\ phase = "Idle"
    /\ phase' = "Marking"
    /\ Shade(roots, [i \in Indices |-> [slots[i] EXCEPT !.mark = "WHITE"]], {})
    /\ UNCHANGED <<arena, used, live, free_hint, compact_read, compact_write, roots,
                   issued, retired>>

GreyListed == worklist \cap Marked("GREY")

\* next_grey: a grey slot the worklist lists; with none listed, the first that
\* is found in the table.
NextGrey ==
    IF GreyListed # {} THEN GreyListed
    ELSE {i \in Marked("GREY") : \A j \in Marked("GREY") : i <= j}

VisitStaysGrey(i) ==
    /\ phase = "Marking" /\ i \in NextGrey
    /\ Shade(CellOf(i).refs, slots, worklist)
    /\ UNCHANGED <<arena, used, live, free_hint, phase, compact_read, compact_write,
                   roots, issued, retired>>

\* A turn of marking: the cell turns black, and what it holds is shaded.
Visit(i) ==
    /\ phase = "Marking" /\ i \in NextGrey
    /\ Shade(CellOf(i).refs, [slots EXCEPT ![i].mark = "BLACK"], worklist \ {i})
    /\ UNCHANGED <<arena, used, live, free_hint, phase, compact_read, compact_write,
                   roots, issued, retired>>

BeginCompactionListed ==
    /\ phase = "Marking" /\ GreyListed = {}
    /\ phase' = "Compacting" /\ compact_read' = 0 /\ compact_write' = 0
    /\ worklist' = {}
    /\ UNCHANGED <<arena, slots, used, live, free_hint, roots, issued, retired>>

\* begin_compaction, when no grey slot is left.
BeginCompaction ==
    /\ phase = "Marking" /\ NextGrey = {}
    /\ phase' = "Compacting" /\ compact_read' = 0 /\ compact_write' = 0
    /\ worklist' = {}
    /\ UNCHANGED <<arena, slots, used, live, free_hint, roots, issued, retired>>

\* A turn of compact_step.  The cell at compact_read is live if the slot its
\* header names is in use, was reached and points here; then it moves down.
CompactLive(c) ==
    /\ arena' = IF compact_write = compact_read THEN arena
                ELSE Written(compact_write, CellHeader + c.length, c)
    /\ slots' = [slots EXCEPT ![c.index].offset = compact_write + CellHeader]
    /\ compact_write' = compact_write + Align(CellHeader + c.length)
    /\ UNCHANGED <<live, free_hint>>

\* Otherwise it is left behind, and that slot is freed if it is in use.
CompactDead(c) ==
    /\ IF c.index \in InUse
       THEN /\ slots' = [slots EXCEPT ![c.index] = Freed(@)]
            /\ live' = Max({live - 1, 0})
            /\ free_hint' = NoteFree(c.index)
       ELSE UNCHANGED <<slots, live, free_hint>>
    /\ UNCHANGED <<arena, compact_write>>

CompactCell ==
    /\ phase = "Compacting" /\ compact_read < used
    /\ LET c == arena[compact_read]
           isLive == /\ c.index \in InUse /\ slots[c.index].mark = "BLACK"
                     /\ slots[c.index].offset = compact_read + CellHeader
       IN  /\ IF isLive THEN CompactLive(c) ELSE CompactDead(c)
           /\ compact_read' = compact_read + Align(CellHeader + c.length)
    /\ UNCHANGED <<worklist, used, phase, roots, issued, retired>>

FinishCompaction ==
    /\ phase = "Compacting" /\ compact_read >= used
    /\ used' = compact_write /\ phase' = "Idle" /\ worklist' = {}
    /\ UNCHANGED <<arena, slots, live, free_hint, compact_read, compact_write,
                   roots, issued, retired>>

Collect == (\E i \in Indices : Visit(i)) \/ BeginCompaction \/ CompactCell \/ FinishCompaction

Next ==
    \/ \E n \in Lengths : Allocate(n)
    \/ \E h \in roots : \/ \E refs \in SUBSET roots :
                              Cardinality(refs) <= MaxRefs /\ Store(h, refs)
                        \/ Load(h) \/ Drop(h) \/ Retire(h)
    \/ BeginCollection
    \/ Collect

\* collect_slice is called until the collection is over (continue_collection).
Spec == Init /\ [][Next]_vars /\ WF_vars(Collect)

----------------------------------------------------------------------------
\* Below the saturation of its slot's generation, a handle that resolves names
\* the cell it was issued for, wherever allocation and compaction put others:
\* a stale handle names nothing.
HandleNamesItsCell ==
    \A n \in 1 .. MaxCells :
        LET h == issued[n]
        IN  h # NoHeader /\ h.generation < MaxGeneration /\ Resolves(h) =>
                /\ CellOf(h.index).cell = n /\ CellOf(h.index).index = h.index
                /\ CellOf(h.index).length = slots[h.index].length

\* What the machine can reach, in as many loads as there are slots.
ReachableIn[n \in Nat] ==
    IF n = 0 THEN roots
    ELSE ReachableIn[n - 1] \cup
         UNION {CellOf(h.index).refs : h \in {k \in ReachableIn[n - 1] : Resolves(k)}}
Reachable == ReachableIn[SlotCount]

\* Whatever the machine can reach is there, before, during and after a
\* collection, though the worklist overflowed and cells moved over one another
\* (a slot retired by hand is the machine's own doing).
ReachableKept == retired = 0 => \A h \in Reachable : Resolves(h)

\* The count that stands for a walk of the table is what the walk would count,
\* and the search for a free slot starts past none.
CountsAgree ==
    (\A i \in Indices : slots[i].generation < MaxGeneration) =>
        /\ live = Cardinality(InUse)
        /\ \A i \in Indices : i < free_hint => i \in InUse

\* The slots, the headers and the counts agree, no handle names another's cell,
\* and what the machine can reach is there, whatever heap.rs moves or frees.
CellsKept == TypeOK /\ CountsAgree /\ HandleNamesItsCell /\ ReachableKept

\* A collection leaves nothing that cannot be reached, and no gap: the slots in
\* use are those of reachable cells, and what is used of the arena is theirs.
GarbageReclaimed ==
    [][phase = "Compacting" /\ phase' = "Idle" =>
          /\ retired = 0 => InUse = {h.index : h \in Reachable}
          /\ used' = MapThenSumSet(LAMBDA i : Align(CellHeader + slots[i].length), InUse)]_vars

\* A collection that was begun ends.
CollectionEnds == phase # "Idle" ~> phase = "Idle"
============================================================================
