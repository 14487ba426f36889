----------------------------- MODULE HeapProofs -----------------------------
(***************************************************************************)
(* The heap, for every size of its table, its arena, its worklist and its  *)
(* generations, whatever the machine holds and drops.                      *)
(***************************************************************************)
EXTENDS Heap, FiniteSetTheorems, WellFoundedInduction, TLAPS

Size(c) == Align(CellHeader + c.length)

\* The cells that start at S fill the arena from lo to hi, one behind the other.
Tiles(ar, S, lo, hi) ==
    /\ S \subseteq Addresses /\ lo <= hi
    /\ lo < hi => lo \in S
    /\ \A a \in S : /\ ar[a] \in Cells /\ lo <= a /\ a + Size(ar[a]) <= hi
                    /\ a + Size(ar[a]) < hi => a + Size(ar[a]) \in S
    /\ \A a, b \in S : a < b => a + Size(ar[a]) <= b

\* S starts the cells that have their place, T those the compactor has not read.
Layout(S, T) ==
    IF phase = "Compacting"
    THEN /\ compact_write % CellHeader = 0 /\ compact_read % CellHeader = 0
         /\ Tiles(arena, S, 0, compact_write) /\ Tiles(arena, T, compact_read, Align(used))
    ELSE Tiles(arena, S, 0, Align(used)) /\ T = {}

\* A slot in use points at the cell that was allocated with it.
Placed(S) ==
    \A i \in InUse :
        /\ slots[i].offset - CellHeader \in S
        /\ CellOf(i).index = i /\ CellOf(i).length = slots[i].length
        /\ issued[CellOf(i).cell] = [index |-> i, generation |-> slots[i].generation]

\* With no slot retired by hand, every cell has a slot that points at it.
Pointed(S) ==
    retired = 0 => \A a \in S : /\ arena[a].index \in InUse
                                /\ slots[arena[a].index].offset = a + CellHeader

LayoutInv == \E S, T \in SUBSET Addresses : Layout(S, T) /\ Placed(S \cup T) /\ Pointed(S \cup T)

Given == {issued[n] : n \in 1 .. MaxCells}
Known == roots \subseteq Given /\ \A a \in Addresses : arena[a].refs \subseteq Given

Numbered == \E k \in 0 .. MaxCells : \A n \in 1 .. MaxCells : issued[n] # NoHeader <=> n <= k

Older ==
    \A n \in 1 .. MaxCells : issued[n] # NoHeader =>
        LET slot == slots[issued[n].index]
        IN  /\ issued[n].generation <= slot.generation
            /\ slot.kind = "Free" /\ slot.generation < MaxGeneration =>
                   issued[n].generation < slot.generation
Once ==
    \A m, n \in 1 .. MaxCells :
        issued[m] # NoHeader /\ issued[m] = issued[n] /\ issued[m].generation < MaxGeneration
            => m = n

Issues == Known /\ Numbered /\ Older /\ Once

Closed(X) ==
    /\ roots \subseteq X
    /\ \A h \in X : Resolves(h) /\ CellOf(h.index).refs \subseteq X
    /\ phase = "Compacting" => \A h \in X : slots[h.index].mark = "BLACK"
Kept == retired = 0 => \E X \in SUBSET Handles : Closed(X)

Tricolour ==
    phase = "Marking" =>
        /\ \A h \in roots : Resolves(h) => slots[h.index].mark # "WHITE"
        /\ \A i \in InUse : slots[i].mark = "BLACK" =>
              \A k \in CellOf(i).refs : Resolves(k) => slots[k.index].mark # "WHITE"

Counts == live <= Cardinality(InUse) /\ CountsAgree

IInv == TypeOK /\ Issues /\ LayoutInv /\ Kept /\ Tricolour /\ Counts

-----------------------------------------------------------------------------
(* Multiples of the header's size.                                         *)

LEMMA Quotient ==
    ASSUME NEW H \in Nat \ {0}, NEW n \in Nat
    PROVE  /\ n \div H \in Nat /\ n % H \in 0 .. H - 1
           /\ n = (n \div H) * H + (n % H)
BY SMT

LEMMA Monotone ==
    ASSUME NEW H \in Nat \ {0}, NEW p \in Int, NEW q \in Int, p < q
    PROVE  p * H + H <= q * H
<1>1. (q - p - 1) * H >= 0  BY SMT
<1>2. (q - p - 1) * H = q * H - p * H - H  BY SMT
<1> QED BY <1>1, <1>2, SMT

LEMMA Multiple ==
    ASSUME NEW H \in Nat \ {0}, NEW n \in Nat
    PROVE  n % H = 0 <=> \E q \in Nat : n = q * H
<1>1. n \div H \in Nat /\ n % H \in 0 .. H - 1 /\ n = (n \div H) * H + (n % H)
  BY Quotient
<1>2. ASSUME NEW q \in Nat, n = q * H PROVE n % H = 0
  <2>1. CASE n \div H < q
    <3>1. (n \div H) * H + H <= q * H  BY <1>1, <2>1, Monotone
    <3> QED BY <1>1, <1>2, <3>1
  <2>2. CASE q < n \div H
    <3>1. q * H + H <= (n \div H) * H  BY <1>1, <2>2, Monotone
    <3> QED BY <1>1, <1>2, <3>1
  <2>3. CASE q = n \div H
    <3>1. q * H = (n \div H) * H  BY <2>3
    <3> HIDE <2>3
    <3> QED BY <1>1, <1>2, <3>1
  <2> QED BY <1>1, <2>1, <2>2, <2>3
<1>3. ASSUME n % H = 0 PROVE \E q \in Nat : n = q * H
  <2>1. n = (n \div H) * H  BY <1>1, <1>3
  <2> QED BY <1>1, <2>1
<1> QED BY <1>2, <1>3

LEMMA AlignedSum ==
    ASSUME NEW H \in Nat \ {0}, NEW m \in Nat, NEW n \in Nat, m % H = 0, n % H = 0
    PROVE  (m + n) % H = 0 /\ (m <= n => (n - m) % H = 0)
<1>1. PICK p \in Nat : m = p * H  BY Multiple
<1>2. PICK q \in Nat : n = q * H  BY Multiple
<1>3. m + n = (p + q) * H /\ p + q \in Nat
  <2>1. (p + q) * H = p * H + q * H  BY SMT
  <2> QED BY <1>1, <1>2, <2>1
<1>4. ASSUME m <= n PROVE (n - m) % H = 0
  <2>1. p <= q
    <3>1. SUFFICES ASSUME q < p PROVE FALSE  OBVIOUS
    <3>2. q * H + H <= p * H  BY <3>1, Monotone
    <3> QED BY <1>1, <1>2, <1>4, <3>2
  <2>2. (q - p) * H = q * H - p * H  BY SMT
  <2>3. n - m = (q - p) * H /\ q - p \in Nat /\ n - m \in Nat  BY <1>1, <1>2, <1>4, <2>1, <2>2
  <2> QED BY <2>3, Multiple
<1>5. m + n \in Nat  OBVIOUS
<1> QED BY <1>3, <1>4, <1>5, Multiple

LEMMA HeaderSize == CellHeader \in Nat \ {0}
BY HeapConstants DEF HeapAssumption

LEMMA AlignUp ==
    ASSUME NEW n \in Nat
    PROVE  /\ Align(n) \in Nat /\ Align(n) % CellHeader = 0
           /\ n <= Align(n) /\ Align(n) < n + CellHeader
<1> USE HeaderSize
<1>1. n + CellHeader - 1 \in Nat  OBVIOUS
<1>2. /\ (n + CellHeader - 1) \div CellHeader \in Nat
      /\ (n + CellHeader - 1) % CellHeader \in 0 .. CellHeader - 1
      /\ n + CellHeader - 1 = Align(n) + ((n + CellHeader - 1) % CellHeader)
  BY <1>1, Quotient DEF Align
<1>3. Align(n) \in Nat  BY <1>2 DEF Align
<1>4. Align(n) % CellHeader = 0  BY <1>2, <1>3, Multiple DEF Align
<1> QED BY <1>2, <1>3, <1>4

LEMMA AlignLeast ==
    ASSUME NEW n \in Nat, NEW b \in Nat, b % CellHeader = 0, n <= b
    PROVE  Align(n) <= b
<1> USE HeaderSize
<1>1. /\ Align(n) \in Nat /\ Align(n) % CellHeader = 0
      /\ n <= Align(n) /\ Align(n) < n + CellHeader
  BY AlignUp
<1>2. SUFFICES ASSUME b < Align(n) PROVE FALSE  BY <1>1
<1>3. PICK p \in Nat : b = p * CellHeader  BY Multiple
<1>4. PICK q \in Nat : Align(n) = q * CellHeader  BY <1>1, Multiple
<1>5. CASE p < q
  <2>1. p * CellHeader + CellHeader <= q * CellHeader  BY <1>5, Monotone
  <2> QED BY <1>1, <1>3, <1>4, <2>1
<1>6. CASE q < p
  <2>1. q * CellHeader + CellHeader <= p * CellHeader  BY <1>6, Monotone
  <2> QED BY <1>1, <1>2, <1>3, <1>4, <2>1
<1>7. CASE p = q  BY <1>2, <1>3, <1>4, <1>7
<1> QED BY <1>5, <1>6, <1>7

LEMMA AlignPast ==
    ASSUME NEW a \in Nat, NEW n \in Nat, a % CellHeader = 0
    PROVE  Align(a + n) = a + Align(n)
<1> USE HeaderSize
<1>1. /\ Align(n) \in Nat /\ Align(n) % CellHeader = 0
      /\ n <= Align(n) /\ Align(n) < n + CellHeader
  BY AlignUp
<1>2. /\ Align(a + n) \in Nat /\ Align(a + n) % CellHeader = 0
      /\ a + n <= Align(a + n) /\ Align(a + n) < a + n + CellHeader
  BY AlignUp
<1>3. Align(a + n) <= a + Align(n)
  <2>1. (a + Align(n)) % CellHeader = 0  BY <1>1, AlignedSum
  <2>2. a + Align(n) \in Nat /\ a + n <= a + Align(n) /\ a + n \in Nat  BY <1>1
  <2> QED BY <2>1, <2>2, AlignLeast
<1>4. a + Align(n) <= Align(a + n)
  <2>1. a <= Align(a + n) /\ Align(a + n) - a \in Nat  BY <1>2
  <2>2. (Align(a + n) - a) % CellHeader = 0  BY <1>2, <2>1, AlignedSum
  <2>3. n <= Align(a + n) - a  BY <1>2
  <2>4. Align(n) <= Align(a + n) - a  BY <2>1, <2>2, <2>3, AlignLeast
  <2> QED BY <1>1, <1>2, <2>4
<1> QED BY <1>1, <1>2, <1>3, <1>4

LEMMA Addressed ==
    /\ \A a \in Addresses : a \in Nat /\ a < ArenaSize /\ a % CellHeader = 0
    /\ \A a \in Nat : a < ArenaSize /\ a % CellHeader = 0 => a \in Addresses
BY HeapConstants DEF HeapAssumption, Addresses

LEMMA CellSize ==
    ASSUME NEW c \in Cells
    PROVE  /\ c.length \in Nat /\ c.length \in Lengths /\ c.index \in Indices
           /\ c.cell \in 1 .. MaxCells /\ c.refs \in SUBSET Handles
           /\ Size(c) \in Nat /\ Size(c) % CellHeader = 0
           /\ 0 < Size(c) /\ CellHeader + c.length <= Size(c)
<1> USE HeaderSize
<1>1. /\ c.length \in Lengths /\ c.index \in Indices /\ c.cell \in 1 .. MaxCells
      /\ c.refs \in SUBSET Handles
  BY DEF Cells
<1>2. c.length \in Nat  BY <1>1, HeapConstants DEF HeapAssumption
<1>3. CellHeader + c.length \in Nat /\ 0 < CellHeader + c.length  BY <1>2
<1>4. /\ Size(c) \in Nat /\ Size(c) % CellHeader = 0
      /\ CellHeader + c.length <= Size(c)
  BY <1>3, AlignUp DEF Size
<1> QED BY <1>1, <1>2, <1>3, <1>4

-----------------------------------------------------------------------------
(* Tilings.                                                                *)

LEMMA TilesAlike ==
    ASSUME NEW ar, NEW br, NEW S, NEW lo, NEW hi,
           Tiles(ar, S, lo, hi), \A a \in S : br[a] = ar[a]
    PROVE  Tiles(br, S, lo, hi)
BY DEF Tiles

LEMMA TilesExtend ==
    ASSUME NEW ar, NEW br, NEW S, NEW lo \in Nat, NEW hi \in Addresses,
           Tiles(ar, S, lo, hi), br[hi] \in Cells, \A a \in S : br[a] = ar[a]
    PROVE  /\ Tiles(br, S \cup {hi}, lo, hi + Size(br[hi]))
           /\ \A a \in S : a < hi
<1> DEFINE n == Size(br[hi])
<1>1. n \in Nat /\ 0 < n /\ hi \in Nat  BY CellSize, Addressed
<1>2. \A a \in S : /\ a \in Addresses /\ a \in Nat /\ br[a] \in Cells /\ lo <= a
                   /\ Size(br[a]) \in Nat /\ 0 < Size(br[a])
                   /\ a + Size(br[a]) <= hi
                   /\ a + Size(br[a]) < hi => a + Size(br[a]) \in S
  BY CellSize, Addressed DEF Tiles
<1>3. S \subseteq Addresses /\ lo <= hi /\ (lo < hi => lo \in S)  BY DEF Tiles
<1>4. \A a, b \in S : a < b => a + Size(br[a]) <= b  BY DEF Tiles
<1>5. S \cup {hi} \subseteq Addresses /\ lo <= hi + n  BY <1>1, <1>3
<1>6. lo < hi + n => lo \in S \cup {hi}  BY <1>1, <1>3
<1>7. \A a \in S \cup {hi} :
         /\ br[a] \in Cells /\ lo <= a /\ a + Size(br[a]) <= hi + n
         /\ a + Size(br[a]) < hi + n => a + Size(br[a]) \in S \cup {hi}
  <2>1. TAKE a \in S \cup {hi}
  <2>2. CASE a = hi  BY <1>1, <1>3, <2>2
  <2>3. CASE a \in S  BY <1>1, <1>2, <2>3
  <2> QED BY <2>2, <2>3
<1>8. \A a, b \in S \cup {hi} : a < b => a + Size(br[a]) <= b
  <2>1. TAKE a, b \in S \cup {hi}
  <2>2. CASE a \in S /\ b \in S  BY <1>4, <2>2
  <2>3. CASE a \in S /\ b = hi  BY <1>2, <2>3
  <2>4. CASE a = hi /\ b \in S  BY <1>1, <1>2, <2>4
  <2>5. CASE a = hi /\ b = hi  BY <1>1, <2>5
  <2> QED BY <2>2, <2>3, <2>4, <2>5
<1>9. \A a \in S : a < hi  BY <1>1, <1>2
<1> HIDE DEF n
<1>10. Tiles(br, S \cup {hi}, lo, hi + n)  BY ONLY <1>5, <1>6, <1>7, <1>8 DEF Tiles
<1> QED BY <1>9, <1>10 DEF n

LEMMA TilesRest ==
    ASSUME NEW ar, NEW T, NEW lo \in Nat, NEW hi \in Nat, Tiles(ar, T, lo, hi), lo < hi
    PROVE  /\ lo \in T /\ lo \in Addresses /\ ar[lo] \in Cells
           /\ lo + Size(ar[lo]) <= hi
           /\ Tiles(ar, T \ {lo}, lo + Size(ar[lo]), hi)
           /\ \A a \in T \ {lo} : lo + Size(ar[lo]) <= a
<1> DEFINE n == Size(ar[lo])
<1>1. lo \in T /\ lo \in Addresses /\ ar[lo] \in Cells /\ lo + n <= hi  BY DEF Tiles
<1>2. n \in Nat /\ 0 < n  BY <1>1, CellSize
<1>3. \A a \in T : /\ a \in Addresses /\ a \in Nat /\ ar[a] \in Cells /\ lo <= a
                   /\ Size(ar[a]) \in Nat /\ 0 < Size(ar[a])
                   /\ a + Size(ar[a]) <= hi
                   /\ a + Size(ar[a]) < hi => a + Size(ar[a]) \in T
  BY CellSize, Addressed DEF Tiles
<1>4. \A a, b \in T : a < b => a + Size(ar[a]) <= b  BY DEF Tiles
<1>5. \A a \in T \ {lo} : lo + n <= a  BY <1>1, <1>3, <1>4
<1>6. T \ {lo} \subseteq Addresses  BY <1>3
<1>7. lo + n < hi => lo + n \in T \ {lo}  BY <1>1, <1>2, <1>3
<1>8. \A a \in T \ {lo} :
         /\ ar[a] \in Cells /\ lo + n <= a /\ a + Size(ar[a]) <= hi
         /\ a + Size(ar[a]) < hi => a + Size(ar[a]) \in T \ {lo}
  <2>1. TAKE a \in T \ {lo}
  <2>2. a # lo /\ a \in T /\ lo <= a /\ a < a + Size(ar[a])  BY <1>3
  <2> QED BY <1>3, <1>5, <2>2
<1>9. \A a, b \in T \ {lo} : a < b => a + Size(ar[a]) <= b  BY <1>4
<1> HIDE DEF n
<1>10. Tiles(ar, T \ {lo}, lo + n, hi)  BY ONLY <1>1, <1>6, <1>7, <1>8, <1>9 DEF Tiles
<1> QED BY <1>1, <1>5, <1>10 DEF n

LEMMA TilesNone ==
    ASSUME NEW ar, NEW lo \in Nat
    PROVE  /\ Tiles(ar, {}, lo, lo)
           /\ \A T : Tiles(ar, T, lo, lo) => T = {}
<1>1. Tiles(ar, {}, lo, lo)  BY DEF Tiles
<1>2. ASSUME NEW T, Tiles(ar, T, lo, lo), NEW a \in T PROVE FALSE
  <2>1. /\ a \in Nat /\ Size(ar[a]) \in Nat /\ 0 < Size(ar[a])
        /\ lo <= a /\ a + Size(ar[a]) <= lo
    BY <1>2, CellSize, Addressed DEF Tiles
  <2> QED BY <2>1
<1> QED BY <1>1, <1>2

-----------------------------------------------------------------------------
(* The table.                                                              *)

LEMMA LeastOf ==
    ASSUME NEW T \in SUBSET Nat, T # {}
    PROVE  \E n \in T : \A k \in T : n <= k
<1> DEFINE R == OpToRel(<, Nat)
<1>1. IsWellFoundedOn(R, Nat)  BY NatLessThanWellFounded
<1>2. R = {s \in Nat \X Nat : s[1] < s[2]}  BY DEF OpToRel
<1> HIDE DEF R
<1>3. PICK n \in T : \A k \in T : ~(<<k, n>> \in R)  BY <1>1, WFMin
<1>4. \A k \in T : k \in Nat /\ (<<k, n>> \in R <=> k < n)  BY <1>2
<1>5. ASSUME NEW k \in T PROVE n <= k
  <2>1. k \in Nat /\ n \in Nat /\ ~(k < n)  BY <1>3, <1>4
  <2> QED BY <2>1
<1> QED BY <1>5

LEMMA Bounds ==
    /\ SlotCount \in Nat /\ WorklistSize \in Nat /\ MaxGeneration \in Nat \ {0}
    /\ ArenaSize \in Nat /\ ArenaSize % CellHeader = 0
    /\ Lengths \subseteq Nat /\ MaxCells \in Nat /\ MaxRetires \in Nat
    /\ \A i \in Indices : i \in Nat /\ i < SlotCount
BY HeapConstants DEF HeapAssumption, Indices

LEMMA TableFinite ==
    /\ IsFiniteSet(Indices) /\ Cardinality(Indices) = SlotCount
    /\ \A T \in SUBSET Indices :
          IsFiniteSet(T) /\ Cardinality(T) \in Nat /\ Cardinality(T) <= SlotCount
<1>1. IsFiniteSet(Indices) /\ Cardinality(Indices) = SlotCount
  <2>1. SlotCount \in Nat /\ SlotCount - 1 \in Int /\ 0 \in Int  BY Bounds
  <2>2. /\ IsFiniteSet(0 .. SlotCount - 1)
        /\ Cardinality(0 .. SlotCount - 1) =
              IF 0 > SlotCount - 1 THEN 0 ELSE (SlotCount - 1) - 0 + 1
    BY ONLY <2>1, FS_Interval
  <2> QED BY ONLY <2>1, <2>2 DEF Indices
<1>2. ASSUME NEW T \in SUBSET Indices
      PROVE  IsFiniteSet(T) /\ Cardinality(T) \in Nat /\ Cardinality(T) <= SlotCount
  <2>1. IsFiniteSet(T) /\ Cardinality(T) <= SlotCount  BY <1>1, FS_Subset
  <2> QED BY <2>1, FS_CardinalityType
<1> QED BY <1>1, <1>2

\* The slot taken is free, and past the hint when none below it is.
LEMMA FreeFound ==
    ASSUME TypeOK, InUse # Indices
    PROVE  /\ FirstFree \in Indices /\ FirstFree \notin InUse
           /\ (\A i \in Indices : i < free_hint => i \in InUse) =>
                  \A i \in Indices : i < FirstFree => i \in InUse
<1> DEFINE distance(i) == (i - free_hint) % SlotCount
           Vacant == Indices \ InUse
           D == {distance(i) : i \in Vacant}
<1>1. free_hint \in Nat /\ SlotCount \in Nat  BY Bounds DEF TypeOK
<1>2. Vacant # {}  BY DEF InUse
<1>3. \A i \in Vacant : i \in Nat /\ i < SlotCount /\ SlotCount \in Nat \ {0}
  BY Bounds
<1>4. \A i \in Vacant : distance(i) \in Nat
  <2>1. TAKE i \in Vacant
  <2>2. i - free_hint \in Int /\ SlotCount \in Nat \ {0}  BY <1>1, <1>3
  <2> QED BY <2>2, SMT
<1> HIDE DEF distance, Vacant
<1>5. PICK d \in D : \A k \in D : d <= k
  <2>1. D \in SUBSET Nat /\ D # {}  BY <1>2, <1>4
  <2> HIDE DEF D
  <2> QED BY <2>1, LeastOf
<1>6. PICK i \in Vacant : d = distance(i)  OBVIOUS
<1>7. \A j \in Vacant : distance(i) <= distance(j)  BY <1>5, <1>6
<1>8. FirstFree = CHOOSE v \in Vacant : \A j \in Vacant : distance(v) <= distance(j)
  BY DEF FirstFree, distance, Vacant
<1>9. FirstFree \in Vacant /\ \A j \in Vacant : distance(FirstFree) <= distance(j)
  BY ONLY <1>7, <1>8
<1>10. ASSUME \A j \in Indices : j < free_hint => j \in InUse,
              NEW j \in Indices, j < FirstFree, j \notin InUse
       PROVE  FALSE
  <2>1. j \in Vacant  BY <1>10 DEF Vacant
  <2>2. \A v \in Vacant : free_hint <= v  BY <1>1, <1>3, <1>10 DEF Vacant
  <2>3. \A v \in Vacant : distance(v) = v - free_hint
    <3>1. TAKE v \in Vacant
    <3>2. v - free_hint \in 0 .. SlotCount - 1 /\ SlotCount \in Nat \ {0}
      BY <1>1, <1>3, <2>2
    <3>3. (v - free_hint) % SlotCount = v - free_hint  BY <3>2, SMT
    <3> QED BY <3>3 DEF distance
  <2>4. FirstFree - free_hint <= j - free_hint  BY <1>9, <2>1, <2>3
  <2>5. FirstFree \in Nat /\ j \in Nat  BY <1>3, <1>9, <2>1
  <2> QED BY <1>1, <1>10, <2>4, <2>5
<1> QED BY <1>9, <1>10 DEF Vacant

LEMMA CellNumbered ==
    ASSUME TypeOK, Numbered, NextCell <= MaxCells
    PROVE  /\ NextCell \in 1 .. MaxCells
           /\ \A n \in 1 .. MaxCells : issued[n] # NoHeader <=> n <= NextCell - 1
<1>1. PICK k \in 0 .. MaxCells : \A n \in 1 .. MaxCells : issued[n] # NoHeader <=> n <= k
  BY DEF Numbered
<1>2. DOMAIN issued = 1 .. MaxCells  BY DEF TypeOK
<1>3. {c \in DOMAIN issued : issued[c] # NoHeader} = 1 .. k  BY <1>1, <1>2, Bounds
<1>4. Cardinality(1 .. k) = k  BY <1>1, Bounds, FS_Interval
<1>5. NextCell = k + 1  BY <1>3, <1>4 DEF NextCell
<1> QED BY <1>1, <1>5, Bounds

-----------------------------------------------------------------------------
(* What several steps do.                                                  *)

LEMMA Extremes ==
    ASSUME NEW m \in Int, NEW n \in Int
    PROVE  /\ Max({m, n}) = IF m >= n THEN m ELSE n
           /\ Min({m, n}) = IF m <= n THEN m ELSE n
<1>1. CASE m <= n
  <2>1. Max({m, n}) = n  BY <1>1 DEF Max
  <2>2. Min({m, n}) = m  BY <1>1 DEF Min
  <2> QED BY <1>1, <2>1, <2>2
<1>2. CASE n <= m
  <2>1. Max({m, n}) = m  BY <1>2 DEF Max
  <2>2. Min({m, n}) = n  BY <1>2 DEF Min
  <2> QED BY <1>2, <2>1, <2>2
<1> QED BY <1>1, <1>2

\* Slots keep their generation and their use.
SameUse(table, other) ==
    \A i \in Indices : /\ other[i].generation = table[i].generation
                       /\ other[i].kind = table[i].kind

SamePlace(table, other) ==
    SameUse(table, other) /\ \A i \in Indices : /\ other[i].offset = table[i].offset
                                                /\ other[i].length = table[i].length

LEMMA CountsSame ==
    ASSUME TypeOK, Counts, SameUse(slots, slots'), live' = live, free_hint' = free_hint
    PROVE  InUse' = InUse /\ Counts'
<1>1. InUse' = InUse  BY DEF InUse, SameUse
<1>2. (\A i \in Indices : slots'[i].generation < MaxGeneration) <=>
          \A i \in Indices : slots[i].generation < MaxGeneration
  BY DEF SameUse
<1> QED BY <1>1, <1>2 DEF Counts, CountsAgree

LEMMA IssuesSame ==
    ASSUME TypeOK, Issues, SameUse(slots, slots'), issued' = issued,
           roots' \subseteq Given, \A a \in Addresses : arena'[a].refs \subseteq Given
    PROVE  Issues'
<1>1. Given' = Given  BY DEF Given
<1>2. Known' /\ Numbered' /\ Once'  BY <1>1 DEF Issues, Known, Numbered, Once
<1>3. Older'
  <2>1. \A n \in 1 .. MaxCells : issued[n] # NoHeader => issued[n].index \in Indices
    BY DEF TypeOK, Handles
  <2> QED BY <2>1 DEF Issues, Older, SameUse
<1> QED BY <1>2, <1>3 DEF Issues

LEMMA FreedSlot ==
    ASSUME NEW slot \in Slots
    PROVE  /\ Freed(slot) \in Slots /\ Freed(slot).kind = "Free"
           /\ Freed(slot).generation =
                 IF slot.generation < MaxGeneration THEN slot.generation + 1
                 ELSE slot.generation
<1> DEFINE g == Advance(slot.generation)
<1>1. slot.generation \in 1 .. MaxGeneration /\ MaxGeneration \in Nat  BY Bounds DEF Slots
<1>2. g = IF slot.generation < MaxGeneration THEN slot.generation + 1 ELSE slot.generation
  BY DEF Advance
<1>3. g \in 1 .. MaxGeneration  BY <1>1, <1>2
<1> HIDE DEF g
<1>4. Freed(slot) = [slot EXCEPT !.kind = "Free", !.length = 0, !.generation = g]
  BY DEF Freed, g
<1>5. slot = [offset |-> slot.offset, length |-> slot.length, generation |-> slot.generation,
              kind |-> slot.kind, mark |-> slot.mark]
  BY DEF Slots
<1>6. Freed(slot) = [offset |-> slot.offset, length |-> 0, generation |-> g,
                     kind |-> "Free", mark |-> slot.mark]
  BY <1>4, <1>5
<1>7. slot.offset \in 0 .. ArenaSize /\ slot.mark \in Marks /\ "Free" \in Kinds
  BY DEF Slots, Kinds
<1>8. Freed(slot) \in Slots  BY <1>3, <1>6, <1>7 DEF Slots
<1> QED BY <1>2, <1>6, <1>8

\* Freeing a slot, which is in use where its generation is not worn out.
LEMMA Freeing ==
    ASSUME TypeOK, Older, Counts, NEW i \in Indices,
           slots[i].generation < MaxGeneration => i \in InUse,
           slots' = [slots EXCEPT ![i] = Freed(@)],
           live' = Max({live - 1, 0}), free_hint' = NoteFree(i), issued' = issued
    PROVE  /\ slots' \in [Indices -> Slots] /\ live' \in 0 .. SlotCount
           /\ free_hint' \in 0 .. SlotCount
           /\ InUse' = InUse \ {i} /\ Older' /\ Counts'
<1>1. /\ slots \in [Indices -> Slots] /\ live \in Nat /\ live <= SlotCount
      /\ free_hint \in Nat /\ free_hint <= SlotCount /\ SlotCount \in Nat
      /\ MaxGeneration \in Nat \ {0} /\ i \in Nat /\ i < SlotCount
  BY Bounds DEF TypeOK
<1>2. /\ Freed(slots[i]).kind = "Free" /\ Freed(slots[i]) \in Slots
      /\ Freed(slots[i]).generation =
            IF slots[i].generation < MaxGeneration THEN slots[i].generation + 1
            ELSE slots[i].generation
  BY <1>1, FreedSlot
<1>3. /\ slots' \in [Indices -> Slots] /\ slots'[i] = Freed(slots[i])
      /\ \A j \in Indices \ {i} : slots'[j] = slots[j]
  BY <1>1, <1>2
<1>4. InUse' = InUse \ {i}  BY <1>2, <1>3 DEF InUse
<1>5. live' = IF live - 1 >= 0 THEN live - 1 ELSE 0  BY <1>1, Extremes
<1>6. free_hint' = IF i < free_hint THEN i ELSE free_hint  BY DEF NoteFree
<1>7. \A j \in Indices : slots[j].generation \in Nat /\ slots[j].generation <= MaxGeneration
  BY <1>1 DEF Slots
<1>8. Older'
  <2>1. SUFFICES ASSUME NEW n \in 1 .. MaxCells, issued[n] # NoHeader
                 PROVE  /\ issued[n].generation <= slots'[issued[n].index].generation
                        /\ slots'[issued[n].index].kind = "Free" /\
                             slots'[issued[n].index].generation < MaxGeneration =>
                               issued[n].generation < slots'[issued[n].index].generation
    BY DEF Older
  <2>2. issued[n].index \in Indices /\ issued[n].generation \in Nat
    BY <2>1 DEF TypeOK, Handles
  <2>3. /\ issued[n].generation <= slots[issued[n].index].generation
        /\ slots[issued[n].index].kind = "Free" /\
             slots[issued[n].index].generation < MaxGeneration =>
               issued[n].generation < slots[issued[n].index].generation
    BY <2>1 DEF Older
  <2>4. CASE issued[n].index = i  BY <1>1, <1>2, <1>3, <1>7, <2>2, <2>3, <2>4
  <2>5. CASE issued[n].index # i  BY <1>3, <2>2, <2>3, <2>5
  <2> QED BY <2>4, <2>5
<1>9. /\ Cardinality(InUse) \in Nat /\ Cardinality(InUse') \in Nat
      /\ Cardinality(InUse') = IF i \in InUse THEN Cardinality(InUse) - 1
                               ELSE Cardinality(InUse)
  <2>1. InUse \in SUBSET Indices  BY DEF InUse
  <2>2. IsFiniteSet(InUse) /\ Cardinality(InUse) \in Nat  BY <2>1, TableFinite
  <2>3. Cardinality(InUse \ {i}) = IF i \in InUse THEN Cardinality(InUse) - 1
                                   ELSE Cardinality(InUse)
    BY <2>2, FS_RemoveElement
  <2>4. InUse \ {i} \in SUBSET Indices  BY <2>1
  <2>5. Cardinality(InUse \ {i}) \in Nat  BY <2>4, TableFinite
  <2> QED BY <1>4, <2>2, <2>3, <2>5
<1>10. live' <= Cardinality(InUse')
  <2>1. live <= Cardinality(InUse)  BY DEF Counts
  <2> QED BY <1>1, <1>5, <1>9, <2>1
<1>11. CountsAgree'
  <2>1. SUFFICES ASSUME \A j \in Indices : slots'[j].generation < MaxGeneration
                 PROVE  /\ live' = Cardinality(InUse')
                        /\ \A j \in Indices : j < free_hint' => j \in InUse'
    BY DEF CountsAgree
  <2>2. \A j \in Indices : slots[j].generation < MaxGeneration
    BY <1>1, <1>2, <1>3, <1>7, <2>1
  <2>3. live = Cardinality(InUse) /\ \A j \in Indices : j < free_hint => j \in InUse
    BY <2>2 DEF Counts, CountsAgree
  <2>4. i \in InUse  BY <2>2
  <2>5. live' = Cardinality(InUse')  BY <1>1, <1>5, <1>9, <2>3, <2>4
  <2>6. ASSUME NEW j \in Indices, j < free_hint' PROVE j \in InUse'
    <3>1. j \in Nat  BY Bounds
    <3>2. j < free_hint /\ j # i  BY <1>1, <1>6, <2>6, <3>1
    <3> QED BY <1>4, <2>3, <3>2
  <2> QED BY <2>5, <2>6
<1>12. live' \in 0 .. SlotCount /\ free_hint' \in 0 .. SlotCount  BY <1>1, <1>5, <1>6
<1> QED BY <1>3, <1>4, <1>8, <1>10, <1>11, <1>12 DEF Counts

\* Shading turns white slots grey and nothing else.
LEMMA Shading ==
    ASSUME NEW handles, NEW table \in [Indices -> Slots], NEW listed \in SUBSET Indices,
           Cardinality(listed) <= WorklistSize, Shade(handles, table, listed)
    PROVE  /\ slots' \in [Indices -> Slots] /\ SamePlace(table, slots')
           /\ worklist' \in SUBSET Indices /\ Cardinality(worklist') <= WorklistSize
           /\ \A i \in Indices : /\ table[i].mark # "WHITE" => slots'[i].mark = table[i].mark
                                 /\ slots'[i].mark \in {table[i].mark, "GREY"}
           /\ \A h \in handles :
                 h.index \in Indices /\ table[h.index].generation = h.generation
                     /\ table[h.index].kind # "Free" => slots'[h.index].mark # "WHITE"
<1> DEFINE white(h, i) == /\ h.index = i /\ table[i].generation = h.generation
                          /\ table[i].kind # "Free" /\ table[i].mark = "WHITE"
           fresh == {i \in Indices : \E h \in handles : white(h, i)}
           room == WorklistSize - Cardinality(listed)
<1>1. slots' = [i \in Indices |-> IF i \in fresh THEN [table[i] EXCEPT !.mark = "GREY"]
                                  ELSE table[i]]
  BY DEF Shade
<1>2. \E t \in kSubset(Min({Cardinality(fresh), room}), fresh) : worklist' = listed \cup t
  BY DEF Shade
<1> HIDE DEF white
<1>3. fresh \in SUBSET Indices /\ \A i \in fresh : table[i].mark = "WHITE"
  BY DEF white
<1>4. \A h \in handles :
         h.index \in Indices /\ table[h.index].generation = h.generation
             /\ table[h.index].kind # "Free" /\ table[h.index].mark = "WHITE"
         => h.index \in fresh
  <2>1. ASSUME NEW h \in handles, h.index \in Indices,
               table[h.index].generation = h.generation,
               table[h.index].kind # "Free", table[h.index].mark = "WHITE"
        PROVE  h.index \in fresh
    <3>1. white(h, h.index)  BY ONLY <2>1 DEF white
    <3>2. \E k \in handles : white(k, h.index)  BY <3>1
    <3> QED BY <2>1, <3>2
  <2> HIDE DEF fresh
  <2> QED BY ONLY <2>1
<1> HIDE DEF fresh
<1>5. \A i \in Indices : /\ table[i] \in Slots
                         /\ [table[i] EXCEPT !.mark = "GREY"] \in Slots
  BY DEF Slots, Marks
<1>6. slots' \in [Indices -> Slots]  BY <1>1, <1>5
<1>7. \A i \in Indices : slots'[i] = IF i \in fresh THEN [table[i] EXCEPT !.mark = "GREY"]
                                     ELSE table[i]
  BY <1>1
<1>8. \A i \in Indices : /\ i \in fresh => /\ slots'[i].mark = "GREY"
                                           /\ slots'[i].offset = table[i].offset
                                           /\ slots'[i].length = table[i].length
                                           /\ slots'[i].generation = table[i].generation
                                           /\ slots'[i].kind = table[i].kind
                         /\ i \notin fresh => slots'[i] = table[i]
  BY <1>5, <1>7 DEF Slots
<1>9. SamePlace(table, slots')
  BY <1>8 DEF SamePlace, SameUse
<1>10. \A i \in Indices : /\ table[i].mark # "WHITE" => slots'[i].mark = table[i].mark
                          /\ slots'[i].mark \in {table[i].mark, "GREY"}
  BY <1>3, <1>8
<1>11. \A h \in handles :
          h.index \in Indices /\ table[h.index].generation = h.generation
              /\ table[h.index].kind # "Free" => slots'[h.index].mark # "WHITE"
  BY <1>4, <1>8
<1>12. worklist' \in SUBSET Indices /\ Cardinality(worklist') <= WorklistSize
  <2>1. /\ IsFiniteSet(listed) /\ Cardinality(listed) \in Nat
        /\ IsFiniteSet(fresh) /\ Cardinality(fresh) \in Nat
    BY <1>3, TableFinite
  <2>2. room \in Nat  BY <2>1, Bounds
  <2> DEFINE all == Cardinality(fresh)
             most == Min({all, room})
  <2>3. all \in Nat  BY <2>1
  <2> HIDE DEF all, room
  <2>9. most = IF all <= room THEN all ELSE room  BY ONLY <2>2, <2>3, Extremes
  <2>10. most <= room /\ most \in Nat  BY ONLY <2>2, <2>3, <2>9
  <2>11. PICK t \in kSubset(most, fresh) : worklist' = listed \cup t
    BY ONLY <1>2 DEF all, room
  <2> HIDE DEF most
  <2>4. t \in SUBSET fresh /\ Cardinality(t) = most
    BY <2>11 DEF kSubset
  <2>5. t \in SUBSET Indices  BY <1>3, <2>4
  <2>6. IsFiniteSet(t) /\ Cardinality(t) \in Nat  BY <2>5, TableFinite
  <2>7. Cardinality(listed \cup t) <= Cardinality(listed) + Cardinality(t)
    <3>1. /\ Cardinality(listed \cup t) = Cardinality(listed) + Cardinality(t)
                                         - Cardinality(listed \cap t)
          /\ Cardinality(listed \cap t) \in Nat
      BY <2>1, <2>6, FS_Union, FS_Intersection, FS_CardinalityType
    <3> QED BY <2>1, <2>6, <3>1
  <2>8. listed \cup t \in SUBSET Indices  BY <2>5
  <2>12. Cardinality(listed \cup t) \in Nat  BY <2>8, TableFinite
  <2> QED BY <2>1, <2>4, <2>6, <2>7, <2>8, <2>10, <2>11, <2>12, Bounds DEF room
<1> QED BY <1>6, <1>9, <1>10, <1>11, <1>12

LEMMA PlacesSame ==
    ASSUME NEW S, SamePlace(slots, slots'), arena' = arena, issued' = issued,
           retired' = retired, Placed(S), Pointed(S)
    PROVE  /\ InUse' = InUse /\ \A i \in Indices : CellOf(i)' = CellOf(i)
           /\ Placed(S)' /\ Pointed(S)'
<1>1. InUse' = InUse  BY DEF InUse, SamePlace, SameUse
<1>2. \A i \in Indices : CellOf(i)' = CellOf(i)  BY DEF CellOf, SamePlace
<1>3. InUse \subseteq Indices  BY DEF InUse
<1>4. Placed(S)'
  <2>1. \A i \in InUse : /\ slots'[i].offset = slots[i].offset
                         /\ slots'[i].length = slots[i].length
                         /\ slots'[i].generation = slots[i].generation
    BY <1>3 DEF SamePlace, SameUse
  <2> QED BY <1>1, <1>2, <1>3, <2>1 DEF Placed
<1>5. Pointed(S)'
  <2>1. \A i \in InUse : slots'[i].offset = slots[i].offset
    BY <1>3 DEF SamePlace, SameUse
  <2> QED BY <1>1, <2>1 DEF Pointed
<1> QED BY <1>1, <1>2, <1>4, <1>5

LEMMA ResolvesSame ==
    ASSUME SameUse(slots, slots')
    PROVE  \A h \in Handles : Resolves(h)' <=> Resolves(h)
<1>1. \A h \in Handles : h.index \in Indices  BY DEF Handles
<1> QED BY <1>1 DEF Resolves, SameUse

\* A cell whose slot is in use lies in the arena.
LEMMA CellTyped ==
    ASSUME TypeOK, LayoutInv, NEW i \in InUse
    PROVE  /\ i \in Indices /\ slots[i].offset - CellHeader \in Addresses
           /\ CellOf(i) \in Cells /\ CellOf(i).index = i
           /\ CellOf(i).length = slots[i].length /\ CellOf(i).refs \in SUBSET Handles
           /\ issued[CellOf(i).cell] = [index |-> i, generation |-> slots[i].generation]
<1>1. PICK S, T \in SUBSET Addresses : Layout(S, T) /\ Placed(S \cup T)
  BY DEF LayoutInv
<1>2. /\ slots[i].offset - CellHeader \in S \cup T
      /\ CellOf(i).index = i /\ CellOf(i).length = slots[i].length
      /\ issued[CellOf(i).cell] = [index |-> i, generation |-> slots[i].generation]
  BY <1>1 DEF Placed
<1>3. \A a \in S \cup T : arena[a] \in Cells
  BY <1>1 DEF Layout, Tiles
<1>4. CellOf(i) \in Cells  BY <1>2, <1>3 DEF CellOf
<1>5. CellOf(i).refs \in SUBSET Handles  BY <1>4, CellSize
<1> QED BY <1>1, <1>2, <1>4, <1>5 DEF InUse

\* A step that only marks slots.
LEMMA MarksOnly ==
    ASSUME TypeOK, Issues, LayoutInv, Counts,
           phase # "Compacting", phase' # "Compacting",
           slots' \in [Indices -> Slots], SamePlace(slots, slots'),
           UNCHANGED <<arena, used, live, free_hint, roots, issued, retired>>
    PROVE  /\ InUse' = InUse /\ (\A i \in Indices : CellOf(i)' = CellOf(i))
           /\ \A h \in Handles : Resolves(h)' <=> Resolves(h)
           /\ Issues' /\ LayoutInv' /\ Counts'
<1>1. SameUse(slots, slots')  BY DEF SamePlace
<1>2. PICK S, T \in SUBSET Addresses : Layout(S, T) /\ Placed(S \cup T) /\ Pointed(S \cup T)
  BY DEF LayoutInv
<1>3. /\ InUse' = InUse /\ \A i \in Indices : CellOf(i)' = CellOf(i)
      /\ Placed(S \cup T)' /\ Pointed(S \cup T)'
  BY <1>2, PlacesSame
<1>4. Layout(S, T)'  BY <1>2 DEF Layout
<1>5. LayoutInv'  BY <1>3, <1>4 DEF LayoutInv
<1>6. Counts'  BY <1>1, CountsSame
<1>7. Issues'
  <2>1. roots' \subseteq Given /\ \A a \in Addresses : arena'[a].refs \subseteq Given
    BY DEF Issues, Known
  <2> QED BY <1>1, <2>1, IssuesSame
<1>8. \A h \in Handles : Resolves(h)' <=> Resolves(h)  BY <1>1, ResolvesSame
<1> QED BY <1>3, <1>5, <1>6, <1>7, <1>8

-----------------------------------------------------------------------------
(* The steps of a collection.                                              *)

LEMMA BeginCollectionKeeps ==
    ASSUME IInv, BeginCollection
    PROVE  IInv'
<1> DEFINE table == [i \in Indices |-> [slots[i] EXCEPT !.mark = "WHITE"]]
<1>1. TypeOK /\ Issues /\ LayoutInv /\ Kept /\ Counts  BY DEF IInv
<1>2. /\ phase = "Idle" /\ phase' = "Marking" /\ Shade(roots, table, {})
      /\ UNCHANGED <<arena, used, live, free_hint, compact_read, compact_write, roots,
                     issued, retired>>
  BY DEF BeginCollection
<1>3. \A i \in Indices : slots[i] \in Slots  BY <1>1 DEF TypeOK
<1>4. /\ table \in [Indices -> Slots] /\ SamePlace(slots, table)
      /\ \A i \in Indices : table[i].mark = "WHITE"
  BY <1>3 DEF SamePlace, SameUse, Slots, Marks
<1>5. {} \in SUBSET Indices /\ Cardinality({}) <= WorklistSize  BY FS_EmptySet, Bounds
<1> HIDE DEF table
<1>6. /\ slots' \in [Indices -> Slots] /\ SamePlace(table, slots')
      /\ worklist' \in SUBSET Indices /\ Cardinality(worklist') <= WorklistSize
      /\ \A i \in Indices : /\ table[i].mark # "WHITE" => slots'[i].mark = table[i].mark
                            /\ slots'[i].mark \in {table[i].mark, "GREY"}
      /\ \A h \in roots :
            h.index \in Indices /\ table[h.index].generation = h.generation
                /\ table[h.index].kind # "Free" => slots'[h.index].mark # "WHITE"
  BY ONLY <1>2, <1>4, <1>5, Shading
<1>7. SamePlace(slots, slots')  BY <1>4, <1>6 DEF SamePlace, SameUse
<1>8. /\ InUse' = InUse /\ (\A i \in Indices : CellOf(i)' = CellOf(i))
      /\ \A h \in Handles : Resolves(h)' <=> Resolves(h)
      /\ Issues' /\ LayoutInv' /\ Counts'
  BY <1>1, <1>2, <1>6, <1>7, MarksOnly
<1>9. TypeOK'  BY <1>1, <1>2, <1>6 DEF TypeOK
<1>10. Kept'  BY <1>1, <1>2, <1>8 DEF Kept, Closed, Handles
<1>11. Tricolour'
  <2>1. \A i \in Indices : slots'[i].mark # "BLACK"  BY <1>4, <1>6
  <2>2. ASSUME NEW h \in roots, Resolves(h)' PROVE slots'[h.index].mark # "WHITE"
    <3>1. h.index \in Indices  BY <1>1 DEF TypeOK, Handles
    <3>2. slots'[h.index].kind # "Free" /\ slots'[h.index].generation = h.generation
      BY <2>2 DEF Resolves
    <3>3. table[h.index].kind # "Free" /\ table[h.index].generation = h.generation
      BY <1>6, <3>1, <3>2 DEF SamePlace, SameUse
    <3> QED BY <1>6, <3>1, <3>3
  <2> QED BY <1>2, <2>1, <2>2 DEF Tricolour, InUse
<1> QED BY <1>8, <1>9, <1>10, <1>11 DEF IInv

LEMMA VisitKeeps ==
    ASSUME IInv, NEW i \in Indices, Visit(i)
    PROVE  IInv'
<1> DEFINE table == [slots EXCEPT ![i].mark = "BLACK"]
           refs == CellOf(i).refs
<1>1. TypeOK /\ Issues /\ LayoutInv /\ Kept /\ Tricolour /\ Counts  BY DEF IInv
<1>2. /\ phase = "Marking" /\ phase' = "Marking" /\ Shade(refs, table, worklist \ {i})
      /\ UNCHANGED <<arena, used, live, free_hint, compact_read, compact_write, roots,
                     issued, retired>>
  BY DEF Visit
<1>3. \A j \in Indices : slots[j] \in Slots  BY <1>1 DEF TypeOK
<1>4. /\ table \in [Indices -> Slots] /\ SamePlace(slots, table)
      /\ table[i].mark = "BLACK" /\ \A j \in Indices \ {i} : table[j] = slots[j]
  BY <1>1, <1>3 DEF TypeOK, SamePlace, SameUse, Slots, Marks
<1>5. worklist \ {i} \in SUBSET Indices /\ Cardinality(worklist \ {i}) <= WorklistSize
  <2>1. worklist \in SUBSET Indices /\ Cardinality(worklist) <= WorklistSize
    BY <1>1 DEF TypeOK
  <2>2. IsFiniteSet(worklist) /\ Cardinality(worklist) \in Nat  BY <2>1, TableFinite
  <2>3. Cardinality(worklist \ {i}) <= Cardinality(worklist)
        /\ Cardinality(worklist \ {i}) \in Nat
    BY <2>2, FS_Subset, FS_CardinalityType
  <2> QED BY <2>1, <2>2, <2>3, Bounds
<1> HIDE DEF table, refs
<1>6. /\ slots' \in [Indices -> Slots] /\ SamePlace(table, slots')
      /\ worklist' \in SUBSET Indices /\ Cardinality(worklist') <= WorklistSize
      /\ \A j \in Indices : /\ table[j].mark # "WHITE" => slots'[j].mark = table[j].mark
                            /\ slots'[j].mark \in {table[j].mark, "GREY"}
      /\ \A h \in refs :
            h.index \in Indices /\ table[h.index].generation = h.generation
                /\ table[h.index].kind # "Free" => slots'[h.index].mark # "WHITE"
  BY <1>2, <1>4, <1>5, Shading
<1>7. SamePlace(slots, slots')  BY <1>4, <1>6 DEF SamePlace, SameUse
<1>8. /\ InUse' = InUse /\ (\A j \in Indices : CellOf(j)' = CellOf(j))
      /\ \A h \in Handles : Resolves(h)' <=> Resolves(h)
      /\ Issues' /\ LayoutInv' /\ Counts'
  BY <1>1, <1>2, <1>6, <1>7, MarksOnly
<1>9. TypeOK'  BY <1>1, <1>2, <1>6 DEF TypeOK
<1>10. Kept'  BY <1>1, <1>2, <1>8 DEF Kept, Closed, Handles
<1>11. \A j \in Indices : slots[j].mark # "WHITE" => slots'[j].mark # "WHITE"
  BY <1>4, <1>6
<1>12. Tricolour'
  <2>1. ASSUME NEW h \in roots, Resolves(h)' PROVE slots'[h.index].mark # "WHITE"
    <3>1. h \in Handles /\ h.index \in Indices  BY <1>1 DEF TypeOK, Handles
    <3>2. slots[h.index].mark # "WHITE"  BY <1>1, <1>2, <1>8, <2>1, <3>1 DEF Tricolour
    <3> QED BY <1>11, <3>1, <3>2
  <2>2. ASSUME NEW j \in InUse', slots'[j].mark = "BLACK",
               NEW k \in CellOf(j)'.refs, Resolves(k)'
        PROVE  slots'[k.index].mark # "WHITE"
    <3>1. j \in InUse /\ j \in Indices /\ k \in CellOf(j).refs
      BY <1>8, <2>2 DEF InUse
    <3>2. k \in Handles /\ k.index \in Indices  BY <1>1, <3>1, CellTyped DEF Handles
    <3>3. Resolves(k)  BY <1>8, <2>2, <3>2
    <3>4. CASE j = i
      <4>1. k \in refs  BY <3>1, <3>4 DEF refs
      <4>2. table[k.index].generation = k.generation /\ table[k.index].kind # "Free"
        BY <1>4, <3>2, <3>3 DEF Resolves, SamePlace, SameUse
      <4> QED BY <1>6, <3>2, <4>1, <4>2
    <3>5. CASE j # i
      <4>1. slots[j].mark = "BLACK"  BY <1>4, <1>6, <2>2, <3>1, <3>5
      <4>2. slots[k.index].mark # "WHITE"
        BY <1>1, <1>2, <3>1, <3>3, <4>1 DEF Tricolour
      <4> QED BY <1>11, <3>2, <4>2
    <3> QED BY <3>4, <3>5
  <2> QED BY <1>2, <2>1, <2>2 DEF Tricolour
<1> QED BY <1>8, <1>9, <1>10, <1>12 DEF IInv

LEMMA TilesWithin ==
    ASSUME NEW ar, NEW S, NEW lo, NEW hi \in Nat, Tiles(ar, S, lo, hi)
    PROVE  \A a \in S : a \in Nat /\ lo <= a /\ a < hi /\ ar[a] \in Cells
<1>1. SUFFICES ASSUME NEW a \in S
               PROVE  a \in Nat /\ lo <= a /\ a < hi /\ ar[a] \in Cells
  OBVIOUS
<1>2. a \in Addresses /\ ar[a] \in Cells /\ lo <= a /\ a + Size(ar[a]) <= hi
  BY DEF Tiles
<1>3. a \in Nat /\ Size(ar[a]) \in Nat /\ 0 < Size(ar[a])  BY <1>2, Addressed, CellSize
<1> QED BY <1>2, <1>3

LEMMA BeginCompactionKeeps ==
    ASSUME IInv, BeginCompaction
    PROVE  IInv'
<1>1. TypeOK /\ Issues /\ LayoutInv /\ Kept /\ Tricolour /\ Counts  BY DEF IInv
<1>2. /\ phase = "Marking" /\ phase' = "Compacting" /\ NextGrey = {}
      /\ compact_read' = 0 /\ compact_write' = 0 /\ worklist' = {}
      /\ UNCHANGED <<arena, slots, used, live, free_hint, roots, issued, retired>>
  BY DEF BeginCompaction
<1>3. Marked("GREY") = {}
  <2>1. SUFFICES ASSUME Marked("GREY") # {} PROVE FALSE  OBVIOUS
  <2>2. Marked("GREY") \in SUBSET Nat  BY Bounds DEF Marked
  <2>3. PICK i \in Marked("GREY") : \A j \in Marked("GREY") : i <= j  BY <2>1, <2>2, LeastOf
  <2>4. GreyListed = {}  BY <1>2 DEF NextGrey
  <2>5. i \in NextGrey  BY <2>3, <2>4 DEF NextGrey
  <2> QED BY <1>2, <2>5
<1>4. TypeOK'
  <2>1. Cardinality({}) <= WorklistSize  BY FS_EmptySet, Bounds
  <2> QED BY <1>1, <1>2, <2>1, Bounds DEF TypeOK
<1>5. Issues'
  <2>1. SameUse(slots, slots') /\ roots' \subseteq Given
        /\ \A a \in Addresses : arena'[a].refs \subseteq Given
    BY <1>1, <1>2 DEF SameUse, Issues, Known
  <2> QED BY <1>1, <1>2, <2>1, IssuesSame
<1>6. LayoutInv'
  <2>1. PICK S, T \in SUBSET Addresses :
                Layout(S, T) /\ Placed(S \cup T) /\ Pointed(S \cup T)
    BY <1>1 DEF LayoutInv
  <2>2. Tiles(arena, S, 0, Align(used)) /\ T = {}  BY <1>2, <2>1 DEF Layout
  <2>3. Tiles(arena, {}, 0, 0)  BY TilesNone
  <2>4. 0 % CellHeader = 0
    <3>1. 0 \in Nat /\ 0 = 0 * CellHeader  BY HeaderSize
    <3> QED BY <3>1, HeaderSize, Multiple
  <2>5. Layout({}, S)'  BY <1>2, <2>2, <2>3, <2>4 DEF Layout
  <2>6. SamePlace(slots, slots') /\ arena' = arena /\ issued' = issued /\ retired' = retired
    BY <1>2 DEF SamePlace, SameUse
  <2>7. {} \cup S = S \cup T  BY <2>2
  <2>8. Placed({} \cup S)' /\ Pointed({} \cup S)'  BY <2>1, <2>6, <2>7, PlacesSame
  <2> QED BY <2>5, <2>8 DEF LayoutInv
<1>7. Kept'
  <2>1. SUFFICES ASSUME retired = 0 PROVE \E X \in SUBSET Handles : Closed(X)'
    BY <1>2 DEF Kept
  <2>2. PICK X \in SUBSET Handles : Closed(X)  BY <1>1, <2>1 DEF Kept
  <2>3. PICK Y \in SUBSET Handles : Y = {h \in X : slots[h.index].mark = "BLACK"}
    OBVIOUS
  <2>4. \A h \in Handles : slots[h.index].mark = "BLACK" \/ slots[h.index].mark = "WHITE"
    <3>1. \A i \in Indices : slots[i].mark \in Marks /\ slots[i].mark # "GREY"
      BY <1>1, <1>3 DEF TypeOK, Slots, Marked
    <3> QED BY <3>1 DEF Marks, Handles
  <2>5. roots \subseteq Y
    BY <1>1, <1>2, <2>2, <2>3, <2>4 DEF TypeOK, Closed, Tricolour
  <2>6. ASSUME NEW h \in Y PROVE Resolves(h) /\ CellOf(h.index).refs \subseteq Y
    <3>1. Resolves(h) /\ CellOf(h.index).refs \subseteq X /\ h.index \in Indices
      BY <2>2, <2>3 DEF Closed, Handles
    <3>2. h.index \in InUse  BY <3>1 DEF InUse, Resolves
    <3>3. ASSUME NEW k \in CellOf(h.index).refs PROVE k \in Y
      <4>1. k \in X /\ Resolves(k)  BY <2>2, <3>1, <3>3 DEF Closed
      <4>2. slots[k.index].mark # "WHITE"
        BY <1>1, <1>2, <2>3, <3>2, <3>3, <4>1 DEF Tricolour
      <4> QED BY <2>3, <2>4, <4>1, <4>2
    <3> QED BY <3>1, <3>3
  <2>7. \A h \in Y : slots[h.index].mark = "BLACK"  BY <2>3
  <2>8. Closed(Y)'
    BY <1>2, <2>5, <2>6, <2>7 DEF Closed, Resolves, CellOf
  <2> QED BY <2>8
<1>8. Tricolour'  BY <1>2 DEF Tricolour
<1>9. Counts'
  <2>1. SameUse(slots, slots')  BY <1>2 DEF SameUse
  <2> QED BY <1>1, <1>2, <2>1, CountsSame
<1> QED BY <1>4, <1>5, <1>6, <1>7, <1>8, <1>9 DEF IInv

LEMMA FinishCompactionKeeps ==
    ASSUME IInv, FinishCompaction
    PROVE  IInv'
<1>1. TypeOK /\ Issues /\ LayoutInv /\ Kept /\ Tricolour /\ Counts  BY DEF IInv
<1>2. /\ phase = "Compacting" /\ phase' = "Idle" /\ compact_read >= used
      /\ used' = compact_write /\ worklist' = {}
      /\ UNCHANGED <<arena, slots, live, free_hint, compact_read, compact_write,
                     roots, issued, retired>>
  BY DEF FinishCompaction
<1>3. /\ compact_read \in Nat /\ compact_write \in Nat /\ used \in Nat
      /\ compact_read <= ArenaSize /\ compact_write <= compact_read
  BY <1>1, Bounds DEF TypeOK
<1>4. TypeOK'
  <2>1. Cardinality({}) <= WorklistSize  BY FS_EmptySet, Bounds
  <2>2. used' \in 0 .. ArenaSize  BY <1>2, <1>3, Bounds
  <2> QED BY <1>1, <1>2, <2>1, <2>2 DEF TypeOK
<1>5. Issues'
  <2>1. SameUse(slots, slots') /\ roots' \subseteq Given
        /\ \A a \in Addresses : arena'[a].refs \subseteq Given
    BY <1>1, <1>2 DEF SameUse, Issues, Known
  <2> QED BY <1>1, <1>2, <2>1, IssuesSame
<1>6. LayoutInv'
  <2>1. PICK S, T \in SUBSET Addresses :
                Layout(S, T) /\ Placed(S \cup T) /\ Pointed(S \cup T)
    BY <1>1 DEF LayoutInv
  <2>2. /\ compact_write % CellHeader = 0 /\ compact_read % CellHeader = 0
        /\ Tiles(arena, S, 0, compact_write) /\ Tiles(arena, T, compact_read, Align(used))
    BY <1>2, <2>1 DEF Layout
  <2>3. Align(used) <= compact_read  BY <1>2, <1>3, <2>2, AlignLeast
  <2>4. compact_read <= Align(used) /\ Align(used) \in Nat
    BY <1>3, <2>2, AlignUp DEF Tiles
  <2>5. Align(used) = compact_read  BY <1>3, <2>3, <2>4
  <2>6. T = {}  BY <1>3, <2>2, <2>5, TilesNone
  <2>7. Align(compact_write) = compact_write
    <3>1. Align(compact_write) <= compact_write  BY <1>3, <2>2, AlignLeast
    <3>2. compact_write <= Align(compact_write) /\ Align(compact_write) \in Nat
      BY <1>3, AlignUp
    <3> QED BY <1>3, <3>1, <3>2
  <2>8. Layout(S, T)'  BY <1>2, <2>2, <2>6, <2>7 DEF Layout
  <2>9. SamePlace(slots, slots') /\ arena' = arena /\ issued' = issued /\ retired' = retired
    BY <1>2 DEF SamePlace, SameUse
  <2>10. Placed(S \cup T)' /\ Pointed(S \cup T)'  BY <2>1, <2>9, PlacesSame
  <2> QED BY <2>8, <2>10 DEF LayoutInv
<1>7. Kept'  BY <1>1, <1>2 DEF Kept, Closed, Resolves, CellOf
<1>8. Tricolour'  BY <1>2 DEF Tricolour
<1>9. Counts'
  <2>1. SameUse(slots, slots')  BY <1>2 DEF SameUse
  <2> QED BY <1>1, <1>2, <2>1, CountsSame
<1> QED BY <1>4, <1>5, <1>6, <1>7, <1>8, <1>9 DEF IInv

\* What the compactor finds where it has reached: a cell, with room behind it.
LEMMA CellFound ==
    ASSUME TypeOK, phase = "Compacting", compact_read < used,
           NEW S \in SUBSET Addresses, NEW T \in SUBSET Addresses, Layout(S, T)
    PROVE  LET c == arena[compact_read]
               next == compact_read + Size(c)
           IN  /\ c \in Cells /\ compact_read \in Addresses /\ compact_read \in T
               /\ next \in Nat /\ next <= ArenaSize /\ next % CellHeader = 0
               /\ Tiles(arena, T \ {compact_read}, next, Align(used))
               /\ \A a \in T \ {compact_read} : a \in Nat /\ next <= a
               /\ \A a \in S : a \in Nat /\ a < compact_write
               /\ compact_write \in Nat /\ compact_write % CellHeader = 0
               /\ compact_read \in Nat /\ compact_write <= compact_read
               /\ Tiles(arena, S, 0, compact_write)
<1> DEFINE c == arena[compact_read]
           next == compact_read + Size(c)
<1>1. /\ compact_read \in Nat /\ compact_write \in Nat /\ used \in Nat
      /\ used <= ArenaSize /\ compact_write <= compact_read
  BY Bounds DEF TypeOK
<1>2. /\ compact_write % CellHeader = 0 /\ compact_read % CellHeader = 0
      /\ Tiles(arena, S, 0, compact_write) /\ Tiles(arena, T, compact_read, Align(used))
  BY DEF Layout
<1>3. Align(used) \in Nat /\ compact_read < Align(used) /\ Align(used) <= ArenaSize
  <2>1. Align(used) \in Nat /\ used <= Align(used)  BY <1>1, AlignUp
  <2>2. Align(used) <= ArenaSize  BY <1>1, Bounds, AlignLeast
  <2> QED BY <1>1, <2>1, <2>2
<1>4. /\ compact_read \in T /\ compact_read \in Addresses /\ c \in Cells
      /\ next <= Align(used) /\ Tiles(arena, T \ {compact_read}, next, Align(used))
      /\ \A a \in T \ {compact_read} : next <= a
  BY <1>1, <1>2, <1>3, TilesRest
<1>5. Size(c) \in Nat /\ Size(c) % CellHeader = 0  BY <1>4, CellSize
<1>6. next \in Nat /\ next % CellHeader = 0 /\ next <= ArenaSize
  BY <1>1, <1>2, <1>3, <1>4, <1>5, AlignedSum, HeaderSize, Bounds
<1>7. \A a \in S : a \in Nat /\ a < compact_write  BY <1>1, <1>2, TilesWithin
<1>8. \A a \in T : a \in Nat  BY Addressed
<1> QED BY <1>1, <1>2, <1>4, <1>6, <1>7, <1>8

\* A cell that is left behind.
LEMMA CompactDeadKeeps ==
    ASSUME IInv, phase = "Compacting", compact_read < used,
           LET c == arena[compact_read]
           IN  ~ /\ c.index \in InUse /\ slots[c.index].mark = "BLACK"
                 /\ slots[c.index].offset = compact_read + CellHeader,
           CompactDead(arena[compact_read]),
           compact_read' = compact_read + Size(arena[compact_read]),
           UNCHANGED <<worklist, used, phase, roots, issued, retired>>
    PROVE  IInv'
<1> DEFINE c == arena[compact_read]
<1>1. TypeOK /\ Issues /\ LayoutInv /\ Kept /\ Tricolour /\ Counts  BY DEF IInv
<1>2. PICK S, T \in SUBSET Addresses : Layout(S, T) /\ Placed(S \cup T) /\ Pointed(S \cup T)
  BY <1>1 DEF LayoutInv
<1>3. /\ c \in Cells /\ compact_read \in Addresses /\ compact_read \in T
      /\ compact_read' \in Nat /\ compact_read' <= ArenaSize
      /\ compact_read' % CellHeader = 0
      /\ Tiles(arena, T \ {compact_read}, compact_read', Align(used))
      /\ \A a \in S : a \in Nat /\ a < compact_write
      /\ compact_write \in Nat /\ compact_write % CellHeader = 0
      /\ compact_read \in Nat /\ compact_write <= compact_read
      /\ Tiles(arena, S, 0, compact_write)
  BY <1>1, <1>2, CellFound
<1>4. /\ arena' = arena /\ compact_write' = compact_write
      /\ compact_read' = compact_read + Size(c)
      /\ c.index \in Indices /\ Size(c) \in Nat /\ 0 < Size(c)
  BY <1>3, CellSize DEF CompactDead
<1>5. /\ slots' \in [Indices -> Slots] /\ live' \in 0 .. SlotCount
      /\ free_hint' \in 0 .. SlotCount
      /\ InUse' = InUse \ {c.index} /\ Older' /\ Counts'
      /\ \A i \in Indices \ {c.index} : slots'[i] = slots[i]
  <2>1. CASE c.index \in InUse
    <3>1. /\ slots' = [slots EXCEPT ![c.index] = Freed(@)]
          /\ live' = Max({live - 1, 0}) /\ free_hint' = NoteFree(c.index)
      BY <2>1 DEF CompactDead
    <3>2. /\ slots' \in [Indices -> Slots] /\ live' \in 0 .. SlotCount
          /\ free_hint' \in 0 .. SlotCount
          /\ InUse' = InUse \ {c.index} /\ Older' /\ Counts'
      BY <1>1, <1>4, <2>1, <3>1, Freeing DEF Issues
    <3>3. \A i \in Indices \ {c.index} : slots'[i] = slots[i]
      BY <1>1, <3>1 DEF TypeOK
    <3> QED BY <3>2, <3>3
  <2>2. CASE c.index \notin InUse
    <3>1. slots' = slots /\ live' = live /\ free_hint' = free_hint
      BY <2>2 DEF CompactDead
    <3>2. SameUse(slots, slots')  BY <3>1 DEF SameUse
    <3>3. InUse' = InUse /\ Counts'  BY <1>1, <3>1, <3>2, CountsSame
    <3>4. Older'  BY <1>1, <3>1 DEF Issues, Older
    <3> QED BY <1>1, <2>2, <3>1, <3>3, <3>4 DEF TypeOK
  <2> QED BY <2>1, <2>2
<1> HIDE DEF c
<1>6. TypeOK'
  <2>1. compact_read' \in 0 .. ArenaSize /\ compact_write' \in 0 .. compact_read'
    BY <1>3, <1>4, Bounds
  <2> QED BY <1>1, <1>4, <1>5, <2>1 DEF TypeOK
<1>7. Issues'
  <2>1. Known' /\ Numbered' /\ Once'
    BY <1>1, <1>4 DEF Issues, Known, Given, Numbered, Once
  <2> QED BY <1>5, <2>1 DEF Issues
<1>8. \A i \in InUse' : /\ i \in InUse /\ i \in Indices /\ i # c.index
                        /\ slots'[i] = slots[i] /\ CellOf(i)' = CellOf(i)
  BY <1>4, <1>5 DEF InUse, CellOf
<1>9. LayoutInv'
  <2>1. PICK R \in SUBSET Addresses : R = T \ {compact_read}  OBVIOUS
  <2>2. Layout(S, R)'  BY <1>3, <1>4, <2>1 DEF Layout
  <2>3. Placed(S \cup R)'
    <3>1. SUFFICES ASSUME NEW i \in InUse'
                   PROVE  /\ slots'[i].offset - CellHeader \in S \cup R
                          /\ CellOf(i)'.index = i /\ CellOf(i)'.length = slots'[i].length
                          /\ issued'[CellOf(i)'.cell] =
                                [index |-> i, generation |-> slots'[i].generation]
      BY DEF Placed
    <3>2. /\ slots[i].offset - CellHeader \in S \cup T
          /\ CellOf(i).index = i /\ CellOf(i).length = slots[i].length
          /\ issued[CellOf(i).cell] = [index |-> i, generation |-> slots[i].generation]
      BY <1>2, <1>8 DEF Placed
    <3>3. slots[i].offset - CellHeader # compact_read
      BY <1>8, <3>2 DEF CellOf, c
    <3> QED BY <1>8, <2>1, <3>2, <3>3
  <2>4. Pointed(S \cup R)'
    <3>1. SUFFICES ASSUME retired = 0, NEW a \in S \cup R
                   PROVE  /\ arena[a].index \in InUse'
                          /\ slots'[arena[a].index].offset = a + CellHeader
      BY <1>4 DEF Pointed
    <3>2. /\ arena[a].index \in InUse /\ slots[arena[a].index].offset = a + CellHeader
          /\ c.index \in InUse /\ slots[c.index].offset = compact_read + CellHeader
      BY <1>2, <1>3, <2>1, <3>1 DEF Pointed, c
    <3>3. a # compact_read /\ a \in Nat /\ compact_read \in Nat
      BY <1>3, <2>1, Addressed
    <3>4. arena[a].index # c.index  BY <3>2, <3>3, HeaderSize
    <3> QED BY <1>5, <3>2, <3>4 DEF InUse
  <2> QED BY <2>2, <2>3, <2>4 DEF LayoutInv
<1>10. Kept'
  <2>1. SUFFICES ASSUME retired = 0 PROVE \E X \in SUBSET Handles : Closed(X)'
    BY DEF Kept
  <2>2. PICK X \in SUBSET Handles : Closed(X)  BY <1>1, <2>1 DEF Kept
  <2>3. slots[c.index].mark # "BLACK"
    BY <1>2, <1>3, <2>1 DEF Pointed, c
  <2>4. \A h \in X : /\ h.index \in Indices /\ slots[h.index].mark = "BLACK"
                     /\ Resolves(h) /\ CellOf(h.index).refs \subseteq X
    BY <2>2 DEF Closed, Handles
  <2>5. \A h \in X : /\ slots'[h.index] = slots[h.index]
                     /\ Resolves(h)' /\ CellOf(h.index)' = CellOf(h.index)
    BY <1>4, <1>5, <2>3, <2>4 DEF Resolves, CellOf
  <2>6. roots' \subseteq X  BY <2>2 DEF Closed
  <2>7. Closed(X)'  BY <2>4, <2>5, <2>6 DEF Closed
  <2> QED BY <2>7
<1>11. Tricolour'  BY DEF Tricolour
<1> QED BY <1>5, <1>6, <1>7, <1>9, <1>10, <1>11 DEF IInv

\* A cell that moves down, over its own old place it may be.
LEMMA CompactLiveKeeps ==
    ASSUME IInv, phase = "Compacting", compact_read < used,
           LET c == arena[compact_read]
           IN  /\ c.index \in InUse /\ slots[c.index].mark = "BLACK"
               /\ slots[c.index].offset = compact_read + CellHeader,
           CompactLive(arena[compact_read]),
           compact_read' = compact_read + Size(arena[compact_read]),
           UNCHANGED <<worklist, used, phase, roots, issued, retired>>
    PROVE  IInv'
<1> DEFINE c == arena[compact_read]
<1>1. TypeOK /\ Issues /\ LayoutInv /\ Kept /\ Tricolour /\ Counts  BY DEF IInv
<1>2. PICK S, T \in SUBSET Addresses : Layout(S, T) /\ Placed(S \cup T) /\ Pointed(S \cup T)
  BY <1>1 DEF LayoutInv
<1>3. /\ c \in Cells /\ compact_read \in Addresses /\ compact_read \in T
      /\ compact_read' \in Nat /\ compact_read' <= ArenaSize
      /\ compact_read' % CellHeader = 0
      /\ Tiles(arena, T \ {compact_read}, compact_read', Align(used))
      /\ \A a \in T \ {compact_read} : a \in Nat /\ compact_read' <= a
      /\ \A a \in S : a \in Nat /\ a < compact_write
      /\ compact_write \in Nat /\ compact_write % CellHeader = 0
      /\ compact_read \in Nat /\ compact_write <= compact_read
      /\ Tiles(arena, S, 0, compact_write)
  BY <1>1, <1>2, CellFound
<1>4. /\ c.index \in Indices /\ c.length \in Nat /\ Size(c) \in Nat /\ 0 < Size(c)
      /\ Size(c) % CellHeader = 0 /\ CellHeader + c.length <= Size(c)
      /\ CellHeader \in Nat \ {0} /\ ArenaSize \in Nat
  BY <1>3, CellSize, HeaderSize, Bounds
<1>5. /\ compact_read' = compact_read + Size(c)
      /\ compact_write' = compact_write + Size(c)
      /\ slots' = [slots EXCEPT ![c.index].offset = compact_write + CellHeader]
      /\ arena' = IF compact_write = compact_read THEN arena
                  ELSE Written(compact_write, CellHeader + c.length, c)
      /\ live' = live /\ free_hint' = free_hint
  BY DEF CompactLive, Size
<1>6. c.index \in InUse /\ slots[c.index].mark = "BLACK"
      /\ slots[c.index].offset = compact_read + CellHeader
  OBVIOUS
<1>7. slots[c.index] \in Slots /\ slots \in [Indices -> Slots]  BY <1>1, <1>4 DEF TypeOK
<1> HIDE DEF c
<1>8. compact_write \in Addresses  BY <1>3, <1>4, <1>5, Addressed
<1>9. /\ \A a \in Addresses : \/ arena'[a] = arena[a]
                              \/ a = compact_write /\ arena'[a] = c
                              \/ arena'[a] = NoHeader
      /\ arena'[compact_write] = c
      /\ \A a \in S \cup (T \ {compact_read}) : arena'[a] = arena[a]
  <2>1. CASE compact_write = compact_read  BY <1>5, <2>1 DEF c
  <2>2. CASE compact_write # compact_read
    <3>1. arena' = [b \in Addresses |->
                      IF b = compact_write THEN c
                      ELSE IF b \in compact_write .. compact_write + (CellHeader + c.length) - 1
                           THEN NoHeader ELSE arena[b]]
      BY <1>5, <2>2 DEF Written
    <3>2. ASSUME NEW a \in S \cup (T \ {compact_read})
          PROVE  /\ a \in Addresses /\ a # compact_write
                 /\ a \notin compact_write .. compact_write + (CellHeader + c.length) - 1
      <4>1. a \in Addresses /\ a \in Nat  BY <1>2, Addressed
      <4>2. CASE a \in S  BY <1>3, <1>4, <4>1, <4>2
      <4>3. CASE a \in T \ {compact_read}  BY <1>3, <1>4, <1>5, <4>1, <4>3
      <4> QED BY <3>2, <4>2, <4>3
    <3> QED BY <1>8, <3>1, <3>2
  <2> QED BY <2>1, <2>2
<1>10. /\ slots'[c.index].offset = compact_write + CellHeader
       /\ slots'[c.index].length = slots[c.index].length
       /\ slots'[c.index].generation = slots[c.index].generation
       /\ slots'[c.index].kind = slots[c.index].kind
       /\ slots'[c.index].mark = slots[c.index].mark
       /\ slots'[c.index] \in Slots
       /\ \A i \in Indices \ {c.index} : slots'[i] = slots[i]
  <2>1. slots'[c.index] = [slots[c.index] EXCEPT !.offset = compact_write + CellHeader]
        /\ \A i \in Indices \ {c.index} : slots'[i] = slots[i]
    BY <1>4, <1>5, <1>7
  <2>2. compact_write + CellHeader \in 0 .. ArenaSize
    BY <1>3, <1>4, <1>5
  <2> QED BY <1>7, <2>1, <2>2 DEF Slots
<1>11. SameUse(slots, slots') /\ InUse' = InUse /\ Counts'
  <2>1. SameUse(slots, slots')  BY <1>10 DEF SameUse
  <2> QED BY <1>1, <1>5, <2>1, CountsSame
<1>12. TypeOK'
  <2>1. slots' \in [Indices -> Slots]
    <3>1. slots' = [i \in Indices |-> slots'[i]]  BY <1>5, <1>7
    <3>2. \A i \in Indices : slots'[i] \in Slots  BY <1>7, <1>10
    <3> QED BY <3>1, <3>2
  <2>2. arena' \in [Addresses -> Cells \cup {NoHeader}]
    <3>1. arena' = [a \in Addresses |-> arena'[a]]
      BY <1>1, <1>5 DEF TypeOK, Written
    <3>2. \A a \in Addresses : arena'[a] \in Cells \cup {NoHeader}
      BY <1>1, <1>3, <1>9 DEF TypeOK
    <3> QED BY <3>1, <3>2
  <2>3. compact_read' \in 0 .. ArenaSize /\ compact_write' \in 0 .. compact_read'
    BY <1>3, <1>4, <1>5
  <2> QED BY <1>1, <1>5, <2>1, <2>2, <2>3 DEF TypeOK
<1>13. Issues'
  <2>1. \A a \in Addresses : arena[a].refs \subseteq Given  BY <1>1 DEF Issues, Known
  <2>2. c.refs \subseteq Given  BY <1>3, <2>1 DEF c
  <2>3. \A a \in Addresses : arena'[a].refs \subseteq Given
    BY <1>9, <2>1, <2>2 DEF NoHeader
  <2>4. roots' \subseteq Given  BY <1>1 DEF Issues, Known
  <2> QED BY <1>1, <1>11, <2>3, <2>4, IssuesSame
<1>14. PICK R \in SUBSET Addresses : R = T \ {compact_read}  OBVIOUS
<1>15. PICK Q \in SUBSET Addresses : Q = S \cup {compact_write}  BY <1>8
<1>16. \A i \in InUse : /\ i \in Indices /\ CellOf(i)' = CellOf(i)
                        /\ slots'[i].offset - CellHeader \in Q \cup R
                        /\ slots'[i].length = slots[i].length
                        /\ slots'[i].generation = slots[i].generation
  <2>1. SUFFICES ASSUME NEW i \in InUse
                 PROVE  /\ i \in Indices /\ CellOf(i)' = CellOf(i)
                        /\ slots'[i].offset - CellHeader \in Q \cup R
                        /\ slots'[i].length = slots[i].length
                        /\ slots'[i].generation = slots[i].generation
    OBVIOUS
  <2>2. i \in Indices  BY DEF InUse
  <2>3. CASE i = c.index
    <3>1. slots'[i].offset - CellHeader = compact_write
      BY <1>3, <1>4, <1>10, <2>3
    <3>2. slots[i].offset - CellHeader = compact_read
      BY <1>3, <1>4, <1>6, <2>3
    <3>3. CellOf(i)' = c /\ CellOf(i) = c  BY <1>9, <3>1, <3>2 DEF CellOf, c
    <3> QED BY <1>10, <1>15, <2>2, <2>3, <3>1, <3>3
  <2>4. CASE i # c.index
    <3>1. slots[i].offset - CellHeader \in S \cup T /\ CellOf(i).index = i
      BY <1>2 DEF Placed
    <3>2. slots[i].offset - CellHeader # compact_read
      BY <2>4, <3>1 DEF CellOf, c
    <3>3. slots[i].offset - CellHeader \in S \cup (T \ {compact_read})  BY <3>1, <3>2
    <3>4. slots'[i] = slots[i]  BY <1>10, <2>2, <2>4
    <3>5. CellOf(i)' = CellOf(i)  BY <1>9, <3>3, <3>4 DEF CellOf
    <3> QED BY <1>14, <1>15, <2>2, <3>3, <3>4, <3>5
  <2> QED BY <2>3, <2>4
<1>17. LayoutInv'
  <2>1. Tiles(arena', Q, 0, compact_write')
    <3>1. \A a \in S : arena'[a] = arena[a]  BY <1>9
    <3>2. arena'[compact_write] \in Cells /\ Size(arena'[compact_write]) = Size(c)
      BY <1>3, <1>9
    <3>3. Tiles(arena', S \cup {compact_write}, 0,
                compact_write + Size(arena'[compact_write]))
      BY <1>3, <1>8, <3>1, <3>2, TilesExtend
    <3> QED BY <1>5, <1>15, <3>2, <3>3
  <2>2. Tiles(arena', R, compact_read', Align(used))
    <3>1. \A a \in R : arena'[a] = arena[a]  BY <1>9, <1>14
    <3> QED BY <1>3, <1>14, <3>1, TilesAlike
  <2>3. compact_write' % CellHeader = 0
    BY <1>3, <1>4, <1>5, AlignedSum
  <2>4. Layout(Q, R)'
    BY <1>3, <2>1, <2>2, <2>3 DEF Layout
  <2>5. Placed(Q \cup R)'
    <3>1. SUFFICES ASSUME NEW i \in InUse'
                   PROVE  /\ slots'[i].offset - CellHeader \in Q \cup R
                          /\ CellOf(i)'.index = i /\ CellOf(i)'.length = slots'[i].length
                          /\ issued'[CellOf(i)'.cell] =
                                [index |-> i, generation |-> slots'[i].generation]
      BY DEF Placed
    <3>2. /\ CellOf(i).index = i /\ CellOf(i).length = slots[i].length
          /\ issued[CellOf(i).cell] = [index |-> i, generation |-> slots[i].generation]
      BY <1>2, <1>11 DEF Placed
    <3> QED BY <1>11, <1>16, <3>2
  <2>6. Pointed(Q \cup R)'
    <3>1. SUFFICES ASSUME retired = 0, NEW a \in Q \cup R
                   PROVE  /\ arena'[a].index \in InUse
                          /\ slots'[arena'[a].index].offset = a + CellHeader
      BY <1>11 DEF Pointed
    <3>2. CASE a = compact_write  BY <1>6, <1>9, <1>10, <3>2
    <3>3. CASE a # compact_write
      <4>1. a \in S \cup (T \ {compact_read})  BY <1>14, <1>15, <3>3
      <4>2. a \in Nat /\ a # compact_read
        <5>1. CASE a \in S  BY <1>3, <5>1
        <5>2. CASE a \in T \ {compact_read}  BY <5>2, Addressed
        <5> QED BY <4>1, <5>1, <5>2
      <4>3. arena'[a] = arena[a]  BY <1>9, <4>1
      <4>4. arena[a].index \in InUse /\ slots[arena[a].index].offset = a + CellHeader
        BY <1>2, <3>1, <4>1 DEF Pointed
      <4>5. arena[a].index # c.index  BY <1>3, <1>4, <1>6, <4>2, <4>4
      <4>6. slots'[arena[a].index] = slots[arena[a].index]
        BY <1>10, <4>4, <4>5 DEF InUse
      <4> QED BY <4>3, <4>4, <4>6
    <3> QED BY <3>2, <3>3
  <2> QED BY <2>4, <2>5, <2>6 DEF LayoutInv
<1>18. Kept'
  <2>1. SUFFICES ASSUME retired = 0 PROVE \E X \in SUBSET Handles : Closed(X)'
    BY DEF Kept
  <2>2. PICK X \in SUBSET Handles : Closed(X)  BY <1>1, <2>1 DEF Kept
  <2>3. \A h \in X : /\ h \in Handles /\ h.index \in Indices /\ h.index \in InUse
                     /\ slots[h.index].mark = "BLACK"
                     /\ Resolves(h) /\ CellOf(h.index).refs \subseteq X
    BY <2>2 DEF Closed, Handles, Resolves, InUse
  <2>4. \A h \in X : Resolves(h)'  BY <1>11, <2>3, ResolvesSame
  <2>5. \A h \in X : CellOf(h.index)' = CellOf(h.index)  BY <1>16, <2>3
  <2>6. \A h \in X : slots'[h.index].mark = "BLACK"  BY <1>10, <2>3
  <2>7. roots' \subseteq X  BY <2>2 DEF Closed
  <2>8. Closed(X)'  BY <2>3, <2>4, <2>5, <2>6, <2>7 DEF Closed
  <2> QED BY <2>8
<1>19. Tricolour'  BY DEF Tricolour
<1> QED BY <1>11, <1>12, <1>13, <1>17, <1>18, <1>19 DEF IInv

LEMMA CompactCellKeeps ==
    ASSUME IInv, CompactCell
    PROVE  IInv'
<1> DEFINE c == arena[compact_read]
           isLive == /\ c.index \in InUse /\ slots[c.index].mark = "BLACK"
                     /\ slots[c.index].offset = compact_read + CellHeader
<1>1. /\ phase = "Compacting" /\ compact_read < used
      /\ compact_read' = compact_read + Size(c)
      /\ UNCHANGED <<worklist, used, phase, roots, issued, retired>>
      /\ IF isLive THEN CompactLive(c) ELSE CompactDead(c)
  BY DEF CompactCell, Size
<1>2. CASE isLive
  <2>1. CompactLive(c)  BY <1>1, <1>2
  <2> QED BY <1>1, <1>2, <2>1, CompactLiveKeeps
<1>3. CASE ~isLive
  <2>1. CompactDead(c)  BY <1>1, <1>3
  <2> QED BY <1>1, <1>3, <2>1, CompactDeadKeeps
<1> QED BY <1>2, <1>3

-----------------------------------------------------------------------------
(* The steps of the machine.                                               *)

LEMMA AllocateKeeps ==
    ASSUME IInv, NEW n \in Lengths, Allocate(n)
    PROVE  IInv'
<1> DEFINE header == Align(used)
           i == FirstFree
           h == [index |-> i, generation |-> slots[i].generation]
           c == [index |-> i, length |-> n, cell |-> NextCell, refs |-> {}]
<1>1. TypeOK /\ Issues /\ LayoutInv /\ Kept /\ Tricolour /\ Counts  BY DEF IInv
<1>2. /\ header + CellHeader + n <= ArenaSize
      /\ phase = "Idle" /\ InUse # Indices /\ NextCell <= MaxCells
      /\ slots' = [slots EXCEPT ![i].offset = header + CellHeader, ![i].length = n,
                                ![i].kind = "Cell", ![i].mark = "WHITE"]
      /\ arena' = Written(header, CellHeader + n, c)
      /\ used' = header + CellHeader + n /\ live' = live + 1 /\ free_hint' = i + 1
      /\ roots' = roots \cup {h}
      /\ issued' = [issued EXCEPT ![NextCell] = h]
      /\ UNCHANGED <<worklist, phase, compact_read, compact_write, retired>>
  BY DEF Allocate, AllocateTo
<1>3. /\ i \in Indices /\ i \notin InUse /\ i \in Nat /\ i < SlotCount
      /\ (\A j \in Indices : j < free_hint => j \in InUse) =>
             \A j \in Indices : j < i => j \in InUse
  BY <1>1, <1>2, FreeFound, Bounds
<1>4. /\ NextCell \in 1 .. MaxCells
      /\ \A m \in 1 .. MaxCells : issued[m] # NoHeader <=> m <= NextCell - 1
  BY <1>1, <1>2, CellNumbered DEF Issues
<1>5. /\ n \in Nat /\ CellHeader \in Nat \ {0} /\ ArenaSize \in Nat /\ SlotCount \in Nat
      /\ MaxCells \in Nat /\ used \in Nat
  BY <1>1, Bounds, HeaderSize DEF TypeOK
<1>6. header \in Nat /\ header % CellHeader = 0  BY <1>5, AlignUp
<1>7. header \in Addresses  BY <1>2, <1>5, <1>6, Addressed
<1>8. slots \in [Indices -> Slots] /\ slots[i] \in Slots /\ slots[i].kind = "Free"
      /\ slots[i].generation \in 1 .. MaxGeneration
  BY <1>1, <1>3 DEF TypeOK, InUse, Slots
<1>9. h \in Handles /\ h # NoHeader /\ h.index = i /\ h.generation = slots[i].generation
  <2>1. h \in Handles  BY <1>3, <1>8 DEF Handles
  <2>2. h.index # -1  BY <1>3
  <2> QED BY <2>1, <2>2 DEF NoHeader
<1>10. c \in Cells /\ c.index = i /\ c.length = n /\ c.cell = NextCell /\ c.refs = {}
  BY <1>3, <1>4 DEF Cells
<1>11. Size(c) = Align(CellHeader + n)  BY <1>10 DEF Size
<1> HIDE DEF header, i, h, c
<1>12. slots' = [slots EXCEPT ![i] = [offset |-> header + CellHeader, length |-> n,
                                      generation |-> slots[i].generation,
                                      kind |-> "Cell", mark |-> "WHITE"]]
  BY <1>2, <1>3, <1>8 DEF Slots
<1>13. /\ slots'[i].offset = header + CellHeader /\ slots'[i].length = n
       /\ slots'[i].generation = slots[i].generation /\ slots'[i].kind = "Cell"
       /\ \A j \in Indices \ {i} : slots'[j] = slots[j]
       /\ slots' \in [Indices -> Slots]
  <2>1. header + CellHeader \in 0 .. ArenaSize  BY <1>2, <1>5, <1>6
  <2>2. [offset |-> header + CellHeader, length |-> n, generation |-> slots[i].generation,
         kind |-> "Cell", mark |-> "WHITE"] \in Slots
    BY <1>8, <2>1 DEF Slots, Kinds, Marks
  <2> QED BY <1>3, <1>8, <1>12, <2>2
<1>14. InUse' = InUse \cup {i}  BY <1>3, <1>13 DEF InUse
<1>15. /\ issued \in [1 .. MaxCells -> Handles \cup {NoHeader}]
       /\ issued'[NextCell] = h /\ issued[NextCell] = NoHeader
       /\ \A m \in 1 .. MaxCells : m # NextCell => issued'[m] = issued[m]
       /\ issued' \in [1 .. MaxCells -> Handles \cup {NoHeader}]
  BY <1>1, <1>2, <1>4, <1>9 DEF TypeOK
<1>16. /\ arena'[header] = c
       /\ \A a \in Addresses : a < header => arena'[a] = arena[a]
       /\ \A a \in Addresses : \/ arena'[a] = arena[a]
                               \/ a = header /\ arena'[a] = c
                               \/ arena'[a] = NoHeader
       /\ arena' = [a \in Addresses |-> arena'[a]]
  <2>1. arena' = [b \in Addresses |->
                     IF b = header THEN c
                     ELSE IF b \in header .. header + (CellHeader + n) - 1
                          THEN NoHeader ELSE arena[b]]
    BY <1>2 DEF Written
  <2>2. \A a \in Addresses : a < header =>
           a # header /\ a \notin header .. header + (CellHeader + n) - 1
    BY <1>6, Addressed
  <2> QED BY <1>7, <2>1, <2>2
<1>17. PICK S, T \in SUBSET Addresses : Layout(S, T) /\ Placed(S \cup T) /\ Pointed(S \cup T)
  BY <1>1 DEF LayoutInv
<1>18. Tiles(arena, S, 0, header) /\ T = {}  BY <1>2, <1>17 DEF Layout, header
<1>19. \A a \in S : a \in Addresses /\ a \in Nat /\ a < header /\ arena'[a] = arena[a]
  BY <1>6, <1>16, <1>18, TilesWithin
<1>20. \A j \in InUse : /\ j \in Indices /\ j # i /\ slots'[j] = slots[j]
                        /\ slots[j].offset - CellHeader \in S
                        /\ CellOf(j)' = CellOf(j) /\ CellOf(j).index = j
                        /\ CellOf(j).length = slots[j].length
                        /\ issued[CellOf(j).cell] =
                              [index |-> j, generation |-> slots[j].generation]
                        /\ CellOf(j).cell \in 1 .. MaxCells /\ CellOf(j).cell # NextCell
  <2>1. SUFFICES ASSUME NEW j \in InUse
                 PROVE  /\ j \in Indices /\ j # i /\ slots'[j] = slots[j]
                        /\ slots[j].offset - CellHeader \in S
                        /\ CellOf(j)' = CellOf(j) /\ CellOf(j).index = j
                        /\ CellOf(j).length = slots[j].length
                        /\ issued[CellOf(j).cell] =
                              [index |-> j, generation |-> slots[j].generation]
                        /\ CellOf(j).cell \in 1 .. MaxCells /\ CellOf(j).cell # NextCell
    OBVIOUS
  <2>2. j \in Indices /\ j # i  BY <1>3 DEF InUse
  <2>3. slots'[j] = slots[j]  BY <1>13, <2>2
  <2>4. /\ slots[j].offset - CellHeader \in S
        /\ CellOf(j).index = j /\ CellOf(j).length = slots[j].length
        /\ issued[CellOf(j).cell] = [index |-> j, generation |-> slots[j].generation]
    BY <1>17, <1>18 DEF Placed
  <2>5. CellOf(j)' = CellOf(j)  BY <1>19, <2>3, <2>4 DEF CellOf
  <2>6. CellOf(j) \in Cells  BY <1>1, CellTyped
  <2>7. CellOf(j).cell \in 1 .. MaxCells  BY <2>6, CellSize
  <2>8. CellOf(j).cell # NextCell
    <3>1. issued[CellOf(j).cell].index = j  BY <2>4
    <3>2. NoHeader.index = -1 /\ j \in Nat  BY <2>2, Bounds DEF NoHeader
    <3> QED BY <1>15, <3>1, <3>2
  <2> QED BY <2>2, <2>3, <2>4, <2>5, <2>7, <2>8
<1>21. TypeOK'
  <2>1. arena' \in [Addresses -> Cells \cup {NoHeader}]
    <3>1. \A a \in Addresses : arena'[a] \in Cells \cup {NoHeader}
      BY <1>1, <1>10, <1>16 DEF TypeOK
    <3> QED BY <1>16, <3>1
  <2>2. used' \in 0 .. ArenaSize  BY <1>2, <1>5, <1>6
  <2>3. live' \in 0 .. SlotCount
    <3>1. InUse \in SUBSET Indices /\ Indices \ InUse # {}  BY <1>3 DEF InUse
    <3>2. IsFiniteSet(InUse) /\ Cardinality(InUse) \in Nat  BY <3>1, TableFinite
    <3>3. Cardinality(InUse \cup {i}) = Cardinality(InUse) + 1
      BY <1>3, <3>2, FS_AddElement
    <3>4. InUse \cup {i} \in SUBSET Indices  BY <1>3, <3>1
    <3>5. Cardinality(InUse \cup {i}) <= SlotCount  BY <3>4, TableFinite
    <3>6. live <= Cardinality(InUse) /\ live \in Nat  BY <1>1, Bounds DEF Counts, TypeOK
    <3> QED BY <1>2, <1>5, <3>2, <3>3, <3>5, <3>6
  <2>4. free_hint' \in 0 .. SlotCount  BY <1>2, <1>3, <1>5
  <2>5. roots' \subseteq Handles  BY <1>1, <1>2, <1>9 DEF TypeOK
  <2> QED BY <1>1, <1>2, <1>13, <1>15, <2>1, <2>2, <2>3, <2>4, <2>5 DEF TypeOK
<1>22. Issues'
  <2>1. Given \subseteq Given' \cup {NoHeader} /\ h \in Given'
    BY <1>4, <1>15 DEF Given
  <2>2. Known'
    <3>1. roots \subseteq Handles /\ roots \subseteq Given
      BY <1>1 DEF TypeOK, Issues, Known
    <3>2. NoHeader \notin Handles  BY Bounds DEF NoHeader, Handles
    <3>3. roots' \subseteq Given'  BY <1>2, <2>1, <3>1, <3>2
    <3>4. ASSUME NEW a \in Addresses PROVE arena'[a].refs \subseteq Given'
      <4>1. arena[a] \in Cells \cup {NoHeader} /\ arena[a].refs \subseteq Given
        BY <1>1 DEF TypeOK, Issues, Known
      <4>2. arena[a].refs \subseteq Handles  BY <4>1, CellSize DEF NoHeader
      <4>3. arena[a].refs \subseteq Given'  BY <2>1, <3>2, <4>1, <4>2
      <4> QED BY <1>10, <1>16, <4>3 DEF NoHeader
    <3> QED BY <3>3, <3>4 DEF Known
  <2>3. Numbered'
    <3>1. \A m \in 1 .. MaxCells : issued'[m] # NoHeader <=> m <= NextCell
      BY <1>4, <1>5, <1>9, <1>15
    <3>2. NextCell \in 0 .. MaxCells  BY <1>4
    <3> QED BY <3>1, <3>2 DEF Numbered
  <2>4. ASSUME NEW m \in 1 .. MaxCells, issued'[m] # NoHeader, m # NextCell
        PROVE  /\ issued'[m] = issued[m] /\ issued[m] # NoHeader
               /\ issued[m].index \in Indices /\ issued[m].generation \in Nat
               /\ issued[m].generation <= slots[issued[m].index].generation
               /\ slots[issued[m].index].kind = "Free" /\
                      slots[issued[m].index].generation < MaxGeneration =>
                         issued[m].generation < slots[issued[m].index].generation
    <3>1. issued'[m] = issued[m]  BY <1>15, <2>4
    <3>2. issued[m] \in Handles  BY <1>15, <2>4, <3>1
    <3>3. issued[m].index \in Indices /\ issued[m].generation \in Nat
      BY <3>2 DEF Handles
    <3> QED BY <1>1, <2>4, <3>1, <3>3 DEF Issues, Older
  <2>5. Older'
    <3>1. SUFFICES ASSUME NEW m \in 1 .. MaxCells, issued'[m] # NoHeader
                   PROVE  /\ issued'[m].generation <= slots'[issued'[m].index].generation
                          /\ slots'[issued'[m].index].kind = "Free" /\
                               slots'[issued'[m].index].generation < MaxGeneration =>
                                 issued'[m].generation < slots'[issued'[m].index].generation
      BY DEF Older
    <3>2. CASE m = NextCell  BY <1>8, <1>9, <1>13, <1>15, <3>2
    <3>3. CASE m # NextCell
      <4>1. CASE issued[m].index = i
        BY <1>8, <1>13, <2>4, <3>1, <3>3, <4>1
      <4>2. CASE issued[m].index # i
        BY <1>13, <2>4, <3>1, <3>3, <4>2
      <4> QED BY <4>1, <4>2
    <3> QED BY <3>2, <3>3
  <2>6. Once'
    <3>1. ASSUME NEW m \in 1 .. MaxCells, m # NextCell, issued'[m] = h,
                 h.generation < MaxGeneration
          PROVE  FALSE
      <4>1. issued[m] = h /\ issued'[m] # NoHeader  BY <1>9, <1>15, <3>1
      <4>2. h.generation < slots[i].generation
        BY <1>8, <1>9, <2>4, <3>1, <4>1
      <4> QED BY <1>8, <1>9, <4>2
    <3>2. SUFFICES ASSUME NEW m \in 1 .. MaxCells, NEW k \in 1 .. MaxCells,
                          issued'[m] # NoHeader, issued'[m] = issued'[k],
                          issued'[m].generation < MaxGeneration
                   PROVE  m = k
      BY DEF Once
    <3>3. CASE m = NextCell /\ k # NextCell  BY <1>15, <3>1, <3>2, <3>3
    <3>4. CASE k = NextCell /\ m # NextCell  BY <1>15, <3>1, <3>2, <3>4
    <3>5. CASE m # NextCell /\ k # NextCell
      <4>1. issued'[m] = issued[m] /\ issued'[k] = issued[k]  BY <1>15, <3>5
      <4> QED BY <1>1, <3>2, <4>1 DEF Issues, Once
    <3> QED BY <3>3, <3>4, <3>5
  <2> QED BY <2>2, <2>3, <2>5, <2>6 DEF Issues
<1>23. PICK Q \in SUBSET Addresses : Q = S \cup {header}  BY <1>7
<1>24. LayoutInv'
  <2>1. Tiles(arena', Q, 0, Align(used'))
    <3>1. \A a \in S : arena'[a] = arena[a]  BY <1>19
    <3>2. arena'[header] \in Cells /\ Size(arena'[header]) = Align(CellHeader + n)
      BY <1>10, <1>11, <1>16
    <3>3. Tiles(arena', S \cup {header}, 0, header + Size(arena'[header]))
      BY <1>7, <1>18, <3>1, <3>2, TilesExtend
    <3>4. CellHeader + n \in Nat  BY <1>5
    <3>5. Align(header + (CellHeader + n)) = header + Align(CellHeader + n)
      BY <1>6, <3>4, AlignPast
    <3>6. used' = header + (CellHeader + n)  BY <1>2, <1>5, <1>6
    <3> QED BY <1>23, <3>2, <3>3, <3>5, <3>6
  <2>2. Layout(Q, {})'  BY <1>2, <2>1 DEF Layout
  <2>3. Placed(Q \cup {})'
    <3>1. SUFFICES ASSUME NEW j \in InUse'
                   PROVE  /\ slots'[j].offset - CellHeader \in Q \cup {}
                          /\ CellOf(j)'.index = j /\ CellOf(j)'.length = slots'[j].length
                          /\ issued'[CellOf(j)'.cell] =
                                [index |-> j, generation |-> slots'[j].generation]
      BY DEF Placed
    <3>2. CASE j = i
      <4>1. slots'[j].offset - CellHeader = header  BY <1>5, <1>6, <1>13, <3>2
      <4>2. CellOf(j)' = c  BY <1>16, <4>1 DEF CellOf
      <4>3. issued'[c.cell] = h  BY <1>10, <1>15
      <4>4. h = [index |-> j, generation |-> slots'[j].generation]
        BY <1>13, <3>2 DEF h
      <4> QED BY <1>10, <1>13, <1>23, <3>2, <4>1, <4>2, <4>3, <4>4
    <3>3. CASE j # i
      <4>1. j \in InUse  BY <1>14, <3>3
      <4>2. slots'[j] = slots[j] /\ CellOf(j)' = CellOf(j)  BY <1>20, <4>1
      <4>3. slots[j].offset - CellHeader \in Q \cup {}  BY <1>20, <1>23, <4>1
      <4>4. issued'[CellOf(j).cell] = [index |-> j, generation |-> slots[j].generation]
        BY <1>15, <1>20, <4>1
      <4> QED BY <1>20, <4>1, <4>2, <4>3, <4>4
    <3> QED BY <3>2, <3>3
  <2>4. Pointed(Q \cup {})'
    <3>1. SUFFICES ASSUME retired = 0, NEW a \in Q
                   PROVE  /\ arena'[a].index \in InUse'
                          /\ slots'[arena'[a].index].offset = a + CellHeader
      BY <1>2 DEF Pointed
    <3>2. CASE a = header  BY <1>10, <1>13, <1>14, <1>16, <3>2
    <3>3. CASE a # header
      <4>1. a \in S  BY <1>23, <3>3
      <4>2. arena[a].index \in InUse /\ slots[arena[a].index].offset = a + CellHeader
        BY <1>17, <3>1, <4>1 DEF Pointed
      <4> QED BY <1>14, <1>19, <1>20, <4>1, <4>2
    <3> QED BY <3>2, <3>3
  <2> QED BY <2>2, <2>3, <2>4 DEF LayoutInv
<1>25. Kept'
  <2>1. SUFFICES ASSUME retired = 0 PROVE \E X \in SUBSET Handles : Closed(X)'
    BY <1>2 DEF Kept
  <2>2. PICK X \in SUBSET Handles : Closed(X)  BY <1>1, <2>1 DEF Kept
  <2>3. PICK Y \in SUBSET Handles : Y = X \cup {h}  BY <1>9
  <2>4. roots' \subseteq Y  BY <1>2, <2>2, <2>3 DEF Closed
  <2>5. \A k \in X : /\ k.index \in InUse /\ Resolves(k)'
                     /\ CellOf(k.index)'.refs \subseteq X
    <3>1. TAKE k \in X
    <3>2. k.index \in Indices /\ Resolves(k) /\ CellOf(k.index).refs \subseteq X
      BY <2>2 DEF Closed, Handles
    <3>3. k.index \in InUse  BY <3>2 DEF InUse, Resolves
    <3> QED BY <1>20, <3>2, <3>3 DEF Resolves
  <2>6. PICK g \in Handles : g = h  BY <1>9
  <2>9. Resolves(g)' /\ CellOf(g.index)'.refs = {}
    <3>1. g.index = i /\ g.generation = slots[i].generation  BY <1>9, <2>6
    <3>2. Resolves(g)'  BY <1>13, <3>1 DEF Resolves
    <3>3. slots'[g.index].offset - CellHeader = header  BY <1>5, <1>6, <1>13, <3>1
    <3>4. CellOf(g.index)' = c  BY <1>16, <3>3 DEF CellOf
    <3> QED BY <1>10, <3>2, <3>4
  <2>7. \A k \in Y : Resolves(k)' /\ CellOf(k.index)'.refs \subseteq Y
    BY <2>3, <2>5, <2>6, <2>9
  <2>8. Closed(Y)'  BY <1>2, <2>4, <2>7 DEF Closed
  <2> QED BY <2>8
<1>26. Tricolour'  BY <1>2 DEF Tricolour
<1>27. Counts'
  <2>1. InUse \in SUBSET Indices  BY DEF InUse
  <2>2. IsFiniteSet(InUse) /\ Cardinality(InUse) \in Nat  BY <2>1, TableFinite
  <2>3. Cardinality(InUse') = Cardinality(InUse) + 1
    BY <1>3, <1>14, <2>2, FS_AddElement
  <2>4. live' <= Cardinality(InUse')
    BY <1>1, <1>2, <1>5, <2>2, <2>3 DEF Counts, TypeOK
  <2>5. CountsAgree'
    <3>1. SUFFICES ASSUME \A j \in Indices : slots'[j].generation < MaxGeneration
                   PROVE  /\ live' = Cardinality(InUse')
                          /\ \A j \in Indices : j < free_hint' => j \in InUse'
      BY DEF CountsAgree
    <3>2. \A j \in Indices : slots[j].generation < MaxGeneration  BY <1>13, <3>1
    <3>3. live = Cardinality(InUse) /\ \A j \in Indices : j < free_hint => j \in InUse
      BY <1>1, <3>2 DEF Counts, CountsAgree
    <3>4. ASSUME NEW j \in Indices, j < free_hint' PROVE j \in InUse'
      <4>1. j \in Nat  BY Bounds
      <4>2. j < i \/ j = i  BY <1>2, <1>3, <3>4, <4>1
      <4> QED BY <1>3, <1>14, <3>3, <4>2
    <3> QED BY <1>2, <2>3, <3>3, <3>4
  <2> QED BY <2>4, <2>5 DEF Counts
<1> QED BY <1>21, <1>22, <1>24, <1>25, <1>26, <1>27 DEF IInv

LEMMA TilesSized ==
    ASSUME NEW ar, NEW br, NEW S, NEW lo, NEW hi, Tiles(ar, S, lo, hi),
           \A a \in S : br[a] \in Cells /\ br[a].length = ar[a].length
    PROVE  Tiles(br, S, lo, hi)
BY DEF Tiles, Size

LEMMA StoreKeeps ==
    ASSUME IInv, NEW h \in roots, NEW refs \in SUBSET roots, Store(h, refs)
    PROVE  IInv'
<1>1. TypeOK /\ Issues /\ LayoutInv /\ Kept /\ Tricolour /\ Counts  BY DEF IInv
<1>2. /\ phase = "Idle" /\ Resolves(h)
      /\ arena' = [arena EXCEPT ![slots[h.index].offset - CellHeader].refs = refs]
      /\ UNCHANGED <<slots, worklist, used, live, free_hint, phase, compact_read,
                     compact_write, roots, issued, retired>>
  BY DEF Store
<1>3. h \in Handles /\ refs \in SUBSET Handles /\ refs \subseteq Given
  BY <1>1 DEF TypeOK, Issues, Known
<1>4. h.index \in InUse  BY <1>2, <1>3 DEF InUse, Resolves, Handles
<1>5. /\ slots[h.index].offset - CellHeader \in Addresses
      /\ arena[slots[h.index].offset - CellHeader] \in Cells
  BY <1>1, <1>4, CellTyped DEF CellOf
<1>6. PICK a \in Addresses : a = slots[h.index].offset - CellHeader  BY <1>5
<1>7. /\ arena' \in [Addresses -> Cells \cup {NoHeader}]
      /\ arena[a] \in Cells /\ arena'[a] \in Cells /\ arena'[a].refs = refs
      /\ arena'[a].index = arena[a].index /\ arena'[a].length = arena[a].length
      /\ arena'[a].cell = arena[a].cell
      /\ \A b \in Addresses : b # a => arena'[b] = arena[b]
  <2>1. arena \in [Addresses -> Cells \cup {NoHeader}]  BY <1>1 DEF TypeOK
  <2>2. arena[a] \in Cells  BY <1>5, <1>6
  <2>3. arena' = [arena EXCEPT ![a] = [arena[a] EXCEPT !.refs = refs]]
    BY <1>2, <1>6, <2>1
  <2>4. [arena[a] EXCEPT !.refs = refs] =
           [index |-> arena[a].index, length |-> arena[a].length,
            cell |-> arena[a].cell, refs |-> refs]
    BY <2>2 DEF Cells
  <2>5. [arena[a] EXCEPT !.refs = refs] \in Cells
    BY <1>3, <2>2, <2>4, CellSize DEF Cells
  <2> QED BY <2>1, <2>2, <2>3, <2>4, <2>5
<1>8. InUse' = InUse /\ InUse \subseteq Indices  BY <1>2 DEF InUse
<1>9. \A j \in InUse : /\ CellOf(j)'.index = CellOf(j).index
                       /\ CellOf(j)'.length = CellOf(j).length
                       /\ CellOf(j)'.cell = CellOf(j).cell
                       /\ CellOf(j)'.refs \subseteq CellOf(j).refs \cup refs
  <2>1. TAKE j \in InUse
  <2>2. slots[j].offset - CellHeader \in Addresses  BY <1>1, CellTyped
  <2>3. CellOf(j)' = arena'[slots[j].offset - CellHeader]  BY <1>2 DEF CellOf
  <2>4. CASE slots[j].offset - CellHeader = a  BY <1>7, <2>3, <2>4 DEF CellOf
  <2>5. CASE slots[j].offset - CellHeader # a  BY <1>7, <2>2, <2>3, <2>5 DEF CellOf
  <2> QED BY <2>4, <2>5
<1>10. TypeOK'  BY <1>1, <1>2, <1>7 DEF TypeOK
<1>11. SameUse(slots, slots')  BY <1>2 DEF SameUse
<1>12. Issues'
  <2>1. roots' \subseteq Given  BY <1>1, <1>2 DEF Issues, Known
  <2>2. \A b \in Addresses : arena'[b].refs \subseteq Given
    BY <1>1, <1>3, <1>7 DEF Issues, Known
  <2> QED BY <1>1, <1>2, <1>11, <2>1, <2>2, IssuesSame
<1>13. Counts'  BY <1>1, <1>2, <1>11, CountsSame
<1>14. Tricolour'  BY <1>2 DEF Tricolour
<1>15. LayoutInv'
  <2>1. PICK S, T \in SUBSET Addresses : Layout(S, T) /\ Placed(S \cup T) /\ Pointed(S \cup T)
    BY <1>1 DEF LayoutInv
  <2>2. Tiles(arena, S, 0, Align(used)) /\ T = {}  BY <1>2, <2>1 DEF Layout
  <2>3. \A b \in S : /\ arena'[b] \in Cells /\ arena'[b].length = arena[b].length
                     /\ arena'[b].index = arena[b].index
    <3>1. TAKE b \in S
    <3>2. arena[b] \in Cells /\ b \in Addresses  BY <2>2 DEF Tiles
    <3> QED BY <1>7, <3>2
  <2>4. Tiles(arena', S, 0, Align(used))  BY <2>2, <2>3, TilesSized
  <2>5. Layout(S, T)'  BY <1>2, <2>2, <2>4 DEF Layout
  <2>6. Placed(S \cup T)'
    <3>1. SUFFICES ASSUME NEW j \in InUse
                   PROVE  /\ slots[j].offset - CellHeader \in S \cup T
                          /\ CellOf(j)'.index = j /\ CellOf(j)'.length = slots[j].length
                          /\ issued[CellOf(j)'.cell] =
                                [index |-> j, generation |-> slots[j].generation]
      BY <1>2, <1>8 DEF Placed
    <3> QED BY <1>9, <2>1 DEF Placed
  <2>7. Pointed(S \cup T)'
    <3>1. SUFFICES ASSUME retired = 0, NEW b \in S \cup T
                   PROVE  /\ arena'[b].index \in InUse
                          /\ slots[arena'[b].index].offset = b + CellHeader
      BY <1>2, <1>8 DEF Pointed
    <3>2. arena'[b].index = arena[b].index  BY <2>2, <2>3
    <3> QED BY <2>1, <3>1, <3>2 DEF Pointed
  <2> QED BY <2>5, <2>6, <2>7 DEF LayoutInv
<1>16. Kept'
  <2>1. SUFFICES ASSUME retired = 0 PROVE \E X \in SUBSET Handles : Closed(X)'
    BY <1>2 DEF Kept
  <2>2. PICK X \in SUBSET Handles : Closed(X)  BY <1>1, <2>1 DEF Kept
  <2>3. roots' \subseteq X /\ refs \subseteq X  BY <1>2, <2>2 DEF Closed
  <2>4. ASSUME NEW k \in X PROVE Resolves(k)' /\ CellOf(k.index)'.refs \subseteq X
    <3>1. Resolves(k) /\ CellOf(k.index).refs \subseteq X /\ k.index \in Indices
      BY <2>2 DEF Closed, Handles
    <3>2. k.index \in InUse  BY <3>1 DEF InUse, Resolves
    <3>3. Resolves(k)'  BY <1>2, <3>1 DEF Resolves
    <3> QED BY <1>9, <2>3, <3>1, <3>2, <3>3
  <2>5. Closed(X)'  BY <1>2, <2>3, <2>4 DEF Closed
  <2> QED BY <2>5
<1> QED BY <1>10, <1>12, <1>13, <1>14, <1>15, <1>16 DEF IInv

\* A step that only loads or drops a handle.
LEMMA RootsOnly ==
    ASSUME IInv, phase = "Idle", UNCHANGED <<heap, issued, retired>>,
           roots' \subseteq Handles, roots' \subseteq Given,
           \A X : Closed(X) => roots' \subseteq X
    PROVE  IInv'
<1>1. TypeOK /\ Issues /\ LayoutInv /\ Kept /\ Tricolour /\ Counts  BY DEF IInv
<1>2. UNCHANGED <<arena, slots, worklist, used, live, free_hint, phase, compact_read,
                  compact_write, issued, retired>>
  BY DEF heap
<1>3. TypeOK'  BY <1>1, <1>2 DEF TypeOK
<1>4. SameUse(slots, slots')  BY <1>2 DEF SameUse
<1>5. Issues'
  <2>1. \A a \in Addresses : arena'[a].refs \subseteq Given
    BY <1>1, <1>2 DEF Issues, Known
  <2> QED BY <1>1, <1>2, <1>4, <2>1, IssuesSame
<1>6. Counts'  BY <1>1, <1>2, <1>4, CountsSame
<1>7. LayoutInv'
  BY <1>1, <1>2 DEF LayoutInv, Layout, Placed, Pointed, CellOf, InUse
<1>8. Tricolour'  BY <1>2 DEF Tricolour
<1>9. Kept'
  <2>1. SUFFICES ASSUME retired = 0 PROVE \E X \in SUBSET Handles : Closed(X)'
    BY <1>2 DEF Kept
  <2>2. PICK X \in SUBSET Handles : Closed(X)  BY <1>1, <2>1 DEF Kept
  <2>3. Closed(X)'  BY <1>2, <2>2 DEF Closed, Resolves, CellOf
  <2> QED BY <2>3
<1> QED BY <1>3, <1>5, <1>6, <1>7, <1>8, <1>9 DEF IInv

LEMMA DropKeeps ==
    ASSUME IInv, NEW h \in roots, Drop(h)
    PROVE  IInv'
<1>1. phase = "Idle" /\ roots' = roots \ {h} /\ UNCHANGED <<heap, issued, retired>>
  BY DEF Drop
<1>2. roots \subseteq Handles /\ roots \subseteq Given
  BY DEF IInv, TypeOK, Issues, Known
<1>3. \A X : Closed(X) => roots' \subseteq X  BY <1>1 DEF Closed
<1> QED BY <1>1, <1>2, <1>3, RootsOnly

LEMMA LoadKeeps ==
    ASSUME IInv, NEW h \in roots, Load(h)
    PROVE  IInv'
<1>1. phase = "Idle" /\ Resolves(h) /\ UNCHANGED <<heap, issued, retired>>
  BY DEF Load
<1>2. PICK k \in CellOf(h.index).refs : roots' = roots \cup {k}  BY DEF Load
<1>3. roots \subseteq Handles /\ roots \subseteq Given
  BY DEF IInv, TypeOK, Issues, Known
<1>4. h.index \in InUse  BY <1>1, <1>3 DEF InUse, Resolves, Handles
<1>5. /\ slots[h.index].offset - CellHeader \in Addresses
      /\ CellOf(h.index).refs \in SUBSET Handles
  BY <1>4, CellTyped DEF IInv
<1>6. k \in Handles  BY <1>5
<1>7. k \in Given  BY <1>2, <1>5 DEF IInv, Issues, Known, CellOf
<1>8. \A X : Closed(X) => roots' \subseteq X  BY <1>2 DEF Closed
<1> QED BY <1>1, <1>2, <1>3, <1>6, <1>7, <1>8, RootsOnly

LEMMA RetireKeeps ==
    ASSUME IInv, NEW h \in roots, Retire(h)
    PROVE  IInv'
<1>1. TypeOK /\ Issues /\ LayoutInv /\ Kept /\ Tricolour /\ Counts  BY DEF IInv
<1>2. h \in Handles /\ h \in Given  BY <1>1 DEF TypeOK, Issues, Known
<1>3. h.index \in Indices  BY <1>2 DEF Handles
<1>4. PICK i \in Indices : i = h.index  BY <1>3
<1>5. /\ phase = "Idle" /\ slots[i].generation = h.generation
      /\ slots' = [slots EXCEPT ![i] = Freed(@)]
      /\ live' = Max({live - 1, 0}) /\ free_hint' = NoteFree(i)
      /\ retired < MaxRetires /\ retired' = retired + 1
      /\ UNCHANGED <<arena, worklist, used, phase, compact_read, compact_write,
                     roots, issued>>
  BY <1>4 DEF Retire
<1>6. slots[i].generation < MaxGeneration => i \in InUse
  <2>1. SUFFICES ASSUME slots[i].generation < MaxGeneration, slots[i].kind = "Free"
                 PROVE  FALSE
    BY DEF InUse
  <2>2. PICK n \in 1 .. MaxCells : issued[n] = h  BY <1>2 DEF Given
  <2>3. h # NoHeader  BY <1>3, Bounds DEF NoHeader
  <2>4. h.generation < slots[i].generation
    BY <1>1, <1>4, <2>1, <2>2, <2>3 DEF Issues, Older
  <2>5. h.generation \in Nat  BY <1>2 DEF Handles
  <2> QED BY <1>5, <2>4, <2>5
<1>7. /\ slots' \in [Indices -> Slots] /\ live' \in 0 .. SlotCount
      /\ free_hint' \in 0 .. SlotCount /\ InUse' = InUse \ {i} /\ Older' /\ Counts'
  BY <1>1, <1>5, <1>6, Freeing DEF Issues
<1>8. \A j \in Indices \ {i} : slots'[j] = slots[j]  BY <1>1, <1>5 DEF TypeOK
<1>9. retired \in Nat /\ retired' \in 0 .. MaxRetires /\ retired' # 0
  BY <1>1, <1>5, Bounds DEF TypeOK
<1>10. TypeOK'  BY <1>1, <1>5, <1>7, <1>9 DEF TypeOK
<1>11. Issues'
  <2>1. Given' = Given  BY <1>5 DEF Given
  <2>2. Known' /\ Numbered' /\ Once'
    BY <1>1, <1>5, <2>1 DEF Issues, Known, Numbered, Once
  <2> QED BY <1>7, <2>2 DEF Issues
<1>12. LayoutInv'
  <2>1. PICK S, T \in SUBSET Addresses : Layout(S, T) /\ Placed(S \cup T)
    BY <1>1 DEF LayoutInv
  <2>2. Layout(S, T)'  BY <1>5, <2>1 DEF Layout
  <2>3. \A j \in InUse' : j \in InUse /\ slots'[j] = slots[j] /\ CellOf(j)' = CellOf(j)
    <3>1. TAKE j \in InUse'
    <3>2. j \in InUse /\ slots'[j] = slots[j]  BY <1>7, <1>8 DEF InUse
    <3> QED BY <1>5, <3>2 DEF CellOf
  <2>4. Placed(S \cup T)'  BY <1>5, <2>1, <2>3 DEF Placed
  <2>5. Pointed(S \cup T)'  BY <1>9 DEF Pointed
  <2> QED BY <2>2, <2>4, <2>5 DEF LayoutInv
<1>13. Kept'  BY <1>9 DEF Kept
<1>14. Tricolour'  BY <1>5 DEF Tricolour
<1> QED BY <1>7, <1>10, <1>11, <1>12, <1>13, <1>14 DEF IInv

-----------------------------------------------------------------------------
(* The invariant, and what follows from it.                                *)

LEMMA Initially == Init => IInv
<1> SUFFICES ASSUME Init PROVE IInv  OBVIOUS
<1>1. CellHeader \in Nat \ {0} /\ ArenaSize \in Nat /\ SlotCount \in Nat
      /\ MaxGeneration \in Nat \ {0} /\ WorklistSize \in Nat /\ MaxCells \in Nat
      /\ MaxRetires \in Nat
  BY Bounds, HeaderSize
<1>2. \A i \in Indices : slots[i] = [offset |-> 0, length |-> 0, generation |-> 1,
                                     kind |-> "Free", mark |-> "WHITE"]
  BY DEF Init
<1>3. InUse = {}  BY <1>2 DEF InUse
<1>4. Cardinality({}) = 0  BY FS_EmptySet
<1>5. Align(0) = 0
  <2>1. 0 \in Nat /\ 0 % CellHeader = 0  BY <1>1, SMT
  <2>2. Align(0) \in Nat /\ Align(0) <= 0  BY <2>1, AlignUp, AlignLeast
  <2> QED BY <2>2
<1>6. TypeOK
  <2>1. [offset |-> 0, length |-> 0, generation |-> 1, kind |-> "Free", mark |-> "WHITE"]
           \in Slots
    BY <1>1 DEF Slots, Kinds, Marks
  <2> QED BY <1>1, <1>4, <2>1 DEF Init, TypeOK
<1>7. Issues
  <2>1. Known  BY DEF Init, Known, NoHeader
  <2>2. Numbered
    <3>1. \A n \in 1 .. MaxCells : issued[n] # NoHeader <=> n <= 0  BY <1>1 DEF Init
    <3> QED BY <1>1, <3>1 DEF Numbered
  <2>3. Older  BY DEF Init, Older
  <2>4. Once  BY DEF Init, Once
  <2> QED BY <2>1, <2>2, <2>3, <2>4 DEF Issues
<1>8. LayoutInv
  <2>1. Tiles(arena, {}, 0, 0)  BY TilesNone
  <2>2. Layout({}, {})  BY <1>5, <2>1 DEF Init, Layout
  <2>3. Placed({} \cup {})  BY <1>3 DEF Placed
  <2>4. Pointed({} \cup {})  BY DEF Pointed
  <2> QED BY <2>2, <2>3, <2>4 DEF LayoutInv
<1>9. Kept
  <2>1. Closed({})  BY DEF Init, Closed
  <2> QED BY <2>1 DEF Kept
<1>10. Tricolour  BY DEF Init, Tricolour
<1>11. Counts
  <2>1. live = 0 /\ free_hint = 0 /\ Cardinality(InUse) = 0  BY <1>3, <1>4 DEF Init
  <2>2. \A i \in Indices : i \in Nat /\ ~(i < 0)  BY Bounds
  <2>3. CountsAgree  BY <2>1, <2>2 DEF CountsAgree
  <2> QED BY <2>1, <2>3 DEF Counts
<1> QED BY <1>6, <1>7, <1>8, <1>9, <1>10, <1>11 DEF IInv

LEMMA Stutters == IInv /\ UNCHANGED vars => IInv'
<1> SUFFICES ASSUME IInv, UNCHANGED vars PROVE IInv'  OBVIOUS
<1>1. /\ UNCHANGED <<arena, slots, worklist, used, live, free_hint, phase>>
      /\ UNCHANGED <<compact_read, compact_write, roots, issued, retired>>
  BY DEF vars, heap
<1>2. TypeOK'  BY <1>1 DEF IInv, TypeOK
<1>3. Issues'  BY <1>1 DEF IInv, Issues, Known, Given, Numbered, Older, Once
<1>4. LayoutInv'
  BY <1>1 DEF IInv, LayoutInv, Layout, Placed, Pointed, CellOf, InUse
<1>5. Kept'  BY <1>1 DEF IInv, Kept, Closed, Resolves, CellOf
<1>6. Tricolour'  BY <1>1 DEF IInv, Tricolour, InUse, Resolves, CellOf
<1>7. Counts'  BY <1>1 DEF IInv, Counts, CountsAgree, InUse
<1> QED BY <1>2, <1>3, <1>4, <1>5, <1>6, <1>7 DEF IInv

LEMMA Keeps == IInv /\ [Next]_vars => IInv'
<1> SUFFICES ASSUME IInv, [Next]_vars PROVE IInv'  OBVIOUS
<1>1. ASSUME NEW n \in Lengths, Allocate(n) PROVE IInv'  BY <1>1, AllocateKeeps
<1>2. ASSUME NEW h \in roots, NEW refs \in SUBSET roots, Store(h, refs) PROVE IInv'
  BY <1>2, StoreKeeps
<1>3. ASSUME NEW h \in roots, Load(h) \/ Drop(h) \/ Retire(h) PROVE IInv'
  BY <1>3, LoadKeeps, DropKeeps, RetireKeeps
<1>4. CASE BeginCollection  BY <1>4, BeginCollectionKeeps
<1>5. ASSUME NEW i \in Indices, Visit(i) PROVE IInv'  BY <1>5, VisitKeeps
<1>6. CASE BeginCompaction  BY <1>6, BeginCompactionKeeps
<1>7. CASE CompactCell  BY <1>7, CompactCellKeeps
<1>8. CASE FinishCompaction  BY <1>8, FinishCompactionKeeps
<1>9. CASE UNCHANGED vars  BY <1>9, Stutters
<1>10. CASE Collect  BY <1>5, <1>6, <1>7, <1>8, <1>10 DEF Collect
<1>11. CASE \E h \in roots : \/ \E refs \in SUBSET roots : Store(h, refs)
                             \/ Load(h) \/ Drop(h) \/ Retire(h)
  BY <1>2, <1>3, <1>11
<1>12. CASE \E n \in Lengths : Allocate(n)  BY <1>1, <1>12
<1>13. Next => \/ \E n \in Lengths : Allocate(n)
               \/ \E h \in roots : \/ \E refs \in SUBSET roots : Store(h, refs)
                                   \/ Load(h) \/ Drop(h) \/ Retire(h)
               \/ BeginCollection \/ Collect
  BY Zenon DEF Next
<1> QED BY <1>4, <1>9, <1>10, <1>11, <1>12, <1>13

LEMMA NamesFollow == IInv => HandleNamesItsCell
<1> SUFFICES ASSUME IInv, NEW n \in 1 .. MaxCells, issued[n] # NoHeader,
                    issued[n].generation < MaxGeneration, Resolves(issued[n])
             PROVE  LET h == issued[n]
                    IN  /\ CellOf(h.index).cell = n /\ CellOf(h.index).index = h.index
                        /\ CellOf(h.index).length = slots[h.index].length
  BY DEF HandleNamesItsCell
<1> DEFINE h == issued[n]
<1>1. TypeOK /\ LayoutInv /\ Once  BY DEF IInv, Issues
<1>2. h \in Handles /\ h.index \in Indices  BY <1>1 DEF TypeOK, Handles
<1>3. h.index \in InUse /\ slots[h.index].generation = h.generation
  BY <1>2 DEF InUse, Resolves
<1>4. /\ CellOf(h.index) \in Cells /\ CellOf(h.index).index = h.index
      /\ CellOf(h.index).length = slots[h.index].length
      /\ issued[CellOf(h.index).cell] =
            [index |-> h.index, generation |-> slots[h.index].generation]
  BY <1>1, <1>3, CellTyped
<1>5. CellOf(h.index).cell \in 1 .. MaxCells  BY <1>4, CellSize
<1>6. h = [index |-> h.index, generation |-> h.generation]  BY <1>2 DEF Handles
<1>7. issued[CellOf(h.index).cell] = h  BY <1>3, <1>4, <1>6
<1>8. CellOf(h.index).cell = n  BY <1>1, <1>5, <1>7 DEF Once
<1> QED BY <1>4, <1>8

Approximation(D, R, U, n, f) ==
    f \in [0 .. n -> D] /\ f[0] = R /\ \A i \in 0 .. n - 1 : f[i + 1] = U[f[i]]

\* What is iterated is a function of how often.
LEMMA Iterated ==
    ASSUME NEW D, NEW R \in D, NEW U \in [D -> D]
    PROVE  \E g \in [Nat -> D] : g[0] = R /\ \A n \in Nat : g[n + 1] = U[g[n]]
<1>1. \A n \in Nat : \E f : Approximation(D, R, U, n, f)
  <2> DEFINE T == {n \in Nat : ~ \E f : Approximation(D, R, U, n, f)}
  <2>1. SUFFICES ASSUME T # {} PROVE FALSE  OBVIOUS
  <2>2. T \in SUBSET Nat  OBVIOUS
  <2>3. \A n \in Nat : n \in T <=> ~ \E f : Approximation(D, R, U, n, f)  OBVIOUS
  <2> HIDE DEF T
  <2>4. PICK n \in T : \A k \in T : n <= k  BY <2>1, <2>2, LeastOf
  <2>5. n \in Nat  BY <2>2
  <2>6. CASE n = 0
    <3> DEFINE f == [i \in 0 .. 0 |-> R]
    <3>1. Approximation(D, R, U, 0, f)  BY DEF Approximation
    <3> QED BY <2>3, <2>4, <2>6, <3>1
  <2>7. CASE n # 0
    <3>1. n - 1 \in Nat /\ n - 1 \notin T  BY <2>4, <2>5, <2>7
    <3>2. PICK f : Approximation(D, R, U, n - 1, f)  BY <2>3, <3>1
    <3>3. /\ f \in [0 .. n - 1 -> D] /\ f[0] = R
          /\ \A i \in 0 .. (n - 1) - 1 : f[i + 1] = U[f[i]]
      BY <3>2 DEF Approximation
    <3> DEFINE e == [i \in 0 .. n |-> IF i = n THEN U[f[n - 1]] ELSE f[i]]
    <3>4. f[n - 1] \in D /\ U[f[n - 1]] \in D  BY <3>1, <3>3
    <3>5. \A i \in 0 .. n : i # n => i \in 0 .. n - 1  BY <2>5
    <3>6. e \in [0 .. n -> D]  BY <3>3, <3>4, <3>5
    <3>7. e[0] = R  BY <2>5, <2>7, <3>3
    <3>8. ASSUME NEW i \in 0 .. n - 1 PROVE e[i + 1] = U[e[i]]
      <4>1. e[i] = f[i] /\ i + 1 \in 0 .. n /\ i \in Int  BY <2>5
      <4>2. CASE i = n - 1
        <5>1. i + 1 = n  BY <2>5, <4>2
        <5> QED BY <2>5, <4>1, <4>2, <5>1
      <4>3. CASE i # n - 1
        <5>1. i \in 0 .. (n - 1) - 1 /\ i + 1 # n  BY <2>5, <4>3
        <5> QED BY <3>3, <4>1, <5>1
      <4> QED BY <4>2, <4>3
    <3> HIDE DEF e
    <3>9. Approximation(D, R, U, n, e)  BY <3>6, <3>7, <3>8 DEF Approximation
    <3> QED BY <2>3, <2>4, <2>5, <3>9
  <2> QED BY <2>6, <2>7
<1>2. ASSUME NEW m \in Nat, NEW n \in Nat, NEW f, NEW e, m <= n,
             Approximation(D, R, U, m, f), Approximation(D, R, U, n, e)
      PROVE  f[m] = e[m]
  <2> DEFINE T == {i \in 0 .. m : f[i] # e[i]}
  <2>1. SUFFICES ASSUME T # {} PROVE FALSE  OBVIOUS
  <2>2. T \in SUBSET Nat  OBVIOUS
  <2>3. \A i \in T : i \in 0 .. m /\ f[i] # e[i]  OBVIOUS
  <2>4. \A i \in 0 .. m : i \notin T => f[i] = e[i]  OBVIOUS
  <2> HIDE DEF T
  <2>5. PICK i \in T : \A k \in T : i <= k  BY <2>1, <2>2, LeastOf
  <2>6. i # 0  BY <1>2, <2>3 DEF Approximation
  <2>7. /\ i - 1 \in 0 .. m - 1 /\ i - 1 \in 0 .. n - 1 /\ i - 1 \in 0 .. m
        /\ i - 1 \notin T /\ (i - 1) + 1 = i
    BY <1>2, <2>3, <2>5, <2>6
  <2>8. f[i - 1] = e[i - 1]  BY <2>4, <2>7
  <2>9. f[i] = U[f[i - 1]] /\ e[i] = U[e[i - 1]]
    <3>1. f[(i - 1) + 1] = U[f[i - 1]]  BY <1>2, <2>7 DEF Approximation
    <3>2. e[(i - 1) + 1] = U[e[i - 1]]  BY <1>2, <2>7 DEF Approximation
    <3> QED BY <2>7, <3>1, <3>2
  <2> QED BY <2>3, <2>8, <2>9
<1> DEFINE pick(n) == CHOOSE f : Approximation(D, R, U, n, f)
           g == [n \in Nat |-> pick(n)[n]]
<1>3. \A n \in Nat : Approximation(D, R, U, n, pick(n))  BY <1>1
<1> HIDE DEF pick
<1>4. \A n \in Nat : pick(n)[n] \in D
  <2>1. TAKE n \in Nat
  <2>2. n \in 0 .. n  OBVIOUS
  <2> QED BY <1>3, <2>2 DEF Approximation
<1>5. g \in [Nat -> D]  BY <1>4
<1>6. g[0] = R
  <2>1. Approximation(D, R, U, 0, pick(0))  BY <1>3
  <2> QED BY <2>1 DEF Approximation
<1>7. ASSUME NEW n \in Nat PROVE g[n + 1] = U[g[n]]
  <2>1. n + 1 \in Nat /\ n <= n + 1 /\ n \in 0 .. (n + 1) - 1  OBVIOUS
  <2>2. Approximation(D, R, U, n, pick(n)) /\ Approximation(D, R, U, n + 1, pick(n + 1))
    BY <1>3, <2>1
  <2>3. pick(n)[n] = pick(n + 1)[n]  BY <1>2, <2>1, <2>2
  <2>4. pick(n + 1)[n + 1] = U[pick(n + 1)[n]]  BY <2>1, <2>2 DEF Approximation
  <2> QED BY <2>1, <2>3, <2>4
<1> HIDE DEF g
<1> QED BY <1>5, <1>6, <1>7

\* What one more load of each handle reaches.
Loads(s) == s \cup UNION {CellOf(h.index).refs : h \in {k \in s : Resolves(k)}}

LEMMA LoadsTyped ==
    ASSUME TypeOK, LayoutInv, NEW s \in SUBSET Handles
    PROVE  Loads(s) \in SUBSET Handles
<1>1. ASSUME NEW k \in s, Resolves(k) PROVE CellOf(k.index).refs \in SUBSET Handles
  <2>1. k.index \in InUse  BY <1>1 DEF InUse, Resolves, Handles
  <2> QED BY <2>1, CellTyped
<1> QED BY <1>1 DEF Loads

LEMMA ReachableStepwise ==
    ASSUME TypeOK, LayoutInv
    PROVE  /\ ReachableIn[0] = roots
           /\ \A n \in Nat : ReachableIn[n + 1] = Loads(ReachableIn[n])
<1> DEFINE U == [s \in SUBSET Handles |-> Loads(s)]
<1>1. U \in [SUBSET Handles -> SUBSET Handles]  BY LoadsTyped
<1>2. \A s \in SUBSET Handles : U[s] = Loads(s)  OBVIOUS
<1>3. roots \in SUBSET Handles  BY DEF TypeOK
<1> HIDE DEF U
<1>4. PICK g \in [Nat -> SUBSET Handles] : g[0] = roots /\ \A n \in Nat : g[n + 1] = U[g[n]]
  <2> DEFINE D == SUBSET Handles
  <2>1. roots \in D /\ U \in [D -> D]  BY <1>1, <1>3
  <2> HIDE DEF D
  <2>2. \E g \in [Nat -> D] : g[0] = roots /\ \A n \in Nat : g[n + 1] = U[g[n]]
    BY <2>1, Iterated
  <2> QED BY <2>2 DEF D
<1>5. g = [n \in Nat |-> IF n = 0 THEN roots ELSE Loads(g[n - 1])]
  <2>1. ASSUME NEW n \in Nat PROVE g[n] = IF n = 0 THEN roots ELSE Loads(g[n - 1])
    <3>1. CASE n = 0  BY <1>4, <3>1
    <3>2. CASE n # 0
      <4>1. n - 1 \in Nat /\ (n - 1) + 1 = n  BY <3>2
      <4>2. g[(n - 1) + 1] = U[g[n - 1]] /\ g[n - 1] \in SUBSET Handles  BY <1>4, <4>1
      <4> QED BY <1>2, <3>2, <4>1, <4>2
    <3> QED BY <3>1, <3>2
  <2> QED BY <1>4, <2>1
<1>6. ReachableIn = CHOOSE f : f = [n \in Nat |-> IF n = 0 THEN roots ELSE Loads(f[n - 1])]
  BY DEF ReachableIn, Loads
<1>7. ReachableIn = [n \in Nat |-> IF n = 0 THEN roots ELSE Loads(ReachableIn[n - 1])]
  BY <1>5, <1>6
<1>8. ReachableIn[0] = roots  BY <1>7
<1>9. ASSUME NEW n \in Nat PROVE ReachableIn[n + 1] = Loads(ReachableIn[n])
  <2>1. n + 1 \in Nat /\ n + 1 # 0 /\ (n + 1) - 1 = n  OBVIOUS
  <2> QED BY <1>7, <2>1
<1> QED BY <1>8, <1>9

\* Whatever is closed holds all that is reached.
LEMMA ReachableClosed ==
    ASSUME TypeOK, LayoutInv, NEW X \in SUBSET Handles, Closed(X)
    PROVE  \A n \in Nat : ReachableIn[n] \subseteq X
<1> DEFINE T == {n \in Nat : ~ (ReachableIn[n] \subseteq X)}
<1>1. SUFFICES ASSUME T # {} PROVE FALSE  OBVIOUS
<1>2. T \in SUBSET Nat  OBVIOUS
<1>3. \A n \in Nat : n \in T <=> ~ (ReachableIn[n] \subseteq X)  OBVIOUS
<1> HIDE DEF T
<1>4. PICK n \in T : \A k \in T : n <= k  BY <1>1, <1>2, LeastOf
<1>5. n \in Nat /\ ~ (ReachableIn[n] \subseteq X)  BY <1>2, <1>3
<1>6. /\ ReachableIn[0] = roots
      /\ \A m \in Nat : ReachableIn[m + 1] = Loads(ReachableIn[m])
  BY ReachableStepwise
<1>7. n # 0  BY <1>5, <1>6 DEF Closed
<1>8. n - 1 \in Nat /\ n - 1 \notin T /\ (n - 1) + 1 = n  BY <1>4, <1>5, <1>7
<1>9. ReachableIn[n - 1] \subseteq X  BY <1>3, <1>8
<1>10. ReachableIn[n] = Loads(ReachableIn[n - 1])
  <2>1. ReachableIn[(n - 1) + 1] = Loads(ReachableIn[n - 1])  BY <1>6, <1>8
  <2> QED BY <1>8, <2>1
<1>11. Loads(ReachableIn[n - 1]) \subseteq X
  <2>1. \A k \in ReachableIn[n - 1] : CellOf(k.index).refs \subseteq X
    BY <1>9 DEF Closed
  <2>2. SUFFICES ASSUME NEW k \in Loads(ReachableIn[n - 1]) PROVE k \in X  OBVIOUS
  <2>3. \/ k \in ReachableIn[n - 1]
        \/ \E h \in ReachableIn[n - 1] : k \in CellOf(h.index).refs
    BY <2>2 DEF Loads
  <2> QED BY <1>9, <2>1, <2>3
<1> QED BY <1>5, <1>10, <1>11

LEMMA ReachableFollows == IInv => ReachableKept
<1> SUFFICES ASSUME IInv, retired = 0 PROVE \A h \in Reachable : Resolves(h)
  BY DEF ReachableKept
<1>1. TypeOK /\ LayoutInv /\ Kept  BY DEF IInv
<1>2. PICK X \in SUBSET Handles : Closed(X)  BY <1>1 DEF Kept
<1>3. ReachableIn[SlotCount] \subseteq X  BY <1>1, <1>2, ReachableClosed, Bounds
<1> QED BY <1>2, <1>3 DEF Closed, Reachable

\* Allocation, stores, loads, retirement and every turn of a collection keep
\* the cells, the table and the counts of heap.rs in agreement; a stale handle
\* names nothing, and what the machine can reach is there.
THEOREM CellsAreKept == Spec => []CellsKept
<1>1. Init => IInv  BY Initially
<1>2. IInv /\ [Next]_vars => IInv'  BY Keeps
<1>3. IInv => CellsKept
  BY NamesFollow, ReachableFollows DEF IInv, Counts, CellsKept
<1> QED BY <1>1, <1>2, <1>3, PTL DEF Spec

===============================================================================
