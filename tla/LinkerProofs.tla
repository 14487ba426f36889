---------------------------- MODULE LinkerProofs ----------------------------
(***************************************************************************)
(* The linker, for every stream, every depth of the walk's stack and any   *)
(* number of modules: what it writes carries every module once, each after *)
(* what it imports, cycles apart, from the one nothing imports, and a link *)
(* that failed is not taken for one that is over.                          *)
(*                                                                         *)
(* The walk is a depth-first search, and the argument is about its graph   *)
(* alone: n modules and the set g[i] that each imports.  What makes it     *)
(* inductive is that the stack is a path (Path), that what a module's      *)
(* cursor has passed is visited (Passed), and that a module that is done   *)
(* has its imports done before it or leads back from them (Followed).      *)
(***************************************************************************)
EXTENDS Linker, FiniteSetTheorems, SequenceTheorems, TLAPS

Marks == {"unvisited", "visiting", "done"}
Frames(n) == [module : 1 .. n, cursor : Nat \ {0}]

\* What module i of the graph leads to.
Beyond(n, g, i) ==
    {j \in 1 .. n : \A S \in SUBSET (1 .. n) :
                        g[i] \subseteq S /\ (\A k \in S : g[k] \subseteq S) => j \in S}

\* The registry rg and the walk w over n modules.
Entries(n) == [imports : Seq(1 .. n), status : {"new", "linking", "linked"}, order : Nat]
WalkTyped(n, rg, w) ==
    /\ rg \in [1 .. n -> Entries(n)]
    /\ w = [room |-> w.room, root |-> w.root, stack |-> w.stack, state |-> w.state, order |-> w.order]
    /\ w.root \in 1 .. n + 1 /\ w.stack \in Seq(Frames(n))
    /\ w.state \in [1 .. n -> Marks] /\ w.order \in Nat

\* The registry's imports are the graph.
Resolved(n, g, rg) ==
    \A i \in 1 .. n : /\ \A c \in 1 .. Len(rg[i].imports) : rg[i].imports[c] \in g[i]
                      /\ \A j \in g[i] : \E c \in 1 .. Len(rg[i].imports) : rg[i].imports[c] = j

\* The mark of the walk, the status and the order of a module say the same.
Marked(n, rg, w) ==
    \A i \in 1 .. n :
        /\ w.state[i] = "unvisited" => rg[i].status = "new" /\ rg[i].order = 0
        /\ w.state[i] = "visiting" => rg[i].status = "linking" /\ rg[i].order = 0
        /\ w.state[i] = "done" => rg[i].status = "linked" /\ rg[i].order \in 1 .. w.order

\* The modules being visited are those on the stack, once each.
Stacked(n, w) ==
    /\ \A p \in 1 .. Len(w.stack) : w.state[w.stack[p].module] = "visiting"
    /\ \A p, q \in 1 .. Len(w.stack) : w.stack[p].module = w.stack[q].module => p = q
    /\ \A i \in 1 .. n : w.state[i] = "visiting" =>
                             \E p \in 1 .. Len(w.stack) : w.stack[p].module = i

\* The orders given out are 1 to w.order, each to one module.
Ordered(n, rg, w) ==
    /\ \A i, j \in 1 .. n : rg[i].order = rg[j].order /\ rg[i].order # 0 => i = j
    /\ \A k \in 1 .. w.order : \E i \in 1 .. n : rg[i].order = k

\* The stack is a path from the root: each imports the one above it.
Path(n, g, w) ==
    /\ w.stack # <<>> => w.stack[1].module = w.root
    /\ \A p \in 2 .. Len(w.stack) : w.stack[p].module \in g[w.stack[p - 1].module]
    /\ \A p, q \in 1 .. Len(w.stack) :
           p < q => w.stack[q].module \in Beyond(n, g, w.stack[p].module)

\* The imports a cursor has passed are visited.
Passed(rg, w) ==
    \A p \in 1 .. Len(w.stack) :
        LET imports == rg[w.stack[p].module].imports
        IN  /\ w.stack[p].cursor <= Len(imports) + 1
            /\ \A c \in 1 .. w.stack[p].cursor - 1 : w.state[imports[c]] # "unvisited"

\* The imports of a module that is done are visited, and ordered before it
\* unless they lead back to it.
Followed(n, g, rg, w) ==
    \A i \in 1 .. n : w.state[i] = "done" =>
        \A j \in g[i] : /\ w.state[j] # "unvisited"
                        /\ \/ w.state[j] = "done" /\ rg[j].order < rg[i].order
                           \/ i \in Beyond(n, g, j)

\* Of the roots, those behind the walk's are done.
Behind(n, w) == \A i \in 1 .. n : i < w.root => w.state[i] = "done"

\* A module no other imports.
Unimported(n, g, r) == \A j \in 1 .. n : j # r => r \notin g[j]

\* Nothing such a module leads to comes after it, and when it is the last of
\* the stream nothing does.
Topmost(n, g, rg, w) ==
    \A r \in 1 .. n : Unimported(n, g, r) /\ w.state[r] = "done" =>
        /\ \A i \in 1 .. n : w.state[i] = "done" /\ rg[i].order <= rg[r].order =>
               \A j \in g[i] : w.state[j] = "done" /\ rg[j].order <= rg[r].order
        /\ r = n => /\ rg[r].order = w.order
                    /\ \A i \in 1 .. n : w.state[i] = "done"

WalkInv(n, g, rg, w) ==
    /\ WalkTyped(n, rg, w) /\ Resolved(n, g, rg) /\ Marked(n, rg, w) /\ Stacked(n, w)
    /\ Ordered(n, rg, w) /\ Path(n, g, w) /\ Passed(rg, w) /\ Followed(n, g, rg, w)
    /\ Behind(n, w) /\ Topmost(n, g, rg, w)

-----------------------------------------------------------------------------
(* The linker's states.                                                    *)

Graph == [i \in 1 .. Len(stream) |-> ImportsOf(i)]

\* No two modules of the stream have one name.
NamesOnce == \A i \in 1 .. Len(stream) : Find(stream[i].name) = i

Carried == [name : Names, exports : SUBSET Exports,
            imports : Seq([from : Names, name : Exports \cup {None}])]

\* What is registered, before it is resolved.
Registered ==
    /\ DOMAIN reg = 1 .. Len(reg) /\ Len(reg) \in Nat /\ Len(reg) <= Len(stream)
    /\ \A i \in 1 .. Len(reg) :
          /\ reg[i] = [imports |-> [c \in DOMAIN stream[i].imports |-> 0], status |-> "new", order |-> 0]
          /\ Find(stream[i].name) = i
    /\ walk = [room |-> walk.room, root |-> 1, stack |-> <<>>, state |-> <<>>, order |-> 0]

\* The closure, once it is written.
Written ==
    /\ \A i \in 1 .. Len(stream) : walk.state[i] = "done"
    /\ closure = [modules |-> [at \in 1 .. Len(stream) |->
                      stream[CHOOSE i \in 1 .. Len(stream) : reg[i].order = at].name],
                  entry |-> walk.order]

\* A failure leaves nothing ordered or something half linked.
HalfLinked ==
    \/ \A i \in DOMAIN reg : reg[i].order = 0
    \/ \E i \in DOMAIN reg : reg[i].status = "linking"

LinkerInv ==
    /\ stream \in Seq(Carried)
    /\ phase \in {"register", "resolve", "walk", "linked", "failed"}
    /\ phase \in {"register", "resolve"} => Registered
    /\ phase = "resolve" => Len(reg) = Len(stream)
    /\ phase \in {"walk", "linked"} =>
           /\ NamesOnce /\ Graph \in [1 .. Len(stream) -> SUBSET (1 .. Len(stream))]
           /\ WalkInv(Len(stream), Graph, reg, walk)
    /\ phase = "linked" => Written
    /\ phase = "failed" => HalfLinked

-----------------------------------------------------------------------------
(* What a module leads to.                                                 *)

LEMMA BeyondOwn ==
    ASSUME NEW n, NEW g \in [1 .. n -> SUBSET (1 .. n)], NEW i \in 1 .. n, NEW j \in g[i]
    PROVE  j \in Beyond(n, g, i)
BY DEF Beyond

LEMMA BeyondOn ==
    ASSUME NEW n, NEW g \in [1 .. n -> SUBSET (1 .. n)], NEW i \in 1 .. n,
           NEW k \in Beyond(n, g, i), NEW j \in g[k]
    PROVE  j \in Beyond(n, g, i)
<1>1. k \in 1 .. n /\ j \in 1 .. n  BY DEF Beyond
<1>2. ASSUME NEW S \in SUBSET (1 .. n), g[i] \subseteq S, \A x \in S : g[x] \subseteq S
      PROVE  j \in S
  <2>1. k \in S  BY <1>2 DEF Beyond
  <2> QED BY <1>2, <2>1
<1> QED BY <1>1, <1>2 DEF Beyond

LEMMA BeyondWithin ==
    ASSUME NEW n, NEW g \in [1 .. n -> SUBSET (1 .. n)], NEW i \in 1 .. n,
           NEW S \in SUBSET (1 .. n), g[i] \subseteq S, \A k \in S : g[k] \subseteq S
    PROVE  Beyond(n, g, i) \subseteq S
BY DEF Beyond

-----------------------------------------------------------------------------
(* The steps of the walk.                                                  *)

\* What the stack is when module i is pushed on it: the cursor of the module
\* on top, if there is one, has gone past its import of i.
Beneath(n, rg, w, i, below) ==
    /\ below \in Seq(Frames(n)) /\ Len(below) = Len(w.stack)
    /\ \A p \in 1 .. Len(below) : below[p].module = w.stack[p].module
    /\ \A p \in 1 .. Len(below) - 1 : below[p].cursor = w.stack[p].cursor
    /\ Len(below) = 0 => i = w.root
    /\ Len(below) # 0 =>
          LET top     == w.stack[Len(below)]
              imports == rg[top.module].imports
          IN  /\ below[Len(below)].cursor = top.cursor + 1
              /\ top.cursor <= Len(imports) /\ imports[top.cursor] = i

LEMMA PushKeeps ==
    ASSUME NEW n \in Nat, NEW g \in [1 .. n -> SUBSET (1 .. n)], NEW rg, NEW w,
           WalkInv(n, g, rg, w), NEW i \in 1 .. n, w.state[i] = "unvisited",
           NEW below, Beneath(n, rg, w, i, below),
           NEW q \in [1 .. n -> Entries(n)],
           \A j \in 1 .. n : q[j].imports = rg[j].imports /\ q[j].order = rg[j].order,
           \A j \in 1 .. n : q[j].status = IF j = i THEN "linking" ELSE rg[j].status,
           NEW v,
           v = [room |-> w.room, root |-> w.root, order |-> w.order,
                stack |-> Append(below, [module |-> i, cursor |-> 1]),
                state |-> [w.state EXCEPT ![i] = "visiting"]]
    PROVE  WalkInv(n, g, q, v)
<1> DEFINE L == Len(below)
<1>1. /\ rg \in [1 .. n -> Entries(n)]
      /\ w.root \in 1 .. n + 1 /\ w.stack \in Seq(Frames(n))
      /\ w.state \in [1 .. n -> Marks] /\ w.order \in Nat
  BY DEF WalkInv, WalkTyped
<1>2. /\ below \in Seq(Frames(n)) /\ L = Len(w.stack) /\ L \in Nat
      /\ \A p \in 1 .. L : below[p].module = w.stack[p].module
  BY DEF Beneath
<1>3. [module |-> i, cursor |-> 1] \in Frames(n)  BY DEF Frames
<1>4. /\ v.stack \in Seq(Frames(n)) /\ Len(v.stack) = L + 1
      /\ \A p \in 1 .. L : v.stack[p] = below[p]
      /\ v.stack[L + 1] = [module |-> i, cursor |-> 1]
  <2>1. v.stack = Append(below, [module |-> i, cursor |-> 1])  OBVIOUS
  <2> QED BY <1>2, <1>3, <2>1
<1>5. v.room = w.room /\ v.root = w.root /\ v.order = w.order  OBVIOUS
<1>6. /\ v.state \in [1 .. n -> Marks] /\ v.state[i] = "visiting"
      /\ \A j \in 1 .. n : j # i => v.state[j] = w.state[j]
  <2>1. v.state = [w.state EXCEPT ![i] = "visiting"]  OBVIOUS
  <2>2. "visiting" \in Marks  BY DEF Marks
  <2> QED BY <1>1, <2>1, <2>2
<1>7. rg[i].status = "new" /\ rg[i].order = 0  BY DEF WalkInv, Marked
<1>8. \A j \in 1 .. n : q[j].imports = rg[j].imports /\ q[j].order = rg[j].order  OBVIOUS
<1>81. \A j \in 1 .. n : rg[j].imports \in Seq(1 .. n) /\ rg[j].order \in Nat  BY <1>1 DEF Entries
<1>9. \A p \in 1 .. L : w.stack[p].module \in 1 .. n /\ w.stack[p].module # i
  <2>1. \A p \in 1 .. L : w.stack[p] \in Frames(n)  BY <1>1, <1>2
  <2>2. \A p \in 1 .. L : w.state[w.stack[p].module] = "visiting"  BY <1>2 DEF WalkInv, Stacked
  <2> QED BY <2>1, <2>2 DEF Frames
<1>10. \A p \in 1 .. L : v.stack[p].module = w.stack[p].module  BY <1>2, <1>4
<1>11. \A p \in 1 .. L + 1 : p \in 1 .. L \/ p = L + 1  BY <1>2
<1>t. WalkTyped(n, q, v)
  <2>1. v = [room |-> v.room, root |-> v.root, stack |-> v.stack, state |-> v.state, order |-> v.order]
    OBVIOUS
  <2> QED BY <1>1, <1>4, <1>5, <1>6, <2>1 DEF WalkTyped
<1>r. Resolved(n, g, q)
  <2>1. Resolved(n, g, rg)  BY DEF WalkInv
  <2>2. ASSUME NEW a \in 1 .. n
        PROVE  /\ \A c \in 1 .. Len(q[a].imports) : q[a].imports[c] \in g[a]
               /\ \A j \in g[a] : \E c \in 1 .. Len(q[a].imports) : q[a].imports[c] = j
    <3>1. q[a].imports = rg[a].imports  BY <1>8
    <3>2. /\ \A c \in 1 .. Len(rg[a].imports) : rg[a].imports[c] \in g[a]
          /\ \A j \in g[a] : \E c \in 1 .. Len(rg[a].imports) : rg[a].imports[c] = j
      BY <2>1 DEF Resolved
    <3> QED BY ONLY <3>1, <3>2
  <2> QED BY <2>2 DEF Resolved
<1>m. Marked(n, q, v)
  <2>1. Marked(n, rg, w)  BY DEF WalkInv
  <2>2. ASSUME NEW j \in 1 .. n
        PROVE  /\ v.state[j] = "unvisited" => q[j].status = "new" /\ q[j].order = 0
               /\ v.state[j] = "visiting" => q[j].status = "linking" /\ q[j].order = 0
               /\ v.state[j] = "done" => q[j].status = "linked" /\ q[j].order \in 1 .. v.order
    <3>1. q[j].order = rg[j].order  BY <1>8
    <3>2. CASE j = i  BY <1>6, <1>7, <3>1, <3>2
    <3>3. CASE j # i
      <4>1. v.state[j] = w.state[j] /\ q[j].status = rg[j].status  BY <1>6, <3>3
      <4> QED BY <1>5, <2>1, <3>1, <4>1 DEF Marked
    <3> QED BY <3>2, <3>3
  <2> QED BY <2>2 DEF Marked
<1>s. Stacked(n, v)
  <2>1. Stacked(n, w)  BY DEF WalkInv
  <2>2. \A p \in 1 .. L + 1 : v.state[v.stack[p].module] = "visiting"
    <3>1. ASSUME NEW p \in 1 .. L PROVE v.state[v.stack[p].module] = "visiting"
      <4>1. w.state[w.stack[p].module] = "visiting"  BY <1>2, <2>1 DEF Stacked
      <4>2. v.stack[p].module = w.stack[p].module  BY <1>10
      <4> QED BY <1>6, <1>9, <4>1, <4>2
    <3>2. v.stack[L + 1].module = i  BY <1>4
    <3> QED BY <1>6, <1>11, <3>1, <3>2
  <2>3. \A a, b \in 1 .. L + 1 : v.stack[a].module = v.stack[b].module => a = b
    <3>1. \A a, b \in 1 .. L : w.stack[a].module = w.stack[b].module => a = b
      BY <1>2, <2>1 DEF Stacked
    <3>2. \A a \in 1 .. L : v.stack[a].module = w.stack[a].module /\ w.stack[a].module # i
      BY <1>9, <1>10
    <3>3. v.stack[L + 1].module = i  BY <1>4
    <3>4. TAKE a, b \in 1 .. L + 1
    <3>5. CASE a = L + 1  BY <1>11, <3>2, <3>3, <3>5
    <3>6. CASE b = L + 1  BY <1>11, <3>2, <3>3, <3>6
    <3>7. CASE a \in 1 .. L /\ b \in 1 .. L
      <4>1. v.stack[a].module = w.stack[a].module /\ v.stack[b].module = w.stack[b].module
        BY <3>2, <3>7
      <4> QED BY <3>1, <3>7, <4>1
    <3> QED BY <1>11, <3>5, <3>6, <3>7
  <2>4. ASSUME NEW j \in 1 .. n, v.state[j] = "visiting"
        PROVE  \E p \in 1 .. L + 1 : v.stack[p].module = j
    <3>1. CASE j = i
      <4>1. L + 1 \in 1 .. L + 1 /\ v.stack[L + 1].module = i  BY <1>2, <1>4
      <4> QED BY <3>1, <4>1
    <3>2. CASE j # i
      <4>1. \E p \in 1 .. L : w.stack[p].module = j  BY <1>2, <1>6, <2>1, <2>4, <3>2 DEF Stacked
      <4>2. PICK p \in 1 .. L : w.stack[p].module = j  BY <4>1
      <4>3. p \in 1 .. L + 1 /\ v.stack[p].module = j  BY <1>2, <1>10, <4>2
      <4> QED BY <4>3
    <3> QED BY <3>1, <3>2
  <2> QED BY <1>4, <2>2, <2>3, <2>4 DEF Stacked
<1>o. Ordered(n, q, v)
  <2>1. Ordered(n, rg, w)  BY DEF WalkInv
  <2>2. \A a, b \in 1 .. n : q[a].order = q[b].order /\ q[a].order # 0 => a = b
    BY <1>8, <2>1, Zenon DEF Ordered
  <2>3. \A k \in 1 .. v.order : \E a \in 1 .. n : q[a].order = k
    <3>1. TAKE k \in 1 .. v.order
    <3>2. PICK a \in 1 .. n : rg[a].order = k  BY <1>5, <2>1 DEF Ordered
    <3>3. q[a].order = k  BY <1>8, <3>2
    <3> QED BY <3>3
  <2> QED BY <2>2, <2>3 DEF Ordered
<1>p. Path(n, g, v)
  <2>1. Path(n, g, w)  BY DEF WalkInv
  <2>2. v.stack[1].module = v.root
    <3>1. CASE L = 0  BY <1>2, <1>4, <1>5, <3>1 DEF Beneath
    <3>2. CASE L # 0
      <4>1. 1 \in 1 .. L /\ w.stack # <<>>  BY <1>1, <1>2, <3>2
      <4>2. w.stack[1].module = w.root  BY <2>1, <4>1 DEF Path
      <4> QED BY <1>5, <1>10, <4>1, <4>2
    <3> QED BY <3>1, <3>2
  <2>3. L # 0 => i \in g[w.stack[L].module]
    <3>1. SUFFICES ASSUME L # 0 PROVE i \in g[w.stack[L].module]  OBVIOUS
    <3>2. L \in 1 .. L  BY <1>2, <3>1
    <3>3. w.stack[L] \in Frames(n)  BY <1>1, <1>2, <3>2
    <3>4. /\ w.stack[L].cursor <= Len(rg[w.stack[L].module].imports)
          /\ rg[w.stack[L].module].imports[w.stack[L].cursor] = i
      BY <3>1 DEF Beneath
    <3>5. w.stack[L].module \in 1 .. n /\ w.stack[L].cursor \in Nat \ {0}  BY <3>3 DEF Frames
    <3>6. rg[w.stack[L].module].imports \in Seq(1 .. n)  BY <1>81, <3>5
    <3>7. w.stack[L].cursor \in 1 .. Len(rg[w.stack[L].module].imports)  BY <3>4, <3>5, <3>6
    <3> QED BY <3>4, <3>5, <3>7 DEF WalkInv, Resolved
  <2>4. \A p \in 2 .. L + 1 : v.stack[p].module \in g[v.stack[p - 1].module]
    <3>1. TAKE p \in 2 .. L + 1
    <3>2. CASE p = L + 1
      <4>1. L \in 1 .. L /\ p - 1 = L  BY <1>2, <3>2
      <4> QED BY <1>4, <1>10, <2>3, <3>2, <4>1
    <3>3. CASE p # L + 1
      <4>1. p \in 2 .. L /\ p \in 1 .. L /\ p - 1 \in 1 .. L  BY <1>2, <3>3
      <4> QED BY <1>2, <1>10, <2>1, <4>1 DEF Path
    <3> QED BY <3>2, <3>3
  <2>5. ASSUME NEW a \in 1 .. L + 1, NEW b \in 1 .. L + 1, a < b
        PROVE  v.stack[b].module \in Beyond(n, g, v.stack[a].module)
    <3>1. a \in 1 .. L /\ L # 0 /\ L \in 1 .. L  BY <1>2, <2>5
    <3>2. CASE b = L + 1
      <4>1. CASE a = L
        <5>1. i \in Beyond(n, g, w.stack[L].module)  BY <1>9, <2>3, <3>1, BeyondOwn
        <5> QED BY <1>4, <1>10, <3>1, <3>2, <4>1, <5>1
      <4>2. CASE a # L
        <5>1. a < L  BY <1>2, <3>1, <4>2
        <5>2. w.stack[L].module \in Beyond(n, g, w.stack[a].module)
          BY <1>2, <2>1, <3>1, <5>1 DEF Path
        <5>3. i \in g[w.stack[L].module]  BY <2>3, <3>1
        <5>4. i \in Beyond(n, g, w.stack[a].module)  BY <1>9, <3>1, <5>2, <5>3, BeyondOn
        <5> QED BY <1>4, <1>10, <3>1, <3>2, <5>4
      <4> QED BY <4>1, <4>2
    <3>3. CASE b # L + 1
      <4>1. b \in 1 .. L  BY <1>2, <3>3
      <4> QED BY <1>2, <1>10, <2>1, <2>5, <3>1, <4>1 DEF Path
    <3> QED BY <3>2, <3>3
  <2> QED BY <1>4, <2>2, <2>4, <2>5 DEF Path
<1>d. Passed(q, v)
  <2>1. ASSUME NEW p \in 1 .. L + 1
        PROVE  /\ v.stack[p].cursor <= Len(q[v.stack[p].module].imports) + 1
               /\ \A c \in 1 .. v.stack[p].cursor - 1 :
                      v.state[q[v.stack[p].module].imports[c]] # "unvisited"
    <3>1. CASE p = L + 1
      <4>1. v.stack[p].cursor = 1 /\ v.stack[p].module = i  BY <1>4, <3>1
      <4>2. Len(q[i].imports) \in Nat  BY <1>8
      <4> QED BY <4>1, <4>2
    <3>2. CASE p # L + 1
      <4> DEFINE x == w.stack[p].module
                 imports == rg[x].imports
      <4>1. p \in 1 .. L  BY <1>2, <3>2
      <4>2. x \in 1 .. n /\ v.stack[p].module = x /\ v.stack[p] = below[p]  BY <1>4, <1>9, <1>10, <4>1
      <4>3. imports \in Seq(1 .. n) /\ q[x].imports = imports  BY <1>8, <1>81, <4>2
      <4>4. w.stack[p].cursor \in Nat \ {0}
        <5>1. w.stack[p] \in Frames(n)  BY <1>1, <1>2, <4>1
        <5> QED BY <5>1 DEF Frames
      <4>5. /\ w.stack[p].cursor <= Len(imports) + 1
            /\ \A c \in 1 .. w.stack[p].cursor - 1 : w.state[imports[c]] # "unvisited"
        BY <1>2, <4>1 DEF WalkInv, Passed
      <4> HIDE DEF x, imports
      <4>6. \A c \in 1 .. Len(imports) : imports[c] \in 1 .. n  BY <4>3
      <4>7. \A j \in 1 .. n : w.state[j] # "unvisited" => v.state[j] # "unvisited"  BY <1>6
      <4>8. CASE p = L
        <5>1. /\ below[L].cursor = w.stack[L].cursor + 1
              /\ w.stack[L].cursor <= Len(imports) /\ imports[w.stack[L].cursor] = i
          <6>1. L # 0  BY <1>2, <4>1
          <6> QED BY <4>8, <6>1 DEF Beneath, x, imports
        <5>2. below[p].cursor <= Len(imports) + 1
          <6>1. Len(imports) \in Nat  BY <4>3
          <6> QED BY ONLY <4>4, <4>8, <5>1, <6>1
        <5>3. \A c \in 1 .. below[p].cursor - 1 : v.state[imports[c]] # "unvisited"
          <6>1. TAKE c \in 1 .. below[p].cursor - 1
          <6>2. c \in 1 .. w.stack[p].cursor /\ c \in 1 .. Len(imports)
            <7>1. below[p].cursor = w.stack[p].cursor + 1 /\ w.stack[p].cursor <= Len(imports)
              BY ONLY <4>8, <5>1
            <7>2. Len(imports) \in Nat  BY <4>3
            <7> QED BY ONLY <4>4, <7>1, <7>2
          <6>3. CASE c = w.stack[p].cursor  BY <1>6, <4>8, <5>1, <6>3
          <6>4. CASE c # w.stack[p].cursor
            <7>1. c \in 1 .. w.stack[p].cursor - 1  BY <4>4, <6>2, <6>4
            <7>2. w.state[imports[c]] # "unvisited" /\ imports[c] \in 1 .. n  BY <4>5, <4>6, <6>2, <7>1
            <7> QED BY <4>7, <7>2
          <6> QED BY <6>3, <6>4
        <5> QED BY <4>2, <4>3, <5>2, <5>3
      <4>9. CASE p # L
        <5>1. p \in 1 .. L - 1  BY <1>2, <4>1, <4>9
        <5>2. below[p].cursor = w.stack[p].cursor  BY <5>1 DEF Beneath
        <5>3. \A c \in 1 .. w.stack[p].cursor - 1 : c \in 1 .. Len(imports)  BY <4>3, <4>4, <4>5
        <5>4. \A c \in 1 .. w.stack[p].cursor - 1 : v.state[imports[c]] # "unvisited"
          BY <4>5, <4>6, <4>7, <5>3
        <5>5. w.stack[p].cursor <= Len(imports) + 1  BY <4>5
        <5> QED BY ONLY <4>2, <4>3, <5>2, <5>4, <5>5
      <4> QED BY ONLY <4>8, <4>9
    <3> QED BY <3>1, <3>2
  <2>2. Len(v.stack) = L + 1  BY <1>4
  <2> QED BY ONLY <2>1, <2>2 DEF Passed
<1>f. Followed(n, g, q, v)
  <2>1. ASSUME NEW x \in 1 .. n, v.state[x] = "done", NEW j \in g[x]
        PROVE  /\ v.state[j] # "unvisited"
               /\ \/ v.state[j] = "done" /\ q[j].order < q[x].order
                  \/ x \in Beyond(n, g, j)
    <3>1. x # i /\ w.state[x] = "done" /\ j \in 1 .. n  BY <1>6, <2>1
    <3>2. /\ w.state[j] # "unvisited"
          /\ \/ w.state[j] = "done" /\ rg[j].order < rg[x].order
             \/ x \in Beyond(n, g, j)
      BY <3>1 DEF WalkInv, Followed
    <3>3. j # i
      <4>1. w.state[j] # "unvisited"  BY <3>2
      <4> QED BY <4>1
    <3>4. v.state[j] = w.state[j]  BY <1>6, <3>1, <3>3
    <3> QED BY <1>8, <3>1, <3>2, <3>4
  <2> QED BY <2>1 DEF Followed
<1>b. Behind(n, v)
  <2>1. \A j \in 1 .. n : w.state[j] = "done" => v.state[j] = "done"  BY <1>6
  <2> QED BY <1>5, <2>1 DEF WalkInv, Behind
<1>u. Topmost(n, g, q, v)
  <2>1. \A j \in 1 .. n : v.state[j] = "done" <=> w.state[j] = "done"  BY <1>6
  <2>2. \A r \in 1 .. n : Unimported(n, g, r) /\ w.state[r] = "done" => r # n
    BY DEF WalkInv, Topmost
  <2>3. Topmost(n, g, rg, w)  BY DEF WalkInv
  <2>4. ASSUME NEW r \in 1 .. n, Unimported(n, g, r), v.state[r] = "done"
        PROVE  /\ \A x \in 1 .. n : v.state[x] = "done" /\ q[x].order <= q[r].order =>
                      \A j \in g[x] : v.state[j] = "done" /\ q[j].order <= q[r].order
               /\ r # n
    <3>1. w.state[r] = "done" /\ r # n  BY <2>1, <2>2, <2>4
    <3>2. ASSUME NEW x \in 1 .. n, v.state[x] = "done", q[x].order <= q[r].order, NEW j \in g[x]
          PROVE  v.state[j] = "done" /\ q[j].order <= q[r].order
      <4>1. j \in 1 .. n /\ w.state[x] = "done" /\ rg[x].order <= rg[r].order
        BY <1>8, <2>1, <3>2
      <4>2. w.state[j] = "done" /\ rg[j].order <= rg[r].order  BY <2>3, <2>4, <3>1, <4>1 DEF Topmost
      <4> QED BY <1>8, <2>1, <4>1, <4>2
    <3> QED BY <3>1, <3>2
  <2> QED BY <2>4 DEF Topmost
<1> QED BY <1>t, <1>r, <1>m, <1>s, <1>o, <1>p, <1>d, <1>f, <1>b, <1>u DEF WalkInv

\* The cursor on top goes past a module that is visited.
LEMMA PassKeeps ==
    ASSUME NEW n \in Nat, NEW g \in [1 .. n -> SUBSET (1 .. n)], NEW rg, NEW w,
           WalkInv(n, g, rg, w), NEW i \in 1 .. n, w.state[i] # "unvisited",
           NEW below, Beneath(n, rg, w, i, below), Len(below) # 0,
           NEW v,
           v = [room |-> w.room, root |-> w.root, order |-> w.order,
                stack |-> below, state |-> w.state]
    PROVE  WalkInv(n, g, rg, v)
<1> DEFINE L == Len(below)
<1>1. /\ rg \in [1 .. n -> Entries(n)]
      /\ w.root \in 1 .. n + 1 /\ w.stack \in Seq(Frames(n))
      /\ w.state \in [1 .. n -> Marks] /\ w.order \in Nat
  BY DEF WalkInv, WalkTyped
<1>2. /\ below \in Seq(Frames(n)) /\ L = Len(w.stack) /\ L \in Nat /\ L \in 1 .. L
      /\ \A p \in 1 .. L : below[p].module = w.stack[p].module
  BY DEF Beneath
<1>3. /\ v.room = w.room /\ v.root = w.root /\ v.order = w.order
      /\ v.state = w.state /\ v.stack = below
  OBVIOUS
<1>4. \A j \in 1 .. n : rg[j].imports \in Seq(1 .. n)  BY <1>1 DEF Entries
<1>t. WalkTyped(n, rg, v)  BY <1>1, <1>2, <1>3 DEF WalkTyped
<1>r. Resolved(n, g, rg)  BY DEF WalkInv
<1>m. Marked(n, rg, v)  BY <1>3 DEF WalkInv, Marked
<1>s. Stacked(n, v)
  <2>1. Stacked(n, w)  BY DEF WalkInv
  <2>2. \A j \in 1 .. n : w.state[j] = "visiting" => \E p \in 1 .. L : below[p].module = j
    <3>1. TAKE j \in 1 .. n
    <3>2. HAVE w.state[j] = "visiting"
    <3>3. PICK p \in 1 .. L : w.stack[p].module = j  BY <1>2, <2>1, <3>2 DEF Stacked
    <3> QED BY <1>2, <3>3
  <2>3. \A a, b \in 1 .. L : below[a].module = below[b].module => a = b
    BY <1>2, <2>1 DEF Stacked
  <2>4. \A p \in 1 .. L : w.state[below[p].module] = "visiting"
    BY <1>2, <2>1 DEF Stacked
  <2> QED BY <1>3, <2>2, <2>3, <2>4 DEF Stacked
<1>o. Ordered(n, rg, v)  BY <1>3 DEF WalkInv, Ordered
<1>p. Path(n, g, v)
  <2>1. Path(n, g, w)  BY DEF WalkInv
  <2>2. below[1].module = v.root
    <3>1. w.stack # <<>> /\ 1 \in 1 .. L  BY <1>1, <1>2
    <3> QED BY <1>2, <1>3, <2>1, <3>1 DEF Path
  <2>3. ASSUME NEW p \in 2 .. L PROVE below[p].module \in g[below[p - 1].module]
    <3>1. p \in 1 .. L /\ p - 1 \in 1 .. L  BY <1>2
    <3>2. w.stack[p].module \in g[w.stack[p - 1].module]  BY <1>2, <2>1 DEF Path
    <3> QED BY <1>2, <3>1, <3>2
  <2>4. ASSUME NEW a \in 1 .. L, NEW b \in 1 .. L, a < b
        PROVE  below[b].module \in Beyond(n, g, below[a].module)
    BY <1>2, <2>1, <2>4 DEF Path
  <2> QED BY <1>3, <2>2, <2>3, <2>4 DEF Path
<1>d. Passed(rg, v)
  <2>1. ASSUME NEW p \in 1 .. L
        PROVE  /\ below[p].cursor <= Len(rg[below[p].module].imports) + 1
               /\ \A c \in 1 .. below[p].cursor - 1 :
                      w.state[rg[below[p].module].imports[c]] # "unvisited"
    <3> DEFINE x == w.stack[p].module
               imports == rg[x].imports
    <3>1. w.stack[p] \in Frames(n)  BY <1>1, <1>2
    <3>2. x \in 1 .. n /\ w.stack[p].cursor \in Nat \ {0} /\ below[p].module = x
      BY <1>2, <3>1 DEF Frames
    <3>3. imports \in Seq(1 .. n)  BY <1>4, <3>2
    <3>4. /\ w.stack[p].cursor <= Len(imports) + 1
          /\ \A c \in 1 .. w.stack[p].cursor - 1 : w.state[imports[c]] # "unvisited"
      BY <1>2 DEF WalkInv, Passed
    <3>5. CASE p = L
      <4>1. /\ below[L].cursor = w.stack[L].cursor + 1
            /\ w.stack[L].cursor <= Len(imports) /\ imports[w.stack[L].cursor] = i
        BY <3>5 DEF Beneath
      <4> HIDE DEF imports, x
      <4>2. below[p].cursor <= Len(imports) + 1  BY <3>2, <3>3, <3>5, <4>1
      <4>3. ASSUME NEW c \in 1 .. below[p].cursor - 1 PROVE w.state[imports[c]] # "unvisited"
        <5>1. CASE c = w.stack[p].cursor  BY <3>5, <4>1, <5>1
        <5>2. CASE c # w.stack[p].cursor
          <6>1. c \in 1 .. w.stack[p].cursor - 1  BY <3>2, <3>5, <4>1, <5>2
          <6> QED BY <3>4, <6>1
        <5> QED BY <5>1, <5>2
      <4> QED BY <3>2, <4>2, <4>3 DEF imports
    <3>6. CASE p # L
      <4>1. p \in 1 .. L - 1  BY <1>2, <3>6
      <4>2. below[p].cursor = w.stack[p].cursor  BY <4>1 DEF Beneath
      <4> QED BY <3>2, <3>4, <4>2
    <3> QED BY <3>5, <3>6
  <2> QED BY <1>3, <2>1 DEF Passed
<1>f. Followed(n, g, rg, v)  BY <1>3 DEF WalkInv, Followed
<1>b. Behind(n, v)  BY <1>3 DEF WalkInv, Behind
<1>u. Topmost(n, g, rg, v)  BY <1>3 DEF WalkInv, Topmost
<1> QED BY <1>t, <1>r, <1>m, <1>s, <1>o, <1>p, <1>d, <1>f, <1>b, <1>u DEF WalkInv

\* The module on top, t, has no import left: it is ordered and goes.
Ordering(n, rg, w, L, t, below, q, v) ==
    /\ L \in Nat \ {0} /\ L = Len(w.stack)
    /\ t = w.stack[L].module /\ w.stack[L].cursor > Len(rg[t].imports)
    /\ below \in Seq(Frames(n)) /\ Len(below) = L - 1
    /\ \A p \in 1 .. L - 1 : below[p] = w.stack[p]
    /\ q \in [1 .. n -> Entries(n)]
    /\ \A j \in 1 .. n : q[j].imports = rg[j].imports
    /\ \A j \in 1 .. n : q[j].order = IF j = t THEN w.order + 1 ELSE rg[j].order
    /\ \A j \in 1 .. n : q[j].status = IF j = t THEN "linked" ELSE rg[j].status
    /\ v = [room |-> w.room, root |-> w.root, order |-> w.order + 1,
            stack |-> below, state |-> [w.state EXCEPT ![t] = "done"]]

LEMMA FinishKeeps ==
    ASSUME NEW n \in Nat, NEW g \in [1 .. n -> SUBSET (1 .. n)], NEW rg, NEW w,
           WalkInv(n, g, rg, w), NEW L, NEW t, NEW below, NEW q, NEW v,
           Ordering(n, rg, w, L, t, below, q, v)
    PROVE  WalkInv(n, g, q, v)
<1>0. /\ L \in Nat \ {0} /\ L = Len(w.stack)
      /\ t = w.stack[L].module /\ w.stack[L].cursor > Len(rg[t].imports)
      /\ below \in Seq(Frames(n)) /\ Len(below) = L - 1
      /\ \A p \in 1 .. L - 1 : below[p] = w.stack[p]
      /\ q \in [1 .. n -> Entries(n)]
      /\ \A j \in 1 .. n : q[j].imports = rg[j].imports
      /\ \A j \in 1 .. n : q[j].order = IF j = t THEN w.order + 1 ELSE rg[j].order
      /\ \A j \in 1 .. n : q[j].status = IF j = t THEN "linked" ELSE rg[j].status
      /\ v = [room |-> w.room, root |-> w.root, order |-> w.order + 1,
            stack |-> below, state |-> [w.state EXCEPT ![t] = "done"]]
  BY DEF Ordering
<1> USE <1>0
<1>1. /\ rg \in [1 .. n -> Entries(n)]
      /\ w.root \in 1 .. n + 1 /\ w.stack \in Seq(Frames(n))
      /\ w.state \in [1 .. n -> Marks] /\ w.order \in Nat
  BY DEF WalkInv, WalkTyped
<1>2. L \in 1 .. L /\ w.stack # <<>>  BY <1>1
<1>3. /\ v.room = w.room /\ v.root = w.root /\ v.order = w.order + 1 /\ v.stack = below
      /\ v.state = [w.state EXCEPT ![t] = "done"]
  OBVIOUS
<1>4. w.stack[L] \in Frames(n)  BY <1>1, <1>2
<1>5. t \in 1 .. n /\ w.stack[L].cursor \in Nat \ {0}  BY <1>4 DEF Frames
<1>6. rg[t].imports \in Seq(1 .. n) /\ \A j \in 1 .. n : rg[j].order \in Nat
  BY <1>1, <1>5 DEF Entries
<1>7. /\ v.state \in [1 .. n -> Marks] /\ v.state[t] = "done"
      /\ \A j \in 1 .. n : j # t => v.state[j] = w.state[j]
  <2>1. "done" \in Marks  BY DEF Marks
  <2> QED BY <1>1, <1>3, <1>5, <2>1
<1>8. q[t].order = w.order + 1 /\ \A j \in 1 .. n : j # t => q[j].order = rg[j].order  BY <1>5
<1>9. w.state[t] = "visiting"  BY <1>2 DEF WalkInv, Stacked
<1>10. \A j \in 1 .. n : w.state[j] = "done" => j # t /\ rg[j].order \in 1 .. w.order
  BY <1>9 DEF WalkInv, Marked
<1>11. \A j \in 1 .. n : rg[j].order # 0 => w.state[j] = "done"
  BY <1>1 DEF WalkInv, Marked, Marks
<1>12. \A p \in 1 .. L - 1 : p \in 1 .. L /\ w.stack[p].module \in 1 .. n /\ w.stack[p].module # t
  <2>1. TAKE p \in 1 .. L - 1
  <2>2. p \in 1 .. L /\ p # L  OBVIOUS
  <2>3. w.stack[p] \in Frames(n)  BY <1>1, <2>2
  <2>4. w.stack[p].module # t  BY <1>2, <2>2 DEF WalkInv, Stacked
  <2> QED BY <2>2, <2>3, <2>4 DEF Frames
<1>13. \A j \in g[t] : j \in 1 .. n /\ w.state[j] # "unvisited"
  <2>1. TAKE j \in g[t]
  <2>2. PICK c \in 1 .. Len(rg[t].imports) : rg[t].imports[c] = j
    BY <1>5 DEF WalkInv, Resolved
  <2>3. c \in 1 .. w.stack[L].cursor - 1
    <3>1. c \in Nat /\ 1 <= c /\ c <= Len(rg[t].imports) /\ Len(rg[t].imports) \in Nat
      <4>1. Len(rg[t].imports) \in Nat  BY <1>6
      <4> QED BY ONLY <2>2, <4>1
    <3>2. w.stack[L].cursor > Len(rg[t].imports) /\ w.stack[L].cursor \in Nat  BY <1>5
    <3> QED BY ONLY <3>1, <3>2
  <2>4. w.state[rg[t].imports[c]] # "unvisited"  BY <1>2, <2>3 DEF WalkInv, Passed
  <2> QED BY <1>5, <2>2, <2>4
<1>14. \A j \in 1 .. n : w.state[j] # "unvisited" => v.state[j] # "unvisited"  BY <1>7
<1>t. WalkTyped(n, q, v)
  <2>1. v.order \in Nat  BY <1>1, <1>3
  <2> QED BY <1>1, <1>3, <1>7, <2>1 DEF WalkTyped
<1>r. Resolved(n, g, q)
  <2>1. Resolved(n, g, rg)  BY DEF WalkInv
  <2>2. ASSUME NEW a \in 1 .. n
        PROVE  /\ \A c \in 1 .. Len(q[a].imports) : q[a].imports[c] \in g[a]
               /\ \A j \in g[a] : \E c \in 1 .. Len(q[a].imports) : q[a].imports[c] = j
    <3>1. q[a].imports = rg[a].imports  OBVIOUS
    <3> QED BY <2>1, <3>1 DEF Resolved
  <2> QED BY <2>2 DEF Resolved
<1>m. Marked(n, q, v)
  <2>1. Marked(n, rg, w)  BY DEF WalkInv
  <2>2. ASSUME NEW j \in 1 .. n
        PROVE  /\ v.state[j] = "unvisited" => q[j].status = "new" /\ q[j].order = 0
               /\ v.state[j] = "visiting" => q[j].status = "linking" /\ q[j].order = 0
               /\ v.state[j] = "done" => q[j].status = "linked" /\ q[j].order \in 1 .. v.order
    <3>1. CASE j = t
      <4>1. q[j].status = "linked" /\ q[j].order = w.order + 1  BY <3>1
      <4>2. w.order + 1 \in 1 .. v.order  BY <1>1, <1>3
      <4> QED BY <1>7, <3>1, <4>1, <4>2
    <3>2. CASE j # t
      <4>1. v.state[j] = w.state[j] /\ q[j].status = rg[j].status /\ q[j].order = rg[j].order
        BY <1>7, <3>2
      <4>2. \A k \in 1 .. w.order : k \in 1 .. v.order  BY <1>1, <1>3
      <4> QED BY <2>1, <4>1, <4>2 DEF Marked
    <3> QED BY <3>1, <3>2
  <2> QED BY <2>2 DEF Marked
<1>s. Stacked(n, v)
  <2>1. Stacked(n, w)  BY DEF WalkInv
  <2>2. ASSUME NEW p \in 1 .. L - 1 PROVE v.state[below[p].module] = "visiting"
    <3>1. w.state[w.stack[p].module] = "visiting"  BY <1>12, <2>1 DEF Stacked
    <3> QED BY <1>7, <1>12, <3>1
  <2>3. \A a, b \in 1 .. L - 1 : below[a].module = below[b].module => a = b
    <3>1. TAKE a, b \in 1 .. L - 1
    <3>2. HAVE below[a].module = below[b].module
    <3>3. w.stack[a].module = w.stack[b].module /\ a \in 1 .. L /\ b \in 1 .. L  BY <1>12, <3>2
    <3> QED BY <2>1, <3>3 DEF Stacked
  <2>4. ASSUME NEW j \in 1 .. n, v.state[j] = "visiting"
        PROVE  \E p \in 1 .. L - 1 : below[p].module = j
    <3>1. j # t /\ w.state[j] = "visiting"  BY <1>7, <2>4
    <3>2. PICK p \in 1 .. L : w.stack[p].module = j  BY <2>1, <3>1 DEF Stacked
    <3>3. p \in 1 .. L - 1  BY <3>1, <3>2
    <3> QED BY <3>2, <3>3
  <2>5. v.stack = below /\ Len(below) = L - 1  BY <1>3
  <2> QED BY ONLY <2>2, <2>3, <2>4, <2>5 DEF Stacked
<1>o. Ordered(n, q, v)
  <2>1. Ordered(n, rg, w)  BY DEF WalkInv
  <2>2. \A j \in 1 .. n : j # t => q[j].order # w.order + 1
    <3>1. TAKE j \in 1 .. n
    <3>2. HAVE j # t
    <3>3. q[j].order = rg[j].order  BY <1>8, <3>2
    <3>4. rg[j].order = 0 \/ rg[j].order \in 1 .. w.order  BY <1>10, <1>11
    <3> QED BY <1>1, <3>3, <3>4
  <2>3. ASSUME NEW a \in 1 .. n, NEW b \in 1 .. n, q[a].order = q[b].order, q[a].order # 0
        PROVE  a = b
    <3>1. CASE a = t  BY <1>8, <2>2, <2>3, <3>1
    <3>2. CASE b = t  BY <1>8, <2>2, <2>3, <3>2
    <3>3. CASE a # t /\ b # t
      <4>1. q[a].order = rg[a].order /\ q[b].order = rg[b].order  BY <1>8, <3>3
      <4> QED BY <2>1, <2>3, <4>1 DEF Ordered
    <3> QED BY <3>1, <3>2, <3>3
  <2>4. ASSUME NEW k \in 1 .. v.order PROVE \E a \in 1 .. n : q[a].order = k
    <3>1. CASE k = w.order + 1  BY <1>5, <1>8, <3>1
    <3>2. CASE k # w.order + 1
      <4>1. k \in 1 .. w.order  BY <1>1, <1>3, <3>2
      <4>2. PICK a \in 1 .. n : rg[a].order = k  BY <2>1, <4>1 DEF Ordered
      <4>3. a # t
        <5>1. rg[a].order # 0  BY <4>1, <4>2
        <5> QED BY <1>10, <1>11, <5>1
      <4> QED BY <1>8, <4>2, <4>3
    <3> QED BY <3>1, <3>2
  <2> QED BY <2>3, <2>4 DEF Ordered
<1>p. Path(n, g, v)
  <2>1. Path(n, g, w)  BY DEF WalkInv
  <2>2. below # <<>> => below[1].module = v.root
    <3>1. SUFFICES ASSUME below # <<>> PROVE below[1].module = v.root  OBVIOUS
    <3>2. 1 \in 1 .. L - 1  BY <3>1
    <3> QED BY <1>2, <1>3, <2>1, <3>2 DEF Path
  <2>3. ASSUME NEW p \in 2 .. L - 1 PROVE below[p].module \in g[below[p - 1].module]
    <3>1. p \in 2 .. L /\ p \in 1 .. L - 1 /\ p - 1 \in 1 .. L - 1  OBVIOUS
    <3>2. w.stack[p].module \in g[w.stack[p - 1].module]  BY <2>1, <3>1 DEF Path
    <3> QED BY <3>1, <3>2
  <2>4. ASSUME NEW a \in 1 .. L - 1, NEW b \in 1 .. L - 1, a < b
        PROVE  below[b].module \in Beyond(n, g, below[a].module)
    BY <1>12, <2>1, <2>4 DEF Path
  <2> QED BY <1>3, <2>2, <2>3, <2>4 DEF Path
<1>d. Passed(q, v)
  <2>1. ASSUME NEW p \in 1 .. L - 1
        PROVE  /\ below[p].cursor <= Len(q[below[p].module].imports) + 1
               /\ \A c \in 1 .. below[p].cursor - 1 :
                      v.state[q[below[p].module].imports[c]] # "unvisited"
    <3> DEFINE x == w.stack[p].module
               imports == rg[x].imports
    <3>1. p \in 1 .. L /\ x \in 1 .. n /\ below[p] = w.stack[p]  BY <1>12
    <3>2. imports \in Seq(1 .. n) /\ q[x].imports = imports  BY <1>1, <3>1 DEF Entries
    <3>3. /\ w.stack[p].cursor <= Len(imports) + 1
          /\ \A c \in 1 .. w.stack[p].cursor - 1 : w.state[imports[c]] # "unvisited"
      BY <3>1 DEF WalkInv, Passed
    <3>4. w.stack[p].cursor \in Nat \ {0}
      <4>1. w.stack[p] \in Frames(n)  BY <1>1, <3>1
      <4> QED BY <4>1 DEF Frames
    <3> HIDE DEF imports
    <3>5. \A c \in 1 .. w.stack[p].cursor - 1 : imports[c] \in 1 .. n
      <4>1. \A c \in 1 .. w.stack[p].cursor - 1 : c \in 1 .. Len(imports)  BY <3>2, <3>3, <3>4
      <4> QED BY ONLY <3>2, <4>1
    <3>6. \A c \in 1 .. w.stack[p].cursor - 1 : v.state[imports[c]] # "unvisited"
      BY <1>14, <3>3, <3>5
    <3> QED BY <3>1, <3>2, <3>3, <3>6
  <2>2. ASSUME NEW p \in 1 .. Len(v.stack)
        PROVE  /\ v.stack[p].cursor <= Len(q[v.stack[p].module].imports) + 1
               /\ \A c \in 1 .. v.stack[p].cursor - 1 :
                      v.state[q[v.stack[p].module].imports[c]] # "unvisited"
    <3>1. p \in 1 .. L - 1 /\ v.stack[p] = below[p]  BY <1>3, <1>12, <2>2
    <3> QED BY ONLY <2>1, <3>1
  <2> QED BY ONLY <2>2 DEF Passed
<1>15. \A j \in 1 .. n : w.state[j] = "visiting" =>
           \E p \in 1 .. L : w.stack[p].module = j
  BY DEF WalkInv, Stacked
<1>f. Followed(n, g, q, v)
  <2>1. ASSUME NEW x \in 1 .. n, v.state[x] = "done", NEW j \in g[x]
        PROVE  /\ v.state[j] # "unvisited"
               /\ \/ v.state[j] = "done" /\ q[j].order < q[x].order
                  \/ x \in Beyond(n, g, j)
    <3>1. CASE x = t
      <4>1. j \in 1 .. n /\ w.state[j] # "unvisited"  BY <1>13, <2>1, <3>1
      <4>2. w.state[j] = "done" \/ w.state[j] = "visiting"  BY <1>1, <4>1 DEF Marks
      <4>3. CASE w.state[j] = "done"
        <5>1. j # t /\ rg[j].order \in 1 .. w.order  BY <1>10, <4>1, <4>3
        <5>2. v.state[j] = "done" /\ q[j].order = rg[j].order  BY <1>7, <1>8, <4>1, <4>3, <5>1
        <5>3. q[x].order = w.order + 1 /\ w.order \in Nat  BY <1>1, <1>8, <3>1
        <5>4. q[j].order < q[x].order  BY ONLY <5>1, <5>2, <5>3
        <5> QED BY <5>2, <5>4
      <4>4. CASE w.state[j] = "visiting"
        <5>1. PICK p \in 1 .. L : w.stack[p].module = j  BY <1>15, <4>1, <4>4
        <5>2. CASE p = L
          <6>1. j = t  BY <5>1, <5>2
          <6> QED BY <1>5, <1>7, <2>1, <3>1, <6>1, BeyondOwn
        <5>3. CASE p # L
          <6>1. p < L  BY <5>1, <5>3
          <6>2. t \in Beyond(n, g, j)  BY <1>2, <5>1, <6>1 DEF WalkInv, Path
          <6> QED BY <1>14, <3>1, <4>1, <6>2
        <5> QED BY <5>2, <5>3
      <4> QED BY <4>2, <4>3, <4>4
    <3>2. CASE x # t
      <4>1. w.state[x] = "done" /\ j \in 1 .. n  BY <1>7, <2>1, <3>2
      <4>2. /\ w.state[j] # "unvisited"
            /\ \/ w.state[j] = "done" /\ rg[j].order < rg[x].order
               \/ x \in Beyond(n, g, j)
        BY <2>1, <4>1 DEF WalkInv, Followed
      <4>3. w.state[j] = "done" => v.state[j] = "done" /\ q[j].order = rg[j].order
        BY <1>7, <1>8, <1>10, <4>1
      <4> QED BY <1>8, <1>14, <3>2, <4>1, <4>2, <4>3
    <3> QED BY <3>1, <3>2
  <2> QED BY <2>1 DEF Followed
<1>b. Behind(n, v)
  <2>1. \A j \in 1 .. n : w.state[j] = "done" => v.state[j] = "done"  BY <1>7
  <2> QED BY <1>3, <2>1 DEF WalkInv, Behind
<1>u. Topmost(n, g, q, v)
  <2>1. ASSUME Unimported(n, g, t)
        PROVE  /\ L = 1 /\ t = w.root
               /\ \A j \in 1 .. n : w.state[j] # "unvisited" =>
                      v.state[j] = "done" /\ q[j].order <= w.order + 1
    <3>1. L = 1
      <4>1. SUFFICES ASSUME L # 1 PROVE FALSE  OBVIOUS
      <4>2. L \in 2 .. L /\ L - 1 \in 1 .. L - 1
        <5>1. L \in Nat /\ L # 0  OBVIOUS
        <5> QED BY ONLY <4>1, <5>1
      <4>3. t \in g[w.stack[L - 1].module]  BY <4>2 DEF WalkInv, Path
      <4> QED BY <1>12, <2>1, <4>2, <4>3 DEF Unimported
    <3>2. t = w.root  BY <1>2, <3>1 DEF WalkInv, Path
    <3>3. ASSUME NEW j \in 1 .. n, w.state[j] # "unvisited"
          PROVE  v.state[j] = "done" /\ q[j].order <= w.order + 1
      <4>1. w.state[j] = "done" \/ w.state[j] = "visiting"  BY <1>1, <3>3 DEF Marks
      <4>2. CASE w.state[j] = "done"
        <5>1. j # t /\ rg[j].order \in 1 .. w.order  BY ONLY <1>10, <3>3, <4>2
        <5>2. v.state[j] = "done" /\ q[j].order = rg[j].order  BY <1>7, <1>8, <4>2, <5>1
        <5>3. w.order \in Nat  BY <1>1
        <5> QED BY ONLY <5>1, <5>2, <5>3
      <4>3. CASE w.state[j] = "visiting"
        <5>1. PICK p \in 1 .. L : w.stack[p].module = j  BY <1>15, <4>3
        <5>2. j = t  BY <3>1, <5>1
        <5>3. v.state[t] = "done" /\ q[t].order = w.order + 1 /\ w.order \in Nat  BY <1>1, <1>7, <1>8
        <5> QED BY ONLY <5>2, <5>3
      <4> QED BY <4>1, <4>2, <4>3
    <3> QED BY <3>1, <3>2, <3>3
  <2>2. ASSUME NEW r \in 1 .. n, Unimported(n, g, r), v.state[r] = "done"
        PROVE  /\ \A x \in 1 .. n : v.state[x] = "done" /\ q[x].order <= q[r].order =>
                      \A j \in g[x] : v.state[j] = "done" /\ q[j].order <= q[r].order
               /\ r = n => /\ q[r].order = v.order
                           /\ \A x \in 1 .. n : v.state[x] = "done"
    <3>1. CASE r = t
      <4>1. ASSUME NEW x \in 1 .. n, v.state[x] = "done", NEW j \in g[x]
            PROVE  v.state[j] = "done" /\ q[j].order <= q[r].order
        <5>1. j \in 1 .. n /\ w.state[j] # "unvisited"
          <6>1. CASE x = t  BY <1>13, <4>1, <6>1
          <6>2. CASE x # t
            <7>1. w.state[x] = "done"  BY <1>7, <4>1, <6>2
            <7> QED BY <4>1, <7>1 DEF WalkInv, Followed
          <6> QED BY <6>1, <6>2
        <5>2. v.state[j] = "done" /\ q[j].order <= w.order + 1  BY <2>1, <2>2, <3>1, <5>1
        <5> QED BY ONLY <1>8, <3>1, <5>2
      <4>2. ASSUME r = n, NEW x \in 1 .. n PROVE v.state[x] = "done"
        <5>1. CASE x = t  BY <1>7, <5>1
        <5>2. CASE x # t
          <6>1. x < w.root  BY <2>1, <2>2, <3>1, <4>2, <5>2
          <6>2. w.state[x] = "done"  BY <6>1 DEF WalkInv, Behind
          <6> QED BY <1>7, <5>2, <6>2
        <5> QED BY <5>1, <5>2
      <4> QED BY <1>3, <1>8, <3>1, <4>1, <4>2
    <3>2. CASE r # t
      <4>1. w.state[r] = "done" /\ q[r].order = rg[r].order /\ rg[r].order \in 1 .. w.order
        BY <1>7, <1>8, <1>10, <2>2, <3>2
      <4>2. r # n  BY <1>5, <1>9, <2>2, <4>1 DEF WalkInv, Topmost
      <4>3. ASSUME NEW x \in 1 .. n, v.state[x] = "done", q[x].order <= q[r].order, NEW j \in g[x]
            PROVE  v.state[j] = "done" /\ q[j].order <= q[r].order
        <5>1. x # t /\ j \in 1 .. n  BY <1>1, <1>8, <4>1, <4>3
        <5>2. w.state[x] = "done" /\ rg[x].order <= rg[r].order  BY <1>7, <1>8, <4>1, <4>3, <5>1
        <5>3. w.state[j] = "done" /\ rg[j].order <= rg[r].order
          BY <2>2, <4>1, <4>3, <5>2 DEF WalkInv, Topmost
        <5>4. j # t  BY <1>10, <5>1, <5>3
        <5> QED BY <1>7, <1>8, <4>1, <5>1, <5>3, <5>4
      <4> QED BY <4>2, <4>3
    <3> QED BY <3>1, <3>2
  <2> QED BY <2>2 DEF Topmost
<1> QED BY <1>t, <1>r, <1>m, <1>s, <1>o, <1>p, <1>d, <1>f, <1>b, <1>u DEF WalkInv

-----------------------------------------------------------------------------
(* The linker's steps.                                                     *)

\* A name that is found is that of the module it is found at.
LEMMA FoundAt ==
    ASSUME stream \in Seq(Carried), NamesOnce, NEW name, Find(name) # 0
    PROVE  Find(name) \in 1 .. Len(stream) /\ stream[Find(name)].name = name
<1>1. PICK i \in 1 .. Len(stream) : stream[i].name = name
  BY DEF Find, Modules
<1>2. Find(stream[i].name) = i  BY DEF NamesOnce
<1>3. Find(name) = i  BY <1>1, <1>2
<1> QED BY <1>1, <1>3

\* The graph is the stream's.
LEMMA SameGraph ==
    ASSUME stream' = stream
    PROVE  /\ Graph' = Graph
           /\ NamesOnce => NamesOnce'
<1>1. Graph' = Graph  BY DEF Graph, ImportsOf, Find, Modules
<1>2. \A name : Find(name)' = Find(name)  BY DEF Find, Modules
<1>3. NamesOnce => NamesOnce'  BY <1>2, Zenon DEF NamesOnce
<1> QED BY <1>1, <1>3

LEMMA Initially == LinkerInit => LinkerInv
<1> SUFFICES ASSUME LinkerInit PROVE LinkerInv  OBVIOUS
<1>1. stream \in Seq(Carried)
  <2>1. stream \in Streams  BY DEF LinkerInit
  <2> QED BY <2>1, StreamsAssumption DEF Carried
<1>2. reg = <<>> /\ phase = "register"  BY DEF LinkerInit
<1>3. walk = [room |-> walk.room, root |-> 1, stack |-> <<>>, state |-> <<>>, order |-> 0]
  <2>1. PICK depth \in StackSizes :
            walk = [room |-> depth, root |-> 1, stack |-> <<>>, state |-> <<>>, order |-> 0]
    BY DEF LinkerInit
  <2> QED BY <2>1
<1>4. Registered  BY <1>1, <1>2, <1>3 DEF Registered
<1> QED BY <1>1, <1>2, <1>4 DEF LinkerInv

LEMMA RegisterKeeps == LinkerInv /\ Register => LinkerInv'
<1> SUFFICES ASSUME LinkerInv, Register PROVE LinkerInv'  OBVIOUS
<1> DEFINE i == Len(reg) + 1
<1>1. phase = "register" /\ Len(reg) < Len(stream)  BY DEF Register
<1>2. stream \in Seq(Carried) /\ Registered  BY <1>1 DEF LinkerInv
<1>3. stream' = stream  BY DEF Register, Fail
<1>4. CASE Find(stream[i].name) # i
  <2>1. phase' = "failed" /\ reg' = reg  BY <1>4 DEF Register, Fail
  <2>2. \A j \in DOMAIN reg : reg[j].order = 0  BY <1>2 DEF Registered
  <2>3. HalfLinked'  BY <2>1, <2>2 DEF HalfLinked
  <2> QED BY <1>2, <1>3, <2>1, <2>3 DEF LinkerInv
<1>5. CASE Find(stream[i].name) = i
  <2>1. /\ reg' = Append(reg, [imports |-> [c \in DOMAIN stream[i].imports |-> 0],
                               status |-> "new", order |-> 0])
        /\ phase' = IF i = Len(stream) THEN "resolve" ELSE phase
        /\ walk' = walk
    BY <1>5 DEF Register, NoOrder
  <2>2. /\ DOMAIN reg = 1 .. Len(reg) /\ Len(reg) \in Nat /\ Len(stream) \in Nat
        /\ \A j \in 1 .. Len(reg) :
              /\ reg[j] = [imports |-> [c \in DOMAIN stream[j].imports |-> 0], status |-> "new", order |-> 0]
              /\ Find(stream[j].name) = j
    BY <1>2 DEF Registered
  <2>3. /\ Len(reg') = i /\ DOMAIN reg' = 1 .. i
        /\ \A j \in 1 .. Len(reg) : reg'[j] = reg[j]
        /\ reg'[i] = [imports |-> [c \in DOMAIN stream[i].imports |-> 0], status |-> "new", order |-> 0]
    BY <2>1, <2>2
  <2>4. \A j \in 1 .. i : j \in 1 .. Len(reg) \/ j = i  BY <2>2
  <2>5. \A name : Find(name)' = Find(name)  BY <1>3 DEF Find, Modules
  <2>6. ASSUME NEW j \in 1 .. i
        PROVE  /\ reg'[j] = [imports |-> [c \in DOMAIN stream[j].imports |-> 0], status |-> "new", order |-> 0]
               /\ (Find(stream[j].name) = j)'
    <3>1. CASE j = i  BY <1>3, <1>5, <2>3, <2>5, <3>1
    <3>2. CASE j # i  BY <1>3, <2>2, <2>3, <2>4, <2>5, <3>2
    <3> QED BY <3>1, <3>2
  <2>7. i \in Nat /\ i <= Len(stream)  BY <1>1, <2>2
  <2>8. Registered'  BY <1>2, <1>3, <2>1, <2>3, <2>6, <2>7 DEF Registered
  <2>9. phase' \in {"register", "resolve"} /\ (phase' = "resolve" => Len(reg') = Len(stream'))
    BY <1>1, <1>3, <2>1, <2>3
  <2> QED BY <1>2, <1>3, <2>8, <2>9 DEF LinkerInv
<1> QED BY <1>4, <1>5

LEMMA ResolveKeeps == LinkerInv /\ Resolve => LinkerInv'
<1> SUFFICES ASSUME LinkerInv, Resolve PROVE LinkerInv'  OBVIOUS
<1> DEFINE n == Len(stream)
<1>1. phase = "resolve" /\ Registered /\ stream \in Seq(Carried) /\ Len(reg) = n /\ n \in Nat
  BY DEF Resolve, LinkerInv
<1>2. stream' = stream  BY DEF Resolve, Fail
<1>3. /\ Modules = 1 .. n /\ DOMAIN reg = 1 .. n
      /\ \A i \in 1 .. n :
            /\ reg[i] = [imports |-> [c \in DOMAIN stream[i].imports |-> 0], status |-> "new", order |-> 0]
            /\ Find(stream[i].name) = i
  BY <1>1 DEF Registered, Modules
<1>4. NamesOnce  BY <1>3 DEF NamesOnce
<1>5. CASE \E i \in Modules : \E c \in DOMAIN stream[i].imports : ~Resolves(i, c)
  <2>1. phase' = "failed" /\ reg' = reg  BY <1>5 DEF Resolve, Fail
  <2>2. HalfLinked'  BY <1>3, <2>1 DEF HalfLinked
  <2> QED BY <1>1, <1>2, <2>1, <2>2 DEF LinkerInv
<1>6. CASE ~ \E i \in Modules : \E c \in DOMAIN stream[i].imports : ~Resolves(i, c)
  <2> DEFINE q == [i \in Modules |-> [reg[i] EXCEPT !.imports =
                            [c \in DOMAIN @ |-> Find(stream[i].imports[c].from)]]]
             v == [walk EXCEPT !.state = [i \in Modules |-> "unvisited"]]
  <2>1. reg' = q /\ walk' = v /\ phase' = "walk" /\ closure' = closure
    BY <1>6 DEF Resolve
  <2>2. \A i \in 1 .. n : /\ stream[i].imports \in Seq([from : Names, name : Exports \cup {None}])
    <3>1. \A i \in 1 .. n : stream[i] \in Carried  BY <1>1
    <3> QED BY <3>1 DEF Carried
  <2>3. \A i \in 1 .. n : DOMAIN stream[i].imports = 1 .. Len(stream[i].imports) /\ Len(stream[i].imports) \in Nat
    BY <2>2
  <2>4. \A i \in 1 .. n : \A c \in 1 .. Len(stream[i].imports) :
            Find(stream[i].imports[c].from) \in 1 .. n
    <3>1. TAKE i \in 1 .. n
    <3>2. TAKE c \in 1 .. Len(stream[i].imports)
    <3>3. Resolves(i, c)  BY <1>3, <1>6, <2>3
    <3>4. Find(stream[i].imports[c].from) # 0  BY <3>3 DEF Resolves
    <3> QED BY <1>1, <1>4, <3>4, FoundAt
  <2>5. \A i \in 1 .. n : ImportsOf(i) \in SUBSET (1 .. n)  BY <2>3, <2>4 DEF ImportsOf
  <2>6. Graph \in [1 .. n -> SUBSET (1 .. n)] /\ \A i \in 1 .. n : Graph[i] = ImportsOf(i)
    BY <2>5 DEF Graph
  <2>7. \A i \in 1 .. n :
            /\ q[i].imports = [c \in 1 .. Len(stream[i].imports) |-> Find(stream[i].imports[c].from)]
            /\ q[i].status = "new" /\ q[i].order = 0
            /\ q[i] = [imports |-> q[i].imports, status |-> "new", order |-> 0]
    <3>1. TAKE i \in 1 .. n
    <3> DEFINE none == [c \in DOMAIN stream[i].imports |-> 0]
               found == [c \in DOMAIN reg[i].imports |-> Find(stream[i].imports[c].from)]
    <3>2. reg[i] = [imports |-> none, status |-> "new", order |-> 0]  BY <1>3
    <3>3. q[i] = [reg[i] EXCEPT !.imports = found]  BY <1>3
    <3>4. reg[i].imports = none  BY <3>2
    <3>5. DOMAIN none = 1 .. Len(stream[i].imports)  BY <2>3
    <3>6. found = [c \in 1 .. Len(stream[i].imports) |-> Find(stream[i].imports[c].from)]
      BY <3>4, <3>5
    <3> HIDE DEF none, found, q
    <3>7. q[i] = [imports |-> found, status |-> "new", order |-> 0]  BY <3>2, <3>3
    <3> QED BY <3>6, <3>7
  <2>8. DOMAIN q = 1 .. n /\ q = [i \in 1 .. n |-> q[i]]  BY <1>3
  <2>9. v = [room |-> walk.room, root |-> 1, stack |-> <<>>,
             state |-> [i \in 1 .. n |-> "unvisited"], order |-> 0]
    <3>1. walk = [room |-> walk.room, root |-> 1, stack |-> <<>>, state |-> <<>>, order |-> 0]
      BY <1>1 DEF Registered
    <3> QED BY <1>3, <3>1
  <2> HIDE DEF q, v
  <2>10. \A i \in 1 .. n : q[i].imports \in Seq(1 .. n) /\ Len(q[i].imports) = Len(stream[i].imports)
    <3>1. TAKE i \in 1 .. n
    <3>2. q[i].imports = [c \in 1 .. Len(stream[i].imports) |-> Find(stream[i].imports[c].from)]
      BY <2>7
    <3>3. q[i].imports \in Seq(1 .. n)  BY <2>3, <2>4, <3>2, IsASeq
    <3> QED BY <2>3, <3>2, <3>3
  <2>11. WalkInv(n, Graph, q, v)
    <3>0. \A i \in 1 .. n : q[i].status = "new" /\ q[i].order = 0  BY <2>7
    <3>00. /\ v.root = 1 /\ v.stack = <<>> /\ v.order = 0 /\ Len(v.stack) = 0
           /\ v.state = [i \in 1 .. n |-> "unvisited"]
           /\ \A i \in 1 .. n : v.state[i] = "unvisited"
      BY <2>9
    <3>1. WalkTyped(n, q, v)
      <4>1. q \in [1 .. n -> Entries(n)]
        <5>1. ASSUME NEW i \in 1 .. n PROVE q[i] \in Entries(n)
          <6>1. q[i] = [imports |-> q[i].imports, status |-> "new", order |-> 0]  BY <2>7
          <6>2. q[i].imports \in Seq(1 .. n)  BY <2>10
          <6> QED BY <6>1, <6>2 DEF Entries
        <5> QED BY <2>8, <5>1
      <4>2. v = [room |-> v.room, root |-> v.root, stack |-> v.stack, state |-> v.state, order |-> v.order]
        BY <2>9
      <4>3. v.state \in [1 .. n -> Marks]  BY <3>00 DEF Marks
      <4>4. v.root \in 1 .. n + 1 /\ v.stack \in Seq(Frames(n)) /\ v.order \in Nat  BY <1>1, <3>00
      <4> QED BY <4>1, <4>2, <4>3, <4>4 DEF WalkTyped
    <3>2. Resolved(n, Graph, q)
      <4>1. ASSUME NEW i \in 1 .. n
            PROVE  /\ \A c \in 1 .. Len(q[i].imports) : q[i].imports[c] \in Graph[i]
                   /\ \A j \in Graph[i] : \E c \in 1 .. Len(q[i].imports) : q[i].imports[c] = j
        <5>1. \A c \in 1 .. Len(q[i].imports) : q[i].imports[c] = Find(stream[i].imports[c].from)
          <6>1. q[i].imports = [c \in 1 .. Len(stream[i].imports) |-> Find(stream[i].imports[c].from)]
            BY <2>7
          <6> QED BY <2>10, <6>1
        <5>2. Graph[i] = {Find(stream[i].imports[c].from) : c \in 1 .. Len(q[i].imports)}
          BY <2>3, <2>6, <2>10 DEF ImportsOf
        <5> QED BY <5>1, <5>2
      <4> QED BY <4>1 DEF Resolved
    <3>3. Marked(n, q, v)  BY <3>0, <3>00 DEF Marked
    <3>4. Stacked(n, v)  BY <3>00 DEF Stacked
    <3>5. Ordered(n, q, v)  BY <3>0, <3>00 DEF Ordered
    <3>6. Path(n, Graph, v)  BY <3>00 DEF Path
    <3>7. Passed(q, v)  BY <3>00 DEF Passed
    <3>8. Followed(n, Graph, q, v)  BY <3>00 DEF Followed
    <3>9. Behind(n, v)  BY <3>00 DEF Behind
    <3>10. Topmost(n, Graph, q, v)  BY <3>00 DEF Topmost
    <3> QED BY <3>1, <3>2, <3>3, <3>4, <3>5, <3>6, <3>7, <3>8, <3>9, <3>10 DEF WalkInv
  <2>12. WalkInv(Len(stream'), Graph', reg', walk')  BY <1>2, <2>1, <2>11, SameGraph
  <2>13. NamesOnce' /\ Graph' \in [1 .. Len(stream') -> SUBSET (1 .. Len(stream'))]
    BY <1>2, <1>4, <2>6, SameGraph
  <2> QED BY <1>1, <1>2, <2>1, <2>12, <2>13 DEF LinkerInv
<1> QED BY <1>5, <1>6

\* What a step of the walk leaves: the stream, the phase and the closure.
LEMMA WalkGoesOn ==
    ASSUME LinkerInv, phase = "walk", phase' = "walk", stream' = stream,
           WalkInv(Len(stream), Graph, reg', walk')
    PROVE  LinkerInv'
<1>1. /\ stream \in Seq(Carried) /\ NamesOnce
      /\ Graph \in [1 .. Len(stream) -> SUBSET (1 .. Len(stream))]
  BY DEF LinkerInv
<1>2. NamesOnce' /\ Graph' = Graph  BY <1>1, SameGraph
<1> QED BY <1>1, <1>2 DEF LinkerInv

\* The walk as the record it is, and what pushing or ordering makes of it.
LEMMA WalkRecord ==
    ASSUME NEW w, NEW i, NEW d,
           w = [room |-> w.room, root |-> w.root, stack |-> w.stack, state |-> w.state, order |-> w.order]
    PROVE  /\ [w EXCEPT !.root = @ + 1] =
                  [room |-> w.room, root |-> w.root + 1, stack |-> w.stack, state |-> w.state, order |-> w.order]
           /\ [w EXCEPT !.stack = d] =
                  [room |-> w.room, root |-> w.root, stack |-> d, state |-> w.state, order |-> w.order]
           /\ [w EXCEPT !.stack = d, !.state[i] = "visiting"] =
                  [room |-> w.room, root |-> w.root, stack |-> d,
                   state |-> [w.state EXCEPT ![i] = "visiting"], order |-> w.order]
           /\ [w EXCEPT !.stack = d, !.state[i] = "done", !.order = @ + 1] =
                  [room |-> w.room, root |-> w.root, stack |-> d,
                   state |-> [w.state EXCEPT ![i] = "done"], order |-> w.order + 1]
<1> DEFINE a == w.room  b == w.root  c == w.stack  e == w.state  f == w.order
<1>1. w = [room |-> a, root |-> b, stack |-> c, state |-> e, order |-> f]  OBVIOUS
<1> HIDE DEF a, b, c, e, f
<1>2. /\ [w EXCEPT !.root = @ + 1] = [room |-> a, root |-> b + 1, stack |-> c, state |-> e, order |-> f]
  BY <1>1
<1>3. [w EXCEPT !.stack = d] = [room |-> a, root |-> b, stack |-> d, state |-> e, order |-> f]
  BY <1>1
<1>x. PICK x : x = [w EXCEPT !.stack = d]  OBVIOUS
<1>y. x = [room |-> a, root |-> b, stack |-> d, state |-> e, order |-> f]  BY <1>3, <1>x
<1>4. [w EXCEPT !.stack = d, !.state[i] = "visiting"] =
          [room |-> a, root |-> b, stack |-> d, state |-> [e EXCEPT ![i] = "visiting"], order |-> f]
  <2>1. PICK y : y = [x.state EXCEPT ![i] = "visiting"]  OBVIOUS
  <2>2. [w EXCEPT !.stack = d, !.state[i] = "visiting"] = [x EXCEPT !.state = y]
    BY <1>x, <2>1, Zenon
  <2>3. x.state = e  BY <1>y
  <2> QED BY <1>y, <2>1, <2>2, <2>3
<1>5. [w EXCEPT !.stack = d, !.state[i] = "done", !.order = @ + 1] =
          [room |-> a, root |-> b, stack |-> d, state |-> [e EXCEPT ![i] = "done"], order |-> f + 1]
  <2>1. PICK y : y = [x.state EXCEPT ![i] = "done"]  OBVIOUS
  <2>2. PICK z : z = [x EXCEPT !.state = y]  OBVIOUS
  <2>3. [w EXCEPT !.stack = d, !.state[i] = "done", !.order = @ + 1] = [z EXCEPT !.order = @ + 1]
    BY <1>x, <2>1, <2>2, Zenon
  <2>4. x.state = e  BY <1>y
  <2>5. z = [room |-> a, root |-> b, stack |-> d, state |-> y, order |-> f]  BY <1>y, <2>2
  <2> QED BY <2>1, <2>3, <2>4, <2>5
<1> QED BY <1>2, <1>3, <1>4, <1>5 DEF a, b, c, e, f

\* A push, as the linker does it.
LEMMA PushStep ==
    ASSUME LinkerInv, phase = "walk", NEW i \in 1 .. Len(stream), walk.state[i] = "unvisited",
           NEW below, Beneath(Len(stream), reg, walk, i, below), Push(i, below)
    PROVE  LinkerInv'
<1> DEFINE n == Len(stream)
<1>1. /\ stream' = stream /\ phase' = phase
      /\ walk' = [walk EXCEPT !.stack = Append(below, [module |-> i, cursor |-> 1]), !.state[i] = "visiting"]
      /\ reg' = [reg EXCEPT ![i].status = IF @ = "new" THEN "linking" ELSE @]
  BY DEF Push
<1>2. /\ stream \in Seq(Carried) /\ WalkInv(n, Graph, reg, walk)
      /\ Graph \in [1 .. n -> SUBSET (1 .. n)]
  BY DEF LinkerInv
<1>3. n \in Nat  BY <1>2
<1>4. reg \in [1 .. n -> Entries(n)] /\ reg[i].status = "new"
  BY <1>2 DEF WalkInv, WalkTyped, Marked
<1>5. /\ reg' \in [1 .. n -> Entries(n)]
      /\ \A j \in 1 .. n : reg'[j].imports = reg[j].imports /\ reg'[j].order = reg[j].order
      /\ \A j \in 1 .. n : reg'[j].status = IF j = i THEN "linking" ELSE reg[j].status
  <2>1. reg' = [reg EXCEPT ![i] = [reg[i] EXCEPT !.status = "linking"]]  BY <1>1, <1>4
  <2> QED BY <1>4, <2>1 DEF Entries
<1>6. walk' = [room |-> walk.room, root |-> walk.root, order |-> walk.order,
               stack |-> Append(below, [module |-> i, cursor |-> 1]),
               state |-> [walk.state EXCEPT ![i] = "visiting"]]
  BY <1>1, <1>2, WalkRecord DEF WalkInv, WalkTyped
<1>7. WalkInv(n, Graph, reg', walk')
  <2> HIDE DEF n
  <2> QED BY <1>2, <1>3, <1>5, <1>6, PushKeeps DEF n
<1> QED BY <1>1, <1>7, WalkGoesOn

LEMMA RootKeeps == LinkerInv /\ Root => LinkerInv'
<1> SUFFICES ASSUME LinkerInv, Root PROVE LinkerInv'  OBVIOUS
<1> DEFINE n == Len(stream)
<1>1. phase = "walk" /\ walk.stack = <<>> /\ walk.root <= n  BY DEF Root
<1>2. /\ stream \in Seq(Carried) /\ WalkInv(n, Graph, reg, walk)
      /\ Graph \in [1 .. n -> SUBSET (1 .. n)]
  BY <1>1 DEF LinkerInv
<1>3. n \in Nat /\ walk.root \in 1 .. n
  <2>1. walk.root \in 1 .. n + 1  BY <1>2 DEF WalkInv, WalkTyped
  <2> QED BY <1>1, <1>2, <2>1
<1>4. CASE walk.state[walk.root] = "unvisited"
  <2>1. Push(walk.root, <<>>)  BY <1>4 DEF Root
  <2>2. Beneath(n, reg, walk, walk.root, <<>>)  BY <1>1 DEF Beneath
  <2> QED BY <1>1, <1>3, <1>4, <2>1, <2>2, PushStep
<1>5. CASE walk.state[walk.root] # "unvisited"
  <2>1. walk' = [walk EXCEPT !.root = @ + 1] /\ stream' = stream /\ reg' = reg /\ phase' = phase
    BY <1>5 DEF Root
  <2>2. walk' = [room |-> walk.room, root |-> walk.root + 1, stack |-> walk.stack,
                 state |-> walk.state, order |-> walk.order]
    BY <1>2, <2>1, WalkRecord DEF WalkInv, WalkTyped
  <2>3. /\ walk'.room = walk.room /\ walk'.root = walk.root + 1 /\ walk'.stack = <<>>
        /\ walk'.stack = walk.stack /\ walk'.state = walk.state /\ walk'.order = walk.order
        /\ walk' = [room |-> walk'.room, root |-> walk'.root, stack |-> walk'.stack,
                    state |-> walk'.state, order |-> walk'.order]
    BY <1>1, <2>2
  <2>4. walk.state[walk.root] = "done"
    <3>1. walk.state[walk.root] \in Marks  BY <1>2, <1>3 DEF WalkInv, WalkTyped
    <3>2. walk.state[walk.root] # "visiting"
      <4>1. Len(walk.stack) = 0  BY <1>1
      <4> QED BY <1>2, <1>3, <4>1 DEF WalkInv, Stacked
    <3> QED BY <1>5, <3>1, <3>2 DEF Marks
  <2> HIDE DEF n
  <2>5. WalkTyped(n, reg', walk')
    <3>1. walk'.root \in 1 .. n + 1  BY <1>3, <2>3
    <3>2. /\ reg \in [1 .. n -> Entries(n)] /\ walk.stack \in Seq(Frames(n))
          /\ walk.state \in [1 .. n -> Marks] /\ walk.order \in Nat
      BY <1>2 DEF WalkInv, WalkTyped
    <3> QED BY <2>1, <2>3, <3>1, <3>2 DEF WalkTyped
  <2>6. Behind(n, walk')
    <3>1. \A i \in 1 .. n : i < walk.root => walk.state[i] = "done"  BY <1>2 DEF WalkInv, Behind
    <3>2. \A i \in 1 .. n : i < walk.root + 1 => i < walk.root \/ i = walk.root  BY <1>3
    <3> QED BY <2>3, <2>4, <3>1, <3>2 DEF Behind
  <2>7. Stacked(n, walk') /\ Path(n, Graph, walk') /\ Passed(reg', walk')
    <3>1. Len(walk'.stack) = 0  BY <2>3
    <3>2. \A i \in 1 .. n : walk'.state[i] # "visiting"
      <4>1. Len(walk.stack) = 0  BY <1>1
      <4> QED BY <1>2, <2>3, <4>1 DEF WalkInv, Stacked
    <3> QED BY <2>3, <3>1, <3>2 DEF Stacked, Path, Passed
  <2>8. Marked(n, reg', walk') /\ Ordered(n, reg', walk')
    BY <1>2, <2>1, <2>3 DEF WalkInv, Marked, Ordered
  <2>9. Resolved(n, Graph, reg') /\ Followed(n, Graph, reg', walk') /\ Topmost(n, Graph, reg', walk')
    BY <1>2, <2>1, <2>3 DEF WalkInv, Resolved, Followed, Topmost
  <2>10. WalkInv(n, Graph, reg', walk')
    BY <2>5, <2>6, <2>7, <2>8, <2>9 DEF WalkInv
  <2> QED BY <1>1, <2>1, <2>10, WalkGoesOn DEF n
<1> QED BY <1>4, <1>5

\* The stack with the cursor on top one further.
LEMMA CursorOn ==
    ASSUME LinkerInv, phase = "walk", walk.stack # <<>>,
           Top.cursor <= Len(reg[Top.module].imports)
    PROVE  /\ Beneath(Len(stream), reg, walk, NextImport,
                      Append(Below, [Top EXCEPT !.cursor = @ + 1]))
           /\ Len(Append(Below, [Top EXCEPT !.cursor = @ + 1])) # 0
           /\ NextImport \in 1 .. Len(stream)
<1> DEFINE n == Len(stream)
           L == Len(walk.stack)
           rest == Append(Below, [Top EXCEPT !.cursor = @ + 1])
<1>1. WalkInv(n, Graph, reg, walk)  BY DEF LinkerInv
<1>2. reg \in [1 .. n -> Entries(n)] /\ walk.stack \in Seq(Frames(n))
  BY <1>1 DEF WalkInv, WalkTyped
<1>3. L \in Nat /\ L # 0 /\ L \in 1 .. L  BY <1>2
<1>4. Top = walk.stack[L] /\ Below = SubSeq(walk.stack, 1, L - 1)  BY DEF Top, Below, Last, Front
<1>5. Top \in Frames(n)  BY <1>2, <1>3, <1>4
<1>6. Top.module \in 1 .. n /\ Top.cursor \in Nat \ {0}  BY <1>5 DEF Frames
<1>7. /\ Below \in Seq(Frames(n)) /\ Len(Below) = L - 1
      /\ \A p \in 1 .. L - 1 : Below[p] = walk.stack[p]
  BY <1>2, <1>3, <1>4
<1>8. [Top EXCEPT !.cursor = @ + 1] = [module |-> Top.module, cursor |-> Top.cursor + 1]
  BY <1>5 DEF Frames
<1>9. [Top EXCEPT !.cursor = @ + 1] \in Frames(n)  BY <1>6, <1>8 DEF Frames
<1>10. /\ rest \in Seq(Frames(n)) /\ Len(rest) = L
       /\ \A p \in 1 .. L - 1 : rest[p] = walk.stack[p]
       /\ rest[L] = [module |-> Top.module, cursor |-> Top.cursor + 1]
  BY <1>3, <1>7, <1>8, <1>9
<1>11. reg[Top.module].imports \in Seq(1 .. n)  BY <1>2, <1>6 DEF Entries
<1>12. NextImport = reg[Top.module].imports[Top.cursor] /\ NextImport \in 1 .. n
  BY <1>6, <1>11 DEF NextImport
<1> HIDE DEF rest, n
<1>13. \A p \in 1 .. L : rest[p].module = walk.stack[p].module
  <2>1. \A p \in 1 .. L : p \in 1 .. L - 1 \/ p = L  BY <1>3
  <2>2. rest[L].module = Top.module  BY <1>10
  <2> QED BY <1>4, <1>10, <2>1, <2>2
<1>14. rest[L].cursor = walk.stack[L].cursor + 1  BY <1>4, <1>10
<1>15. Beneath(n, reg, walk, NextImport, rest)
  BY <1>3, <1>4, <1>10, <1>12, <1>13, <1>14 DEF Beneath
<1> QED BY <1>3, <1>10, <1>12, <1>15 DEF rest, n

LEMMA FollowKeeps == LinkerInv /\ Follow => LinkerInv'
<1> SUFFICES ASSUME LinkerInv, Follow PROVE LinkerInv'  OBVIOUS
<1> DEFINE n == Len(stream)
           rest == Append(Below, [Top EXCEPT !.cursor = @ + 1])
<1>1. phase = "walk" /\ walk.stack # <<>> /\ Top.cursor <= Len(reg[Top.module].imports)
  BY DEF Follow
<1>2. Beneath(n, reg, walk, NextImport, rest) /\ Len(rest) # 0 /\ NextImport \in 1 .. n
  BY <1>1, CursorOn
<1>3. /\ stream \in Seq(Carried) /\ WalkInv(n, Graph, reg, walk)
      /\ Graph \in [1 .. n -> SUBSET (1 .. n)]
  BY <1>1 DEF LinkerInv
<1>4. n \in Nat  BY <1>3
<1> HIDE DEF rest
<1>5. CASE walk.state[NextImport] # "unvisited"
  <2>1. walk' = [walk EXCEPT !.stack = rest] /\ stream' = stream /\ reg' = reg /\ phase' = phase
    BY <1>5 DEF Follow, rest
  <2>2. walk' = [room |-> walk.room, root |-> walk.root, order |-> walk.order,
                 stack |-> rest, state |-> walk.state]
    BY <1>3, <2>1, WalkRecord DEF WalkInv, WalkTyped
  <2>3. WalkInv(n, Graph, reg, walk')
    <3> HIDE DEF n
    <3> QED BY <1>2, <1>3, <1>4, <1>5, <2>2, PassKeeps DEF n
  <2> QED BY <1>1, <2>1, <2>3, WalkGoesOn
<1>6. CASE walk.state[NextImport] = "unvisited" /\ Len(rest) >= walk.room
  <2>1. /\ phase' = "failed" /\ stream' = stream
        /\ reg' = [reg EXCEPT ![NextImport].status = IF @ = "new" THEN "linking" ELSE @]
    BY <1>6 DEF Follow, rest, Fail
  <2>2. reg \in [1 .. n -> Entries(n)] /\ reg[NextImport].status = "new"
    BY <1>2, <1>3, <1>6 DEF WalkInv, WalkTyped, Marked
  <2>3. reg' = [reg EXCEPT ![NextImport] = [reg[NextImport] EXCEPT !.status = "linking"]]
    BY <2>1, <2>2
  <2>4. NextImport \in DOMAIN reg' /\ reg'[NextImport].status = "linking"
    BY <1>2, <2>2, <2>3 DEF Entries
  <2>5. HalfLinked'  BY <2>4 DEF HalfLinked
  <2> QED BY <1>3, <2>1, <2>5 DEF LinkerInv
<1>7. CASE walk.state[NextImport] = "unvisited" /\ ~(Len(rest) >= walk.room)
  <2>1. Push(NextImport, rest)  BY <1>7 DEF Follow, rest
  <2> QED BY <1>1, <1>2, <1>7, <2>1, PushStep
<1> QED BY <1>5, <1>6, <1>7

LEMMA FinishStep == LinkerInv /\ Finish => LinkerInv'
<1> SUFFICES ASSUME LinkerInv, Finish PROVE LinkerInv'  OBVIOUS
<1> DEFINE n == Len(stream)
           L == Len(walk.stack)
           t == Top.module
<1>1. phase = "walk" /\ walk.stack # <<>> /\ Top.cursor > Len(reg[t].imports)  BY DEF Finish
<1>2. /\ stream \in Seq(Carried) /\ WalkInv(n, Graph, reg, walk)
      /\ Graph \in [1 .. n -> SUBSET (1 .. n)]
  BY <1>1 DEF LinkerInv
<1>3. /\ reg \in [1 .. n -> Entries(n)] /\ walk.stack \in Seq(Frames(n)) /\ walk.order \in Nat
      /\ walk = [room |-> walk.room, root |-> walk.root, stack |-> walk.stack,
                 state |-> walk.state, order |-> walk.order]
  BY <1>2 DEF WalkInv, WalkTyped
<1>4. L \in Nat \ {0} /\ L \in 1 .. L /\ n \in Nat  BY <1>1, <1>2, <1>3
<1>5. Top = walk.stack[L] /\ Below = SubSeq(walk.stack, 1, L - 1)  BY DEF Top, Below, Last, Front
<1>6. t \in 1 .. n
  <2>1. Top \in Frames(n)  BY <1>3, <1>4, <1>5
  <2> QED BY <2>1 DEF Frames
<1>7. /\ Below \in Seq(Frames(n)) /\ Len(Below) = L - 1
      /\ \A p \in 1 .. L - 1 : Below[p] = walk.stack[p]
  <2>1. L \in Nat /\ L # 0 /\ walk.stack \in Seq(Frames(n))  BY <1>3, <1>4
  <2> QED BY <1>5, <2>1
<1>8. /\ stream' = stream /\ phase' = phase
      /\ walk' = [walk EXCEPT !.stack = Below, !.state[t] = "done", !.order = @ + 1]
      /\ reg' = [reg EXCEPT ![t].order = walk.order + 1,
                            ![t].status = IF @ = "linking" THEN "linked" ELSE @]
  BY DEF Finish
<1>9. reg[t].status = "linking"
  BY <1>2, <1>4, <1>5, <1>6 DEF WalkInv, Stacked, Marked
<1>10. /\ reg' \in [1 .. n -> Entries(n)]
       /\ \A j \in 1 .. n : reg'[j].imports = reg[j].imports
       /\ \A j \in 1 .. n : reg'[j].order = IF j = t THEN walk.order + 1 ELSE reg[j].order
       /\ \A j \in 1 .. n : reg'[j].status = IF j = t THEN "linked" ELSE reg[j].status
  <2> HIDE DEF t, n
  <2>1. PICK e : e = [reg[t] EXCEPT !.order = walk.order + 1, !.status = "linked"]  OBVIOUS
  <2>2. reg[t] \in Entries(n)  BY <1>3, <1>6
  <2>3. e \in Entries(n) /\ e.imports = reg[t].imports /\ e.order = walk.order + 1 /\ e.status = "linked"
    <3>1. reg[t] = [imports |-> reg[t].imports, status |-> reg[t].status, order |-> reg[t].order]
          /\ reg[t].imports \in Seq(1 .. n)
      BY <2>2 DEF Entries
    <3>2. e = [imports |-> reg[t].imports, status |-> "linked", order |-> walk.order + 1]
      BY <2>1, <3>1
    <3>3. walk.order + 1 \in Nat  BY <1>3
    <3> QED BY <3>1, <3>2, <3>3 DEF Entries
  <2>4. reg' = [reg EXCEPT ![t] = e]  BY <1>3, <1>6, <1>8, <1>9, <2>1, <2>2 DEF Entries
  <2>5. DOMAIN reg' = 1 .. n /\ \A j \in 1 .. n : reg'[j] = IF j = t THEN e ELSE reg[j]
    BY <1>3, <2>4
  <2> QED BY <1>3, <1>6, <2>3, <2>4, <2>5
<1>11. walk' = [room |-> walk.room, root |-> walk.root, order |-> walk.order + 1,
                stack |-> Below, state |-> [walk.state EXCEPT ![t] = "done"]]
  BY <1>3, <1>8, WalkRecord
<1>12. walk.stack[L].cursor > Len(reg[t].imports) /\ t = walk.stack[L].module  BY <1>1, <1>5
<1>13. Ordering(n, reg, walk, L, t, Below, reg', walk')
  <2> HIDE DEF n, t
  <2> QED BY <1>4, <1>7, <1>10, <1>11, <1>12 DEF Ordering
<1>14. WalkInv(n, Graph, reg', walk')  BY <1>2, <1>4, <1>13, FinishKeeps
<1> QED BY <1>1, <1>8, <1>14, WalkGoesOn

LEMMA WriteKeeps == LinkerInv /\ Write => LinkerInv'
<1> SUFFICES ASSUME LinkerInv, Write PROVE LinkerInv'  OBVIOUS
<1> DEFINE n == Len(stream)
<1>1. /\ phase = "walk" /\ walk.root > n /\ stream' = stream /\ reg' = reg /\ walk' = walk
      /\ phase' = "linked"
      /\ closure' = [modules |-> [at \in Modules |->
                         stream[CHOOSE i \in Modules : reg[i].order = at].name],
                     entry |-> walk.order]
  BY DEF Write
<1>2. /\ stream \in Seq(Carried) /\ WalkInv(n, Graph, reg, walk) /\ NamesOnce
      /\ Graph \in [1 .. n -> SUBSET (1 .. n)]
  BY <1>1 DEF LinkerInv
<1>3. Modules = 1 .. n /\ n \in Nat  BY <1>2 DEF Modules
<1>4. \A i \in 1 .. n : walk.state[i] = "done"
  <2>1. walk.root \in 1 .. n + 1  BY <1>2 DEF WalkInv, WalkTyped
  <2>2. \A i \in 1 .. n : i < walk.root  BY <1>1, <1>3, <2>1
  <2> QED BY <1>2, <2>2 DEF WalkInv, Behind
<1>5. Written'  BY <1>1, <1>3, <1>4 DEF Written
<1>6. NamesOnce' /\ Graph' = Graph  BY <1>1, <1>2, SameGraph
<1>7. WalkInv(Len(stream'), Graph', reg', walk')  BY <1>1, <1>2, <1>6
<1> QED BY <1>1, <1>2, <1>5, <1>6, <1>7 DEF LinkerInv

LEMMA LinkerKeeps == LinkerInv /\ [LinkerNext]_lvars => LinkerInv'
<1> SUFFICES ASSUME LinkerInv, [LinkerNext]_lvars PROVE LinkerInv'  OBVIOUS
<1>1. CASE UNCHANGED lvars
  <2>1. stream' = stream /\ reg' = reg /\ walk' = walk /\ phase' = phase /\ closure' = closure
    BY <1>1 DEF lvars
  <2>2. Graph' = Graph /\ (NamesOnce => NamesOnce')  BY <2>1, SameGraph
  <2>3. \A name : Find(name)' = Find(name)  BY <2>1 DEF Find, Modules
  <2>4. Registered => Registered'  BY <2>1, <2>3 DEF Registered
  <2>5. Written => Written'  BY <2>1 DEF Written
  <2>6. HalfLinked => HalfLinked'  BY <2>1 DEF HalfLinked
  <2>7. WalkInv(Len(stream), Graph, reg, walk) => WalkInv(Len(stream'), Graph', reg', walk')
    BY <2>1, <2>2
  <2> QED BY <2>1, <2>2, <2>4, <2>5, <2>6, <2>7 DEF LinkerInv
<1>2. CASE LinkerNext
  BY <1>2, RegisterKeeps, ResolveKeeps, RootKeeps, FollowKeeps, FinishStep, WriteKeeps DEF LinkerNext
<1> QED BY <1>1, <1>2

-----------------------------------------------------------------------------
(* What the closure carries.                                               *)

LEMMA SameReach ==
    ASSUME stream \in Seq(Carried), Graph \in [1 .. Len(stream) -> SUBSET (1 .. Len(stream))]
    PROVE  /\ Modules = 1 .. Len(stream)
           /\ \A i \in 1 .. Len(stream) : /\ Graph[i] = ImportsOf(i)
                                          /\ Reachable(i) = Beyond(Len(stream), Graph, i)
<1> DEFINE n == Len(stream)
<1>1. Modules = 1 .. n  BY DEF Modules
<1>2. \A i \in 1 .. n : Graph[i] = ImportsOf(i)  BY DEF Graph
<1>3. ASSUME NEW i \in 1 .. n PROVE Reachable(i) = Beyond(n, Graph, i)
  <2>1. \A S \in SUBSET (1 .. n) : Leads(S) <=> \A k \in S : Graph[k] \subseteq S
    BY <1>2 DEF Leads
  <2>2. Reachable(i) = {j \in 1 .. n : \A S \in SUBSET (1 .. n) :
                                           ImportsOf(i) \subseteq S /\ Leads(S) => j \in S}
    BY <1>1 DEF Reachable
  <2> HIDE DEF n
  <2>3. \A j \in 1 .. n : j \in Reachable(i) <=> j \in Beyond(n, Graph, i)
    BY <1>2, <2>1, <2>2 DEF Beyond
  <2> QED BY <2>2, <2>3 DEF Beyond
<1> QED BY <1>1, <1>2, <1>3

\* Once the closure is written, every module has its own order of 1 to the
\* number of modules, and stands there.
LEMMA PlacesAreOrders ==
    ASSUME LinkerInv, phase = "linked"
    PROVE  /\ walk.order = Len(stream)
           /\ \A i \in 1 .. Len(stream) : reg[i].order \in 1 .. Len(stream) /\ At(i) = reg[i].order
           /\ \A k \in 1 .. Len(stream) : \E i \in 1 .. Len(stream) :
                  reg[i].order = k /\ closure.modules[k] = stream[i].name
           /\ DOMAIN closure.modules = 1 .. Len(stream)
           /\ closure.entry = walk.order
<1> DEFINE n == Len(stream)
<1>1. /\ stream \in Seq(Carried) /\ WalkInv(n, Graph, reg, walk) /\ NamesOnce /\ Written
      /\ Graph \in [1 .. n -> SUBSET (1 .. n)]
  BY DEF LinkerInv
<1>2. n \in Nat /\ walk.order \in Nat /\ Modules = 1 .. n
  BY <1>1 DEF WalkInv, WalkTyped, Modules
<1>3. /\ \A i \in 1 .. n : reg[i].order \in 1 .. walk.order
      /\ \A i, j \in 1 .. n : reg[i].order = reg[j].order => i = j
      /\ \A k \in 1 .. walk.order : \E i \in 1 .. n : reg[i].order = k
  <2>1. \A i \in 1 .. n : walk.state[i] = "done"  BY <1>1 DEF Written
  <2>2. \A i \in 1 .. n : reg[i].order \in 1 .. walk.order  BY <1>1, <2>1 DEF WalkInv, Marked
  <2>3. \A i \in 1 .. n : reg[i].order # 0  BY <2>2
  <2> QED BY <1>1, <2>2, <2>3 DEF WalkInv, Ordered
<1>4. walk.order = n
  <2> DEFINE f == [i \in 1 .. n |-> reg[i].order]
  <2>1. f \in Bijection(1 .. n, 1 .. walk.order)
    BY <1>3 DEF Bijection, Injection, Surjection, IsInjective
  <2>2. ExistsBijection(1 .. n, 1 .. walk.order)  BY <2>1 DEF ExistsBijection
  <2>3. /\ IsFiniteSet(1 .. n) /\ Cardinality(1 .. n) = n
        /\ Cardinality(1 .. walk.order) = walk.order
    <3> HIDE DEF n
    <3>1. n \in Int /\ n >= 0 /\ walk.order \in Int /\ walk.order >= 0  BY <1>2
    <3>2. IsFiniteSet(1 .. n) /\ Cardinality(1 .. n) = IF 1 > n THEN 0 ELSE n - 1 + 1
      BY <3>1, FS_Interval
    <3>3. Cardinality(1 .. walk.order) = IF 1 > walk.order THEN 0 ELSE walk.order - 1 + 1
      BY <3>1, FS_Interval
    <3> QED BY <3>1, <3>2, <3>3
  <2>4. Cardinality(1 .. walk.order) = Cardinality(1 .. n)  BY <2>2, <2>3, FS_Bijection
  <2> QED BY <2>3, <2>4
<1>5. /\ closure.entry = walk.order /\ DOMAIN closure.modules = 1 .. n
      /\ \A k \in 1 .. n : closure.modules[k] = stream[CHOOSE i \in 1 .. n : reg[i].order = k].name
  BY <1>1 DEF Written
<1>6. \A i \in 1 .. n : closure.modules[reg[i].order] = stream[i].name
  <2>1. TAKE i \in 1 .. n
  <2>2. (CHOOSE j \in 1 .. n : reg[j].order = reg[i].order) = i  BY <1>3
  <2>3. reg[i].order \in 1 .. n  BY <1>3, <1>4
  <2> QED BY <1>5, <2>2, <2>3
<1>7. \A i, j \in 1 .. n : stream[i].name = stream[j].name => i = j
  <2>1. TAKE i, j \in 1 .. n
  <2>2. Find(stream[i].name) = i /\ Find(stream[j].name) = j  BY <1>1 DEF NamesOnce
  <2> QED BY <2>2
<1>8. ASSUME NEW i \in 1 .. n PROVE At(i) = reg[i].order
  <2>1. reg[i].order \in 1 .. n /\ closure.modules[reg[i].order] = stream[i].name
    BY <1>3, <1>4, <1>6
  <2>2. \A k \in 1 .. n : closure.modules[k] = stream[i].name => k = reg[i].order
    <3>1. TAKE k \in 1 .. n
    <3>2. HAVE closure.modules[k] = stream[i].name
    <3>3. PICK j \in 1 .. n : reg[j].order = k  BY <1>3, <1>4
    <3>4. stream[j].name = stream[i].name  BY <1>6, <3>2, <3>3
    <3> QED BY <1>7, <3>3, <3>4
  <2>3. At(i) = CHOOSE k \in 1 .. n : closure.modules[k] = stream[i].name  BY <1>2 DEF At
  <2> HIDE DEF n
  <2> QED BY <2>1, <2>2, <2>3
<1>9. \A k \in 1 .. n : \E i \in 1 .. n : reg[i].order = k /\ closure.modules[k] = stream[i].name
  <2>1. TAKE k \in 1 .. n
  <2>2. PICK i \in 1 .. n : reg[i].order = k  BY <1>3, <1>4
  <2> QED BY <1>6, <2>2
<1> QED BY <1>3, <1>4, <1>5, <1>8, <1>9

LEMMA ImportsFollow == LinkerInv => ImportsComeFirst
<1> SUFFICES ASSUME LinkerInv, phase = "linked", NEW i \in Modules, NEW j \in ImportsOf(i)
             PROVE  At(j) < At(i) \/ i \in Reachable(j)
  BY DEF ImportsComeFirst
<1> DEFINE n == Len(stream)
<1>1. /\ stream \in Seq(Carried) /\ WalkInv(n, Graph, reg, walk) /\ Written
      /\ Graph \in [1 .. n -> SUBSET (1 .. n)]
  BY DEF LinkerInv
<1>2. i \in 1 .. n /\ j \in Graph[i] /\ j \in 1 .. n  BY <1>1, SameReach
<1>3. walk.state[i] = "done"  BY <1>1, <1>2 DEF Written
<1>4. reg[j].order < reg[i].order \/ i \in Beyond(n, Graph, j)
  BY <1>1, <1>2, <1>3 DEF WalkInv, Followed
<1>5. At(i) = reg[i].order /\ At(j) = reg[j].order  BY <1>2, PlacesAreOrders
<1>6. Reachable(j) = Beyond(n, Graph, j)  BY <1>1, <1>2, SameReach
<1> QED BY <1>4, <1>5, <1>6

LEMMA WholeFollows == LinkerInv => ClosureWhole
<1> SUFFICES ASSUME LinkerInv, phase = "linked"
             PROVE  /\ Len(closure.modules) = Len(stream)
                    /\ IsInjective(closure.modules)
                    /\ ToSet(closure.modules) = {stream[i].name : i \in Modules}
  BY DEF ClosureWhole
<1> DEFINE n == Len(stream)
           placed == closure.modules
<1>1. /\ stream \in Seq(Carried) /\ NamesOnce
      /\ Graph \in [1 .. n -> SUBSET (1 .. n)]
  BY DEF LinkerInv
<1>2. n \in Nat /\ Modules = 1 .. n  BY <1>1, SameReach
<1>3. /\ \A i \in 1 .. n : reg[i].order \in 1 .. n /\ At(i) = reg[i].order
      /\ \A k \in 1 .. n : \E i \in 1 .. n : reg[i].order = k /\ placed[k] = stream[i].name
      /\ DOMAIN placed = 1 .. n
  BY PlacesAreOrders
<1>4. placed = [k \in 1 .. n |-> placed[k]]
  <2>1. closure.modules = [at \in 1 .. n |-> stream[CHOOSE i \in 1 .. n : reg[i].order = at].name]
    <3>1. Written  BY DEF LinkerInv
    <3> QED BY <3>1 DEF Written
  <2> QED BY <2>1
<1>5. \A i, j \in 1 .. n : stream[i].name = stream[j].name => i = j
  <2>1. TAKE i, j \in 1 .. n
  <2>2. Find(stream[i].name) = i /\ Find(stream[j].name) = j  BY <1>1 DEF NamesOnce
  <2> QED BY <2>2
<1> HIDE DEF placed, n
<1>6. Len(placed) = n
  <2>1. placed \in Seq({placed[k] : k \in 1 .. n})  BY <1>2, <1>4, IsASeq
  <2> QED BY <1>2, <1>3, <2>1
<1>7. IsInjective(placed)
  <2>1. ASSUME NEW a \in 1 .. n, NEW b \in 1 .. n, placed[a] = placed[b] PROVE a = b
    <3>1. PICK i \in 1 .. n : reg[i].order = a /\ placed[a] = stream[i].name  BY <1>3
    <3>2. PICK j \in 1 .. n : reg[j].order = b /\ placed[b] = stream[j].name  BY <1>3
    <3> QED BY <1>5, <2>1, <3>1, <3>2
  <2> QED BY <1>3, <2>1 DEF IsInjective
<1>8. ToSet(placed) = {stream[i].name : i \in 1 .. n}
  <2>1. ASSUME NEW k \in 1 .. n PROVE \E i \in 1 .. n : placed[k] = stream[i].name  BY <1>3
  <2>2. ASSUME NEW i \in 1 .. n PROVE \E k \in 1 .. n : placed[k] = stream[i].name
    <3>1. reg[i].order \in 1 .. n /\ At(i) = reg[i].order  BY <1>3
    <3>2. PICK j \in 1 .. n : reg[j].order = reg[i].order /\ placed[reg[i].order] = stream[j].name
      BY <1>3, <3>1
    <3>3. i = j
      <4>1. WalkInv(n, Graph, reg, walk)  BY DEF LinkerInv, n
      <4>2. reg[i].order # 0  BY <3>1
      <4> QED BY <3>2, <4>1, <4>2 DEF WalkInv, Ordered
    <3> QED BY <3>1, <3>2, <3>3
  <2>3. ToSet(placed) = {placed[k] : k \in 1 .. n}  BY <1>3 DEF ToSet
  <2> QED BY ONLY <2>1, <2>2, <2>3
<1> QED BY <1>2, <1>6, <1>7, <1>8 DEF placed, n

LEMMA RootFollows == LinkerInv => EntryIsTheRoot
<1> SUFFICES ASSUME LinkerInv, phase = "linked"
             PROVE  LET roots == {i \in Modules : \A j \in Modules \ {i} : i \notin ImportsOf(j)}
                    IN  /\ \A r \in roots : Reachable(r) \cup {r} = Modules => At(r) = closure.entry
                        /\ Len(stream) \in roots => At(Len(stream)) = closure.entry
  BY DEF EntryIsTheRoot
<1> DEFINE n == Len(stream)
<1>1. /\ stream \in Seq(Carried) /\ WalkInv(n, Graph, reg, walk) /\ Written
      /\ Graph \in [1 .. n -> SUBSET (1 .. n)]
  BY DEF LinkerInv
<1>2. Modules = 1 .. n /\ n \in Nat  BY <1>1, SameReach
<1>3. \A i \in 1 .. n : walk.state[i] = "done"  BY <1>1 DEF Written
<1>4. walk.order = n /\ closure.entry = n /\ \A i \in 1 .. n : reg[i].order \in 1 .. n /\ At(i) = reg[i].order
  BY PlacesAreOrders
<1>5. ASSUME NEW r \in 1 .. n, \A j \in 1 .. n \ {r} : r \notin ImportsOf(j)
      PROVE  Unimported(n, Graph, r)
  <2>1. \A j \in 1 .. n : j # r => r \notin Graph[j]  BY <1>1, <1>5, SameReach
  <2> QED BY <2>1 DEF Unimported
<1>6. ASSUME NEW r \in 1 .. n, Unimported(n, Graph, r), Reachable(r) \cup {r} = 1 .. n
      PROVE  At(r) = closure.entry
  <2> DEFINE S == {i \in 1 .. n : reg[i].order <= reg[r].order}
  <2>1. \A i \in 1 .. n : reg[i].order <= reg[r].order =>
            \A j \in Graph[i] : reg[j].order <= reg[r].order
    BY <1>1, <1>3, <1>6 DEF WalkInv, Topmost
  <2>2. \A i \in 1 .. n : Graph[i] \subseteq 1 .. n  BY <1>1
  <2>3. \A k \in S : Graph[k] \subseteq S  BY <2>1, <2>2
  <2>4. r \in S  BY <1>4, <1>6
  <2>5. Beyond(n, Graph, r) \subseteq S
    <3>1. S \in SUBSET (1 .. n)  OBVIOUS
    <3> HIDE DEF S
    <3> QED BY <1>1, <1>6, <2>3, <2>4, <3>1, BeyondWithin
  <2>6. \A i \in 1 .. n : reg[i].order <= reg[r].order
    <3>1. Reachable(r) = Beyond(n, Graph, r)  BY <1>1, <1>6, SameReach
    <3>2. \A i \in 1 .. n : i \in S  BY <1>6, <2>4, <2>5, <3>1
    <3> QED BY <3>2
  <2>7. PICK i \in 1 .. n : reg[i].order = n
    <3>1. n \in 1 .. n  BY <1>2, <1>6
    <3> QED BY <3>1, PlacesAreOrders
  <2> QED BY <1>2, <1>4, <1>6, <2>6, <2>7
<1>7. ASSUME n \in 1 .. n, Unimported(n, Graph, n) PROVE At(n) = closure.entry
  <2>1. reg[n].order = walk.order  BY <1>1, <1>3, <1>7 DEF WalkInv, Topmost
  <2> QED BY <1>4, <1>7, <2>1
<1> QED BY <1>2, <1>5, <1>6, <1>7

LEMMA FailedFollows == LinkerInv => FailedIsNotLinked
<1> SUFFICES ASSUME LinkerInv, phase = "failed" PROVE ~is_linked  BY DEF FailedIsNotLinked
<1>1. HalfLinked  BY DEF LinkerInv
<1> QED BY <1>1 DEF HalfLinked, is_linked, NoOrder

\* Of any stream, whatever imports what and however deep the walk may go, the
\* linker writes every module once, each after what it imports unless the two
\* are in a cycle, from the module nothing imports; and a link that failed
\* part-way is not taken for one that is over (link_all, is_linked).
THEOREM LinkedInOrderCorrect == LinkerSpec => []LinkedInOrder
<1>1. LinkerInit => LinkerInv  BY Initially
<1>2. LinkerInv /\ [LinkerNext]_lvars => LinkerInv'  BY LinkerKeeps
<1>3. LinkerInv => LinkedInOrder
  BY ImportsFollow, WholeFollows, RootFollows, FailedFollows DEF LinkedInOrder
<1> QED BY <1>1, <1>2, <1>3, PTL DEF LinkerSpec

=============================================================================
