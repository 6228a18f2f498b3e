-------------------------- MODULE LSTEditorLemmas --------------------------
(***************************************************************************)
(* What each call of the editor does to its heap, its pool and its ledger, *)
(* for every set of slots, lexemes and bounds, and whether or not callers  *)
(* avoid cycles: nothing here needs trees to be acyclic.                   *)
(***************************************************************************)
EXTENDS LSTEditor, SequenceTheorems, WellFoundedInduction, TLAPS

(* Spans end where the last lexeme does, at the latest. *)
LastOffset == CHOOSE last \in Offsets \cup {0} : \A t \in Offsets : t <= last

Ends == 0 .. LastOffset + 1

Node(A) == [id : Nat, parent : A \cup {Nil}, children : Seq(A), slots : [Slots -> A \cup {Nil}],
            tokens : SUBSET Offsets, start : Nat, end : Ends, spanValid : BOOLEAN]

Editor(A) == [heap : Seq(Node(A)), nextID : Nat, root : A \cup {Nil}, frozen : BOOLEAN,
              treeDirty : BOOLEAN, created : Seq(A), nodeFree : Seq(A), inUse : BOOLEAN]

IsEditor(e) == e \in Editor(DOMAIN e.heap)

(* Two nodes that differ in their span and their lexemes at most. *)
SameLinks(m, n) == /\ m.id = n.id /\ m.parent = n.parent
                   /\ m.children = n.children /\ m.slots = n.slots

(* Two editors that differ in their links, spans and lexemes at most. *)
SameNodes(d, e) ==
  /\ DOMAIN d.heap = DOMAIN e.heap
  /\ \A n \in DOMAIN e.heap : d.heap[n].id = e.heap[n].id
  /\ d.created = e.created /\ d.nodeFree = e.nodeFree

SameTopology(d, e) == /\ SameNodes(d, e)
                      /\ \A n \in DOMAIN e.heap : SameLinks(d.heap[n], e.heap[n])

-----------------------------------------------------------------------------
(* Numbers and recursive functions. *)

(* A set of numbers that is not empty has a least one. *)
LEMMA LeastNumber ==
  ASSUME NEW T, T \subseteq Nat, T # {}
  PROVE  \E x \in T : \A y \in T : x <= y
<1> DEFINE R == OpToRel(<, Nat)
<1>1. \E x \in T : \A y \in T : ~(<<y, x>> \in R)
  <2> HIDE DEF R
  <2>1. IsWellFoundedOn(R, Nat)
    BY NatLessThanWellFounded DEF R
  <2> QED
    BY <2>1, WFMin, Zenon
<1>2. \A x, y \in Nat : <<y, x>> \in R <=> y < x
  BY DEF OpToRel
<1> HIDE DEF R
<1>3. PICK x \in T : \A y \in T : ~(<<y, x>> \in R)
  BY <1>1
<1>4. \A y \in T : ~(y < x)
  BY <1>2, <1>3
<1> QED
  BY <1>3, <1>4

(* What holds of the first value of a recursive function and is kept by    *)
(* each step holds of all its values.                                      *)
LEMMA StepByStep ==
  ASSUME NEW L \in Nat, NEW f, NEW S, f[0] \in S,
         \A d \in 1 .. L : f[d - 1] \in S => f[d] \in S
  PROVE  \A d \in 0 .. L : f[d] \in S
<1> SUFFICES ASSUME NEW c \in 0 .. L, f[c] \notin S
             PROVE  FALSE
  OBVIOUS
<1> DEFINE T == {d \in 0 .. L : f[d] \notin S}
<1>1. T \subseteq Nat /\ T # {}
  OBVIOUS
<1>2. PICK x \in T : \A y \in T : x <= y
  <2> HIDE DEF T
  <2> QED
    BY <1>1, LeastNumber, Zenon
<1>3. x # 0
  BY <1>2
<1>4. x - 1 \in 0 .. L /\ ~(x <= x - 1)
  BY <1>2, <1>3
<1>5. f[x - 1] \in S
  BY <1>2, <1>4
<1> QED
  BY <1>2, <1>3, <1>5

(* A function may be defined by recursion over 0 .. L. *)
Recurses(f, L, base, step) == f = [d \in 0 .. L |-> IF d = 0 THEN base ELSE step[f[d - 1]]]

LEMMA RecursionExists ==
  ASSUME NEW L \in Nat, NEW S, NEW base \in S, NEW step \in [S -> S]
  PROVE  \E f \in [0 .. L -> S] : Recurses(f, L, base, step)
<1> DEFINE Defined(m) == \E f \in [0 .. m -> S] :
                 f = [d \in 0 .. m |-> IF d = 0 THEN base ELSE step[f[d - 1]]]
           U == {m \in 0 .. L : Defined(m)}
           z == [m \in 0 .. L |-> m]
<1>1. 0 \in U
  <2> DEFINE f == [d \in 0 .. 0 |-> base]
  <2>1. f \in [0 .. 0 -> S]
    OBVIOUS
  <2>2. f = [d \in 0 .. 0 |-> IF d = 0 THEN base ELSE step[f[d - 1]]]
    OBVIOUS
  <2>3. Defined(0)
    <3> HIDE DEF f
    <3> QED
      BY <2>1, <2>2
  <2> HIDE DEF Defined
  <2> QED
    BY <2>3
<1>2. ASSUME NEW m \in 1 .. L, m - 1 \in U
      PROVE  m \in U
  <2>1. PICK f \in [0 .. m - 1 -> S] :
             f = [d \in 0 .. m - 1 |-> IF d = 0 THEN base ELSE step[f[d - 1]]]
    BY <1>2
  <2> DEFINE g == [d \in 0 .. m |-> IF d = m THEN step[f[m - 1]] ELSE f[d]]
  <2>2. f[m - 1] \in S /\ step[f[m - 1]] \in S
    OBVIOUS
  <2>3. g \in [0 .. m -> S]
    BY <2>2
  <2>4. ASSUME NEW d \in 0 .. m
        PROVE  g[d] = IF d = 0 THEN base ELSE step[g[d - 1]]
    <3>1. CASE d = m
      <4>1. d # 0 /\ d - 1 \in 0 .. m /\ d - 1 # m
        BY <3>1
      <4> QED
        BY <3>1, <4>1
    <3>2. CASE d # m
      <4>1. d \in 0 .. m - 1 /\ g[d] = f[d]
        BY <3>2
      <4>2. f[d] = IF d = 0 THEN base ELSE step[f[d - 1]]
        BY <2>1, <4>1
      <4>3. d # 0 => d - 1 \in 0 .. m /\ d - 1 # m /\ g[d - 1] = f[d - 1]
        BY <3>2
      <4> HIDE DEF g
      <4> QED
        BY <4>1, <4>2, <4>3
    <3> QED
      BY <3>1, <3>2
  <2>5. g = [d \in 0 .. m |-> IF d = 0 THEN base ELSE step[g[d - 1]]]
    <3>1. g = [d \in 0 .. m |-> g[d]]
      OBVIOUS
    <3> HIDE DEF g
    <3> QED
      BY <2>4, <3>1
  <2> HIDE DEF g
  <2> QED
    BY <2>3, <2>5
<1>3. \A m \in 0 .. L : z[m] \in U
  <2>1. z[0] \in U
    BY <1>1
  <2>2. \A m \in 1 .. L : z[m - 1] \in U => z[m] \in U
    <3> TAKE m \in 1 .. L
    <3>1. z[m - 1] = m - 1 /\ z[m] = m
      OBVIOUS
    <3> HIDE DEF U, z
    <3> QED
      BY <1>2, <3>1
  <2> HIDE DEF U, z
  <2> QED
    BY <2>1, <2>2, StepByStep
<1>4. z[L] = L /\ L \in 0 .. L
  OBVIOUS
<1>5. L \in U
  <2> HIDE DEF U, z
  <2> QED
    BY <1>3, <1>4
<1> QED
  BY <1>5 DEF Recurses

(* There is a last lexeme. *)
LEMMA LastOffsetIsLast ==
  /\ LastOffset \in Nat /\ Offsets \subseteq Nat
  /\ \A t \in Offsets : t <= LastOffset
<1>1. \E last \in Offsets \cup {0} : \A t \in Offsets : t <= last
  BY LSTEditorAssumption
<1>2. LastOffset \in Offsets \cup {0} /\ \A t \in Offsets : t <= LastOffset
  BY <1>1, Zenon DEF LastOffset
<1> QED
  BY <1>2, LSTEditorAssumption

(* The least of some starts and the greatest of some ends. *)
LEMMA SpanOf ==
  /\ \A lows \in SUBSET Nat : lows # {} => (CHOOSE l \in lows : \A m \in lows : l <= m) \in Nat
  /\ \A highs \in SUBSET Ends :
        highs # {} => (CHOOSE h \in highs : \A m \in highs : h >= m) \in Ends
<1>1. ASSUME NEW lows \in SUBSET Nat, lows # {}
      PROVE  (CHOOSE l \in lows : \A m \in lows : l <= m) \in Nat
  <2>1. \E l \in lows : \A m \in lows : l <= m
    BY <1>1, LeastNumber
  <2>2. (CHOOSE l \in lows : \A m \in lows : l <= m) \in lows
    BY <2>1, Zenon
  <2> QED
    BY <2>2
<1>2. ASSUME NEW highs \in SUBSET Ends, highs # {}
      PROVE  (CHOOSE h \in highs : \A m \in highs : h >= m) \in Ends
  <2> DEFINE last == LastOffset + 1
             T == {last - h : h \in highs}
  <2>0. last \in Nat /\ highs \subseteq 0 .. last
    BY LastOffsetIsLast DEF Ends
  <2>1. T \subseteq Nat /\ T # {}
    <3> HIDE DEF last
    <3>1. \A h \in highs : last - h \in Nat
      BY <2>0
    <3> QED
      BY <1>2, <3>1
  <2>2. PICK x \in T : \A y \in T : x <= y
    <3> HIDE DEF T
    <3> QED
      BY <2>1, LeastNumber, Zenon
  <2>3. PICK h \in highs : x = last - h
    BY <2>2
  <2>4. \A m \in highs : h >= m
    <3> TAKE m \in highs
    <3>1. last - h <= last - m
      BY <2>2, <2>3
    <3> HIDE DEF last
    <3> QED
      BY <2>0, <3>1
  <2>5. (CHOOSE g \in highs : \A m \in highs : g >= m) \in highs
    BY <2>4, Zenon
  <2> QED
    BY <2>5
<1> QED
  BY <1>1, <1>2

-----------------------------------------------------------------------------
(* Nodes and spans. *)

LEMMA NodeGrows ==
  ASSUME NEW A, NEW B, A \subseteq B
  PROVE  Node(A) \subseteq Node(B)
<1> SUFFICES ASSUME NEW node \in Node(A)
             PROVE  node \in Node(B)
  OBVIOUS
<1>1. node.children \in Seq(B)
  <2>1. node.children \in Seq(A)
    BY DEF Node
  <2> QED
    BY <2>1, SeqMonotonic
<1>2. node.slots \in [Slots -> B \cup {Nil}] /\ node.parent \in B \cup {Nil}
  BY DEF Node
<1> QED
  BY <1>1, <1>2 DEF Node

LEMMA ZeroIsNode ==
  ASSUME NEW A
  PROVE  ZeroNode \in Node(A)
<1>1. 0 \in Ends
  BY LastOffsetIsLast DEF Ends
<1>2. <<>> \in Seq(A)
  OBVIOUS
<1> QED
  BY <1>1, <1>2 DEF ZeroNode, Node

(* The links of a node lead into the heap. *)
LEMMA BelowInside ==
  ASSUME NEW A, NEW node \in Node(A)
  PROVE  /\ Below(node) \subseteq A
         /\ Range(node.children) = {node.children[i] : i \in 1 .. Len(node.children)}
         /\ DOMAIN node.children = 1 .. Len(node.children) /\ Len(node.children) \in Nat
<1>1. node.children \in Seq(A) /\ node.slots \in [Slots -> A \cup {Nil}]
  BY DEF Node
<1>2. DOMAIN node.children = 1 .. Len(node.children) /\ Len(node.children) \in Nat
  BY <1>1
<1>3. Range(node.children) \subseteq A
  BY <1>1, <1>2 DEF Range
<1>4. Range(node.slots) \subseteq A \cup {Nil}
  BY <1>1 DEF Range
<1>5. Below(node) \subseteq A
  BY <1>3, <1>4 DEF Below
<1> QED
  BY <1>2, <1>5 DEF Range

(* Reconciling one node leaves a node with the same links. *)
LEMMA MergedIsNode ==
  ASSUME NEW A, NEW node \in Node(A), NEW below \in [A -> Node(A)], NEW force
  PROVE  Merged(node, below, force) \in Node(A) /\ SameLinks(Merged(node, below, force), node)
<1> DEFINE kids == {k \in Below(node) : below[k].spanValid}
           lows == node.tokens \cup {below[k].start : k \in kids}
           highs == {t + 1 : t \in node.tokens} \cup {below[k].end : k \in kids}
           low == CHOOSE l \in lows : \A m \in lows : l <= m
           high == CHOOSE h \in highs : \A m \in highs : h >= m
<1>1. kids \subseteq A /\ node.tokens \subseteq Offsets
  BY BelowInside DEF Node
<1>2. \A k \in A : below[k].start \in Nat /\ below[k].end \in Ends
  BY DEF Node
<1>3. \A t \in node.tokens : t \in Nat /\ t + 1 \in Ends
  <2> HIDE DEF lows, highs, kids
  <2> TAKE t \in node.tokens
  <2>1. t \in Nat /\ t <= LastOffset /\ LastOffset \in Nat
    BY <1>1, LastOffsetIsLast
  <2> QED
    BY <2>1 DEF Ends
<1>4. lows \in SUBSET Nat /\ highs \in SUBSET Ends
  <2> HIDE DEF kids
  <2> QED
    BY <1>1, <1>2, <1>3
<1>5. lows # {} => highs # {}
  <2> HIDE DEF kids
  <2> QED
    BY ZenonT(60)
<1>6. lows # {} => low \in Nat /\ high \in Ends
  <2> HIDE DEF lows, highs
  <2> QED
    BY <1>4, <1>5, SpanOf
<1>7. Merged(node, below, force) =
        IF node.spanValid /\ ~force THEN node
        ELSE IF lows = {} THEN [node EXCEPT !.spanValid = FALSE]
        ELSE [node EXCEPT !.spanValid = TRUE, !.start = low, !.end = high]
  BY Zenon DEF Merged
<1> HIDE DEF lows, low, high
<1>8. node \in Node(A) /\ SameLinks(node, node)
  BY DEF SameLinks
<1>9. /\ [node EXCEPT !.spanValid = FALSE] \in Node(A)
      /\ SameLinks([node EXCEPT !.spanValid = FALSE], node)
  BY DEF SameLinks, Node
<1>10. lows # {} =>
         /\ [node EXCEPT !.spanValid = TRUE, !.start = low, !.end = high] \in Node(A)
         /\ SameLinks([node EXCEPT !.spanValid = TRUE, !.start = low, !.end = high], node)
  BY <1>6 DEF SameLinks, Node
<1> QED
  BY <1>7, <1>8, <1>9, <1>10

LEMMA HeapOf ==
  ASSUME NEW e, IsEditor(e)
  PROVE  /\ e.heap \in Seq(Node(DOMAIN e.heap)) /\ Len(e.heap) \in Nat
         /\ DOMAIN e.heap = 1 .. Len(e.heap)
         /\ e.heap \in [DOMAIN e.heap -> Node(DOMAIN e.heap)]
         /\ Nil \notin DOMAIN e.heap
<1>1. e.heap \in Seq(Node(DOMAIN e.heap))
  BY DEF IsEditor, Editor
<1>2. DOMAIN e.heap = 1 .. Len(e.heap) /\ Len(e.heap) \in Nat
  BY <1>1
<1> QED
  BY <1>1, <1>2 DEF Nil

(* The values of the recursion of ensureSpanValid are heaps of nodes. *)
SpannedAt(e, force) ==
  CHOOSE at : at = [d \in 0 .. Len(e.heap) |->
                      MergedAll(e, IF d = 0 THEN [n \in DOMAIN e.heap |-> ZeroNode] ELSE at[d - 1],
                                force)]

LEMMA SpannedSteps ==
  ASSUME NEW e, IsEditor(e), NEW force
  PROVE  LET at == SpannedAt(e, force)
         IN  /\ Spanned(e, force) = at[Len(e.heap)]
             /\ at[0] = MergedAll(e, [n \in DOMAIN e.heap |-> ZeroNode], force)
             /\ \A d \in 1 .. Len(e.heap) : at[d] = MergedAll(e, at[d - 1], force)
             /\ \A d \in 0 .. Len(e.heap) :
                   /\ at[d] \in [DOMAIN e.heap -> Node(DOMAIN e.heap)]
                   /\ \A n \in DOMAIN e.heap : SameLinks(at[d][n], e.heap[n])
<1> DEFINE A == DOMAIN e.heap
           S == {below \in [A -> Node(A)] : \A n \in A : SameLinks(below[n], e.heap[n])}
           L == Len(e.heap)
           zero == [n \in A |-> ZeroNode]
           base == MergedAll(e, zero, force)
           step == [below \in S |-> MergedAll(e, below, force)]
           Values(f) == f = [d \in 0 .. L |-> MergedAll(e, IF d = 0 THEN zero ELSE f[d - 1], force)]
<1>1. L \in Nat /\ e.heap \in [A -> Node(A)]
  BY HeapOf
<1>2. ASSUME NEW below \in [A -> Node(A)]
      PROVE  MergedAll(e, below, force) \in S
  <2>1. \A n \in A : /\ Merged(e.heap[n], below, force) \in Node(A)
                     /\ SameLinks(Merged(e.heap[n], below, force), e.heap[n])
    BY <1>1, MergedIsNode
  <2> QED
    BY <2>1 DEF MergedAll
<1>3. zero \in [A -> Node(A)]
  BY ZeroIsNode
<1>4. base \in S /\ step \in [S -> S]
  <2>1. base \in S
    BY <1>2, <1>3
  <2>2. \A below \in S : MergedAll(e, below, force) \in S
    BY <1>2
  <2> HIDE DEF S, base
  <2> QED
    BY <2>1, <2>2
<1>5. PICK f \in [0 .. L -> S] : Recurses(f, L, base, step)
  <2> HIDE DEF S, base, step, L
  <2> QED
    BY <1>1, <1>4, RecursionExists
<1>6. Values(f)
  <2>1. ASSUME NEW d \in 0 .. L
        PROVE  (IF d = 0 THEN base ELSE step[f[d - 1]])
                 = MergedAll(e, IF d = 0 THEN zero ELSE f[d - 1], force)
    <3>1. CASE d = 0
      BY <3>1
    <3>2. CASE d # 0
      <4>1. d - 1 \in 0 .. L
        BY <1>1, <3>2
      <4>2. f[d - 1] \in S
        BY <4>1
      <4>3. step[f[d - 1]] = MergedAll(e, f[d - 1], force)
        <5> HIDE DEF S
        <5> QED
          BY <4>2
      <4> QED
        BY <3>2, <4>3
    <3> QED
      BY <3>1, <3>2
  <2>2. f = [d \in 0 .. L |-> MergedAll(e, IF d = 0 THEN zero ELSE f[d - 1], force)]
    <3> HIDE DEF base, step, S, L, zero
    <3> QED
      BY <1>5, <2>1 DEF Recurses
  <2> QED
    BY <2>2
<1> DEFINE at == SpannedAt(e, force)
<1>7. Values(at)
  <2>1. at = CHOOSE g : Values(g)
    BY DEF SpannedAt
  <2> HIDE DEF Values, at
  <2> QED
    BY <1>6, <2>1
<1>8. Spanned(e, force) = at[L]
  BY DEF Spanned, SpannedAt
<1> HIDE DEF at
<1>9. at[0] = base
  <2>1. 0 \in 0 .. L
    BY <1>1
  <2> HIDE DEF L
  <2> QED
    BY <1>7, <2>1
<1>10. \A d \in 1 .. L : at[d] = MergedAll(e, at[d - 1], force)
  <2> TAKE d \in 1 .. L
  <2>1. d \in 0 .. L /\ d # 0
    BY <1>1
  <2> HIDE DEF L, zero
  <2> QED
    BY <1>7, <2>1
<1>11. \A d \in 0 .. L : at[d] \in S
  <2>1. \A d \in 1 .. L : at[d - 1] \in S => at[d] \in S
    BY <1>2, <1>10
  <2> HIDE DEF S, Values, L, base
  <2> QED
    BY <1>1, <1>4, <1>9, <2>1, StepByStep
<1> QED
  BY <1>8, <1>9, <1>10, <1>11 DEF at

LEMMA SpannedIsHeap ==
  ASSUME NEW e, IsEditor(e), NEW force
  PROVE  /\ Spanned(e, force) \in [DOMAIN e.heap -> Node(DOMAIN e.heap)]
         /\ \A n \in DOMAIN e.heap : SameLinks(Spanned(e, force)[n], e.heap[n])
<1>1. Len(e.heap) \in 0 .. Len(e.heap)
  BY HeapOf
<1>2. /\ Spanned(e, force) = SpannedAt(e, force)[Len(e.heap)]
      /\ \A d \in 0 .. Len(e.heap) :
            /\ SpannedAt(e, force)[d] \in [DOMAIN e.heap -> Node(DOMAIN e.heap)]
            /\ \A n \in DOMAIN e.heap : SameLinks(SpannedAt(e, force)[d][n], e.heap[n])
  BY SpannedSteps, Zenon
<1> QED
  BY <1>1, <1>2, Zenon

(* The walk from a node of a closed set stays in it. *)
Reach(e, n, force) ==
  CHOOSE f : f = [d \in 0 .. Len(e.heap) |-> IF d = 0 THEN {n} ELSE Entered(e, f[d - 1], force)]

LEMMA VisitedSteps ==
  ASSUME NEW e, IsEditor(e), NEW X, NEW n \in X, NEW force,
         \A m \in X : Below(e.heap[m]) \subseteq X
  PROVE  LET reach == Reach(e, n, force)
         IN  /\ Visited(e, n, force) = reach[Len(e.heap)]
             /\ reach[0] = {n}
             /\ \A d \in 1 .. Len(e.heap) : reach[d] = Entered(e, reach[d - 1], force)
             /\ \A d \in 0 .. Len(e.heap) : reach[d] \subseteq X
<1> DEFINE S == SUBSET X
           L == Len(e.heap)
           base == {n}
           step == [T \in S |-> Entered(e, T, force)]
           Values(f) == f = [d \in 0 .. L |-> IF d = 0 THEN {n} ELSE Entered(e, f[d - 1], force)]
<1>1. L \in Nat
  BY HeapOf
<1>2. \A T \in S : Entered(e, T, force) \in S
  BY DEF Entered
<1>3. base \in S /\ step \in [S -> S]
  BY <1>2
<1>4. PICK f \in [0 .. L -> S] : Recurses(f, L, base, step)
  <2> HIDE DEF S, base, step, L
  <2> QED
    BY <1>1, <1>3, RecursionExists
<1>5. Values(f)
  <2>1. ASSUME NEW d \in 0 .. L, d # 0
        PROVE  step[f[d - 1]] = Entered(e, f[d - 1], force)
    <3>1. f[d - 1] \in S
      <4>1. d - 1 \in 0 .. L
        BY <1>1, <2>1
      <4> QED
        BY <4>1
    <3> HIDE DEF S
    <3> QED
      BY <3>1
  <2> HIDE DEF step, S, L
  <2> QED
    BY <1>4, <2>1 DEF Recurses
<1> DEFINE reach == Reach(e, n, force)
<1>6. Values(reach)
  <2>1. reach = CHOOSE g : Values(g)
    BY DEF Reach
  <2> HIDE DEF Values, reach
  <2> QED
    BY <1>5, <2>1
<1>7. Visited(e, n, force) = reach[L]
  BY DEF Visited, Reach
<1> HIDE DEF reach
<1>8. reach[0] = {n}
  <2>1. 0 \in 0 .. L
    BY <1>1
  <2> HIDE DEF L
  <2> QED
    BY <1>6, <2>1
<1>9. \A d \in 1 .. L : reach[d] = Entered(e, reach[d - 1], force)
  <2> TAKE d \in 1 .. L
  <2>1. d \in 0 .. L /\ d # 0
    BY <1>1
  <2> HIDE DEF L
  <2> QED
    BY <1>6, <2>1
<1>10. \A d \in 0 .. L : reach[d] \in S
  <2>1. reach[0] \in S
    BY <1>3, <1>8
  <2> HIDE DEF S, Values, L
  <2>2. \A d \in 1 .. L : reach[d - 1] \in S => reach[d] \in S
    BY <1>2, <1>9
  <2> QED
    BY <1>1, <2>1, <2>2, StepByStep
<1> QED
  BY <1>7, <1>8, <1>9, <1>10 DEF reach

LEMMA VisitedInside ==
  ASSUME NEW e, IsEditor(e), NEW X, NEW n \in X, NEW force,
         \A m \in X : Below(e.heap[m]) \subseteq X
  PROVE  Visited(e, n, force) \subseteq X
<1>1. Len(e.heap) \in 0 .. Len(e.heap)
  BY HeapOf
<1> QED
  BY <1>1, VisitedSteps

-----------------------------------------------------------------------------
(* Links of one node. *)

(* No node is linked twice from the same node. *)
Distinct(node) ==
  /\ \A i, j \in 1 .. Len(node.children) : node.children[i] = node.children[j] => i = j
  /\ \A r, s \in Slots : node.slots[r] = node.slots[s] /\ node.slots[r] # Nil => r = s
  /\ \A i \in 1 .. Len(node.children), s \in Slots : node.children[i] # node.slots[s]

WithChildren(node, kids) == [node EXCEPT !.children = kids]

WithSlots(node, slots) == [node EXCEPT !.slots = slots]

(* What is below a node, link by link. *)
LEMMA BelowOf ==
  ASSUME NEW A, NEW node \in Node(A), NEW c
  PROVE  c \in Below(node) <=>
            /\ c # Nil
            /\ \/ \E i \in 1 .. Len(node.children) : node.children[i] = c
               \/ \E s \in Slots : node.slots[s] = c
<1>1. Range(node.children) = {node.children[i] : i \in 1 .. Len(node.children)}
  <2>1. DOMAIN node.children = 1 .. Len(node.children)
    BY BelowInside
  <2> QED
    BY <2>1 DEF Range
<1>2. Range(node.slots) = {node.slots[s] : s \in Slots}
  BY DEF Range, Node
<1> QED
  BY <1>1, <1>2 DEF Below

(* Nodes that are not yet linked become the last children. *)
LEMMA LinkChildren ==
  ASSUME NEW A, Nil \notin A, NEW node \in Node(A), Distinct(node), NEW moved \in Seq(A),
         \A i, j \in 1 .. Len(moved) : moved[i] = moved[j] => i = j,
         Range(moved) \cap Below(node) = {}
  PROVE  LET new == WithChildren(node, node.children \o moved)
         IN  /\ new \in Node(A) /\ Distinct(new)
             /\ Below(new) = Below(node) \cup Range(moved)
<1> DEFINE kids == node.children
           all == kids \o moved
           new == WithChildren(node, all)
<1>1. kids \in Seq(A) /\ Len(kids) \in Nat /\ Len(moved) \in Nat
  BY DEF Node
<1>2. /\ all \in Seq(A) /\ Len(all) = Len(kids) + Len(moved)
      /\ \A i \in 1 .. Len(kids) + Len(moved) :
            all[i] = IF i <= Len(kids) THEN kids[i] ELSE moved[i - Len(kids)]
  BY <1>1, ConcatProperties
<1>3. new.children = all /\ new.slots = node.slots /\ new \in Node(A)
  <2> HIDE DEF all
  <2> QED
    BY <1>2 DEF Node, WithChildren
<1> HIDE DEF all
<1>4. /\ \A i \in 1 .. Len(moved) : moved[i] \in A /\ moved[i] # Nil /\ moved[i] \notin Below(node)
      /\ Range(moved) = {moved[i] : i \in 1 .. Len(moved)}
  <2>1. DOMAIN moved = 1 .. Len(moved)
    BY LenProperties
  <2>2. Range(moved) = {moved[i] : i \in 1 .. Len(moved)}
    BY <2>1 DEF Range
  <2>3. \A i \in 1 .. Len(moved) : moved[i] \in A /\ moved[i] # Nil
    BY <1>1
  <2> QED
    BY <2>2, <2>3
<1>5. \A i \in 1 .. Len(moved) :
         /\ \A j \in 1 .. Len(kids) : moved[i] # kids[j]
         /\ \A s \in Slots : moved[i] # node.slots[s]
  BY <1>4, BelowOf
<1>6. \A i \in 1 .. Len(all) :
         \/ i \in 1 .. Len(kids) /\ all[i] = kids[i]
         \/ \E k \in 1 .. Len(moved) : i = k + Len(kids) /\ all[i] = moved[k]
  <2> TAKE i \in 1 .. Len(all)
  <2> DEFINE k == i - Len(kids)
  <2>1. \/ i \in 1 .. Len(kids)
        \/ k \in 1 .. Len(moved) /\ ~(i <= Len(kids)) /\ i = k + Len(kids)
    BY <1>1, <1>2
  <2>2. i \in 1 .. Len(kids) => i <= Len(kids)
    BY <1>1
  <2> QED
    BY <1>2, <2>1, <2>2
<1>7. /\ \A i \in 1 .. Len(kids) : i \in 1 .. Len(all) /\ all[i] = kids[i]
      /\ \A i \in 1 .. Len(moved) : \E j \in 1 .. Len(all) : all[j] = moved[i]
  <2> HIDE DEF kids
  <2>1. ASSUME NEW i \in 1 .. Len(moved)
        PROVE  \E j \in 1 .. Len(all) : all[j] = moved[i]
    <3> DEFINE j == i + Len(kids)
    <3>1. j \in 1 .. Len(kids) + Len(moved) /\ ~(j <= Len(kids)) /\ j - Len(kids) = i
      BY <1>1
    <3> HIDE DEF j
    <3>2. all[j] = moved[i] /\ j \in 1 .. Len(all)
      BY <1>2, <3>1
    <3> QED
      BY <3>2
  <2> QED
    BY <1>1, <1>2, <2>1
<1>8. Distinct(new)
  <2>1. ASSUME NEW i \in 1 .. Len(all), NEW j \in 1 .. Len(all), all[i] = all[j]
        PROVE  i = j
    <3>1. CASE i \in 1 .. Len(kids) /\ all[i] = kids[i]
      <4>1. j \in 1 .. Len(kids) /\ all[j] = kids[j]
        <5>1. ASSUME NEW m \in 1 .. Len(moved), all[j] = moved[m]
              PROVE  FALSE
          <6>1. moved[m] # kids[i]
            BY <1>5, <3>1
          <6> QED
            BY <2>1, <3>1, <5>1, <6>1
        <5> QED
          BY <1>6, <5>1
      <4> QED
        BY <2>1, <3>1, <4>1 DEF Distinct
    <3>2. ASSUME NEW k \in 1 .. Len(moved), i = k + Len(kids), all[i] = moved[k]
          PROVE  i = j
      <4>1. PICK m \in 1 .. Len(moved) : j = m + Len(kids) /\ all[j] = moved[m]
        BY <1>5, <1>6, <2>1, <3>2
      <4>2. k = m
        BY <2>1, <3>2, <4>1
      <4> QED
        BY <3>2, <4>1, <4>2
    <3> QED
      BY <1>6, <3>1, <3>2
  <2>2. \A i \in 1 .. Len(all), s \in Slots : all[i] # node.slots[s]
    BY <1>5, <1>6, SMTT(60) DEF Distinct
  <2>3. \A r, s \in Slots : node.slots[r] = node.slots[s] /\ node.slots[r] # Nil => r = s
    BY DEF Distinct
  <2> HIDE DEF new
  <2> QED
    BY <1>3, <2>1, <2>2, <2>3 DEF Distinct
<1>9. ASSUME NEW c
      PROVE  c \in Below(new) <=> c \in Below(node) \cup {moved[i] : i \in 1 .. Len(moved)}
  <2>1. c \in Below(new) <=>
            /\ c # Nil
            /\ \/ \E i \in 1 .. Len(all) : all[i] = c
               \/ \E s \in Slots : node.slots[s] = c
    <3> HIDE DEF new
    <3> QED
      BY <1>3, BelowOf
  <2>2. c \in Below(node) <=>
            /\ c # Nil
            /\ \/ \E i \in 1 .. Len(kids) : kids[i] = c
               \/ \E s \in Slots : node.slots[s] = c
    BY BelowOf
  <2>3. (\E i \in 1 .. Len(all) : all[i] = c) <=>
           \/ \E i \in 1 .. Len(kids) : kids[i] = c
           \/ \E i \in 1 .. Len(moved) : moved[i] = c
    BY <1>6, <1>7, ZenonT(60)
  <2> QED
    BY <1>4, <2>1, <2>2, <2>3
<1>10. Below(new) = Below(node) \cup Range(moved)
  <2> HIDE DEF new
  <2> QED
    BY <1>4, <1>9
<1> QED
  BY <1>3, <1>8, <1>10 DEF all

(* The only place of a child. *)
LEMMA OnlyPlace ==
  ASSUME NEW A, NEW kids \in Seq(A), NEW i \in 1 .. Len(kids),
         \A j, k \in 1 .. Len(kids) : kids[j] = kids[k] => j = k
  PROVE  LET I == {j \in 1 .. Len(kids) : kids[j] = kids[i]}
         IN  I # {} /\ Min(I) = i
<1> DEFINE I == {j \in 1 .. Len(kids) : kids[j] = kids[i]}
<1>1. I = {i} /\ i \in Nat
  BY LenProperties
<1>2. (CHOOSE x \in I : \A y \in I : x =< y) = i
  BY <1>1
<1> QED
  BY <1>1, <1>2 DEF Min

(* A child is removed. *)
LEMMA UnlinkChild ==
  ASSUME NEW A, Nil \notin A, NEW node \in Node(A), Distinct(node),
         NEW at \in 1 .. Len(node.children)
  PROVE  LET new == WithChildren(node, RemoveFirst(node.children, node.children[at]))
         IN  /\ new \in Node(A) /\ Distinct(new)
             /\ Below(new) = Below(node) \ {node.children[at]}
<1> DEFINE kids == node.children
           L == Len(kids)
           fst == SubSeq(kids, 1, at - 1)
           snd == SubSeq(kids, at + 1, L)
           rest == RemoveFirst(kids, kids[at])
           new == WithChildren(node, rest)
<1>1. kids \in Seq(A) /\ L \in Nat /\ at \in Nat /\ at >= 1 /\ at <= L
  BY DEF Node
<1>2. \A i, j \in 1 .. L : kids[i] = kids[j] => i = j
  BY DEF Distinct
<1>3. rest = fst \o snd
  <2>1. SelectInSeq(kids, LAMBDA n : n = kids[at]) = at
    <3> HIDE DEF kids, L
    <3>1. LET I == {j \in 1 .. L : kids[j] = kids[at]}
          IN  I # {} /\ Min(I) = at
      BY <1>1, <1>2, OnlyPlace DEF L
    <3> QED
      BY <3>1 DEF SelectInSeq, L
  <2>2. \E i \in 1 .. Len(kids) : kids[i] = kids[at]
    OBVIOUS
  <2> QED
    BY <2>1, <2>2 DEF RemoveFirst, RemoveAt
<1>4. /\ fst \in Seq(A) /\ Len(fst) = at - 1
      /\ \A i \in 1 .. at - 1 : fst[i] = kids[i]
  <2>1. \A i \in 1 .. at - 1 : kids[i] \in A
    BY <1>1
  <2>2. 1 \in Int /\ at - 1 \in Int
    BY <1>1
  <2> HIDE DEF kids, L
  <2>3. /\ SubSeq(kids, 1, at - 1) \in Seq(A)
        /\ Len(SubSeq(kids, 1, at - 1)) = IF 1 <= at - 1 THEN at - 1 - 1 + 1 ELSE 0
        /\ \A i \in 1 .. at - 1 - 1 + 1 : SubSeq(kids, 1, at - 1)[i] = kids[1 + i - 1]
    BY <2>1, <2>2, SubSeqProperties
  <2> QED
    BY <1>1, <2>3
<1>5. /\ snd \in Seq(A) /\ Len(snd) = L - at
      /\ \A i \in 1 .. L - at : snd[i] = kids[at + i]
  <2>1. \A i \in at + 1 .. L : kids[i] \in A
    BY <1>1
  <2>2. at + 1 \in Int /\ L \in Int
    BY <1>1
  <2> HIDE DEF kids, L
  <2>3. /\ SubSeq(kids, at + 1, L) \in Seq(A)
        /\ Len(SubSeq(kids, at + 1, L)) = IF at + 1 <= L THEN L - (at + 1) + 1 ELSE 0
        /\ \A i \in 1 .. L - (at + 1) + 1 : SubSeq(kids, at + 1, L)[i] = kids[at + 1 + i - 1]
    BY <2>1, <2>2, SubSeqProperties
  <2> QED
    BY <1>1, <2>3
<1> HIDE DEF fst, snd, rest
<1>6. /\ rest \in Seq(A) /\ Len(rest) = L - 1
      /\ \A i \in 1 .. L - 1 : rest[i] = IF i < at THEN kids[i] ELSE kids[i + 1]
  <2>1. /\ rest \in Seq(A) /\ Len(rest) = Len(fst) + Len(snd)
        /\ \A i \in 1 .. Len(fst) + Len(snd) :
              rest[i] = IF i <= Len(fst) THEN fst[i] ELSE snd[i - Len(fst)]
    BY <1>3, <1>4, <1>5, ConcatProperties, ZenonT(60)
  <2>2. Len(fst) + Len(snd) = L - 1
    BY <1>1, <1>4, <1>5
  <2>3. ASSUME NEW i \in 1 .. L - 1
        PROVE  rest[i] = IF i < at THEN kids[i] ELSE kids[i + 1]
    <3>1. rest[i] = IF i <= Len(fst) THEN fst[i] ELSE snd[i - Len(fst)]
      BY <2>1, <2>2
    <3>2. CASE i < at
      BY <1>1, <1>4, <3>1, <3>2
    <3>3. CASE ~(i < at)
      <4> DEFINE k == i - Len(fst)
      <4>1. k \in 1 .. L - at /\ ~(i <= Len(fst)) /\ at + k = i + 1
        BY <1>1, <1>4, <3>3
      <4>2. rest[i] = snd[k]
        BY <3>1, <4>1
      <4> HIDE DEF k, L, kids
      <4> QED
        BY <1>5, <3>3, <4>1, <4>2
    <3> QED
      BY <3>2, <3>3
  <2> QED
    BY <2>1, <2>2, <2>3
<1>7. new.children = rest /\ new.slots = node.slots /\ new \in Node(A)
  BY <1>6 DEF Node, WithChildren
<1>8. \A i \in 1 .. Len(rest) : \E j \in 1 .. L : /\ j # at /\ rest[i] = kids[j]
                                                  /\ j = IF i < at THEN i ELSE i + 1
  BY <1>1, <1>6
<1>9. \A j \in 1 .. L : j # at => \E i \in 1 .. Len(rest) : rest[i] = kids[j]
  <2> TAKE j \in 1 .. L
  <2> HAVE j # at
  <2>1. CASE j < at
    <3>1. j \in 1 .. L - 1 /\ rest[j] = kids[j]
      BY <1>1, <1>6, <2>1
    <3> QED
      BY <1>6, <3>1
  <2>2. CASE j > at
    <3> DEFINE i == j - 1
    <3>1. i \in 1 .. L - 1 /\ ~(i < at) /\ i + 1 = j
      BY <1>1, <2>2
    <3> HIDE DEF i, kids
    <3>2. rest[i] = kids[j]
      BY <1>6, <3>1
    <3> QED
      BY <1>6, <3>1, <3>2
  <2> QED
    BY <1>1, <2>1, <2>2
<1> HIDE DEF kids, L
<1>10. Distinct(new)
  <2>1. ASSUME NEW i \in 1 .. Len(rest), NEW j \in 1 .. Len(rest), rest[i] = rest[j]
        PROVE  i = j
    <3>1. PICK k \in 1 .. L : rest[i] = kids[k] /\ k = IF i < at THEN i ELSE i + 1
      BY <1>8
    <3>2. PICK m \in 1 .. L : rest[j] = kids[m] /\ m = IF j < at THEN j ELSE j + 1
      BY <1>8
    <3>3. k = m
      BY <1>2, <2>1, <3>1, <3>2
    <3> QED
      BY <1>1, <1>6, <3>1, <3>2, <3>3
  <2>2. \A i \in 1 .. Len(rest), s \in Slots : rest[i] # node.slots[s]
    BY <1>8 DEF Distinct, kids, L
  <2>3. \A r, s \in Slots : node.slots[r] = node.slots[s] /\ node.slots[r] # Nil => r = s
    BY DEF Distinct
  <2> HIDE DEF new
  <2> QED
    BY <1>7, <2>1, <2>2, <2>3 DEF Distinct
<1>11. ASSUME NEW c
       PROVE  c \in Below(new) <=> c \in Below(node) \ {kids[at]}
  <2>1. c \in Below(new) <=>
            /\ c # Nil
            /\ \/ \E i \in 1 .. Len(rest) : rest[i] = c
               \/ \E s \in Slots : node.slots[s] = c
    <3> HIDE DEF new
    <3> QED
      BY <1>7, BelowOf
  <2>2. c \in Below(node) <=>
            /\ c # Nil
            /\ \/ \E i \in 1 .. L : kids[i] = c
               \/ \E s \in Slots : node.slots[s] = c
    BY BelowOf DEF kids, L
  <2>3. (\E i \in 1 .. Len(rest) : rest[i] = c) <=>
           c # kids[at] /\ \E i \in 1 .. L : kids[i] = c
    BY <1>1, <1>2, <1>8, <1>9, SMTT(60)
  <2>4. \A s \in Slots : node.slots[s] # kids[at]
    BY DEF Distinct, kids
  <2> HIDE DEF new
  <2> QED
    BY <2>1, <2>2, <2>3, <2>4
<1>12. Below(new) = Below(node) \ {kids[at]}
  <2> HIDE DEF new
  <2> QED
    BY <1>11
<1> QED
  BY <1>7, <1>10, <1>12 DEF kids, rest

(* A child is replaced in its place. *)
LEMMA RelinkChild ==
  ASSUME NEW A, Nil \notin A, NEW node \in Node(A), Distinct(node),
         NEW at \in 1 .. Len(node.children), NEW c \in A, c \notin Below(node)
  PROVE  LET new == WithChildren(node, [node.children EXCEPT ![at] = c])
         IN  /\ new \in Node(A) /\ Distinct(new)
             /\ Below(new) = (Below(node) \ {node.children[at]}) \cup {c}
<1> DEFINE kids == node.children
           all == [kids EXCEPT ![at] = c]
           new == WithChildren(node, all)
<1>1. kids \in Seq(A)
  BY DEF Node
<1>2. /\ all \in Seq(A) /\ Len(all) = Len(kids)
      /\ \A i \in 1 .. Len(kids) : all[i] = IF i = at THEN c ELSE kids[i]
  BY <1>1, ExceptSeq
<1>3. new.children = all /\ new.slots = node.slots /\ new \in Node(A)
  <2> HIDE DEF all
  <2> QED
    BY <1>2 DEF Node, WithChildren
<1> HIDE DEF all
<1>5. /\ \A i \in 1 .. Len(kids) : kids[i] # c
      /\ \A s \in Slots : node.slots[s] # c
      /\ c # Nil
  BY BelowOf
<1>6. Distinct(new)
  <2> HIDE DEF new
  <2> QED
    BY <1>2, <1>3, <1>5 DEF Distinct
<1>7. ASSUME NEW x
      PROVE  x \in Below(new) <=> x \in (Below(node) \ {kids[at]}) \cup {c}
  <2>1. x \in Below(new) <=>
            /\ x # Nil
            /\ \/ \E i \in 1 .. Len(all) : all[i] = x
               \/ \E s \in Slots : node.slots[s] = x
    <3> HIDE DEF new
    <3> QED
      BY <1>3, BelowOf
  <2>2. x \in Below(node) <=>
            /\ x # Nil
            /\ \/ \E i \in 1 .. Len(kids) : kids[i] = x
               \/ \E s \in Slots : node.slots[s] = x
    BY BelowOf
  <2>3. (\E i \in 1 .. Len(all) : all[i] = x) <=>
           x = c \/ (x # kids[at] /\ \E i \in 1 .. Len(kids) : kids[i] = x)
    BY <1>2 DEF Distinct
  <2>4. \A s \in Slots : node.slots[s] # kids[at]
    BY DEF Distinct
  <2> HIDE DEF new, kids
  <2> QED
    BY <1>5, <2>1, <2>2, <2>3, <2>4
<1>8. Below(new) = (Below(node) \ {kids[at]}) \cup {c}
  <2> HIDE DEF new
  <2> QED
    BY <1>7
<1> QED
  BY <1>3, <1>6, <1>8 DEF all

(* A slot is filled, or cleared. *)
LEMMA RelinkSlot ==
  ASSUME NEW A, Nil \notin A, NEW node \in Node(A), Distinct(node),
         NEW at \in Slots, NEW c \in A \cup {Nil}, c \notin Below(node)
  PROVE  LET new == WithSlots(node, [node.slots EXCEPT ![at] = c])
         IN  /\ new \in Node(A) /\ Distinct(new)
             /\ Below(new) = (Below(node) \ {node.slots[at]}) \cup ({c} \ {Nil})
<1> DEFINE all == [node.slots EXCEPT ![at] = c]
           new == WithSlots(node, all)
<1>1. /\ all \in [Slots -> A \cup {Nil}]
      /\ \A s \in Slots : all[s] = IF s = at THEN c ELSE node.slots[s]
  BY DEF Node
<1>2. new.children = node.children /\ new.slots = all /\ new \in Node(A)
  <2> HIDE DEF all
  <2> QED
    BY <1>1 DEF Node, WithSlots
<1> HIDE DEF all
<1>4. c # Nil => /\ \A i \in 1 .. Len(node.children) : node.children[i] # c
                 /\ \A s \in Slots : node.slots[s] # c
  BY BelowOf
<1>5. \A i \in 1 .. Len(node.children) : node.children[i] # Nil
  BY DEF Node
<1>6. Distinct(new)
  <2> HIDE DEF new
  <2> QED
    BY <1>1, <1>2, <1>4, <1>5 DEF Distinct
<1>7. ASSUME NEW x
      PROVE  x \in Below(new) <=> x \in (Below(node) \ {node.slots[at]}) \cup ({c} \ {Nil})
  <2>1. x \in Below(new) <=>
            /\ x # Nil
            /\ \/ \E i \in 1 .. Len(node.children) : node.children[i] = x
               \/ \E s \in Slots : all[s] = x
    <3> HIDE DEF new
    <3> QED
      BY <1>2, BelowOf
  <2>2. x \in Below(node) <=>
            /\ x # Nil
            /\ \/ \E i \in 1 .. Len(node.children) : node.children[i] = x
               \/ \E s \in Slots : node.slots[s] = x
    BY BelowOf
  <2>3. x # Nil => ((\E s \in Slots : all[s] = x) <=>
                      x = c \/ (x # node.slots[at] /\ \E s \in Slots : node.slots[s] = x))
    BY <1>1, <1>4 DEF Distinct
  <2>4. \A i \in 1 .. Len(node.children) : node.children[i] # node.slots[at]
    BY DEF Distinct
  <2> HIDE DEF new
  <2> QED
    BY <1>4, <2>1, <2>2, <2>3, <2>4
<1>8. Below(new) = (Below(node) \ {node.slots[at]}) \cup ({c} \ {Nil})
  <2> HIDE DEF new
  <2> QED
    BY <1>7
<1> QED
  BY <1>2, <1>6, <1>8 DEF all

-----------------------------------------------------------------------------
(* Heaps whose links agree. *)

(* X is closed under links, and a node of X is linked from its parent and  *)
(* from no other node of X, once.                                          *)
TreeIn(h, X) ==
  /\ X \subseteq DOMAIN h
  /\ \A n \in X : h[n].parent \in X \cup {Nil}
  /\ \A p \in X : Below(h[p]) \subseteq X /\ Distinct(h[p])
  /\ \A p, n \in X : n \in Below(h[p]) <=> h[n].parent = p

Slotless(node) == \A s \in Slots : node.slots[s] = Nil

LEMMA SameBelow ==
  ASSUME NEW m, NEW n, m.children = n.children, m.slots = n.slots
  PROVE  Below(m) = Below(n) /\ (Distinct(m) <=> Distinct(n)) /\ (Slotless(m) <=> Slotless(n))
BY DEF Below, Distinct, Slotless

(* Links do not depend on spans. *)
LEMMA TreeOfSameLinks ==
  ASSUME NEW g, NEW h, NEW X, TreeIn(h, X), DOMAIN g = DOMAIN h,
         \A n \in DOMAIN h : SameLinks(g[n], h[n])
  PROVE  TreeIn(g, X)
<1>1. \A n \in X : /\ g[n].parent = h[n].parent /\ Below(g[n]) = Below(h[n])
                   /\ Distinct(g[n]) <=> Distinct(h[n])
  BY SameBelow DEF SameLinks, TreeIn
<1> QED
  BY <1>1 DEF TreeIn

(* An editor may be given another heap. *)
WithHeap(e, dirty, g) == [e EXCEPT !.treeDirty = dirty, !.heap = g]

LEMMA WithHeapIsEditor ==
  ASSUME NEW e, IsEditor(e), NEW g \in [DOMAIN e.heap -> Node(DOMAIN e.heap)],
         NEW dirty \in BOOLEAN
  PROVE  LET d == WithHeap(e, dirty, g)
         IN  /\ IsEditor(d) /\ d.heap = g /\ DOMAIN d.heap = DOMAIN e.heap
             /\ d.created = e.created /\ d.nodeFree = e.nodeFree
             /\ d.nextID = e.nextID /\ d.inUse = e.inUse /\ d.root = e.root
             /\ d.frozen = e.frozen
<1> DEFINE d == WithHeap(e, dirty, g)
<1>1. e \in Editor(DOMAIN e.heap)
  BY DEF IsEditor
<1>2. DOMAIN g = DOMAIN e.heap
  OBVIOUS
<1>3. g \in Seq(Node(DOMAIN e.heap))
  BY HeapOf
<1>4. d \in Editor(DOMAIN e.heap) /\ d.heap = g
  BY <1>1, <1>3 DEF Editor, WithHeap
<1>5. /\ d.created = e.created /\ d.nodeFree = e.nodeFree
      /\ d.nextID = e.nextID /\ d.inUse = e.inUse /\ d.root = e.root
      /\ d.frozen = e.frozen
  BY <1>1 DEF Editor, WithHeap
<1> HIDE DEF d
<1>6. IsEditor(d) /\ DOMAIN d.heap = DOMAIN e.heap
  BY <1>2, <1>4 DEF IsEditor
<1> QED
  BY <1>4, <1>5, <1>6 DEF d

(* The editor d is e with other links: the links of X still agree, and     *)
(* new ones are between nodes of O.  Only nodes of S get a first slot.     *)
Edited(d, e, X, O, S) ==
  /\ IsEditor(d) /\ SameNodes(d, e) /\ d.nextID = e.nextID /\ d.inUse = e.inUse
  /\ TreeIn(d.heap, X)
  /\ \A n \in X : \/ d.heap[n].parent \in {Nil, e.heap[n].parent}
                  \/ n \in O /\ d.heap[n].parent \in O
  /\ \A n \in DOMAIN e.heap \ S : Slotless(e.heap[n]) => Slotless(d.heap[n])

LEMMA DirtyTopology ==
  ASSUME NEW e, IsEditor(e), NEW nodes
  PROVE  /\ IsEditor(markDirty(e, nodes)) /\ SameTopology(markDirty(e, nodes), e)
         /\ markDirty(e, nodes).nextID = e.nextID /\ markDirty(e, nodes).inUse = e.inUse
<1> DEFINE g == [n \in DOMAIN e.heap |-> IF n \in nodes THEN [e.heap[n] EXCEPT !.spanValid = FALSE]
                                         ELSE e.heap[n]]
           d == markDirty(e, nodes)
<1>1. \A n \in DOMAIN e.heap : e.heap[n] \in Node(DOMAIN e.heap)
  BY HeapOf
<1>2. \A n \in DOMAIN e.heap : g[n] \in Node(DOMAIN e.heap) /\ SameLinks(g[n], e.heap[n])
  BY <1>1 DEF Node, SameLinks
<1>3. g \in [DOMAIN e.heap -> Node(DOMAIN e.heap)]
  BY <1>2
<1>4. d = WithHeap(e, TRUE, g)
  BY DEF markDirty, WithHeap
<1> HIDE DEF g, d
<1>5. /\ IsEditor(d) /\ d.heap = g /\ DOMAIN d.heap = DOMAIN e.heap
      /\ d.created = e.created /\ d.nodeFree = e.nodeFree
      /\ d.nextID = e.nextID /\ d.inUse = e.inUse
  BY <1>3, <1>4, WithHeapIsEditor
<1>6. IsEditor(d) /\ SameTopology(d, e) /\ d.nextID = e.nextID /\ d.inUse = e.inUse
  BY <1>2, <1>5 DEF SameTopology, SameNodes, SameLinks
<1> QED
  BY <1>6 DEF d

(* What marks nodes dirty after an edit is still that edit. *)
LEMMA EditThenDirty ==
  ASSUME NEW b, NEW e, NEW X, NEW O, NEW S, NEW nodes, Edited(b, e, X, O, S)
  PROVE  Edited(markDirty(b, nodes), e, X, O, S)
<1> DEFINE d == markDirty(b, nodes)
<1>1. IsEditor(b) /\ SameNodes(b, e) /\ TreeIn(b.heap, X) /\ X \subseteq DOMAIN e.heap
  BY DEF Edited, SameNodes, TreeIn
<1>2. IsEditor(d) /\ SameTopology(d, b) /\ d.nextID = b.nextID /\ d.inUse = b.inUse
  BY <1>1, DirtyTopology
<1> HIDE DEF d
<1>3. TreeIn(d.heap, X)
  BY <1>1, <1>2, TreeOfSameLinks DEF SameTopology, SameNodes
<1>4. \A n \in DOMAIN e.heap : /\ d.heap[n].parent = b.heap[n].parent
                               /\ Slotless(d.heap[n]) <=> Slotless(b.heap[n])
  BY <1>1, <1>2, SameBelow DEF SameTopology, SameNodes, SameLinks
<1>5. SameNodes(d, e) /\ d.nextID = e.nextID /\ d.inUse = e.inUse
  BY <1>1, <1>2 DEF SameTopology, SameNodes, Edited
<1>6. Edited(d, e, X, O, S)
  BY <1>1, <1>2, <1>3, <1>4, <1>5 DEF Edited
<1> QED
  BY <1>6 DEF d

(* A node gets another parent pointer. *)
LEMMA Reparent ==
  ASSUME NEW A, NEW h \in [A -> Node(A)], NEW c \in A, NEW q \in A \cup {Nil}
  PROVE  LET g == [h EXCEPT ![c].parent = q]
         IN  /\ g \in [A -> Node(A)]
             /\ \A n \in A : /\ g[n].parent = IF n = c THEN q ELSE h[n].parent
                             /\ g[n].id = h[n].id /\ Below(g[n]) = Below(h[n])
                             /\ Distinct(g[n]) <=> Distinct(h[n])
                             /\ g[n].children = h[n].children /\ g[n].slots = h[n].slots
<1> DEFINE g == [h EXCEPT ![c].parent = q]
<1>1. [h[c] EXCEPT !.parent = q] \in Node(A)
  BY DEF Node
<1>2. g \in [A -> Node(A)]
  BY <1>1
<1>3. \A n \in A : /\ g[n].parent = IF n = c THEN q ELSE h[n].parent
                   /\ g[n].id = h[n].id
                   /\ g[n].children = h[n].children /\ g[n].slots = h[n].slots
  BY DEF Node
<1> HIDE DEF g
<1>4. \A n \in A : Below(g[n]) = Below(h[n]) /\ (Distinct(g[n]) <=> Distinct(h[n]))
  BY <1>3, SameBelow
<1> QED
  BY <1>2, <1>3, <1>4 DEF g

(* A node gets other links below it. *)
LEMMA Relink ==
  ASSUME NEW A, NEW h \in [A -> Node(A)], NEW p \in A, NEW new \in Node(A),
         new.parent = h[p].parent, new.id = h[p].id
  PROVE  LET g == [h EXCEPT ![p] = new]
         IN  /\ g \in [A -> Node(A)] /\ g[p] = new
             /\ \A n \in A : /\ g[n].parent = h[n].parent /\ g[n].id = h[n].id
                             /\ n # p => g[n] = h[n]
OBVIOUS

LEMMA OtherLinks ==
  ASSUME NEW A, NEW node \in Node(A), NEW links
  PROVE  /\ WithChildren(node, links).parent = node.parent
         /\ WithChildren(node, links).id = node.id
         /\ WithChildren(node, links).slots = node.slots
         /\ WithSlots(node, links).parent = node.parent
         /\ WithSlots(node, links).id = node.id
         /\ WithSlots(node, links).slots = links
BY DEF Node, WithChildren, WithSlots

-----------------------------------------------------------------------------
(* Every edit keeps links in agreement. *)

LEMMA EditedHeap ==
  ASSUME NEW e, IsEditor(e), NEW g \in [DOMAIN e.heap -> Node(DOMAIN e.heap)],
         NEW X, NEW O, NEW S, TreeIn(g, X),
         \A n \in DOMAIN e.heap : g[n].id = e.heap[n].id,
         \A n \in X : \/ g[n].parent \in {Nil, e.heap[n].parent}
                      \/ n \in O /\ g[n].parent \in O,
         \A n \in DOMAIN e.heap \ S : Slotless(e.heap[n]) => Slotless(g[n])
  PROVE  Edited(WithHeap(e, e.treeDirty, g), e, X, O, S)
<1> DEFINE d == WithHeap(e, e.treeDirty, g)
<1>1. e.treeDirty \in BOOLEAN
  BY DEF IsEditor, Editor
<1>2. /\ IsEditor(d) /\ d.heap = g /\ DOMAIN d.heap = DOMAIN e.heap
      /\ d.created = e.created /\ d.nodeFree = e.nodeFree
      /\ d.nextID = e.nextID /\ d.inUse = e.inUse
  BY <1>1, WithHeapIsEditor
<1> HIDE DEF d
<1> QED
  BY <1>2 DEF Edited, SameNodes, d

LEMMA AttachEdits ==
  ASSUME NEW e, IsEditor(e), NEW X, TreeIn(e.heap, X), NEW p \in X, NEW c \in X,
         e.heap[c].parent = Nil, NEW O, p \in O, c \in O
  PROVE  Edited(AttachChild(e, p, c), e, X, O, {})
<1> DEFINE A == DOMAIN e.heap
           h == e.heap
           h1 == [h EXCEPT ![c].parent = p]
           moved == <<c>>
           new == WithChildren(h1[p], h1[p].children \o moved)
           h2 == [h1 EXCEPT ![p] = new]
           b == [e EXCEPT !.heap[c].parent = p, !.heap[p].children = Append(@, c)]
<1>1. h \in [A -> Node(A)] /\ Nil \notin A /\ p \in A /\ c \in A
  BY HeapOf DEF TreeIn
<1>2. /\ h1 \in [A -> Node(A)]
      /\ \A n \in A : /\ h1[n].parent = IF n = c THEN p ELSE h[n].parent
                      /\ h1[n].id = h[n].id /\ Below(h1[n]) = Below(h[n])
                      /\ Distinct(h1[n]) <=> Distinct(h[n])
                      /\ h1[n].slots = h[n].slots
  <2> HIDE DEF A, h
  <2> QED
    BY <1>1, Reparent
<1>3. c \notin Below(h1[p])
  <2> HIDE DEF h1
  <2> QED
    BY <1>1, <1>2 DEF TreeIn
<1>4. new \in Node(A) /\ Distinct(new) /\ Below(new) = Below(h[p]) \cup {c}
  <2> HIDE DEF h1, A
  <2>1. h1[p] \in Node(A) /\ Distinct(h1[p])
    BY <1>1, <1>2 DEF TreeIn
  <2>2. moved \in Seq(A) /\ Len(moved) = 1 /\ moved[1] = c
    BY <1>1
  <2>3. 1 .. Len(moved) = {1} /\ DOMAIN moved = 1 .. Len(moved)
    BY <2>2
  <2> HIDE DEF moved
  <2>4. \A i, j \in 1 .. Len(moved) : moved[i] = moved[j] => i = j
    BY <2>3
  <2>5. Range(moved) = {c} /\ Range(moved) \cap Below(h1[p]) = {}
    BY <1>3, <2>2, <2>3 DEF Range
  <2>6. new \in Node(A) /\ Distinct(new) /\ Below(new) = Below(h1[p]) \cup Range(moved)
    BY <1>1, <2>1, <2>2, <2>4, <2>5, LinkChildren
  <2> HIDE DEF new
  <2> QED
    BY <1>1, <1>2, <2>5, <2>6
<1>5. new.parent = h1[p].parent /\ new.id = h1[p].id /\ new.slots = h1[p].slots
  <2>1. h1[p] \in Node(A)
    BY <1>1, <1>2
  <2> HIDE DEF h1
  <2> QED
    BY <2>1, OtherLinks
<1>6. b = WithHeap(e, e.treeDirty, h2)
  <2>1. h1[p].children \in Seq(A)
    BY <1>1, <1>2 DEF Node
  <2>2. Append(h1[p].children, c) = h1[p].children \o moved
    <3> HIDE DEF h1
    <3> QED
      BY <1>1, <2>1, AppendIsConcat
  <2>3. h2 = [h1 EXCEPT ![p].children = Append(@, c)]
    <3> HIDE DEF h1
    <3> QED
      BY <2>2 DEF WithChildren
  <2>4. e \in Editor(A)
    BY DEF IsEditor
  <2> HIDE DEF h2
  <2> QED
    BY <2>3, <2>4, ZenonT(60) DEF WithHeap, Editor
<1> HIDE DEF h1, new
<1>7. /\ h2 \in [A -> Node(A)] /\ h2[p] = new
      /\ \A n \in A : /\ h2[n].parent = h1[n].parent /\ h2[n].id = h1[n].id
                      /\ n # p => h2[n] = h1[n]
  <2> HIDE DEF A
  <2> QED
    BY <1>1, <1>2, <1>4, <1>5, Relink
<1> HIDE DEF h2
<1>8. /\ \A n \in A : /\ h2[n].parent = IF n = c THEN p ELSE h[n].parent
                      /\ h2[n].id = h[n].id /\ h2[n].slots = h[n].slots
                      /\ Distinct(h[n]) => Distinct(h2[n])
      /\ \A n \in A, m \in X : m \in Below(h2[n]) <=> m \in Below(h[n]) \/ (n = p /\ m = c)
      /\ \A n \in A : Below(h2[n]) \subseteq Below(h[n]) \cup {c}
  <2>1. \A n \in A : /\ h2[n].parent = IF n = c THEN p ELSE h[n].parent
                     /\ h2[n].id = h[n].id
    BY <1>2, <1>7
  <2>2. \A n \in A : n # p => /\ Below(h2[n]) = Below(h[n]) /\ h2[n].slots = h[n].slots
                              /\ Distinct(h[n]) => Distinct(h2[n])
    BY <1>2, <1>7
  <2>3. /\ Below(h2[p]) = Below(h[p]) \cup {c} /\ h2[p].slots = h[p].slots
        /\ Distinct(h2[p])
    BY <1>1, <1>2, <1>4, <1>5, <1>7
  <2> HIDE DEF A, h
  <2> QED
    BY <2>1, <2>2, <2>3
<1>9. TreeIn(h2, X)
  <2>1. X \subseteq A /\ DOMAIN h2 = A
    BY <1>7 DEF TreeIn
  <2>2. TreeIn(h, X)
    OBVIOUS
  <2>3. h[c].parent = Nil
    OBVIOUS
  <2> HIDE DEF A, h
  <2>4. \A n \in X : h2[n].parent \in X \cup {Nil}
    BY <1>8, <2>1, <2>2 DEF TreeIn
  <2>5. \A n \in X : Below(h2[n]) \subseteq X /\ Distinct(h2[n])
    BY <1>8, <2>1, <2>2 DEF TreeIn
  <2>6. \A m, n \in X : n \in Below(h2[m]) <=> h2[n].parent = m
    <3> TAKE m, n \in X
    <3>1. n \in Below(h2[m]) <=> n \in Below(h[m]) \/ (m = p /\ n = c)
      BY <1>8, <2>1
    <3>2. n \in Below(h[m]) <=> h[n].parent = m
      BY <2>2 DEF TreeIn
    <3>3. h2[n].parent = IF n = c THEN p ELSE h[n].parent
      BY <1>8, <2>1
    <3>4. m # Nil
      BY <1>1, <2>1
    <3> QED
      BY <2>3, <3>1, <3>2, <3>3, <3>4
  <2> QED
    BY <2>1, <2>4, <2>5, <2>6 DEF TreeIn
<1>10. Edited(b, e, X, O, {})
  <2>1. \A n \in A \ {} : Slotless(h[n]) => Slotless(h2[n])
    <3> HIDE DEF h, A
    <3> QED
      BY <1>8 DEF Slotless
  <2>2. \A n \in X : \/ h2[n].parent \in {Nil, h[n].parent}
                     \/ n \in O /\ h2[n].parent \in O
    BY <1>8 DEF TreeIn
  <2>3. \A n \in A : h2[n].id = h[n].id
    BY <1>8
  <2> HIDE DEF b
  <2> QED
    BY <1>6, <1>7, <1>9, <2>1, <2>2, <2>3, EditedHeap
<1>11. AttachChild(e, p, c) = markDirty(b, {c, p})
  BY DEF AttachChild
<1> HIDE DEF b
<1> QED
  BY <1>10, <1>11, EditThenDirty

(* A node is unlinked from the node it is below. *)
Without(node, n) ==
  IF n \in Range(node.children) THEN WithChildren(node, RemoveFirst(node.children, n))
  ELSE WithSlots(node, [node.slots EXCEPT ![CHOOSE s \in Slots : node.slots[s] = n] = Nil])

LEMMA WithoutIsNode ==
  ASSUME NEW A, Nil \notin A, NEW node \in Node(A), Distinct(node), NEW n \in Below(node)
  PROVE  /\ Without(node, n) \in Node(A) /\ Distinct(Without(node, n))
         /\ Below(Without(node, n)) = Below(node) \ {n}
         /\ Without(node, n).parent = node.parent /\ Without(node, n).id = node.id
         /\ Slotless(node) => Slotless(Without(node, n))
<1> DEFINE kids == node.children
           new == Without(node, n)
<1>1. Range(kids) = {kids[i] : i \in 1 .. Len(kids)}
  <2>1. DOMAIN kids = 1 .. Len(kids)
    BY BelowInside
  <2> QED
    BY <2>1 DEF Range
<1>2. CASE n \in Range(kids)
  <2>1. PICK at \in 1 .. Len(kids) : kids[at] = n
    BY <1>1, <1>2
  <2>2. new = WithChildren(node, RemoveFirst(kids, kids[at]))
    BY <1>2, <2>1 DEF Without
  <2>3. /\ new \in Node(A) /\ Distinct(new)
        /\ Below(new) = Below(node) \ {kids[at]}
    <3> HIDE DEF new
    <3> QED
      BY <2>2, UnlinkChild
  <2>4. new.parent = node.parent /\ new.id = node.id /\ new.slots = node.slots
    <3> HIDE DEF new
    <3> QED
      BY <2>2, OtherLinks
  <2> HIDE DEF new
  <2>5. /\ new \in Node(A) /\ Distinct(new) /\ Below(new) = Below(node) \ {n}
        /\ new.parent = node.parent /\ new.id = node.id
        /\ Slotless(node) => Slotless(new)
    BY <2>1, <2>3, <2>4 DEF Slotless
  <2> QED
    BY <2>5 DEF new
<1>3. CASE n \notin Range(kids)
  <2> DEFINE at == CHOOSE s \in Slots : node.slots[s] = n
  <2>1. n # Nil /\ \E s \in Slots : node.slots[s] = n
    BY <1>1, <1>3, BelowOf
  <2>2. at \in Slots /\ node.slots[at] = n
    BY <2>1
  <2>3. new = WithSlots(node, [node.slots EXCEPT ![at] = Nil])
    BY <1>3 DEF Without
  <2>4. Nil \notin Below(node)
    BY DEF Below
  <2> HIDE DEF at
  <2>5. /\ new \in Node(A) /\ Distinct(new)
        /\ Below(new) = (Below(node) \ {node.slots[at]}) \cup ({Nil} \ {Nil})
    <3> HIDE DEF new
    <3> QED
      BY <2>2, <2>3, <2>4, RelinkSlot
  <2>6. /\ new.parent = node.parent /\ new.id = node.id
        /\ new.slots = [node.slots EXCEPT ![at] = Nil]
    <3> HIDE DEF new
    <3> QED
      BY <2>3, OtherLinks
  <2> HIDE DEF new
  <2>7. /\ new \in Node(A) /\ Distinct(new) /\ Below(new) = Below(node) \ {n}
        /\ new.parent = node.parent /\ new.id = node.id
    BY <2>2, <2>5, <2>6
  <2>8. ~Slotless(node)
    BY <2>1, <2>2 DEF Slotless
  <2> QED
    BY <2>7, <2>8 DEF new
<1> QED
  BY <1>2, <1>3

LEMMA DetachEdits ==
  ASSUME NEW e, IsEditor(e), NEW X, TreeIn(e.heap, X), NEW c \in X,
         e.heap[c].parent # Nil, NEW O
  PROVE  Edited(Detach(e, c), e, X, O, {})
<1> DEFINE A == DOMAIN e.heap
           h == e.heap
           p == h[c].parent
           new == Without(h[p], c)
           h1 == [h EXCEPT ![p] = new]
           h2 == [h1 EXCEPT ![c].parent = Nil]
           b == [e EXCEPT !.heap[p] = IF c \in Range(@.children)
                                        THEN [@ EXCEPT !.children = RemoveFirst(h[p].children, c)]
                                        ELSE [@ EXCEPT !.slots[SlotOf(e, c)] = Nil],
                          !.heap[c].parent = Nil]
<1>1. h \in [A -> Node(A)] /\ Nil \notin A /\ c \in A
  BY HeapOf DEF TreeIn
<1>2. p \in X /\ p \in A /\ c \in Below(h[p]) /\ Distinct(h[p]) /\ h[p] \in Node(A)
  BY <1>1 DEF TreeIn
<1>3. /\ new \in Node(A) /\ Distinct(new) /\ Below(new) = Below(h[p]) \ {c}
      /\ new.parent = h[p].parent /\ new.id = h[p].id
      /\ Slotless(h[p]) => Slotless(new)
  <2> HIDE DEF A, h, p
  <2> QED
    BY <1>1, <1>2, WithoutIsNode
<1>4. b = WithHeap(e, e.treeDirty, h2)
  <2>1. SlotOf(e, c) = CHOOSE s \in Slots : h[p].slots[s] = c
    BY DEF SlotOf
  <2>2. new = IF c \in Range(h[p].children)
              THEN [h[p] EXCEPT !.children = RemoveFirst(h[p].children, c)]
              ELSE [h[p] EXCEPT !.slots[SlotOf(e, c)] = Nil]
    <3> HIDE DEF p, h
    <3> QED
      BY <2>1 DEF Without, WithChildren, WithSlots
  <2>3. e \in Editor(A)
    BY DEF IsEditor
  <2> HIDE DEF p, new
  <2> QED
    BY <2>2, <2>3, ZenonT(60) DEF WithHeap, Editor
<1> HIDE DEF new
<1>5. /\ h1 \in [A -> Node(A)] /\ h1[p] = new
      /\ \A n \in A : /\ h1[n].parent = h[n].parent /\ h1[n].id = h[n].id
                      /\ n # p => h1[n] = h[n]
  <2> HIDE DEF A, h, p
  <2> QED
    BY <1>1, <1>2, <1>3, Relink
<1> HIDE DEF h1
<1>6. /\ h2 \in [A -> Node(A)]
      /\ \A n \in A : /\ h2[n].parent = IF n = c THEN Nil ELSE h1[n].parent
                      /\ h2[n].id = h1[n].id /\ Below(h2[n]) = Below(h1[n])
                      /\ Distinct(h2[n]) <=> Distinct(h1[n])
                      /\ h2[n].slots = h1[n].slots
  <2> HIDE DEF A, h, p
  <2> QED
    BY <1>1, <1>5, Reparent, SMTT(60)
<1> HIDE DEF h2
<1>7. /\ \A n \in A : /\ h2[n].parent = IF n = c THEN Nil ELSE h[n].parent
                      /\ h2[n].id = h[n].id
                      /\ Distinct(h[n]) => Distinct(h2[n])
                      /\ Slotless(h[n]) => Slotless(h2[n])
                      /\ Below(h2[n]) = IF n = p THEN Below(h[n]) \ {c} ELSE Below(h[n])
  <2> HIDE DEF A, h, p
  <2>1. \A n \in A : /\ h2[n].parent = IF n = c THEN Nil ELSE h[n].parent
                     /\ h2[n].id = h[n].id
    BY <1>5, <1>6
  <2>2. \A n \in A : n # p => /\ Below(h2[n]) = Below(h[n]) /\ h2[n].slots = h[n].slots
                              /\ Distinct(h[n]) => Distinct(h2[n])
    BY <1>5, <1>6
  <2>3. /\ Below(h2[p]) = Below(h[p]) \ {c} /\ h2[p].slots = new.slots
        /\ Distinct(h2[p])
    BY <1>2, <1>3, <1>5, <1>6
  <2> QED
    BY <1>3, <2>1, <2>2, <2>3, SMTT(60) DEF Slotless
<1>8. TreeIn(h2, X)
  <2>1. X \subseteq A /\ DOMAIN h2 = A
    BY <1>6 DEF TreeIn
  <2>2. TreeIn(h, X) /\ h[c].parent = p
    OBVIOUS
  <2> HIDE DEF A, h, p
  <2>3. \A n \in X : h2[n].parent \in X \cup {Nil}
    BY <1>7, <2>1, <2>2 DEF TreeIn
  <2>4. \A n \in X : Below(h2[n]) \subseteq X /\ Distinct(h2[n])
    BY <1>7, <2>1, <2>2 DEF TreeIn
  <2>5. \A m, n \in X : n \in Below(h2[m]) <=> h2[n].parent = m
    <3> TAKE m, n \in X
    <3>1. n \in Below(h2[m]) <=> n \in Below(h[m]) /\ ~(m = p /\ n = c)
      BY <1>7, <2>1
    <3>2. n \in Below(h[m]) <=> h[n].parent = m
      BY <2>2 DEF TreeIn
    <3>3. h2[n].parent = IF n = c THEN Nil ELSE h[n].parent
      BY <1>7, <2>1
    <3>4. m # Nil
      BY <1>1, <2>1
    <3> QED
      BY <2>2, <3>1, <3>2, <3>3, <3>4
  <2> QED
    BY <2>1, <2>3, <2>4, <2>5 DEF TreeIn
<1>9. Edited(b, e, X, O, {})
  <2>1. \A n \in A \ {} : Slotless(h[n]) => Slotless(h2[n])
    BY <1>7
  <2>2. \A n \in X : \/ h2[n].parent \in {Nil, h[n].parent}
                     \/ n \in O /\ h2[n].parent \in O
    BY <1>7 DEF TreeIn
  <2>3. \A n \in A : h2[n].id = h[n].id
    BY <1>7
  <2> HIDE DEF b
  <2> QED
    BY <1>4, <1>6, <1>8, <2>1, <2>2, <2>3, EditedHeap
<1>10. Detach(e, c) = markDirty(b, {c, p})
  BY DEF Detach
<1> HIDE DEF b
<1> QED
  BY <1>9, <1>10, EditThenDirty

LEMMA SetSlotEdits ==
  ASSUME NEW e, IsEditor(e), NEW X, TreeIn(e.heap, X), NEW p \in X, NEW c \in X,
         NEW name \in Slots, e.heap[c].parent = Nil, NEW O, p \in O, c \in O
  PROVE  Edited(SetSlot(e, p, name, c), e, X, O, {p})
<1> DEFINE A == DOMAIN e.heap
           h == e.heap
           old == h[p].slots[name]
           h0 == IF old = Nil THEN h ELSE [h EXCEPT ![old].parent = Nil]
           new == WithSlots(h0[p], [h0[p].slots EXCEPT ![name] = c])
           h1 == [h0 EXCEPT ![p] = new]
           h2 == [h1 EXCEPT ![c].parent = p]
           unlinked == IF old = Nil THEN e ELSE [e EXCEPT !.heap[old].parent = Nil]
           b == [unlinked EXCEPT !.heap[p].slots[name] = c, !.heap[c].parent = p]
<1>1. h \in [A -> Node(A)] /\ Nil \notin A /\ c \in A /\ p \in A
  BY HeapOf DEF TreeIn
<1>2. old # Nil => /\ old \in Below(h[p]) /\ old \in X /\ old \in A
                   /\ h[old].parent = p
  <2>1. h[p] \in Node(A)
    BY <1>1
  <2>2. old # Nil => old \in Below(h[p])
    BY <2>1, BelowOf, SMTT(60)
  <2> QED
    BY <2>2 DEF TreeIn
<1>3. /\ h0 \in [A -> Node(A)]
      /\ \A n \in A : /\ h0[n].parent = IF n = old THEN Nil ELSE h[n].parent
                      /\ h0[n].id = h[n].id /\ Below(h0[n]) = Below(h[n])
                      /\ Distinct(h0[n]) <=> Distinct(h[n])
                      /\ h0[n].slots = h[n].slots
  <2>1. CASE old = Nil
    <3>1. \A n \in A : n # old
      BY <1>1, <2>1
    <3>2. h0 = h
      BY <2>1
    <3> HIDE DEF h0, A, h, old
    <3> QED
      BY <1>1, <3>1, <3>2
  <2>2. CASE old # Nil
    <3>1. h0 = [h EXCEPT ![old].parent = Nil]
      BY <2>2
    <3> HIDE DEF h0, A, h, old
    <3> QED
      BY <1>1, <1>2, <2>2, <3>1, Reparent, SMTT(60)
  <2> QED
    BY <2>1, <2>2
<1>4. b = WithHeap(e, e.treeDirty, h2)
  <2>1. e \in Editor(A)
    BY DEF IsEditor
  <2>2. unlinked = WithHeap(e, e.treeDirty, h0)
    <3>1. CASE old = Nil
      <4>1. unlinked = e /\ h0 = h
        BY <3>1
      <4> HIDE DEF unlinked, h0
      <4> QED
        BY <2>1, <4>1 DEF WithHeap, Editor
    <3>2. CASE old # Nil
      <4>1. unlinked = [e EXCEPT !.heap[old].parent = Nil] /\ h0 = [h EXCEPT ![old].parent = Nil]
        BY <3>2
      <4> HIDE DEF unlinked, h0, old
      <4> QED
        BY <2>1, <4>1 DEF WithHeap, Editor
    <3> QED
      BY <3>1, <3>2
  <2>3. new = [h0[p] EXCEPT !.slots[name] = c]
    <3> HIDE DEF h0
    <3> QED
      BY DEF WithSlots
  <2> HIDE DEF unlinked, h0, new
  <2> QED
    BY <2>1, <2>2, <2>3, ZenonT(60) DEF WithHeap, Editor
<1> HIDE DEF h0
<1>5. c \notin Below(h0[p])
  BY <1>1, <1>3 DEF TreeIn
<1>6. /\ new \in Node(A) /\ Distinct(new)
      /\ Below(new) = (Below(h[p]) \ {old}) \cup {c}
      /\ new.parent = h0[p].parent /\ new.id = h0[p].id
  <2>1. h0[p] \in Node(A) /\ Distinct(h0[p])
    BY <1>1, <1>3 DEF TreeIn
  <2>2. h0[p].slots[name] = old /\ Below(h0[p]) = Below(h[p])
    BY <1>1, <1>3
  <2>3. new.parent = h0[p].parent /\ new.id = h0[p].id
    BY <2>1, OtherLinks
  <2>4. c # Nil /\ c \in A \cup {Nil}
    BY <1>1
  <2> HIDE DEF A, h, old
  <2>5. /\ new \in Node(A) /\ Distinct(new)
        /\ Below(new) = (Below(h0[p]) \ {h0[p].slots[name]}) \cup ({c} \ {Nil})
    BY <1>1, <1>5, <2>1, <2>4, RelinkSlot
  <2> HIDE DEF new
  <2> QED
    BY <2>2, <2>3, <2>4, <2>5
<1> HIDE DEF new
<1>7. /\ h1 \in [A -> Node(A)] /\ h1[p] = new
      /\ \A n \in A : /\ h1[n].parent = h0[n].parent /\ h1[n].id = h0[n].id
                      /\ n # p => h1[n] = h0[n]
  <2> HIDE DEF A, h
  <2> QED
    BY <1>1, <1>3, <1>6, Relink
<1> HIDE DEF h1
<1>8. /\ h2 \in [A -> Node(A)]
      /\ \A n \in A : /\ h2[n].parent = IF n = c THEN p ELSE h1[n].parent
                      /\ h2[n].id = h1[n].id /\ Below(h2[n]) = Below(h1[n])
                      /\ Distinct(h2[n]) <=> Distinct(h1[n])
                      /\ h2[n].slots = h1[n].slots
  <2> HIDE DEF A, h
  <2> QED
    BY <1>1, <1>7, Reparent, SMTT(60)
<1> HIDE DEF h2
<1>9. /\ \A n \in A : /\ h2[n].parent = IF n = c THEN p ELSE IF n = old THEN Nil ELSE h[n].parent
                      /\ h2[n].id = h[n].id
                      /\ Distinct(h[n]) => Distinct(h2[n])
                      /\ n # p => h2[n].slots = h[n].slots
                      /\ Below(h2[n]) = IF n = p THEN (Below(h[n]) \ {old}) \cup {c}
                                        ELSE Below(h[n])
  <2> HIDE DEF A, h, old
  <2>1. \A n \in A : /\ h2[n].parent = IF n = c THEN p ELSE IF n = old THEN Nil ELSE h[n].parent
                     /\ h2[n].id = h[n].id
    BY <1>3, <1>7, <1>8
  <2>2. \A n \in A : n # p => /\ Below(h2[n]) = Below(h[n]) /\ h2[n].slots = h[n].slots
                              /\ Distinct(h[n]) => Distinct(h2[n])
    BY <1>3, <1>7, <1>8
  <2>3. Below(h2[p]) = (Below(h[p]) \ {old}) \cup {c} /\ Distinct(h2[p])
    BY <1>1, <1>6, <1>7, <1>8
  <2> QED
    BY <2>1, <2>2, <2>3
<1>10. TreeIn(h2, X)
  <2>1. X \subseteq A /\ DOMAIN h2 = A
    BY <1>8 DEF TreeIn
  <2>2. TreeIn(h, X) /\ h[c].parent = Nil
    OBVIOUS
  <2> HIDE DEF A, h, old
  <2>3. \A n \in X : h2[n].parent \in X \cup {Nil}
    BY <1>9, <2>1, <2>2 DEF TreeIn
  <2>4. \A n \in X : Below(h2[n]) \subseteq X /\ Distinct(h2[n])
    <3> TAKE n \in X
    <3>1. Below(h[n]) \subseteq X /\ Distinct(h[n]) /\ n \in A
      BY <2>1, <2>2 DEF TreeIn
    <3> QED
      BY <1>9, <3>1
  <2>5. \A m, n \in X : n \in Below(h2[m]) <=> h2[n].parent = m
    <3> TAKE m, n \in X
    <3>1. n \in Below(h2[m]) <=>
             (n \in Below(h[m]) /\ ~(m = p /\ n = old)) \/ (m = p /\ n = c)
      BY <1>9, <2>1
    <3>2. n \in Below(h[m]) <=> h[n].parent = m
      BY <2>2 DEF TreeIn
    <3>3. h2[n].parent = IF n = c THEN p ELSE IF n = old THEN Nil ELSE h[n].parent
      BY <1>9, <2>1
    <3>4. m # Nil /\ n # Nil
      BY <1>1, <2>1
    <3> QED
      BY <1>2, <2>2, <3>1, <3>2, <3>3, <3>4
  <2> QED
    BY <2>1, <2>3, <2>4, <2>5 DEF TreeIn
<1>11. Edited(b, e, X, O, {p})
  <2>1. \A n \in A \ {p} : Slotless(h[n]) => Slotless(h2[n])
    <3> HIDE DEF A, h
    <3> QED
      BY <1>9 DEF Slotless
  <2>2. \A n \in X : \/ h2[n].parent \in {Nil, h[n].parent}
                     \/ n \in O /\ h2[n].parent \in O
    BY <1>9 DEF TreeIn
  <2>3. \A n \in A : h2[n].id = h[n].id
    BY <1>9
  <2> HIDE DEF b
  <2> QED
    BY <1>4, <1>8, <1>10, <2>1, <2>2, <2>3, EditedHeap
<1>12. SetSlot(e, p, name, c) = markDirty(b, {c, p})
  BY DEF SetSlot
<1> HIDE DEF b
<1> QED
  BY <1>11, <1>12, EditThenDirty

(* A node takes the place of another. *)
InPlaceOf(node, n, w) ==
  LET first == SelectInSeq(node.children, LAMBDA m : m = n)
  IN  IF first # 0 THEN WithChildren(node, [node.children EXCEPT ![first] = w])
      ELSE WithSlots(node, [node.slots EXCEPT ![CHOOSE s \in Slots : node.slots[s] = n] = w])

LEMMA InPlaceOfIsNode ==
  ASSUME NEW A, Nil \notin A, NEW node \in Node(A), Distinct(node), NEW n \in Below(node),
         NEW w \in A, w \notin Below(node)
  PROVE  /\ InPlaceOf(node, n, w) \in Node(A) /\ Distinct(InPlaceOf(node, n, w))
         /\ Below(InPlaceOf(node, n, w)) = (Below(node) \ {n}) \cup {w}
         /\ InPlaceOf(node, n, w).parent = node.parent /\ InPlaceOf(node, n, w).id = node.id
         /\ Slotless(node) => Slotless(InPlaceOf(node, n, w))
<1> DEFINE kids == node.children
           new == InPlaceOf(node, n, w)
           I == {j \in 1 .. Len(kids) : kids[j] = n}
           first == IF I # {} THEN Min(I) ELSE 0
           slot == CHOOSE s \in Slots : node.slots[s] = n
<1>1. kids \in Seq(A) /\ \A i, j \in 1 .. Len(kids) : kids[i] = kids[j] => i = j
  BY DEF Node, Distinct
<1>2. new = IF first # 0 THEN WithChildren(node, [kids EXCEPT ![first] = w])
            ELSE WithSlots(node, [node.slots EXCEPT ![slot] = w])
  BY DEF InPlaceOf, SelectInSeq
<1>3. CASE \E at \in 1 .. Len(kids) : kids[at] = n
  <2>1. PICK at \in 1 .. Len(kids) : kids[at] = n
    BY <1>3
  <2>2. I # {} /\ Min(I) = at
    <3>1. LET J == {j \in 1 .. Len(kids) : kids[j] = kids[at]}
          IN  J # {} /\ Min(J) = at
      <4> HIDE DEF kids
      <4> QED
        BY <1>1, <2>1, OnlyPlace
    <3>2. I = {j \in 1 .. Len(kids) : kids[j] = kids[at]}
      BY <2>1
    <3> QED
      BY <3>1, <3>2
  <2>3. first = at /\ at # 0
    <3> HIDE DEF I
    <3> QED
      BY <1>1, <2>1, <2>2
  <2> HIDE DEF first, new
  <2>4. new = WithChildren(node, [kids EXCEPT ![at] = w])
    BY <1>2, <2>3
  <2>5. new \in Node(A) /\ Distinct(new) /\ Below(new) = (Below(node) \ {kids[at]}) \cup {w}
    BY <2>1, <2>4, RelinkChild
  <2>6. new.parent = node.parent /\ new.id = node.id /\ new.slots = node.slots
    BY <2>4, OtherLinks
  <2>7. /\ new \in Node(A) /\ Distinct(new) /\ Below(new) = (Below(node) \ {n}) \cup {w}
        /\ new.parent = node.parent /\ new.id = node.id
        /\ Slotless(node) => Slotless(new)
    BY <2>1, <2>5, <2>6 DEF Slotless
  <2> QED
    BY <2>7 DEF new
<1>4. CASE ~\E at \in 1 .. Len(kids) : kids[at] = n
  <2>1. n # Nil /\ \E s \in Slots : node.slots[s] = n
    BY <1>4, BelowOf
  <2>2. slot \in Slots /\ node.slots[slot] = n
    BY <2>1
  <2>3. first = 0
    BY <1>4
  <2> HIDE DEF first, new, slot
  <2>4. new = WithSlots(node, [node.slots EXCEPT ![slot] = w])
    BY <1>2, <2>3
  <2>5. w # Nil /\ w \in A \cup {Nil}
    OBVIOUS
  <2>6. /\ new \in Node(A) /\ Distinct(new)
        /\ Below(new) = (Below(node) \ {node.slots[slot]}) \cup ({w} \ {Nil})
    BY <2>2, <2>4, <2>5, RelinkSlot
  <2>7. new.parent = node.parent /\ new.id = node.id
    BY <2>4, OtherLinks
  <2>8. /\ new \in Node(A) /\ Distinct(new) /\ Below(new) = (Below(node) \ {n}) \cup {w}
        /\ new.parent = node.parent /\ new.id = node.id
    BY <2>2, <2>5, <2>6, <2>7
  <2>9. ~Slotless(node)
    BY <2>1, <2>2 DEF Slotless
  <2> QED
    BY <2>8, <2>9 DEF new
<1> QED
  BY <1>3, <1>4

LEMMA ReplaceEdits ==
  ASSUME NEW e, IsEditor(e), NEW X, TreeIn(e.heap, X), NEW c \in X, NEW w \in X,
         e.heap[c].parent # Nil, e.heap[w].parent = Nil,
         NEW O, w \in O, e.heap[c].parent \in O
  PROVE  Edited(Replace(e, c, w), e, X, O, {})
<1> DEFINE A == DOMAIN e.heap
           h == e.heap
           p == h[c].parent
           new == InPlaceOf(h[p], c, w)
           h1 == [h EXCEPT ![p] = new]
           h2 == [h1 EXCEPT ![w].parent = p]
           h3 == [h2 EXCEPT ![c].parent = Nil]
           first == SelectInSeq(h[p].children, LAMBDA n : n = c)
           b == [e EXCEPT !.heap[p] = IF first # 0
                                        THEN [@ EXCEPT !.children[first] = w]
                                        ELSE [@ EXCEPT !.slots[SlotOf(e, c)] = w],
                          !.heap[w].parent = p, !.heap[c].parent = Nil]
<1>1. h \in [A -> Node(A)] /\ Nil \notin A /\ c \in A /\ w \in A /\ w # c
  BY HeapOf DEF TreeIn
<1>2. /\ p \in X /\ p \in A /\ c \in Below(h[p]) /\ Distinct(h[p]) /\ h[p] \in Node(A)
      /\ w \notin Below(h[p])
  BY <1>1 DEF TreeIn
<1>3. /\ new \in Node(A) /\ Distinct(new) /\ Below(new) = (Below(h[p]) \ {c}) \cup {w}
      /\ new.parent = h[p].parent /\ new.id = h[p].id
      /\ Slotless(h[p]) => Slotless(new)
  <2> HIDE DEF A, h, p
  <2> QED
    BY <1>1, <1>2, InPlaceOfIsNode
<1>4. b = WithHeap(e, e.treeDirty, h3)
  <2>1. SlotOf(e, c) = CHOOSE s \in Slots : h[p].slots[s] = c
    BY DEF SlotOf
  <2>2. new = IF first # 0 THEN [h[p] EXCEPT !.children[first] = w]
              ELSE [h[p] EXCEPT !.slots[SlotOf(e, c)] = w]
    <3>1. new = IF first # 0 THEN WithChildren(h[p], [h[p].children EXCEPT ![first] = w])
                ELSE WithSlots(h[p], [h[p].slots EXCEPT ![SlotOf(e, c)] = w])
      <4> HIDE DEF h, p
      <4> QED
        BY <2>1 DEF InPlaceOf
    <3> HIDE DEF new, first, h, p
    <3> QED
      BY <3>1 DEF WithChildren, WithSlots
  <2>3. e \in Editor(A)
    BY DEF IsEditor
  <2>4. b = [e EXCEPT !.heap[p] = new, !.heap[w].parent = p, !.heap[c].parent = Nil]
    <3> HIDE DEF p, new, first
    <3> QED
      BY <2>2, Zenon
  <2> HIDE DEF p, new, first, b
  <2> QED
    BY <2>3, <2>4, ZenonT(60) DEF WithHeap, Editor
<1> HIDE DEF new, first
<1>5. /\ h1 \in [A -> Node(A)] /\ h1[p] = new
      /\ \A n \in A : /\ h1[n].parent = h[n].parent /\ h1[n].id = h[n].id
                      /\ n # p => h1[n] = h[n]
  <2> HIDE DEF A, h, p
  <2> QED
    BY <1>1, <1>2, <1>3, Relink
<1> HIDE DEF h1
<1>6. /\ h2 \in [A -> Node(A)]
      /\ \A n \in A : /\ h2[n].parent = IF n = w THEN p ELSE h1[n].parent
                      /\ h2[n].id = h1[n].id /\ Below(h2[n]) = Below(h1[n])
                      /\ Distinct(h2[n]) <=> Distinct(h1[n])
                      /\ h2[n].slots = h1[n].slots
  <2> HIDE DEF A, h, p
  <2> QED
    BY <1>1, <1>2, <1>5, Reparent, SMTT(60)
<1> HIDE DEF h2
<1>7. /\ h3 \in [A -> Node(A)]
      /\ \A n \in A : /\ h3[n].parent = IF n = c THEN Nil ELSE h2[n].parent
                      /\ h3[n].id = h2[n].id /\ Below(h3[n]) = Below(h2[n])
                      /\ Distinct(h3[n]) <=> Distinct(h2[n])
                      /\ h3[n].slots = h2[n].slots
  <2> HIDE DEF A, h, p
  <2> QED
    BY <1>1, <1>6, Reparent, SMTT(60)
<1> HIDE DEF h3
<1>8. /\ \A n \in A : /\ h3[n].parent = IF n = c THEN Nil ELSE IF n = w THEN p ELSE h[n].parent
                      /\ h3[n].id = h[n].id
                      /\ Distinct(h[n]) => Distinct(h3[n])
                      /\ Slotless(h[n]) => Slotless(h3[n])
                      /\ Below(h3[n]) = IF n = p THEN (Below(h[n]) \ {c}) \cup {w} ELSE Below(h[n])
  <2> HIDE DEF A, h, p
  <2>1. \A n \in A : /\ h3[n].parent = IF n = c THEN Nil ELSE IF n = w THEN p ELSE h[n].parent
                     /\ h3[n].id = h[n].id
    BY <1>5, <1>6, <1>7
  <2>2. \A n \in A : n # p => /\ Below(h3[n]) = Below(h[n]) /\ h3[n].slots = h[n].slots
                              /\ Distinct(h[n]) => Distinct(h3[n])
    BY <1>5, <1>6, <1>7
  <2>3. /\ Below(h3[p]) = (Below(h[p]) \ {c}) \cup {w} /\ h3[p].slots = new.slots
        /\ Distinct(h3[p])
    BY <1>2, <1>3, <1>5, <1>6, <1>7
  <2> QED
    BY <1>3, <2>1, <2>2, <2>3, ZenonT(60) DEF Slotless
<1>9. TreeIn(h3, X)
  <2>1. X \subseteq A /\ DOMAIN h3 = A
    BY <1>7 DEF TreeIn
  <2>2. TreeIn(h, X) /\ h[c].parent = p /\ h[w].parent = Nil
    OBVIOUS
  <2> HIDE DEF A, h, p
  <2>3. \A n \in X : h3[n].parent \in X \cup {Nil}
    BY <1>2, <1>8, <2>1, <2>2 DEF TreeIn
  <2>4. \A n \in X : Below(h3[n]) \subseteq X /\ Distinct(h3[n])
    <3> TAKE n \in X
    <3>1. Below(h[n]) \subseteq X /\ Distinct(h[n]) /\ n \in A
      BY <2>1, <2>2 DEF TreeIn
    <3> QED
      BY <1>8, <3>1
  <2>5. \A m, n \in X : n \in Below(h3[m]) <=> h3[n].parent = m
    <3> TAKE m, n \in X
    <3>1. n \in Below(h3[m]) <=> (n \in Below(h[m]) /\ ~(m = p /\ n = c)) \/ (m = p /\ n = w)
      BY <1>8, <2>1
    <3>2. n \in Below(h[m]) <=> h[n].parent = m
      BY <2>2 DEF TreeIn
    <3>3. h3[n].parent = IF n = c THEN Nil ELSE IF n = w THEN p ELSE h[n].parent
      BY <1>8, <2>1
    <3>4. m # Nil
      BY <1>1, <2>1
    <3> QED
      BY <1>1, <2>2, <3>1, <3>2, <3>3, <3>4
  <2> QED
    BY <2>1, <2>3, <2>4, <2>5 DEF TreeIn
<1>10. Edited(b, e, X, O, {})
  <2>1. \A n \in A \ {} : Slotless(h[n]) => Slotless(h3[n])
    BY <1>8
  <2>2. \A n \in X : \/ h3[n].parent \in {Nil, h[n].parent}
                     \/ n \in O /\ h3[n].parent \in O
    BY <1>8 DEF TreeIn
  <2>3. \A n \in A : h3[n].id = h[n].id
    BY <1>8
  <2> HIDE DEF b
  <2> QED
    BY <1>4, <1>7, <1>9, <2>1, <2>2, <2>3, EditedHeap
<1>11. Replace(e, c, w) = markDirty(b, {w, p})
  BY DEF Replace, first
<1> HIDE DEF b
<1> QED
  BY <1>10, <1>11, EditThenDirty

(* After its children have moved a fragment is the parent of nobody.       *)
LEMMA FragmentEdits ==
  ASSUME NEW e, IsEditor(e), NEW X, TreeIn(e.heap, X), NEW p \in X, NEW f \in X,
         p # f, Slotless(e.heap[f]), NEW O, p \in O, Range(e.heap[f].children) \subseteq O
  PROVE  /\ Edited(AttachFragment(e, p, f), e, X, O, {})
         /\ \A n \in X : AttachFragment(e, p, f).heap[n].parent # f
<1> DEFINE A == DOMAIN e.heap
           h == e.heap
           moved == h[f].children
           adopted == [n \in A |-> IF n \in Range(moved) THEN [h[n] EXCEPT !.parent = p] ELSE h[n]]
           bare == WithChildren(adopted[f], <<>>)
           h1 == [adopted EXCEPT ![f] = bare]
           new == WithChildren(h1[p], h1[p].children \o moved)
           h2 == [h1 EXCEPT ![p] = new]
           b == [e EXCEPT !.heap = [adopted EXCEPT ![f].children = <<>>,
                                                   ![p].children = @ \o moved]]
           d == AttachFragment(e, p, f)
<1>1. h \in [A -> Node(A)] /\ Nil \notin A /\ f \in A /\ p \in A /\ h[f] \in Node(A)
  BY HeapOf DEF TreeIn
<1>2. Below(h[f]) = Range(moved) /\ moved \in Seq(A) /\ Nil \notin Range(moved)
  <2>1. Range(h[f].slots) \subseteq {Nil}
    BY <1>1 DEF Slotless, Range, Node
  <2>2. moved \in Seq(A)
    BY <1>1 DEF Node
  <2>3. Nil \notin Range(moved)
    <3>1. \A i \in DOMAIN moved : moved[i] \in A
      BY <2>2
    <3> HIDE DEF moved, A
    <3> QED
      BY <1>1, <3>1 DEF Range
  <2> QED
    BY <2>1, <2>2, <2>3 DEF Below
<1>3. \A n \in X : n \in Range(moved) <=> h[n].parent = f
  BY <1>2 DEF TreeIn
<1>4. CASE moved = <<>>
  <2>1. d = e
    BY <1>4 DEF AttachFragment
  <2>2. Range(moved) = {}
    BY <1>4 DEF Range
  <2>3. \A n \in X : h[n].parent # f
    <3> HIDE DEF h, moved
    <3> QED
      BY <1>3, <2>2
  <2>4. SameNodes(e, e)
    BY DEF SameNodes
  <2>5. Edited(e, e, X, O, {})
    BY <2>4 DEF Edited
  <2> QED
    BY <2>1, <2>3, <2>5
<1>5. CASE moved # <<>>
  <2>1. /\ adopted \in [A -> Node(A)]
        /\ \A n \in A : /\ adopted[n].parent = IF n \in Range(moved) THEN p ELSE h[n].parent
                        /\ adopted[n].id = h[n].id /\ adopted[n].slots = h[n].slots
                        /\ adopted[n].children = h[n].children
    <3>1. \A n \in A : h[n] \in Node(A)
      BY <1>1
    <3>2. \A n \in A : /\ [h[n] EXCEPT !.parent = p] \in Node(A)
                       /\ [h[n] EXCEPT !.parent = p].parent = p
                       /\ [h[n] EXCEPT !.parent = p].id = h[n].id
                       /\ [h[n] EXCEPT !.parent = p].slots = h[n].slots
                       /\ [h[n] EXCEPT !.parent = p].children = h[n].children
      BY <1>1, <3>1 DEF Node
    <3> HIDE DEF h, A, moved
    <3> QED
      BY <3>1, <3>2
  <2>2. b = WithHeap(e, e.treeDirty, h2)
    <3>1. h1 = [adopted EXCEPT ![f].children = <<>>]
      <4> HIDE DEF adopted
      <4> QED
        BY DEF WithChildren
    <3>2. h2 = [h1 EXCEPT ![p].children = @ \o moved]
      <4> HIDE DEF h1, moved
      <4> QED
        BY DEF WithChildren
    <3>3. e \in Editor(A)
      BY DEF IsEditor
    <3> HIDE DEF adopted, h1, h2, moved
    <3> QED
      BY <3>1, <3>2, <3>3 DEF WithHeap, Editor
  <2> HIDE DEF adopted
  <2>3. \A n \in A : Below(adopted[n]) = Below(h[n]) /\ (Distinct(adopted[n]) <=> Distinct(h[n]))
    <3> HIDE DEF h, A, moved
    <3> QED
      BY <2>1, SameBelow
  <2>4. adopted[f] \in Node(A)
    <3> HIDE DEF A
    <3> QED
      BY <1>1, <2>1
  <2>5. /\ bare.parent = adopted[f].parent /\ bare.id = adopted[f].id
        /\ bare.slots = h[f].slots
    <3>1. bare.slots = adopted[f].slots
      BY <2>4, OtherLinks
    <3> QED
      BY <1>1, <2>1, <2>4, <3>1, OtherLinks
  <2>6. bare \in Node(A) /\ bare.children = <<>>
    <3> HIDE DEF A
    <3>1. <<>> \in Seq(A)
      BY EmptySeq
    <3> DEFINE node == adopted[f]
    <3>2. node \in Node(A)
      BY <2>4
    <3>3. bare = [node EXCEPT !.children = <<>>]
      BY DEF WithChildren
    <3> HIDE DEF node, bare
    <3> QED
      BY <3>1, <3>2, <3>3 DEF Node
  <2> HIDE DEF bare
  <2>7. Distinct(bare) /\ Below(bare) = {}
    <3>1. 1 .. Len(bare.children) = {} /\ Range(bare.children) = {}
      BY <2>6 DEF Range
    <3>2. \A s \in Slots : bare.slots[s] = Nil
      BY <2>5 DEF Slotless
    <3>3. Range(bare.slots) \subseteq {Nil}
      BY <2>6, <3>2 DEF Range, Node
    <3> QED
      BY <3>1, <3>2, <3>3 DEF Distinct, Below
  <2>8. /\ h1 \in [A -> Node(A)] /\ h1[f] = bare
        /\ \A n \in A : /\ h1[n].parent = adopted[n].parent /\ h1[n].id = adopted[n].id
                        /\ n # f => h1[n] = adopted[n]
    <3> HIDE DEF A, h, moved
    <3> QED
      BY <1>1, <2>1, <2>5, <2>6, Relink
  <2> HIDE DEF h1
  <2>9. h1[p] \in Node(A) /\ Below(h1[p]) = Below(h[p]) /\ Distinct(h1[p]) /\ h1[p].slots = h[p].slots
    <3>1. Distinct(h[p])
      BY DEF TreeIn
    <3> HIDE DEF A, h, moved
    <3> QED
      BY <1>1, <2>1, <2>3, <2>8, <3>1
  <2>10. Range(moved) \cap Below(h1[p]) = {}
    <3>1. Below(h[p]) \subseteq X
      BY DEF TreeIn
    <3>2. \A n \in X : n \in Below(h[p]) => h[n].parent # f
      BY <1>1 DEF TreeIn
    <3> HIDE DEF h, moved
    <3> QED
      BY <1>3, <2>9, <3>1, <3>2
  <2>11. /\ new \in Node(A) /\ Distinct(new) /\ Below(new) = Below(h[p]) \cup Range(moved)
    <3>1. \A i, j \in 1 .. Len(moved) : moved[i] = moved[j] => i = j
      BY DEF TreeIn, Distinct
    <3> HIDE DEF A, h, moved
    <3>2. new \in Node(A) /\ Distinct(new) /\ Below(new) = Below(h1[p]) \cup Range(moved)
      BY <1>1, <1>2, <2>9, <2>10, <3>1, LinkChildren
    <3> HIDE DEF new
    <3> QED
      BY <2>9, <3>2
  <2>12. new.parent = h1[p].parent /\ new.id = h1[p].id /\ new.slots = h1[p].slots
    BY <2>9, OtherLinks
  <2> HIDE DEF new
  <2>13. /\ h2 \in [A -> Node(A)] /\ h2[p] = new
         /\ \A n \in A : /\ h2[n].parent = h1[n].parent /\ h2[n].id = h1[n].id
                         /\ n # p => h2[n] = h1[n]
    <3> HIDE DEF A, h, moved
    <3> QED
      BY <1>1, <2>8, <2>11, <2>12, Relink
  <2> HIDE DEF h2
  <2>14. \A n \in A : /\ h2[n].parent = IF n \in Range(moved) THEN p ELSE h[n].parent
                      /\ h2[n].id = h[n].id /\ h2[n].slots = h[n].slots
                      /\ Distinct(h[n]) => Distinct(h2[n])
                      /\ Below(h2[n]) = IF n = f THEN {}
                                        ELSE IF n = p THEN Below(h[n]) \cup Range(moved)
                                        ELSE Below(h[n])
    <3> HIDE DEF A, h, moved
    <3>1. \A n \in A : /\ h2[n].parent = IF n \in Range(moved) THEN p ELSE h[n].parent
                       /\ h2[n].id = h[n].id
      BY <2>1, <2>8, <2>13
    <3>2. \A n \in A : n # p /\ n # f => /\ Below(h2[n]) = Below(h[n]) /\ h2[n].slots = h[n].slots
                                         /\ Distinct(h[n]) => Distinct(h2[n])
      BY <2>1, <2>3, <2>8, <2>13
    <3>3. Below(h2[f]) = {} /\ h2[f].slots = h[f].slots /\ Distinct(h2[f])
      BY <1>1, <2>5, <2>7, <2>8, <2>13
    <3>4. Below(h2[p]) = Below(h[p]) \cup Range(moved) /\ h2[p].slots = h[p].slots /\ Distinct(h2[p])
      BY <2>9, <2>11, <2>12, <2>13
    <3> QED
      BY <3>1, <3>2, <3>3, <3>4
  <2>15. \A n \in X : h2[n].parent # f
    <3>1. X \subseteq A
      BY DEF TreeIn
    <3> HIDE DEF A, h, moved
    <3> QED
      BY <1>3, <2>14, <3>1
  <2>16. TreeIn(h2, X)
    <3>1. X \subseteq A /\ DOMAIN h2 = A
      BY <2>13 DEF TreeIn
    <3>2. TreeIn(h, X)
      OBVIOUS
    <3>3. Range(moved) \subseteq X
      BY <1>2 DEF TreeIn
    <3> HIDE DEF A, h, moved
    <3>4. \A n \in X : h2[n].parent \in X \cup {Nil}
      BY <2>14, <3>1, <3>2 DEF TreeIn
    <3>5. \A n \in X : Below(h2[n]) \subseteq X /\ Distinct(h2[n])
      <4> TAKE n \in X
      <4>1. Below(h[n]) \subseteq X /\ Distinct(h[n]) /\ n \in A
        BY <3>1, <3>2 DEF TreeIn
      <4> QED
        BY <2>14, <3>3, <4>1
    <3>6. \A m, n \in X : n \in Below(h2[m]) <=> h2[n].parent = m
      <4> TAKE m, n \in X
      <4>1. n \in Below(h2[m]) <=>
               (n \in Below(h[m]) /\ m # f) \/ (m = p /\ n \in Range(moved))
        BY <2>14, <3>1
      <4>2. n \in Below(h[m]) <=> h[n].parent = m
        BY <3>2 DEF TreeIn
      <4>3. h2[n].parent = IF n \in Range(moved) THEN p ELSE h[n].parent
        BY <2>14, <3>1
      <4>4. n \in Range(moved) <=> h[n].parent = f
        BY <1>3
      <4> QED
        BY <4>1, <4>2, <4>3, <4>4
    <3> QED
      BY <3>1, <3>4, <3>5, <3>6 DEF TreeIn
  <2>17. Edited(b, e, X, O, {})
    <3>1. \A n \in A \ {} : Slotless(h[n]) => Slotless(h2[n])
      <4> HIDE DEF A, h, moved
      <4> QED
        BY <2>14 DEF Slotless
    <3>2. \A n \in X : \/ h2[n].parent \in {Nil, h[n].parent}
                       \/ n \in O /\ h2[n].parent \in O
      <4>1. X \subseteq A
        BY DEF TreeIn
      <4> HIDE DEF A, h
      <4> QED
        BY <2>14, <4>1 DEF moved, h
    <3>3. \A n \in A : h2[n].id = h[n].id
      BY <2>14
    <3> HIDE DEF b
    <3> QED
      BY <2>2, <2>13, <2>16, <3>1, <3>2, <3>3, EditedHeap
  <2>18. d = markDirty(b, Range(moved) \cup {f, p})
    BY <1>5 DEF AttachFragment, adopted
  <2>19. IsEditor(b) /\ b.heap = h2 /\ DOMAIN h2 = A /\ X \subseteq A
    <3>1. e.treeDirty \in BOOLEAN
      BY DEF IsEditor, Editor
    <3>2. IsEditor(b)
      BY <2>17 DEF Edited
    <3>3. DOMAIN h2 = A /\ X \subseteq A
      BY <2>13 DEF TreeIn
    <3> HIDE DEF b
    <3>4. b.heap = h2
      BY <2>2, <2>13, <3>1, WithHeapIsEditor
    <3> QED
      BY <3>2, <3>3, <3>4
  <2> HIDE DEF b, d
  <2>20. Edited(d, e, X, O, {})
    BY <2>17, <2>18, EditThenDirty
  <2>21. SameTopology(d, b)
    BY <2>18, <2>19, DirtyTopology
  <2>22. \A n \in X : d.heap[n].parent # f
    BY <2>15, <2>19, <2>21 DEF SameTopology, SameLinks
  <2> QED
    BY <2>20, <2>22 DEF d
<1> QED
  BY <1>4, <1>5

-----------------------------------------------------------------------------
(* What does not touch links. *)

LEMMA TopologyEdits ==
  ASSUME NEW e, NEW d, IsEditor(e), IsEditor(d), SameTopology(d, e),
         d.nextID = e.nextID, d.inUse = e.inUse, NEW X, TreeIn(e.heap, X), NEW O
  PROVE  Edited(d, e, X, O, {})
<1>1. TreeIn(d.heap, X)
  BY TreeOfSameLinks DEF SameTopology, SameNodes
<1>3. X \subseteq DOMAIN e.heap
  BY DEF TreeIn
<1>2. \A n \in DOMAIN e.heap : /\ d.heap[n].parent = e.heap[n].parent
                               /\ Slotless(d.heap[n]) <=> Slotless(e.heap[n])
  BY SameBelow DEF SameTopology, SameLinks
<1> QED
  BY <1>1, <1>2, <1>3 DEF Edited, SameTopology

LEMMA SameTopologyChain ==
  ASSUME NEW a, NEW b, NEW c, SameTopology(a, b), SameTopology(b, c)
  PROVE  SameTopology(a, c)
BY DEF SameTopology, SameNodes, SameLinks

(* One node gets other lexemes or another span. *)
LEMMA NodeTopology ==
  ASSUME NEW e, IsEditor(e), NEW n \in DOMAIN e.heap, NEW new \in Node(DOMAIN e.heap),
         SameLinks(new, e.heap[n])
  PROVE  LET d == markDirty([e EXCEPT !.heap[n] = new], {n})
         IN  IsEditor(d) /\ SameTopology(d, e) /\ d.nextID = e.nextID /\ d.inUse = e.inUse
<1> DEFINE b == [e EXCEPT !.heap[n] = new]
           g == [e.heap EXCEPT ![n] = new]
           d == markDirty(b, {n})
<1>1. e \in Editor(DOMAIN e.heap) /\ e.treeDirty \in BOOLEAN
  BY DEF IsEditor, Editor
<1>2. b = WithHeap(e, e.treeDirty, g)
  BY <1>1 DEF WithHeap, Editor
<1>3. g \in [DOMAIN e.heap -> Node(DOMAIN e.heap)]
  BY HeapOf
<1>4. \A m \in DOMAIN e.heap : SameLinks(g[m], e.heap[m])
  BY HeapOf DEF SameLinks
<1> HIDE DEF b, g
<1>5. /\ IsEditor(b) /\ b.heap = g /\ DOMAIN b.heap = DOMAIN e.heap
      /\ b.created = e.created /\ b.nodeFree = e.nodeFree
      /\ b.nextID = e.nextID /\ b.inUse = e.inUse
  BY <1>1, <1>2, <1>3, WithHeapIsEditor
<1>6. SameTopology(b, e)
  BY <1>4, <1>5 DEF SameTopology, SameNodes, SameLinks
<1>7. IsEditor(d) /\ SameTopology(d, b) /\ d.nextID = b.nextID /\ d.inUse = b.inUse
  BY <1>5, DirtyTopology
<1> HIDE DEF d
<1>8. IsEditor(d) /\ SameTopology(d, e) /\ d.nextID = e.nextID /\ d.inUse = e.inUse
  BY <1>5, <1>6, <1>7, SameTopologyChain
<1> QED
  BY <1>8 DEF d, b

(* The editor d is e with other lexemes and spans. *)
Respanned(d, e) ==
  /\ IsEditor(d) /\ SameTopology(d, e) /\ d.nextID = e.nextID /\ d.inUse = e.inUse

LEMMA LexemesRespan ==
  ASSUME NEW e, IsEditor(e), NEW n \in DOMAIN e.heap
  PROVE  /\ Respanned(SetAttribute(e, n), e)
         /\ \A tok \in Offsets : Respanned(AddToken(e, n, tok), e)
         /\ \A toks \in SUBSET Offsets : Respanned(SetTokens(e, n, toks), e)
         /\ Respanned(SetSpan(e, n, 0, 0), e)
<1> DEFINE A == DOMAIN e.heap
           node == e.heap[n]
<1>1. node \in Node(A)
  BY HeapOf
<1>2. Respanned(SetAttribute(e, n), e)
  BY DirtyTopology DEF SetAttribute, Respanned
<1>3. ASSUME NEW tok \in Offsets
      PROVE  Respanned(AddToken(e, n, tok), e)
  <2> DEFINE new == [node EXCEPT !.tokens = @ \cup {tok}]
  <2>1. new \in Node(A) /\ SameLinks(new, node)
    <3> HIDE DEF node, A
    <3> QED
      BY <1>1 DEF Node, SameLinks
  <2>2. AddToken(e, n, tok) = markDirty([e EXCEPT !.heap[n] = new], {n})
    BY DEF AddToken
  <2> HIDE DEF new
  <2> QED
    BY <2>1, <2>2, NodeTopology DEF Respanned
<1>4. ASSUME NEW toks \in SUBSET Offsets
      PROVE  Respanned(SetTokens(e, n, toks), e)
  <2> DEFINE new == [node EXCEPT !.tokens = toks]
  <2>1. new \in Node(A) /\ SameLinks(new, node)
    <3> HIDE DEF node, A
    <3> QED
      BY <1>1 DEF Node, SameLinks
  <2>2. SetTokens(e, n, toks) = markDirty([e EXCEPT !.heap[n] = new], {n})
    BY DEF SetTokens
  <2> HIDE DEF new
  <2> QED
    BY <2>1, <2>2, NodeTopology, ZenonT(60) DEF Respanned
<1>5. Respanned(SetSpan(e, n, 0, 0), e)
  <2> DEFINE new == [[node EXCEPT !.start = 0] EXCEPT !.end = 0]
  <2>1. 0 \in Ends
    BY LastOffsetIsLast DEF Ends
  <2>2. new \in Node(A) /\ SameLinks(new, node)
    <3> HIDE DEF node, A
    <3> QED
      BY <1>1, <2>1 DEF Node, SameLinks
  <2>3. [e EXCEPT !.heap[n].start = 0, !.heap[n].end = 0] = [e EXCEPT !.heap[n] = new]
    <3>1. e \in Editor(A)
      BY DEF IsEditor
    <3> HIDE DEF A
    <3> QED
      BY <1>1, <3>1, HeapOf DEF Editor, A
  <2>4. SetSpan(e, n, 0, 0) = markDirty([e EXCEPT !.heap[n] = new], {n})
    <3> HIDE DEF new
    <3> QED
      BY <2>3 DEF SetSpan
  <2> HIDE DEF new
  <2> QED
    BY <2>2, <2>4, NodeTopology DEF Respanned
<1> QED
  BY <1>2, <1>3, <1>4, <1>5

LEMMA EnsureRespans ==
  ASSUME NEW e, IsEditor(e), NEW n, NEW force
  PROVE  /\ Respanned(ensureSpanValid(e, n, force), e)
         /\ ensureSpanValid(e, n, force).root = e.root
<1> DEFINE A == DOMAIN e.heap
           d == ensureSpanValid(e, n, force)
           new == Spanned(e, force)
           visited == Visited(e, n, force)
           g == [m \in A |-> IF m \in visited THEN new[m] ELSE e.heap[m]]
<1>1. new \in [A -> Node(A)] /\ \A m \in A : SameLinks(new[m], e.heap[m])
  BY SpannedIsHeap
<1>2. e.heap \in [A -> Node(A)] /\ e.treeDirty \in BOOLEAN /\ e \in Editor(A)
  BY HeapOf DEF IsEditor, Editor
<1>3. d = WithHeap(e, e.treeDirty, g)
  <2>1. d = [e EXCEPT !.heap = g]
    BY DEF ensureSpanValid
  <2> HIDE DEF g, d
  <2> QED
    BY <1>2, <2>1 DEF WithHeap, Editor
<1> HIDE DEF new, visited
<1>4. g \in [A -> Node(A)] /\ \A m \in A : SameLinks(g[m], e.heap[m])
  BY <1>1, <1>2 DEF SameLinks
<1> HIDE DEF g, d
<1>5. /\ IsEditor(d) /\ d.heap = g /\ DOMAIN d.heap = DOMAIN e.heap
      /\ d.created = e.created /\ d.nodeFree = e.nodeFree
      /\ d.nextID = e.nextID /\ d.inUse = e.inUse /\ d.root = e.root
  BY <1>2, <1>3, <1>4, WithHeapIsEditor
<1>6. SameTopology(d, e)
  BY <1>4, <1>5 DEF SameTopology, SameNodes, SameLinks
<1> QED
  BY <1>5, <1>6 DEF Respanned, d

(* Fields that no node depends on. *)
LEMMA FieldsRespan ==
  ASSUME NEW e, IsEditor(e)
  PROVE  /\ Respanned([e EXCEPT !.treeDirty = FALSE], e)
         /\ \A n \in DOMAIN e.heap \cup {Nil} : /\ Respanned(setRoot(e, n), e)
                                                /\ setRoot(e, n).root = n
         /\ /\ IsEditor(begin(e)) /\ SameTopology(begin(e), e)
            /\ begin(e).nextID = e.nextID /\ begin(e).inUse = TRUE
         /\ /\ IsEditor(end(e)) /\ SameTopology(end(e), e)
            /\ end(e).nextID = 0 /\ end(e).inUse = FALSE
<1>1. e \in Editor(DOMAIN e.heap)
  BY DEF IsEditor
<1>2. Respanned([e EXCEPT !.treeDirty = FALSE], e)
  <2> DEFINE d == [e EXCEPT !.treeDirty = FALSE]
  <2>1. d \in Editor(DOMAIN e.heap) /\ d.heap = e.heap /\ d.created = e.created
        /\ d.nodeFree = e.nodeFree /\ d.nextID = e.nextID /\ d.inUse = e.inUse
    BY <1>1 DEF Editor
  <2> HIDE DEF d
  <2>2. Respanned(d, e)
    BY <2>1 DEF Respanned, IsEditor, SameTopology, SameNodes, SameLinks
  <2> QED
    BY <2>2 DEF d
<1>3. ASSUME NEW n \in DOMAIN e.heap \cup {Nil}
      PROVE  Respanned(setRoot(e, n), e) /\ setRoot(e, n).root = n
  <2> DEFINE d == setRoot(e, n)
  <2>1. d \in Editor(DOMAIN e.heap) /\ d.heap = e.heap /\ d.created = e.created
        /\ d.nodeFree = e.nodeFree /\ d.nextID = e.nextID /\ d.inUse = e.inUse /\ d.root = n
    BY <1>1 DEF Editor, setRoot
  <2> HIDE DEF d
  <2>2. Respanned(d, e) /\ d.root = n
    BY <2>1 DEF Respanned, IsEditor, SameTopology, SameNodes, SameLinks
  <2> QED
    BY <2>2 DEF d
<1>4. /\ IsEditor(begin(e)) /\ SameTopology(begin(e), e)
      /\ begin(e).nextID = e.nextID /\ begin(e).inUse = TRUE
  <2> DEFINE d == begin(e)
  <2>1. d \in Editor(DOMAIN e.heap) /\ d.heap = e.heap /\ d.created = e.created
        /\ d.nodeFree = e.nodeFree /\ d.nextID = e.nextID /\ d.inUse = TRUE
    BY <1>1 DEF Editor, begin
  <2> HIDE DEF d
  <2>2. IsEditor(d) /\ SameTopology(d, e) /\ d.nextID = e.nextID /\ d.inUse = TRUE
    BY <2>1 DEF IsEditor, SameTopology, SameNodes, SameLinks
  <2> QED
    BY <2>2 DEF d
<1>5. /\ IsEditor(end(e)) /\ SameTopology(end(e), e)
      /\ end(e).nextID = 0 /\ end(e).inUse = FALSE
  <2> DEFINE d == end(e)
  <2>1. d \in Editor(DOMAIN e.heap) /\ d.heap = e.heap /\ d.created = e.created
        /\ d.nodeFree = e.nodeFree /\ d.nextID = 0 /\ d.inUse = FALSE
    BY <1>1 DEF Editor, end
  <2> HIDE DEF d
  <2>2. IsEditor(d) /\ SameTopology(d, e) /\ d.nextID = 0 /\ d.inUse = FALSE
    BY <2>1 DEF IsEditor, SameTopology, SameNodes, SameLinks
  <2> QED
    BY <2>2 DEF d
<1> QED
  BY <1>2, <1>3, <1>4, <1>5

LEMMA RespannedChain ==
  ASSUME NEW a, NEW b, NEW c, Respanned(a, b), Respanned(b, c)
  PROVE  Respanned(a, c)
BY SameTopologyChain DEF Respanned

LEMMA ComputeRespans ==
  ASSUME NEW e, IsEditor(e)
  PROVE  Respanned(ComputeSpans(e), e)
<1> DEFINE b == ensureSpanValid(e, e.root, e.treeDirty)
<1>1. Respanned(b, e) /\ IsEditor(b)
  BY EnsureRespans DEF Respanned
<1>2. Respanned([b EXCEPT !.treeDirty = FALSE], b)
  <2> HIDE DEF b
  <2> QED
    BY <1>1, FieldsRespan
<1>3. ComputeSpans(e) = [b EXCEPT !.treeDirty = FALSE]
  BY DEF ComputeSpans
<1> HIDE DEF b
<1> QED
  BY <1>1, <1>2, <1>3, RespannedChain

LEMMA FreezeRespans ==
  ASSUME NEW e, IsEditor(e)
  PROVE  /\ IsEditor(Freeze(e)) /\ SameTopology(Freeze(e), e)
         /\ Freeze(e).nextID = 0 /\ Freeze(e).inUse = FALSE
<1> DEFINE b == IF e.root = Nil THEN e ELSE ensureSpanValid(e, e.root, TRUE)
<1>1. IsEditor(b) /\ SameTopology(b, e)
  <2>1. SameTopology(e, e)
    BY DEF SameTopology, SameNodes, SameLinks
  <2>2. IsEditor(ensureSpanValid(e, e.root, TRUE)) /\ SameTopology(ensureSpanValid(e, e.root, TRUE), e)
    BY EnsureRespans DEF Respanned
  <2> QED
    BY <2>1, <2>2
<1>2. Freeze(e) = end(b)
  BY DEF Freeze
<1> HIDE DEF b
<1>3. IsEditor(end(b)) /\ SameTopology(end(b), b) /\ end(b).nextID = 0 /\ end(b).inUse = FALSE
  BY <1>1, FieldsRespan
<1> QED
  BY <1>1, <1>2, <1>3, SameTopologyChain

-----------------------------------------------------------------------------
(* The pool and the ledger. *)

(* New nodes at the end of the heap. *)
Extended(d, e, n) ==
  /\ DOMAIN d.heap = 1 .. Len(e.heap) + n
  /\ \A m \in DOMAIN e.heap : d.heap[m] = e.heap[m]
  /\ \A m \in DOMAIN d.heap \ DOMAIN e.heap : d.heap[m] = ZeroNode

LEMMA AllocExtends ==
  ASSUME NEW e, IsEditor(e), NEW n \in Nat
  PROVE  LET d == Alloc(e, n)
         IN  /\ Extended(d, e, n) /\ d \in Editor(1 .. Len(e.heap) + n)
             /\ DOMAIN e.heap \subseteq DOMAIN d.heap
             /\ d.created = e.created /\ d.nodeFree = e.nodeFree
             /\ d.nextID = e.nextID /\ d.inUse = e.inUse
<1> DEFINE d == Alloc(e, n)
           A == DOMAIN e.heap
           B == 1 .. Len(e.heap) + n
           zeros == [i \in 1 .. n |-> ZeroNode]
           all == e.heap \o zeros
<1>1. /\ e.heap \in Seq(Node(A)) /\ Len(e.heap) \in Nat /\ A = 1 .. Len(e.heap)
  BY HeapOf
<1>2. A \subseteq B
  BY <1>1
<1>3. e.heap \in Seq(Node(B))
  <2>1. Node(A) \subseteq Node(B)
    <3> HIDE DEF A, B
    <3> QED
      BY <1>2, NodeGrows
  <2> HIDE DEF A, B
  <2> QED
    BY <1>1, <2>1, SeqMonotonic
<1>4. zeros \in Seq(Node(B)) /\ Len(zeros) = n /\ \A i \in 1 .. n : zeros[i] = ZeroNode
  <2>1. ZeroNode \in Node(B)
    BY ZeroIsNode
  <2> HIDE DEF B
  <2> QED
    BY <2>1
<1>5. /\ all \in Seq(Node(B)) /\ Len(all) = Len(e.heap) + n
      /\ \A i \in 1 .. Len(e.heap) + n :
            all[i] = IF i <= Len(e.heap) THEN e.heap[i] ELSE zeros[i - Len(e.heap)]
  <2> HIDE DEF zeros, B
  <2> QED
    BY <1>3, <1>4, ConcatProperties, ZenonT(60)
<1>6. DOMAIN all = B
  <2> HIDE DEF all
  <2> QED
    BY <1>5
<1>7. e \in Editor(A) /\ d = [e EXCEPT !.heap = all]
  BY DEF IsEditor, Alloc
<1>8. \A m \in A : all[m] = e.heap[m]
  <2> HIDE DEF all, zeros
  <2> QED
    BY <1>1, <1>5
<1>9. \A m \in B \ A : all[m] = ZeroNode
  <2> TAKE m \in B \ A
  <2>1. ~(m <= Len(e.heap)) /\ m - Len(e.heap) \in 1 .. n /\ m \in 1 .. Len(e.heap) + n
    BY <1>1
  <2> HIDE DEF all, zeros, A, B
  <2> QED
    BY <1>4, <1>5, <2>1
<1>10. e.created \in Seq(B) /\ e.nodeFree \in Seq(B) /\ e.root \in B \cup {Nil}
  <2>1. e.created \in Seq(A) /\ e.nodeFree \in Seq(A) /\ e.root \in A \cup {Nil}
    BY <1>7 DEF Editor
  <2> HIDE DEF A, B
  <2> QED
    BY <1>2, <2>1, SeqMonotonic
<1> HIDE DEF all, d, B, A
<1>11. /\ d \in Editor(B) /\ d.heap = all /\ d.created = e.created /\ d.nodeFree = e.nodeFree
       /\ d.nextID = e.nextID /\ d.inUse = e.inUse
  BY <1>5, <1>7, <1>10 DEF Editor
<1>12. Extended(d, e, n)
  BY <1>6, <1>8, <1>9, <1>11 DEF Extended, A, B
<1>13. DOMAIN e.heap \subseteq DOMAIN d.heap
  BY <1>2, <1>6, <1>11 DEF A
<1> QED
  BY <1>11, <1>12, <1>13 DEF d, B

(* The next node comes from the pool or is new. *)
LEMMA GrownPool ==
  ASSUME NEW e, IsEditor(e), IsInjective(e.nodeFree)
  PROVE  LET d == grown(e)
         IN  /\ IsEditor(d) /\ DOMAIN e.heap \subseteq DOMAIN d.heap
             /\ \A m \in DOMAIN e.heap : d.heap[m] = e.heap[m]
             /\ d.created = e.created /\ d.nextID = e.nextID /\ d.inUse = e.inUse
             /\ IsInjective(d.nodeFree) /\ d.nodeFree # <<>>
             /\ Range(d.nodeFree) \cap DOMAIN e.heap \subseteq Range(e.nodeFree)
<1> DEFINE d == grown(e)
<1>1. CASE e.nodeFree # <<>>
  <2>1. d = e
    BY <1>1 DEF grown
  <2> QED
    BY <1>1, <2>1
<1>2. CASE e.nodeFree = <<>>
  <2> DEFINE a == Alloc(e, Batch)
             free == [i \in 1 .. Batch |-> Len(e.heap) + i]
             B == 1 .. Len(e.heap) + Batch
  <2>1. Batch \in Nat /\ Batch # 0 /\ Len(e.heap) \in Nat /\ DOMAIN e.heap = 1 .. Len(e.heap)
    BY BatchAssumption, HeapOf
  <2>2. /\ Extended(a, e, Batch) /\ a \in Editor(B)
        /\ DOMAIN e.heap \subseteq DOMAIN a.heap
        /\ a.created = e.created /\ a.nextID = e.nextID /\ a.inUse = e.inUse
    BY <2>1, AllocExtends
  <2>3. d = [a EXCEPT !.nodeFree = free]
    BY <1>2 DEF grown
  <2>4. \A i \in 1 .. Batch : Len(e.heap) + i \in B
    BY <2>1
  <2>5. free \in Seq(B) /\ DOMAIN free = 1 .. Batch
    <3> HIDE DEF B
    <3> QED
      BY <2>1, <2>4
  <2>6. IsInjective(free) /\ free # <<>> /\ Range(free) \cap DOMAIN e.heap = {}
    <3>1. IsInjective(free)
      BY <2>1 DEF IsInjective
    <3>2. free # <<>>
      <4>1. 1 \in DOMAIN free
        BY <2>1
      <4> HIDE DEF free
      <4> QED
        BY <4>1
    <3>3. Range(free) \cap DOMAIN e.heap = {}
      BY <2>1 DEF Range
    <3> QED
      BY <3>1, <3>2, <3>3
  <2> HIDE DEF a, free, d
  <2>7. /\ d \in Editor(B) /\ d.heap = a.heap /\ d.created = a.created /\ d.nextID = a.nextID
        /\ d.inUse = a.inUse /\ d.nodeFree = free
    BY <2>2, <2>3, <2>5 DEF Editor
  <2>8. IsEditor(d) /\ \A m \in DOMAIN e.heap : d.heap[m] = e.heap[m]
    BY <2>2, <2>7 DEF IsEditor, Extended
  <2> QED
    BY <2>2, <2>6, <2>7, <2>8 DEF d
<1> QED
  BY <1>1, <1>2

(* What is left of a sequence without its last element. *)
LEMMA FrontOf ==
  ASSUME NEW S, NEW s \in Seq(S), s # <<>>
  PROVE  /\ Len(s) \in Nat \ {0} /\ DOMAIN s = 1 .. Len(s)
         /\ Last(s) = s[Len(s)] /\ Last(s) \in S
         /\ Front(s) \in Seq(S) /\ Len(Front(s)) = Len(s) - 1
         /\ \A i \in 1 .. Len(s) - 1 : Front(s)[i] = s[i]
         /\ DOMAIN Front(s) = 1 .. Len(s) - 1
<1>1. Len(s) \in Nat \ {0} /\ DOMAIN s = 1 .. Len(s)
  BY EmptySeq
<1>2. \A i \in 1 .. Len(s) - 1 : s[i] \in S
  BY <1>1
<1>3. 1 \in Int /\ Len(s) - 1 \in Int
  BY <1>1
<1>4. /\ SubSeq(s, 1, Len(s) - 1) \in Seq(S)
      /\ Len(SubSeq(s, 1, Len(s) - 1)) = IF 1 <= Len(s) - 1 THEN Len(s) - 1 - 1 + 1 ELSE 0
      /\ \A i \in 1 .. Len(s) - 1 - 1 + 1 : SubSeq(s, 1, Len(s) - 1)[i] = s[1 + i - 1]
  BY <1>2, <1>3, SubSeqProperties
<1>5. /\ Front(s) \in Seq(S) /\ Len(Front(s)) = Len(s) - 1
      /\ \A i \in 1 .. Len(s) - 1 : Front(s)[i] = s[i]
  BY <1>1, <1>4 DEF Front
<1>6. Last(s) = s[Len(s)] /\ Last(s) \in S
  BY <1>1 DEF Last
<1>7. DOMAIN Front(s) = 1 .. Len(s) - 1
  BY <1>5
<1> QED
  BY <1>1, <1>5, <1>6, <1>7

LEMMA PopPool ==
  ASSUME NEW S, NEW s \in Seq(S), s # <<>>, IsInjective(s)
  PROVE  /\ IsInjective(Front(s)) /\ Last(s) \in Range(s)
         /\ Range(Front(s)) = Range(s) \ {Last(s)}
<1>1. /\ Len(s) \in Nat \ {0} /\ DOMAIN s = 1 .. Len(s) /\ Last(s) = s[Len(s)]
      /\ \A i \in 1 .. Len(s) - 1 : Front(s)[i] = s[i]
      /\ DOMAIN Front(s) = 1 .. Len(s) - 1
  BY FrontOf
<1>2. \A i, j \in 1 .. Len(s) : s[i] = s[j] => i = j
  BY <1>1 DEF IsInjective
<1>3. IsInjective(Front(s))
  BY <1>1, <1>2 DEF IsInjective
<1>4. Last(s) \in Range(s)
  BY <1>1, SMTT(60) DEF Range
<1>5. ASSUME NEW x
      PROVE  x \in Range(Front(s)) <=> x \in Range(s) \ {Last(s)}
  <2>1. x \in Range(Front(s)) <=> \E i \in 1 .. Len(s) - 1 : s[i] = x
    BY <1>1 DEF Range
  <2>2. x \in Range(s) <=> \E i \in 1 .. Len(s) : s[i] = x
    BY <1>1 DEF Range
  <2>3. \A i \in 1 .. Len(s) : i \in 1 .. Len(s) - 1 \/ i = Len(s)
    <3>1. Len(s) \in Nat \ {0}
      BY <1>1
    <3> QED
      BY <3>1
  <2>4. \A i \in 1 .. Len(s) - 1 : i \in 1 .. Len(s) /\ i # Len(s)
    <3>1. Len(s) \in Nat \ {0}
      BY <1>1
    <3> QED
      BY <3>1
  <2>5. Len(s) \in 1 .. Len(s)
    <3>1. Len(s) \in Nat \ {0}
      BY <1>1
    <3> QED
      BY <3>1
  <2> QED
    BY <1>1, <1>2, <2>1, <2>2, <2>3, <2>4, <2>5
<1> QED
  BY <1>3, <1>4, <1>5

(* The editor d is e with one more node n in its ledger, linked with none. *)
Created(d, e, n) ==
  /\ IsEditor(d) /\ n \in DOMAIN d.heap
  /\ n \in DOMAIN e.heap => n \in Range(e.nodeFree)
  /\ DOMAIN e.heap \subseteq DOMAIN d.heap
  /\ \A m \in DOMAIN e.heap \ {n} : d.heap[m] = e.heap[m]
  /\ d.heap[n] = [ZeroNode EXCEPT !.id = e.nextID + 1]
  /\ d.created = Append(e.created, n) /\ d.nextID = e.nextID + 1 /\ d.inUse = e.inUse
  /\ IsInjective(d.nodeFree)
  /\ Range(d.nodeFree) \cap DOMAIN e.heap \subseteq Range(e.nodeFree)
  /\ n \notin Range(d.nodeFree)

LEMMA NewNodeCreates ==
  ASSUME NEW e, IsEditor(e), IsInjective(e.nodeFree)
  PROVE  Created(NewNode(e), e, nodeAcquire(e))
<1> DEFINE g == grown(e)
           A == DOMAIN g.heap
           n == nodeAcquire(e)
           node == [lstNodeResetForPool(g.heap[n]) EXCEPT !.id = e.nextID + 1]
           d == NewNode(e)
<1>1. /\ IsEditor(g) /\ DOMAIN e.heap \subseteq A
      /\ \A m \in DOMAIN e.heap : g.heap[m] = e.heap[m]
      /\ g.created = e.created /\ g.nextID = e.nextID /\ g.inUse = e.inUse
      /\ IsInjective(g.nodeFree) /\ g.nodeFree # <<>>
      /\ Range(g.nodeFree) \cap DOMAIN e.heap \subseteq Range(e.nodeFree)
  BY GrownPool
<1>2. /\ g.heap \in Seq(Node(A)) /\ g.heap \in [A -> Node(A)] /\ g \in Editor(A)
      /\ A = 1 .. Len(g.heap)
  BY <1>1, HeapOf DEF IsEditor
<1>3. g.nodeFree \in Seq(A) /\ g.created \in Seq(A) /\ g.nextID \in Nat
  BY <1>2 DEF Editor
<1>4. n = Last(g.nodeFree)
  BY DEF nodeAcquire
<1> HIDE DEF g, A, n
<1>5. /\ IsInjective(Front(g.nodeFree)) /\ n \in Range(g.nodeFree)
      /\ Range(Front(g.nodeFree)) = Range(g.nodeFree) \ {n}
  BY <1>1, <1>3, <1>4, PopPool
<1>6. n \in A /\ Front(g.nodeFree) \in Seq(A)
  BY <1>1, <1>3, <1>4, FrontOf
<1>7. node = [ZeroNode EXCEPT !.id = e.nextID + 1] /\ node \in Node(A)
  <2>1. node = [ZeroNode EXCEPT !.id = e.nextID + 1]
    BY DEF lstNodeResetForPool, ZeroNode
  <2>2. ZeroNode \in Node(A)
    BY ZeroIsNode
  <2> HIDE DEF node
  <2>3. e.nextID + 1 \in Nat
    BY <1>1, <1>3
  <2> QED
    BY <2>1, <2>2, <2>3 DEF Node
<1>8. d = [g EXCEPT !.nodeFree = Front(@), !.nextID = @ + 1, !.created = Append(@, n),
                    !.heap[n] = node]
  BY DEF NewNode, g, n
<1> HIDE DEF node, d
<1>9. Append(g.created, n) \in Seq(A)
  BY <1>3, <1>6, AppendProperties
<1>10. [g.heap EXCEPT ![n] = node] \in Seq(Node(A)) /\ DOMAIN [g.heap EXCEPT ![n] = node] = A
  BY <1>2, <1>6, <1>7
<1>11. /\ d \in Editor(A) /\ d.heap = [g.heap EXCEPT ![n] = node] /\ d.nodeFree = Front(g.nodeFree)
       /\ d.created = Append(g.created, n) /\ d.nextID = g.nextID + 1 /\ d.inUse = g.inUse
  <2> DEFINE heap == [g.heap EXCEPT ![n] = node]
             free == Front(g.nodeFree)
             created == Append(g.created, n)
  <2>1. d = [g EXCEPT !.nodeFree = free, !.nextID = g.nextID + 1, !.created = created,
                      !.heap = heap]
    BY <1>2, <1>8 DEF Editor
  <2>2. heap \in Seq(Node(A)) /\ free \in Seq(A) /\ created \in Seq(A) /\ g.nextID + 1 \in Nat
    BY <1>3, <1>6, <1>9, <1>10
  <2> HIDE DEF heap, free, created
  <2>3. /\ d \in Editor(A) /\ d.heap = heap /\ d.nodeFree = free
        /\ d.created = created /\ d.nextID = g.nextID + 1 /\ d.inUse = g.inUse
    BY <1>2, <2>1, <2>2 DEF Editor
  <2> QED
    BY <2>3 DEF heap, free, created
<1>12. /\ IsEditor(d) /\ DOMAIN d.heap = A /\ d.heap[n] = node
       /\ \A m \in DOMAIN e.heap \ {n} : d.heap[m] = e.heap[m]
  BY <1>1, <1>2, <1>6, <1>10, <1>11 DEF IsEditor, A
<1>13. Created(d, e, n)
  BY <1>1, <1>5, <1>6, <1>7, <1>11, <1>12 DEF Created, A
<1> QED
  BY <1>13 DEF d, n

(* The nodes of the ledger after the first n. *)
After(e, n) == {e.created[i] : i \in n + 1 .. Len(e.created)}

(* The editor d is e without the nodes after the first n. *)
Truncated(d, e, n) ==
  /\ IsEditor(d) /\ DOMAIN d.heap = DOMAIN e.heap
  /\ d.nextID = e.nextID /\ d.inUse = e.inUse
  /\ Len(d.created) = n /\ \A i \in 1 .. n : d.created[i] = e.created[i]
  /\ \A m \in DOMAIN e.heap \ After(e, n) : d.heap[m] = e.heap[m]
  /\ \A m \in After(e, n) : d.heap[m] = lstNodeResetForPool(e.heap[m])
  /\ Range(d.nodeFree) = Range(e.nodeFree) \cup After(e, n)
  /\ IsInjective(d.nodeFree)

LEMMA TruncateTruncates ==
  ASSUME NEW e, IsEditor(e), IsInjective(e.created), IsInjective(e.nodeFree),
         Range(e.created) \cap Range(e.nodeFree) = {}, NEW n \in 0 .. Len(e.created)
  PROVE  Truncated(TruncateCreated(e, n), e, n)
<1> DEFINE A == DOMAIN e.heap
           L == Len(e.created)
           kept == SubSeq(e.created, 1, n)
           suffix == SubSeq(e.created, n + 1, L)
           free == e.nodeFree \o suffix
           heap == [m \in A |-> IF m \in Range(suffix) THEN lstNodeResetForPool(e.heap[m])
                                ELSE e.heap[m]]
           d == TruncateCreated(e, n)
<1>1. /\ e \in Editor(A) /\ e.heap \in [A -> Node(A)] /\ e.heap \in Seq(Node(A))
      /\ A = 1 .. Len(e.heap) /\ Len(e.heap) \in Nat
  BY HeapOf DEF IsEditor
<1>2. e.created \in Seq(A) /\ e.nodeFree \in Seq(A)
  BY <1>1 DEF Editor
<1>3. L \in Nat /\ DOMAIN e.created = 1 .. L /\ n \in Nat /\ n <= L
  BY <1>2
<1> HIDE DEF A, L
<1>4. kept \in Seq(A) /\ Len(kept) = n /\ \A i \in 1 .. n : kept[i] = e.created[i]
  <2>1. \A i \in 1 .. n : e.created[i] \in A
    BY <1>2, <1>3
  <2>2. 1 \in Int /\ n \in Int
    BY <1>3
  <2>3. /\ SubSeq(e.created, 1, n) \in Seq(A)
        /\ Len(SubSeq(e.created, 1, n)) = IF 1 <= n THEN n - 1 + 1 ELSE 0
        /\ \A i \in 1 .. n - 1 + 1 : SubSeq(e.created, 1, n)[i] = e.created[1 + i - 1]
    BY <2>1, <2>2, SubSeqProperties
  <2> QED
    BY <1>3, <2>3
<1>5. /\ suffix \in Seq(A) /\ Len(suffix) = L - n
      /\ \A i \in 1 .. L - n : suffix[i] = e.created[n + i]
  <2>1. \A i \in n + 1 .. L : e.created[i] \in A
    BY <1>2, <1>3
  <2>2. n + 1 \in Int /\ L \in Int
    BY <1>3
  <2>3. /\ SubSeq(e.created, n + 1, L) \in Seq(A)
        /\ Len(SubSeq(e.created, n + 1, L)) = IF n + 1 <= L THEN L - (n + 1) + 1 ELSE 0
        /\ \A i \in 1 .. L - (n + 1) + 1 : SubSeq(e.created, n + 1, L)[i] = e.created[n + 1 + i - 1]
    BY <2>1, <2>2, SubSeqProperties
  <2> QED
    BY <1>3, <2>3
<1> HIDE DEF kept, suffix
<1>6. DOMAIN suffix = 1 .. L - n
  BY <1>5
<1>7. Range(suffix) = After(e, n)
  <2>1. ASSUME NEW x
        PROVE  x \in Range(suffix) <=> x \in After(e, n)
    <3>1. x \in Range(suffix) <=> \E i \in 1 .. L - n : e.created[n + i] = x
      BY <1>5, <1>6 DEF Range
    <3>2. x \in After(e, n) <=> \E i \in n + 1 .. L : e.created[i] = x
      BY DEF After, L
    <3>3. \A i \in 1 .. L - n : n + i \in n + 1 .. L
      BY <1>3
    <3>4. \A i \in n + 1 .. L : i - n \in 1 .. L - n /\ n + (i - n) = i
      BY <1>3
    <3>5. (\E i \in n + 1 .. L : e.created[i] = x) => \E i \in 1 .. L - n : e.created[n + i] = x
      <4> SUFFICES ASSUME NEW i \in n + 1 .. L, e.created[i] = x
                   PROVE  \E k \in 1 .. L - n : e.created[n + k] = x
        OBVIOUS
      <4> DEFINE k == i - n
      <4>1. k \in 1 .. L - n /\ n + k = i
        BY <3>4
      <4> HIDE DEF k
      <4> QED
        BY <4>1
    <3> QED
      BY <3>1, <3>2, <3>3, <3>5
  <2> QED
    BY <2>1
<1>8. /\ free \in Seq(A) /\ Len(free) = Len(e.nodeFree) + Len(suffix)
      /\ \A i \in 1 .. Len(e.nodeFree) + Len(suffix) :
            free[i] = IF i <= Len(e.nodeFree) THEN e.nodeFree[i] ELSE suffix[i - Len(e.nodeFree)]
  BY <1>2, <1>5, ConcatProperties, ZenonT(60)
<1>9. Range(free) = Range(e.nodeFree) \cup Range(suffix)
  <2>1. DOMAIN e.nodeFree = 1 .. Len(e.nodeFree) /\ Len(e.nodeFree) \in Nat /\ Len(suffix) \in Nat
    BY <1>2, <1>5
  <2>2. DOMAIN free = 1 .. Len(e.nodeFree) + Len(suffix)
    <3> HIDE DEF free
    <3> QED
      BY <1>8
  <2>3. DOMAIN suffix = 1 .. Len(suffix)
    BY <1>5
  <2> HIDE DEF free
  <2>4. ASSUME NEW x \in Range(free)
        PROVE  x \in Range(e.nodeFree) \cup Range(suffix)
    <3>1. PICK i \in 1 .. Len(e.nodeFree) + Len(suffix) : x = free[i]
      BY <2>2 DEF Range
    <3>2. CASE i <= Len(e.nodeFree)
      <4>1. i \in DOMAIN e.nodeFree /\ x = e.nodeFree[i]
        BY <1>8, <2>1, <3>1, <3>2
      <4> QED
        BY <4>1 DEF Range
    <3>3. CASE ~(i <= Len(e.nodeFree))
      <4>1. i - Len(e.nodeFree) \in DOMAIN suffix /\ x = suffix[i - Len(e.nodeFree)]
        BY <1>8, <2>1, <2>3, <3>1, <3>3
      <4> QED
        BY <4>1 DEF Range
    <3> QED
      BY <3>2, <3>3
  <2>5. ASSUME NEW i \in DOMAIN e.nodeFree
        PROVE  e.nodeFree[i] \in Range(free)
    <3>1. i \in DOMAIN free /\ free[i] = e.nodeFree[i]
      BY <1>8, <2>1, <2>2
    <3> QED
      BY <3>1 DEF Range
  <2>6. ASSUME NEW i \in DOMAIN suffix
        PROVE  suffix[i] \in Range(free)
    <3> DEFINE k == i + Len(e.nodeFree)
    <3>1. /\ k \in 1 .. Len(e.nodeFree) + Len(suffix) /\ ~(k <= Len(e.nodeFree))
          /\ k - Len(e.nodeFree) = i
      BY <2>1, <2>3
    <3> HIDE DEF k
    <3>2. k \in DOMAIN free /\ free[k] = suffix[i]
      BY <1>8, <2>2, <3>1
    <3> QED
      BY <3>2 DEF Range
  <2> QED
    BY <2>4, <2>5, <2>6 DEF Range
<1>10. IsInjective(free)
  <2>1. DOMAIN e.nodeFree = 1 .. Len(e.nodeFree) /\ Len(e.nodeFree) \in Nat /\ Len(suffix) \in Nat
    BY <1>2, <1>5
  <2>2. DOMAIN free = 1 .. Len(e.nodeFree) + Len(suffix)
    <3> HIDE DEF free
    <3> QED
      BY <1>8
  <2> HIDE DEF free
  <2>3. \A i \in DOMAIN free : \/ i \in DOMAIN e.nodeFree /\ free[i] = e.nodeFree[i]
                               \/ \E k \in 1 .. L - n : /\ i = k + Len(e.nodeFree)
                                                        /\ free[i] = e.created[n + k]
    <3> TAKE i \in DOMAIN free
    <3> DEFINE k == i - Len(e.nodeFree)
    <3>1. CASE i <= Len(e.nodeFree)
      BY <1>8, <2>1, <2>2, <3>1
    <3>2. CASE ~(i <= Len(e.nodeFree))
      <4>1. i \in 1 .. Len(e.nodeFree) + Len(suffix)
        BY <2>2
      <4>2. k \in 1 .. Len(suffix) /\ i = k + Len(e.nodeFree)
        BY <2>1, <3>2, <4>1
      <4>3. free[i] = suffix[k]
        BY <1>8, <3>2, <4>1
      <4> HIDE DEF k
      <4>4. k \in 1 .. L - n /\ suffix[k] = e.created[n + k]
        BY <1>5, <4>2
      <4> QED
        BY <4>2, <4>3, <4>4
    <3> QED
      BY <3>1, <3>2
  <2>4. \A k \in 1 .. L - n : n + k \in 1 .. L /\ e.created[n + k] \notin Range(e.nodeFree)
    <3> TAKE k \in 1 .. L - n
    <3>1. n + k \in 1 .. L
      BY <1>3
    <3>2. e.created[n + k] \in Range(e.created)
      BY <1>3, <3>1 DEF Range
    <3> QED
      BY <3>1, <3>2
  <2>5. ASSUME NEW i \in DOMAIN free, NEW j \in DOMAIN free, free[i] = free[j]
        PROVE  i = j
    <3>1. CASE i \in DOMAIN e.nodeFree /\ free[i] = e.nodeFree[i]
      <4>1. free[i] \in Range(e.nodeFree)
        BY <3>1 DEF Range
      <4>2. j \in DOMAIN e.nodeFree /\ free[j] = e.nodeFree[j]
        BY <2>3, <2>4, <2>5, <4>1
      <4> QED
        BY <2>5, <3>1, <4>2 DEF IsInjective
    <3>2. ASSUME NEW k \in 1 .. L - n, i = k + Len(e.nodeFree), free[i] = e.created[n + k]
          PROVE  i = j
      <4>1. ~(j \in DOMAIN e.nodeFree /\ free[j] = e.nodeFree[j])
        BY <2>4, <2>5, <3>2 DEF Range
      <4>2. PICK m \in 1 .. L - n : j = m + Len(e.nodeFree) /\ free[j] = e.created[n + m]
        BY <2>3, <4>1
      <4>3. n + k = n + m
        BY <1>3, <2>4, <2>5, <3>2, <4>2 DEF IsInjective
      <4>4. k = m
        BY <1>3, <4>3
      <4> QED
        BY <3>2, <4>2, <4>4
    <3> QED
      BY <2>3, <3>1, <3>2
  <2> QED
    BY <2>5 DEF IsInjective
<1>11. heap \in [A -> Node(A)] /\ heap \in Seq(Node(A)) /\ DOMAIN heap = A
  <2>1. \A m \in A : lstNodeResetForPool(e.heap[m]) \in Node(A)
    <3> TAKE m \in A
    <3>1. e.heap[m].id \in Nat /\ ZeroNode \in Node(A)
      BY <1>1, ZeroIsNode DEF Node
    <3> QED
      BY <3>1 DEF lstNodeResetForPool, Node
  <2>2. heap \in [A -> Node(A)]
    BY <1>1, <2>1
  <2> HIDE DEF heap
  <2> QED
    BY <1>1, <2>2
<1>12. /\ \A m \in A \ After(e, n) : heap[m] = e.heap[m]
       /\ \A m \in After(e, n) : heap[m] = lstNodeResetForPool(e.heap[m])
  <2>1. Range(suffix) \subseteq A
    BY <1>5, <1>6 DEF Range
  <2> QED
    BY <1>7, <2>1
<1>13. d = [e EXCEPT !.created = kept, !.nodeFree = free, !.heap = heap]
  BY DEF TruncateCreated, kept, suffix, L, A
<1> HIDE DEF free, heap, d
<1>14. /\ d \in Editor(A) /\ d.heap = heap /\ d.created = kept /\ d.nodeFree = free
       /\ d.nextID = e.nextID /\ d.inUse = e.inUse
  BY <1>1, <1>4, <1>8, <1>11, <1>13 DEF Editor
<1>15. Truncated(d, e, n)
  BY <1>4, <1>7, <1>9, <1>10, <1>11, <1>12, <1>14 DEF Truncated, IsEditor, A
<1> QED
  BY <1>15 DEF d
=============================================================================
