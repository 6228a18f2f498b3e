-------------------------- MODULE LSTEditorProofs --------------------------
(***************************************************************************)
(* The links of the editor, its pool, its ledger and the ids of its nodes  *)
(* stay consistent however rules build, fail, recover and hand fragments   *)
(* to each other, and whatever a caller does between two parses; and so do *)
(* the spans of the tree, which are computed once and repaired in part.    *)
(***************************************************************************)
EXTENDS LSTEditorLemmas, FiniteSetTheorems

(* What the i-th of the activations rs would give up if it failed. *)
OwnedBy(e, rs, i) == After(e, rs[i].at) \cup UNION {rs[j].fragments : j \in i .. Len(rs)}

Activations(e, base) == [at : base .. Len(e.created), fragments : SUBSET DOMAIN e.heap]

(* The ledger, the pool and the fragments hold a node once. *)
Structured(e, rs, base) ==
  /\ IsEditor(e) /\ IsInjective(e.created) /\ IsInjective(e.nodeFree)
  /\ base \in 0 .. Len(e.created)
  /\ rs \in Seq(Activations(e, base))
  /\ \A i, j \in 1 .. Len(rs) : i <= j => rs[i].at <= rs[j].at
  /\ \A i \in 1 .. Len(rs) : \A f \in rs[i].fragments :
        /\ f \notin Range(e.created) \cup Range(e.nodeFree)
        /\ Slotless(e.heap[f])
        /\ \A j \in 1 .. Len(rs) : f \in rs[j].fragments => i = j

Local(e, rs, X) ==
  \A i \in 1 .. Len(rs), n \in X :
     e.heap[n].parent # Nil =>
       (n \in OwnedBy(e, rs, i) <=> e.heap[n].parent \in OwnedBy(e, rs, i))

(* The nodes of X are linked with each other and with no other, hold what  *)
(* is held and none of the pool, and no link leaves an activation.         *)
Keeping(e, rs, X) ==
  /\ TreeIn(e.heap, X)
  /\ Range(e.created) \subseteq X /\ \A i \in 1 .. Len(rs) : rs[i].fragments \subseteq X
  /\ X \cap Range(e.nodeFree) = {}
  /\ Local(e, rs, X)

Sound(e, rs, base, X) == Structured(e, rs, base) /\ Keeping(e, rs, X)

-----------------------------------------------------------------------------
(* Activations. *)

LEMMA ActivationOf ==
  ASSUME NEW e, NEW rs, NEW base, Structured(e, rs, base)
  PROVE  /\ Len(rs) \in Nat /\ DOMAIN rs = 1 .. Len(rs) /\ (rs = <<>> <=> Len(rs) = 0)
         /\ \A i \in 1 .. Len(rs) : /\ rs[i].at \in base .. Len(e.created)
                                    /\ rs[i].fragments \subseteq DOMAIN e.heap
                                    /\ rs[i] = [at |-> rs[i].at, fragments |-> rs[i].fragments]
         /\ Len(e.created) \in Nat /\ base \in 0 .. Len(e.created)
         /\ e.created \in Seq(DOMAIN e.heap) /\ e.nodeFree \in Seq(DOMAIN e.heap)
         /\ DOMAIN e.created = 1 .. Len(e.created)
<1>1. rs \in Seq(Activations(e, base)) /\ base \in 0 .. Len(e.created)
  BY DEF Structured
<1>2. Len(rs) \in Nat /\ DOMAIN rs = 1 .. Len(rs) /\ (rs = <<>> <=> Len(rs) = 0)
  BY <1>1, EmptySeq
<1>3. \A i \in 1 .. Len(rs) : rs[i] \in Activations(e, base)
  BY <1>1, <1>2
<1>4. e.created \in Seq(DOMAIN e.heap) /\ e.nodeFree \in Seq(DOMAIN e.heap)
  BY DEF Structured, IsEditor, Editor
<1>5. DOMAIN e.created = 1 .. Len(e.created) /\ Len(e.created) \in Nat
  BY <1>4
<1> QED
  BY <1>1, <1>2, <1>3, <1>4, <1>5 DEF Activations

(* A sequence of activations, by its elements. *)
LEMMA ActivationsAre ==
  ASSUME NEW e, NEW rs, NEW base, NEW k \in Nat, DOMAIN rs = 1 .. k, rs = [i \in 1 .. k |-> rs[i]],
         \A i \in 1 .. k : rs[i] \in Activations(e, base)
  PROVE  rs \in Seq(Activations(e, base)) /\ Len(rs) = k
<1> HIDE DEF Activations
<1> QED
  BY DEF Seq

(* Inner activations own less. *)
LEMMA OwnedNests ==
  ASSUME NEW e, NEW rs, NEW base, Structured(e, rs, base),
         NEW i \in 1 .. Len(rs), NEW j \in 1 .. Len(rs), i <= j
  PROVE  OwnedBy(e, rs, j) \subseteq OwnedBy(e, rs, i)
<1>1. /\ Len(rs) \in Nat /\ Len(e.created) \in Nat
      /\ rs[i].at \in Nat /\ rs[j].at \in Nat /\ rs[i].at <= rs[j].at
  <2>1. rs[i].at <= rs[j].at
    BY DEF Structured
  <2>2. /\ rs[i].at \in base .. Len(e.created) /\ rs[j].at \in base .. Len(e.created)
        /\ Len(rs) \in Nat /\ Len(e.created) \in Nat /\ base \in 0 .. Len(e.created)
    BY ActivationOf
  <2> QED
    BY <2>1, <2>2
<1>2. After(e, rs[j].at) \subseteq After(e, rs[i].at)
  <2>1. \A k \in rs[j].at + 1 .. Len(e.created) : k \in rs[i].at + 1 .. Len(e.created)
    BY <1>1
  <2> QED
    BY <2>1 DEF After
<1>3. \A k \in j .. Len(rs) : k \in i .. Len(rs)
  BY <1>1
<1> QED
  BY <1>2, <1>3 DEF OwnedBy

(* What an activation may touch belongs to it, and to those around it. *)
LEMMA OwnedInside ==
  ASSUME NEW e, NEW rs, NEW base, NEW X, Sound(e, rs, base, X), NEW i \in 1 .. Len(rs)
  PROVE  /\ OwnedBy(e, rs, i) \subseteq X
         /\ OwnedBy(e, rs, Len(rs)) = rs[Len(rs)].fragments \cup After(e, rs[Len(rs)].at)
<1>1. /\ Len(rs) \in Nat /\ Len(e.created) \in Nat /\ base \in Nat
      /\ rs[i].at \in base .. Len(e.created) /\ DOMAIN e.created = 1 .. Len(e.created)
  <2>1. Structured(e, rs, base)
    BY DEF Sound
  <2>2. /\ Len(rs) \in Nat /\ Len(e.created) \in Nat /\ base \in 0 .. Len(e.created)
        /\ rs[i].at \in base .. Len(e.created) /\ DOMAIN e.created = 1 .. Len(e.created)
    BY <2>1, ActivationOf
  <2> QED
    BY <2>2
<1>2. After(e, rs[i].at) \subseteq X
  <2>1. \A k \in rs[i].at + 1 .. Len(e.created) : k \in DOMAIN e.created
    BY <1>1
  <2>2. Range(e.created) \subseteq X
    BY DEF Sound, Keeping
  <2> QED
    BY <2>1, <2>2 DEF After, Range
<1>3. \A j \in i .. Len(rs) : rs[j].fragments \subseteq X
  BY <1>1 DEF Sound, Keeping
<1>4. Len(rs) .. Len(rs) = {Len(rs)}
  BY <1>1
<1> QED
  BY <1>2, <1>3, <1>4 DEF OwnedBy

-----------------------------------------------------------------------------
(* What keeps an editor sound. *)

(* An edit of nodes that every open activation owns. *)
LEMMA EditKeeps ==
  ASSUME NEW e, NEW rs, NEW base, NEW X, Sound(e, rs, base, X), NEW d, NEW O, NEW S,
         Edited(d, e, X, O, S),
         \A i \in 1 .. Len(rs) : O \subseteq OwnedBy(e, rs, i) /\ rs[i].fragments \cap S = {}
  PROVE  Sound(d, rs, base, X)
<1>1. /\ IsEditor(d) /\ DOMAIN d.heap = DOMAIN e.heap /\ TreeIn(d.heap, X)
      /\ d.created = e.created /\ d.nodeFree = e.nodeFree
      /\ \A n \in DOMAIN e.heap \ S : Slotless(e.heap[n]) => Slotless(d.heap[n])
  BY DEF Edited, SameNodes
<1>2. Structured(e, rs, base) /\ Keeping(e, rs, X)
  BY DEF Sound
<1>3. Activations(d, base) = Activations(e, base)
  BY <1>1 DEF Activations
<1>4. \A i \in 1 .. Len(rs) : OwnedBy(d, rs, i) = OwnedBy(e, rs, i)
  BY <1>1 DEF OwnedBy, After
<1>5. \A i \in 1 .. Len(rs) : rs[i].fragments \subseteq DOMAIN e.heap
  BY <1>2, ActivationOf
<1>6. Structured(d, rs, base)
  <2>1. ASSUME NEW i \in 1 .. Len(rs), NEW f \in rs[i].fragments
        PROVE  Slotless(d.heap[f])
    <3>1. f \in DOMAIN e.heap /\ f \notin S
      BY <1>5
    <3>2. Slotless(e.heap[f])
      BY <1>2 DEF Structured
    <3> QED
      BY <1>1, <3>1, <3>2
  <2> QED
    BY <1>1, <1>2, <1>3, <2>1 DEF Structured
<1>7. Local(d, rs, X)
  <2> SUFFICES ASSUME NEW i \in 1 .. Len(rs), NEW n \in X, d.heap[n].parent # Nil
               PROVE  n \in OwnedBy(e, rs, i) <=> d.heap[n].parent \in OwnedBy(e, rs, i)
    BY <1>4 DEF Local
  <2>1. \/ d.heap[n].parent \in {Nil, e.heap[n].parent}
        \/ n \in O /\ d.heap[n].parent \in O
    BY DEF Edited
  <2>2. CASE n \in O /\ d.heap[n].parent \in O
    BY <2>2
  <2>3. CASE d.heap[n].parent = e.heap[n].parent
    BY <1>2, <2>3 DEF Keeping, Local
  <2> QED
    BY <2>1, <2>2, <2>3
<1>8. Keeping(d, rs, X)
  BY <1>1, <1>2, <1>7 DEF Keeping
<1> QED
  BY <1>6, <1>8 DEF Sound

(* A step that changes no link. *)
LEMMA TopologyKeeps ==
  ASSUME NEW e, NEW rs, NEW base, NEW X, Sound(e, rs, base, X), NEW d,
         IsEditor(d), SameTopology(d, e)
  PROVE  Sound(d, rs, base, X)
<1>1. IsEditor(e) /\ TreeIn(e.heap, X)
  BY DEF Sound, Structured, Keeping
<1>2. /\ DOMAIN d.heap = DOMAIN e.heap /\ d.created = e.created /\ d.nodeFree = e.nodeFree
      /\ \A n \in DOMAIN e.heap : SameLinks(d.heap[n], e.heap[n])
  BY DEF SameTopology, SameNodes
<1>3. TreeIn(d.heap, X)
  BY <1>1, <1>2, TreeOfSameLinks
<1>4. \A n \in DOMAIN e.heap : Slotless(e.heap[n]) => Slotless(d.heap[n])
  BY <1>2 DEF SameLinks, Slotless
<1>5. Structured(e, rs, base) /\ Keeping(e, rs, X)
  BY DEF Sound
<1>6. Activations(d, base) = Activations(e, base)
  BY <1>2 DEF Activations
<1>7. \A i \in 1 .. Len(rs) : OwnedBy(d, rs, i) = OwnedBy(e, rs, i)
  BY <1>2 DEF OwnedBy, After
<1>8. \A i \in 1 .. Len(rs) : rs[i].fragments \subseteq DOMAIN e.heap
  BY <1>5, ActivationOf
<1>9. Structured(d, rs, base)
  BY <1>2, <1>4, <1>5, <1>6, <1>8 DEF Structured
<1>10. \A n \in X : d.heap[n].parent = e.heap[n].parent
  BY <1>1, <1>2 DEF TreeIn, SameLinks
<1>11. Keeping(d, rs, X)
  BY <1>2, <1>3, <1>5, <1>7, <1>10 DEF Keeping, Local
<1> QED
  BY <1>9, <1>11 DEF Sound

(* A node that is linked with none. *)
Bare(node) == node.parent = Nil /\ Below(node) = {} /\ Distinct(node) /\ Slotless(node)

LEMMA NewIsBare ==
  /\ Bare(ZeroNode)
  /\ \A k \in Nat : Bare([ZeroNode EXCEPT !.id = k])
<1>1. ASSUME NEW node, node.parent = Nil, node.children = <<>>, node.slots = [s \in Slots |-> Nil]
      PROVE  Bare(node)
  <2>1. Range(node.children) = {} /\ Len(node.children) = 0
    BY <1>1 DEF Range
  <2>2. Range(node.slots) \subseteq {Nil} /\ \A s \in Slots : node.slots[s] = Nil
    BY <1>1 DEF Range
  <2>3. Below(node) = {}
    BY <2>1, <2>2 DEF Below
  <2>4. Distinct(node)
    BY <2>1, <2>2 DEF Distinct
  <2> QED
    BY <1>1, <2>2, <2>3, <2>4 DEF Bare, Slotless
<1>2. ASSUME NEW k \in Nat
      PROVE  Bare([ZeroNode EXCEPT !.id = k])
  <2> DEFINE node == [ZeroNode EXCEPT !.id = k]
  <2>1. node.parent = Nil /\ node.children = <<>> /\ node.slots = [s \in Slots |-> Nil]
    BY DEF ZeroNode
  <2> HIDE DEF node
  <2>2. Bare(node)
    BY <1>1, <2>1
  <2> QED
    BY <2>2 DEF node
<1>3. ZeroNode.parent = Nil /\ ZeroNode.children = <<>> /\ ZeroNode.slots = [s \in Slots |-> Nil]
  BY DEF ZeroNode
<1>4. Bare(ZeroNode)
  BY <1>1, <1>3
<1> QED
  BY <1>2, <1>4

LEMMA TreeGrows ==
  ASSUME NEW g, NEW h, NEW X, TreeIn(h, X), Nil \notin DOMAIN g, NEW n \in DOMAIN g, n \notin X,
         X \subseteq DOMAIN g, \A m \in X : g[m] = h[m], Bare(g[n])
  PROVE  TreeIn(g, X \cup {n})
<1>1. Nil \notin X /\ n # Nil
  OBVIOUS
<1>2. \A m \in X \cup {n} : g[m].parent \in X \cup {Nil}
  BY DEF TreeIn, Bare
<1>3. \A p \in X \cup {n} : Below(g[p]) \subseteq X /\ Distinct(g[p])
  BY DEF TreeIn, Bare
<1>4. \A p, m \in X \cup {n} : m \in Below(g[p]) <=> g[m].parent = p
  <2> SUFFICES ASSUME NEW p \in X \cup {n}, NEW m \in X \cup {n}
               PROVE  m \in Below(g[p]) <=> g[m].parent = p
    OBVIOUS
  <2>1. CASE p = n
    BY <1>1, <1>2, <2>1 DEF Bare
  <2>2. CASE p \in X /\ m = n
    BY <1>1, <1>3, <2>2 DEF Bare
  <2>3. CASE p \in X /\ m \in X
    BY <2>3 DEF TreeIn
  <2> QED
    BY <2>1, <2>2, <2>3
<1> QED
  BY <1>2, <1>3, <1>4 DEF TreeIn

(* A new node of the ledger. *)
LEMMA CreateKeeps ==
  ASSUME NEW e, NEW rs, NEW base, NEW X, Sound(e, rs, base, X), NEW d, NEW n, Created(d, e, n)
  PROVE  Sound(d, rs, base, X \cup {n})
<1>1. Structured(e, rs, base) /\ Keeping(e, rs, X)
  BY DEF Sound
<1>2. /\ IsEditor(d) /\ n \in DOMAIN d.heap /\ DOMAIN e.heap \subseteq DOMAIN d.heap
      /\ d.created = Append(e.created, n)
      /\ \A m \in DOMAIN e.heap \ {n} : d.heap[m] = e.heap[m]
      /\ n \in DOMAIN e.heap => n \in Range(e.nodeFree)
      /\ IsInjective(d.nodeFree) /\ n \notin Range(d.nodeFree)
      /\ Range(d.nodeFree) \cap DOMAIN e.heap \subseteq Range(e.nodeFree)
  BY DEF Created
<1>3. X \subseteq DOMAIN e.heap /\ X \cap Range(e.nodeFree) = {} /\ Range(e.created) \subseteq X
  BY <1>1 DEF Keeping, TreeIn
<1>4. n \notin X /\ \A m \in X : d.heap[m] = e.heap[m]
  BY <1>2, <1>3
<1>5. Bare(d.heap[n])
  <2>1. d.heap[n] = [ZeroNode EXCEPT !.id = e.nextID + 1] /\ e.nextID \in Nat
    BY <1>1 DEF Created, Structured, IsEditor, Editor
  <2>2. e.nextID + 1 \in Nat
    BY <2>1
  <2> QED
    BY <2>1, <2>2, NewIsBare
<1>6. TreeIn(d.heap, X \cup {n})
  <2>1. TreeIn(e.heap, X) /\ Nil \notin DOMAIN d.heap /\ X \subseteq DOMAIN d.heap
    BY <1>1, <1>2, <1>3, HeapOf DEF Keeping
  <2> QED
    BY <1>2, <1>4, <1>5, <2>1, TreeGrows
<1>7. /\ Len(d.created) = Len(e.created) + 1 /\ d.created[Len(e.created) + 1] = n
      /\ \A i \in 1 .. Len(e.created) : d.created[i] = e.created[i]
      /\ DOMAIN d.created = 1 .. Len(e.created) + 1
      /\ DOMAIN e.created = 1 .. Len(e.created) /\ Len(e.created) \in Nat
  <2>1. /\ e.created \in Seq(DOMAIN e.heap) /\ Len(e.created) \in Nat
        /\ DOMAIN e.created = 1 .. Len(e.created)
    BY <1>1, ActivationOf
  <2>2. e.created \in Seq(DOMAIN d.heap)
    BY <1>2, <2>1, SeqMonotonic
  <2> QED
    BY <1>2, <2>1, <2>2, AppendProperties
<1>8. Range(d.created) = Range(e.created) \cup {n} /\ IsInjective(d.created)
  <2>1. \A i \in 1 .. Len(e.created) : e.created[i] # n
    BY <1>3, <1>4, <1>7 DEF Range
  <2>2. \A i \in 1 .. Len(e.created) + 1 : i \in 1 .. Len(e.created) \/ i = Len(e.created) + 1
    BY <1>7
  <2>3. Len(e.created) + 1 \in 1 .. Len(e.created) + 1
    BY <1>7
  <2>4. \A i \in 1 .. Len(e.created) : i \in 1 .. Len(e.created) + 1
    BY <1>7
  <2>5. \A i, j \in 1 .. Len(e.created) : e.created[i] = e.created[j] => i = j
    BY <1>1, <1>7 DEF Structured, IsInjective
  <2>6. IsInjective(d.created)
    BY <1>7, <2>1, <2>2, <2>5 DEF IsInjective
  <2>7. Range(d.created) = Range(e.created) \cup {n}
    BY <1>7, <2>2, <2>3, <2>4 DEF Range
  <2> QED
    BY <2>6, <2>7
<1>9. \A k \in 0 .. Len(e.created) : After(d, k) = After(e, k) \cup {n}
  <2> TAKE k \in 0 .. Len(e.created)
  <2>1. \A i \in k + 1 .. Len(e.created) : i \in 1 .. Len(e.created)
    BY <1>7
  <2>2. \A i : i \in k + 1 .. Len(e.created) + 1
                 <=> i \in k + 1 .. Len(e.created) \/ i = Len(e.created) + 1
    BY <1>7
  <2> QED
    BY <1>7, <2>1, <2>2 DEF After
<1>10. /\ Len(rs) \in Nat /\ DOMAIN rs = 1 .. Len(rs)
       /\ \A i \in 1 .. Len(rs) : /\ rs[i].at \in base .. Len(e.created)
                                  /\ rs[i].fragments \subseteq DOMAIN e.heap
       /\ base \in 0 .. Len(e.created) /\ rs \in Seq(Activations(e, base))
  BY <1>1, ActivationOf DEF Structured
<1>11. \A i \in 1 .. Len(rs) : OwnedBy(d, rs, i) = OwnedBy(e, rs, i) \cup {n}
  <2>1. \A i \in 1 .. Len(rs) : rs[i].at \in 0 .. Len(e.created)
    BY <1>7, <1>10
  <2> QED
    BY <1>9, <2>1 DEF OwnedBy
<1>12. Structured(d, rs, base)
  <2>1. base \in 0 .. Len(d.created)
    BY <1>7, <1>10
  <2>2. Activations(e, base) \subseteq Activations(d, base)
    <3>1. base .. Len(e.created) \subseteq base .. Len(d.created)
      BY <1>7, <1>10
    <3> QED
      BY <1>2, <3>1 DEF Activations
  <2>3. rs \in Seq(Activations(d, base))
    BY <1>10, <2>2, SeqMonotonic
  <2>4. ASSUME NEW i \in 1 .. Len(rs), NEW f \in rs[i].fragments
        PROVE  /\ f \notin Range(d.created) \cup Range(d.nodeFree)
               /\ Slotless(d.heap[f])
    <3>1. f \in X /\ f \notin Range(e.created) \cup Range(e.nodeFree) /\ Slotless(e.heap[f])
      BY <1>1 DEF Structured, Keeping
    <3> QED
      BY <1>2, <1>3, <1>4, <1>8, <3>1
  <2>5. \A i, j \in 1 .. Len(rs) : i <= j => rs[i].at <= rs[j].at
    BY <1>1 DEF Structured
  <2>6. \A i \in 1 .. Len(rs) : \A f \in rs[i].fragments :
           \A j \in 1 .. Len(rs) : f \in rs[j].fragments => i = j
    BY <1>1 DEF Structured
  <2> QED
    BY <1>2, <1>8, <2>1, <2>3, <2>4, <2>5, <2>6 DEF Structured
<1>13. Local(d, rs, X \cup {n})
  <2> SUFFICES ASSUME NEW i \in 1 .. Len(rs), NEW m \in X \cup {n}, d.heap[m].parent # Nil
               PROVE  m \in OwnedBy(d, rs, i) <=> d.heap[m].parent \in OwnedBy(d, rs, i)
    BY DEF Local
  <2>1. m \in X /\ d.heap[m] = e.heap[m]
    BY <1>4, <1>5 DEF Bare
  <2>2. e.heap[m].parent \in X
    BY <1>1, <2>1 DEF Keeping, TreeIn
  <2>3. m \in OwnedBy(e, rs, i) <=> e.heap[m].parent \in OwnedBy(e, rs, i)
    BY <1>1, <2>1 DEF Keeping, Local
  <2> QED
    BY <1>4, <1>11, <2>1, <2>2, <2>3
<1>14. Keeping(d, rs, X \cup {n})
  <2>1. \A i \in 1 .. Len(rs) : rs[i].fragments \subseteq X
    BY <1>1 DEF Keeping
  <2>2. (X \cup {n}) \cap Range(d.nodeFree) = {}
    BY <1>2, <1>3
  <2> QED
    BY <1>3, <1>6, <1>8, <1>13, <2>1, <2>2 DEF Keeping
<1> QED
  BY <1>12, <1>14 DEF Sound

(* A failed activation gives up what it owns. *)
LEMMA RollbackKeeps ==
  ASSUME NEW e, NEW rs, NEW base, NEW X, Sound(e, rs, base, X), rs # <<>>,
         NEW d, Truncated(d, e, rs[Len(rs)].at)
  PROVE  Sound(d, Front(rs), base, X \ OwnedBy(e, rs, Len(rs)))
<1> DEFINE k == Len(rs)
           n == rs[k].at
           U == OwnedBy(e, rs, k)
           Y == X \ U
           fs == Front(rs)
<1>1. Structured(e, rs, base) /\ Keeping(e, rs, X)
  BY DEF Sound
<1>2. /\ k \in Nat /\ k # 0 /\ k \in 1 .. k /\ DOMAIN rs = 1 .. k
      /\ Len(e.created) \in Nat /\ base \in 0 .. Len(e.created)
      /\ DOMAIN e.created = 1 .. Len(e.created) /\ e.created \in Seq(DOMAIN e.heap)
  <2>1. /\ k \in Nat /\ DOMAIN rs = 1 .. k /\ (rs = <<>> <=> k = 0)
        /\ Len(e.created) \in Nat /\ base \in 0 .. Len(e.created)
        /\ DOMAIN e.created = 1 .. Len(e.created) /\ e.created \in Seq(DOMAIN e.heap)
    BY <1>1, ActivationOf
  <2> QED
    BY <2>1
<1>3. \A i \in 1 .. k : /\ rs[i].at \in base .. Len(e.created)
                        /\ rs[i].fragments \subseteq DOMAIN e.heap
                        /\ rs[i] = [at |-> rs[i].at, fragments |-> rs[i].fragments]
  BY <1>1, ActivationOf
<1>4. n \in base .. Len(e.created) /\ n \in 0 .. Len(e.created) /\ base \in 0 .. n
  <2>1. n \in base .. Len(e.created)
    BY <1>2, <1>3
  <2> HIDE DEF n, k
  <2> QED
    BY <1>2, <2>1
<1>5. fs \in Seq(Activations(e, base)) /\ Len(fs) = k - 1 /\ \A i \in 1 .. k - 1 : fs[i] = rs[i]
  <2>1. rs \in Seq(Activations(e, base))
    BY <1>1 DEF Structured
  <2> QED
    BY <2>1, FrontOf
<1>6. \A i \in 1 .. k - 1 : i \in 1 .. k /\ i <= k /\ i # k
  <2>1. k \in Nat
    BY <1>2
  <2> HIDE DEF k
  <2> QED
    BY <2>1
<1>7. U = rs[k].fragments \cup After(e, n) /\ U \subseteq X
  BY <1>2, OwnedInside
<1>8. /\ IsEditor(d) /\ DOMAIN d.heap = DOMAIN e.heap /\ IsInjective(d.nodeFree)
      /\ Len(d.created) = n /\ \A i \in 1 .. n : d.created[i] = e.created[i]
      /\ \A m \in DOMAIN e.heap \ After(e, n) : d.heap[m] = e.heap[m]
      /\ Range(d.nodeFree) = Range(e.nodeFree) \cup After(e, n)
  BY DEF Truncated
<1> HIDE DEF k, n, U, fs
<1>9. DOMAIN d.created = 1 .. n /\ \A i \in 1 .. n : i \in 1 .. Len(e.created)
  <2>1. d.created \in Seq(DOMAIN d.heap)
    BY <1>8 DEF IsEditor, Editor
  <2> QED
    BY <1>2, <1>4, <1>8, <2>1
<1>10. IsInjective(d.created)
  BY <1>1, <1>2, <1>8, <1>9 DEF Structured, IsInjective
<1>11. Range(d.created) \subseteq Range(e.created) \ U
  <2> SUFFICES ASSUME NEW i \in 1 .. n
               PROVE  e.created[i] \in Range(e.created) \ U
    BY <1>8, <1>9 DEF Range
  <2>1. i \in 1 .. Len(e.created) /\ e.created[i] \in Range(e.created)
    BY <1>2, <1>9 DEF Range
  <2>2. e.created[i] \notin rs[k].fragments
    BY <1>1, <1>2, <2>1 DEF Structured, k
  <2>3. e.created[i] \notin After(e, n)
    <3> SUFFICES ASSUME NEW j \in n + 1 .. Len(e.created), e.created[j] = e.created[i]
                 PROVE  FALSE
      BY DEF After
    <3>1. j \in 1 .. Len(e.created) /\ j # i
      BY <1>2, <1>4
    <3> QED
      BY <1>1, <1>2, <2>1, <3>1 DEF Structured, IsInjective
  <2> QED
    BY <1>7, <2>1, <2>2, <2>3
<1>12. \A i \in 1 .. k - 1 : fs[i].fragments \cap U = {}
  <2> SUFFICES ASSUME NEW i \in 1 .. k - 1, NEW f \in rs[i].fragments, f \in U
               PROVE  FALSE
    BY <1>5
  <2>1. i \in 1 .. k /\ i # k /\ k \in 1 .. k
    BY <1>2, <1>6
  <2>2. f \notin Range(e.created) /\ (f \in rs[k].fragments => i = k)
    BY <1>1, <2>1 DEF Structured, k
  <2>3. After(e, n) \subseteq Range(e.created)
    <3>1. \A j \in n + 1 .. Len(e.created) : j \in 1 .. Len(e.created)
      BY <1>2, <1>4
    <3> QED
      BY <1>2, <3>1 DEF After, Range
  <2> QED
    BY <1>7, <2>1, <2>2, <2>3
<1>13. \A m \in Y : m \in X /\ m \notin U /\ d.heap[m] = e.heap[m]
  BY <1>1, <1>7, <1>8 DEF Keeping, TreeIn
<1>14. \A m \in X : e.heap[m].parent # Nil => (m \in U <=> e.heap[m].parent \in U)
  BY <1>1, <1>2 DEF Keeping, Local, U, k
<1>15. TreeIn(d.heap, Y)
  <2>1. TreeIn(e.heap, X)
    BY <1>1 DEF Keeping
  <2>2. \A m \in Y : d.heap[m].parent \in Y \cup {Nil}
    BY <1>13, <1>14, <2>1 DEF TreeIn
  <2>3. \A p \in Y : Below(d.heap[p]) \subseteq Y /\ Distinct(d.heap[p])
    <3> SUFFICES ASSUME NEW p \in Y
                 PROVE  Below(e.heap[p]) \subseteq Y /\ Distinct(e.heap[p])
      BY <1>13
    <3>1. p \in X /\ p \notin U /\ p # Nil
      BY <1>1, <1>13, <2>1, HeapOf DEF TreeIn, Structured
    <3>2. \A c \in Below(e.heap[p]) : c \in X /\ e.heap[c].parent = p
      BY <2>1, <3>1 DEF TreeIn
    <3>3. \A c \in Below(e.heap[p]) : c \in Y
      BY <1>14, <3>1, <3>2
    <3> QED
      BY <2>1, <3>1, <3>3 DEF TreeIn
  <2>4. \A p, m \in Y : m \in Below(d.heap[p]) <=> d.heap[m].parent = p
    BY <1>13, <2>1 DEF TreeIn
  <2>5. Y \subseteq DOMAIN d.heap
    BY <1>8, <2>1 DEF TreeIn
  <2> HIDE DEF Y
  <2> QED
    BY <2>2, <2>3, <2>4, <2>5 DEF TreeIn
<1>16. \A i \in 1 .. k - 1, m \in Y : m \in OwnedBy(d, fs, i) <=> m \in OwnedBy(e, rs, i)
  <2> SUFFICES ASSUME NEW i \in 1 .. k - 1, NEW m \in Y
               PROVE  m \in OwnedBy(d, fs, i) <=> m \in OwnedBy(e, rs, i)
    OBVIOUS
  <2>1. m \notin U /\ i \in 1 .. k /\ fs[i] = rs[i] /\ rs[i].at \in 0 .. Len(e.created) /\ rs[i].at <= n
    <3>1. i \in 1 .. k /\ i <= k /\ k \in 1 .. k
      BY <1>2, <1>6
    <3>2. rs[i].at <= n
      BY <1>1, <3>1 DEF Structured, n, k
    <3> QED
      BY <1>2, <1>3, <1>5, <3>1, <3>2
  <2>2. m \in After(d, rs[i].at) <=> m \in After(e, rs[i].at)
    <3>1. \A j \in rs[i].at + 1 .. n : j \in 1 .. n /\ j \in rs[i].at + 1 .. Len(e.created)
      BY <1>2, <1>4, <2>1
    <3>2. \A j \in rs[i].at + 1 .. Len(e.created) : j \in rs[i].at + 1 .. n \/ j \in n + 1 .. Len(e.created)
      BY <1>2, <1>4, <2>1
    <3>3. m \notin After(e, n)
      BY <1>7, <2>1
    <3> QED
      BY <1>8, <3>1, <3>2, <3>3, ZenonT(60) DEF After
  <2>3. m \in UNION {fs[j].fragments : j \in i .. Len(fs)}
          <=> m \in UNION {rs[j].fragments : j \in i .. Len(rs)}
    <3>1. \A j \in i .. k - 1 : j \in 1 .. k - 1 /\ j \in i .. k
      BY <1>2
    <3>2. \A j \in i .. k : j \in i .. k - 1 \/ j = k
      BY <1>2
    <3>3. m \notin rs[k].fragments
      BY <1>7, <2>1
    <3>4. \A j \in i .. k - 1 : fs[j] = rs[j]
      BY <1>5, <3>1
    <3>5. Len(fs) = k - 1 /\ Len(rs) = k
      BY <1>5 DEF k
    <3> QED
      BY <3>1, <3>2, <3>3, <3>4, <3>5
  <2> QED
    BY <2>1, <2>2, <2>3 DEF OwnedBy
<1>17. Structured(d, fs, base)
  <2>1. \A i \in 1 .. k - 1 : fs[i] \in Activations(d, base)
    <3> TAKE i \in 1 .. k - 1
    <3>1. i \in 1 .. k /\ i <= k /\ k \in 1 .. k
      BY <1>2, <1>6
    <3>2. rs[i].at <= n
      BY <1>1, <3>1 DEF Structured, n, k
    <3>3. rs[i].at \in base .. n
      BY <1>2, <1>3, <1>4, <3>1, <3>2
    <3>4. rs[i] \in [at : base .. n, fragments : SUBSET DOMAIN e.heap]
      <4> DEFINE first == rs[i].at
                 frags == rs[i].fragments
      <4>1. rs[i] = [at |-> first, fragments |-> frags] /\ frags \in SUBSET DOMAIN e.heap
        BY <1>3, <3>1
      <4>2. first \in base .. n
        BY <3>3
      <4> HIDE DEF first, frags
      <4> QED
        BY <4>1, <4>2
    <3> QED
      BY <1>5, <1>8, <3>4 DEF Activations
  <2>2. fs \in Seq(Activations(d, base))
    <3>1. k - 1 \in Nat
      BY <1>2
    <3>2. DOMAIN fs = 1 .. k - 1 /\ fs = [i \in 1 .. k - 1 |-> fs[i]]
      BY <1>5
    <3> QED
      BY <2>1, <3>1, <3>2, ActivationsAre
  <2>3. \A i, j \in 1 .. k - 1 : i <= j => fs[i].at <= fs[j].at
    BY <1>1, <1>5, <1>6 DEF Structured, k
  <2>4. ASSUME NEW i \in 1 .. k - 1, NEW f \in fs[i].fragments
        PROVE  /\ f \notin Range(d.created) \cup Range(d.nodeFree)
               /\ Slotless(d.heap[f])
               /\ \A j \in 1 .. k - 1 : f \in fs[j].fragments => i = j
    <3>1. i \in 1 .. k /\ f \in rs[i].fragments /\ f \notin U
      BY <1>5, <1>6, <1>12
    <3>2. /\ f \notin Range(e.created) \cup Range(e.nodeFree)
          /\ Slotless(e.heap[f])
          /\ \A j \in 1 .. k : f \in rs[j].fragments => i = j
      BY <1>1, <3>1 DEF Structured, k
    <3>3. f \in Y
      BY <1>1, <3>1 DEF Keeping, k
    <3>4. \A j \in 1 .. k - 1 : f \in fs[j].fragments => i = j
      BY <1>5, <1>6, <3>2
    <3> QED
      BY <1>7, <1>8, <1>11, <1>13, <3>1, <3>2, <3>3, <3>4
  <2>5. base \in 0 .. Len(d.created) /\ Len(fs) = k - 1
    BY <1>4, <1>5, <1>8
  <2> QED
    BY <1>8, <1>10, <2>2, <2>3, <2>4, <2>5 DEF Structured
<1>18. Local(d, fs, Y)
  <2> SUFFICES ASSUME NEW i \in 1 .. k - 1, NEW m \in Y, d.heap[m].parent # Nil
               PROVE  m \in OwnedBy(d, fs, i) <=> d.heap[m].parent \in OwnedBy(d, fs, i)
    BY <1>5 DEF Local
  <2>1. d.heap[m].parent \in Y /\ d.heap[m].parent = e.heap[m].parent /\ m \in X
    BY <1>13, <1>15 DEF TreeIn
  <2>2. m \in OwnedBy(e, rs, i) <=> e.heap[m].parent \in OwnedBy(e, rs, i)
    BY <1>1, <1>6, <2>1 DEF Keeping, Local, k
  <2> QED
    BY <1>16, <2>1, <2>2
<1>19. Keeping(d, fs, Y)
  <2>1. \A i \in 1 .. k - 1 : fs[i].fragments \subseteq Y
    <3>1. \A i \in 1 .. k - 1 : fs[i].fragments \subseteq X
      BY <1>1, <1>5, <1>6 DEF Keeping, k
    <3> QED
      BY <1>12, <3>1
  <2>2. Range(d.created) \subseteq Y
    BY <1>1, <1>11 DEF Keeping
  <2>3. Y \cap Range(d.nodeFree) = {}
    BY <1>1, <1>7, <1>8 DEF Keeping
  <2> QED
    BY <1>5, <1>15, <1>18, <2>1, <2>2, <2>3 DEF Keeping
<1> QED
  BY <1>17, <1>19 DEF Sound, fs, U, k

(* A new activation owns nothing yet. *)
LEMMA EnterKeeps ==
  ASSUME NEW e, NEW rs, NEW base, NEW X, Sound(e, rs, base, X)
  PROVE  Sound(e, Append(rs, Activation(e)), base, X)
<1> DEFINE k == Len(rs)
           new == Activation(e)
           as == Append(rs, new)
<1>1. Structured(e, rs, base) /\ Keeping(e, rs, X)
  BY DEF Sound
<1>2. /\ k \in Nat /\ DOMAIN rs = 1 .. k
      /\ Len(e.created) \in Nat /\ base \in 0 .. Len(e.created)
      /\ \A i \in 1 .. k : rs[i].at \in base .. Len(e.created)
  BY <1>1, ActivationOf
<1>3. /\ Len(e.created) \in base .. Len(e.created)
      /\ \A x \in base .. Len(e.created) : x <= Len(e.created)
  <2>1. Len(e.created) \in Nat /\ base \in 0 .. Len(e.created)
    BY <1>2
  <2> QED
    BY <2>1
<1>4. new.at = Len(e.created) /\ new.fragments = {} /\ new \in Activations(e, base)
  <2>1. Len(e.created) \in base .. Len(e.created)
    BY <1>3
  <2> QED
    BY <2>1 DEF Activation, Activations
<1>5. /\ as \in Seq(Activations(e, base)) /\ Len(as) = k + 1 /\ as[k + 1] = new
      /\ \A i \in 1 .. k : as[i] = rs[i]
  <2>1. rs \in Seq(Activations(e, base))
    BY <1>1 DEF Structured
  <2> HIDE DEF new
  <2> QED
    BY <1>4, <2>1, AppendProperties
<1> HIDE DEF k, new, as
<1>6. \A i : i \in 1 .. k + 1 <=> i \in 1 .. k \/ i = k + 1
  BY <1>2
<1>7. \A i \in 1 .. k + 1 : as[i].fragments = IF i = k + 1 THEN {} ELSE rs[i].fragments
  BY <1>4, <1>5, <1>6
<1>8. \A i \in 1 .. k : OwnedBy(e, as, i) = OwnedBy(e, rs, i)
  <2> TAKE i \in 1 .. k
  <2>1. \A j : j \in i .. k + 1 <=> j \in i .. k \/ j = k + 1
    BY <1>2
  <2>2. \A j \in i .. k : j \in 1 .. k
    BY <1>2
  <2>3. as[i] = rs[i] /\ Len(as) = k + 1 /\ Len(rs) = k
    BY <1>5 DEF k
  <2>4. UNION {as[j].fragments : j \in i .. k + 1} = UNION {rs[j].fragments : j \in i .. k}
    BY <1>4, <1>5, <2>1, <2>2
  <2> QED
    BY <2>3, <2>4 DEF OwnedBy
<1>9. OwnedBy(e, as, k + 1) = {}
  <2>1. Len(e.created) + 1 .. Len(e.created) = {} /\ k + 1 .. k + 1 = {k + 1}
    BY <1>2
  <2> QED
    BY <1>4, <1>5, <2>1, ZenonT(60) DEF OwnedBy, After
<1>10. Structured(e, as, base)
  <2>1. \A i, j \in 1 .. k + 1 : i <= j => as[i].at <= as[j].at
    <3> SUFFICES ASSUME NEW i \in 1 .. k + 1, NEW j \in 1 .. k + 1, i <= j
                 PROVE  as[i].at <= as[j].at
      OBVIOUS
    <3>1. CASE j \in 1 .. k
      <4>1. i \in 1 .. k
        BY <1>2, <1>6, <3>1
      <4> QED
        BY <1>1, <1>5, <3>1, <4>1 DEF Structured, k
    <3>2. CASE j = k + 1
      <4>1. as[j].at = Len(e.created)
        BY <1>4, <1>5, <3>2
      <4>2. as[i].at \in base .. Len(e.created)
        <5>1. CASE i \in 1 .. k
          BY <1>2, <1>5, <5>1
        <5>2. CASE i = k + 1
          <6>1. as[i].at = Len(e.created)
            BY <1>4, <1>5, <5>2
          <6> QED
            BY <1>3, <6>1
        <5> QED
          BY <1>6, <5>1, <5>2
      <4>3. as[i].at <= Len(e.created)
        BY <1>3, <4>2
      <4> QED
        BY <4>1, <4>3
    <3> QED
      BY <1>6, <3>1, <3>2
  <2>2. ASSUME NEW i \in 1 .. k + 1, NEW f \in as[i].fragments
        PROVE  /\ f \notin Range(e.created) \cup Range(e.nodeFree)
               /\ Slotless(e.heap[f])
               /\ \A j \in 1 .. k + 1 : f \in as[j].fragments => i = j
    <3>1. i \in 1 .. k /\ f \in rs[i].fragments
      BY <1>6, <1>7
    <3>2. /\ f \notin Range(e.created) \cup Range(e.nodeFree)
          /\ Slotless(e.heap[f])
          /\ \A j \in 1 .. k : f \in rs[j].fragments => i = j
      BY <1>1, <3>1 DEF Structured, k
    <3> QED
      BY <1>6, <1>7, <3>2
  <2> QED
    BY <1>1, <1>5, <2>1, <2>2 DEF Structured
<1>11. Local(e, as, X)
  BY <1>1, <1>5, <1>6, <1>8, <1>9 DEF Keeping, Local, k
<1>12. Keeping(e, as, X)
  <2>1. \A i \in 1 .. k + 1 : as[i].fragments \subseteq X
    BY <1>1, <1>6, <1>7 DEF Keeping, k
  <2> QED
    BY <1>1, <1>5, <1>11, <2>1 DEF Keeping
<1> QED
  BY <1>10, <1>12 DEF Sound, as, new

(* All activations may end at once, and a session may begin. *)
LEMMA DropKeeps ==
  ASSUME NEW e, NEW rs, NEW base, NEW X, Sound(e, rs, base, X), NEW b \in 0 .. Len(e.created)
  PROVE  Sound(e, <<>>, b, X)
<1>1. Structured(e, rs, base) /\ Keeping(e, rs, X)
  BY DEF Sound
<1>2. <<>> \in Seq(Activations(e, b)) /\ 1 .. Len(<<>>) = {}
  <2>1. <<>> \in Seq(Activations(e, b))
    BY EmptySeq
  <2> QED
    BY <2>1
<1>3. Structured(e, <<>>, b)
  BY <1>1, <1>2 DEF Structured
<1>4. Keeping(e, <<>>, X)
  BY <1>1, <1>2 DEF Keeping, Local
<1> QED
  BY <1>3, <1>4 DEF Sound

(* The activations rs with the fragments of the i-th replaced by F. *)
Regiven(rs, i, F) == [rs EXCEPT ![i].fragments = F]

AreGiven(as, rs, i, F, S) ==
  /\ as \in Seq(S) /\ Len(as) = Len(rs)
  /\ \A j \in 1 .. Len(rs) : /\ as[j].at = rs[j].at
                             /\ as[j].fragments = IF j = i THEN F ELSE rs[j].fragments

LEMMA RegivenIs ==
  ASSUME NEW e, NEW base, NEW rs \in Seq(Activations(e, base)), NEW i \in 1 .. Len(rs),
         NEW d, NEW F \in SUBSET DOMAIN d.heap, DOMAIN e.heap \subseteq DOMAIN d.heap,
         Len(d.created) = Len(e.created)
  PROVE  AreGiven(Regiven(rs, i, F), rs, i, F, Activations(d, base))
<1> DEFINE k == Len(rs)
           as == Regiven(rs, i, F)
<1>1. k \in Nat /\ DOMAIN rs = 1 .. k /\ \A j \in 1 .. k : rs[j] \in Activations(e, base)
  OBVIOUS
<1> HIDE DEF k
<1>2. DOMAIN as = 1 .. k /\ i \in 1 .. k
  BY <1>1 DEF Regiven, k
<1>3. \A j \in 1 .. k : as[j] = IF j = i THEN [rs[i] EXCEPT !.fragments = F] ELSE rs[j]
  BY <1>1, <1>2 DEF Regiven
<1>4. as = [j \in 1 .. k |-> as[j]]
  BY <1>1, <1>2 DEF Regiven
<1> HIDE DEF as
<1>5. \A j \in 1 .. k : /\ as[j] \in Activations(d, base)
                        /\ as[j].at = rs[j].at
                        /\ as[j].fragments = IF j = i THEN F ELSE rs[j].fragments
  BY <1>1, <1>3, ZenonT(60) DEF Activations
<1>6. as \in Seq(Activations(d, base)) /\ Len(as) = k
  <2>1. \A j \in 1 .. k : as[j] \in Activations(d, base)
    BY <1>5
  <2> QED
    BY <1>1, <1>2, <1>4, <2>1, ActivationsAre
<1> QED
  BY <1>5, <1>6 DEF as, k, AreGiven

(* The fragments of an activation that succeeds go to the one around it,   *)
(* which owned them before.                                                *)
LEMMA SucceedKeeps ==
  ASSUME NEW e, NEW rs, NEW base, NEW X, Sound(e, rs, base, X), Len(rs) > 1
  PROVE  LET k == Len(rs)
         IN  Sound(e, Regiven(Front(rs), k - 1, rs[k - 1].fragments \cup rs[k].fragments), base, X)
<1> DEFINE k == Len(rs)
           fs == Front(rs)
           l == k - 1
           F == rs[l].fragments \cup rs[k].fragments
           as == Regiven(fs, l, F)
<1>1. Structured(e, rs, base) /\ Keeping(e, rs, X)
  BY DEF Sound
<1>2. k \in Nat /\ l \in Nat /\ l # 0 /\ k = l + 1 /\ l \in 1 .. l /\ k \in 1 .. k /\ k \notin 1 .. l
  <2>1. k \in Nat /\ k > 1
    BY <1>1, ActivationOf
  <2> HIDE DEF k
  <2> QED
    BY <2>1
<1>3. \A i \in 1 .. l : i \in 1 .. k
  <2>1. k \in Nat /\ l \in Nat /\ k = l + 1
    BY <1>2
  <2> HIDE DEF k, l
  <2> QED
    BY <2>1
<1>4. rs[l].fragments \subseteq DOMAIN e.heap /\ rs[k].fragments \subseteq DOMAIN e.heap
  BY <1>1, <1>2, <1>3, ActivationOf
<1>5. fs \in Seq(Activations(e, base)) /\ Len(fs) = l /\ \A i \in 1 .. l : fs[i] = rs[i]
  <2>1. rs \in Seq(Activations(e, base)) /\ rs # <<>>
    <3>1. rs \in Seq(Activations(e, base))
      BY <1>1 DEF Structured
    <3>2. rs # <<>>
      <4>1. rs = <<>> <=> k = 0
        BY <1>1, ActivationOf
      <4> QED
        BY <1>2, <4>1
    <3> QED
      BY <3>1, <3>2
  <2> QED
    BY <2>1, FrontOf
<1> HIDE DEF k, l, fs
<1>6. /\ as \in Seq(Activations(e, base)) /\ Len(as) = l
      /\ \A j \in 1 .. l : /\ as[j].at = rs[j].at
                           /\ as[j].fragments = IF j = l THEN F ELSE rs[j].fragments
  <2>1. F \in SUBSET DOMAIN e.heap
    BY <1>4
  <2>2. AreGiven(as, fs, l, F, Activations(e, base))
    <3> HIDE DEF F
    <3>1. l \in 1 .. Len(fs)
      BY <1>2, <1>5
    <3> QED
      BY <1>5, <2>1, <3>1, RegivenIs
  <2> HIDE DEF F, as
  <2> QED
    BY <1>5, <2>2 DEF AreGiven
<1> HIDE DEF as
<1>7. \A i \in 1 .. l : OwnedBy(e, as, i) = OwnedBy(e, rs, i)
  <2> TAKE i \in 1 .. l
  <2>1. \A j : j \in i .. k <=> j \in i .. l \/ j = k
    BY <1>2
  <2>2. \A j \in i .. l : j \in 1 .. l
    BY <1>2
  <2>3. l \in i .. l
    BY <1>2
  <2>4. UNION {as[j].fragments : j \in i .. l} = UNION {rs[j].fragments : j \in i .. k}
    <3>1. \A j \in i .. l : j # l => as[j].fragments = rs[j].fragments
      BY <1>6, <2>2
    <3>2. as[l].fragments = rs[l].fragments \cup rs[k].fragments
      BY <1>2, <1>6
    <3>3. k \in i .. k
      BY <2>1
    <3>4. ASSUME NEW x
          PROVE  (\E j \in i .. l : x \in as[j].fragments) <=> \E j \in i .. k : x \in rs[j].fragments
      BY <2>1, <2>3, <3>1, <3>2, <3>3
    <3> QED
      BY <3>4
  <2>5. Len(as) = l /\ Len(rs) = k /\ as[i].at = rs[i].at
    BY <1>6 DEF k
  <2> QED
    BY <2>4, <2>5 DEF OwnedBy
<1>8. Structured(e, as, base)
  <2>1. \A i, j \in 1 .. l : i <= j => as[i].at <= as[j].at
    BY <1>1, <1>3, <1>6 DEF Structured, k
  <2>2. ASSUME NEW i \in 1 .. l, NEW f \in as[i].fragments
        PROVE  /\ f \notin Range(e.created) \cup Range(e.nodeFree)
               /\ Slotless(e.heap[f])
               /\ \A j \in 1 .. l : f \in as[j].fragments => i = j
    <3>1. \A j \in 1 .. l : f \in as[j].fragments => \/ f \in rs[j].fragments
                                                     \/ j = l /\ f \in rs[k].fragments
      BY <1>6
    <3>2. \/ f \in rs[i].fragments
          \/ i = l /\ f \in rs[k].fragments
      BY <3>1
    <3>3. \E m \in 1 .. k : f \in rs[m].fragments
      BY <1>2, <1>3, <3>2
    <3>4. /\ f \notin Range(e.created) \cup Range(e.nodeFree)
          /\ Slotless(e.heap[f])
      BY <1>1, <3>3 DEF Structured, k
    <3>5. \A m, j \in 1 .. k : f \in rs[m].fragments /\ f \in rs[j].fragments => m = j
      BY <1>1 DEF Structured, k
    <3>6. \A j \in 1 .. l : f \in as[j].fragments => i = j
      BY <1>2, <1>3, <3>1, <3>2, <3>5
    <3> QED
      BY <3>4, <3>6
  <2> QED
    BY <1>1, <1>6, <2>1, <2>2 DEF Structured
<1>9. Local(e, as, X)
  BY <1>1, <1>3, <1>6, <1>7 DEF Keeping, Local, k
<1>10. Keeping(e, as, X)
  <2>1. \A i \in 1 .. l : as[i].fragments \subseteq X
    <3>1. \A i \in 1 .. k : rs[i].fragments \subseteq X
      BY <1>1 DEF Keeping, k
    <3> QED
      BY <1>2, <1>3, <1>6, <3>1
  <2> QED
    BY <1>1, <1>6, <1>9, <2>1 DEF Keeping
<1>11. Sound(e, as, base, X)
  BY <1>8, <1>10 DEF Sound
<1> QED
  BY <1>11 DEF as, F, fs, l, k

(* A new fragment belongs to the innermost activation. *)
LEMMA FragmentKeeps ==
  ASSUME NEW e, NEW rs, NEW base, NEW X, Sound(e, rs, base, X), rs # <<>>
  PROVE  LET k == Len(rs)
             n == Len(e.heap) + 1
         IN  Sound(NewTransientNode(e), Regiven(rs, k, rs[k].fragments \cup {n}), base, X \cup {n})
<1> DEFINE k == Len(rs)
           n == Len(e.heap) + 1
           d == NewTransientNode(e)
           F == rs[k].fragments \cup {n}
           as == Regiven(rs, k, F)
<1>1. Structured(e, rs, base) /\ Keeping(e, rs, X) /\ IsEditor(e)
  BY DEF Sound, Structured
<1>2. k \in Nat /\ k \in 1 .. k
  <2>1. k \in Nat /\ (rs = <<>> <=> k = 0)
    BY <1>1, ActivationOf
  <2> HIDE DEF k
  <2> QED
    BY <2>1
<1>3. Len(e.heap) \in Nat /\ DOMAIN e.heap = 1 .. Len(e.heap)
  BY <1>1, HeapOf
<1>4. /\ Extended(d, e, 1) /\ d \in Editor(1 .. n) /\ DOMAIN e.heap \subseteq DOMAIN d.heap
      /\ d.created = e.created /\ d.nodeFree = e.nodeFree
  BY <1>1, AllocExtends DEF NewTransientNode
<1> HIDE DEF k, d
<1>5. n \notin DOMAIN e.heap /\ n \in 1 .. n /\ n # Nil
  BY <1>3 DEF Nil
<1> HIDE DEF n
<1>6. /\ DOMAIN d.heap = 1 .. n /\ IsEditor(d) /\ d.heap[n] = ZeroNode
      /\ \A m \in DOMAIN e.heap : d.heap[m] = e.heap[m]
  BY <1>4, <1>5 DEF Extended, IsEditor, n
<1>7. /\ X \subseteq DOMAIN e.heap /\ n \notin X /\ n \notin Range(e.created)
      /\ n \notin Range(e.nodeFree) /\ \A i \in 1 .. k : rs[i].fragments \subseteq X
  <2>1. X \subseteq DOMAIN e.heap /\ Range(e.created) \subseteq X
    BY <1>1 DEF Keeping, TreeIn
  <2>2. Range(e.nodeFree) \subseteq DOMAIN e.heap
    <3>1. e.nodeFree \in Seq(DOMAIN e.heap)
      BY <1>1, ActivationOf
    <3> QED
      BY <3>1 DEF Range
  <2> QED
    BY <1>1, <1>5, <2>1, <2>2 DEF Keeping, k
<1>8. TreeIn(d.heap, X \cup {n})
  <2>1. Nil \notin DOMAIN d.heap
    BY <1>6 DEF Nil
  <2>2. Bare(d.heap[n])
    BY <1>6, NewIsBare
  <2>3. TreeIn(e.heap, X) /\ n \in DOMAIN d.heap
    BY <1>1, <1>5, <1>6 DEF Keeping
  <2>4. \A m \in X : d.heap[m] = e.heap[m]
    BY <1>6, <1>7
  <2> QED
    BY <1>4, <1>7, <2>1, <2>2, <2>3, <2>4, TreeGrows
<1>9. /\ as \in Seq(Activations(d, base)) /\ Len(as) = k
      /\ \A j \in 1 .. k : /\ as[j].at = rs[j].at
                           /\ as[j].fragments = IF j = k THEN F ELSE rs[j].fragments
  <2>1. F \in SUBSET DOMAIN d.heap
    <3>1. rs[k].fragments \subseteq DOMAIN e.heap
      BY <1>2, <1>7
    <3> QED
      BY <1>4, <1>5, <1>6, <3>1
  <2>2. /\ rs \in Seq(Activations(e, base)) /\ k \in 1 .. Len(rs)
        /\ Len(d.created) = Len(e.created) /\ DOMAIN e.heap \subseteq DOMAIN d.heap
    BY <1>1, <1>2, <1>4 DEF Structured, k
  <2> HIDE DEF F
  <2>3. AreGiven(as, rs, k, F, Activations(d, base))
    BY <2>1, <2>2, RegivenIs
  <2> HIDE DEF as
  <2> QED
    BY <2>3 DEF k, AreGiven
<1> HIDE DEF as
<1>10. \A i \in 1 .. k : OwnedBy(d, as, i) = OwnedBy(e, rs, i) \cup {n}
  <2> TAKE i \in 1 .. k
  <2>1. \A j \in i .. k : j \in 1 .. k
    BY <1>2
  <2>2. k \in i .. k
    BY <1>2
  <2>3. UNION {as[j].fragments : j \in i .. k} = (UNION {rs[j].fragments : j \in i .. k}) \cup {n}
    <3>1. \A j \in i .. k : j # k => as[j].fragments = rs[j].fragments
      BY <1>9, <2>1
    <3>2. as[k].fragments = rs[k].fragments \cup {n}
      BY <1>2, <1>9
    <3>3. ASSUME NEW x
          PROVE  (\E j \in i .. k : x \in as[j].fragments)
                    <=> x = n \/ \E j \in i .. k : x \in rs[j].fragments
      BY <2>2, <3>1, <3>2
    <3> QED
      BY <3>3
  <2>4. Len(as) = k /\ Len(rs) = k /\ as[i].at = rs[i].at /\ After(d, rs[i].at) = After(e, rs[i].at)
    BY <1>4, <1>9 DEF k, After
  <2> QED
    BY <2>3, <2>4 DEF OwnedBy
<1>11. Structured(d, as, base)
  <2>1. \A i, j \in 1 .. k : i <= j => as[i].at <= as[j].at
    BY <1>1, <1>9 DEF Structured, k
  <2>2. ASSUME NEW i \in 1 .. k, NEW f \in as[i].fragments
        PROVE  /\ f \notin Range(e.created) \cup Range(e.nodeFree)
               /\ Slotless(d.heap[f])
               /\ \A j \in 1 .. k : f \in as[j].fragments => i = j
    <3>1. \A j \in 1 .. k : f \in as[j].fragments => \/ f \in rs[j].fragments
                                                     \/ j = k /\ f = n
      BY <1>9
    <3>2. CASE f = n
      <4>1. Slotless(d.heap[f])
        BY <1>6, <3>2, NewIsBare DEF Bare
      <4>2. \A j \in 1 .. k : f \notin rs[j].fragments
        BY <1>7, <3>2
      <4> QED
        BY <1>7, <3>1, <3>2, <4>1, <4>2
    <3>3. CASE f # n
      <4>1. f \in rs[i].fragments
        BY <3>1, <3>3
      <4>2. /\ f \notin Range(e.created) \cup Range(e.nodeFree)
            /\ Slotless(e.heap[f])
            /\ \A j \in 1 .. k : f \in rs[j].fragments => i = j
        BY <1>1, <4>1 DEF Structured, k
      <4>3. f \in DOMAIN e.heap
        BY <1>7, <4>1
      <4> QED
        BY <1>6, <3>1, <3>3, <4>2, <4>3
    <3> QED
      BY <3>2, <3>3
  <2> QED
    BY <1>1, <1>4, <1>6, <1>9, <2>1, <2>2 DEF Structured
<1>12. Local(d, as, X \cup {n})
  <2> SUFFICES ASSUME NEW i \in 1 .. k, NEW m \in X \cup {n}, d.heap[m].parent # Nil
               PROVE  m \in OwnedBy(d, as, i) <=> d.heap[m].parent \in OwnedBy(d, as, i)
    BY <1>9 DEF Local
  <2>1. m \in X /\ d.heap[m] = e.heap[m]
    BY <1>6, <1>7 DEF ZeroNode
  <2>2. e.heap[m].parent \in X
    BY <1>1, <2>1 DEF Keeping, TreeIn
  <2>3. m \in OwnedBy(e, rs, i) <=> e.heap[m].parent \in OwnedBy(e, rs, i)
    BY <1>1, <2>1 DEF Keeping, Local, k
  <2> QED
    BY <1>7, <1>10, <2>1, <2>2, <2>3
<1>13. Keeping(d, as, X \cup {n})
  <2>1. \A i \in 1 .. k : as[i].fragments \subseteq X \cup {n}
    BY <1>2, <1>7, <1>9
  <2>2. (X \cup {n}) \cap Range(d.nodeFree) = {} /\ Range(d.created) \subseteq X \cup {n}
    BY <1>1, <1>4, <1>7 DEF Keeping
  <2> QED
    BY <1>8, <1>9, <1>12, <2>1, <2>2 DEF Keeping
<1>14. Sound(d, as, base, X \cup {n})
  BY <1>11, <1>13 DEF Sound
<1> QED
  BY <1>14 DEF as, F, d, n, k

(* A fragment that is linked with none may be forgotten. *)
LEMMA ForgetKeeps ==
  ASSUME NEW e, NEW rs, NEW base, NEW X, Sound(e, rs, base, X), rs # <<>>,
         NEW f \in rs[Len(rs)].fragments, e.heap[f].parent = Nil,
         \A n \in X : e.heap[n].parent # f
  PROVE  LET k == Len(rs)
         IN  Sound(e, Regiven(rs, k, rs[k].fragments \ {f}), base, X)
<1> DEFINE k == Len(rs)
           F == rs[k].fragments \ {f}
           as == Regiven(rs, k, F)
<1>1. Structured(e, rs, base) /\ Keeping(e, rs, X)
  BY DEF Sound
<1>2. k \in Nat /\ k \in 1 .. k
  <2>1. k \in Nat /\ (rs = <<>> <=> k = 0)
    BY <1>1, ActivationOf
  <2> HIDE DEF k
  <2> QED
    BY <2>1
<1>3. f \in rs[k].fragments
  OBVIOUS
<1> HIDE DEF k
<1>4. /\ as \in Seq(Activations(e, base)) /\ Len(as) = k
      /\ \A j \in 1 .. k : /\ as[j].at = rs[j].at
                           /\ as[j].fragments = IF j = k THEN F ELSE rs[j].fragments
  <2>1. rs[k].fragments \subseteq DOMAIN e.heap
    BY <1>1, <1>2, ActivationOf DEF k
  <2>2. F \in SUBSET DOMAIN e.heap
    BY <2>1
  <2>3. rs \in Seq(Activations(e, base)) /\ k \in 1 .. Len(rs)
    BY <1>1, <1>2 DEF Structured, k
  <2> HIDE DEF F
  <2>4. AreGiven(as, rs, k, F, Activations(e, base))
    BY <2>2, <2>3, RegivenIs
  <2> HIDE DEF as
  <2> QED
    BY <2>4 DEF k, AreGiven
<1> HIDE DEF as
<1>5. \A j \in 1 .. k : f \in rs[j].fragments => j = k
  BY <1>1, <1>2, <1>3 DEF Structured, k
<1>6. \A i \in 1 .. k : OwnedBy(e, as, i) = OwnedBy(e, rs, i) \ {f}
  <2> TAKE i \in 1 .. k
  <2>1. \A j \in i .. k : j \in 1 .. k
    BY <1>2
  <2>2. (UNION {as[j].fragments : j \in i .. k}) = (UNION {rs[j].fragments : j \in i .. k}) \ {f}
    <3>1. \A j \in i .. k : as[j].fragments = rs[j].fragments \ {f}
      BY <1>4, <1>5, <2>1
    <3>2. ASSUME NEW x
          PROVE  (\E j \in i .. k : x \in as[j].fragments)
                    <=> x # f /\ \E j \in i .. k : x \in rs[j].fragments
      BY <3>1
    <3> QED
      BY <3>2
  <2>3. f \notin After(e, rs[i].at)
    <3>1. /\ rs[i].at \in base .. Len(e.created) /\ base \in 0 .. Len(e.created)
          /\ Len(e.created) \in Nat /\ DOMAIN e.created = 1 .. Len(e.created)
      BY <1>1, ActivationOf DEF k
    <3>2. \A j \in rs[i].at + 1 .. Len(e.created) : j \in 1 .. Len(e.created)
      BY <3>1
    <3>3. f \notin Range(e.created)
      BY <1>1, <1>2, <1>3 DEF Structured, k
    <3> QED
      BY <3>1, <3>2, <3>3 DEF After, Range
  <2>4. Len(as) = k /\ Len(rs) = k /\ as[i].at = rs[i].at
    BY <1>4 DEF k
  <2> QED
    BY <2>2, <2>3, <2>4 DEF OwnedBy
<1>7. Structured(e, as, base)
  <2>1. \A i, j \in 1 .. k : i <= j => as[i].at <= as[j].at
    BY <1>1, <1>4 DEF Structured, k
  <2>2. \A i \in 1 .. k : as[i].fragments \subseteq rs[i].fragments
    BY <1>4
  <2>3. ASSUME NEW i \in 1 .. k, NEW g \in as[i].fragments
        PROVE  /\ g \notin Range(e.created) \cup Range(e.nodeFree)
               /\ Slotless(e.heap[g])
               /\ \A j \in 1 .. k : g \in as[j].fragments => i = j
    BY <1>1, <2>2 DEF Structured, k
  <2> QED
    BY <1>1, <1>4, <2>1, <2>3 DEF Structured
<1>8. Local(e, as, X)
  <2> SUFFICES ASSUME NEW i \in 1 .. k, NEW m \in X, e.heap[m].parent # Nil
               PROVE  m \in OwnedBy(e, as, i) <=> e.heap[m].parent \in OwnedBy(e, as, i)
    BY <1>4 DEF Local
  <2>1. m \in OwnedBy(e, rs, i) <=> e.heap[m].parent \in OwnedBy(e, rs, i)
    BY <1>1 DEF Keeping, Local, k
  <2> QED
    BY <1>6, <2>1
<1>9. Keeping(e, as, X)
  <2>1. \A i \in 1 .. k : as[i].fragments \subseteq X
    BY <1>1, <1>2, <1>4 DEF Keeping, k
  <2> QED
    BY <1>1, <1>4, <1>8, <2>1 DEF Keeping
<1>10. Sound(e, as, base, X)
  BY <1>7, <1>9 DEF Sound
<1> QED
  BY <1>10 DEF as, F, k

(* A fragment of the innermost activation hands its children to a node     *)
(* that the activation owns, and is forgotten.                             *)
LEMMA UnpackKeeps ==
  ASSUME NEW e, NEW rs, NEW base, NEW X, Sound(e, rs, base, X), rs # <<>>,
         NEW f \in rs[Len(rs)].fragments, e.heap[f].parent = Nil,
         NEW p \in OwnedBy(e, rs, Len(rs)), p # f
  PROVE  LET k == Len(rs)
         IN  Sound(AttachFragment(e, p, f), Regiven(rs, k, rs[k].fragments \ {f}), base, X)
<1> DEFINE k == Len(rs)
           d == AttachFragment(e, p, f)
           O == OwnedBy(e, rs, k) \ {f}
<1>1. Structured(e, rs, base) /\ Keeping(e, rs, X) /\ IsEditor(e) /\ TreeIn(e.heap, X)
  BY DEF Sound, Structured, Keeping
<1>2. k \in Nat /\ k \in 1 .. k
  <2>1. k \in Nat /\ (rs = <<>> <=> k = 0)
    BY <1>1, ActivationOf
  <2> HIDE DEF k
  <2> QED
    BY <2>1
<1>3. OwnedBy(e, rs, k) \subseteq X /\ f \in OwnedBy(e, rs, k)
  <2>1. /\ OwnedBy(e, rs, k) \subseteq X
        /\ OwnedBy(e, rs, k) = rs[k].fragments \cup After(e, rs[k].at)
    BY <1>2, OwnedInside
  <2> QED
    BY <2>1
<1>4. p \in X /\ f \in X /\ p \in O
  BY <1>3
<1>5. f \in rs[k].fragments /\ Slotless(e.heap[f])
  BY <1>1, <1>2 DEF Structured
<1> HIDE DEF k
<1>6. f # Nil /\ Range(e.heap[f].children) \subseteq Below(e.heap[f])
  <2>1. Nil \notin DOMAIN e.heap /\ e.heap \in [DOMAIN e.heap -> Node(DOMAIN e.heap)]
    BY <1>1, HeapOf
  <2>2. f \in DOMAIN e.heap /\ e.heap[f].children \in Seq(DOMAIN e.heap)
    BY <1>1, <1>4, <2>1 DEF TreeIn, Node
  <2>3. Range(e.heap[f].children) \subseteq DOMAIN e.heap
    BY <2>2 DEF Range
  <2> QED
    BY <2>1, <2>2, <2>3 DEF Below
<1>7. Range(e.heap[f].children) \subseteq O
  <2> SUFFICES ASSUME NEW c \in Below(e.heap[f])
               PROVE  c \in O
    BY <1>6
  <2>1. c \in X /\ e.heap[c].parent = f
    BY <1>1, <1>4 DEF TreeIn
  <2>2. c \in OwnedBy(e, rs, k)
    BY <1>1, <1>2, <1>3, <1>6, <2>1 DEF Keeping, Local, k
  <2>3. c # f
    BY <1>6, <2>1
  <2> QED
    BY <2>2, <2>3
<1>8. Edited(d, e, X, O, {}) /\ \A n \in X : d.heap[n].parent # f
  <2> HIDE DEF O
  <2> QED
    BY <1>1, <1>4, <1>5, <1>7, FragmentEdits
<1>9. Sound(d, rs, base, X)
  <2>1. \A i \in 1 .. Len(rs) : O \subseteq OwnedBy(e, rs, i)
    <3> TAKE i \in 1 .. Len(rs)
    <3>1. i <= k /\ k \in 1 .. Len(rs)
      BY <1>2 DEF k
    <3>2. OwnedBy(e, rs, k) \subseteq OwnedBy(e, rs, i)
      BY <1>1, <3>1, OwnedNests
    <3> QED
      BY <3>2
  <2> HIDE DEF O, d
  <2> QED
    BY <1>8, <2>1, EditKeeps
<1>10. d.heap[f].parent = Nil
  <2>1. \/ d.heap[f].parent \in {Nil, e.heap[f].parent}
        \/ f \in O /\ d.heap[f].parent \in O
    BY <1>4, <1>8 DEF Edited
  <2> QED
    BY <2>1
<1> QED
  <2> HIDE DEF d
  <2>1. Sound(d, Regiven(rs, k, rs[k].fragments \ {f}), base, X)
    BY <1>8, <1>9, <1>10, ForgetKeeps DEF k
  <2> QED
    BY <2>1 DEF d, k

-----------------------------------------------------------------------------
(* The inductive invariant. *)

(* The nodes of a session have ids of their own, and the next is new.      *)
Numbered(e, base) ==
  /\ \A i, j \in base + 1 .. Len(e.created) :
        e.heap[e.created[i]].id = e.heap[e.created[j]].id => i = j
  /\ e.inUse => \A i \in base + 1 .. Len(e.created) : e.heap[e.created[i]].id <= e.nextID

Kept(e, rs, base) == /\ \E X : Sound(e, rs, base, X)
                     /\ rs # <<>> => e.inUse
                     /\ Careful => Numbered(e, base)

IInv == /\ Kept(ed, rules, since)
        /\ handed \in DOMAIN ed.heap \cup {Nil} /\ sealed \subseteq DOMAIN ed.heap

(* The ledger from some entry on is part of it. *)
LEMMA AfterInside ==
  ASSUME NEW e, NEW rs, NEW base, Structured(e, rs, base), NEW n \in 0 .. Len(e.created)
  PROVE  After(e, n) \subseteq Range(e.created)
<1>1. Len(e.created) \in Nat /\ DOMAIN e.created = 1 .. Len(e.created)
  BY ActivationOf
<1>2. \A j \in n + 1 .. Len(e.created) : j \in 1 .. Len(e.created)
  BY <1>1
<1> QED
  BY <1>1, <1>2 DEF After, Range

LEMMA NumberedStays ==
  ASSUME NEW e, NEW rs, NEW base, Structured(e, rs, base), Numbered(e, base),
         NEW d, d.created = e.created, \A n \in DOMAIN e.heap : d.heap[n].id = e.heap[n].id,
         d.inUse => e.inUse /\ d.nextID = e.nextID
  PROVE  Numbered(d, base)
<1>1. \A i \in base + 1 .. Len(e.created) : e.created[i] \in DOMAIN e.heap
  <2>1. /\ Len(e.created) \in Nat /\ base \in 0 .. Len(e.created)
        /\ DOMAIN e.created = 1 .. Len(e.created) /\ e.created \in Seq(DOMAIN e.heap)
    BY ActivationOf
  <2>2. \A i \in base + 1 .. Len(e.created) : i \in 1 .. Len(e.created)
    BY <2>1
  <2> QED
    BY <2>1, <2>2
<1> QED
  BY <1>1, SMTT(60) DEF Numbered

LEMMA NumberedCreates ==
  ASSUME NEW e, NEW rs, NEW base, NEW X, Sound(e, rs, base, X), Numbered(e, base), e.inUse,
         NEW d, NEW n, Created(d, e, n)
  PROVE  Numbered(d, base)
<1> DEFINE L == Len(e.created)
<1>1. /\ L \in Nat /\ base \in 0 .. L /\ DOMAIN e.created = 1 .. L
      /\ e.created \in Seq(DOMAIN e.heap) /\ e.nextID \in Nat /\ IsEditor(e)
      /\ \A i \in 1 .. L : e.heap[e.created[i]].id \in Nat
  <2>1. Structured(e, rs, base) /\ IsEditor(e)
    BY DEF Sound, Structured
  <2>2. /\ L \in Nat /\ base \in 0 .. L /\ DOMAIN e.created = 1 .. L
        /\ e.created \in Seq(DOMAIN e.heap)
    BY <2>1, ActivationOf
  <2>3. \A m \in DOMAIN e.heap : e.heap[m].id \in Nat
    BY <2>1, HeapOf DEF Node
  <2>4. \A i \in 1 .. L : e.created[i] \in DOMAIN e.heap
    BY <2>2
  <2>5. e.nextID \in Nat
    BY <2>1 DEF IsEditor, Editor
  <2> QED
    BY <2>1, <2>2, <2>3, <2>4, <2>5
<1> HIDE DEF L
<1>2. /\ DOMAIN e.heap \subseteq DOMAIN d.heap /\ d.created = Append(e.created, n)
      /\ \A m \in DOMAIN e.heap \ {n} : d.heap[m] = e.heap[m]
      /\ d.heap[n] = [ZeroNode EXCEPT !.id = e.nextID + 1] /\ d.nextID = e.nextID + 1
      /\ n \in DOMAIN e.heap => n \in Range(e.nodeFree)
  BY DEF Created
<1>3. Range(e.created) \cap Range(e.nodeFree) = {}
  BY DEF Sound, Keeping
<1>4. \A i \in 1 .. L : e.created[i] # n /\ e.created[i] \in DOMAIN e.heap
  <2>1. \A i \in 1 .. L : e.created[i] \in DOMAIN e.heap /\ e.created[i] \in Range(e.created)
    BY <1>1 DEF Range
  <2> QED
    BY <1>2, <1>3, <2>1
<1>5. /\ Len(d.created) = L + 1 /\ d.created[L + 1] = n
      /\ \A i \in 1 .. L : d.created[i] = e.created[i]
  BY <1>1, <1>2, AppendProperties DEF L
<1>6. /\ \A i \in 1 .. L : d.heap[d.created[i]].id = e.heap[e.created[i]].id
      /\ d.heap[d.created[L + 1]].id = e.nextID + 1
  <2>1. \A i \in 1 .. L : d.created[i] \in DOMAIN e.heap \ {n}
    BY <1>4, <1>5
  <2>2. \A i \in 1 .. L : d.heap[d.created[i]] = e.heap[d.created[i]]
    BY <1>2, <2>1
  <2>3. d.heap[n].id = e.nextID + 1
    BY <1>2 DEF ZeroNode
  <2> QED
    BY <1>5, <2>2, <2>3
<1>7. \A i : i \in base + 1 .. L + 1 <=> i \in base + 1 .. L \/ i = L + 1
  BY <1>1
<1>8. \A i \in base + 1 .. L : i \in 1 .. L
  BY <1>1
<1>9. \A i \in base + 1 .. L : /\ e.heap[e.created[i]].id <= e.nextID
                             /\ e.heap[e.created[i]].id \in Nat
  BY <1>1, <1>8 DEF Numbered, L
<1>10. \A i \in base + 1 .. L : d.heap[d.created[i]].id = e.heap[e.created[i]].id
  BY <1>6, <1>8
<1>11. \A i \in base + 1 .. L : /\ d.heap[d.created[i]].id # e.nextID + 1
                              /\ d.heap[d.created[i]].id <= e.nextID + 1
  <2> TAKE i \in base + 1 .. L
  <2>1. e.heap[e.created[i]].id <= e.nextID /\ e.heap[e.created[i]].id \in Nat /\ e.nextID \in Nat
    BY <1>1, <1>9
  <2>2. d.heap[d.created[i]].id = e.heap[e.created[i]].id
    BY <1>10
  <2> QED
    BY <2>1, <2>2
<1>12. e.nextID + 1 <= d.nextID
  BY <1>1, <1>2
<1>13. \A i, j \in base + 1 .. L : d.heap[d.created[i]].id = d.heap[d.created[j]].id => i = j
  BY <1>10 DEF Numbered, L
<1>14. ASSUME NEW i \in base + 1 .. L + 1, NEW j \in base + 1 .. L + 1,
              d.heap[d.created[i]].id = d.heap[d.created[j]].id
       PROVE  i = j
  BY <1>6, <1>7, <1>11, <1>13, <1>14
<1>15. \A i \in base + 1 .. L + 1 : d.heap[d.created[i]].id <= d.nextID
  <2> TAKE i \in base + 1 .. L + 1
  <2>1. CASE i \in base + 1 .. L
    BY <1>2, <1>11, <2>1
  <2>2. CASE i = L + 1
    BY <1>6, <1>12, <2>2
  <2> QED
    BY <1>7, <2>1, <2>2
<1> QED
  BY <1>5, <1>14, <1>15 DEF Numbered

LEMMA NumberedTruncates ==
  ASSUME NEW e, NEW rs, NEW base, Structured(e, rs, base), Numbered(e, base),
         NEW n \in 0 .. Len(e.created), NEW d, Truncated(d, e, n)
  PROVE  Numbered(d, base)
<1> DEFINE L == Len(e.created)
<1>1. /\ L \in Nat /\ base \in 0 .. L /\ DOMAIN e.created = 1 .. L
      /\ e.created \in Seq(DOMAIN e.heap)
  BY ActivationOf
<1> HIDE DEF L
<1>2. n \in 0 .. L
  BY DEF L
<1>3. \A i \in base + 1 .. n : i \in 1 .. n /\ i \in 1 .. L /\ i \in base + 1 .. L
  BY <1>1, <1>2
<1>4. \A i \in 1 .. n : e.created[i] \notin After(e, n)
  <2> SUFFICES ASSUME NEW i \in 1 .. n, NEW j \in n + 1 .. L, e.created[j] = e.created[i]
               PROVE  FALSE
    BY DEF After, L
  <2>1. i \in 1 .. L /\ j \in 1 .. L /\ i # j
    BY <1>1, <1>2
  <2> QED
    BY <1>1, <2>1 DEF Structured, IsInjective
<1>5. \A i \in base + 1 .. n : d.heap[d.created[i]].id = e.heap[e.created[i]].id
  <2> TAKE i \in base + 1 .. n
  <2>1. e.created[i] \in DOMAIN e.heap \ After(e, n) /\ d.created[i] = e.created[i]
    BY <1>1, <1>3, <1>4 DEF Truncated
  <2> QED
    BY <2>1 DEF Truncated
<1>6. Len(d.created) = n /\ d.nextID = e.nextID /\ d.inUse = e.inUse
  BY DEF Truncated
<1> QED
  BY <1>3, <1>5, <1>6 DEF Numbered, L

(* What may be edited is linked into the tree and belongs to all open      *)
(* activations.                                                            *)
LEMMA OwnedIs ==
  ASSUME NEW X, Sound(ed, rules, since, X)
  PROVE  /\ Owned \subseteq X
         /\ \A i \in 1 .. Len(rules) : Owned \subseteq OwnedBy(ed, rules, i)
         /\ rules # <<>> => /\ Fragments = rules[Len(rules)].fragments
                            /\ Owned = OwnedBy(ed, rules, Len(rules))
         /\ \A n \in Owned \ Fragments, i \in 1 .. Len(rules) : n \notin rules[i].fragments
         /\ Since(since) \subseteq X
<1> DEFINE k == Len(rules)
<1>1. Structured(ed, rules, since) /\ Keeping(ed, rules, X)
  BY DEF Sound
<1>2. /\ k \in Nat /\ (rules = <<>> <=> k = 0) /\ since \in 0 .. Len(ed.created)
      /\ Len(ed.created) \in Nat
      /\ \A i \in 1 .. k : rules[i].at \in since .. Len(ed.created)
  BY <1>1, ActivationOf
<1>3. \A n : Since(n) = After(ed, n)
  BY DEF Since, After
<1>4. Since(since) \subseteq Range(ed.created) /\ Since(since) \subseteq X
  <2>1. After(ed, since) \subseteq Range(ed.created)
    BY <1>1, <1>2, AfterInside
  <2> QED
    BY <1>1, <1>3, <2>1 DEF Keeping
<1>5. CASE rules = <<>>
  <2>1. Owned = Since(since) /\ 1 .. k = {}
    BY <1>2, <1>5 DEF Owned, Fragments
  <2> QED
    BY <1>4, <1>5, <2>1
<1>6. CASE rules # <<>>
  <2>1. k # 0 /\ k \in 1 .. k /\ \A i \in 1 .. k : i <= k
    <3>1. k \in Nat /\ k # 0
      BY <1>2, <1>6
    <3> HIDE DEF k
    <3> QED
      BY <3>1
  <2>2. Fragments = rules[k].fragments /\ Owned = rules[k].fragments \cup After(ed, rules[k].at)
    BY <1>3, <1>6 DEF Owned, Fragments, Last
  <2>3. OwnedBy(ed, rules, k) = Owned /\ Owned \subseteq X
    BY <2>1, <2>2, OwnedInside
  <2>4. \A i \in 1 .. k : OwnedBy(ed, rules, k) \subseteq OwnedBy(ed, rules, i)
    BY <1>1, <2>1, OwnedNests
  <2>5. After(ed, rules[k].at) \subseteq Range(ed.created)
    <3>1. rules[k].at \in 0 .. Len(ed.created)
      <4>1. rules[k].at \in since .. Len(ed.created)
        BY <1>2, <2>1
      <4> HIDE DEF k
      <4> QED
        BY <1>2, <4>1
    <3> QED
      BY <1>1, <3>1, AfterInside
  <2>6. \A i \in 1 .. k : rules[i].fragments \cap Range(ed.created) = {}
    BY <1>1 DEF Structured
  <2>7. \A n \in Owned \ Fragments, i \in 1 .. k : n \notin rules[i].fragments
    BY <2>2, <2>5, <2>6
  <2> QED
    BY <1>4, <2>2, <2>3, <2>4, <2>7
<1> QED
  BY <1>5, <1>6

LEMMA CarryOn ==
  ASSUME IInv, Kept(ed', rules', since'), DOMAIN ed.heap \subseteq DOMAIN ed'.heap,
         UNCHANGED <<handed, sealed>>
  PROVE  IInv'
BY DEF IInv

(* An edit that links what all open activations own. *)
LEMMA EditStep ==
  ASSUME IInv, NEW X, Sound(ed, rules, since, X), NEW d, NEW O, NEW S, Edited(d, ed, X, O, S),
         \A i \in 1 .. Len(rules) : O \subseteq OwnedBy(ed, rules, i),
         \A i \in 1 .. Len(rules) : rules[i].fragments \cap S = {}, Edit(d)
  PROVE  IInv'
<1>1. ed' = d /\ UNCHANGED <<rules, since, handed, sealed>>
  BY DEF Edit
<1>2. Sound(d, rules, since, X)
  BY EditKeeps
<1>3. d.inUse = ed.inUse /\ DOMAIN d.heap = DOMAIN ed.heap
  BY DEF Edited, SameNodes
<1>4. Careful => Numbered(d, since)
  <2>1. SameNodes(d, ed) /\ d.nextID = ed.nextID
    BY DEF Edited
  <2>2. /\ d.created = ed.created
        /\ \A n \in DOMAIN ed.heap : d.heap[n].id = ed.heap[n].id
    BY <2>1 DEF SameNodes
  <2> QED
    BY <1>3, <2>1, <2>2, NumberedStays DEF IInv, Kept, Sound
<1>5. Kept(d, rules, since)
  BY <1>2, <1>3, <1>4 DEF Kept, IInv
<1> QED
  BY <1>1, <1>3, <1>5, CarryOn

(* A step that changes no link. *)
LEMMA RespanStep ==
  ASSUME IInv, NEW d, Respanned(d, ed), ed' = d, UNCHANGED <<rules, since, handed, sealed>>
  PROVE  IInv'
<1>1. PICK X : Sound(ed, rules, since, X)
  BY DEF IInv, Kept
<1>2. IsEditor(d) /\ SameTopology(d, ed) /\ d.inUse = ed.inUse
  BY DEF Respanned
<1>3. Sound(d, rules, since, X)
  BY <1>1, <1>2, TopologyKeeps
<1>4. /\ DOMAIN d.heap = DOMAIN ed.heap /\ d.created = ed.created
      /\ \A n \in DOMAIN ed.heap : d.heap[n].id = ed.heap[n].id
  BY <1>2 DEF SameTopology, SameNodes
<1>5. Careful => Numbered(d, since)
  <2>1. d.nextID = ed.nextID /\ d.inUse = ed.inUse
    BY DEF Respanned
  <2> QED
    BY <1>1, <1>4, <2>1, NumberedStays DEF IInv, Kept, Sound
<1>6. Kept(d, rules, since)
  BY <1>2, <1>3, <1>5 DEF Kept, IInv
<1> QED
  BY <1>4, <1>6, CarryOn

-----------------------------------------------------------------------------
(* The actions. *)

LEMMA CreateInv == IInv /\ Create => IInv'
<1> SUFFICES ASSUME IInv, Create
             PROVE  IInv'
  OBVIOUS
<1>1. PICK X : Sound(ed, rules, since, X)
  BY DEF IInv, Kept
<1>2. ed' = NewNode(ed) /\ UNCHANGED <<rules, since, handed, sealed>>
  BY DEF Create, Edit
<1> DEFINE n == nodeAcquire(ed)
<1>3. Created(ed', ed, n)
  BY <1>1, <1>2, NewNodeCreates DEF Sound, Structured
<1> HIDE DEF n
<1>4. Sound(ed', rules, since, X \cup {n})
  BY <1>1, <1>3, CreateKeeps
<1>5. Careful => Numbered(ed', since)
  <2>1. Careful => ed.inUse /\ Numbered(ed, since)
    BY DEF IInv, Kept, Create, Edit, MayEdit
  <2> QED
    BY <1>1, <1>3, <2>1, NumberedCreates
<1>6. Kept(ed', rules', since') /\ DOMAIN ed.heap \subseteq DOMAIN ed'.heap
  BY <1>2, <1>3, <1>4, <1>5 DEF Kept, Created, IInv
<1> QED
  BY <1>2, <1>6, CarryOn

LEMMA CreateFragmentInv == IInv /\ CreateFragment => IInv'
<1> SUFFICES ASSUME IInv, CreateFragment
             PROVE  IInv'
  OBVIOUS
<1>1. PICK X : Sound(ed, rules, since, X)
  BY DEF IInv, Kept
<1> DEFINE k == Len(rules)
           n == Len(ed.heap) + 1
<1>2. /\ rules # <<>> /\ ed' = NewTransientNode(ed)
      /\ rules' = [rules EXCEPT ![k].fragments = @ \cup {n}]
      /\ UNCHANGED <<since, handed, sealed>>
  BY DEF CreateFragment
<1>3. rules' = Regiven(rules, k, rules[k].fragments \cup {n})
  BY <1>2 DEF Regiven
<1>4. Sound(ed', rules', since, X \cup {n})
  <2>1. Sound(NewTransientNode(ed), Regiven(rules, k, rules[k].fragments \cup {n}), since, X \cup {n})
    BY <1>1, <1>2, FragmentKeeps
  <2> QED
    BY <1>2, <1>3, <2>1
<1>5. /\ DOMAIN ed.heap \subseteq DOMAIN ed'.heap /\ ed'.inUse = ed.inUse
      /\ ed'.nextID = ed.nextID /\ ed'.created = ed.created /\ Extended(ed', ed, 1)
  BY <1>1, <1>2, AllocExtends DEF Sound, Structured, NewTransientNode
<1> HIDE DEF k, n
<1>6. Careful => Numbered(ed', since)
  <2>1. \A m \in DOMAIN ed.heap : ed'.heap[m].id = ed.heap[m].id
    BY <1>5 DEF Extended
  <2> QED
    BY <1>1, <1>5, <2>1, NumberedStays DEF IInv, Kept, Sound
<1>7. Kept(ed', rules', since')
  BY <1>2, <1>4, <1>5, <1>6 DEF Kept, IInv
<1> QED
  BY <1>2, <1>5, <1>7, CarryOn

LEMMA AttachInv == ASSUME NEW p \in Owned, NEW c \in Owned  PROVE  IInv /\ Attach(p, c) => IInv'
<1> SUFFICES ASSUME IInv, Attach(p, c)
             PROVE  IInv'
  OBVIOUS
<1>1. PICK X : Sound(ed, rules, since, X)
  BY DEF IInv, Kept
<1>2. IsEditor(ed) /\ TreeIn(ed.heap, X) /\ p \in X /\ c \in X /\ ed.heap[c].parent = Nil
  BY <1>1, OwnedIs DEF Sound, Structured, Keeping, Attach, MayAttach
<1> DEFINE d == AttachChild(ed, p, c)
<1>3. Edited(d, ed, X, Owned, {}) /\ Edit(d)
  BY <1>2, AttachEdits DEF Attach
<1>4. \A i \in 1 .. Len(rules) : Owned \subseteq OwnedBy(ed, rules, i)
  BY <1>1, OwnedIs
<1> HIDE DEF d
<1> QED
  BY <1>1, <1>3, <1>4, EditStep

LEMMA UnpackInv == ASSUME NEW p \in Owned, NEW f \in Owned  PROVE  IInv /\ Unpack(p, f) => IInv'
<1> SUFFICES ASSUME IInv, Unpack(p, f)
             PROVE  IInv'
  OBVIOUS
<1>1. PICK X : Sound(ed, rules, since, X)
  BY DEF IInv, Kept
<1> DEFINE k == Len(rules)
           d == AttachFragment(ed, p, f)
<1>2. /\ f \in Fragments /\ p # f /\ ed.heap[f].parent = Nil
      /\ ed' = d /\ rules' = [rules EXCEPT ![k].fragments = @ \ {f}]
      /\ UNCHANGED <<since, handed, sealed>>
  BY DEF Unpack
<1>3. rules # <<>>
  BY <1>2 DEF Fragments
<1>4. /\ IsEditor(ed) /\ TreeIn(ed.heap, X) /\ p \in X /\ f \in X
      /\ f \in rules[k].fragments /\ p \in OwnedBy(ed, rules, k)
  BY <1>1, <1>2, <1>3, OwnedIs DEF Sound, Structured, Keeping
<1>5. rules' = Regiven(rules, k, rules[k].fragments \ {f})
  BY <1>2 DEF Regiven
<1>6. Sound(ed', rules', since, X)
  <2>1. Sound(d, Regiven(rules, k, rules[k].fragments \ {f}), since, X)
    BY <1>1, <1>2, <1>3, <1>4, UnpackKeeps
  <2> QED
    BY <1>2, <1>5, <2>1
<1>7. /\ DOMAIN d.heap = DOMAIN ed.heap /\ d.inUse = ed.inUse /\ d.nextID = ed.nextID
      /\ d.created = ed.created /\ \A n \in DOMAIN ed.heap : d.heap[n].id = ed.heap[n].id
  <2>1. Structured(ed, rules, since) /\ k \in 1 .. k
    <3>1. Structured(ed, rules, since)
      BY <1>1 DEF Sound
    <3>2. k \in Nat /\ k # 0
      BY <1>3, <3>1, ActivationOf
    <3> HIDE DEF k
    <3> QED
      BY <3>1, <3>2
  <2>2. Slotless(ed.heap[f])
    BY <1>4, <2>1 DEF Structured
  <2>3. Range(ed.heap[f].children) \subseteq DOMAIN ed.heap /\ p \in DOMAIN ed.heap
    <3>1. p \in DOMAIN ed.heap /\ f \in DOMAIN ed.heap
      BY <1>4 DEF TreeIn
    <3>2. ed.heap[f].children \in Seq(DOMAIN ed.heap)
      BY <1>4, <3>1, HeapOf DEF Node
    <3> QED
      BY <3>1, <3>2 DEF Range
  <2> DEFINE O == DOMAIN ed.heap
  <2>4. Edited(d, ed, X, O, {})
    <3>1. Range(ed.heap[f].children) \subseteq O /\ p \in O
      BY <2>3
    <3> HIDE DEF O
    <3> QED
      BY <1>2, <1>4, <2>2, <3>1, FragmentEdits
  <2> QED
    BY <2>4 DEF Edited, SameNodes
<1> HIDE DEF d, k
<1>8. Careful => Numbered(d, since)
  BY <1>1, <1>7, NumberedStays DEF IInv, Kept, Sound
<1>9. Kept(ed', rules', since')
  BY <1>2, <1>3, <1>6, <1>7, <1>8 DEF Kept, IInv
<1> QED
  BY <1>2, <1>7, <1>9, CarryOn

LEMMA FillInv ==
  ASSUME NEW p \in Owned, NEW s \in Slots, NEW c \in Owned
  PROVE  IInv /\ Fill(p, s, c) => IInv'
<1> SUFFICES ASSUME IInv, Fill(p, s, c)
             PROVE  IInv'
  OBVIOUS
<1>1. PICK X : Sound(ed, rules, since, X)
  BY DEF IInv, Kept
<1>2. IsEditor(ed) /\ TreeIn(ed.heap, X) /\ p \in X /\ c \in X /\ ed.heap[c].parent = Nil
  BY <1>1, OwnedIs DEF Sound, Structured, Keeping, Fill, MaySetSlot
<1> DEFINE d == SetSlot(ed, p, s, c)
<1>3. Edited(d, ed, X, Owned, {p}) /\ Edit(d)
  BY <1>2, SetSlotEdits DEF Fill
<1>4. \A i \in 1 .. Len(rules) : rules[i].fragments \cap {p} = {}
  BY <1>1, OwnedIs DEF Fill
<1>5. \A i \in 1 .. Len(rules) : Owned \subseteq OwnedBy(ed, rules, i)
  BY <1>1, OwnedIs
<1> HIDE DEF d
<1> QED
  BY <1>1, <1>3, <1>4, <1>5, EditStep

LEMMA SwapInv == ASSUME NEW c \in Owned, NEW w \in Owned  PROVE  IInv /\ Swap(c, w) => IInv'
<1> SUFFICES ASSUME IInv, Swap(c, w)
             PROVE  IInv'
  OBVIOUS
<1>1. PICK X : Sound(ed, rules, since, X)
  BY DEF IInv, Kept
<1>2. /\ IsEditor(ed) /\ TreeIn(ed.heap, X) /\ c \in X /\ w \in X
      /\ ed.heap[c].parent # Nil /\ ed.heap[w].parent = Nil
  BY <1>1, OwnedIs DEF Sound, Structured, Keeping, Swap, MayReplace
<1> DEFINE d == Replace(ed, c, w)
<1>3. Edit(d)
  BY DEF Swap
<1>4. CASE rules = <<>>
  <2>1. 1 .. Len(rules) = {}
    BY <1>4
  <2>2. ed.heap[c].parent \in X
    BY <1>2 DEF TreeIn
  <2>3. Edited(d, ed, X, X, {})
    BY <1>2, <2>2, ReplaceEdits
  <2> HIDE DEF d
  <2> QED
    BY <1>1, <1>3, <2>1, <2>3, EditStep
<1>5. CASE rules # <<>>
  <2>1. Len(rules) \in 1 .. Len(rules)
    <3>1. Len(rules) \in Nat /\ Len(rules) # 0
      BY <1>1, <1>5, ActivationOf DEF Sound
    <3> QED
      BY <3>1
  <2>2. Owned = OwnedBy(ed, rules, Len(rules))
    BY <1>1, <1>5, OwnedIs
  <2>3. ed.heap[c].parent \in Owned
    BY <1>1, <1>2, <2>1, <2>2 DEF Sound, Keeping, Local
  <2>4. Edited(d, ed, X, Owned, {})
    BY <1>2, <2>3, ReplaceEdits
  <2>5. \A i \in 1 .. Len(rules) : Owned \subseteq OwnedBy(ed, rules, i)
    BY <1>1, OwnedIs
  <2> HIDE DEF d
  <2> QED
    BY <1>1, <1>3, <2>4, <2>5, EditStep
<1> QED
  BY <1>4, <1>5

LEMMA UnlinkInv == ASSUME NEW c \in Owned  PROVE  IInv /\ Unlink(c) => IInv'
<1> SUFFICES ASSUME IInv, Unlink(c)
             PROVE  IInv'
  OBVIOUS
<1>1. PICK X : Sound(ed, rules, since, X)
  BY DEF IInv, Kept
<1>2. IsEditor(ed) /\ TreeIn(ed.heap, X) /\ c \in X /\ ed.heap[c].parent # Nil
  BY <1>1, OwnedIs DEF Sound, Structured, Keeping, Unlink
<1> DEFINE d == Detach(ed, c)
<1>3. Edited(d, ed, X, {}, {}) /\ Edit(d)
  BY <1>2, DetachEdits DEF Unlink
<1> HIDE DEF d
<1> QED
  BY <1>1, <1>3, EditStep

(* The calls that change lexemes, attributes or spans only. *)
LEMMA LexemesInv ==
  ASSUME NEW n \in Owned
  PROVE  /\ IInv /\ Annotate(n) => IInv'
         /\ IInv /\ PutSpan(n) => IInv'
         /\ \A t \in Offsets : IInv /\ TakeToken(n, t) => IInv'
         /\ \A toks \in SUBSET Offsets : IInv /\ PutTokens(n, toks) => IInv'
<1>1. ASSUME IInv
      PROVE  IsEditor(ed) /\ n \in DOMAIN ed.heap
  <2>1. PICK X : Sound(ed, rules, since, X)
    BY <1>1 DEF IInv, Kept
  <2> QED
    BY <2>1, OwnedIs DEF Sound, Structured, Keeping, TreeIn
<1>2. ASSUME IInv, NEW d, Respanned(d, ed), Edit(d)
      PROVE  IInv'
  BY <1>2, RespanStep DEF Edit
<1>3. ASSUME IInv, Annotate(n)
      PROVE  IInv'
  BY <1>1, <1>2, <1>3, LexemesRespan DEF Annotate
<1>4. ASSUME IInv, PutSpan(n)
      PROVE  IInv'
  BY <1>1, <1>2, <1>4, LexemesRespan DEF PutSpan
<1>5. ASSUME IInv, NEW t \in Offsets, TakeToken(n, t)
      PROVE  IInv'
  BY <1>1, <1>2, <1>5, LexemesRespan DEF TakeToken
<1>6. ASSUME IInv, NEW toks \in SUBSET Offsets, PutTokens(n, toks)
      PROVE  IInv'
  BY <1>1, <1>2, <1>6, LexemesRespan DEF PutTokens
<1> QED
  BY <1>3, <1>4, <1>5, <1>6

LEMMA EnterRuleInv == IInv /\ EnterRule => IInv'
<1> SUFFICES ASSUME IInv, EnterRule
             PROVE  IInv'
  OBVIOUS
<1>1. PICK X : Sound(ed, rules, since, X)
  BY DEF IInv, Kept
<1>2. /\ rules # <<>> /\ rules' = Append(rules, Activation(ed))
      /\ UNCHANGED <<ed, since, handed, sealed>>
  BY DEF EnterRule
<1>3. Sound(ed, rules', since, X)
  BY <1>1, <1>2, EnterKeeps
<1>4. Kept(ed', rules', since')
  BY <1>2, <1>3 DEF Kept, IInv
<1> QED
  BY <1>2, <1>4, CarryOn

LEMMA RuleSucceedsInv == IInv /\ RuleSucceeds => IInv'
<1> SUFFICES ASSUME IInv, RuleSucceeds
             PROVE  IInv'
  OBVIOUS
<1>1. PICK X : Sound(ed, rules, since, X)
  BY DEF IInv, Kept
<1> DEFINE k == Len(rules)
           F == rules[k - 1].fragments \cup rules[k].fragments
<1>2. /\ k > 1 /\ UNCHANGED <<ed, since, handed, sealed>>
      /\ rules' = [Front(rules) EXCEPT ![k - 1].fragments = @ \cup rules[k].fragments]
  BY DEF RuleSucceeds, Last
<1>3. rules \in Seq(Activations(ed, since)) /\ k \in Nat /\ rules # <<>>
  <2>1. rules \in Seq(Activations(ed, since)) /\ k \in Nat /\ (rules = <<>> <=> k = 0)
    BY <1>1, ActivationOf DEF Sound, Structured
  <2>2. k # 0
    BY <1>2, <2>1
  <2> QED
    BY <2>1, <2>2
<1>4. rules' = Regiven(Front(rules), k - 1, F)
  <2>1. k - 1 \in 1 .. k - 1
    <3> HIDE DEF k
    <3> QED
      BY <1>2, <1>3
  <2>2. Front(rules)[k - 1] = rules[k - 1]
    BY <1>3, <2>1, FrontOf
  <2> QED
    BY <1>2, <2>2 DEF Regiven
<1>5. Sound(ed, Regiven(Front(rules), k - 1, F), since, X)
  BY <1>1, <1>2, SucceedKeeps
<1> HIDE DEF F, k
<1>6. Kept(ed', rules', since')
  BY <1>2, <1>3, <1>4, <1>5 DEF Kept, IInv
<1> QED
  BY <1>2, <1>6, CarryOn

(* The editor after a rollback of the innermost activation. *)
LEMMA RolledBack ==
  ASSUME NEW X, Sound(ed, rules, since, X), rules # <<>>
  PROVE  LET d == TruncateCreated(ed, Last(rules).at)
         IN  /\ Truncated(d, ed, rules[Len(rules)].at)
             /\ Sound(d, Front(rules), since, X \ OwnedBy(ed, rules, Len(rules)))
             /\ Numbered(ed, since) => Numbered(d, since)
<1> DEFINE k == Len(rules)
           n == rules[k].at
           d == TruncateCreated(ed, n)
<1>1. Structured(ed, rules, since) /\ Keeping(ed, rules, X)
  BY DEF Sound
<1>2. n \in 0 .. Len(ed.created)
  <2> HIDE DEF d
  <2>1. /\ k \in Nat /\ (rules = <<>> <=> k = 0) /\ since \in 0 .. Len(ed.created)
        /\ Len(ed.created) \in Nat
        /\ \A i \in 1 .. k : rules[i].at \in since .. Len(ed.created)
    <3> HIDE DEF n
    <3>1. Structured(ed, rules, since)
      BY <1>1
    <3>2. \A i \in 1 .. Len(rules) : rules[i].at \in since .. Len(ed.created)
      BY <3>1, ActivationOf
    <3>3. /\ Len(rules) \in Nat /\ (rules = <<>> <=> Len(rules) = 0)
          /\ since \in 0 .. Len(ed.created) /\ Len(ed.created) \in Nat
      BY <3>1, ActivationOf
    <3> QED
      BY <3>2, <3>3
  <2> HIDE DEF k
  <2>2. k \in 1 .. k
    BY <2>1
  <2>3. rules[k].at \in since .. Len(ed.created)
    BY <2>1, <2>2
  <2> QED
    BY <2>1, <2>3
<1>3. Truncated(d, ed, n)
  <2>1. Range(ed.created) \cap Range(ed.nodeFree) = {}
    BY <1>1 DEF Keeping
  <2> HIDE DEF n
  <2> QED
    BY <1>1, <1>2, <2>1, TruncateTruncates DEF Structured
<1>4. Sound(d, Front(rules), since, X \ OwnedBy(ed, rules, k))
  BY <1>3, RollbackKeeps
<1>5. Numbered(ed, since) => Numbered(d, since)
  <2> HIDE DEF n, d
  <2> QED
    BY <1>1, <1>2, <1>3, NumberedTruncates
<1> QED
  BY <1>3, <1>4, <1>5 DEF Last

LEMMA RuleFailsInv == IInv /\ RuleFails => IInv'
<1> SUFFICES ASSUME IInv, RuleFails
             PROVE  IInv'
  OBVIOUS
<1>1. PICK X : Sound(ed, rules, since, X)
  BY DEF IInv, Kept
<1>2. /\ Len(rules) > 1 /\ ed' = TruncateCreated(ed, Last(rules).at) /\ rules' = Front(rules)
      /\ UNCHANGED <<since, handed, sealed>>
  BY DEF RuleFails
<1>3. rules # <<>>
  <2>1. rules = <<>> <=> Len(rules) = 0
    BY <1>1, ActivationOf DEF Sound
  <2> QED
    BY <1>2, <2>1
<1> DEFINE Y == X \ OwnedBy(ed, rules, Len(rules))
<1>4. /\ Truncated(ed', ed, rules[Len(rules)].at) /\ Sound(ed', rules', since, Y)
      /\ Numbered(ed, since) => Numbered(ed', since)
  BY <1>1, <1>2, <1>3, RolledBack
<1> HIDE DEF Y
<1>5. Kept(ed', rules', since') /\ DOMAIN ed.heap \subseteq DOMAIN ed'.heap
  BY <1>2, <1>3, <1>4 DEF Kept, IInv, Truncated
<1> QED
  BY <1>2, <1>5, CarryOn

LEMMA RuleHealsInv == IInv /\ RuleHeals => IInv'
<1> SUFFICES ASSUME IInv, RuleHeals
             PROVE  IInv'
  OBVIOUS
<1>1. PICK X : Sound(ed, rules, since, X)
  BY DEF IInv, Kept
<1> DEFINE d == TruncateCreated(ed, Last(rules).at)
           n == nodeAcquire(d)
<1>2. /\ Len(rules) > 1 /\ ed' = NewNode(d) /\ rules' = Front(rules)
      /\ UNCHANGED <<since, handed, sealed>>
  BY DEF RuleHeals
<1>3. rules # <<>>
  <2>1. rules = <<>> <=> Len(rules) = 0
    BY <1>1, ActivationOf DEF Sound
  <2> QED
    BY <1>2, <2>1
<1> DEFINE Y == X \ OwnedBy(ed, rules, Len(rules))
<1>4. /\ Truncated(d, ed, rules[Len(rules)].at) /\ Sound(d, rules', since, Y)
      /\ Numbered(ed, since) => Numbered(d, since)
  BY <1>1, <1>2, <1>3, RolledBack
<1> HIDE DEF Y, d
<1>5. Created(ed', d, n)
  BY <1>2, <1>4, NewNodeCreates DEF Sound, Structured
<1> HIDE DEF n
<1>6. Sound(ed', rules', since, Y \cup {n})
  BY <1>4, <1>5, CreateKeeps
<1>7. Careful => Numbered(ed', since)
  <2>1. Careful => Numbered(d, since) /\ d.inUse
    BY <1>3, <1>4 DEF IInv, Kept, Truncated
  <2> QED
    BY <1>4, <1>5, <2>1, NumberedCreates
<1>8. Kept(ed', rules', since') /\ DOMAIN ed.heap \subseteq DOMAIN ed'.heap
  BY <1>2, <1>3, <1>4, <1>5, <1>6, <1>7 DEF Kept, IInv, Truncated, Created
<1> QED
  BY <1>2, <1>8, CarryOn

LEMMA BeginParseInv == IInv /\ BeginParse => IInv'
<1> SUFFICES ASSUME IInv, BeginParse
             PROVE  IInv'
  OBVIOUS
<1>1. PICK X : Sound(ed, rules, since, X)
  BY DEF IInv, Kept
<1> DEFINE b == Len(ed.created)
<1>2. /\ ed' = begin(ed) /\ rules' = <<Activation(ed)>> /\ since' = b
      /\ handed' = Nil /\ sealed' = {}
  BY DEF BeginParse
<1>3. IsEditor(ed) /\ b \in 0 .. b
  <2>1. Structured(ed, rules, since)
    BY <1>1 DEF Sound
  <2>2. b \in Nat
    BY <2>1, ActivationOf
  <2> QED
    BY <2>1, <2>2 DEF Structured
<1>4. Sound(ed, <<>>, b, X)
  BY <1>1, <1>3, DropKeeps
<1>5. Sound(ed, Append(<<>>, Activation(ed)), b, X)
  BY <1>4, EnterKeeps
<1>6. Append(<<>>, Activation(ed)) = rules'
  BY <1>2
<1>7. IsEditor(ed') /\ SameTopology(ed', ed) /\ ed'.inUse
  BY <1>2, <1>3, FieldsRespan
<1>8. Numbered(ed', b)
  <2>1. Len(ed'.created) = b /\ b \in Nat
    BY <1>3, <1>7 DEF SameTopology, SameNodes
  <2> HIDE DEF b
  <2>2. b + 1 .. b = {}
    BY <2>1
  <2> QED
    BY <2>1, <2>2 DEF Numbered
<1> HIDE DEF b
<1>9. Sound(ed', rules', b, X)
  BY <1>5, <1>6, <1>7, TopologyKeeps
<1> QED
  BY <1>2, <1>7, <1>9, <1>8 DEF IInv, Kept

(* A walk from a node of the heap stays in it. *)
LEMMA TreeInside ==
  ASSUME NEW e, IsEditor(e), NEW n \in DOMAIN e.heap \cup {Nil}
  PROVE  Tree(e, n) \subseteq DOMAIN e.heap
<1> DEFINE A == DOMAIN e.heap
<1>1. e.heap \in [A -> Node(A)]
  BY HeapOf
<1>2. \A m \in A : Below(e.heap[m]) \subseteq A
  BY <1>1, BelowInside
<1> QED
  BY <1>2, VisitedInside DEF Tree

(* The end of a parse, after which nothing is open. *)
LEMMA EndParseInv ==
  ASSUME IInv, NEW e, NEW rs, NEW X, Sound(e, rs, since, X), DOMAIN ed.heap \subseteq DOMAIN e.heap,
         Careful => Numbered(e, since),
         NEW n \in DOMAIN e.heap \cup {Nil}, NEW freeze \in BOOLEAN, EndParse(e, n, freeze)
  PROVE  IInv'
<1> DEFINE rooted == setRoot(e, n)
           done == IF n = Nil THEN rooted ELSE ComputeSpans(rooted)
<1>1. /\ rules' = <<>> /\ handed' = n /\ UNCHANGED since
      /\ ed' = IF freeze THEN Freeze(done) ELSE done
      /\ sealed' = IF freeze THEN Tree(done, n) ELSE sealed
  BY DEF EndParse
<1>2. IsEditor(e) /\ since \in 0 .. Len(e.created)
  BY DEF Sound, Structured
<1>3. Respanned(rooted, e)
  BY <1>2, FieldsRespan
<1>4. Respanned(ComputeSpans(rooted), rooted)
  <2> HIDE DEF rooted
  <2> QED
    BY <1>3, ComputeRespans DEF Respanned
<1> HIDE DEF rooted
<1>5. Respanned(done, e)
  BY <1>3, <1>4, RespannedChain
<1> HIDE DEF done
<1>6. IsEditor(done) /\ SameTopology(done, e)
  BY <1>5 DEF Respanned
<1>7. IsEditor(ed') /\ SameTopology(ed', e)
  BY <1>1, <1>6, FreezeRespans, SameTopologyChain
<1>8. Sound(e, <<>>, since, X)
  BY <1>2, DropKeeps
<1>9. Sound(ed', rules', since', X)
  BY <1>1, <1>7, <1>8, TopologyKeeps
<1>10. DOMAIN ed'.heap = DOMAIN e.heap /\ DOMAIN done.heap = DOMAIN e.heap
  BY <1>6, <1>7 DEF SameTopology, SameNodes
<1>11. Tree(done, n) \subseteq DOMAIN e.heap
  BY <1>6, <1>10, TreeInside
<1>12. handed' \in DOMAIN ed'.heap \cup {Nil} /\ sealed' \subseteq DOMAIN ed'.heap
  BY <1>1, <1>10, <1>11 DEF IInv
<1>13. Careful => Numbered(ed', since)
  <2>1. ed'.inUse => e.inUse /\ ed'.nextID = e.nextID
    BY <1>1, <1>5, <1>6, FreezeRespans DEF Respanned
  <2>2. ed'.created = e.created /\ \A m \in DOMAIN e.heap : ed'.heap[m].id = e.heap[m].id
    BY <1>7 DEF SameTopology, SameNodes
  <2> QED
    BY <2>1, <2>2, NumberedStays DEF Sound
<1> QED
  BY <1>1, <1>9, <1>12, <1>13 DEF IInv, Kept

LEMMA ParseSucceedsInv ==
  ASSUME NEW n \in Owned, NEW freeze \in BOOLEAN
  PROVE  IInv /\ ParseSucceeds(n, freeze) => IInv'
<1> SUFFICES ASSUME IInv, ParseSucceeds(n, freeze)
             PROVE  IInv'
  OBVIOUS
<1>1. PICK X : Sound(ed, rules, since, X)
  BY DEF IInv, Kept
<1>2. n \in DOMAIN ed.heap /\ EndParse(ed, n, freeze)
  BY <1>1, OwnedIs DEF ParseSucceeds, Sound, Keeping, TreeIn
<1>3. Careful => Numbered(ed, since)
  BY DEF IInv, Kept
<1> QED
  BY <1>1, <1>2, <1>3, EndParseInv

LEMMA ParseFailsInv ==
  ASSUME NEW n \in Since(since) \cup {Nil}, NEW freeze \in BOOLEAN
  PROVE  IInv /\ ParseFails(n, freeze) => IInv'
<1> SUFFICES ASSUME IInv, ParseFails(n, freeze)
             PROVE  IInv'
  OBVIOUS
<1>1. PICK X : Sound(ed, rules, since, X)
  BY DEF IInv, Kept
<1> DEFINE d == TruncateCreated(ed, Last(rules).at)
           Y == X \ OwnedBy(ed, rules, Len(rules))
<1>2. Len(rules) = 1 /\ EndParse(TruncateCreated(ed, rules[1].at), n, freeze)
  BY DEF ParseFails
<1>3. rules # <<>>
  <2>1. rules = <<>> <=> Len(rules) = 0
    BY <1>1, ActivationOf DEF Sound
  <2> QED
    BY <1>2, <2>1
<1>4. EndParse(d, n, freeze)
  BY <1>2 DEF Last
<1>5. /\ Truncated(d, ed, rules[Len(rules)].at) /\ Sound(d, Front(rules), since, Y)
      /\ Numbered(ed, since) => Numbered(d, since)
  BY <1>1, <1>3, RolledBack
<1> HIDE DEF d, Y
<1>6. n \in DOMAIN d.heap \cup {Nil} /\ DOMAIN d.heap = DOMAIN ed.heap
  <2>1. Since(since) \subseteq DOMAIN ed.heap
    BY <1>1, OwnedIs DEF Sound, Keeping, TreeIn
  <2> QED
    BY <1>5, <2>1 DEF Truncated
<1>7. Careful => Numbered(d, since)
  BY <1>5 DEF IInv, Kept
<1> QED
  BY <1>4, <1>5, <1>6, <1>7, EndParseInv

LEMMA ReconcileInv == IInv /\ Reconcile => IInv'
<1> SUFFICES ASSUME IInv, Reconcile
             PROVE  IInv'
  OBVIOUS
<1>1. IsEditor(ed)
  BY DEF IInv, Kept, Sound, Structured
<1>2. Respanned(ComputeSpans(ed), ed)
  BY <1>1, ComputeRespans
<1> QED
  BY <1>2, RespanStep DEF Reconcile

LEMMA FreezeTreeInv == IInv /\ FreezeTree => IInv'
<1> SUFFICES ASSUME IInv, FreezeTree
             PROVE  IInv'
  OBVIOUS
<1>1. PICK X : Sound(ed, rules, since, X)
  BY DEF IInv, Kept
<1>2. /\ rules = <<>> /\ ed' = Freeze(ed) /\ sealed' = Tree(ed, ed.root)
      /\ UNCHANGED <<rules, since, handed>>
  BY DEF FreezeTree
<1>3. IsEditor(ed) /\ ed.root \in DOMAIN ed.heap \cup {Nil}
  BY <1>1 DEF Sound, Structured, IsEditor, Editor
<1>4. IsEditor(ed') /\ SameTopology(ed', ed)
  BY <1>2, <1>3, FreezeRespans
<1>5. Sound(ed', rules, since, X)
  BY <1>1, <1>4, TopologyKeeps
<1>6. DOMAIN ed'.heap = DOMAIN ed.heap
  BY <1>4 DEF SameTopology, SameNodes
<1>7. sealed' \subseteq DOMAIN ed.heap
  BY <1>2, <1>3, TreeInside
<1>8. Careful => Numbered(ed', since)
  <2>1. ~ed'.inUse /\ ed'.created = ed.created
    BY <1>2, <1>3, <1>4, FreezeRespans DEF SameTopology, SameNodes
  <2>2. \A m \in DOMAIN ed.heap : ed'.heap[m].id = ed.heap[m].id
    BY <1>4 DEF SameTopology, SameNodes
  <2> QED
    BY <1>1, <2>1, <2>2, NumberedStays DEF IInv, Kept, Sound
<1> QED
  BY <1>2, <1>5, <1>6, <1>7, <1>8 DEF IInv, Kept

LEMMA InitInv == Init => IInv
<1> SUFFICES ASSUME Init
             PROVE  IInv
  OBVIOUS
<1>1. /\ ed = LSTEditorCreate /\ rules = <<>> /\ since = 0 /\ handed = Nil /\ sealed = {}
  BY DEF Init
<1>2. /\ ed.heap = <<>> /\ ed.created = <<>> /\ ed.nodeFree = <<>> /\ DOMAIN ed.heap = {}
  BY <1>1 DEF LSTEditorCreate
<1>3. ed \in Editor({})
  <2>1. <<>> \in Seq(Node({})) /\ <<>> \in Seq({})
    BY EmptySeq
  <2> QED
    BY <1>1, <2>1 DEF LSTEditorCreate, Editor
<1>4. Range(ed.created) = {} /\ Range(ed.nodeFree) = {}
  BY <1>2 DEF Range
<1>5. IsInjective(ed.created) /\ IsInjective(ed.nodeFree)
  BY <1>2 DEF IsInjective
<1>6. <<>> \in Seq(Activations(ed, 0)) /\ Len(<<>>) = 0 /\ 1 .. 0 = {} /\ 0 \in 0 .. 0
  BY EmptySeq
<1>7. Structured(ed, <<>>, 0)
  BY <1>2, <1>3, <1>5, <1>6 DEF Structured, IsEditor
<1>8. Keeping(ed, <<>>, {})
  BY <1>2, <1>4, <1>6 DEF Keeping, TreeIn, Local
<1>9. Numbered(ed, 0)
  BY <1>2 DEF Numbered
<1> QED
  BY <1>1, <1>7, <1>8, <1>9 DEF IInv, Kept, Sound

LEMMA NextInv == IInv /\ [Next]_vars => IInv'
<1> SUFFICES ASSUME IInv, [Next]_vars
             PROVE  IInv'
  OBVIOUS
<1>1. CASE Create
  BY <1>1, CreateInv
<1>2. CASE CreateFragment
  BY <1>2, CreateFragmentInv
<1>3. CASE EnterRule
  BY <1>3, EnterRuleInv
<1>4. CASE RuleSucceeds
  BY <1>4, RuleSucceedsInv
<1>5. CASE RuleFails
  BY <1>5, RuleFailsInv
<1>6. CASE RuleHeals
  BY <1>6, RuleHealsInv
<1>7. CASE BeginParse
  BY <1>7, BeginParseInv
<1>8. CASE Reconcile
  BY <1>8, ReconcileInv
<1>9. CASE FreezeTree
  BY <1>9, FreezeTreeInv
<1>10. ASSUME NEW p \in Owned, NEW c \in Owned,
              \/ Attach(p, c) \/ Unpack(p, c) \/ Swap(p, c)
              \/ \E s \in Slots : Fill(p, s, c)
       PROVE  IInv'
  BY <1>10, AttachInv, UnpackInv, SwapInv, FillInv
<1>11. ASSUME NEW n \in Owned,
              \/ Unlink(n) \/ Annotate(n) \/ PutSpan(n)
              \/ \E t \in Offsets : TakeToken(n, t)
              \/ \E toks \in SUBSET Offsets : PutTokens(n, toks)
       PROVE  IInv'
  BY <1>11, UnlinkInv, LexemesInv
<1>12. ASSUME NEW n \in Owned, NEW freeze \in BOOLEAN, ParseSucceeds(n, freeze)
       PROVE  IInv'
  BY <1>12, ParseSucceedsInv
<1>13. ASSUME NEW n \in Since(since) \cup {Nil}, NEW freeze \in BOOLEAN, ParseFails(n, freeze)
       PROVE  IInv'
  BY <1>13, ParseFailsInv
<1>14. CASE UNCHANGED vars
  BY <1>14 DEF vars, IInv, Kept
<1> QED
  BY <1>1, <1>2, <1>3, <1>4, <1>5, <1>6, <1>7, <1>8, <1>9, <1>10, <1>11, <1>12, <1>13, <1>14
     DEF Next

LEMMA AlwaysKept == Spec => []IInv
<1>1. Init => IInv
  BY InitInv
<1>2. IInv /\ [Next]_vars => IInv'
  BY NextInv
<1> QED
  BY <1>1, <1>2, PTL DEF Spec

-----------------------------------------------------------------------------
(* What follows from the invariant. *)

LEMMA KeptTypes == IInv => TypeOK
<1> SUFFICES ASSUME IInv
             PROVE  TypeOK
  OBVIOUS
<1> DEFINE A == DOMAIN ed.heap
           N == [id : Nat, parent : A \cup {Nil}, children : Seq(A),
                 slots : [Slots -> A \cup {Nil}], tokens : SUBSET Offsets,
                 start : Nat, end : Nat, spanValid : BOOLEAN]
<1>1. PICK X : Sound(ed, rules, since, X)
  BY DEF IInv, Kept
<1>2. Structured(ed, rules, since) /\ IsEditor(ed)
  BY <1>1 DEF Sound, Structured
<1>3. Node(A) \subseteq N
  <2>1. Ends \subseteq Nat
    <3>1. LastOffset \in Nat
      BY LastOffsetIsLast
    <3> QED
      BY <3>1 DEF Ends
  <2> SUFFICES ASSUME NEW node \in Node(A)
               PROVE  node \in N
    OBVIOUS
  <2> QED
    BY <2>1 DEF Node
<1>4. ed.heap \in Seq(N)
  <2>1. ed.heap \in Seq(Node(A))
    BY <1>2, HeapOf
  <2> HIDE DEF N, A
  <2> QED
    BY <1>3, <2>1, SeqMonotonic
<1>5. ed \in [heap : Seq(N), nextID : Nat, root : A \cup {Nil}, frozen : BOOLEAN,
              treeDirty : BOOLEAN, created : Seq(A), nodeFree : Seq(A), inUse : BOOLEAN]
  <2> HIDE DEF N
  <2> QED
    BY <1>2, <1>4 DEF IsEditor, Editor
<1>6. /\ since \in 0 .. Len(ed.created)
      /\ rules \in Seq([at : since .. Len(ed.created), fragments : SUBSET A])
  BY <1>2 DEF Structured, Activations
<1>7. handed \in A \cup {Nil} /\ sealed \subseteq A
  BY DEF IInv
<1> QED
  BY <1>5, <1>6, <1>7 DEF TypeOK, Addresses

(* In a tree every node is linked once, from its parent. *)
LEMMA PlacesOf ==
  ASSUME IsEditor(ed), NEW X, TreeIn(ed.heap, X), NEW p \in X, NEW n \in X
  PROVE  LinkedOnce(p, n)
<1> DEFINE node == ed.heap[p]
           A == DOMAIN ed.heap
<1>1. node \in Node(A) /\ n # Nil
  BY HeapOf DEF TreeIn
<1>2. /\ DOMAIN node.children = 1 .. Len(node.children)
      /\ n \in Below(node) <=> \/ \E i \in 1 .. Len(node.children) : node.children[i] = n
                               \/ \E s \in Slots : node.slots[s] = n
  BY <1>1, BelowInside, BelowOf
<1>3. Distinct(node) /\ (n \in Below(node) <=> Parent(n) = p)
  BY DEF TreeIn, Parent
<1>4. Places(p, n) = {<<"child", i>> : i \in {i \in 1 .. Len(node.children) : node.children[i] = n}}
                       \cup {<<"slot", s>> : s \in {s \in Slots : node.slots[s] = n}}
  BY <1>2 DEF Places
<1> HIDE DEF node
<1>5. CASE Parent(n) # p
  <2>1. Places(p, n) = {}
    BY <1>2, <1>3, <1>4, <1>5
  <2> QED
    BY <1>5, <2>1 DEF LinkedOnce
<1>6. ASSUME Parent(n) = p, NEW i \in 1 .. Len(node.children), node.children[i] = n
      PROVE  \E place \in Places(p, n) : Places(p, n) = {place}
  <2>1. \A j \in 1 .. Len(node.children) : node.children[j] = n => j = i
    BY <1>3, <1>6 DEF Distinct
  <2>2. \A s \in Slots : node.slots[s] # n
    BY <1>3, <1>6 DEF Distinct
  <2>3. Places(p, n) = {<<"child", i>>}
    BY <1>4, <1>6, <2>1, <2>2
  <2> QED
    BY <2>3
<1>7. ASSUME Parent(n) = p, NEW s \in Slots, node.slots[s] = n
      PROVE  \E place \in Places(p, n) : Places(p, n) = {place}
  <2>1. \A r \in Slots : node.slots[r] = n => r = s
    BY <1>1, <1>3, <1>7 DEF Distinct
  <2>2. \A j \in 1 .. Len(node.children) : node.children[j] # n
    BY <1>3, <1>7 DEF Distinct
  <2>3. Places(p, n) = {<<"slot", s>>}
    BY <1>4, <1>7, <2>1, <2>2
  <2> QED
    BY <2>3
<1> QED
  BY <1>2, <1>3, <1>5, <1>6, <1>7 DEF LinkedOnce

LEMMA OwnedFromIs == \A i : OwnedFrom(i) = OwnedBy(ed, rules, i)
BY DEF OwnedFrom, OwnedBy, Since, After

LEMMA KeptNodesOf ==
  ASSUME NEW X, Sound(ed, rules, since, X)
  PROVE  X \in SUBSET Addresses /\ KeptNodes(X)
<1>1. /\ IsEditor(ed) /\ Structured(ed, rules, since) /\ Keeping(ed, rules, X)
      /\ TreeIn(ed.heap, X)
  BY DEF Sound, Structured, Keeping
<1>2. DOMAIN rules = 1 .. Len(rules)
  BY <1>1, ActivationOf
<1>3. Held \subseteq X /\ X \cap Range(ed.nodeFree) = {}
  BY <1>1, <1>2 DEF Held, Keeping
<1>4. LinksInside(X) /\ X \subseteq Addresses
  BY <1>1 DEF LinksInside, TreeIn, Parent, Addresses
<1>5. \A p, n \in X : LinkedOnce(p, n)
  BY <1>1, PlacesOf
<1>6. \A i \in DOMAIN rules, n \in X :
         Parent(n) # Nil => (n \in OwnedFrom(i) <=> Parent(n) \in OwnedFrom(i))
  BY <1>1, <1>2, OwnedFromIs DEF Keeping, Local, Parent
<1> QED
  BY <1>3, <1>4, <1>5, <1>6 DEF KeptNodes

LEMMA KeptAreKept == IInv => NodesAreKept
<1> SUFFICES ASSUME IInv
             PROVE  NodesAreKept
  OBVIOUS
<1>1. PICK X : Sound(ed, rules, since, X)
  BY DEF IInv, Kept
<1>2. \E Y \in SUBSET Addresses : KeptNodes(Y)
  BY <1>1, KeptNodesOf
<1>3. Structured(ed, rules, since) /\ DOMAIN rules = 1 .. Len(rules)
  BY <1>1, ActivationOf DEF Sound
<1>4. FragmentsApart
  BY <1>3 DEF FragmentsApart, Structured, Slotless
<1>5. ActivationsNest
  BY <1>3 DEF ActivationsNest, Structured, IInv, Kept
<1> QED
  BY <1>2, <1>3, <1>4, <1>5 DEF NodesAreKept, Structured

(* What can be reached from what is held is kept too. *)
LEMMA LiveInside ==
  ASSUME NEW X, Sound(ed, rules, since, X)
  PROVE  Live \subseteq X
<1>1. IsEditor(ed) /\ TreeIn(ed.heap, X)
  BY DEF Sound, Structured, Keeping
<1>2. Held \subseteq X
  BY KeptNodesOf DEF KeptNodes
<1>3. \A m \in X : Below(ed.heap[m]) \subseteq X
  BY <1>1 DEF TreeIn
<1>4. \A n \in X : Tree(ed, n) \subseteq X
  BY <1>1, <1>3, VisitedInside DEF Tree
<1> QED
  BY <1>2, <1>4 DEF Live

LEMMA KeptProperties == IInv => LinksAgree /\ PoolIsDisjoint /\ RollbackIsLocal
<1> SUFFICES ASSUME IInv
             PROVE  LinksAgree /\ PoolIsDisjoint /\ RollbackIsLocal
  OBVIOUS
<1>1. PICK X : Sound(ed, rules, since, X)
  BY DEF IInv, Kept
<1>2. Live \subseteq X /\ KeptNodes(X)
  BY <1>1, LiveInside, KeptNodesOf
<1>3. LinksAgree
  BY <1>2 DEF LinksAgree, KeptNodes
<1>4. PoolIsDisjoint
  <2>1. IsInjective(ed.nodeFree) /\ IsInjective(ed.created)
    BY <1>1 DEF Sound, Structured
  <2>2. Nil \notin Range(ed.nodeFree)
    <3>1. Structured(ed, rules, since) /\ Nil \notin DOMAIN ed.heap
      BY <1>1, HeapOf DEF Sound, Structured
    <3>2. ed.nodeFree \in Seq(DOMAIN ed.heap)
      BY <3>1, ActivationOf
    <3> QED
      BY <3>1, <3>2 DEF Range
  <2>3. \A n \in X : {n, Parent(n)} \cap Range(ed.nodeFree) = {}
    BY <1>2, <2>2 DEF KeptNodes, LinksInside
  <2> QED
    BY <1>2, <2>1, <2>3 DEF PoolIsDisjoint
<1>5. RollbackIsLocal
  BY <1>2 DEF RollbackIsLocal, KeptNodes
<1> QED
  BY <1>3, <1>4, <1>5

(* The editor, the activations and what a caller holds point into the heap *)
(* (ast_editor.go:15-28).                                                  *)
THEOREM TypeCorrect == Spec => []TypeOK
BY AlwaysKept, KeptTypes, PTL

(* Some set of linked nodes holds what is held and excludes the pool, and  *)
(* fragments and activations are kept apart (ast_editor.go:130-308,        *)
(* parser.go:318-358).                                                     *)
THEOREM NodesKept == Spec => []NodesAreKept
BY AlwaysKept, KeptAreKept, PTL

(* Every live node is linked once, from its parent, and from no other live *)
(* node (ast_editor.go:183-308).                                           *)
THEOREM LinksAlwaysAgree == Spec => []LinksAgree
BY AlwaysKept, KeptProperties, PTL

(* No live node, nor its parent, waits in the pool (ast_editor.go:130).    *)
THEOREM PoolAlwaysDisjoint == Spec => []PoolIsDisjoint
BY AlwaysKept, KeptProperties, PTL

(* No link joins what a failing rule would free with what would stay       *)
(* (parser.go:326, 353).                                                   *)
THEOREM RollbackAlwaysLocal == Spec => []RollbackIsLocal
BY AlwaysKept, KeptProperties, PTL

LEMMA KeptIds == IInv /\ Careful => IdsAreUnique
<1> SUFFICES ASSUME IInv, Careful
             PROVE  IdsAreUnique
  OBVIOUS
<1>1. Numbered(ed, since)
  BY DEF IInv, Kept
<1> QED
  BY <1>1 DEF IdsAreUnique, Since, Numbered

(* While callers do not go on editing after Freeze, which restarts the     *)
(* count, no two nodes of a session share an id although nodes are         *)
(* recycled (ast_node.go:27, ast_editor.go:88-146).                        *)
THEOREM IdsAlwaysUnique ==
  ASSUME Careful
  PROVE  Spec => []IdsAreUnique
<1>1. IInv => IdsAreUnique
  BY KeptIds
<1> QED
  BY <1>1, AlwaysKept, PTL


-----------------------------------------------------------------------------
(* Trees.                                                                  *)

(* What 0 has and each number hands on to the next.                        *)
LEMMA CountUp ==
  ASSUME NEW L \in Nat, NEW T, 0 \in T, \A d \in 1 .. L : d - 1 \in T => d \in T
  PROVE  \A d \in 0 .. L : d \in T
<1> DEFINE f == [d \in 0 .. L |-> d]
<1>1. f[0] \in T
  OBVIOUS
<1>2. \A d \in 1 .. L : f[d - 1] \in T => f[d] \in T
  <2> TAKE d \in 1 .. L
  <2>1. f[d - 1] = d - 1 /\ f[d] = d
    OBVIOUS
  <2> HIDE DEF f
  <2> QED
    BY <2>1
<1>3. \A d \in 0 .. L : f[d] = d
  OBVIOUS
<1> HIDE DEF f
<1> QED
  BY <1>1, <1>2, <1>3, StepByStep

(* The walk from a node, without regard to what is valid: a node d links   *)
(* away is reached after d steps.                                          *)
Walk(e, n) == Reach(e, n, TRUE)

LEMMA WalkSteps ==
  ASSUME NEW e, IsEditor(e), NEW n \in DOMAIN e.heap
  PROVE  /\ Tree(e, n) = Walk(e, n)[Len(e.heap)]
         /\ \A x : x \in Walk(e, n)[0] <=> x = n
         /\ \A d \in 1 .. Len(e.heap) : \A x :
               x \in Walk(e, n)[d] <=>
                 x \in Walk(e, n)[d - 1] \/ \E m \in Walk(e, n)[d - 1] : x \in Below(e.heap[m])
         /\ \A d \in 0 .. Len(e.heap) : Walk(e, n)[d] \subseteq DOMAIN e.heap
<1> DEFINE A == DOMAIN e.heap
           L == Len(e.heap)
           walk == Reach(e, n, TRUE)
<1>1. e.heap \in [A -> Node(A)] /\ Nil \notin A
  BY HeapOf
<1>2. \A m \in A : Below(e.heap[m]) \subseteq A
  BY <1>1, BelowInside
<1>3. /\ Visited(e, n, TRUE) = walk[L]
      /\ walk[0] = {n}
      /\ \A d \in 1 .. L : walk[d] = Entered(e, walk[d - 1], TRUE)
      /\ \A d \in 0 .. L : walk[d] \subseteq A
  BY <1>2, VisitedSteps, Zenon
<1>4. Tree(e, n) = walk[L]
  BY <1>1, <1>3 DEF Tree
<1> HIDE DEF walk, L
<1>5. ASSUME NEW T, NEW x
      PROVE  x \in Entered(e, T, TRUE) <=> x \in T \/ \E m \in T : x \in Below(e.heap[m])
  BY DEF Entered
<1>6. \A d \in 1 .. L : \A x :
         x \in walk[d] <=> x \in walk[d - 1] \/ \E m \in walk[d - 1] : x \in Below(e.heap[m])
  <2> TAKE d \in 1 .. L
  <2> TAKE x
  <2>1. walk[d] = Entered(e, walk[d - 1], TRUE)
    BY <1>3
  <2>2. x \in Entered(e, walk[d - 1], TRUE) <=>
          x \in walk[d - 1] \/ \E m \in walk[d - 1] : x \in Below(e.heap[m])
    BY <1>5
  <2> QED
    BY <2>1, <2>2, Zenon
<1> QED
  BY <1>3, <1>4, <1>6 DEF Walk, walk, L

(* A walk begins with one step to each node below.                         *)
LEMMA WalkFirst ==
  ASSUME NEW e, IsEditor(e)
  PROVE  \A d \in 1 .. Len(e.heap), n \in DOMAIN e.heap : \A x :
            x \in Walk(e, n)[d] <=> x = n \/ \E k \in Below(e.heap[n]) : x \in Walk(e, k)[d - 1]
<1> DEFINE A == DOMAIN e.heap
           L == Len(e.heap)
           B(n) == Below(e.heap[n])
           First(d) == \A n \in A : \A x :
              x \in Walk(e, n)[d] <=> x = n \/ \E k \in B(n) : x \in Walk(e, k)[d - 1]
           T == {0} \cup {d \in 1 .. L : First(d)}
<1>1. L \in Nat /\ e.heap \in [A -> Node(A)]
  BY HeapOf
<1>2. \A n \in A : B(n) \subseteq A
  BY <1>1, BelowInside
<1>3. /\ \A n \in A : \A x : x \in Walk(e, n)[0] <=> x = n
      /\ \A n \in A, d \in 1 .. L : \A x : x \in Walk(e, n)[d] <=>
            x \in Walk(e, n)[d - 1] \/ \E m \in Walk(e, n)[d - 1] : x \in B(m)
  BY WalkSteps
<1> HIDE DEF A, L, B
<1>4. ASSUME NEW d \in 1 .. L, d - 1 \in T
      PROVE  First(d)
  <2> SUFFICES ASSUME NEW n \in A, NEW x
               PROVE  x \in Walk(e, n)[d] <=> x = n \/ \E k \in B(n) : x \in Walk(e, k)[d - 1]
    OBVIOUS
  <2>1. x \in Walk(e, n)[d] <=>
            x \in Walk(e, n)[d - 1] \/ \E m \in Walk(e, n)[d - 1] : x \in B(m)
    BY <1>3
  <2>2. CASE d = 1
    <3>1. d - 1 = 0
      BY <2>2
    <3>2. \A y : y \in Walk(e, n)[d - 1] <=> y = n
      BY <1>3, <3>1
    <3>3. \A k \in B(n) : \A y : y \in Walk(e, k)[d - 1] <=> y = k
      BY <1>2, <1>3, <3>1
    <3> QED
      BY <2>1, <3>2, <3>3
  <2>3. CASE d # 1
    <3>1. d - 1 \in 1 .. L
      BY <1>1, <2>3
    <3>2. First(d - 1)
      BY <1>4, <3>1
    <3>3. \A y : y \in Walk(e, n)[d - 1] <=>
                   y = n \/ \E k \in B(n) : y \in Walk(e, k)[d - 1 - 1]
      BY <3>2
    <3>4. \A k \in B(n) : \A y : y \in Walk(e, k)[d - 1] <=>
            y \in Walk(e, k)[d - 1 - 1] \/ \E m \in Walk(e, k)[d - 1 - 1] : y \in B(m)
      BY <1>2, <1>3, <3>1
    <3>5. \A k \in B(n) : k \in Walk(e, k)[d - 1]
      BY <1>2, <3>2
    <3> HIDE DEF First
    <3> QED
      BY <2>1, <3>3, <3>4, <3>5, SMTT(30)
  <2> QED
    BY <2>2, <2>3
<1>5. 0 \in T /\ \A d \in 1 .. L : d - 1 \in T => d \in T
  BY <1>4
<1>6. \A d \in 1 .. L : d \in T /\ d # 0
  <2> HIDE DEF T
  <2>1. \A d \in 0 .. L : d \in T
    BY <1>1, <1>5, CountUp
  <2> QED
    BY <1>1, <2>1
<1>7. \A d \in 1 .. L : First(d)
  BY <1>6
<1> QED
  BY <1>7 DEF A, L, B

(* The walk has ended after as many steps as there are nodes: the tree of  *)
(* a node is closed under links.                                           *)
LEMMA TreeCloses ==
  ASSUME NEW e, IsEditor(e), NEW n \in DOMAIN e.heap
  PROVE  /\ n \in Tree(e, n) /\ Tree(e, n) \subseteq DOMAIN e.heap
         /\ \A m \in Tree(e, n) : Below(e.heap[m]) \subseteq Tree(e, n)
<1> DEFINE A == DOMAIN e.heap
           L == Len(e.heap)
           W(d) == Walk(e, n)[d]
           Closed(d) == \A m \in W(d) : Below(e.heap[m]) \subseteq W(d)
           T == {d \in 0 .. L : n \in W(d) /\ (Closed(d) \/ Cardinality(W(d)) > d)}
<1>1. L \in Nat /\ A = 1 .. L
  BY HeapOf
<1>2. /\ Tree(e, n) = W(L)
      /\ \A x : x \in W(0) <=> x = n
      /\ \A d \in 1 .. L : \A x :
            x \in W(d) <=> x \in W(d - 1) \/ \E m \in W(d - 1) : x \in Below(e.heap[m])
      /\ \A d \in 0 .. L : W(d) \subseteq A
  BY WalkSteps
<1>3. IsFiniteSet(A) /\ Cardinality(A) = L
  BY <1>1, FS_Interval
<1> HIDE DEF A, L, W
<1>4. ASSUME NEW d \in 0 .. L
      PROVE  /\ IsFiniteSet(W(d)) /\ Cardinality(W(d)) \in Nat /\ Cardinality(W(d)) <= L
             /\ \A V \in SUBSET W(d) :
                   /\ Cardinality(V) \in Nat /\ Cardinality(V) <= Cardinality(W(d))
                   /\ Cardinality(V) = Cardinality(W(d)) => V = W(d)
  <2>1. W(d) \subseteq A
    BY <1>2
  <2>2. IsFiniteSet(W(d)) /\ Cardinality(W(d)) <= L
    BY <1>3, <2>1, FS_Subset
  <2>3. \A V \in SUBSET W(d) :
            /\ IsFiniteSet(V) /\ Cardinality(V) <= Cardinality(W(d))
            /\ Cardinality(W(d)) = Cardinality(V) => W(d) = V
    BY <2>2, FS_Subset
  <2> QED
    BY <2>2, <2>3, FS_CardinalityType
<1>5. 0 \in T
  <2>1. W(0) = {n}
    BY <1>2
  <2>2. Cardinality(W(0)) = 1
    BY <2>1, FS_Singleton
  <2> QED
    BY <1>1, <2>1, <2>2
<1>6. ASSUME NEW d \in 1 .. L, d - 1 \in T
      PROVE  d \in T
  <2>1. d \in 0 .. L /\ d - 1 \in 0 .. L /\ d - 1 \in Nat
    BY <1>1
  <2>2. \A x : x \in W(d) <=> x \in W(d - 1) \/ \E m \in W(d - 1) : x \in Below(e.heap[m])
    BY <1>2
  <2>3. n \in W(d) /\ W(d - 1) \subseteq W(d)
    BY <1>6, <2>2
  <2>4. CASE Closed(d - 1)
    <3>1. W(d) = W(d - 1)
      BY <2>2, <2>4
    <3>2. Closed(d)
      BY <2>4, <3>1
    <3> QED
      BY <2>1, <2>3, <3>2
  <2>5. CASE ~Closed(d - 1)
    <3>1. W(d) # W(d - 1)
      BY <2>2, <2>5
    <3>2. Cardinality(W(d - 1)) > d - 1
      BY <1>6, <2>5
    <3>3. /\ Cardinality(W(d)) \in Nat /\ Cardinality(W(d - 1)) \in Nat
          /\ Cardinality(W(d - 1)) <= Cardinality(W(d))
          /\ Cardinality(W(d - 1)) # Cardinality(W(d))
      BY <1>4, <2>1, <2>3, <3>1
    <3>4. Cardinality(W(d)) > d
      BY <2>1, <3>2, <3>3
    <3> QED
      BY <2>1, <2>3, <3>4
  <2> QED
    BY <2>4, <2>5
<1>7. L \in T
  <2> HIDE DEF T
  <2>1. \A d \in 0 .. L : d \in T
    BY <1>1, <1>5, <1>6, CountUp
  <2> QED
    BY <1>1, <2>1
<1>8. n \in W(L) /\ Closed(L) /\ W(L) \subseteq A
  <2>1. L \in 0 .. L
    BY <1>1
  <2>2. Cardinality(W(L)) \in Nat /\ Cardinality(W(L)) <= L /\ W(L) \subseteq A
    BY <1>2, <1>4, <2>1
  <2> QED
    BY <1>1, <1>7, <2>2
<1> QED
  BY <1>2, <1>8 DEF A

(* The tree of a node is the least set that holds it and is closed.        *)
LEMMA TreeWithin ==
  ASSUME NEW e, IsEditor(e), NEW n \in DOMAIN e.heap, NEW X, n \in X,
         \A m \in X : Below(e.heap[m]) \subseteq X
  PROVE  Tree(e, n) \subseteq X
BY HeapOf, VisitedInside DEF Tree

LEMMA SubtreeWithin ==
  ASSUME NEW e, IsEditor(e), NEW n \in DOMAIN e.heap, NEW m \in Tree(e, n)
  PROVE  m \in DOMAIN e.heap /\ Tree(e, m) \subseteq Tree(e, n)
<1>1. m \in DOMAIN e.heap /\ \A k \in Tree(e, n) : Below(e.heap[k]) \subseteq Tree(e, n)
  BY TreeCloses
<1> QED
  BY <1>1, TreeWithin

(* A tree stays while nothing is linked or unlinked in it, although the    *)
(* heap may grow.                                                          *)
LEMMA SameTree ==
  ASSUME NEW e, IsEditor(e), NEW d, IsEditor(d), DOMAIN e.heap \subseteq DOMAIN d.heap,
         NEW n \in DOMAIN e.heap,
         \A m \in Tree(e, n) : Below(d.heap[m]) = Below(e.heap[m])
  PROVE  Tree(d, n) = Tree(e, n)
<1>1. /\ n \in Tree(e, n)
      /\ \A m \in Tree(e, n) : Below(e.heap[m]) \subseteq Tree(e, n)
  BY TreeCloses
<1>2. Tree(d, n) \subseteq Tree(e, n)
  BY <1>1, TreeWithin
<1>3. n \in Tree(d, n) /\ \A m \in Tree(d, n) : Below(d.heap[m]) \subseteq Tree(d, n)
  BY TreeCloses
<1>4. Tree(e, n) \subseteq Tree(d, n)
  <2>1. \A m \in Tree(d, n) : Below(e.heap[m]) \subseteq Tree(d, n)
    BY <1>2, <1>3
  <2> QED
    BY <1>3, <2>1, TreeWithin
<1> QED
  BY <1>2, <1>4

-----------------------------------------------------------------------------
(* Spans.                                                                  *)

(* The span of a node is that of the lexemes C.                            *)
Fitting(node, C) ==
  /\ node.spanValid <=> C # {}
  /\ node.spanValid => /\ node.start \in C /\ node.end - 1 \in C
                       /\ \A t \in C : node.start <= t /\ t < node.end

LEMMA GreatestNumber ==
  ASSUME NEW T, T # {}, T \subseteq Ends
  PROVE  \E x \in T : \A y \in T : x >= y
<1> DEFINE last == LastOffset + 1
           U == {last - h : h \in T}
<1>1. last \in Nat /\ T \subseteq 0 .. last
  BY LastOffsetIsLast DEF Ends
<1>2. U \subseteq Nat /\ U # {}
  <2> HIDE DEF last
  <2>1. \A h \in T : last - h \in Nat
    BY <1>1
  <2> QED
    BY <2>1
<1>3. PICK x \in U : \A y \in U : x <= y
  <2> HIDE DEF U
  <2> QED
    BY <1>2, LeastNumber, Zenon
<1>4. PICK h \in T : x = last - h
  BY <1>3
<1>5. \A m \in T : last - h <= last - m
  BY <1>3, <1>4
<1> HIDE DEF last
<1> QED
  BY <1>1, <1>5

(* Reconciling one node whose own lexemes are T and whose children have    *)
(* the spans of the lexemes C[k].                                          *)
LEMMA MergedFits ==
  ASSUME NEW A, NEW node \in Node(A), NEW below \in [A -> Node(A)], NEW C,
         \A k \in Below(node) : C[k] \subseteq Nat /\ Fitting(below[k], C[k]),
         NEW D, \A t : t \in D <=> t \in node.tokens \/ \E k \in Below(node) : t \in C[k]
  PROVE  Merged(node, below, TRUE).tokens = node.tokens /\ Fitting(Merged(node, below, TRUE), D)
<1> DEFINE T == node.tokens
           kids == {k \in Below(node) : below[k].spanValid}
           lows == T \cup {below[k].start : k \in kids}
           highs == {t + 1 : t \in T} \cup {below[k].end : k \in kids}
           low == CHOOSE l \in lows : \A m \in lows : l <= m
           high == CHOOSE h \in highs : \A m \in highs : h >= m
           new == Merged(node, below, TRUE)
<1>0. \A t : t \in D <=> t \in T \/ \E k \in Below(node) : t \in C[k]
  OBVIOUS
<1>1. Below(node) \subseteq A /\ T \subseteq Offsets /\ Offsets \subseteq Nat
  BY BelowInside, LastOffsetIsLast DEF Node
<1>2. \A k \in A : below[k].start \in Nat /\ below[k].end \in Ends /\ below[k].spanValid \in BOOLEAN
  BY DEF Node
<1>3. \A t \in T : t \in Nat /\ t + 1 \in Ends
  <2> HIDE DEF T
  <2> TAKE t \in T
  <2>1. t \in Nat /\ t <= LastOffset /\ LastOffset \in Nat
    BY <1>1, LastOffsetIsLast
  <2> QED
    BY <2>1 DEF Ends
<1>4. Ends \subseteq Nat
  BY LastOffsetIsLast DEF Ends
<1>5. new = IF lows = {} THEN [node EXCEPT !.spanValid = FALSE]
            ELSE [node EXCEPT !.spanValid = TRUE, !.start = low, !.end = high]
  BY Zenon DEF Merged
<1>6. /\ new.tokens = T /\ new.spanValid = (lows # {})
      /\ lows # {} => new.start = low /\ new.end = high
  <2> HIDE DEF lows, low, high, new
  <2> QED
    BY <1>5 DEF Node
<1>7. \A k \in kids : /\ k \in Below(node) /\ C[k] # {}
                   /\ below[k].start \in C[k] /\ below[k].end - 1 \in C[k]
                   /\ \A t \in C[k] : below[k].start <= t /\ t < below[k].end
  BY DEF Fitting
<1>8. \A k \in Below(node) : k \notin kids => C[k] = {}
  BY DEF Fitting
<1> HIDE DEF T, new
<1>9. lows \in SUBSET Nat /\ highs \in SUBSET Ends
  <2>1. \A k \in kids : below[k].start \in Nat /\ below[k].end \in Ends
    BY <1>1, <1>2
  <2> HIDE DEF kids
  <2> QED
    BY <1>3, <2>1
<1>10. \A l \in lows : l \in D
  <2> HIDE DEF kids
  <2> QED
    BY <1>0, <1>7
<1>11. \A h \in highs : h - 1 \in D
  <2> HIDE DEF kids
  <2> TAKE h \in highs
  <2>1. CASE \E t \in T : h = t + 1
    <3>1. PICK t \in T : h = t + 1
      BY <2>1
    <3>2. h - 1 = t
      BY <1>3, <3>1
    <3> QED
      BY <1>0, <3>2
  <2>2. CASE \E k \in kids : h = below[k].end
    BY <1>0, <1>7, <2>2
  <2> QED
    BY <2>1, <2>2
<1>12. \A t \in D : t \in Nat /\ (\E l \in lows : l <= t) /\ (\E h \in highs : t < h)
  <2> TAKE t \in D
  <2>1. CASE t \in T
    <3>1. t \in lows /\ t + 1 \in highs /\ t \in Nat
      BY <1>3, <2>1
    <3> HIDE DEF lows, highs
    <3> QED
      BY <3>1
  <2>2. CASE t \notin T
    <3>1. PICK k \in Below(node) : t \in C[k]
      BY <1>0, <2>2
    <3>0. t \in Nat
      BY <3>1
    <3>2. k \in kids
      BY <1>8, <3>1
    <3>3. below[k].start \in lows /\ below[k].end \in highs
      BY <3>2
    <3>4. below[k].start <= t /\ t < below[k].end
      BY <1>7, <3>1, <3>2
    <3> HIDE DEF lows, highs, kids
    <3> QED
      BY <3>0, <3>3, <3>4
  <2> QED
    BY <2>1, <2>2
<1>13. lows # {} <=> highs # {}
  <2> HIDE DEF kids
  <2> QED
    BY ZenonT(60)
<1> HIDE DEF lows, highs
<1>14. lows # {} => /\ low \in lows /\ \A m \in lows : low <= m
                    /\ high \in highs /\ \A m \in highs : high >= m
  <2>1. lows # {} => \E l \in lows : \A m \in lows : l <= m
    BY <1>9, LeastNumber
  <2>2. lows # {} => \E h \in highs : \A m \in highs : h >= m
    BY <1>9, <1>13, GreatestNumber
  <2> QED
    BY <2>1, <2>2, Zenon
<1> HIDE DEF low, high
<1>15. D # {} <=> lows # {}
  BY <1>10, <1>12
<1>16. lows # {} => /\ low \in D /\ high - 1 \in D
                    /\ \A t \in D : low <= t /\ t < high
  <2> SUFFICES ASSUME lows # {}
               PROVE  /\ low \in D /\ high - 1 \in D
                      /\ \A t \in D : low <= t /\ t < high
    OBVIOUS
  <2>1. low \in D /\ high - 1 \in D /\ low \in Nat /\ high \in Nat
    BY <1>4, <1>9, <1>10, <1>11, <1>14
  <2>2. ASSUME NEW t \in D
        PROVE  low <= t /\ t < high
    <3>1. PICK l \in lows, h \in highs : l <= t /\ t < h
      BY <1>12
    <3>2. low <= l /\ h <= high /\ l \in Nat /\ h \in Nat /\ t \in Nat
      BY <1>4, <1>9, <1>12, <1>14
    <3> QED
      BY <2>1, <3>1, <3>2
  <2> QED
    BY <2>1, <2>2
<1>17. Fitting(new, D)
  BY <1>6, <1>15, <1>16 DEF Fitting
<1> QED
  BY <1>6, <1>17 DEF new, T

(* The lexemes of the nodes that the walk from n has reached after d       *)
(* steps, and those of its tree.                                           *)
CoveredBy(e, n, d) == UNION {e.heap[m].tokens : m \in Walk(e, n)[d]}

CoveredIn(e, n) == UNION {e.heap[m].tokens : m \in Tree(e, n)}

(* A walk of d steps covers what the walks of d - 1 steps from the nodes   *)
(* below cover, and the own lexemes.                                       *)
LEMMA CoverSteps ==
  ASSUME NEW e, IsEditor(e), NEW n \in DOMAIN e.heap
  PROVE  /\ CoveredBy(e, n, 0) = e.heap[n].tokens
         /\ CoveredBy(e, n, Len(e.heap)) = CoveredIn(e, n)
         /\ \A d \in 1 .. Len(e.heap) :
               CoveredBy(e, n, d) = e.heap[n].tokens
                                      \cup UNION {CoveredBy(e, k, d - 1) : k \in Below(e.heap[n])}
         /\ \A d \in 0 .. Len(e.heap) : CoveredBy(e, n, d) \subseteq Nat
<1>1. /\ Tree(e, n) = Walk(e, n)[Len(e.heap)]
      /\ \A x : x \in Walk(e, n)[0] <=> x = n
      /\ \A d \in 0 .. Len(e.heap) : Walk(e, n)[d] \subseteq DOMAIN e.heap
  BY WalkSteps
<1>2. CoveredBy(e, n, 0) = e.heap[n].tokens
  BY <1>1 DEF CoveredBy
<1>3. CoveredBy(e, n, Len(e.heap)) = CoveredIn(e, n)
  BY <1>1 DEF CoveredBy, CoveredIn
<1>4. ASSUME NEW d \in 1 .. Len(e.heap), NEW t
      PROVE  t \in CoveredBy(e, n, d) <=>
               t \in e.heap[n].tokens \cup UNION {CoveredBy(e, k, d - 1) : k \in Below(e.heap[n])}
  <2>1. \A x : x \in Walk(e, n)[d] <=> x = n \/ \E k \in Below(e.heap[n]) : x \in Walk(e, k)[d - 1]
    BY WalkFirst
  <2>2. t \in CoveredBy(e, n, d) <=> \E x \in Walk(e, n)[d] : t \in e.heap[x].tokens
    BY DEF CoveredBy
  <2>3. \A k : t \in CoveredBy(e, k, d - 1) <=> \E x \in Walk(e, k)[d - 1] : t \in e.heap[x].tokens
    BY DEF CoveredBy
  <2>4. t \in UNION {CoveredBy(e, k, d - 1) : k \in Below(e.heap[n])} <=>
          \E k \in Below(e.heap[n]) : t \in CoveredBy(e, k, d - 1)
    OBVIOUS
  <2> QED
    BY <2>1, <2>2, <2>3, <2>4
<1>5. ASSUME NEW d \in 0 .. Len(e.heap)
      PROVE  CoveredBy(e, n, d) \subseteq Nat
  <2>1. Walk(e, n)[d] \subseteq DOMAIN e.heap
    BY <1>1
  <2>2. \A m \in DOMAIN e.heap : e.heap[m].tokens \subseteq Nat
    BY HeapOf, LastOffsetIsLast DEF Node
  <2> QED
    BY <2>1, <2>2 DEF CoveredBy
<1> QED
  BY <1>2, <1>3, <1>4, <1>5

(* The recursion of ensureSpanValid, forced, gives every node the span of  *)
(* the lexemes of its tree and leaves it its lexemes.                      *)
LEMMA SpannedFits ==
  ASSUME NEW e, IsEditor(e)
  PROVE  \A n \in DOMAIN e.heap :
            /\ Spanned(e, TRUE)[n].tokens = e.heap[n].tokens
            /\ Fitting(Spanned(e, TRUE)[n], CoveredIn(e, n))
<1> DEFINE A == DOMAIN e.heap
           L == Len(e.heap)
           zero == [n \in A |-> ZeroNode]
           at == SpannedAt(e, TRUE)
           Fits(d) == \A n \in A : /\ at[d][n].tokens = e.heap[n].tokens
                                   /\ Fitting(at[d][n], CoveredBy(e, n, d))
           T == {d \in 0 .. L : Fits(d)}
<1>1. L \in Nat /\ e.heap \in [A -> Node(A)] /\ \A n \in A : Below(e.heap[n]) \subseteq A
  BY HeapOf, BelowInside
<1>2. /\ Spanned(e, TRUE) = at[L]
      /\ at[0] = MergedAll(e, zero, TRUE)
      /\ \A d \in 1 .. L : at[d] = MergedAll(e, at[d - 1], TRUE)
      /\ \A d \in 0 .. L : at[d] \in [A -> Node(A)]
  BY SpannedSteps, Zenon
<1>3. zero \in [A -> Node(A)] /\ \A n \in A : Fitting(zero[n], {})
  BY ZeroIsNode DEF ZeroNode, Fitting
<1>4. ASSUME NEW below
      PROVE  \A n \in A : MergedAll(e, below, TRUE)[n] = Merged(e.heap[n], below, TRUE)
  BY DEF MergedAll
<1>5. \A n \in A : /\ CoveredBy(e, n, 0) = e.heap[n].tokens
                   /\ CoveredBy(e, n, L) = CoveredIn(e, n)
  BY CoverSteps
<1>6. \A d \in 1 .. L, n \in A :
         CoveredBy(e, n, d) = e.heap[n].tokens
                                \cup UNION {CoveredBy(e, k, d - 1) : k \in Below(e.heap[n])}
  BY CoverSteps
<1>7. \A d \in 0 .. L, n \in A : CoveredBy(e, n, d) \subseteq Nat
  BY CoverSteps
<1> HIDE DEF A, L, zero, at
<1>8. \A n \in A : e.heap[n] \in Node(A)
  BY <1>1
<1>9. Fits(0)
  <2> SUFFICES ASSUME NEW n \in A
               PROVE  /\ at[0][n].tokens = e.heap[n].tokens
                      /\ Fitting(at[0][n], CoveredBy(e, n, 0))
    OBVIOUS
  <2> DEFINE C == [k \in A |-> {}]
             D == CoveredBy(e, n, 0)
  <2>1. \A k \in Below(e.heap[n]) : C[k] = {} /\ C[k] \subseteq Nat /\ Fitting(zero[k], C[k])
    BY <1>1, <1>3
  <2>2. D = e.heap[n].tokens
    BY <1>5
  <2>3. at[0][n] = Merged(e.heap[n], zero, TRUE)
    BY <1>2, <1>4
  <2> HIDE DEF C, D
  <2>4. \A t : t \in D <=> t \in e.heap[n].tokens \/ \E k \in Below(e.heap[n]) : t \in C[k]
    BY <2>1, <2>2
  <2>5. /\ Merged(e.heap[n], zero, TRUE).tokens = e.heap[n].tokens
        /\ Fitting(Merged(e.heap[n], zero, TRUE), D)
    BY <1>3, <1>8, <2>1, <2>4, MergedFits
  <2> QED
    BY <2>3, <2>5 DEF D
<1>10. ASSUME NEW d \in 1 .. L, Fits(d - 1)
       PROVE  Fits(d)
  <2> SUFFICES ASSUME NEW n \in A
               PROVE  /\ at[d][n].tokens = e.heap[n].tokens
                      /\ Fitting(at[d][n], CoveredBy(e, n, d))
    OBVIOUS
  <2> DEFINE below == at[d - 1]
             C == [k \in A |-> CoveredBy(e, k, d - 1)]
             D == CoveredBy(e, n, d)
             K == Below(e.heap[n])
  <2>1. d - 1 \in 0 .. L /\ K \subseteq A
    BY <1>1
  <2>2. \A k \in K : C[k] = CoveredBy(e, k, d - 1)
    BY <2>1
  <2>3. below \in [A -> Node(A)]
    BY <1>2, <2>1
  <2>4. D = e.heap[n].tokens \cup UNION {CoveredBy(e, k, d - 1) : k \in K}
    BY <1>6
  <2>5. at[d][n] = Merged(e.heap[n], below, TRUE)
    BY <1>2, <1>4
  <2> HIDE DEF D, C, K
  <2>6. \A k \in K : C[k] \subseteq Nat /\ Fitting(below[k], C[k])
    BY <1>7, <1>10, <2>1, <2>2
  <2> HIDE DEF below
  <2>7. \A t : t \in D <=> t \in e.heap[n].tokens \/ \E k \in K : t \in C[k]
    BY <2>2, <2>4
  <2>8. /\ Merged(e.heap[n], below, TRUE).tokens = e.heap[n].tokens
        /\ Fitting(Merged(e.heap[n], below, TRUE), D)
    BY <1>8, <2>3, <2>6, <2>7, MergedFits DEF K
  <2> QED
    BY <2>5, <2>8 DEF D
<1>11. L \in T
  <2>1. 0 \in T /\ \A d \in 1 .. L : d - 1 \in T => d \in T
    <3> HIDE DEF Fits
    <3> QED
      BY <1>1, <1>9, <1>10
  <2> HIDE DEF T
  <2>2. \A d \in 0 .. L : d \in T
    BY <1>1, <2>1, CountUp
  <2> QED
    BY <1>1, <2>2
<1>12. Fits(L)
  BY <1>11
<1> QED
  BY <1>2, <1>5, <1>12 DEF A

(* The promise of treeDirty, of the tree of the root.                      *)
Reconciled(e) == \A n \in Tree(e, e.root) : Fitting(e.heap[n], CoveredIn(e, n))

(* Two trees with the same links and lexemes cover the same lexemes.       *)
LEMMA SameCover ==
  ASSUME NEW e, IsEditor(e), NEW d, IsEditor(d), DOMAIN e.heap \subseteq DOMAIN d.heap,
         NEW n \in DOMAIN e.heap,
         \A m \in Tree(e, n) : /\ Below(d.heap[m]) = Below(e.heap[m])
                               /\ d.heap[m].tokens = e.heap[m].tokens
  PROVE  Tree(d, n) = Tree(e, n) /\ CoveredIn(d, n) = CoveredIn(e, n)
<1>1. Tree(d, n) = Tree(e, n)
  BY SameTree
<1> QED
  BY <1>1 DEF CoveredIn

(* What ensureSpanValid leaves of the heap.                                *)
LEMMA EnsuredHeap ==
  ASSUME NEW e, IsEditor(e), e.root \in DOMAIN e.heap, NEW force
  PROVE  LET d == ensureSpanValid(e, e.root, force)
         IN  /\ IsEditor(d) /\ DOMAIN d.heap = DOMAIN e.heap /\ d.root = e.root
             /\ d.created = e.created /\ d.nodeFree = e.nodeFree /\ d.inUse = e.inUse
             /\ \A m \in DOMAIN e.heap :
                   /\ m \in Visited(e, e.root, force) => d.heap[m] = Spanned(e, force)[m]
                   /\ m \notin Visited(e, e.root, force) => d.heap[m] = e.heap[m]
                   /\ Below(d.heap[m]) = Below(e.heap[m])
<1> DEFINE d == ensureSpanValid(e, e.root, force)
           g == [m \in DOMAIN e.heap |-> IF m \in Visited(e, e.root, force)
                                         THEN Spanned(e, force)[m] ELSE e.heap[m]]
<1>1. Respanned(d, e) /\ d.root = e.root
  BY EnsureRespans
<1>2. e \in Editor(DOMAIN e.heap)
  BY DEF IsEditor
<1>3. d = [e EXCEPT !.heap = g]
  BY DEF ensureSpanValid
<1> HIDE DEF d, g
<1>4. d.heap = g
  BY <1>2, <1>3 DEF Editor
<1>5. \A m \in DOMAIN e.heap : Below(d.heap[m]) = Below(e.heap[m])
  BY <1>1, SameBelow DEF Respanned, SameTopology, SameLinks
<1>6. /\ IsEditor(d) /\ DOMAIN d.heap = DOMAIN e.heap /\ d.inUse = e.inUse
      /\ d.created = e.created /\ d.nodeFree = e.nodeFree
  BY <1>1 DEF Respanned, SameTopology, SameNodes
<1>7. \A m \in DOMAIN e.heap :
         /\ m \in Visited(e, e.root, force) => d.heap[m] = Spanned(e, force)[m]
         /\ m \notin Visited(e, e.root, force) => d.heap[m] = e.heap[m]
  BY <1>4 DEF g
<1> QED
  BY <1>1, <1>5, <1>6, <1>7 DEF d

(* A forced ensureSpanValid keeps the promise.                             *)
LEMMA ForcedReconciles ==
  ASSUME NEW e, IsEditor(e), e.root \in DOMAIN e.heap
  PROVE  Reconciled(ensureSpanValid(e, e.root, TRUE))
<1> DEFINE d == ensureSpanValid(e, e.root, TRUE)
           r == e.root
           U == Tree(e, r)
<1>1. r # Nil /\ U = Visited(e, r, TRUE) /\ U \subseteq DOMAIN e.heap
  BY HeapOf, TreeCloses DEF Tree
<1>2. /\ IsEditor(d) /\ DOMAIN d.heap = DOMAIN e.heap /\ d.root = r
      /\ \A m \in DOMAIN e.heap : /\ m \in U => d.heap[m] = Spanned(e, TRUE)[m]
                                  /\ m \notin U => d.heap[m] = e.heap[m]
                                  /\ Below(d.heap[m]) = Below(e.heap[m])
  <2>1. /\ IsEditor(d) /\ DOMAIN d.heap = DOMAIN e.heap /\ d.root = r
        /\ \A m \in DOMAIN e.heap :
              /\ m \in Visited(e, r, TRUE) => d.heap[m] = Spanned(e, TRUE)[m]
              /\ m \notin Visited(e, r, TRUE) => d.heap[m] = e.heap[m]
              /\ Below(d.heap[m]) = Below(e.heap[m])
    BY EnsuredHeap, ZenonT(60)
  <2> HIDE DEF d, U
  <2> QED
    BY <1>1, <2>1
<1>3. \A m \in DOMAIN e.heap : /\ Spanned(e, TRUE)[m].tokens = e.heap[m].tokens
                               /\ Fitting(Spanned(e, TRUE)[m], CoveredIn(e, m))
  BY SpannedFits
<1> HIDE DEF d, U
<1>4. \A m \in DOMAIN e.heap : d.heap[m].tokens = e.heap[m].tokens
  BY <1>2, <1>3
<1>5. \A n \in DOMAIN e.heap : Tree(d, n) = Tree(e, n) /\ CoveredIn(d, n) = CoveredIn(e, n)
  <2> TAKE n \in DOMAIN e.heap
  <2>1. \A m \in Tree(e, n) : /\ Below(d.heap[m]) = Below(e.heap[m])
                              /\ d.heap[m].tokens = e.heap[m].tokens
    BY <1>2, <1>4, TreeCloses
  <2> QED
    BY <1>2, <2>1, SameCover
<1>6. Tree(d, d.root) = U
  BY <1>2, <1>5 DEF U
<1>7. \A n \in U : Fitting(d.heap[n], CoveredIn(d, n))
  BY <1>1, <1>2, <1>3, <1>5
<1>8. Reconciled(d)
  BY <1>6, <1>7 DEF Reconciled
<1> QED
  BY <1>8 DEF d

(* A node without lexemes and above none keeps having no span.             *)
LEMMA MergedIdle ==
  ASSUME NEW A, NEW node \in Node(A), NEW below,
         ~node.spanValid => node.tokens = {} /\ \A k \in Below(node) : ~below[k].spanValid
  PROVE  Merged(node, below, FALSE) = node
<1>1. CASE node.spanValid
  BY <1>1 DEF Merged
<1>2. CASE ~node.spanValid
  <2> DEFINE kids == {k \in Below(node) : below[k].spanValid}
             lows == node.tokens \cup {below[k].start : k \in kids}
             low == CHOOSE l \in lows : \A m \in lows : l <= m
             highs == {t + 1 : t \in node.tokens} \cup {below[k].end : k \in kids}
             high == CHOOSE h \in highs : \A m \in highs : h >= m
  <2>1. lows = {}
    BY <1>2
  <2>2. Merged(node, below, FALSE) = IF lows = {} THEN [node EXCEPT !.spanValid = FALSE]
                    ELSE [node EXCEPT !.spanValid = TRUE, !.start = low, !.end = high]
    BY <1>2, Zenon DEF Merged
  <2> HIDE DEF lows
  <2>3. Merged(node, below, FALSE) = [node EXCEPT !.spanValid = FALSE]
    BY <2>1, <2>2
  <2> QED
    BY <1>2, <2>3 DEF Node
<1> QED
  BY <1>1, <1>2

(* While the promise holds, ensureSpanValid has nothing to do: what is     *)
(* not valid covers nothing.                                               *)
LEMMA ReconciledStays ==
  ASSUME NEW e, IsEditor(e), e.root \in DOMAIN e.heap, Reconciled(e)
  PROVE  \A m \in DOMAIN e.heap : ensureSpanValid(e, e.root, FALSE).heap[m] = e.heap[m]
<1> DEFINE A == DOMAIN e.heap
           L == Len(e.heap)
           r == e.root
           U == Tree(e, r)
           zero == [n \in A |-> ZeroNode]
           at == SpannedAt(e, FALSE)
           Idle(d) == \A n \in U : at[d][n] = e.heap[n]
           T == {d \in 0 .. L : Idle(d)}
<1>1. L \in Nat /\ e.heap \in [A -> Node(A)]
  BY HeapOf
<1>2. r \in U /\ U \subseteq A /\ \A m \in U : Below(e.heap[m]) \subseteq U
  BY TreeCloses
<1>3. /\ Spanned(e, FALSE) = at[L]
      /\ at[0] = MergedAll(e, zero, FALSE)
      /\ \A d \in 1 .. L : at[d] = MergedAll(e, at[d - 1], FALSE)
      /\ \A d \in 0 .. L : at[d] \in [A -> Node(A)]
  BY SpannedSteps, Zenon
<1>4. ASSUME NEW n \in U, ~e.heap[n].spanValid
      PROVE  e.heap[n].tokens = {} /\ \A k \in Below(e.heap[n]) : ~e.heap[k].spanValid
  <2>1. CoveredIn(e, n) = {}
    BY <1>4 DEF Reconciled, Fitting
  <2>2. n \in Tree(e, n) /\ \A k \in Below(e.heap[n]) : k \in Tree(e, n)
    BY <1>2, TreeCloses
  <2>3. e.heap[n].tokens = {}
    BY <2>1, <2>2 DEF CoveredIn
  <2>4. ASSUME NEW k \in Below(e.heap[n])
        PROVE  ~e.heap[k].spanValid
    <3>1. k \in U /\ Tree(e, k) \subseteq Tree(e, n)
      BY <1>2, <2>2, SubtreeWithin
    <3>2. CoveredIn(e, k) = {}
      BY <2>1, <3>1 DEF CoveredIn
    <3> QED
      BY <3>1, <3>2 DEF Reconciled, Fitting
  <2> QED
    BY <2>3, <2>4
<1>5. ASSUME NEW below
      PROVE  \A n \in A : MergedAll(e, below, FALSE)[n] = Merged(e.heap[n], below, FALSE)
  BY DEF MergedAll
<1>6. \A n \in A : ~zero[n].spanValid
  BY DEF ZeroNode
<1>7. Visited(e, r, FALSE) \subseteq U
  BY <1>2, VisitedInside
<1> DEFINE d == ensureSpanValid(e, r, FALSE)
<1>8. \A m \in A : /\ m \in Visited(e, r, FALSE) => d.heap[m] = Spanned(e, FALSE)[m]
                   /\ m \notin Visited(e, r, FALSE) => d.heap[m] = e.heap[m]
                   /\ Below(d.heap[m]) = Below(e.heap[m])
  BY EnsuredHeap, ZenonT(60)
<1> HIDE DEF A, L, U, zero, at, d
<1>9. ASSUME NEW below, \A n \in U : ~e.heap[n].spanValid =>
                       \A k \in Below(e.heap[n]) : ~below[k].spanValid,
             NEW n \in U
      PROVE  MergedAll(e, below, FALSE)[n] = e.heap[n]
  <2>1. e.heap[n] \in Node(A)
    BY <1>1, <1>2
  <2>2. ~e.heap[n].spanValid => /\ e.heap[n].tokens = {}
                               /\ \A k \in Below(e.heap[n]) : ~below[k].spanValid
    BY <1>4, <1>9
  <2>3. Merged(e.heap[n], below, FALSE) = e.heap[n]
    BY <2>1, <2>2, MergedIdle
  <2> QED
    BY <1>2, <1>5, <2>3
<1>10. Idle(0)
  <2>1. \A n \in U : \A k \in Below(e.heap[n]) : ~zero[k].spanValid
    BY <1>2, <1>6
  <2> QED
    BY <1>3, <1>9, <2>1, ZenonT(60)
<1>11. ASSUME NEW k \in 1 .. L, Idle(k - 1)
       PROVE  Idle(k)
  <2> DEFINE below == at[k - 1]
  <2>1. \A n \in U : ~e.heap[n].spanValid => \A c \in Below(e.heap[n]) : ~below[c].spanValid
    BY <1>2, <1>4, <1>11
  <2>2. at[k] = MergedAll(e, below, FALSE)
    BY <1>3
  <2> HIDE DEF below
  <2> QED
    BY <1>9, <2>1, <2>2
<1>12. L \in T
  <2>1. 0 \in T /\ \A k \in 1 .. L : k - 1 \in T => k \in T
    <3> HIDE DEF Idle
    <3> QED
      BY <1>1, <1>10, <1>11
  <2> HIDE DEF T
  <2>2. \A k \in 0 .. L : k \in T
    BY <1>1, <2>1, CountUp
  <2> QED
    BY <1>1, <2>2
<1>13. \A n \in U : Spanned(e, FALSE)[n] = e.heap[n]
  BY <1>3, <1>12
<1>14. \A m \in A : d.heap[m] = e.heap[m]
  BY <1>7, <1>8, <1>13
<1> QED
  BY <1>14 DEF d, A

(* The editor d is e, after an edit of nodes of X.                         *)
Within(d, e, X) ==
  /\ d.root = e.root /\ d.inUse = e.inUse /\ d.created = e.created /\ d.nodeFree = e.nodeFree
  /\ \A m \in DOMAIN e.heap \ X : d.heap[m] = e.heap[m]

LEMMA AttachWithin ==
  ASSUME NEW e, IsEditor(e), NEW p, NEW c, NEW X, p \in X, c \in X
  PROVE  Within(AttachChild(e, p, c), e, X) /\ AttachChild(e, p, c).treeDirty
<1>1. e \in Editor(DOMAIN e.heap)
  BY DEF IsEditor
<1>2. \A m \in DOMAIN e.heap \ X : m # p /\ m # c
  OBVIOUS
<1> DEFINE b == [e EXCEPT !.heap[c].parent = p, !.heap[p].children = Append(@, c)]
<1>3. Within(b, e, X) /\ DOMAIN b.heap = DOMAIN e.heap
  BY <1>1, <1>2 DEF Within, Editor
<1> QED
  BY <1>1, <1>2, <1>3 DEF AttachChild, markDirty, Within, Editor

LEMMA DetachWithin ==
  ASSUME NEW e, IsEditor(e), NEW X, NEW c \in X, e.heap[c].parent \in X, e.heap[c].parent # Nil
  PROVE  Within(Detach(e, c), e, X) /\ Detach(e, c).treeDirty
<1>1. e \in Editor(DOMAIN e.heap)
  BY DEF IsEditor
<1> DEFINE p == e.heap[c].parent
           new == IF c \in Range(e.heap[p].children)
                    THEN [e.heap[p] EXCEPT !.children = RemoveFirst(e.heap[p].children, c)]
                    ELSE [e.heap[p] EXCEPT !.slots[SlotOf(e, c)] = Nil]
           b == [e EXCEPT !.heap[p] = new, !.heap[c].parent = Nil]
<1>2. \A m \in DOMAIN e.heap \ X : m # p /\ m # c
  OBVIOUS
<1>3. Detach(e, c) = markDirty(b, {c, p})
  BY Zenon DEF Detach
<1> HIDE DEF new, p
<1>4. Within(b, e, X) /\ DOMAIN b.heap = DOMAIN e.heap
  BY <1>1, <1>2 DEF Within, Editor
<1> QED
  BY <1>1, <1>2, <1>3, <1>4 DEF markDirty, Within, Editor

LEMMA SetSlotWithin ==
  ASSUME NEW e, IsEditor(e), NEW p, NEW c, NEW name, NEW X, p \in X, c \in X,
         e.heap[p].slots[name] \in X \cup {Nil}
  PROVE  Within(SetSlot(e, p, name, c), e, X) /\ SetSlot(e, p, name, c).treeDirty
<1>1. e \in Editor(DOMAIN e.heap)
  BY DEF IsEditor
<1> DEFINE old == e.heap[p].slots[name]
           unlinked == IF old = Nil THEN e ELSE [e EXCEPT !.heap[old].parent = Nil]
           b == [unlinked EXCEPT !.heap[p].slots[name] = c, !.heap[c].parent = p]
<1>2. \A m \in DOMAIN e.heap \ X : m # p /\ m # c /\ (old # Nil => m # old)
  OBVIOUS
<1>3. SetSlot(e, p, name, c) = markDirty(b, {c, p})
  BY DEF SetSlot
<1> HIDE DEF old
<1>4. /\ Within(unlinked, e, X) /\ DOMAIN unlinked.heap = DOMAIN e.heap
      /\ unlinked = [e EXCEPT !.heap = unlinked.heap] /\ DOMAIN unlinked = DOMAIN e
  BY <1>1, <1>2 DEF Within, Editor
<1> HIDE DEF unlinked
<1>5. Within(b, e, X) /\ DOMAIN b.heap = DOMAIN e.heap /\ DOMAIN b = DOMAIN e
  BY <1>1, <1>2, <1>4 DEF Within, Editor
<1> HIDE DEF b
<1> QED
  BY <1>1, <1>2, <1>3, <1>5 DEF markDirty, Within, Editor

LEMMA ReplaceWithin ==
  ASSUME NEW e, IsEditor(e), NEW X, NEW c \in X, NEW w \in X, e.heap[c].parent \in X
  PROVE  Within(Replace(e, c, w), e, X) /\ Replace(e, c, w).treeDirty
<1>1. e \in Editor(DOMAIN e.heap)
  BY DEF IsEditor
<1> DEFINE p == e.heap[c].parent
           first == SelectInSeq(e.heap[p].children, LAMBDA n : n = c)
           new == IF first # 0 THEN [e.heap[p] EXCEPT !.children[first] = w]
                  ELSE [e.heap[p] EXCEPT !.slots[SlotOf(e, c)] = w]
           b == [e EXCEPT !.heap[p] = new, !.heap[w].parent = p, !.heap[c].parent = Nil]
<1>2. \A m \in DOMAIN e.heap \ X : m # p /\ m # c /\ m # w
  OBVIOUS
<1>3. Replace(e, c, w) = markDirty(b, {w, p})
  BY Zenon DEF Replace
<1> HIDE DEF new, p
<1>4. Within(b, e, X) /\ DOMAIN b.heap = DOMAIN e.heap
  BY <1>1, <1>2 DEF Within, Editor
<1> QED
  BY <1>1, <1>2, <1>3, <1>4 DEF markDirty, Within, Editor

LEMMA LexemesWithin ==
  ASSUME NEW e, IsEditor(e), NEW X, NEW n \in X
  PROVE  /\ Within(SetAttribute(e, n), e, X) /\ SetAttribute(e, n).treeDirty
         /\ \A tok : Within(AddToken(e, n, tok), e, X) /\ AddToken(e, n, tok).treeDirty
         /\ \A toks : Within(SetTokens(e, n, toks), e, X) /\ SetTokens(e, n, toks).treeDirty
         /\ Within(SetSpan(e, n, 0, 0), e, X) /\ SetSpan(e, n, 0, 0).treeDirty
<1>1. e \in Editor(DOMAIN e.heap)
  BY DEF IsEditor
<1>2. \A m \in DOMAIN e.heap \ X : m # n
  OBVIOUS
<1>3. Within(SetAttribute(e, n), e, X) /\ SetAttribute(e, n).treeDirty
  BY <1>1, <1>2 DEF SetAttribute, markDirty, Within, Editor
<1>4. ASSUME NEW tok
      PROVE  Within(AddToken(e, n, tok), e, X) /\ AddToken(e, n, tok).treeDirty
  BY <1>1, <1>2 DEF AddToken, markDirty, Within, Editor
<1>5. ASSUME NEW toks
      PROVE  Within(SetTokens(e, n, toks), e, X) /\ SetTokens(e, n, toks).treeDirty
  BY <1>1, <1>2 DEF SetTokens, markDirty, Within, Editor
<1>6. Within(SetSpan(e, n, 0, 0), e, X) /\ SetSpan(e, n, 0, 0).treeDirty
  BY <1>1, <1>2 DEF SetSpan, markDirty, Within, Editor
<1> QED
  BY <1>3, <1>4, <1>5, <1>6

(* What has neither lexemes nor nodes below it covers nothing.             *)
Blank(node) == node.tokens = {} /\ Below(node) = {} /\ ~node.spanValid

LEMMA BareCover ==
  ASSUME NEW e, IsEditor(e), NEW n \in DOMAIN e.heap,
         e.heap[n].tokens = {}, Below(e.heap[n]) = {}
  PROVE  Tree(e, n) = {n} /\ CoveredIn(e, n) = {}
<1>1. n \in Tree(e, n)
  BY TreeCloses
<1>2. Tree(e, n) \subseteq {n}
  <2>1. n \in {n} /\ \A m \in {n} : Below(e.heap[m]) \subseteq {n}
    OBVIOUS
  <2> QED
    BY <2>1, TreeWithin
<1> QED
  BY <1>1, <1>2 DEF CoveredIn

LEMMA BlankReconciles ==
  ASSUME NEW e, IsEditor(e), e.root \in DOMAIN e.heap, Blank(e.heap[e.root])
  PROVE  Reconciled(e)
BY BareCover DEF Blank, Reconciled, Fitting

(* The promise is about the tree of the root only.                         *)
LEMMA SameReconciles ==
  ASSUME NEW e, IsEditor(e), NEW d, IsEditor(d), DOMAIN e.heap \subseteq DOMAIN d.heap,
         e.root \in DOMAIN e.heap, d.root = e.root, Reconciled(e),
         \A m \in Tree(e, e.root) : d.heap[m] = e.heap[m]
  PROVE  Reconciled(d)
<1>1. Tree(e, e.root) \subseteq DOMAIN e.heap
  BY TreeCloses
<1>2. \A n \in Tree(e, e.root) : Tree(d, n) = Tree(e, n) /\ CoveredIn(d, n) = CoveredIn(e, n)
  <2> TAKE n \in Tree(e, e.root)
  <2>1. n \in DOMAIN e.heap /\ Tree(e, n) \subseteq Tree(e, e.root)
    BY <1>1, SubtreeWithin
  <2>2. \A m \in Tree(e, n) : /\ Below(d.heap[m]) = Below(e.heap[m])
                              /\ d.heap[m].tokens = e.heap[m].tokens
    BY <2>1
  <2> QED
    BY <2>1, <2>2, SameCover
<1>3. e.root \in Tree(e, e.root)
  BY TreeCloses
<1> QED
  BY <1>2, <1>3 DEF Reconciled

(* The invariant behind the promise.  There is a root only between the end *)
(* of a parse and Freeze; it is in the ledger or else a node that has just *)
(* been reset and waits in the pool.                                       *)
Rooted(e) == /\ e.root \in Range(e.created) \cup Range(e.nodeFree)
             /\ e.root \in Range(e.nodeFree) => Blank(e.heap[e.root])

Settled(e, rs) ==
  e.root # Nil => /\ rs = <<>> /\ e.inUse /\ Rooted(e)
                  /\ ~e.treeDirty => Reconciled(e)

LEMMA EditSettles ==
  ASSUME NEW e, NEW rs, Settled(e, rs), NEW d, NEW X, X \cap Range(e.nodeFree) = {},
         IsEditor(e), Within(d, e, X), d.treeDirty
  PROVE  Settled(d, rs)
<1>1. e.root # Nil => e.root \in DOMAIN e.heap
  BY DEF IsEditor, Editor
<1>2. e.root \in Range(e.nodeFree) => e.root \notin X
  OBVIOUS
<1> QED
  BY <1>1, <1>2 DEF Settled, Rooted, Within

(* ComputeSpans is forced while the tree is dirty, and else finds nothing  *)
(* to do.                                                                  *)
LEMMA ComputeSettles ==
  ASSUME NEW e, IsEditor(e), e.root \in DOMAIN e.heap, e.inUse, Rooted(e),
         ~e.treeDirty => Reconciled(e)
  PROVE  Settled(ComputeSpans(e), <<>>)
<1> DEFINE r == e.root
           b == ensureSpanValid(e, r, e.treeDirty)
           d == ComputeSpans(e)
<1>1. /\ IsEditor(b) /\ DOMAIN b.heap = DOMAIN e.heap /\ b.root = r
      /\ b.created = e.created /\ b.nodeFree = e.nodeFree /\ b.inUse = e.inUse
  BY EnsuredHeap
<1>2. e.treeDirty \in BOOLEAN
  BY DEF IsEditor, Editor
<1>3. Reconciled(b) /\ (Blank(e.heap[r]) => Blank(b.heap[r]))
  <2>1. CASE e.treeDirty
    <3>1. b = ensureSpanValid(e, r, TRUE)
      BY <1>2, <2>1
    <3>2. Reconciled(b)
      BY <3>1, ForcedReconciles
    <3>3. ASSUME Blank(e.heap[r])
          PROVE  Blank(b.heap[r])
      <4>1. Spanned(e, TRUE)[r].tokens = e.heap[r].tokens
        BY SpannedFits
      <4>2. /\ b.heap[r] = Spanned(e, TRUE)[r] \/ b.heap[r] = e.heap[r]
            /\ Below(b.heap[r]) = Below(e.heap[r])
        <5> DEFINE c == ensureSpanValid(e, r, TRUE)
        <5>1. \A m \in DOMAIN e.heap :
                 /\ m \in Visited(e, r, TRUE) => c.heap[m] = Spanned(e, TRUE)[m]
                 /\ m \notin Visited(e, r, TRUE) => c.heap[m] = e.heap[m]
                 /\ Below(c.heap[m]) = Below(e.heap[m])
          BY EnsuredHeap, ZenonT(60)
        <5> HIDE DEF c, b
        <5> QED
          BY <3>1, <5>1 DEF c
      <4>3. b.heap[r].tokens = {} /\ Below(b.heap[r]) = {}
        BY <3>3, <4>1, <4>2 DEF Blank
      <4> HIDE DEF b, r
      <4>4. r \in DOMAIN b.heap
        BY <1>1 DEF r
      <4>5. Tree(b, r) = {r} /\ CoveredIn(b, r) = {}
        BY <1>1, <4>3, <4>4, BareCover
      <4>6. ~b.heap[r].spanValid
        BY <1>1, <3>2, <4>5 DEF Reconciled, Fitting
      <4> QED
        BY <4>3, <4>6 DEF Blank
    <3> QED
      BY <3>2, <3>3
  <2>2. CASE ~e.treeDirty
    <3>1. b = ensureSpanValid(e, r, FALSE)
      BY <1>2, <2>2
    <3>2. \A m \in DOMAIN e.heap : b.heap[m] = e.heap[m]
      BY <2>2, <3>1, ReconciledStays
    <3>3. \A m \in Tree(e, r) : b.heap[m] = e.heap[m]
      BY <3>2, TreeCloses
    <3> HIDE DEF b
    <3>4. Reconciled(b)
      BY <1>1, <2>2, <3>3, SameReconciles
    <3> QED
      BY <3>2, <3>4
  <2> QED
    BY <2>1, <2>2
<1>4. d = [b EXCEPT !.treeDirty = FALSE]
  BY DEF ComputeSpans
<1> HIDE DEF b
<1>5. /\ IsEditor(d) /\ d.heap = b.heap /\ d.root = b.root /\ d.inUse = b.inUse
      /\ d.created = b.created /\ d.nodeFree = b.nodeFree
  BY <1>1, <1>4 DEF IsEditor, Editor
<1> HIDE DEF d
<1>6. Reconciled(d)
  BY <1>1, <1>3, <1>5, SameReconciles
<1>7. Rooted(d)
  BY <1>1, <1>3, <1>5 DEF Rooted
<1> QED
  BY <1>1, <1>5, <1>6, <1>7 DEF Settled, d

LEMMA ZeroIsBlank ==
  ASSUME NEW k
  PROVE  Blank([ZeroNode EXCEPT !.id = k])
<1> DEFINE node == [ZeroNode EXCEPT !.id = k]
<1>1. /\ node.tokens = {} /\ ~node.spanValid
      /\ node.children = <<>> /\ node.slots = [s \in Slots |-> Nil]
  BY DEF ZeroNode
<1> HIDE DEF node
<1>2. Range(node.children) = {} /\ Range(node.slots) \subseteq {Nil}
  BY <1>1 DEF Range
<1>3. Blank(node)
  BY <1>1, <1>2 DEF Blank, Below
<1> QED
  BY <1>3 DEF node

LEMMA AppendRange ==
  ASSUME NEW S, NEW s \in Seq(S), NEW x
  PROVE  Range(Append(s, x)) = Range(s) \cup {x}
<1>1. /\ DOMAIN s = 1 .. Len(s) /\ Len(s) \in Nat
      /\ DOMAIN Append(s, x) = 1 .. Len(s) + 1
      /\ \A i \in 1 .. Len(s) : Append(s, x)[i] = s[i]
      /\ Append(s, x)[Len(s) + 1] = x
  OBVIOUS
<1>2. \A i \in 1 .. Len(s) + 1 : i \in 1 .. Len(s) \/ i = Len(s) + 1
  BY <1>1
<1>3. \A i \in 1 .. Len(s) : i \in 1 .. Len(s) + 1
  BY <1>1
<1>4. Len(s) + 1 \in 1 .. Len(s) + 1
  BY <1>1
<1> QED
  BY <1>1, <1>2, <1>3, <1>4 DEF Range

(* A new node is not in the tree: it was in the pool or is new altogether. *)
LEMMA CreateSettles ==
  ASSUME NEW e, NEW rs, NEW base, NEW X, Sound(e, rs, base, X), Settled(e, rs),
         NEW n, NEW d, Created(d, e, n), d.root = e.root, d.treeDirty = e.treeDirty,
         Range(e.nodeFree) \ {n} \subseteq Range(d.nodeFree)
  PROVE  Settled(d, rs)
<1> DEFINE r == e.root
<1> SUFFICES ASSUME r # Nil
             PROVE  Settled(d, rs)
  BY DEF Settled
<1>1. IsEditor(e) /\ r \in DOMAIN e.heap /\ e.created \in Seq(DOMAIN e.heap)
  BY DEF Sound, Structured, IsEditor, Editor
<1>2. rs = <<>> /\ e.inUse /\ Rooted(e) /\ (~e.treeDirty => Reconciled(e))
  BY DEF Settled
<1>3. /\ IsEditor(d) /\ DOMAIN e.heap \subseteq DOMAIN d.heap /\ d.inUse = e.inUse
      /\ \A m \in DOMAIN e.heap \ {n} : d.heap[m] = e.heap[m]
      /\ d.heap[n] = [ZeroNode EXCEPT !.id = e.nextID + 1]
      /\ d.created = Append(e.created, n)
      /\ n \in DOMAIN e.heap => n \in Range(e.nodeFree)
      /\ Range(d.nodeFree) \cap DOMAIN e.heap \subseteq Range(e.nodeFree)
  BY DEF Created
<1>4. Range(d.created) = Range(e.created) \cup {n}
  BY <1>1, <1>3, AppendRange
<1>5. TreeIn(e.heap, X) /\ Range(e.created) \subseteq X /\ X \cap Range(e.nodeFree) = {}
  BY DEF Sound, Keeping
<1>6. Blank(d.heap[n])
  BY <1>3, ZeroIsBlank, ZenonT(60)
<1>7. CASE r \in Range(e.nodeFree)
  <2>1. Blank(d.heap[r])
    BY <1>1, <1>2, <1>3, <1>6, <1>7 DEF Rooted
  <2>2. Reconciled(d)
    BY <1>1, <1>3, <2>1, BlankReconciles
  <2>3. Rooted(d)
    BY <1>4, <1>7, <2>1 DEF Rooted
  <2> QED
    BY <1>2, <1>3, <2>2, <2>3 DEF Settled
<1>8. CASE r \notin Range(e.nodeFree)
  <2>1. r \in X
    BY <1>2, <1>5, <1>8 DEF Rooted
  <2>2. n \notin X
    BY <1>3, <1>5 DEF TreeIn
  <2>3. Tree(e, r) \subseteq X /\ X \subseteq DOMAIN e.heap
    BY <1>1, <1>5, <2>1, TreeWithin DEF TreeIn
  <2>4. \A m \in Tree(e, r) : d.heap[m] = e.heap[m]
    BY <1>3, <2>2, <2>3
  <2>5. ~d.treeDirty => Reconciled(d)
    BY <1>1, <1>2, <1>3, <2>4, SameReconciles
  <2>6. Rooted(d)
    BY <1>1, <1>2, <1>3, <1>4, <1>8 DEF Rooted
  <2> QED
    BY <1>2, <1>3, <2>5, <2>6 DEF Settled
<1> QED
  BY <1>7, <1>8

(* The root while nodes are taken and freed.                               *)
LEMMA PoolFields ==
  ASSUME NEW e, IsEditor(e)
  PROVE  /\ \A k : Alloc(e, k).root = e.root
         /\ \A k : TruncateCreated(e, k).root = e.root
         /\ begin(e).root = e.root /\ end(e).root = Nil
         /\ \A p, f : AttachFragment(e, p, f).root = e.root
         /\ \A n : LET s == setRoot(e, n)
                   IN  /\ s.root = n /\ s.treeDirty /\ s.heap = e.heap /\ s.inUse = e.inUse
                       /\ s.created = e.created /\ s.nodeFree = e.nodeFree
<1>1. e \in Editor(DOMAIN e.heap)
  BY DEF IsEditor
<1>2. \A k : Alloc(e, k).root = e.root
  BY <1>1 DEF Alloc, Editor
<1>3. \A k : TruncateCreated(e, k).root = e.root
  BY <1>1 DEF TruncateCreated, Editor
<1>4. begin(e).root = e.root /\ end(e).root = Nil
  BY <1>1 DEF begin, end, Editor
<1>5. \A p, f : AttachFragment(e, p, f).root = e.root
  <2> TAKE p, f
  <2> DEFINE moved == e.heap[f].children
             adopted == [n \in DOMAIN e.heap |->
                           IF n \in Range(moved) THEN [e.heap[n] EXCEPT !.parent = p]
                                                 ELSE e.heap[n]]
             b == [e EXCEPT !.heap = [adopted EXCEPT ![f].children = <<>>,
                                                 ![p].children = @ \o moved]]
             nodes == Range(moved) \cup {f, p}
  <2>1. AttachFragment(e, p, f) = IF moved = <<>> THEN e ELSE markDirty(b, nodes)
    BY DEF AttachFragment
  <2>2. b.root = e.root /\ DOMAIN b = DOMAIN e
    <3> HIDE DEF adopted
    <3> QED
      BY <1>1 DEF Editor
  <2> HIDE DEF b, nodes, moved
  <2>3. markDirty(b, nodes).root = b.root
    BY <1>1, <2>2 DEF markDirty, Editor
  <2> QED
    BY <2>1, <2>2, <2>3
<1>6. ASSUME NEW n
      PROVE  LET s == setRoot(e, n)
             IN  /\ s.root = n /\ s.treeDirty /\ s.heap = e.heap /\ s.inUse = e.inUse
                 /\ s.created = e.created /\ s.nodeFree = e.nodeFree
  BY <1>1 DEF setRoot, Editor
<1> QED
  BY <1>2, <1>3, <1>4, <1>5, <1>6

LEMMA NewNodeFields ==
  ASSUME NEW e, IsEditor(e), IsInjective(e.nodeFree)
  PROVE  LET d == NewNode(e)
         IN  /\ d.root = e.root /\ d.treeDirty = e.treeDirty
             /\ Range(e.nodeFree) \ {nodeAcquire(e)} \subseteq Range(d.nodeFree)
<1> DEFINE g == grown(e)
           n == nodeAcquire(e)
           d == NewNode(e)
<1>1. e \in Editor(DOMAIN e.heap)
  BY DEF IsEditor
<1>2. IsEditor(g) /\ IsInjective(g.nodeFree) /\ g.nodeFree # <<>>
  BY GrownPool
<1>3. g.root = e.root /\ g.treeDirty = e.treeDirty
  BY <1>1 DEF grown, Alloc, Editor
<1>4. Range(e.nodeFree) \subseteq Range(g.nodeFree)
  <2>1. CASE e.nodeFree # <<>>
    BY <2>1 DEF grown
  <2>2. CASE e.nodeFree = <<>>
    <3>1. Range(e.nodeFree) = {}
      BY <2>2 DEF Range
    <3> QED
      BY <3>1
  <2> QED
    BY <2>1, <2>2
<1>5. n = Last(g.nodeFree)
  BY DEF nodeAcquire
<1>6. /\ d.root = g.root /\ d.treeDirty = g.treeDirty /\ d.nodeFree = Front(g.nodeFree)
  <2>1. d = [g EXCEPT !.nodeFree = Front(@), !.nextID = @ + 1, !.created = Append(@, n),
                      !.heap[n] = [lstNodeResetForPool(@) EXCEPT !.id = e.nextID + 1]]
    BY DEF NewNode
  <2> HIDE DEF g, n, d
  <2> QED
    BY <1>2, <2>1 DEF IsEditor, Editor
<1> HIDE DEF g, n, d
<1>7. g.nodeFree \in Seq(DOMAIN g.heap)
  BY <1>2 DEF IsEditor, Editor
<1>8. Range(Front(g.nodeFree)) = Range(g.nodeFree) \ {n}
  BY <1>2, <1>5, <1>7, PopPool
<1> QED
  BY <1>3, <1>4, <1>6, <1>8 DEF d, n

(* A parse ends with a root in the ledger or, if it failed, with none or a *)
(* node that has been reset.                                               *)
LEMMA EndSettles ==
  ASSUME NEW e, IsEditor(e), e.inUse, NEW n \in DOMAIN e.heap \cup {Nil}, NEW freeze \in BOOLEAN,
         EndParse(e, n, freeze),
         n # Nil => /\ n \in Range(e.created) \cup Range(e.nodeFree)
                    /\ n \in Range(e.nodeFree) => Blank(e.heap[n])
  PROVE  Settled(ed', rules')
<1> DEFINE rooted == setRoot(e, n)
           done == IF n = Nil THEN rooted ELSE ComputeSpans(rooted)
<1>1. rules' = <<>> /\ ed' = IF freeze THEN Freeze(done) ELSE done
  BY DEF EndParse
<1>2. IsEditor(rooted)
  BY FieldsRespan DEF Respanned
<1>3. /\ rooted.root = n /\ rooted.treeDirty /\ rooted.heap = e.heap /\ rooted.inUse = e.inUse
      /\ rooted.created = e.created /\ rooted.nodeFree = e.nodeFree
  BY PoolFields
<1> HIDE DEF rooted
<1>4. IsEditor(done)
  BY <1>2, ComputeRespans DEF Respanned
<1>5. CASE freeze
  <2> DEFINE b == IF done.root = Nil THEN done ELSE ensureSpanValid(done, done.root, TRUE)
  <2> HIDE DEF done
  <2>1. IsEditor(b)
    BY <1>4, EnsureRespans DEF Respanned
  <2>2. Freeze(done) = end(b)
    BY DEF Freeze
  <2> HIDE DEF b
  <2>3. Freeze(done).root = Nil
    BY <2>1, <2>2, PoolFields
  <2> QED
    BY <1>1, <1>5, <2>3 DEF Settled
<1>6. CASE ~freeze /\ n = Nil
  BY <1>1, <1>3, <1>6 DEF Settled
<1>7. CASE ~freeze /\ n # Nil
  <2>1. Rooted(rooted) /\ rooted.root \in DOMAIN rooted.heap /\ rooted.inUse
    BY <1>3, <1>7 DEF Rooted
  <2>2. Settled(ComputeSpans(rooted), <<>>)
    BY <1>2, <1>3, <2>1, ComputeSettles
  <2> QED
    BY <1>1, <1>7, <2>2
<1> QED
  BY <1>5, <1>6, <1>7

(* While activations are open there is no root, and most steps leave it.   *)
LEMMA OpenSettles ==
  ASSUME Settled(ed, rules), ed'.root = ed.root, rules # <<>> \/ ed.root = Nil
  PROVE  Settled(ed', rules')
BY DEF Settled

LEMMA OpenStepSettles ==
  ASSUME IInv, Settled(ed, rules),
         \/ CreateFragment \/ EnterRule \/ RuleSucceeds \/ RuleFails \/ RuleHeals \/ BeginParse
         \/ \E p, f : Unpack(p, f)
  PROVE  Settled(ed', rules')
<1>1. PICK X : Sound(ed, rules, since, X)
  BY DEF IInv, Kept
<1>2. IsEditor(ed) /\ Structured(ed, rules, since)
  BY <1>1 DEF Sound, Structured
<1>3. Len(rules) > 1 => rules # <<>>
  <2>1. rules = <<>> <=> Len(rules) = 0
    BY <1>2, ActivationOf
  <2> QED
    BY <2>1
<1>4. CASE CreateFragment
  <2>1. rules # <<>> /\ ed' = Alloc(ed, 1)
    BY <1>4 DEF CreateFragment, NewTransientNode
  <2> QED
    BY <1>2, <2>1, PoolFields, OpenSettles
<1>5. CASE EnterRule \/ RuleSucceeds
  BY <1>3, <1>5, OpenSettles DEF EnterRule, RuleSucceeds
<1>6. CASE RuleFails
  <2>1. rules # <<>> /\ ed' = TruncateCreated(ed, Last(rules).at)
    BY <1>3, <1>6 DEF RuleFails
  <2> QED
    BY <1>2, <2>1, PoolFields, OpenSettles
<1>7. CASE RuleHeals
  <2> DEFINE d == TruncateCreated(ed, Last(rules).at)
  <2>1. rules # <<>> /\ ed' = NewNode(d)
    BY <1>3, <1>7 DEF RuleHeals
  <2>2. d.root = ed.root
    BY <1>2, PoolFields
  <2>3. Sound(d, Front(rules), since, X \ OwnedBy(ed, rules, Len(rules)))
    BY <1>1, <2>1, RolledBack
  <2> HIDE DEF d
  <2>4. IsEditor(d) /\ IsInjective(d.nodeFree)
    BY <2>3 DEF Sound, Structured
  <2>5. NewNode(d).root = d.root
    BY <2>4, NewNodeFields
  <2> QED
    BY <2>1, <2>2, <2>5, OpenSettles
<1>8. CASE BeginParse
  <2>1. ~ed.inUse /\ ed' = begin(ed)
    BY <1>8 DEF BeginParse
  <2>2. ed.root = Nil
    BY <2>1 DEF Settled
  <2> QED
    BY <1>2, <2>1, <2>2, PoolFields, OpenSettles
<1>9. ASSUME NEW p, NEW f, Unpack(p, f)
      PROVE  Settled(ed', rules')
  <2>1. rules # <<>> /\ ed' = AttachFragment(ed, p, f)
    BY <1>9 DEF Unpack, Fragments
  <2> QED
    BY <1>2, <2>1, PoolFields, OpenSettles
<1> QED
  BY <1>4, <1>5, <1>6, <1>7, <1>8, <1>9

LEMMA EditStepSettles ==
  ASSUME IInv, Settled(ed, rules), NEW p \in Owned, NEW c \in Owned,
         \/ Attach(p, c) \/ Swap(p, c) \/ \E s \in Slots : Fill(p, s, c)
         \/ Unlink(c) \/ Annotate(c) \/ PutSpan(c)
         \/ \E t \in Offsets : TakeToken(c, t)
         \/ \E toks \in SUBSET Offsets : PutTokens(c, toks)
  PROVE  Settled(ed', rules')
<1>1. PICK X : Sound(ed, rules, since, X)
  BY DEF IInv, Kept
<1>2. /\ IsEditor(ed) /\ p \in X /\ c \in X /\ TreeIn(ed.heap, X)
      /\ X \cap Range(ed.nodeFree) = {}
  BY <1>1, OwnedIs DEF Sound, Structured, Keeping
<1>3. ASSUME NEW d, Within(d, ed, X), d.treeDirty, Edit(d)
      PROVE  Settled(ed', rules')
  <2>1. ed' = d /\ rules' = rules
    BY <1>3 DEF Edit
  <2> QED
    BY <1>2, <1>3, <2>1, EditSettles
<1>4. \A n \in X : ed.heap[n].parent \in X \cup {Nil}
  BY <1>2 DEF TreeIn
<1>5. \A s \in Slots : ed.heap[p].slots[s] \in X \cup {Nil}
  <2>1. ed.heap[p] \in Node(DOMAIN ed.heap) /\ Below(ed.heap[p]) \subseteq X
    BY <1>2, HeapOf DEF TreeIn
  <2>2. \A s \in Slots : ed.heap[p].slots[s] \in Below(ed.heap[p]) \cup {Nil}
    BY <2>1, BelowOf
  <2> QED
    BY <2>1, <2>2
<1>6. CASE Attach(p, c)
  BY <1>2, <1>3, <1>6, AttachWithin DEF Attach
<1>7. CASE Swap(p, c)
  <2>1. Edit(Replace(ed, p, c)) /\ ed.heap[p].parent # Nil
    BY <1>7 DEF Swap, MayReplace
  <2>2. ed.heap[p].parent \in X
    BY <1>2, <1>4, <2>1
  <2> QED
    BY <1>2, <1>3, <2>1, <2>2, ReplaceWithin
<1>8. ASSUME NEW s \in Slots, Fill(p, s, c)
      PROVE  Settled(ed', rules')
  <2>1. Edit(SetSlot(ed, p, s, c))
    BY <1>8 DEF Fill
  <2> QED
    BY <1>2, <1>3, <1>5, <2>1, SetSlotWithin
<1>9. CASE Unlink(c)
  <2>1. Edit(Detach(ed, c)) /\ ed.heap[c].parent # Nil
    BY <1>9 DEF Unlink
  <2>2. ed.heap[c].parent \in X
    BY <1>2, <1>4, <2>1
  <2> QED
    BY <1>2, <1>3, <2>1, <2>2, DetachWithin
<1>10. CASE Annotate(c)
  BY <1>2, <1>3, <1>10, LexemesWithin DEF Annotate
<1>11. CASE PutSpan(c)
  BY <1>2, <1>3, <1>11, LexemesWithin DEF PutSpan
<1>12. ASSUME NEW t \in Offsets, TakeToken(c, t)
       PROVE  Settled(ed', rules')
  BY <1>2, <1>3, <1>12, LexemesWithin DEF TakeToken
<1>13. ASSUME NEW toks \in SUBSET Offsets, PutTokens(c, toks)
       PROVE  Settled(ed', rules')
  BY <1>2, <1>3, <1>13, LexemesWithin DEF PutTokens
<1> QED
  BY <1>6, <1>7, <1>8, <1>9, <1>10, <1>11, <1>12, <1>13

LEMMA ParseSucceedsSettles ==
  ASSUME IInv, NEW n, NEW freeze \in BOOLEAN, ParseSucceeds(n, freeze)
  PROVE  Settled(ed', rules')
<1>1. PICK X : Sound(ed, rules, since, X)
  BY DEF IInv, Kept
<1>2. /\ Structured(ed, rules, since) /\ Range(ed.created) \subseteq X
      /\ X \cap Range(ed.nodeFree) = {} /\ X \subseteq DOMAIN ed.heap
  BY <1>1 DEF Sound, Keeping, TreeIn
<1>3. Len(rules) = 1 /\ n \in Since(since) /\ EndParse(ed, n, freeze)
  BY DEF ParseSucceeds
<1>4. IsEditor(ed) /\ ed.inUse
  <2>1. rules = <<>> <=> Len(rules) = 0
    BY <1>2, ActivationOf
  <2> QED
    BY <1>2, <1>3, <2>1 DEF IInv, Kept, Structured
<1>5. n \in Range(ed.created)
  <2>1. After(ed, since) \subseteq Range(ed.created)
    BY <1>2, AfterInside DEF Structured
  <2> QED
    BY <1>3, <2>1 DEF Since, After
<1> QED
  BY <1>2, <1>3, <1>4, <1>5, EndSettles

LEMMA ParseFailsSettles ==
  ASSUME IInv, NEW n, NEW freeze \in BOOLEAN, ParseFails(n, freeze)
  PROVE  Settled(ed', rules')
<1>1. PICK X : Sound(ed, rules, since, X)
  BY DEF IInv, Kept
<1> DEFINE d == TruncateCreated(ed, Last(rules).at)
           at == rules[1].at
<1>2. /\ Len(rules) = 1 /\ EndParse(TruncateCreated(ed, at), n, freeze)
      /\ n # Nil => n \in After(ed, at)
  BY DEF ParseFails, Since, After
<1>3. rules # <<>>
  <2>1. rules = <<>> <=> Len(rules) = 0
    BY <1>1, ActivationOf DEF Sound
  <2> QED
    BY <1>2, <2>1
<1>4. EndParse(d, n, freeze)
  BY <1>2 DEF Last
<1>5. /\ Truncated(d, ed, at)
      /\ Sound(d, Front(rules), since, X \ OwnedBy(ed, rules, Len(rules)))
  BY <1>1, <1>2, <1>3, RolledBack
<1> HIDE DEF d, at
<1>6. IsEditor(d) /\ d.inUse
  BY <1>3, <1>5 DEF Truncated, IInv, Kept
<1>7. n # Nil => n \in Range(d.nodeFree) /\ Blank(d.heap[n])
  <2>1. n # Nil => n \in Range(d.nodeFree) /\ d.heap[n] = lstNodeResetForPool(ed.heap[n])
    BY <1>2, <1>5 DEF Truncated
  <2>2. \A node : Blank(lstNodeResetForPool(node))
    BY ZeroIsBlank DEF lstNodeResetForPool
  <2> QED
    BY <2>1, <2>2
<1>8. n \in DOMAIN d.heap \cup {Nil}
  <2>1. Range(d.nodeFree) \subseteq DOMAIN d.heap
    <3>1. d.nodeFree \in Seq(DOMAIN d.heap)
      BY <1>6 DEF IsEditor, Editor
    <3> QED
      BY <3>1 DEF Range
  <2> QED
    BY <1>7, <2>1
<1> QED
  BY <1>4, <1>6, <1>7, <1>8, EndSettles

LEMMA CallerSettles ==
  ASSUME IInv, Settled(ed, rules), Create \/ Reconcile \/ FreezeTree
  PROVE  Settled(ed', rules')
<1>1. PICK X : Sound(ed, rules, since, X)
  BY DEF IInv, Kept
<1>2. IsEditor(ed) /\ IsInjective(ed.nodeFree)
  BY <1>1 DEF Sound, Structured
<1>3. CASE Create
  <2> DEFINE n == nodeAcquire(ed)
  <2>1. ed' = NewNode(ed) /\ rules' = rules
    BY <1>3 DEF Create, Edit
  <2>2. Created(ed', ed, n)
    BY <1>2, <2>1, NewNodeCreates
  <2>3. /\ ed'.root = ed.root /\ ed'.treeDirty = ed.treeDirty
        /\ Range(ed.nodeFree) \ {n} \subseteq Range(ed'.nodeFree)
    BY <1>2, <2>1, NewNodeFields
  <2> HIDE DEF n
  <2> QED
    BY <1>1, <2>1, <2>2, <2>3, CreateSettles
<1>4. CASE Reconcile
  <2>1. rules = <<>> /\ ed.root # Nil /\ ed' = ComputeSpans(ed) /\ rules' = rules
    BY <1>4 DEF Reconcile
  <2>2. ed.inUse /\ Rooted(ed) /\ (~ed.treeDirty => Reconciled(ed))
    BY <2>1 DEF Settled
  <2>3. ed.root \in DOMAIN ed.heap
    BY <1>2, <2>1 DEF IsEditor, Editor
  <2> QED
    BY <1>2, <2>1, <2>2, <2>3, ComputeSettles
<1>5. CASE FreezeTree
  <2> DEFINE b == IF ed.root = Nil THEN ed ELSE ensureSpanValid(ed, ed.root, TRUE)
  <2>1. IsEditor(b)
    BY <1>2, EnsureRespans DEF Respanned
  <2>2. ed' = end(b)
    BY <1>5 DEF FreezeTree, Freeze
  <2> HIDE DEF b
  <2>3. ed'.root = Nil
    BY <2>1, <2>2, PoolFields
  <2> QED
    BY <2>3 DEF Settled
<1> QED
  BY <1>3, <1>4, <1>5

LEMMA NextSettles == IInv /\ Settled(ed, rules) /\ [Next]_vars => Settled(ed', rules')
<1> SUFFICES ASSUME IInv, Settled(ed, rules), [Next]_vars
             PROVE  Settled(ed', rules')
  OBVIOUS
<1>1. CASE \/ CreateFragment \/ EnterRule \/ RuleSucceeds \/ RuleFails \/ RuleHeals \/ BeginParse
           \/ \E p, f \in Owned : Unpack(p, f)
  BY <1>1, OpenStepSettles
<1>2. CASE Create \/ Reconcile \/ FreezeTree
  BY <1>2, CallerSettles
<1>3. CASE \E p, c \in Owned : \/ Attach(p, c) \/ Swap(p, c)
                               \/ \E s \in Slots : Fill(p, s, c)
  BY <1>3, EditStepSettles
<1>4. CASE \E n \in Owned : \/ Unlink(n) \/ Annotate(n) \/ PutSpan(n)
                            \/ \E t \in Offsets : TakeToken(n, t)
                            \/ \E toks \in SUBSET Offsets : PutTokens(n, toks)
  BY <1>4, EditStepSettles
<1>5. CASE \E n \in Owned, freeze \in BOOLEAN : ParseSucceeds(n, freeze)
  BY <1>5, ParseSucceedsSettles
<1>6. CASE \E n \in Since(since) \cup {Nil}, freeze \in BOOLEAN : ParseFails(n, freeze)
  BY <1>6, ParseFailsSettles
<1>7. CASE UNCHANGED vars
  BY <1>7 DEF vars
<1> QED
  BY <1>1, <1>2, <1>3, <1>4, <1>5, <1>6, <1>7 DEF Next

LEMMA SettledReconciles == IInv /\ Settled(ed, rules) => SpansReconciled
BY DEF Settled, Reconciled, Fitting, CoveredIn, SpansReconciled, Covered

(* While the tree is not dirty its spans are those of the lexemes below    *)
(* them, after any edits, whether ComputeSpans is forced or passes over    *)
(* what is valid (ast_editor.go:20, 401-491).                              *)
THEOREM SpansAlwaysReconciled == Spec => []SpansReconciled
<1> DEFINE SInv == IInv /\ Settled(ed, rules)
<1>1. Init => SInv
  BY InitInv DEF Init, LSTEditorCreate, Settled
<1>2. SInv /\ [Next]_vars => SInv'
  BY NextInv, NextSettles
<1>3. SInv => SpansReconciled
  BY SettledReconciles
<1> QED
  BY <1>1, <1>2, <1>3, PTL DEF Spec
=============================================================================
