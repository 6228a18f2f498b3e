------------------------------ MODULE NodeStore -----------------------------
(***************************************************************************)
(* The LSTEditor (ast_editor.go), as functions from one editor to the      *)
(* next.  Its heap holds every node ever allocated; a node is its index    *)
(* there and Nil is the nil pointer.  A lexeme is its offset t and covers  *)
(* the bytes from t up to t + 1.  Kinds, attributes, revisions and the     *)
(* diagnostic line cache are left out.                                     *)
(***************************************************************************)
EXTENDS Naturals, Sequences, SequencesExt

CONSTANTS Slots,   \* slot names
          Batch    \* nodes that nodeGrow adds when the pool is empty

ASSUME BatchAssumption == Batch \in Nat \ {0}

Nil == 0

ZeroNode == [id |-> 0, parent |-> Nil, children |-> <<>>, slots |-> [s \in Slots |-> Nil],
             tokens |-> {}, start |-> 0, end |-> 0, spanValid |-> FALSE]

LSTEditorCreate ==
  [heap |-> <<>>, nextID |-> 0, root |-> Nil, frozen |-> FALSE, treeDirty |-> FALSE,
   created |-> <<>>, nodeFree |-> <<>>, inUse |-> FALSE]

ensureMutable(e) == ~e.frozen

Alloc(e, n) == [e EXCEPT !.heap = @ \o [i \in 1 .. n |-> ZeroNode]]

-----------------------------------------------------------------------------
(* Sessions. *)

begin(e) == [e EXCEPT !.inUse = TRUE]

end(e) == [e EXCEPT !.root = Nil, !.nextID = 0, !.frozen = FALSE, !.treeDirty = FALSE,
                    !.inUse = FALSE]

setRoot(e, n) == [e EXCEPT !.root = n, !.treeDirty = TRUE]

-----------------------------------------------------------------------------
(* The pool.  The next node is the one freed last. *)

grown(e) ==
  IF e.nodeFree # <<>> THEN e
  ELSE [Alloc(e, Batch) EXCEPT !.nodeFree = [i \in 1 .. Batch |-> Len(e.heap) + i]]

nodeAcquire(e) == Last(grown(e).nodeFree)

(* Everything but the id and the kind. *)
lstNodeResetForPool(node) == [ZeroNode EXCEPT !.id = node.id]

(* Mutant: a recycled node keeps its id. *)
NewNodeKeepingId(e) ==
  LET g == grown(e)
      n == nodeAcquire(e)
  IN  [g EXCEPT !.nodeFree = Front(@), !.nextID = @ + 1, !.created = Append(@, n),
                !.heap[n] = [lstNodeResetForPool(@) EXCEPT !.id = IF @ = 0 THEN e.nextID + 1
                                                                  ELSE @]]

NewNode(e) ==
  LET g == grown(e)
      n == nodeAcquire(e)
  IN  [g EXCEPT !.nodeFree = Front(@), !.nextID = @ + 1, !.created = Append(@, n),
                !.heap[n] = [lstNodeResetForPool(@) EXCEPT !.id = e.nextID + 1]]

(* A node outside the ledger; the result is the last node of the heap. *)
NewTransientNode(e) == Alloc(e, 1)

(* Mutant: the ledger keeps the freed nodes. *)
TruncateCreatedTwice(e, after) ==
  LET suffix == SubSeq(e.created, after + 1, Len(e.created))
  IN  [e EXCEPT !.nodeFree = @ \o suffix,
                !.heap = [n \in DOMAIN @ |-> IF n \in Range(suffix)
                                               THEN lstNodeResetForPool(@[n]) ELSE @[n]]]

(* Mutant: one node too many is freed. *)
TruncateCreatedOneMore(e, after) ==
  LET left   == IF after = 0 THEN 0 ELSE after - 1
      suffix == SubSeq(e.created, left + 1, Len(e.created))
  IN  [e EXCEPT !.created = SubSeq(@, 1, left),
                !.nodeFree = @ \o suffix,
                !.heap = [n \in DOMAIN @ |-> IF n \in Range(suffix)
                                               THEN lstNodeResetForPool(@[n]) ELSE @[n]]]

TruncateCreated(e, after) ==
  LET suffix == SubSeq(e.created, after + 1, Len(e.created))
  IN  [e EXCEPT !.created = SubSeq(@, 1, after),
                !.nodeFree = @ \o suffix,
                !.heap = [n \in DOMAIN @ |-> IF n \in Range(suffix)
                                               THEN lstNodeResetForPool(@[n]) ELSE @[n]]]

-----------------------------------------------------------------------------
(* Topology. *)

(* p and the nodes above it: n steps up the parent links. *)
Ancestors(e, p) ==
  LET up[n \in 0 .. Len(e.heap)] ==
        IF n = 0 THEN p ELSE IF up[n - 1] = Nil THEN Nil ELSE e.heap[up[n - 1]].parent
  IN  {up[n] : n \in 0 .. Len(e.heap)} \ {Nil}

markDirty(e, nodes) ==
  [e EXCEPT !.treeDirty = TRUE,
            !.heap = [n \in DOMAIN @ |-> IF n \in nodes THEN [@[n] EXCEPT !.spanValid = FALSE]
                                         ELSE @[n]]]

MayAttach(e, parent, child) ==
  e.heap[child].parent = Nil /\ child \notin Ancestors(e, parent)

AttachChild(e, parent, child) ==
  markDirty([e EXCEPT !.heap[child].parent = parent,
                      !.heap[parent].children = Append(@, child)],
            {child, parent})

(* The slot of its parent that a node is in. *)
SlotOf(e, node) == CHOOSE s \in Slots : e.heap[e.heap[node].parent].slots[s] = node

Detach(e, node) ==
  LET p == e.heap[node].parent
  IN  IF p = Nil THEN e
      ELSE markDirty([e EXCEPT !.heap[p] = IF node \in Range(@.children)
                                 THEN [@ EXCEPT !.children = RemoveFirst(e.heap[p].children, node)]
                                 ELSE [@ EXCEPT !.slots[SlotOf(e, node)] = Nil],
                               !.heap[node].parent = Nil],
                     {node, p})

(* A fragment's children, whose parent it is, move behind those of the     *)
(* parent, in order: each is detached and attached again.                  *)
AttachFragment(e, parent, fragment) ==
  LET moved == e.heap[fragment].children
      adopted == [n \in DOMAIN e.heap |->
                    IF n \in Range(moved) THEN [e.heap[n] EXCEPT !.parent = parent] ELSE e.heap[n]]
  IN  IF moved = <<>> THEN e
      ELSE markDirty([e EXCEPT !.heap = [adopted EXCEPT ![fragment].children = <<>>,
                                                        ![parent].children = @ \o moved]],
                     Range(moved) \cup {fragment, parent})

(* Unlike AttachChild, SetSlot and Replace do not look for a cycle.        *)
MaySetSlot(e, child) == e.heap[child].parent = Nil

(* Mutant: the node that was in the slot keeps its parent.                 *)
SetSlotOver(e, parent, name, child) ==
  markDirty([e EXCEPT !.heap[parent].slots[name] = child, !.heap[child].parent = parent],
            {child, parent})

SetSlot(e, parent, name, child) ==
  LET old      == e.heap[parent].slots[name]
      unlinked == IF old = Nil THEN e ELSE [e EXCEPT !.heap[old].parent = Nil]
  IN  markDirty([unlinked EXCEPT !.heap[parent].slots[name] = child,
                                 !.heap[child].parent = parent],
                {child, parent})

MayReplace(e, oldNode, newNode) ==
  e.heap[oldNode].parent # Nil /\ e.heap[newNode].parent = Nil

Replace(e, oldNode, newNode) ==
  LET p     == e.heap[oldNode].parent
      first == SelectInSeq(e.heap[p].children, LAMBDA n : n = oldNode)
  IN  markDirty([e EXCEPT !.heap[p] = IF first # 0
                            THEN [@ EXCEPT !.children[first] = newNode]
                            ELSE [@ EXCEPT !.slots[SlotOf(e, oldNode)] = newNode],
                          !.heap[newNode].parent = p, !.heap[oldNode].parent = Nil],
                {newNode, p})

(* SetAttribute and DeleteAttribute only mark the node. *)
SetAttribute(e, node) == markDirty(e, {node})

(* Mutant: a new lexeme only invalidates the node. *)
AddTokenQuietly(e, node, tok) ==
  [e EXCEPT !.heap[node].tokens = @ \cup {tok}, !.heap[node].spanValid = FALSE]

AddToken(e, node, tok) == markDirty([e EXCEPT !.heap[node].tokens = @ \cup {tok}], {node})

SetTokens(e, node, toks) == markDirty([e EXCEPT !.heap[node].tokens = toks], {node})

SetSpan(e, node, start, end_) ==
  markDirty([e EXCEPT !.heap[node].start = start, !.heap[node].end = end_], {node})

-----------------------------------------------------------------------------
(* Spans. *)

Below(node) == (Range(node.children) \cup Range(node.slots)) \ {Nil}

(* The node that ensureSpanValid leaves behind when it has left `below`    *)
(* behind for the nodes below it.  Without force a valid node is left      *)
(* alone.                                                                  *)
Merged(node, below, force) ==
  LET kids  == {k \in Below(node) : below[k].spanValid}
      lows  == node.tokens \cup {below[k].start : k \in kids}
      highs == {t + 1 : t \in node.tokens} \cup {below[k].end : k \in kids}
  IN  IF node.spanValid /\ ~force THEN node
      ELSE IF lows = {} THEN [node EXCEPT !.spanValid = FALSE]
      ELSE [node EXCEPT !.spanValid = TRUE,
                        !.start = CHOOSE l \in lows : \A m \in lows : l <= m,
                        !.end = CHOOSE h \in highs : \A m \in highs : h >= m]

MergedAll(e, below, force) == [n \in DOMAIN e.heap |-> Merged(e.heap[n], below, force)]

(* Recursion, for trees at most d deep. *)
Spanned(e, force) ==
  LET at[d \in 0 .. Len(e.heap)] ==
        MergedAll(e, IF d = 0 THEN [n \in DOMAIN e.heap |-> ZeroNode] ELSE at[d - 1], force)
  IN  at[Len(e.heap)]

Entered(e, nodes, force) ==
  nodes \cup UNION {Below(e.heap[m]) : m \in {m \in nodes : force \/ ~e.heap[m].spanValid}}

(* The nodes that ensureSpanValid visits from n. *)
Visited(e, n, force) ==
  LET reach[d \in 0 .. Len(e.heap)] ==
        IF d = 0 THEN {n} ELSE Entered(e, reach[d - 1], force)
  IN  reach[Len(e.heap)]

ensureSpanValid(e, n, force) ==
  LET new == Spanned(e, force)
      visited == Visited(e, n, force)
  IN  [e EXCEPT !.heap = [m \in DOMAIN @ |-> IF m \in visited THEN new[m] ELSE @[m]]]

ComputeSpans(e) == [ensureSpanValid(e, e.root, e.treeDirty) EXCEPT !.treeDirty = FALSE]

(* Freeze sets frozen and calls end, which clears it again. *)
Freeze(e) == end(IF e.root = Nil THEN e ELSE ensureSpanValid(e, e.root, TRUE))
=============================================================================
