------------------------------ MODULE LSTEditor -----------------------------
(***************************************************************************)
(* The editor as the engine, the rules and the caller of a parse use it.   *)
(* Rule activations nest; each remembers how many nodes the ledger         *)
(* (`created`) held when it began, may touch the nodes created since, and  *)
(* when it fails the engine frees them all (parser.go:326, 353).  Without  *)
(* freezeAfterParse the caller goes on editing the tree and freezes it.    *)
(***************************************************************************)
EXTENDS NodeStore

CONSTANTS Offsets,    \* offsets of lexemes
          MaxNodes,   \* bound: nodes ever allocated
          MaxIDs,     \* bound: nodes created in a session
          MaxRules,   \* bound: nested activations
          MaxKept,    \* bound: nodes of earlier sessions in the ledger
          Careful     \* callers do not build cycles, nor edit after Freeze

(* A source has an end. *)
ASSUME LSTEditorAssumption ==
  /\ Offsets \subseteq Nat /\ \E last \in Offsets \cup {0} : \A t \in Offsets : t <= last
  /\ Careful \in BOOLEAN

VARIABLES ed,         \* the LSTEditor
          rules,      \* open activations, innermost last
          since,      \* len(created) when the session began
          handed,     \* the root the last parse returned, until the next begins
          sealed      \* the nodes of the tree it left frozen

vars == <<ed, rules, since, handed, sealed>>

-----------------------------------------------------------------------------
Since(n) == {ed.created[i] : i \in n + 1 .. Len(ed.created)}

(* What the innermost activation, or else the caller, may touch: the nodes *)
(* created since it began and the fragments it was given.                  *)
Fragments == IF rules = <<>> THEN {} ELSE Last(rules).fragments

Owned == Fragments \cup Since(IF rules = <<>> THEN since ELSE Last(rules).at)

MayEdit == /\ ensureMutable(ed)
           /\ rules # <<>> \/ ed.inUse \/ ~Careful

Edit(e) == /\ MayEdit /\ ed' = e
           /\ UNCHANGED <<rules, since, handed, sealed>>

Create == /\ Len(ed.nodeFree) > 0 \/ Len(ed.heap) + Batch <= MaxNodes
          /\ ed.nextID < MaxIDs
          /\ Edit(NewNode(ed))

CreateFragment ==
  /\ rules # <<>> /\ Len(ed.heap) < MaxNodes /\ MayEdit
  /\ ed' = NewTransientNode(ed)
  /\ rules' = [rules EXCEPT ![Len(rules)].fragments = @ \cup {Len(ed.heap) + 1}]
  /\ UNCHANGED <<since, handed, sealed>>

Attach(parent, child) == MayAttach(ed, parent, child) /\ Edit(AttachChild(ed, parent, child))

(* AttachResult of a fragment, which is then forgotten. *)
Unpack(parent, fragment) ==
  /\ fragment \in Fragments /\ parent # fragment
  /\ ed.heap[fragment].parent = Nil
  /\ \A child \in Range(ed.heap[fragment].children) : child \notin Ancestors(ed, parent)
  /\ MayEdit
  /\ ed' = AttachFragment(ed, parent, fragment)
  /\ rules' = [rules EXCEPT ![Len(rules)].fragments = @ \ {fragment}]
  /\ UNCHANGED <<since, handed, sealed>>

(* A fragment is a container of children and has no slots. *)
Fill(parent, name, child) ==
  /\ MaySetSlot(ed, child) /\ parent \notin Fragments
  /\ Careful => child \notin Ancestors(ed, parent)
  /\ Edit(SetSlot(ed, parent, name, child))

Swap(oldNode, newNode) ==
  /\ MayReplace(ed, oldNode, newNode)
  /\ Careful => newNode \notin Ancestors(ed, oldNode)
  /\ Edit(Replace(ed, oldNode, newNode))

Unlink(node) == ed.heap[node].parent # Nil /\ Edit(Detach(ed, node))

Annotate(node) == Edit(SetAttribute(ed, node))

(* A lexeme is consumed once, so no other node has it. *)
Free(toks, node) == \A n \in DOMAIN ed.heap \ {node} : toks \cap ed.heap[n].tokens = {}

TakeToken(node, tok) == Free({tok}, node) /\ Edit(AddToken(ed, node, tok))

PutTokens(node, toks) == Free(toks, node) /\ Edit(SetTokens(ed, node, toks))

PutSpan(node) == Edit(SetSpan(ed, node, 0, 0))

-----------------------------------------------------------------------------
(* syntaxaParserExecuteRule around a body. *)

(* Mutant: the activation takes the last node of its caller for its own. *)
ActivationEarly(e) == [at |-> IF e.created = <<>> THEN 0 ELSE Len(e.created) - 1, fragments |-> {}]

Activation(e) == [at |-> Len(e.created), fragments |-> {}]

EnterRule == /\ rules # <<>> /\ Len(rules) < MaxRules
             /\ rules' = Append(rules, Activation(ed))
             /\ UNCHANGED <<ed, since, handed, sealed>>

(* Mutant: the fragments of the activation are forgotten. *)
RuleSucceedsForgetting == /\ Len(rules) > 1
                          /\ rules' = Front(rules)
                          /\ UNCHANGED <<ed, since, handed, sealed>>

(* A success hands a fragment, if it is the result, to the caller. *)
RuleSucceeds ==
  /\ Len(rules) > 1
  /\ rules' = [Front(rules) EXCEPT ![Len(rules) - 1].fragments = @ \cup Last(rules).fragments]
  /\ UNCHANGED <<ed, since, handed, sealed>>

RuleFails == /\ Len(rules) > 1
             /\ ed' = TruncateCreated(ed, Last(rules).at)
             /\ rules' = Front(rules)
             /\ UNCHANGED <<since, handed, sealed>>

(* handleFailureState of a recovery barrier. *)
RuleHeals == /\ Len(rules) > 1 /\ ed.nextID < MaxIDs
             /\ Since(Last(rules).at) # {} \/ ed.nodeFree # <<>>
             /\ ed' = NewNode(TruncateCreated(ed, Last(rules).at))
             /\ rules' = Front(rules)
             /\ UNCHANGED <<since, handed, sealed>>

-----------------------------------------------------------------------------
(* parseWithContext, and the caller. *)

BeginParse == /\ ~ed.inUse /\ rules = <<>> /\ Len(ed.created) <= MaxKept
              /\ ed' = begin(ed)
              /\ rules' = <<Activation(ed)>>
              /\ since' = Len(ed.created)
              /\ handed' = Nil /\ sealed' = {}

Tree(e, n) == IF n = Nil THEN {} ELSE Visited(e, n, TRUE)

(* The end of a parse with result e and node n. *)
EndParse(e, n, freezeAfterParse) ==
  LET rooted == setRoot(e, n)
      done   == IF n = Nil THEN rooted ELSE ComputeSpans(rooted)
  IN  /\ rules' = <<>>
      /\ handed' = n
      /\ ed' = IF freezeAfterParse THEN Freeze(done) ELSE done
      /\ sealed' = IF freezeAfterParse THEN Tree(done, n) ELSE sealed
      /\ UNCHANGED since

(* A fragment is no program, and every fragment has been unpacked or, as   *)
(* OptionalSuffix and the Pratt rules do, attached (factory.go:753).       *)
ParseSucceeds(n, freezeAfterParse) ==
  /\ Len(rules) = 1 /\ ed.heap[n].parent = Nil /\ n \in Since(since)
  /\ \A f \in rules[1].fragments : ed.heap[f].parent # Nil \/ Below(ed.heap[f]) = {}
  /\ EndParse(ed, n, freezeAfterParse)

(* A failed program has no node, or is a Root and returns its own, the     *)
(* first it made, which the engine has just freed (factory.go:898-915).    *)
ParseFails(n, freezeAfterParse) ==
  /\ Len(rules) = 1
  /\ n # Nil => n \in Since(rules[1].at) /\ n = ed.created[rules[1].at + 1]
  /\ EndParse(TruncateCreated(ed, rules[1].at), n, freezeAfterParse)

Reconcile == /\ rules = <<>> /\ ed.root # Nil
             /\ ed' = ComputeSpans(ed)
             /\ UNCHANGED <<rules, since, handed, sealed>>

FreezeTree == /\ rules = <<>> /\ ed.inUse
              /\ ed' = Freeze(ed)
              /\ sealed' = Tree(ed, ed.root)
              /\ UNCHANGED <<rules, since, handed>>

Init == /\ ed = LSTEditorCreate /\ rules = <<>> /\ since = 0
        /\ handed = Nil /\ sealed = {}

Next ==
  \/ Create \/ CreateFragment \/ EnterRule \/ RuleSucceeds \/ RuleFails \/ RuleHeals
  \/ BeginParse \/ Reconcile \/ FreezeTree
  \/ \E p, c \in Owned : Attach(p, c) \/ Unpack(p, c) \/ Swap(p, c)
                          \/ \E s \in Slots : Fill(p, s, c)
  \/ \E n \in Owned : \/ Unlink(n) \/ Annotate(n) \/ PutSpan(n)
                      \/ \E t \in Offsets : TakeToken(n, t)
                      \/ \E toks \in SUBSET Offsets : PutTokens(n, toks)
  \/ \E n \in Owned, freeze \in BOOLEAN : ParseSucceeds(n, freeze)
  \/ \E n \in Since(since) \cup {Nil}, freeze \in BOOLEAN : ParseFails(n, freeze)

Spec == Init /\ [][Next]_vars

-----------------------------------------------------------------------------
(* Properties. *)

Addresses == DOMAIN ed.heap

(* Every link, every entry of the ledger and of the pool and everything    *)
(* that a rule or the caller holds is a node of the heap.                  *)
TypeOK ==
  /\ ed \in [heap : Seq([id : Nat, parent : Addresses \cup {Nil}, children : Seq(Addresses),
                         slots : [Slots -> Addresses \cup {Nil}], tokens : SUBSET Offsets,
                         start : Nat, end : Nat, spanValid : BOOLEAN]),
             nextID : Nat, root : Addresses \cup {Nil}, frozen : BOOLEAN, treeDirty : BOOLEAN,
             created : Seq(Addresses), nodeFree : Seq(Addresses), inUse : BOOLEAN]
  /\ since \in 0 .. Len(ed.created)
  /\ rules \in Seq([at : since .. Len(ed.created), fragments : SUBSET Addresses])
  /\ handed \in Addresses \cup {Nil} /\ sealed \subseteq Addresses

(* What somebody holds: the ledger, and the fragments that are the results *)
(* of the children of open activations; and what can be reached from it.   *)
Held == Range(ed.created) \cup UNION {rules[i].fragments : i \in DOMAIN rules}

Live == UNION {Tree(ed, n) : n \in Held}

Parent(n) == ed.heap[n].parent

(* Where p links to n: indices among the children and names of slots. *)
Places(p, n) ==
  {<<"child", i>> : i \in {i \in DOMAIN ed.heap[p].children : ed.heap[p].children[i] = n}}
    \cup {<<"slot", s>> : s \in {s \in Slots : ed.heap[p].slots[s] = n}}

LinkedOnce(p, n) == IF Parent(n) = p THEN \E place \in Places(p, n) : Places(p, n) = {place}
                    ELSE Places(p, n) = {}

(* Parent pointers and child links tell the same story: a live node is     *)
(* linked from its parent exactly once, and from no other live node,       *)
(* whatever was attached, replaced, unpacked from a fragment, detached or  *)
(* rolled back before (ast_editor.go:183-308).                             *)
LinksAgree == \A p, n \in Live : LinkedOnce(p, n)

(* A rolled-back rule leaves no pointer behind (ast_editor.go:130-146):    *)
(* no node that can be reached is in the pool or has a parent there, and   *)
(* no node is in the pool or in the ledger twice: two rules would share    *)
(* it.                                                                     *)
PoolIsDisjoint ==
  /\ \A n \in Live : {n, Parent(n)} \cap Range(ed.nodeFree) = {}
  /\ IsInjective(ed.nodeFree) /\ IsInjective(ed.created)

(* What would be freed if the i-th open activation failed, and the         *)
(* fragments that would be dropped with it.                                *)
OwnedFrom(i) == Since(rules[i].at) \cup UNION {rules[j].fragments : j \in i .. Len(rules)}

(* The part of a tree that a rule has built can be cut off at any time     *)
(* (parser.go:326, 353): no node that it would free is linked with one     *)
(* that would stay, in either direction, although fragments carry nodes    *)
(* from one rule to another.                                               *)
RollbackIsLocal ==
  \A i \in DOMAIN rules, n \in Live :
     Parent(n) # Nil => (n \in OwnedFrom(i) <=> Parent(n) \in OwnedFrom(i))

(* The bytes of all the lexemes in a subtree. *)
Covered(n) == UNION {ed.heap[m].tokens : m \in Tree(ed, n)}

(* treeDirty is a promise (ast_editor.go:20): while it is off, the span of *)
(* every node of the tree is that of all the lexemes below it, and a node  *)
(* without lexemes has none, although an edit marks only the node and its  *)
(* parent.  ComputeSpans then skips what is marked valid.                  *)
SpansReconciled ==
  ed.root # Nil /\ ~ed.treeDirty =>
    \A n \in Tree(ed, ed.root) :
       LET node == ed.heap[n]
       IN  /\ node.spanValid <=> Covered(n) # {}
           /\ node.spanValid => /\ node.start \in Covered(n) /\ node.end - 1 \in Covered(n)
                                /\ \A t \in Covered(n) : node.start <= t /\ t < node.end

(* "Stable unique identifier for this node instance" (ast_node.go:27): no  *)
(* two nodes of a session share an id, although nodes are recycled.        *)
IdsAreUnique ==
  \A m, n \in Since(since) : m # n => ed.heap[m].id # ed.heap[n].id

-----------------------------------------------------------------------------
(* The inductive invariant behind them.  Some set X of nodes holds all     *)
(* that is held, has no node of the pool and is closed under links; inside *)
(* X links agree and respect the open activations.                         *)

LinksInside(X) == \A n \in X : Parent(n) \in X \cup {Nil} /\ Below(ed.heap[n]) \subseteq X

KeptNodes(X) ==
  /\ Held \subseteq X /\ X \cap Range(ed.nodeFree) = {}
  /\ LinksInside(X)
  /\ \A p, n \in X : LinkedOnce(p, n)
  /\ \A i \in DOMAIN rules, n \in X :
        Parent(n) # Nil => (n \in OwnedFrom(i) <=> Parent(n) \in OwnedFrom(i))

(* A fragment belongs to one activation, is neither in the ledger nor in   *)
(* the pool, and is a container of children.                               *)
FragmentsApart ==
  \A i \in DOMAIN rules : \A f \in rules[i].fragments :
     /\ f \notin Range(ed.created) \cup Range(ed.nodeFree)
     /\ \A s \in Slots : ed.heap[f].slots[s] = Nil
     /\ \A j \in DOMAIN rules : f \in rules[j].fragments => i = j

(* Activations nest, in the ledger too, and only while the editor is in    *)
(* use.                                                                    *)
ActivationsNest ==
  /\ \A i, j \in DOMAIN rules : i <= j => rules[i].at <= rules[j].at
  /\ rules # <<>> => ed.inUse

NodesAreKept ==
  /\ \E X \in SUBSET Addresses : KeptNodes(X)
  /\ IsInjective(ed.created) /\ IsInjective(ed.nodeFree)
  /\ FragmentsApart /\ ActivationsNest

-----------------------------------------------------------------------------
(* What the documentation says of the editor, and the code does not do.    *)

(* ast_editor.go:14: "Once frozen, the LST becomes immutable."  No step    *)
(* changes a node of a tree that has been frozen.                          *)
FrozenIsImmutable ==
  [][\A n \in sealed : ed'.heap[n] = ed.heap[n]]_vars

(* ast_editor.go:11: "All topology changes are invariant-checked".  No     *)
(* call makes a node its own ancestor.                                     *)
CyclesAreRefused ==
  \A n \in Live : ed.heap[n].parent # Nil => n \notin Ancestors(ed, ed.heap[n].parent)

(* parser.go:238-241: SyntaxaParserParseWithContext "guarantees" a         *)
(* "consistent LST assembly".  The root that a parse has handed to its     *)
(* caller is not waiting in the pool to become another node.               *)
RootIsLive == handed # Nil => handed \notin Range(ed.nodeFree)
=============================================================================
