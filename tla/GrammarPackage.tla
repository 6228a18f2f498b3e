--------------------------- MODULE GrammarPackage ---------------------------
(***************************************************************************)
(* ProducePackage (grammar_package.go): the walk over the grammar trees    *)
(* that gives every node its path, collects the rules by label, finds      *)
(* duplicate labels and dangling references, and resolves the others.      *)
(*                                                                         *)
(* A node is a number; `grammar` holds the nodes, the root and the         *)
(* additional rules.  Paths are sequences of numbers: <<0>> is "0" and     *)
(* <<k, ...>> is below "ext<k-1>".  They live in the nodes, so a node that *)
(* was packaged before keeps the path it got then.                         *)
(* The RECURSIVE operators of this module are evaluated by TLC only.       *)
(***************************************************************************)
EXTENDS GrammarIR

CONSTANT Packaged   \* what a client may package

VARIABLES grammar,   \* [nodes, root, additional, ...]: fixed
          paths,     \* NodePath: the nodes that have one, and theirs
          rules,     \* GrammarPackage.Grammars: label to node
          nullable,  \* GrammarAnalysis.Nullable, as a set
          stage      \* "produce", "analyse", "build", "run", or "panic"

packageVars == <<grammar, paths, rules, nullable, stage>>

node == grammar.nodes

-----------------------------------------------------------------------------
(* assignPathRec: in the order of the tree, a node that has a path is      *)
(* skipped with its subtree.  Recursion over a worklist of <<node, path>>. *)
RECURSIVE assignPathRec(_, _)
assignPathRec(known, todo) ==
  IF todo = <<>> THEN known
  ELSE LET g == todo[1][1]
           p == todo[1][2]
           below == [i \in DOMAIN node[g].Children |-> <<node[g].Children[i], Append(p, i)>>]
       IN  IF g \in DOMAIN known THEN assignPathRec(known, Tail(todo))
           ELSE assignPathRec(known @@ (g :> p), below \o Tail(todo))

(* Mutant: the disconnected graphs all start at the same address. *)
finalizeGraphPathsSame ==
  assignPathRec(paths, <<<<grammar.root, <<0>>>>>>
    \o [i \in DOMAIN grammar.additional |-> <<grammar.additional[i], <<1>>>>])

finalizeGraphPaths ==
  assignPathRec(paths, <<<<grammar.root, <<0>>>>>>
    \o [i \in DOMAIN grammar.additional |-> <<grammar.additional[i], <<i>>>>])

(* Mutant: a rule is walked once, even if it is another one of that label. *)
RECURSIVE collectAllByLabel(_, _, _)
collectAllByLabel(address, seen, todo) ==
  IF todo = <<>> THEN seen
  ELSE LET g == todo[1]
       IN  IF \E s \in seen : node[s].GrammarLabel = node[g].GrammarLabel
             THEN collectAllByLabel(address, seen, Tail(todo))
             ELSE collectAllByLabel(address, seen \cup {g}, node[g].Children \o Tail(todo))

(* collectAll: the nodes that are walked; a path is walked only once. *)
RECURSIVE collectAll(_, _, _)
collectAll(address, seen, todo) ==
  IF todo = <<>> THEN seen
  ELSE LET g == todo[1]
       IN  IF \E s \in seen : address[s] = address[g]
             THEN collectAll(address, seen, Tail(todo))
             ELSE collectAll(address, seen \cup {g}, node[g].Children \o Tail(todo))

boundaries(walked) == {g \in walked : node[g].IsContextBoundary}

duplicateContextBoundaryLabels(walked) ==
  {node[g].GrammarLabel : g \in {g \in boundaries(walked) :
     \E h \in boundaries(walked) : h # g /\ node[h].GrammarLabel = node[g].GrammarLabel}}

(* rules[label], where there are no duplicates. *)
rulesOf(walked) ==
  [label \in {node[g].GrammarLabel : g \in boundaries(walked)} |->
     CHOOSE g \in boundaries(walked) : node[g].GrammarLabel = label]

(* All nodes of the graphs, walked or not. *)
References == {g \in DOMAIN node : node[g].Kind = "Reference"}

unresolvedRefs(walked) ==
  {node[g].ReferenceTarget : g \in References}
    \ {node[g].GrammarLabel : g \in boundaries(walked)}

ProducePackage ==
  /\ stage = "produce"
  /\ LET address == finalizeGraphPaths
         walked  == collectAll(address, {}, <<grammar.root>> \o grammar.additional)
         refused == \/ duplicateContextBoundaryLabels(walked) # {}
                    \/ unresolvedRefs(walked) # {}
     IN  /\ paths' = address
         /\ rules' = IF refused THEN rules ELSE rulesOf(walked)
         /\ stage' = IF refused THEN "panic" ELSE "analyse"
  /\ UNCHANGED <<grammar, nullable>>

PackageInit ==
  /\ grammar \in Packaged
  /\ paths = <<>> /\ rules = <<>> /\ nullable = {} /\ stage = "produce"

-----------------------------------------------------------------------------
(* The analysis of the package: textbook nullability on the rules that     *)
(* syntaxaNodeToContextaRule makes of the nodes.                           *)

NullableNodes ==
  LET null(N, g) ==
        CASE node[g].Kind = "Optional" -> TRUE
          [] node[g].Kind = "Repeat" -> node[g].Min = 0 \/ node[g].Children[1] \in N
          [] node[g].Kind = "Concat" -> ToSet(node[g].Children) \subseteq N
          [] node[g].Kind = "Choice" -> ToSet(node[g].Children) \cap N # {}
          [] node[g].Kind = "Reference" -> rules[node[g].ReferenceTarget] \in N
          [] OTHER -> FALSE
      Step(N) == {g \in DOMAIN node : null(N, g)}
  IN  LeastFixpoint(Step, {})

GetAnalysis ==
  /\ stage = "analyse" /\ stage' = "build"
  /\ nullable' = NullableNodes
  /\ UNCHANGED <<grammar, paths, rules>>

(* The guard of an arm of a choice. *)
armGuardForChild(g) ==
  LET guardOf == [h \in DOMAIN node |-> node[h].Lookaheads]
      next == [h \in DOMAIN node |->
                 IF node[h].Kind = "Reference" THEN <<rules[node[h].ReferenceTarget]>>
                 ELSE node[h].Children]
  IN  IF node[g].Kind = "Reference" THEN FirstLookaheadsInSubtreeBFS(guardOf, next, <<g>>, {})
      ELSE node[g].Lookaheads

-----------------------------------------------------------------------------
(* Properties. *)

(* No two nodes have the same path (grammar_package.go:347: "unique        *)
(* topological addresses"), although rules share subtrees and some of the  *)
(* additional rules are below the root.                                    *)
PathsAreUnique ==
  \A g, h \in DOMAIN paths : paths[g] = paths[h] => g = h

(* ProducePackage refuses a grammar exactly when two of its boundary nodes *)
(* have one label or a reference has no target, wherever they are in the   *)
(* graphs, and otherwise leaves no rule out: the walk that stops at paths  *)
(* it has seen loses nothing.                                              *)
PackageIsExact ==
  LET all  == boundaries(DOMAIN node)
      bad  == \/ \E g, h \in all : g # h /\ node[g].GrammarLabel = node[h].GrammarLabel
              \/ \E g \in References :
                   \A h \in all : node[h].GrammarLabel # node[g].ReferenceTarget
  IN  stage # "produce" =>
        /\ stage = "panic" <=> bad
        /\ stage # "panic" =>
             /\ DOMAIN paths = DOMAIN node
             /\ \A g \in all : rules[node[g].GrammarLabel] = g
=============================================================================
