----------------------------- MODULE GrammarIR ------------------------------
(***************************************************************************)
(* The grammar trees of grammar.go, and the tree each constructor of the   *)
(* rule factory gives its rule.  A node is a record with its children in   *)
(* it: two nodes are one and the same when the records are equal, so a     *)
(* grammar must give different labels to what it builds separately.        *)
(* OutputNodeKind is the label of a node that has one.                     *)
(* The RECURSIVE operators of this module are evaluated by TLC only.       *)
(***************************************************************************)
EXTENDS RuleBuilder, SequencesExt

Grammar(kind, label, children) ==
  [Kind |-> kind, GrammarLabel |-> label, Children |-> children,
   Token |-> "", CloseToken |-> "", Min |-> 0, hasMax |-> FALSE, Max |-> 0,
   ReferenceTarget |-> "", OutputNodeKind |-> "", IsContextBoundary |-> FALSE,
   RecoveryTokens |-> {}, NoConsumeOnRecoveryTokens |-> {}, Lookaheads |-> {}]

(* The open token of a nest is its Token. *)
GToken(label, token) == [Grammar("Token", label, <<>>) EXCEPT !.Token = token]

GConcat(label, children) == Grammar("Concat", label, children)

GChoice(label, children) == Grammar("Choice", label, children)

GRepeat(label, body, min) == [Grammar("Repeat", label, <<body>>) EXCEPT !.Min = min]

GBounded(label, body, min, max) ==
  [GRepeat(label, body, min) EXCEPT !.hasMax = TRUE, !.Max = max]

GOptional(label, body) == Grammar("Optional", label, <<body>>)

GNest(label, open, close, body) ==
  [Grammar("Nest", label, <<body>>) EXCEPT !.Token = open, !.CloseToken = close]

GReference(label, target) ==
  [Grammar("Reference", label, <<>>) EXCEPT !.ReferenceTarget = target]

WithOutput(g) == [g EXCEPT !.OutputNodeKind = g.GrammarLabel]

-----------------------------------------------------------------------------
(* open (element (separator element)* ...)? close *)
ListGrammar(r) ==
  LET element == GToken(r.label, r.element)
      sep     == GToken(r.label, r.separator)
      base    == GConcat(r.label, <<element,
                   GRepeat(r.label, GConcat(r.label, <<sep, element>>), 0)>>)
      body    == CASE r.trailing = "Forbidden" -> base
                   [] r.trailing = "Allowed" ->
                        GConcat(r.label, <<base, GOptional(r.label, sep)>>)
                   [] r.trailing = "Required" -> GConcat(r.label, <<base, sep>>)
  IN  WithOutput(GNest(r.label, r.open, r.close,
                       IF r.allowEmpty THEN GOptional(r.label, body) ELSE body))

-----------------------------------------------------------------------------
(* The grammar of an expression: a level per binding power, from loose to  *)
(* tight; a level refers to the next one and the tightest to the primary.  *)

levelLabel(label, bp) == label \o "_BP_" \o ToString(bp)

safeChoice(label, options) == IF Len(options) = 1 THEN options[1] ELSE GChoice(label, options)

(* Concat, flattened where one side is such a concat already. *)
prattConcat(label, left, right) ==
  LET flat(g) == g.Kind = "Concat" /\ g.GrammarLabel = label
  IN  GConcat(label, CASE flat(right) -> <<left>> \o right.Children
                       [] ~flat(right) /\ flat(left) -> Append(left.Children, right)
                       [] OTHER -> <<left, right>>)

LevelOf(o) == IF o.fix = "prefix" THEN o.rightBP ELSE o.leftBP

BindingPowers(r) == SetToSortSeq({LevelOf(r.ops[i]) : i \in DOMAIN r.ops}, <)

(* `rules` are the grammars of the rules of the operators, by kid. *)
buildSingleLevel(r, rules, bp, nextLevel) ==
  LET all(fix)  == LET here(o) == o.fix = fix /\ LevelOf(o) = bp
                       node(o) == IF o.kid = 0 THEN WithOutput(GToken(o.token, o.token))
                                  ELSE rules[o.kid]
                       found   == SelectSeq(r.ops, here)
                   IN  [i \in DOMAIN found |-> node(found[i])]
      some(fix) == all(fix) # <<>>
      loop(options) == GRepeat(r.label, safeChoice(r.label, options), 0)
      body  == IF some("prefix") THEN prattConcat(r.label, loop(all("prefix")), nextLevel)
               ELSE nextLevel
      suffixes ==
           (IF some("postfix") THEN <<safeChoice(r.label, all("postfix"))>> ELSE <<>>)
        \o (IF some("infix") THEN <<GConcat(r.label, <<safeChoice(r.label, all("infix")), body>>)>>
            ELSE <<>>)
        \o (IF some("implicit") THEN <<body>> ELSE <<>>)
  IN  IF suffixes = <<>> THEN body ELSE prattConcat(r.label, body, loop(suffixes))

(* The level roots, loosest first. *)
buildPrecedenceChain(r, rules) ==
  LET bps == BindingPowers(r)
      nextLevel(i) == IF i = Len(bps) THEN rules[1]
                      ELSE GReference(r.label, levelLabel(r.label, bps[i + 1]))
  IN  [i \in DOMAIN bps |->
         [buildSingleLevel(r, rules, bps[i], nextLevel(i))
            EXCEPT !.GrammarLabel = levelLabel(r.label, bps[i]),
                   !.IsContextBoundary = TRUE,
                   !.OutputNodeKind = IF i = Len(bps) THEN rules[1].OutputNodeKind ELSE ""]]

-----------------------------------------------------------------------------
(* What a constructor passes to constructRule, given its kids' grammars.   *)
Shape(r, gs) ==
  CASE r.kind = "Expect" ->
         LET leaf(token) == IF r.addNode THEN WithOutput(GToken(r.label, token))
                            ELSE GToken(r.label, token)
         IN  IF \E t \in r.tokens : r.tokens = {t} THEN leaf(CHOOSE t \in r.tokens : TRUE)
             ELSE GChoice(r.label, [i \in DOMAIN SetToSeq(r.tokens) |->
                                      leaf(SetToSeq(r.tokens)[i])])
    [] r.kind = "List" -> ListGrammar(r)
    [] r.kind \in {"Sequence", "Root"} -> GConcat(r.label, gs)
    [] r.kind \in {"Optional", "OptionalWhen"} -> GOptional(r.label, gs[1])
    [] r.kind \in {"Required", "Predict", "RecoverSync"} -> gs[1]
    [] r.kind = "OptionalSuffix" ->
         GConcat(r.label, <<gs[1], GOptional(r.label, GToken(r.label, r.suffix))>>)
    [] r.kind = "Repetition" -> IF r.hasMax THEN GBounded(r.label, gs[1], r.min, r.max)
                                ELSE GRepeat(r.label, gs[1], r.min)
    [] r.kind = "Nest" ->
         LET nest == GNest(r.label, r.open, r.close, gs[1])
         IN  IF r.transparent THEN nest ELSE WithOutput(nest)
    [] r.kind = "Reference" -> GReference(r.label, r.target)
    [] r.kind = "Prefixed" -> GConcat(r.label, <<GToken(r.label, r.prefix), gs[1]>>)
    [] r.kind = "Choice" -> GChoice(r.label, gs)
    [] r.kind = "Pratt" -> IF r.ops = <<>> THEN gs[1]
                           ELSE GReference(r.label, levelLabel(r.label, BindingPowers(r)[1]))

(* ParserRuleCreate writes the recovery tokens of the rule into its        *)
(* grammar, over those of a rule that has the same grammar.                *)
RECURSIVE GrammarOf(_)
GrammarOf(r) ==
  [Shape(r, [i \in DOMAIN r.kids |-> GrammarOf(r.kids[i])])
     EXCEPT !.RecoveryTokens = r.recoveryTokens,
            !.NoConsumeOnRecoveryTokens = r.noConsumeOnRecoveryTokens,
            !.IsContextBoundary = r.IsContextBoundary,
            !.Lookaheads = r.Lookaheads]

RECURSIVE RulesIn(_), NodesIn(_)
RulesIn(r) == {r} \cup UNION {RulesIn(r.kids[i]) : i \in DOMAIN r.kids}

NodesIn(g) == {g} \cup UNION {NodesIn(g.Children[i]) : i \in DOMAIN g.Children}

(* auxiliaryGrammars: the levels of the expressions among the rules. *)
LevelRoots(r) ==
  LET chain(p) == buildPrecedenceChain(p, [i \in DOMAIN p.kids |-> GrammarOf(p.kids[i])])
      pratts   == {p \in RulesIn(r) : p.kind = "Pratt" /\ p.ops # <<>>}
  IN  UNION {ToSet(chain(p)) : p \in pratts}

(* All grammars a builder has made for the rules rs, and GetDefinedGrammars, *)
(* the registered ones and the levels.                                     *)
GrammarsOf(rs) == UNION {NodesIn(g) : g \in UNION {{GrammarOf(r)} \cup LevelRoots(r) : r \in rs}}

GetDefinedGrammars(rs) == {g \in GrammarsOf(rs) : g.IsContextBoundary}

(* The least fixpoint of Step above x. *)
RECURSIVE LeastFixpoint(_, _)
LeastFixpoint(Step(_), x) == LET y == Step(x)
                             IN  IF y = x THEN x ELSE LeastFixpoint(Step, y)

(* choiceArmGuardsToPattern: the guard that the analysis gives to an arm   *)
(* that is a reference is the first one that a breadth-first walk of its   *)
(* target finds, however deep.                                             *)
RECURSIVE FirstLookaheadsInSubtreeBFS(_, _, _, _)
FirstLookaheadsInSubtreeBFS(guardOf, next, queue, visited) ==
  LET g    == queue[1]
      rest == IF g \in visited THEN Tail(queue) ELSE Tail(queue) \o next[g]
  IN  IF queue = <<>> THEN {}
      ELSE IF guardOf[g] # {} THEN guardOf[g]
      ELSE FirstLookaheadsInSubtreeBFS(guardOf, next, rest, visited \cup {g})
=============================================================================
