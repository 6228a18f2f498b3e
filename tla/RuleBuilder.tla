---------------------------- MODULE RuleBuilder -----------------------------
(***************************************************************************)
(* The constructors of rule/factory.go: what they derive for a rule from   *)
(* the rules it is built of.  A constructor takes ParserRules, as records, *)
(* and returns one; its `kids` are the rules its closure captures.         *)
(*                                                                         *)
(* GetRecoveryTokens copies the consuming recovery tokens only, so every   *)
(* wrapper loses the no-consume tokens and the barrier of its inner rule.  *)
(***************************************************************************)
EXTENDS Naturals, Sequences

(* constructRule and ParserRuleCreate.  A rule whose grammar is a context  *)
(* boundary registers itself under its label, before WithRecoveryBarrier.  *)
constructRule(kind, label, mustConsume, mustReturnNode, sync, noConsume, boundary, kids) ==
  [kind |-> kind, label |-> label, kids |-> kids,
   MustConsume |-> mustConsume, MustReturnNode |-> mustReturnNode,
   recoveryTokens |-> sync, noConsumeOnRecoveryTokens |-> noConsume,
   isRecoveryBarrier |-> FALSE,
   IsContextBoundary |-> boundary, defined |-> FALSE, Lookaheads |-> {},
   \* parameters of single constructors
   tokens |-> {}, addNode |-> FALSE, open |-> "", close |-> "", element |-> "",
   separator |-> "", allowEmpty |-> FALSE, trailing |-> "", transparent |-> FALSE,
   guard |-> {}, suffix |-> "", prefix |-> "", target |-> "",
   bounded |-> FALSE, hasMax |-> FALSE, min |-> 0, max |-> 0, ops |-> <<>>]

WithRecoveryBarrier(rule) == [rule EXCEPT !.isRecoveryBarrier = TRUE]

(* Define registers the rule as it is now, barrier included. *)
Define(rule) == [rule EXCEPT !.IsContextBoundary = TRUE, !.defined = TRUE]

(* A wrapper that keeps its inner rule's identity, contract and grammar.   *)
Wrapper(kind, rule, sync, noConsume) ==
  [constructRule(kind, rule.label, rule.MustConsume, rule.MustReturnNode,
                 sync, noConsume, rule.IsContextBoundary, <<rule>>)
     EXCEPT !.Lookaheads = rule.Lookaheads]

-----------------------------------------------------------------------------
expectCore(label, tokens, addNode) ==
  [constructRule("Expect", label, TRUE, addNode, {}, {}, FALSE, <<>>)
     EXCEPT !.tokens = tokens, !.addNode = addNode]

Expect(label, token) == expectCore(label, {token}, TRUE)

ExpectVirtual(label, token) == expectCore(label, {token}, FALSE)

ExpectOneOf(label, tokens) == expectCore(label, tokens, TRUE)

List(label, open, element, separator, close, allowEmpty, trailing) ==
  [constructRule("List", label, TRUE, TRUE, {close}, {}, TRUE, <<>>)
     EXCEPT !.open = open, !.element = element, !.separator = separator, !.close = close,
            !.allowEmpty = allowEmpty, !.trailing = trailing]

listCoreMustConsume(rules) == \E i \in DOMAIN rules : rules[i].MustConsume

TransparentSequence(label, rules) ==
  [constructRule("Sequence", label, listCoreMustConsume(rules), FALSE, {}, {}, TRUE, rules)
     EXCEPT !.transparent = TRUE]

listCore(label, sync, rules) ==
  WithRecoveryBarrier(
    constructRule("Sequence", label, listCoreMustConsume(rules), TRUE, sync, {}, TRUE, rules))

Sequence(label, rules) == listCore(label, {}, rules)

Block(label, blockEnd, rules) == listCore(label, {blockEnd}, rules)

(* wrapCore runs like a sequence of one rule. *)
Wrap(label, rule) == listCore(label, {}, <<rule>>)

Optional(rule) ==
  constructRule("Optional", rule.label, FALSE, FALSE, rule.recoveryTokens, {}, FALSE, <<rule>>)

OptionalWhen(rule, guard) ==
  [constructRule("OptionalWhen", rule.label, FALSE, FALSE,
                 rule.recoveryTokens, {}, FALSE, <<rule>>)
     EXCEPT !.guard = guard]

OptionalPrefix(rule, token) == OptionalWhen(rule, {[offset |-> 0, expected |-> token]})

PredictLookahead(rule, guard) ==
  [Wrapper("Predict", rule, rule.recoveryTokens, {})
     EXCEPT !.Lookaheads = guard, !.guard = guard]

OptionalSuffix(label, rule, suffix) ==
  [constructRule("OptionalSuffix", label, rule.MustConsume, TRUE,
                 rule.recoveryTokens, {}, TRUE, <<rule>>)
     EXCEPT !.suffix = suffix]

Required(rule) == Wrapper("Required", rule, rule.recoveryTokens, {})

Root(label, mustConsume, rules) ==
  constructRule("Root", label, mustConsume, TRUE, {}, {}, TRUE, rules)

constructRepetition(label, bounded, hasMax, min, max, transparent, rule) ==
  [constructRule("Repetition", label, min > 0 /\ rule.MustConsume, TRUE,
                 rule.recoveryTokens, {}, TRUE, <<rule>>)
     EXCEPT !.bounded = bounded, !.hasMax = hasMax, !.min = min, !.max = max,
            !.transparent = transparent]

NOrMore(label, min, rule) == constructRepetition(label, FALSE, FALSE, min, 0, FALSE, rule)

ZeroOrMore(label, rule) == NOrMore(label, 0, rule)

OneOrMore(label, rule) == NOrMore(label, 1, rule)

TransparentNOrMore(label, min, rule) ==
  constructRepetition(label, FALSE, FALSE, min, 0, TRUE, rule)

Repeat(label, min, max, rule) ==
  constructRepetition(label, TRUE, TRUE, min, max, FALSE, rule)

TransparentRepeat(label, min, max, rule) ==
  constructRepetition(label, TRUE, TRUE, min, max, TRUE, rule)

Nest(label, open, close, rule) ==
  WithRecoveryBarrier(
    [constructRule("Nest", label, TRUE, TRUE, {}, {close}, TRUE, <<rule>>)
       EXCEPT !.open = open, !.close = close])

TransparentNest(label, open, close, rule) ==
  WithRecoveryBarrier(
    [constructRule("Nest", label, rule.MustConsume, rule.MustReturnNode,
                   {}, {close}, TRUE, <<rule>>)
       EXCEPT !.open = open, !.close = close, !.transparent = TRUE])

Reference(label, target) ==
  [constructRule("Reference", label, FALSE, FALSE, {}, {}, FALSE, <<>>)
     EXCEPT !.target = target]

RecoverSync(rule, tokens) == Wrapper("RecoverSync", rule, rule.recoveryTokens \cup tokens, {})

RecoverSyncBoundary(rule, sync, noConsume) ==
  Wrapper("RecoverSync", rule, rule.recoveryTokens \cup sync \cup noConsume, noConsume)

Prefixed(label, prefix, rule) ==
  [constructRule("Prefixed", label, TRUE, rule.MustReturnNode,
                 rule.recoveryTokens, {}, TRUE, <<rule>>)
     EXCEPT !.prefix = prefix]

choiceMustConsume(rules) == rules # <<>> /\ \A i \in DOMAIN rules : rules[i].MustConsume

Choice(label, rules) ==
  constructRule("Choice", label, choiceMustConsume(rules), FALSE, {}, {}, TRUE, rules)

(* Pratt operators: an operator is a token, or the rule kids[kid] of the   *)
(* expression.  ImplicitInfix has neither.                                 *)
Operator(fix, token, kid, leftBP, rightBP) ==
  [fix |-> fix, token |-> token, kid |-> kid, leftBP |-> leftBP, rightBP |-> rightBP]

PrattPrefixOp(token, rightBP) == Operator("prefix", token, 0, 0, rightBP)

PrattPrefixRuleOp(kid, rightBP) == Operator("prefix", "", kid, 0, rightBP)

PrattInfixOp(token, leftBP, rightBP) == Operator("infix", token, 0, leftBP, rightBP)

PrattInfixRuleOp(kid, leftBP, rightBP) == Operator("infix", "", kid, leftBP, rightBP)

PrattImplicitInfix(leftBP, rightBP) == Operator("implicit", "", 0, leftBP, rightBP)

PrattPostfixOp(token, leftBP) == Operator("postfix", token, 0, leftBP, 0)

PrattPostfixRuleOp(kid, leftBP) == Operator("postfix", "", kid, leftBP, 0)

(* kids[1] is the primary rule, the rules of the operators follow. *)
Expression(label, primary, rules, ops) ==
  [constructRule("Pratt", label, TRUE, TRUE, {}, {}, TRUE, <<primary>> \o rules)
     EXCEPT !.ops = ops]

(* prefix (separator element)+ ; the caller supplies the labels. *)
Path(label, prefixLabel, prefix, separatorLabel, separator, elementLabel, element, tailLabel) ==
  LET segment == TransparentSequence(separatorLabel,
                   <<ExpectVirtual(separatorLabel, separator), Expect(elementLabel, element)>>)
  IN  Sequence(label, <<Expect(prefixLabel, prefix), Required(segment),
                        TransparentNOrMore(tailLabel, 0, segment)>>)
=============================================================================
