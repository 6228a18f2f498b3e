----------------------------- MODULE PrattRules -----------------------------
(***************************************************************************)
(* The body of the rules that rule/pratt.go builds.  runPrattExpression    *)
(* calls itself without an envelope of the engine, so the recursion is the *)
(* stack `runs` of the activation.  A run has its minimum binding power,   *)
(* the cursor at which it began, the operator it is working on, the        *)
(* cursors before and after that operator, and its `stage`:                *)
(*   "operand"  parsePrattPrefix is next                                   *)
(*   "primary"  the primary rule is running                                *)
(*   "operator" the rule of the operator is running                        *)
(*   "right"    the operand after the operator is parsed by the run above  *)
(*   "left"     there is a left operand: the operator loop                 *)
(* A node of the tree is the operator (0 for a primary) with the cursors   *)
(* that delimit left operand, operator and right operand: the left operand *)
(* is from .. mid, the operator mid .. right, the right one right .. to.   *)
(*                                                                         *)
(* "missing operand ..." is not modelled: parsePrimary has already failed  *)
(* when there is no operand, and every other run ends with a node.         *)
(***************************************************************************)
EXTENDS ParserEngine

run == top.runs[Len(top.runs)]

ops == topRule.ops

op == ops[run.op]

Run(minBP, cur) ==
  [minBP |-> minBP, from |-> cur, op |-> 0, mid |-> cur, right |-> cur, stage |-> "operand"]

WithRun(r) == [top EXCEPT !.runs = Append(Pop(@), r)]

(* The current run takes operator o, which ends at cursor `cur`, and       *)
(* starts a run for the operand after it.                                  *)
RunFor(o, cur) ==
  [top EXCEPT !.runs = Pop(@) \o <<[run EXCEPT !.op = o, !.mid = cursor, !.right = cur,
                                               !.stage = "right"],
                                   Run(ops[o].rightBP, cur)>>]

Node(o, from, mid, right, to) ==
  [op |-> o, from |-> from, mid |-> mid, right |-> right, to |-> to]

(* The run r has its next left operand, the node n. *)
WithLeft(below, r, n) ==
  [top EXCEPT !.runs = Append(below, [r EXCEPT !.op = 0, !.stage = "left"]),
              !.nodes = @ \cup {n}]

-----------------------------------------------------------------------------
(* The tokens on which an operator is tried: its token, the FIRST set of   *)
(* its rule (resolveRuleTriggers), or for an implicit operator predictMap. *)

OwnTrigger(o) == IF o.kid = 0 THEN {o.token} ELSE parser.First[kids[o.kid]]

WithFix(fix) == {i \in DOMAIN ops : ops[i].fix = fix}

predictMap == parser.First[kids[1]] \cup UNION {OwnTrigger(ops[i]) : i \in WithFix("prefix")}

Trigger(o) == IF o.fix = "implicit" THEN predictMap ELSE OwnTrigger(o)

(* Token and rule operators of one position must not share a token. *)
Ambiguous(r) ==
  \E i, j \in DOMAIN r.ops :
     /\ i # j /\ r.ops[i].fix = r.ops[j].fix /\ r.ops[i].kid # 0
     /\ LET trigger(o) == IF o.kid = 0 THEN {o.token} ELSE parser.First[r.kids[o.kid]]
        IN  trigger(r.ops[i]) \cap trigger(r.ops[j]) # {}

PrefixOperators == {i \in WithFix("prefix") : Next0.Token \in OwnTrigger(ops[i])}

(* Mutant: an operator must bind more tightly than the run's minimum. *)
OperatorsAbove ==
  {i \in DOMAIN ops \ WithFix("prefix") :
     Next0.Token \in Trigger(ops[i]) /\ ops[i].leftBP > run.minBP}

(* Mutant: any operator of the token, whatever it binds. *)
OperatorsOfAnyPower ==
  {i \in DOMAIN ops \ WithFix("prefix") : Next0.Token \in Trigger(ops[i])}

Operators ==
  {i \in DOMAIN ops \ WithFix("prefix") :
     Next0.Token \in Trigger(ops[i]) /\ ops[i].leftBP >= run.minBP}

(* The order in which the loop tries them; of one position there is at     *)
(* most one for a token.                                                   *)
Taken == LET rank(i) == CASE ops[i].fix = "postfix" -> 1
                          [] ops[i].fix = "infix" -> 2
                          [] OTHER -> 3
         IN  CHOOSE i \in Operators : \A j \in Operators : rank(i) <= rank(j)

-----------------------------------------------------------------------------
(* Expression's executionFn.  The triggers are resolved on its first call. *)

AmbiguityPanic ==
  /\ At("Pratt", "begin") /\ Ambiguous(topRule)
  /\ control' = "panic"
  /\ UNCHANGED <<parser, input, cursor, calls, ret, recovery, errs, created>>

PrattBegin ==
  /\ At("Pratt", "begin") /\ ~Ambiguous(topRule)
  /\ Continue([top EXCEPT !.runs = <<Run(0, cursor)>>], cursor, errs, created)

Operand == At("Pratt", "loop") /\ run.stage = "operand"

CallOperator(o) ==
  CallKid(WithRun([run EXCEPT !.op = o, !.mid = cursor, !.stage = "operator"]),
          ops[o].kid, "Normal")

TakeToken(o) == Continue(RunFor(o, Consume(cursor)), Consume(cursor), errs, created)

TryPrefixOp ==
  Operand /\ \E o \in PrefixOperators : ops[o].kid = 0 /\ TakeToken(o)

TryPrefixRuleOp ==
  Operand /\ \E o \in PrefixOperators : ops[o].kid # 0 /\ CallOperator(o)

ParsePrimary ==
  /\ Operand /\ PrefixOperators = {}
  /\ CallKid(WithRun([run EXCEPT !.stage = "primary"]), 1, "Normal")

ParsePrimaryEnd ==
  /\ At("Pratt", "resume") /\ run.stage = "primary"
  /\ CASE ~ret.Succeeded -> Give(ret)
       [] ret.Succeeded /\ ~ret.Node ->
            Return(Failure(FailureError), cursor, Reported(Next0.Start), created)
       [] OTHER ->
            Continue(WithLeft(Pop(top.runs), run, Node(0, run.from, run.from, cursor, cursor)),
                     cursor, errs, created)

Loop == At("Pratt", "loop") /\ run.stage = "left"

TryPostfixOp ==
  /\ Loop /\ Operators # {} /\ ops[Taken].fix = "postfix" /\ ops[Taken].kid = 0
  /\ LET end == Consume(cursor)
     IN  Continue(WithLeft(Pop(top.runs), run, Node(Taken, run.from, cursor, end, end)),
                  end, errs, NewNodes(1))

TryInfixOp ==
  Loop /\ Operators # {} /\ ops[Taken].fix = "infix" /\ ops[Taken].kid = 0 /\ TakeToken(Taken)

(* tryPostfixRuleOp and tryInfixRuleOp up to the operator's rule. *)
TryRuleOp == Loop /\ Operators # {} /\ ops[Taken].kid # 0 /\ CallOperator(Taken)

(* The rule has ended.  Whatever fails here or in a run above is returned  *)
(* as it is, by all the runs.                                              *)
RuleOpEnd ==
  /\ At("Pratt", "resume") /\ run.stage = "operator"
  /\ CASE ~ret.Succeeded -> Give(ret)
       [] ret.Succeeded /\ op.fix = "postfix" ->
            Continue(WithLeft(Pop(top.runs), run, Node(run.op, run.from, run.mid, cursor, cursor)),
                     cursor, errs, NewNodes(1))
       [] OTHER ->
            LET taken == [run EXCEPT !.right = cursor, !.stage = "right"]
            IN  Continue([top EXCEPT !.runs = Pop(@) \o <<taken, Run(op.rightBP, cursor)>>],
                         cursor, errs, created)

TryImplicitInfix ==
  /\ Loop /\ Operators # {} /\ ops[Taken].fix = "implicit"
  /\ Continue(RunFor(Taken, cursor), cursor, errs, created)

(* Mutant: the node begins at its operator, without its left operand. *)
RunEndDroppingLeft ==
  /\ Loop /\ Operators = {} /\ Len(top.runs) > 1
  /\ LET below == top.runs[Len(top.runs) - 1]
     IN  Continue(WithLeft(Pop(Pop(top.runs)), below,
                           Node(below.op, below.mid, below.mid, below.right, cursor)),
                  cursor, errs, NewNodes(1))

(* A run that no operator continues is the right operand of the run below. *)
RunEnd ==
  /\ Loop /\ Operators = {} /\ Len(top.runs) > 1
  /\ LET below == top.runs[Len(top.runs) - 1]
     IN  Continue(WithLeft(Pop(Pop(top.runs)), below,
                           Node(below.op, below.from, below.mid, below.right, cursor)),
                  cursor, errs, NewNodes(1))

PrattEnd == Loop /\ Operators = {} /\ Len(top.runs) = 1 /\ Give(Success(TRUE))

PrattStep ==
  \/ AmbiguityPanic \/ PrattBegin
  \/ TryPrefixOp \/ TryPrefixRuleOp \/ ParsePrimary \/ ParsePrimaryEnd
  \/ TryPostfixOp \/ TryInfixOp \/ TryRuleOp \/ RuleOpEnd \/ TryImplicitInfix
  \/ RunEnd \/ PrattEnd

-----------------------------------------------------------------------------
(* Properties. *)

TakesLeft(o) == o # 0 /\ ops[o].fix # "prefix"

TakesRight(o) == o # 0 /\ ops[o].fix # "postfix"

(* The nodes are one tree over the lexemes from i up to j: every operand   *)
(* is one node, and each lexeme is in one operator or primary.             *)
IsTree(nodes, i, j) ==
  LET spans(f, t) == \E n \in nodes : n.from = f /\ n.to = t
      owners(k)   == {n \in nodes : n.mid <= k /\ k < n.right}
  IN  /\ spans(i, j)
      /\ \A k \in i .. j - 1 : Cardinality(owners(k)) = 1
      /\ \A n \in nodes :
            /\ i <= n.from /\ n.to <= j
            /\ IF TakesLeft(n.op) THEN spans(n.from, n.mid) ELSE n.from = n.mid
            /\ IF TakesRight(n.op) THEN spans(n.right, n.to) ELSE n.right = n.to

ReturnsExpression == control = "leave" /\ topRule.kind = "Pratt" /\ ret.Succeeded

(* What an expression rule returns is the one tree over the lexemes it     *)
(* consumed: no operand is lost, taken twice or left without its operator, *)
(* however the calls of runPrattExpression follow each other, for token,   *)
(* rule and implicit operators in every position (pratt.go:520-808).       *)
ExpressionsAreTrees == ReturnsExpression => IsTree(top.nodes, top.start, cursor)

(* An operator at the right edge of the left operand of another one binds  *)
(* its own right operand more tightly than the other binds to the left: it *)
(* was the loop of the run for that operand that did not take the other    *)
(* one, by whatever map of triggers it might have (pratt.go:618-808).      *)
LeftOperandsBindTighter ==
  ReturnsExpression =>
    \A n, m \in top.nodes :
       TakesLeft(n.op) /\ TakesRight(m.op) /\ n.from <= m.from /\ m.to = n.mid
         => ops[m.op].rightBP > ops[n.op].leftBP

(* An operator at the left edge of the right operand of another one binds  *)
(* to the left at least as tightly as the other binds to the right: every  *)
(* loop on the way compared it with the minimum of its run, which is the   *)
(* right binding power of the operator before that run (pratt.go:520-808). *)
(* Where an operator or primary consumed nothing, the lexemes do not tell  *)
(* what is inside of what.                                                 *)
RightOperandsBindTighter ==
  /\ ReturnsExpression
  /\ \A n \in top.nodes : n.mid < n.right \/ (n.op # 0 /\ ops[n.op].fix = "implicit")
  => \A n, m \in top.nodes :
       TakesRight(n.op) /\ TakesLeft(m.op) /\ m.from = n.right /\ m.to <= n.to
         => ops[m.op].leftBP >= ops[n.op].rightBP

(* README.md:74: "left-assoc uses `RightBP < LeftBP`".  With such powers   *)
(* the right operand of an infix operator is no application of the same    *)
(* operator.                                                               *)
LeftAssociative ==
  ReturnsExpression =>
    \A n, m \in top.nodes :
       /\ n.op # 0 /\ ops[n.op].fix = "infix" /\ ops[n.op].rightBP < ops[n.op].leftBP
       /\ m.from = n.right /\ m.to = n.to
       => m.op # n.op
=============================================================================
