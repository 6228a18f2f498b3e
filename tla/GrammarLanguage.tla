--------------------------- MODULE GrammarLanguage --------------------------
(***************************************************************************)
(* What the parser should accept: the language of its grammar, computed    *)
(* from the grammar alone.  Spans[x] is the least set of <<i, j>> such     *)
(* that rule x derives the lexemes from cursor i up to cursor j; nothing   *)
(* in it depends on order of choice, on backtracking or on recovery.       *)
(* Evaluated by TLC only (LeastFixpoint is RECURSIVE).                     *)
(***************************************************************************)
EXTENDS RuleFactory, GrammarTables, SequencesExt

(* The cursors after one lexeme whose token is in T. *)
Shift(i, T) == IF Peek(i, 0).Token \in T THEN {Consume(i)} ELSE {}

(* The visible tokens from cursor i up to the lexeme that ends at j. *)
Visible(i, j) == SelectSeq(SubSeq(input, i + 1, j), LAMBDA t : t \notin Skips)

(* open (element (separator element)* separator?)? close, as the list's    *)
(* options allow.                                                          *)
IsList(r, i, j) ==
  LET v == Visible(i, j)
      n == Len(v) - 2
  IN  /\ j > i /\ input[j] \notin Skips /\ n >= 0
      /\ v[1] = r.open /\ v[n + 2] = r.close
      /\ \A k \in 1 .. n : v[k + 1] = IF k % 2 = 1 THEN r.element ELSE r.separator
      /\ n = 0 => r.allowEmpty
      /\ n % 2 = 1 => r.trailing # "Required"
      /\ n > 0 /\ n % 2 = 0 => r.trailing # "Forbidden"

Cursors == 0 .. Len(input)

(* A guard looks at the tokens after cursor i. *)
Holds(guard, i) == \A l \in guard : Peek(i, l.offset).Token = l.expected

(* buildPrecedenceChain and buildSingleLevel, on languages as the pairs of *)
(* cursors between which there is a match.                                 *)
Then(f, g) == UNION {{<<x[1], y[2]>> : y \in {y \in g : y[1] = x[2]}} : x \in f}

Many(f) == LET Step(g) == g \cup Then(g, f)
           IN  LeastFixpoint(Step, {<<i, i>> : i \in Cursors})

SingleLevel(next, prefixes, postfixes, infixes, implicit) ==
  LET body   == Then(Many(prefixes), next)
      suffix == postfixes \cup Then(infixes, body) \cup (IF implicit THEN body ELSE {})
  IN  Then(body, Many(suffix))

PrecedenceChain(r, match) ==
  LET tokens(o)   == UNION {{<<i, j>> : j \in Shift(i, {o.token})} : i \in Cursors}
      operator(o) == IF o.kid = 0 THEN tokens(o) ELSE match[r.kids[o.kid]]
      onLevel(bp, fix) == {o \in Range(r.ops) : o.fix = fix /\ LevelOf(o) = bp}
      all(S) == UNION {operator(o) : o \in S}
      level(bp, next) ==
        SingleLevel(next, all(onLevel(bp, "prefix")), all(onLevel(bp, "postfix")),
                    all(onLevel(bp, "infix")), onLevel(bp, "implicit") # {})
      bps == SetToSortSeq({LevelOf(o) : o \in Range(r.ops)}, <)
  IN  FoldRight(level, bps, match[r.kids[1]])

Spans ==
  LET After(D, I, k) == {p[2] : p \in {p \in D[k] : p[1] \in I}}
      Along(D, i, ks) == FoldLeft(LAMBDA I, k : After(D, I, k), {i}, ks)
      Times(D, i, k, n) == Along(D, i, [m \in 1 .. n |-> k])
      Ends(D, x, i) ==
        LET r     == Rule[x]
            inner == IF r.kids = <<>> THEN {} ELSE After(D, {i}, r.kids[1])
        IN  CASE r.kind = "Expect" -> Shift(i, r.tokens)
              [] r.kind = "List" -> {j \in Cursors : IsList(r, i, j)}
              [] r.kind \in {"Sequence", "Root"} -> Along(D, i, r.kids)
              [] r.kind = "Optional" -> inner \cup {i}
              [] r.kind = "OptionalWhen" -> IF Holds(r.guard, i) THEN inner ELSE {i}
              [] r.kind = "Predict" -> IF Holds(r.guard, i) THEN inner ELSE {}
              [] r.kind \in {"RecoverSync", "Required"} -> inner
              [] r.kind = "OptionalSuffix" ->
                   inner \cup UNION {Shift(j, {r.suffix}) : j \in inner}
              [] r.kind = "Prefixed" -> After(D, Shift(i, {r.prefix}), r.kids[1])
              [] r.kind = "Nest" ->
                   UNION {Shift(j, {r.close}) : j \in After(D, Shift(i, {r.open}), r.kids[1])}
              [] r.kind = "Repetition" ->
                   UNION {Times(D, i, r.kids[1], n) :
                            n \in r.min .. IF r.hasMax THEN r.max ELSE Len(input) + 1}
              [] r.kind = "Choice" -> UNION {After(D, {i}, r.kids[k]) : k \in DOMAIN r.kids}
              [] r.kind = "Reference" -> After(D, {i}, Registry[r.target].rule)
      Derived(D, x) == IF Rule[x].kind = "Pratt"
                         THEN PrecedenceChain(Rule[x], D)
                         ELSE UNION {{<<i, j>> : j \in Ends(D, x, i)} : i \in Cursors}
      Add(D, x) == [D EXCEPT ![x] = Derived(D, x)]
      \* a rule comes after its kids in Rule: without references one pass is enough
      Pass(D) == FoldLeft(Add, D, [x \in DOMAIN Rule |-> x])
  IN  LeastFixpoint(Pass, [x \in DOMAIN Rule |-> {}])

(* The whole input, up to skipped lexemes at its end, is a program. *)
Derivable == \E j \in Cursors : <<0, j>> \in Spans[program] /\ Peek(j, 0).Token = EOF

(* The parser accepts, without a diagnostic, only programs of its grammar: *)
(* backtracking, predicted arms, insertion and recovery never let through  *)
(* an input that the grammar does not derive.                              *)
AcceptedIsDerivable == Accepted => Derivable

(* The parser accepts, without a diagnostic, every program of its grammar: *)
(* the first-match choice, the repetitions that never give a match back    *)
(* and the speculative failures of factory.go lose none.  This is the      *)
(* grammar writer's obligation as much as the engine's: an ordered choice  *)
(* can hide a later arm, and an expression refuses a primary without a     *)
(* node.  The grammars of MCGrammars that are not `rejecting` meet it.     *)
DerivableIsAccepted == control = "done" /\ ~Accepted /\ ~parser.rejecting => ~Derivable

(* factory.go:2009: "Choice tries a series of rules in order and returns   *)
(* the result of the first successful one."  A choice that does not match  *)
(* has no arm that does.                                                   *)
ChoiceTriesItsArms ==
  control = "leave" /\ topRule.kind = "Choice" /\ ~ret.Succeeded /\ ret.Kind = FailureNoMatch =>
    \A k \in DOMAIN kids : \A j \in Cursors : <<top.start, j>> \notin Spans[kids[k]]
=============================================================================
