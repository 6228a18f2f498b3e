--------------------------- MODULE GrammarTables ----------------------------
(***************************************************************************)
(* From nested ParserRules to the tables the engine runs on: every rule    *)
(* gets a number, in the order of construction, and the registry maps a    *)
(* label to the last rule registered under it.  Nullable, First and Follow *)
(* stand for the analysis of the external library autarch/pattern; they    *)
(* are the textbook least fixpoints.                                       *)
(* The RECURSIVE operators of this module are evaluated by TLC only.       *)
(***************************************************************************)
EXTENDS GrammarIR

RECURSIVE Number(_, _), NumberAll(_, _)

(* The rules of r's subtree when n rules were built before; r comes last. *)
Number(r, n) == LET sub == NumberAll(r.kids, n)
                IN  Append(sub.rules, [r EXCEPT !.kids = sub.ids])

NumberAll(rs, n) ==
  IF rs = <<>> THEN [rules |-> <<>>, ids |-> <<>>]
  ELSE LET head == Number(rs[1], n)
           tail == NumberAll(Tail(rs), n + Len(head))
       IN  [rules |-> head \o tail.rules, ids |-> <<n + Len(head)>> \o tail.ids]

(* constructRule and Define write the registry; the latest entry stands.   *)
RegistryOf(table) ==
  LET writers == {i \in DOMAIN table : table[i].IsContextBoundary}
  IN  [label \in {table[i].label : i \in writers} |->
         LET i == Max({j \in writers : table[j].label = label})
         IN  [rule |-> i,
              recoveryTokens |-> table[i].recoveryTokens,
              noConsumeOnRecoveryTokens |-> table[i].noConsumeOnRecoveryTokens,
              isRecoveryBarrier |-> table[i].defined /\ table[i].isRecoveryBarrier]]

-----------------------------------------------------------------------------
(* The grammar of an expression (buildPrattGrammar): a level per binding   *)
(* power, from loose to tight, each with its prefixes in front of the next *)
(* level and its postfixes and infixes behind it; the tightest one is in   *)
(* front of the primary, which is not nullable.  F maps a rule to its      *)
(* FIRST set.                                                              *)

OperatorFirst(F, r, o) == IF o.kid = 0 THEN {o.token} ELSE F[r.kids[o.kid]]

OperatorsFirst(F, r, S) ==
  UNION {OperatorFirst(F, r, r.ops[i]) : i \in {i \in DOMAIN r.ops : r.ops[i] \in S}}

(* What a level can start with. *)
LevelFirst(F, r, bp) ==
  LET above == {o \in Range(r.ops) : o.fix = "prefix" /\ LevelOf(o) >= bp}
  IN  F[r.kids[1]] \cup OperatorsFirst(F, r, above)

(* What can continue after a level. *)
LevelFollow(F, r, bp) ==
  LET below    == {o \in Range(r.ops) : o.fix # "prefix" /\ LevelOf(o) <= bp}
      implicit == {o \in below : o.fix = "implicit"}
  IN  OperatorsFirst(F, r, below \ implicit)
        \cup UNION {LevelFirst(F, r, LevelOf(o)) : o \in implicit}

-----------------------------------------------------------------------------
(* The guard that the analysis gives to an arm of a choice. *)
ArmGuardsOf(table, registry) ==
  LET guardOf == [i \in DOMAIN table |-> table[i].Lookaheads]
      next == [i \in DOMAIN table |->
                 IF table[i].kind = "Reference" THEN <<registry[table[i].target].rule>>
                 ELSE table[i].kids]
  IN  [i \in DOMAIN table |->
         IF table[i].kind = "Reference" THEN FirstLookaheadsInSubtreeBFS(guardOf, next, <<i>>, {})
         ELSE guardOf[i]]

-----------------------------------------------------------------------------
NullableOf(table, registry) ==
  LET null(N, i) ==
        LET r == table[i]
        IN  CASE r.kind \in {"Expect", "List", "Prefixed", "Nest"} -> FALSE
              [] r.kind \in {"Optional", "OptionalWhen"} -> TRUE
              [] r.kind = "Repetition" -> r.min = 0 \/ N[r.kids[1]]
              [] r.kind = "Choice" -> \E k \in DOMAIN r.kids : N[r.kids[k]]
              [] r.kind = "Reference" -> N[registry[r.target].rule]
              [] r.kind = "Pratt" -> N[r.kids[1]]
              [] OTHER -> \A k \in DOMAIN r.kids : N[r.kids[k]]
      Step(N) == [i \in DOMAIN table |-> null(N, i)]
  IN  LeastFixpoint(Step, [i \in DOMAIN table |-> FALSE])

(* FIRST of kids[k], kids[k + 1], ... *)
FirstOfRest(F, nullable, ks, k) ==
  UNION {F[ks[m]] : m \in {m \in k .. Len(ks) : \A l \in k .. m - 1 : nullable[ks[l]]}}

FirstOf(table, registry, nullable) ==
  LET first(F, i) ==
        LET r == table[i]
        IN  CASE r.kind = "Expect" -> r.tokens
              [] r.kind \in {"List", "Nest"} -> {r.open}
              [] r.kind = "Prefixed" -> {r.prefix}
              [] r.kind = "Choice" -> UNION {F[r.kids[k]] : k \in DOMAIN r.kids}
              [] r.kind = "Reference" -> F[registry[r.target].rule]
              [] r.kind = "Pratt" -> LevelFirst(F, r, 0)
              [] r.kind = "OptionalSuffix" ->
                   F[r.kids[1]] \cup (IF nullable[r.kids[1]] THEN {r.suffix} ELSE {})
              [] OTHER -> FirstOfRest(F, nullable, r.kids, 1)
      Step(F) == [i \in DOMAIN table |-> first(F, i)]
  IN  LeastFixpoint(Step, [i \in DOMAIN table |-> {}])

(* What may follow the k-th kid of rule i, given what may follow i. *)
FollowOf(table, registry, nullable, first) ==
  LET after(F, i, k) ==
        LET r == table[i]
            ends == \A m \in k + 1 .. Len(r.kids) : nullable[r.kids[m]]
        IN  CASE r.kind \in {"Sequence", "Root"} ->
                   FirstOfRest(first, nullable, r.kids, k + 1) \cup (IF ends THEN F[i] ELSE {})
              [] r.kind = "Nest" -> {r.close}
              [] r.kind = "OptionalSuffix" -> {r.suffix} \cup F[i]
              [] r.kind = "Repetition" -> first[r.kids[k]] \cup F[i]
              [] r.kind = "Pratt" /\ k = 1 ->
                   LevelFollow(first, r, Max({LevelOf(o) : o \in Range(r.ops)})) \cup F[i]
              [] r.kind = "Pratt" /\ k > 1 ->
                   LET o == CHOOSE o \in Range(r.ops) : o.kid = k
                   IN  IF o.fix = "postfix" THEN LevelFollow(first, r, LevelOf(o)) \cup F[i]
                       ELSE LevelFirst(first, r, LevelOf(o))
              [] OTHER -> F[i]
      places == UNION {{<<p, k>> : k \in DOMAIN table[p].kids} : p \in DOMAIN table}
      uses(i) == {at \in places : table[at[1]].kids[at[2]] = i}
      refs(i) == {p \in DOMAIN table : /\ table[p].kind = "Reference"
                                       /\ registry[table[p].target].rule = i}
      Step(F) == [i \in DOMAIN table |->
                    F[i] \cup (UNION {after(F, at[1], at[2]) : at \in uses(i)})
                         \cup (UNION {F[p] : p \in refs(i)})]
  IN  LeastFixpoint(Step, [i \in DOMAIN table |-> {}])
=============================================================================
