----------------------------- MODULE MCGrammars -----------------------------
(* Small grammars, written as a user of the rule factory would write them. *)
EXTENDS GrammarTables

stmt == Sequence("stmt", <<Expect("id", "a"), ExpectVirtual("semi", ";")>>)

(* Statements that resynchronise at ";". *)
statements == Root("statements", FALSE, <<ZeroOrMore("stmts", RecoverSync(stmt, {";"}))>>)

(* Statements in a delimited body that also stop, without consuming, at its end. *)
block == Root("block", FALSE,
           <<ZeroOrMore("blocks",
               Nest("nest", "(", ")",
                 ZeroOrMore("body", RecoverSyncBoundary(stmt, {";"}, {")"}))))>>)

(* One statement, required, inside sequences that resynchronise. *)
guarded == RecoverSync(
             Root("guarded", FALSE,
               <<Sequence("pair", <<Expect("l", "a"),
                   RecoverSyncBoundary(
                     Sequence("inner", <<Expect("m", "b"), Expect("n", "b")>>), {}, {";"}),
                   ExpectVirtual("end", ";")>>)>>),
             {";"})

(* Recursion through a registered rule. *)
exprArms == <<Expect("atom", "a"), Nest("paren", "(", ")", Reference("refExpr", "expr"))>>

expression == Root("expression", TRUE, <<Define(Choice("expr", exprArms)),
                                         Optional(Reference("again", "expr"))>>)

(* Arms that the analysis and a guard of two tokens tell apart. *)
callArms == <<PredictLookahead(Sequence("call", <<Expect("f", "a"), Nest("args", "(", ")",
                                 TransparentNOrMore("argv", 1, Expect("arg", "a")))>>),
                               {[offset |-> 1, expected |-> "("]}),
              Prefixed("neg", "-", Expect("operand", "a")),
              RecoverSync(Expect("name", "a"), {";"})>>

calls0 == Root("calls", FALSE, <<OneOrMore("callList", Choice("callOrName", callArms))>>)

listOf(label, allowEmpty, trailing) ==
  Root(label, FALSE, <<List("list", "(", "a", ",", ")", allowEmpty, trailing)>>)

listTokens == {"a", ",", "(", ")"}

(* Bounded repetition of statements that resynchronise. *)
bounded == Root("bounded", FALSE, <<Repeat("upTo2", 1, 2, RecoverSync(stmt, {";"}))>>)

none == Root("none", FALSE,
          <<TransparentRepeat("upTo0", 0, 0, Expect("x", "a")), Expect("y", "b")>>)

(* An optional construct with a barrier inside that can heal itself. *)
probing == Root("probing", FALSE,
             <<Optional(Wrap("wrapped", Block("blk", ";",
                  <<Expect("k", "a"), Expect("v", "b"), ExpectVirtual("stop", ";")>>))),
               OptionalPrefix(Required(Expect("w", "b")), "b"),
               Optional(Expect("z", "a"))>>)

path == Root("path", FALSE,
          <<Path("p", "pre", "a", "sep", ",", "elem", "a", "tail"),
            OptionalSuffix("star", Expect("last", "b"), "b")>>)

(* Missing elements are inserted where the analysis allows it. *)
inserting == Root("inserting", FALSE,
               <<TransparentNest("tn", "(", ")",
                   Block("entry", ";", <<Expect("key", "a"), ExpectVirtual("comma", ","),
                                         Wrap("val", Expect("value", "a"))>>)),
                 Optional(ExpectVirtual("opt", ";"))>>)

(* A rule referred to before it is built, in a transparent nest. *)
nested == Root("nested", FALSE,
            <<Sequence("whole", <<Expect("h", "a"), Reference("toBody", "body2")>>),
              Optional(TransparentNest("body2", "(", ")",
                OptionalPrefix(Required(TransparentSequence("ts",
                   <<Expect("ts1", "a"), Expect("ts2", "b")>>)), "a")))>>)

(* A contract chosen by hand that the body cannot keep. *)
overclaimed == Root("overclaimed", TRUE, <<Optional(Expect("maybe", "a"))>>)

(* Contracts that promise what the parts do not: a suffix after a rule     *)
(* without a node, an expression of what may be empty, and the rule chosen *)
(* by hand behind a reference.                                             *)
overpromised == Root("overpromised", FALSE,
                  <<Choice("promise", <<
                      OptionalSuffix("suffixed", ExpectVirtual("bare", "b"), "a"),
                      Prefixed("sparse", "x",
                        Expression("listed", ZeroOrMore("atoms", Expect("atom", "a")), <<>>, <<>>)),
                      Prefixed("indirect", ";", Reference("toClaim", "claim"))>>),
                    Optional(Define(Root("claim", TRUE, <<Optional(Expect("maybe", "a"))>>)))>>)

(* Infix operators, left and right associative. *)
infixes == Root("infixes", TRUE,
             <<Expression("sum", Expect("atom", "a"), <<>>,
                 <<PrattInfixOp("+", 1, 2), PrattInfixOp("*", 3, 4), PrattInfixOp("^", 5, 5)>>)>>)

(* A token that is prefix and infix, in statements that resynchronise. *)
signs == Root("signs", FALSE,
           <<ZeroOrMore("lines", RecoverSync(Sequence("line",
               <<Expression("signed", Expect("atom", "a"), <<>>,
                   <<PrattPrefixOp("-", 3), PrattInfixOp("-", 1, 2), PrattPostfixOp("!", 5)>>),
                 ExpectVirtual("semi", ";")>>), {";"}))>>)

(* Operators that are rules: calls, and a choice with a middle operand. *)
ternary == Root("ternary", TRUE,
             <<Expression("cond", Expect("atom", "a"),
                 <<Nest("callArgs", "(", ")", Optional(Reference("argument", "cond"))),
                   Nest("middle", "?", ":", Reference("then", "cond"))>>,
                 <<PrattPostfixRuleOp(2, 5), PrattInfixRuleOp(3, 1, 1)>>)>>)

(* Juxtaposition, and an infix with the powers the README gives. *)
juxtaposed == Root("juxtaposed", TRUE,
                <<Expression("apply", Expect("atom", "a"),
                    <<Nest("cast", "<", ">", Expect("type", "a"))>>,
                    <<PrattPrefixRuleOp(2, 7), PrattImplicitInfix(3, 4), PrattInfixOp("-", 2, 1)>>)>>)

(* A primary that can come back without a node, which an expression        *)
(* refuses.                                                                *)
units == Root("units", FALSE,
           <<Expression("unitOrAtom", Choice("units", <<Expect("atom", "a"),
                                                        ExpectVirtual("unit", "b")>>),
               <<>>, <<PrattPostfixOp("!", 1)>>)>>)

(* Two operators in the same position that start with the same token. *)
ambiguous == Root("ambiguous", TRUE,
               <<Expression("twice", Expect("atom", "a"), <<Expect("minus", "-")>>,
                   <<PrattPrefixOp("-", 3), PrattPrefixRuleOp(2, 3)>>)>>)

(* Arms that are references: the analysis gives each the guard of one arm  *)
(* of the choice behind it.                                                *)
callOrAtom == Choice("callOrAtom",
                <<PredictLookahead(Sequence("invoke", <<Expect("f", "a"), ExpectVirtual("bang", "!")>>),
                                   {[offset |-> 1, expected |-> "!"]}),
                  Expect("atom", "a")>>)

returns == Sequence("return", <<ExpectVirtual("ret", "r"), Reference("result", "callOrAtom")>>)

referred == Root("referred", FALSE,
              <<Optional(callOrAtom), Optional(returns),
                Optional(Prefixed("more", ";",
                  Choice("either", <<Reference("toReturn", "return"), Reference("toCall", "callOrAtom")>>)))>>)

(* `rejecting`: the author knows that the rules refuse some programs of    *)
(* the grammar.                                                            *)
Grammars == <<
  [rule |-> statements, tokens |-> {"a", "b", ";", "_"}, analysed |-> FALSE, rejecting |-> FALSE],
  [rule |-> block,      tokens |-> {"a", ";", "(", ")"}, analysed |-> FALSE, rejecting |-> FALSE],
  [rule |-> guarded,    tokens |-> {"a", "b", ";"},      analysed |-> FALSE, rejecting |-> FALSE],
  [rule |-> expression, tokens |-> {"a", "(", ")"},      analysed |-> FALSE, rejecting |-> FALSE],
  [rule |-> calls0,     tokens |-> {"a", "-", "(", ")"}, analysed |-> TRUE, rejecting |-> FALSE],
  [rule |-> listOf("empty", TRUE, "Forbidden"),  tokens |-> listTokens, analysed |-> FALSE, rejecting |-> FALSE],
  [rule |-> listOf("strict", FALSE, "Required"), tokens |-> listTokens, analysed |-> FALSE, rejecting |-> FALSE],
  [rule |-> listOf("loose", FALSE, "Allowed"),   tokens |-> listTokens, analysed |-> FALSE, rejecting |-> FALSE],
  [rule |-> bounded,    tokens |-> {"a", "b", ";"},      analysed |-> FALSE, rejecting |-> FALSE],
  [rule |-> none,       tokens |-> {"a", "b"},           analysed |-> FALSE, rejecting |-> FALSE],
  [rule |-> probing,    tokens |-> {"a", "b", ";", "_"}, analysed |-> FALSE, rejecting |-> FALSE],
  [rule |-> path,       tokens |-> {"a", "b", ","},      analysed |-> FALSE, rejecting |-> FALSE],
  [rule |-> inserting,  tokens |-> {"a", ",", ";", "(", ")"},     analysed |-> TRUE, rejecting |-> FALSE],
  [rule |-> nested,     tokens |-> {"a", "b", "(", ")"}, analysed |-> TRUE, rejecting |-> FALSE],
  [rule |-> infixes,    tokens |-> {"a", "+", "*", "^"}, analysed |-> FALSE, rejecting |-> FALSE],
  [rule |-> signs,      tokens |-> {"a", "-", "!", ";"}, analysed |-> FALSE, rejecting |-> FALSE],
  [rule |-> ternary,    tokens |-> {"a", "(", ")", "?", ":"}, analysed |-> TRUE, rejecting |-> FALSE],
  [rule |-> juxtaposed, tokens |-> {"a", "<", ">", "-"}, analysed |-> TRUE, rejecting |-> FALSE],
  [rule |-> units,      tokens |-> {"a", "b", "!"},      analysed |-> FALSE, rejecting |-> TRUE],
  [rule |-> ambiguous,  tokens |-> {"a", "-"},           analysed |-> TRUE, rejecting |-> FALSE],
  [rule |-> referred,   tokens |-> {"a", "r", "!", ";"}, analysed |-> TRUE, rejecting |-> TRUE],
  [rule |-> overclaimed, tokens |-> {"a", "b"},          analysed |-> FALSE, rejecting |-> FALSE],
  [rule |-> overpromised, tokens |-> {"a", "b", "x", ";"}, analysed |-> FALSE, rejecting |-> TRUE]
>>

(* SyntaxaParserCreate with the rule as program. *)
ParserOf(g) ==
  LET table    == Number(g.rule, 0)
      registry == RegistryOf(table)
      nullable == NullableOf(table, registry)
      first    == FirstOf(table, registry, nullable)
  IN  [rules |-> table, registry |-> registry, program |-> Len(table),
       alphabet |-> g.tokens, analysed |-> g.analysed, rejecting |-> g.rejecting,
       Nullable |-> nullable, First |-> first, ArmGuard |-> ArmGuardsOf(table, registry),
       Follow |-> FollowOf(table, registry, nullable, first)]

ParserSet == {ParserOf(Grammars[i]) : i \in DOMAIN Grammars}

(* TLC computes a definition once, but not the one that a constant stands  *)
(* for: hence a name for the set.                                          *)
MCParsers == ParserSet

(* The grammars that loop or recurse, for the liveness run. *)
LoopingSet ==
  {p \in ParserSet : \E i \in DOMAIN p.rules : p.rules[i].kind \in {"Repetition", "Reference", "Pratt"}}

MCLoopingParsers == LoopingSet
=============================================================================
