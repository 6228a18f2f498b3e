----------------------------- MODULE MCLowering -----------------------------
(* Packages of the grammars of MCGrammars, as an author would produce them. *)
EXTENDS StateGraph, MCGrammars

Listed(S) == FoldSet(LAMBDA g, list : Append(list, g), <<>>, S)

(* The nodes of the grammar of a root rule, with numbers for children. *)
PackageOf(p) ==
  LET all    == Listed(GrammarsOf({p.rule}))
      number == [g \in ToSet(all) |-> CHOOSE i \in DOMAIN all : all[i] = g]
      numbered(g) == [g EXCEPT !.Children = [k \in DOMAIN @ |-> number[@[k]]]]
  IN  [nodes |-> [i \in DOMAIN all |-> numbered(all[i])], root |-> number[GrammarOf(p.rule)],
       additional |-> Listed({number[g] : g \in GetDefinedGrammars({p.rule})}),
       tokens |-> p.tokens, guarded |-> p.guarded]

(* Two kinds of nests in each other. *)
brackets == Root("brackets", TRUE,
              <<Define(Choice("value", <<Expect("one", "a"),
                  Nest("tuple", "(", ")", Optional(Reference("inTuple", "value"))),
                  Nest("array", "[", "]", ZeroOrMore("items", Reference("inArray", "value")))>>))>>)

(* One rule in three places that continue differently. *)
name == Sequence("name", <<Expect("first", "a"), Expect("second", "b")>>)

shared == Root("shared", TRUE,
            <<Choice("use", <<Prefixed("declare", "!", name),
                TransparentSequence("bind", <<Expect("let", "r"), Reference("bound", "name"),
                                              ExpectVirtual("is", ";")>>),
                TransparentSequence("drop", <<Reference("dropped", "name"),
                                              ExpectVirtual("bang", "!")>>)>>)>>)

call == Root("call", FALSE, <<Choice("callOrName", callArms), ExpectVirtual("end", "-")>>)

duplicate == Root("duplicate", TRUE, <<Wrap("same", Expect("x", "a")), Wrap("same", Expect("y", "b"))>>)

dangling == Root("dangling", TRUE, <<Expect("x", "a"), Optional(Reference("toNothing", "nothing"))>>)

(* guarded: some arm of a choice has a guard, and a fork may be before the *)
(* choice.                                                                 *)
Packages == <<
  [rule |-> statements, tokens |-> {"a", ";"}, guarded |-> FALSE],
  [rule |-> block, tokens |-> {"a", ";", "(", ")"}, guarded |-> FALSE],
  [rule |-> expression, tokens |-> {"a", "(", ")"}, guarded |-> FALSE],
  [rule |-> calls0, tokens |-> {"a", "-", "(", ")"}, guarded |-> TRUE],
  [rule |-> call, tokens |-> {"a", "-", "(", ")"}, guarded |-> FALSE],
  [rule |-> listOf("loose", TRUE, "Allowed"), tokens |-> listTokens, guarded |-> FALSE],
  [rule |-> bounded, tokens |-> {"a", ";"}, guarded |-> FALSE],
  [rule |-> path, tokens |-> {"a", "b", ","}, guarded |-> FALSE],
  [rule |-> inserting, tokens |-> {"a", ",", ";", "(", ")"}, guarded |-> FALSE],
  [rule |-> nested, tokens |-> {"a", "b", "(", ")"}, guarded |-> FALSE],
  [rule |-> infixes, tokens |-> {"a", "+", "*", "^"}, guarded |-> FALSE],
  [rule |-> signs, tokens |-> {"a", "-", "!", ";"}, guarded |-> FALSE],
  [rule |-> ternary, tokens |-> {"a", "(", ")", "?", ":"}, guarded |-> FALSE],
  [rule |-> brackets, tokens |-> {"a", "(", ")", "[", "]"}, guarded |-> FALSE],
  [rule |-> shared, tokens |-> {"a", "b", "!", "r", ";"}, guarded |-> FALSE],
  [rule |-> duplicate, tokens |-> {"a"}, guarded |-> FALSE],
  [rule |-> dangling, tokens |-> {"a"}, guarded |-> FALSE]
>>

PackageSet == {PackageOf(Packages[i]) : i \in DOMAIN Packages}

MCPackaged == PackageSet
=============================================================================
