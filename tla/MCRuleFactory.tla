--------------------------- MODULE MCRuleFactory ----------------------------
(* The engine and the factory's rules on the grammars of MCGrammars. *)
EXTENDS GrammarLanguage, MCGrammars
=============================================================================
