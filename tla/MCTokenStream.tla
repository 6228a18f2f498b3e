--------------------------- MODULE MCTokenStream ----------------------------
(* The token stream on short inputs of two roles. *)
EXTENDS TokenStream
=============================================================================
