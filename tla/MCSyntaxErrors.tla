--------------------------- MODULE MCSyntaxErrors ---------------------------
(* SyntaxErrors on a small instance, with its refinement of ErrorLog.      *)
EXTENDS SyntaxErrorsRefinement
=============================================================================
