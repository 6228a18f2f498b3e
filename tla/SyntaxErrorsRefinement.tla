----------------------- MODULE SyntaxErrorsRefinement -----------------------
(***************************************************************************)
(* SyntaxErrors implements ErrorLog: the part of the shared flight buffer  *)
(* between the start index of a frame and that of the next one is what the *)
(* frame's committed children handed to it.                                *)
(***************************************************************************)
EXTENDS SyntaxErrors

(* One past the last flight index that belongs to frame i. *)
FlightEnd(i) == IF i = Len(se.stack) THEN Len(se.flight)
                ELSE se.stack[i + 1].commitStartIndex

Transactions ==
  [i \in 1 .. Len(se.stack) |->
     [candidate |-> IF se.stack[i].hasBest THEN <<se.stack[i].best>> ELSE <<>>,
      kept      |-> SubSeq(se.flight, se.stack[i].commitStartIndex + 1, FlightEnd(i))]]

Log == INSTANCE ErrorLog WITH Error <- SyntaxError, transactions <- Transactions,
                              published <- se.Errors

(* Every step of the store is a step of the nested-transaction log or      *)
(* changes nothing the log can see: a rollback drops exactly the errors of *)
(* the frame it closes, a commit hands them over in order, and only the    *)
(* outermost commit publishes.                                             *)
RefinesErrorLog == Log!LogSpec
=============================================================================
