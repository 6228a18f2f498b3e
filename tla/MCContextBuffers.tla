------------------------- MODULE MCContextBuffers ---------------------------
(* The buffers of the rule context with small results and recovery sets. *)
EXTENDS ContextBuffers

MCRecoveries == {[consume |-> <<>>, noConsume |-> <<"b">>, barrier |-> TRUE],
                 [consume |-> <<"a", "b">>, noConsume |-> <<>>, barrier |-> FALSE]}
=============================================================================
