---------------------------- MODULE ResultFrames ----------------------------
(***************************************************************************)
(* What the buffers of the rule context promise the rules: a stack of      *)
(* frames, one per running rule.  A frame owns the recovery tokens of its  *)
(* rule and the results that the rule has stored so far; nothing that a    *)
(* callee does changes the frames below its own.                           *)
(***************************************************************************)
EXTENDS Naturals, Sequences

CONSTANTS Results,   \* RuleResults that are not the zero value
          Recoveries \* the recovery of a rule: [consume, noConsume, barrier]

VARIABLES recoveries,  \* innermost last
          results      \* innermost last; one per running sequence

frameVars == <<recoveries, results>>

Cut(s) == SubSeq(s, 1, Len(s) - 1)

Init == recoveries = <<>> /\ results = <<>>

Enter(Rs, sequence) ==
  /\ recoveries' = recoveries \o Rs
  /\ results' = IF sequence THEN Append(results, <<>>) ELSE results

Store(v) == /\ results # <<>>
            /\ results' = Append(Cut(results), Append(results[Len(results)], v))
            /\ UNCHANGED recoveries

Leave(normal, sequence) ==
  /\ recoveries' = IF normal THEN Cut(recoveries) ELSE recoveries
  /\ results' = IF sequence THEN Cut(results) ELSE results

Next == \/ \E sequence \in BOOLEAN : Enter(<<>>, sequence)
        \/ \E r \in Recoveries, sequence \in BOOLEAN : Enter(<<r>>, sequence)
        \/ \E v \in Results : Store(v)
        \/ \E normal, sequence \in BOOLEAN : Leave(normal, sequence)

Spec == Init /\ [][Next]_frameVars
=============================================================================
