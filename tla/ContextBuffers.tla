--------------------------- MODULE ContextBuffers ---------------------------
(***************************************************************************)
(* The flat buffers in which the rule context (rule_context.go) keeps the  *)
(* frames of the running rules: the two flights of recovery tokens, cut    *)
(* into frames by recoveryCore.stack, and the results scratch, cut into    *)
(* slices by resultsScratchMarks.  A rule enters in Normal mode, with a    *)
(* recovery frame, or as a probe, without; a sequence also acquires a      *)
(* slice for the results of its children and stores them one by one.       *)
(*                                                                         *)
(* The scratch is a Go slice: an array of the heap and a length.  When the *)
(* array is too small a larger one takes its place, while the sequences    *)
(* that are already running go on writing to the array they got.           *)
(***************************************************************************)
EXTENDS Naturals, Sequences

CONSTANTS Results,    \* RuleResults that are not the zero value
          zero,       \* the zero RuleResult
          Tokens,     \* recovery tokens
          Recoveries, \* the recovery of a rule: [consume, noConsume, barrier]
          MaxDepth,   \* bound: rules that run at the same time
          MaxSize     \* bound: children of a sequence

ASSUME BuffersAssumption ==
  /\ zero \notin Results /\ MaxDepth \in Nat /\ MaxSize \in Nat
  /\ Recoveries \subseteq [consume : Seq(Tokens), noConsume : Seq(Tokens), barrier : BOOLEAN]

VARIABLES stack,            \* recoveryCore.stack: [consumeStart, noConsumeStart, ends, barrier]
          consumeFlight, noConsumeFlight,
          heap,             \* the arrays, in the order of allocation
          scratch,          \* resultsScratch: [array, len]; its capacity is the array's
          marks,            \* resultsScratchMarks
          slices,           \* `results` of the running sequences, innermost last
          rules             \* the running rules, innermost last, with the lengths that
                            \* `stack` and `slices` had when the rule began

vars == <<stack, consumeFlight, noConsumeFlight, heap, scratch, marks, slices, rules>>

Last(s) == s[Len(s)]

Cut(s) == SubSeq(s, 1, Len(s) - 1)

-----------------------------------------------------------------------------
(* recoveryCore *)

pushRecovery(r) ==
  /\ consumeFlight' = consumeFlight \o r.consume
  /\ noConsumeFlight' = noConsumeFlight \o r.noConsume
  /\ stack' = Append(stack, [consumeStart |-> Len(consumeFlight),
                             consumeEnd |-> Len(consumeFlight) + Len(r.consume),
                             noConsumeStart |-> Len(noConsumeFlight),
                             noConsumeEnd |-> Len(noConsumeFlight) + Len(r.noConsume),
                             barrier |-> r.barrier])

popRecovery ==
  /\ consumeFlight' = SubSeq(consumeFlight, 1, Last(stack).consumeStart)
  /\ noConsumeFlight' = SubSeq(noConsumeFlight, 1, Last(stack).noConsumeStart)
  /\ stack' = Cut(stack)

-----------------------------------------------------------------------------
(* The results scratch. *)

capacity == Len(heap[scratch.array])

(* Mutant: the array is only ever doubled. *)
doubledCapacity(end) == 2 * capacity

nextCapacity(end) == IF end < 2 * capacity THEN 2 * capacity ELSE end

(* The array that replaces a full one. *)
grown(end) ==
  [i \in 1 .. nextCapacity(end) |-> IF i <= scratch.len THEN heap[scratch.array][i] ELSE zero]

(* Mutant: the scratch is cut back to its last mark before it is cut. *)
AcquireAtLastMark(size) ==
  LET start == IF marks = <<>> THEN 0 ELSE Last(marks)
      end   == start + size
      array == IF capacity < end THEN Len(heap) + 1 ELSE scratch.array
  IN  /\ marks' = Append(marks, start)
      /\ heap' = IF capacity < end THEN Append(heap, grown(end)) ELSE heap
      /\ scratch' = [array |-> array, len |-> end]
      /\ slices' = Append(slices, [array |-> array, start |-> start,
                                   size |-> size, stored |-> 0])

(* The slice that is returned starts where the scratch ended. *)
AcquireResultsScratch(size) ==
  LET end   == scratch.len + size
      array == IF capacity < end THEN Len(heap) + 1 ELSE scratch.array
  IN  /\ marks' = Append(marks, scratch.len)
      /\ heap' = IF capacity < end THEN Append(heap, grown(end)) ELSE heap
      /\ scratch' = [array |-> array, len |-> end]
      /\ slices' = Append(slices, [array |-> array, start |-> scratch.len,
                                   size |-> size, stored |-> 0])

(* The arrays after a release; one that no slice refers to any more is     *)
(* garbage, and empty here.                                                *)
inUse == {scratch.array} \cup {slices[i].array : i \in 1 .. Len(slices) - 1}

(* Mutant: the released part of the scratch is not cleared. *)
ReleaseUncleared ==
  /\ marks' = Cut(marks)
  /\ scratch' = [scratch EXCEPT !.len = Last(marks)]
  /\ slices' = Cut(slices)
  /\ heap' = [a \in DOMAIN heap |-> IF a \in inUse THEN heap[a] ELSE <<>>]

(* What the scratch array holds from the mark on is cleared: the children  *)
(* of the sequence that ends, in the array they are in now.                *)
ReleaseResultsScratch ==
  /\ marks' = Cut(marks)
  /\ scratch' = [scratch EXCEPT !.len = Last(marks)]
  /\ slices' = Cut(slices)
  /\ heap' = [a \in DOMAIN heap |->
                 CASE a = scratch.array ->
                        [i \in DOMAIN heap[a] |->
                           IF i > Last(marks) /\ i <= scratch.len THEN zero ELSE heap[a][i]]
                   [] a # scratch.array /\ a \in inUse -> heap[a]
                   [] OTHER -> <<>>]

-----------------------------------------------------------------------------
(* The rules. *)

recoveryVars == <<stack, consumeFlight, noConsumeFlight>>

scratchVars == <<heap, scratch, marks, slices>>

Init == /\ stack = <<>> /\ consumeFlight = <<>> /\ noConsumeFlight = <<>>
        /\ heap = <<<<>>>> /\ scratch = [array |-> 1, len |-> 0] /\ marks = <<>>
        /\ slices = <<>> /\ rules = <<>>

Unfilled(s) == s.stored < s.size

(* A sequence runs rules only until it has the results of all of them. *)
Enter(normal, sequence) ==
  /\ Len(rules) < MaxDepth
  /\ rules # <<>> /\ Last(rules).sequence => Unfilled(Last(slices))
  /\ rules' = Append(rules, [normal |-> normal, sequence |-> sequence,
                             frames |-> Len(stack), slices |-> Len(slices)])
  /\ IF normal THEN \E r \in Recoveries : pushRecovery(r) ELSE UNCHANGED recoveryVars

EnterRule(normal) == Enter(normal, FALSE) /\ UNCHANGED scratchVars

EnterSequence(normal, size) == Enter(normal, TRUE) /\ AcquireResultsScratch(size)

(* results[i] = result, in the slice that the sequence holds. *)
StoreResult(v) ==
  /\ rules # <<>> /\ Last(rules).sequence /\ Unfilled(Last(slices))
  /\ LET s == Last(slices)
     IN  /\ heap' = [heap EXCEPT ![s.array][s.start + s.stored + 1] = v]
         /\ slices' = Append(Cut(slices), [s EXCEPT !.stored = @ + 1])
  /\ UNCHANGED <<recoveryVars, scratch, marks, rules>>

(* The deferred calls: the body's release, then the engine's pop. *)
LeaveRule ==
  /\ rules # <<>> /\ rules' = Cut(rules)
  /\ IF Last(rules).sequence THEN ReleaseResultsScratch ELSE UNCHANGED scratchVars
  /\ IF Last(rules).normal THEN popRecovery ELSE UNCHANGED recoveryVars

Next == \/ \E normal \in BOOLEAN : EnterRule(normal)
        \/ \E normal \in BOOLEAN, size \in 1 .. MaxSize : EnterSequence(normal, size)
        \/ \E v \in Results : StoreResult(v)
        \/ LeaveRule

Spec == Init /\ [][Next]_vars

-----------------------------------------------------------------------------
(* Properties. *)

(* The buffers have their types; every slice lies in its array. *)
TypeOK ==
  /\ heap \in Seq(Seq(Results \cup {zero}))
  /\ scratch.array \in DOMAIN heap /\ scratch.len \in 0 .. capacity
  /\ rules \in Seq([normal : BOOLEAN, sequence : BOOLEAN, frames : Nat, slices : Nat])
  /\ \A i \in DOMAIN slices :
        /\ slices[i].array \in DOMAIN heap
        /\ slices[i].start + slices[i].size <= Len(heap[slices[i].array])
        /\ slices[i].stored <= slices[i].size

(* Beyond its length the scratch holds the zero value only: no result of a *)
(* sequence that has ended, and so no node of a tree that was rolled back, *)
(* stays reachable or shows up in a slice that a later sequence acquires,  *)
(* whatever grew in between (rule_context.go:526-571).                     *)
NothingIsRetained == \A i \in scratch.len + 1 .. capacity : heap[scratch.array][i] = zero

(* The slice of the flights that belongs to a frame. *)
RecoveryOf(f) ==
  [consume |-> SubSeq(consumeFlight, f.consumeStart + 1, f.consumeEnd),
   noConsume |-> SubSeq(noConsumeFlight, f.noConsumeStart + 1, f.noConsumeEnd),
   barrier |-> f.barrier]

(* What a sequence reads back from its slice. *)
ResultsOf(s) == [k \in 1 .. s.stored |-> heap[s.array][s.start + k]]

heldRecoveries == [i \in 1 .. Len(stack) |-> RecoveryOf(stack[i])]

heldResults == [i \in 1 .. Len(slices) |-> ResultsOf(slices[i])]

Frames == INSTANCE ResultFrames WITH recoveries <- heldRecoveries, results <- heldResults

(* The flat buffers behave as a stack of frames: a rule always finds the   *)
(* recovery tokens of every frame, and the results it stored itself, as    *)
(* they were put there, although its callees push on the same flights,     *)
(* write to the same array, replace it and clear it.                       *)
ImplementsFrames == Frames!Spec
=============================================================================
