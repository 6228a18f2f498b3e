----------------------------- MODULE ErrorStore -----------------------------
(***************************************************************************)
(* The diagnostic store of the engine (syntax_errors.go), as functions     *)
(* from one store to the next.                                             *)
(*                                                                         *)
(* Diagnostics are speculative until the rule that produced them commits.  *)
(* Every rule activation opens an error frame; a frame keeps at most one   *)
(* "best" error, and all the errors committed by its finished children sit *)
(* in one flat buffer, the flight, that all the open frames share: a frame *)
(* owns the part of the flight that begins at its commitStartIndex.        *)
(***************************************************************************)
EXTENDS Naturals, Sequences

(* A SyntaxError, down to what decides its fate: AbsolutePosition and      *)
(* ProducedByLexer.  ZeroError fills a frame that has no best error.       *)
ZeroError == [pos |-> 0, lexer |-> FALSE]

SyntaxErrorsCreate ==
  [Errors |-> <<>>, stack |-> <<>>, flight |-> <<>>,
   delimiterBoundaries |-> <<>>,
   entryRuleScopeDepth |-> 0, entryRuleFlightBaseline |-> 0]

Top(s) == s.stack[Len(s.stack)]

Pop(seq) == SubSeq(seq, 1, Len(seq) - 1)

pushFrame(s) ==
  [s EXCEPT !.stack = Append(@, [best |-> ZeroError, hasBest |-> FALSE,
                                 commitStartIndex |-> Len(s.flight)])]

(* Mutant: the outermost commit publishes the flight but does not clear    *)
(* it.                                                                     *)
popFrameKeepingFlight(s, commit) ==
  LET top  == Top(s)
      rest == Pop(s.stack)
      kept == IF top.hasBest THEN Append(s.flight, top.best) ELSE s.flight
  IN  IF ~commit
        THEN [s EXCEPT !.stack = rest,
                       !.flight = SubSeq(@, 1, top.commitStartIndex)]
        ELSE [s EXCEPT !.stack = rest, !.flight = kept,
                       !.Errors = IF rest = <<>> THEN @ \o kept ELSE @]

(* Mutant: the frame is popped before its start index is read, so that a   *)
(* rollback cuts the flight to where the parent began.                     *)
popFrameCuttingToParent(s, commit) ==
  LET top  == Top(s)
      rest == Pop(s.stack)
      kept == IF top.hasBest THEN Append(s.flight, top.best) ELSE s.flight
      from == IF rest = <<>> THEN 0 ELSE rest[Len(rest)].commitStartIndex
  IN  IF ~commit
        THEN [s EXCEPT !.stack = rest, !.flight = SubSeq(@, 1, from)]
      ELSE IF rest = <<>>
        THEN [s EXCEPT !.stack = rest, !.Errors = @ \o kept, !.flight = <<>>]
        ELSE [s EXCEPT !.stack = rest, !.flight = kept]

(* Mutant: a commit puts the frame's best error before the errors of all   *)
(* that was committed earlier.                                             *)
popFrameBestFirst(s, commit) ==
  LET top  == Top(s)
      rest == Pop(s.stack)
      kept == IF top.hasBest THEN <<top.best>> \o s.flight ELSE s.flight
  IN  IF ~commit
        THEN [s EXCEPT !.stack = rest,
                       !.flight = SubSeq(@, 1, top.commitStartIndex)]
      ELSE IF rest = <<>>
        THEN [s EXCEPT !.stack = rest, !.Errors = @ \o kept, !.flight = <<>>]
        ELSE [s EXCEPT !.stack = rest, !.flight = kept]

(* Rollback cuts the flight back to where the frame began; commit appends  *)
(* the frame's best error, and the last frame of all flushes the flight.   *)
popFrame(s, commit) ==
  LET top    == Top(s)
      rest   == Pop(s.stack)
      kept   == IF top.hasBest THEN Append(s.flight, top.best) ELSE s.flight
  IN  IF ~commit
        THEN [s EXCEPT !.stack = rest,
                       !.flight = SubSeq(@, 1, top.commitStartIndex)]
      ELSE IF rest = <<>>
        THEN [s EXCEPT !.stack = rest, !.Errors = @ \o kept, !.flight = <<>>]
        ELSE [s EXCEPT !.stack = rest, !.flight = kept]

(* Mutant: the error goes to the outermost frame. *)
setBestOutermost(s, err) ==
  [s EXCEPT !.stack[1].best = err, !.stack[1].hasBest = TRUE]

setBest(s, err) ==
  [s EXCEPT !.stack[Len(s.stack)].best = err,
            !.stack[Len(s.stack)].hasBest = TRUE]

replaceBest(s, err) == IF s.stack = <<>> THEN s ELSE setBest(s, err)

betterError(cur, err) ==
  \/ ~cur.hasBest
  \/ err.pos > cur.best.pos
  \/ err.pos = cur.best.pos /\ cur.best.lexer /\ ~err.lexer

report(s, err) ==
  IF s.stack = <<>> THEN [s EXCEPT !.Errors = Append(@, err)]
  ELSE IF betterError(Top(s), err) THEN setBest(s, err)
  ELSE s

currentFrameWouldBeEmptyOnPop(s) ==
  s.stack = <<>> \/ (~Top(s).hasBest /\ Len(s.flight) = Top(s).commitStartIndex)

(* The position of the top frame's best error equals n (a frame without    *)
(* one has no such position).                                              *)
currentBestPositionIs(s, n) ==
  s.stack # <<>> /\ Top(s).hasBest /\ Top(s).best.pos = n

PushDelimiterBoundary(s, regionStart) ==
  [s EXCEPT !.delimiterBoundaries =
     Append(@, [regionStart |-> regionStart, flightAtOpen |-> Len(s.flight)])]

PopDelimiterBoundary(s) == [s EXCEPT !.delimiterBoundaries = Pop(@)]

HasCommittedErrorInsideCurrentDelimiterBoundary(s) ==
  /\ s.delimiterBoundaries # <<>>
  /\ LET b == s.delimiterBoundaries[Len(s.delimiterBoundaries)]
     IN  \/ \E i \in b.flightAtOpen + 1 .. Len(s.flight) :
               s.flight[i].pos >= b.regionStart
         \/ \E i \in DOMAIN s.stack :
               s.stack[i].hasBest /\ s.stack[i].best.pos >= b.regionStart

(* Mutant: a nested scope is not counted. *)
BeginEntryRuleScopeOnce(s) ==
  IF s.entryRuleScopeDepth > 0 THEN s
  ELSE [s EXCEPT !.entryRuleFlightBaseline = Len(s.flight), !.entryRuleScopeDepth = 1]

(* Mutant: a nested scope takes a new baseline. *)
BeginEntryRuleScopeRebased(s) ==
  [s EXCEPT !.entryRuleFlightBaseline = Len(s.flight), !.entryRuleScopeDepth = @ + 1]

BeginEntryRuleScope(s) ==
  [s EXCEPT !.entryRuleFlightBaseline =
              IF s.entryRuleScopeDepth = 0 THEN Len(s.flight) ELSE @,
            !.entryRuleScopeDepth = @ + 1]

EndEntryRuleScope(s) == [s EXCEPT !.entryRuleScopeDepth = @ - 1]

HasCommittedErrorSinceEntryRuleScope(s) ==
  Len(s.flight) > s.entryRuleFlightBaseline

HasCommittedSyntaxErrors(s) ==
  \/ s.Errors # <<>> \/ s.flight # <<>>
  \/ \E i \in DOMAIN s.stack : s.stack[i].hasBest
=============================================================================
