---------------------------- MODULE RuleFactory -----------------------------
(***************************************************************************)
(* The bodies of the rules that rule/factory.go builds.  A body runs       *)
(* without interruption from its start, or from the return of the rule it  *)
(* called, to its next call or its return: one action per such segment.    *)
(* `top` is the activation whose body runs and `topRule` its rule.  A      *)
(* parser that was given getAnalysis is `analysed` and has the grammar's   *)
(* Nullable, First and Follow by rule.                                     *)
(***************************************************************************)
EXTENDS PrattRules, Integers

(* The rules whose body begins by running, or may run, its first child. *)
RunsAChild == {"Sequence", "Root", "Optional", "OptionalWhen", "Predict", "RecoverSync",
               "OptionalSuffix", "Required", "Prefixed", "Nest", "Repetition", "Pratt"}

(* What constructors and callers see to: a rule is built of rules of the   *)
(* parser, a sequence is not empty, an operator is a token or one of the   *)
(* expression's rules with two ints for its binding powers, and the        *)
(* targets of references are registered.                                   *)
ASSUME RulesAssumption ==
  \A p \in Parsers :
     /\ \A i \in DOMAIN p.rules :
           LET rule == p.rules[i]
           IN  /\ rule.kids \in Seq(DOMAIN p.rules)
               /\ rule.kind \in RunsAChild => rule.kids # <<>>
               /\ rule.kind = "Expect" => rule.addNode \in BOOLEAN
               /\ rule.kind = "Reference" => rule.target \in DOMAIN p.registry
               /\ rule.kind = "Pratt" =>
                    /\ 0 \notin DOMAIN rule.ops
                    /\ \A o \in DOMAIN rule.ops :
                          /\ rule.ops[o].kid \in 0 .. Len(rule.kids)
                          /\ rule.ops[o].leftBP \in Int /\ rule.ops[o].rightBP \in Int
     /\ \A label \in DOMAIN p.registry : p.registry[label].rule \in DOMAIN p.rules

(* What a constructor promises for a rule, by what its parts promise       *)
(* (listCoreMustConsume, choiceMustConsume, createContract), and where it  *)
(* puts a barrier.  Root's contract is its caller's.                       *)
DerivedContract(rule, parts) ==
  /\ rule.kind = "Expect" => (rule.MustReturnNode => rule.addNode)
  /\ rule.kind \in {"Optional", "OptionalWhen", "Reference"} =>
       ~rule.MustConsume /\ ~rule.MustReturnNode
  /\ rule.kind = "Sequence" => (rule.MustConsume => \E i \in DOMAIN parts : parts[i].MustConsume)
  /\ rule.kind = "Choice" =>
       /\ rule.MustConsume => \A i \in DOMAIN parts : parts[i].MustConsume
       /\ ~rule.MustReturnNode
  /\ rule.kind \in {"Predict", "RecoverSync", "Required", "OptionalSuffix"} =>
       (rule.MustConsume => parts[1].MustConsume)
  /\ \/ rule.kind \in {"Predict", "RecoverSync", "Required", "Prefixed"}
     \/ rule.kind = "Nest" /\ rule.transparent
     => (rule.MustReturnNode => parts[1].MustReturnNode)
  /\ rule.kind = "Repetition" =>
       /\ rule.MustConsume => rule.min > 0 /\ parts[1].MustConsume
       /\ rule.hasMax => rule.min <= rule.max
  /\ rule.isRecoveryBarrier =>
       rule.kind = "Nest" \/ (rule.kind = "Sequence" /\ rule.noConsumeOnRecoveryTokens = {})

ASSUME ContractsAssumption ==
  \A p \in Parsers : \A r \in DOMAIN p.rules :
     LET rule == p.rules[r]
     IN  /\ DerivedContract(rule, [i \in DOMAIN rule.kids |-> p.rules[rule.kids[i]]])
         /\ rule.kind = "Repetition" => rule.min \in Nat /\ rule.max \in Nat

(* Mutant: the offset of a guard's token is ignored. *)
GuardMatchesNextToken(guard) ==
  \A l \in guard : Next0.Token = l.expected

GuardMatchesLookahead(guard) ==
  \A l \in guard : Peek(cursor, l.offset).Token = l.expected

sequenceCommitmentFailureKind(marker, kind) ==
  IF kind = FailureNoMatch /\ marker = PeekRaw(cursor).Start THEN FailureNoMatch
  ELSE FailureError

-----------------------------------------------------------------------------
(* Token rules. *)

ExpectToken ==
  /\ At("Expect", "begin")
  /\ IF Next0.Token \in topRule.tokens
       THEN Return(Success(topRule.addNode), Consume(cursor), errs,
                   NewNodes(IF topRule.addNode THEN 1 ELSE 0))
       ELSE Give(Failure(FailureNoMatch))

(* A list's automaton: `next` is 0 before the first element, 1 after an    *)
(* element, 2 after a separator.                                           *)
ListError == Return(Failure(FailureError), cursor, Reported(Next0.Start), created)

ListShift(state, nodes) ==
  Continue([top EXCEPT !.next = state], Consume(cursor), errs, NewNodes(nodes))

ListClose(allowed) ==
  IF allowed THEN Return(Success(TRUE), Consume(cursor), errs, created) ELSE ListError

ListOpen == /\ At("List", "begin")
            /\ IF Next0.Token = topRule.open THEN ListShift(0, 1) ELSE ListError

ListFirst ==
  /\ At("List", "loop") /\ top.next = 0
  /\ CASE Next0.Token = topRule.close   -> ListClose(topRule.allowEmpty)
       [] Next0.Token = topRule.element -> ListShift(1, 1)
       [] OTHER                         -> ListError

ListAfterElement ==
  /\ At("List", "loop") /\ top.next = 1
  /\ CASE Next0.Token = topRule.close     -> ListClose(topRule.trailing # "Required")
       [] Next0.Token = topRule.separator -> ListShift(2, 0)
       [] OTHER                           -> ListError

(* Mutant: a trailing separator is accepted whatever the mode. *)
ListAfterSeparatorAnyMode ==
  /\ At("List", "loop") /\ top.next = 2
  /\ CASE Next0.Token = topRule.close   -> ListClose(TRUE)
       [] Next0.Token = topRule.element -> ListShift(1, 1)
       [] OTHER                         -> ListError

ListAfterSeparator ==
  /\ At("List", "loop") /\ top.next = 2
  /\ CASE Next0.Token = topRule.close   -> ListClose(topRule.trailing # "Forbidden")
       [] Next0.Token = topRule.element -> ListShift(1, 1)
       [] OTHER                         -> ListError

-----------------------------------------------------------------------------
(* Sequence, Block, TransparentSequence and Wrap. *)

(* The failure of a child that this body turns into a syntax error. *)
Promoted == /\ ~ret.Succeeded /\ ret.Kind = FailureNoMatch
            /\ sequenceCommitmentFailureKind(top.marker, ret.Kind) = FailureError

(* Mutant: a missing child is inserted although the sequence has consumed  *)
(* nothing yet.                                                            *)
InsertedAnywhere ==
  /\ ~ret.Succeeded /\ ret.Kind = FailureNoMatch
  /\ parser.analysed /\ Next0.Token \in parser.Follow[kids[top.next]]

(* tryFollowSetInsertion: the missing child is taken as present when the   *)
(* next token may follow it.                                               *)
Inserted == Promoted /\ parser.analysed /\ Next0.Token \in parser.Follow[kids[top.next]]

MissingReported == IF Promoted THEN Reported(ExpectedPosition(cursor)) ELSE errs

SequenceBegin ==
  /\ At("Sequence", "begin")
  /\ CallKid([top EXCEPT !.next = 1, !.marker = PeekRaw(cursor).Start], 1, "Normal")

SequenceAdvance ==
  /\ At("Sequence", "resume") /\ (ret.Succeeded \/ Inserted)
  /\ IF top.next < Len(kids)
       THEN Call([top EXCEPT !.next = @ + 1], kids[top.next + 1], "Normal",
                 cursor, MissingReported, created)
       ELSE Return(Success(TRUE), cursor, MissingReported,
                   NewNodes(IF topRule.transparent THEN 0 ELSE 1))

SequenceFail ==
  /\ At("Sequence", "resume") /\ ~ret.Succeeded /\ ~Inserted
  /\ Return(Failure(sequenceCommitmentFailureKind(top.marker, ret.Kind)),
            cursor, MissingReported, created)

-----------------------------------------------------------------------------
(* Rules around one rule. *)

OptionalBegin == At("Optional", "begin") /\ CallKid(top, 1, "Probe")

OptionalEnd == /\ At("Optional", "resume")
               /\ Give(IF ret.Succeeded THEN ret ELSE Success(FALSE))

(* OptionalPrefix and OptionalWhen; predictRule differs in what it returns *)
(* when the guard does not hold.                                           *)
Guarded(kind, otherwise) ==
  /\ At(kind, "begin")
  /\ IF GuardMatchesLookahead(topRule.guard) THEN CallKid(top, 1, "Normal")
     ELSE Give(otherwise)

OptionalWhenBegin == Guarded("OptionalWhen", Success(FALSE))

PredictBegin == Guarded("Predict", Failure(FailureNoMatch))

(* RecoverSync and RecoverSyncBoundary. *)
RecoverSyncBegin == At("RecoverSync", "begin") /\ CallKid(top, 1, "Normal")

ReturnKid(kind) == At(kind, "resume") /\ Give(ret)

OptionalSuffixBegin == At("OptionalSuffix", "begin") /\ CallKid(top, 1, "Normal")

OptionalSuffixEnd ==
  /\ At("OptionalSuffix", "resume")
  /\ IF ret.Succeeded /\ Next0.Token = topRule.suffix
       THEN Return(Success(TRUE), Consume(cursor), errs, NewNodes(1))
       ELSE Give(ret)

RequiredBegin == At("Required", "begin") /\ CallKid(top, 1, "Normal")

RequiredEnd ==
  /\ At("Required", "resume")
  /\ IF ret.Kind = FailureNoMatch
       THEN Return(Failure(FailureError), cursor, Reported(ExpectedPosition(cursor)), created)
       ELSE Give(ret)

PrefixedBegin ==
  /\ At("Prefixed", "begin")
  /\ IF Next0.Token = topRule.prefix
       THEN Call([top EXCEPT !.marker = PeekRaw(Consume(cursor)).Start], kids[1], "Normal",
                 Consume(cursor), errs, created)
       ELSE Give(Failure(FailureNoMatch))

(* executeInnerWithCommitmentFailure *)
InnerFailure == Failure(sequenceCommitmentFailureKind(top.marker, ret.Kind))

PrefixedEnd == /\ At("Prefixed", "resume")
               /\ Give(IF ret.Succeeded THEN ret ELSE InnerFailure)

-----------------------------------------------------------------------------
(* Nest and TransparentNest: the delimiter boundary is closed on return. *)

NestBegin ==
  /\ At("Nest", "begin")
  /\ IF Next0.Token = topRule.open
       THEN Call([top EXCEPT !.marker = PeekRaw(Consume(cursor)).Start], kids[1], "Normal",
                 Consume(cursor), PushDelimiterBoundary(errs, Next0.Start), created)
       ELSE Give(Failure(FailureNoMatch))

(* Mutant: the boundary stays open when the body of the nest fails. *)
NestInnerFailsInside == /\ At("Nest", "resume") /\ ~ret.Succeeded
                        /\ Return(InnerFailure, cursor, errs, created)

NestInnerFails == /\ At("Nest", "resume") /\ ~ret.Succeeded
                  /\ Return(InnerFailure, cursor, PopDelimiterBoundary(errs), created)

NestCloses ==
  /\ At("Nest", "resume") /\ ret.Succeeded /\ Next0.Token = topRule.close
  /\ Return(IF topRule.transparent THEN ret ELSE Success(TRUE),
            Consume(cursor), PopDelimiterBoundary(errs),
            NewNodes(IF topRule.transparent THEN 0 ELSE 1))

(* enforceNestClose says nothing when an error inside explains the miss. *)
NestCloseMissing ==
  /\ At("Nest", "resume") /\ ret.Succeeded /\ Next0.Token # topRule.close
  /\ Return(Failure(FailureError), cursor,
            PopDelimiterBoundary(
              IF HasCommittedErrorInsideCurrentDelimiterBoundary(errs) THEN errs
              ELSE Reported(Next0.Start)),
            created)

-----------------------------------------------------------------------------
(* Root.  A failed Root still returns its node, which is truncated. *)

RootBegin ==
  /\ At("Root", "begin")
  /\ Call([top EXCEPT !.next = 1], kids[1], "Normal", cursor, errs, NewNodes(1))

RootAdvance ==
  /\ At("Root", "resume") /\ ret.Succeeded
  /\ IF top.next < Len(kids)
       THEN CallKid([top EXCEPT !.next = @ + 1], top.next + 1, "Normal")
       ELSE Give(Success(TRUE))

RootFail ==
  LET late == top.next > 1 /\ ret.Kind = FailureNoMatch
  IN  /\ At("Root", "resume") /\ ~ret.Succeeded
      /\ Return([ret EXCEPT !.Node = TRUE, !.Kind = IF late THEN FailureError ELSE @],
                cursor,
                IF late /\ ~HasCommittedErrorSinceEntryRuleScope(errs)
                  THEN Reported(ExpectedPosition(cursor)) ELSE errs,
                created)

-----------------------------------------------------------------------------
(* NOrMore and, `bounded`, Repeat, transparent or not.  `next` counts the  *)
(* matches, `marker` is where the current attempt began.                   *)

Attempt(activation, cur, count) ==
  Call([activation EXCEPT !.marker = PeekRaw(cur).Start], kids[1], "Normal", cur, errs, count)

RepetitionEnd(count) ==
  Give(IF count < topRule.min THEN Failure(FailureNoMatch) ELSE Success(TRUE))

Full(count) == topRule.hasMax /\ count >= topRule.max

RepetitionBegin ==
  /\ At("Repetition", "begin") /\ ~Full(0)
  /\ Attempt(top, cursor, NewNodes(IF topRule.transparent THEN 0 ELSE 1))

RepetitionBeginFull ==
  /\ At("Repetition", "begin") /\ Full(0)
  /\ Return(Success(TRUE), cursor, errs, NewNodes(IF topRule.transparent THEN 0 ELSE 1))

RepetitionMatch ==
  /\ At("Repetition", "resume") /\ ret.Succeeded
  /\ IF Full(top.next + 1) THEN RepetitionEnd(top.next + 1)
     ELSE Attempt([top EXCEPT !.next = @ + 1], cursor, created)

(* Mutant: below the minimum the loop tries the same place again. *)
RepetitionStopsAtMinimum ==
  /\ At("Repetition", "resume") /\ ~ret.Succeeded /\ ret.Kind = FailureNoMatch
  /\ IF top.next < topRule.min THEN Attempt(top, cursor, created)
     ELSE RepetitionEnd(top.next)

RepetitionStops ==
  /\ At("Repetition", "resume") /\ ~ret.Succeeded /\ ret.Kind = FailureNoMatch
  /\ RepetitionEnd(top.next)

Stuck == ~ret.ConsumeSyncToken \/ top.marker = PeekRaw(cursor).Start

RepetitionPropagates ==
  /\ At("Repetition", "resume") /\ ~ret.Succeeded /\ ret.Kind = FailureError /\ Stuck
  /\ Give(ret)

(* After a recovery that made progress runRepetitionLoop tries again;      *)
(* handleRepetitionFailure, which Repeat uses, ends the loop.              *)
RepetitionRetries ==
  /\ At("Repetition", "resume") /\ ~ret.Succeeded /\ ret.Kind = FailureError /\ ~Stuck
  /\ IF topRule.bounded THEN RepetitionEnd(top.next) ELSE Attempt(top, cursor, created)

-----------------------------------------------------------------------------
(* Choice tries, in order, the arms that the analysis leaves. *)

Viable(arm) ==
  \/ ~parser.analysed
  \/ parser.Nullable[arm]
  \/ Next0.Token \in parser.First[arm] /\ GuardMatchesLookahead(parser.ArmGuard[arm])

ArmsAfter(i) == {j \in i + 1 .. Len(kids) : Viable(kids[j])}

TryArm(i) ==
  IF ArmsAfter(i) = {} THEN Give(Failure(FailureNoMatch))
  ELSE LET j == CHOOSE j \in ArmsAfter(i) : \A k \in ArmsAfter(i) : j <= k
       IN  CallKid([top EXCEPT !.next = j], j, "Normal")

ChoiceBegin == At("Choice", "begin") /\ TryArm(0)

ChoiceEnd == At("Choice", "resume") /\ (ret.Succeeded \/ ret.Kind = FailureError) /\ Give(ret)

ChoiceNextArm == /\ At("Choice", "resume") /\ ~ret.Succeeded /\ ret.Kind = FailureNoMatch
                 /\ TryArm(top.next)

ReferenceBegin == At("Reference", "begin") /\ ExecuteReference(topRule.target)

-----------------------------------------------------------------------------
BodyStep ==
  \/ ExpectToken
  \/ ListOpen \/ ListFirst \/ ListAfterElement \/ ListAfterSeparator
  \/ SequenceBegin \/ SequenceAdvance \/ SequenceFail
  \/ OptionalBegin \/ OptionalEnd
  \/ OptionalWhenBegin \/ PredictBegin \/ RecoverSyncBegin
  \/ ReturnKid("OptionalWhen") \/ ReturnKid("Predict") \/ ReturnKid("RecoverSync")
  \/ OptionalSuffixBegin \/ OptionalSuffixEnd
  \/ RequiredBegin \/ RequiredEnd
  \/ PrefixedBegin \/ PrefixedEnd
  \/ NestBegin \/ NestInnerFails \/ NestCloses \/ NestCloseMissing
  \/ RootBegin \/ RootAdvance \/ RootFail
  \/ RepetitionBegin \/ RepetitionBeginFull \/ RepetitionMatch \/ RepetitionStops
  \/ RepetitionPropagates \/ RepetitionRetries
  \/ ChoiceBegin \/ ChoiceEnd \/ ChoiceNextArm
  \/ ReferenceBegin
  \/ PrattStep

Stopped == control \in {"done", "panic"} /\ UNCHANGED vars

Next == EngineStep \/ BodyStep \/ Stopped

Spec == Init /\ [][Next]_vars

(* The parser is one goroutine that never waits: it always takes its next  *)
(* step.                                                                   *)
FairSpec == Spec /\ WF_vars(Next)

-----------------------------------------------------------------------------
(* Properties. *)

(* The parse state has its type; in particular the cursor stays within the *)
(* input and every activation runs a rule of the parser.                   *)
TypeOK ==
  /\ parser \in Parsers
  /\ input \in Seq(parser.alphabet)
  /\ cursor \in 0 .. Len(input)
  /\ created \in Nat
  /\ control \in {"idle", "begin", "loop", "resume", "leave", "finish", "done", "panic"}
  /\ ret \in [Succeeded : BOOLEAN, Kind : {"none", FailureError, FailureNoMatch},
              Node : BOOLEAN, ConsumeSyncToken : BOOLEAN]
  /\ \A i \in DOMAIN calls :
        /\ calls[i].rule \in DOMAIN Rule /\ calls[i].mode \in {"Normal", "Probe"}
        /\ calls[i].start \in 0 .. cursor
        /\ calls[i].createdAt \in 0 .. created
        /\ calls[i].next \in Nat /\ calls[i].marker \in Nat

(* "Rule failure rolls back token consumption and LST mutations" (README,  *)
(* parser.go:409-413): when a rule does not match, or fails as a probe,    *)
(* the caller finds the stream, the created nodes and the whole diagnostic *)
(* store, entry scope and delimiter boundaries included, as they were when *)
(* it made the call, whatever the subtree reported, committed or recovered *)
(* in between.                                                             *)
BacktrackingLeavesNoTrace ==
  [][Leaving /\ ~ret.Succeeded /\ ~Committed =>
       cursor' = top.start /\ created' = top.createdAt /\ errs' = top.before]_vars

(* No activation, however it ends, takes back a diagnostic that was        *)
(* committed before it began, nor touches the best error of a frame below  *)
(* its own: the flat flight is only cut above what the callers own         *)
(* (syntax_errors.go:67-94 as parser.go uses it).                          *)
CallersKeepTheirDiagnostics ==
  \A i \in DOMAIN calls : calls[i].envelope /\ control # "panic" =>
     LET before == calls[i].before
     IN  /\ SubSeq(errs.flight, 1, Len(before.flight)) = before.flight
         /\ SubSeq(errs.stack, 1, Len(before.stack)) = before.stack
         /\ errs.Errors = before.Errors

(* The four stacks the engine keeps beside the Go stack never drift from   *)
(* it: a recovery frame per Normal activation and reference target, an     *)
(* error frame per envelope, an entry scope per activation of the program  *)
(* rule, a delimiter boundary per Nest whose body runs (parser.go:331-349, *)
(* rule_context.go:847-871, factory.go:1691-1725).                         *)
StacksMatchCalls ==
  LET normal    == {i \in DOMAIN calls : calls[i].mode = "Normal"}
      envelopes == {i \in DOMAIN calls : calls[i].envelope}
      entries   == {i \in normal \cap envelopes : IsProgramRule(calls[i].rule)}
      insides   == {i \in DOMAIN calls : /\ Rule[calls[i].rule].kind = "Nest"
                                         /\ (i < Len(calls) \/ control = "resume")}
  IN  control # "panic" =>
      /\ Len(recovery) = Cardinality(normal)
      /\ Len(errs.stack) = Cardinality(envelopes)
      /\ errs.entryRuleScopeDepth = Cardinality(entries)
      /\ Len(errs.delimiterBoundaries) = Cardinality(insides)

(* Contracts that are not derived from what the parts promise: Root has    *)
(* what its caller chooses, OptionalSuffix promises a node and Expression  *)
(* that it consumes, whatever the rule inside does.                        *)
Overpromises(rule) ==
  LET inner == Contract(Rule[rule.kids[1]])
  IN  \/ rule.kind = "Root"
      \/ rule.kind = "OptionalSuffix" /\ ~inner.MustReturnNode
      \/ rule.kind = "Pratt" /\ (~inner.MustConsume \/ Ambiguous(rule))

(* The contracts that the factory derives for its rules (listCoreMustCon-  *)
(* sume, choiceMustConsume, ...) are kept by their bodies in every run,    *)
(* recovery, healing at a barrier and insertion of a missing child inclu-  *)
(* ded: validateRuleSuccess panics (parser.go:542-585) only over a rule    *)
(* that promises more than its parts, or a reference to one, and an        *)
(* expression only does so, or over operators that share a token.          *)
ContractsAreKept == control = "panic" => Overpromises(Contract(topRule))

(* A parse that fails says why: its result carries a diagnostic, although  *)
(* diagnostics are dropped by every backtracked rule on the way            *)
(* (parser.go:253-309).                                                    *)
FailureIsDiagnosed == control = "done" /\ ~ret.Succeeded => errs.Errors # <<>>

(* The parser always stops, whatever the input makes recovery do: a        *)
(* repetition that retries after an error has made progress                *)
(* (factory.go:1324-1355).                                                 *)
Terminates == <>(control \in {"done", "panic"})

-----------------------------------------------------------------------------
(* What the documentation says of recovery and commitment, and the code    *)
(* does not do.  Each is refuted by a run of its own.                      *)

(* README.md:17: "on FailureError the engine consumes until a sync token   *)
(* (e.g. `}`, `)`) before continuing".  A recovery that gives up at the    *)
(* end of the input has not passed over a sync token.                      *)
SyncPointIsFound ==
  Recovering /\ performRecovery(cursor) = Len(input) =>
    \A i \in cursor .. Len(input) - 1 : ~IsActiveRecoveryToken(Lexeme(i).Token)

(* rule/factory.go:922: "Once any rule has succeeded, the sequence is      *)
(* committed; any later failure is a syntax error (FailureError)."  A      *)
(* sequence that has consumed a lexeme does not end in NoMatch.            *)
SequenceCommits ==
  control = "leave" /\ topRule.kind = "Sequence" /\ ~ret.Succeeded /\ cursor # top.start
    => ret.Kind = FailureError

(* parser.go:415-416: "Do not performRecovery again (would re-scan and     *)
(* skip valid later input)."  A wrapper, which consumes nothing itself,    *)
(* does not start a second recovery from the place to which its inner rule *)
(* has already resynchronised.                                             *)
RecoversOnce == Recovering /\ topRule.kind = "RecoverSync" => cursor = top.start
=============================================================================
