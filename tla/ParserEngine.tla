---------------------------- MODULE ParserEngine ----------------------------
(***************************************************************************)
(* The envelope the engine puts around every rule (parser.go): snapshot,   *)
(* recovery frame, error frame, commit or rollback, panic-mode recovery.   *)
(*                                                                         *)
(* Rule bodies are closures that call back into the engine, so the Go call *)
(* stack is the variable `calls`, and `control` says what happens next:    *)
(*   "idle"    parseWithContext has not started                            *)
(*   "begin"   the body of the top activation starts                       *)
(*   "loop"    it continues without having called a rule                   *)
(*   "resume"  it continues with the result `ret` of the rule it called    *)
(*   "leave"   it has returned `ret`; the envelope takes over              *)
(*   "finish"  the program rule has returned `ret` to parseWithContext     *)
(*   "done"    the parse is over, `ret` is its result                      *)
(*   "panic"   a rule broke its contract                                   *)
(* The bodies are in RuleFactory.  A body step ends in Call,               *)
(* ExecuteReference, Continue or Return.                                   *)
(***************************************************************************)
EXTENDS ErrorStore, FiniteSets

CONSTANTS Parsers,   \* the SyntaxaParsers a parse may run with
          EOF,       \* parser.eofToken
          Skips,     \* token kinds whose role is skipped (SetDefaultSkips)
          MaxInput,  \* bound: lexemes in an input
          Stride, Width   \* bytes from one lexeme to the next, and in one

(* A parser has its rules by number, the number of its program rule, the   *)
(* registry from grammar labels to what a Reference runs, and the token    *)
(* kinds of its inputs.                                                    *)
ASSUME EngineAssumption ==
  /\ \A p \in Parsers : p.program \in DOMAIN p.rules /\ EOF \notin p.alphabet
  /\ MaxInput \in Nat /\ Stride \in Nat /\ Width \in 1 .. Stride

VARIABLES parser, input,    \* fixed for one parse
          cursor,           \* lexemes consumed
          calls,            \* rule activations, innermost last
          control, ret,
          recovery,         \* recoveryCore.stack, innermost last
          errs,             \* the SyntaxErrors sink
          created           \* len(LSTEditor.created)

vars == <<parser, input, cursor, calls, control, ret, recovery, errs, created>>

Rule == parser.rules

Registry == parser.registry

program == parser.program

-----------------------------------------------------------------------------
(* The token stream over a slice of lexemes.  Positions count from 0; the  *)
(* lexeme past the end is EOF and has the zero value's offsets.            *)

Lexeme(i) ==
  IF i < Len(input)
    THEN [Token |-> input[i + 1], Start |-> Stride * i, End |-> Stride * i + Width]
    ELSE [Token |-> EOF, Start |-> 0, End |-> 0]

PeekRaw(cur) == Lexeme(cur)

VisibleFrom(cur) == {i \in cur .. Len(input) - 1 : Lexeme(i).Token \notin Skips}

VisibleIndex(cur, n) ==
  LET at == {i \in VisibleFrom(cur) : Cardinality({j \in VisibleFrom(cur) : j < i}) = n}
  IN  IF at = {} THEN Len(input) ELSE CHOOSE i \in at : TRUE

Peek(cur, n) == Lexeme(VisibleIndex(cur, n))

(* skipForward, then one raw lexeme; at the end nothing moves. *)
Consume(cur) == LET i == VisibleIndex(cur, 0)
                IN  IF i < Len(input) THEN i + 1 ELSE i

(* Where "expected X" is reported: at the end of the last consumed lexeme  *)
(* if there is one, else at the next visible one.                          *)
ExpectedPosition(cur) == IF cur > 0 THEN Lexeme(cur - 1).End ELSE Peek(cur, 0).Start

ErrorAt(position) == [pos |-> position, lexer |-> FALSE]

-----------------------------------------------------------------------------
(* RuleResult. *)

FailureError   == "Error"
FailureNoMatch == "NoMatch"

Success(node) ==
  [Succeeded |-> TRUE, Kind |-> "none", Node |-> node, ConsumeSyncToken |-> FALSE]

Failure(kind) ==
  [Succeeded |-> FALSE, Kind |-> kind, Node |-> FALSE, ConsumeSyncToken |-> TRUE]

NoResult == Success(FALSE)

-----------------------------------------------------------------------------
(* recoveryCore: a frame per Normal activation and per reference target.   *)

RecoveryFrame(rule) == [consume |-> rule.recoveryTokens,
                        noConsume |-> rule.noConsumeOnRecoveryTokens,
                        barrier |-> rule.isRecoveryBarrier]

defaultRecovery == {EOF}

frameContainsToken(frame, token) == token \in frame.consume \cup frame.noConsume

IsRecoveryToken(token) ==
  LET top == recovery[Len(recovery)]
  IN  \/ recovery # <<>> /\ frameContainsToken(top, token)
      \/ (recovery = <<>> \/ ~top.barrier) /\ token \in defaultRecovery

IsActiveRecoveryToken(token) ==
  \/ token \in defaultRecovery
  \/ \E i \in DOMAIN recovery : frameContainsToken(recovery[i], token)

IsActiveConsumeRecoveryToken(token) ==
  \/ token \in defaultRecovery
  \/ \E i \in DOMAIN recovery : token \in recovery[i].consume

(* The innermost frame that knows the token leaves it for an ancestor. *)
leftForAncestor(token) ==
  \E i \in DOMAIN recovery :
     /\ token \in recovery[i].noConsume
     /\ \A j \in i + 1 .. Len(recovery) : ~frameContainsToken(recovery[j], token)

IsSyncToken(rule, token) == token \in rule.recoveryTokens \cup rule.noConsumeOnRecoveryTokens

-----------------------------------------------------------------------------
(* Entering a rule. *)

top == calls[Len(calls)]

topRule == Rule[top.rule]

IsProgramRule(r) == Rule[r].label = Rule[program].label

(* One execution of a rule body: startSnap and startLSTNodeCreationIdx of  *)
(* its envelope, and the locals of the body: the index of the current      *)
(* child or a count, a saved offset, the stack of runPrattExpression calls *)
(* and the nodes they have built.  `before`, the sink at entry, is only    *)
(* there for the properties.                                               *)
Activation(r, mode, envelope, cur, store, count) ==
  [rule |-> r, mode |-> mode, envelope |-> envelope,
   start |-> cur, createdAt |-> count, before |-> store,
   next |-> 0, marker |-> 0, runs |-> <<>>, nodes |-> {}]

(* The state a body step has brought about when control leaves it. *)
Effect(cur, store, count) ==
  /\ cursor' = cur /\ errs' = store /\ created' = count
  /\ UNCHANGED <<parser, input>>

(* syntaxaParserExecuteRule up to the call of executionFn. *)
Enter(stack, r, mode, cur, store, count) ==
  LET scoped == IF mode = "Normal" /\ IsProgramRule(r) THEN BeginEntryRuleScope(store)
                ELSE store
  IN  /\ calls' = Append(stack, Activation(r, mode, TRUE, cur, store, count))
      /\ recovery' = IF mode = "Normal" THEN Append(recovery, RecoveryFrame(Rule[r]))
                     ELSE recovery
      /\ Effect(cur, pushFrame(scoped), count)
      /\ control' = "begin" /\ ret' = NoResult

(* ctx.ExecuteRule, called from the body whose activation becomes `caller`. *)
Call(caller, r, mode, cur, store, count) ==
  Enter(Append(Pop(calls), caller), r, mode, cur, store, count)

(* A reference runs its target's body in its own envelope, with the        *)
(* recovery frame of the registered rule.                                  *)
ExecuteReference(target) ==
  /\ calls' = Append(calls, Activation(Registry[target].rule, "Normal", FALSE,
                                       cursor, errs, created))
  /\ recovery' = Append(recovery, RecoveryFrame(Registry[target]))
  /\ control' = "begin" /\ ret' = NoResult
  /\ Effect(cursor, errs, created)

Continue(activation, cur, store, count) ==
  /\ calls' = Append(Pop(calls), activation)
  /\ control' = "loop"
  /\ Effect(cur, store, count)
  /\ UNCHANGED <<ret, recovery>>

Return(result, cur, store, count) ==
  /\ ret' = result /\ control' = "leave"
  /\ Effect(cur, store, count)
  /\ UNCHANGED <<calls, recovery>>

-----------------------------------------------------------------------------
(* What every body uses. *)

kids == topRule.kids

At(kind, where) == control = where /\ topRule.kind = kind

Next0 == Peek(cursor, 0)

(* Segments that only choose the next call or result. *)
CallKid(activation, i, mode) == Call(activation, kids[i], mode, cursor, errs, created)

Give(result) == Return(result, cursor, errs, created)

NewNodes(n) == created + n

Reported(position) == report(errs, ErrorAt(position))

-----------------------------------------------------------------------------
(* Leaving a rule: the second half of syntaxaParserExecuteRule.            *)

Leaving == control = "leave" /\ top.envelope

(* The deferred calls, and the return to the caller. *)
Leave(result, cur, store, count) ==
  /\ calls' = Pop(calls)
  /\ recovery' = IF top.mode = "Normal" THEN Pop(recovery) ELSE recovery
  /\ control' = IF Len(calls) = 1 THEN "finish" ELSE "resume"
  /\ ret' = result
  /\ Effect(cur, IF top.mode = "Normal" /\ IsProgramRule(top.rule)
                   THEN EndEntryRuleScope(store) ELSE store, count)

LeaveReference ==
  /\ control = "leave" /\ ~top.envelope
  /\ calls' = Pop(calls) /\ recovery' = Pop(recovery)
  /\ UNCHANGED <<parser, input, cursor, control, ret, errs, created>>

(* validateRuleSuccess.  A reference answers for its target's contract.    *)
Contract(rule) == IF rule.kind = "Reference" THEN Rule[Registry[rule.target].rule] ELSE rule

PreToken == Peek(top.start, 0).Token

BreaksContract ==
  LET contract == Contract(topRule)
  IN  \/ cursor = top.start /\ contract.MustConsume /\ PreToken # EOF
      \/ ~ret.Node /\ contract.MustReturnNode

RuleSucceeds == /\ Leaving /\ ret.Succeeded /\ ~BreaksContract
                /\ Leave(ret, cursor, popFrame(errs, TRUE), created)

ContractPanic == /\ Leaving /\ ret.Succeeded /\ BreaksContract
                 /\ control' = "panic" /\ errs' = popFrame(errs, TRUE)
                 /\ UNCHANGED <<parser, input, cursor, calls, ret, recovery, created>>

-----------------------------------------------------------------------------
(* handleFailureState.  TruncateCreated comes first in every case. *)

Committed == top.mode = "Normal" /\ ret.Kind = FailureError

(* Mutant: the diagnostics of a failed probe or mismatch are kept. *)
RuleRollsBackKeepingErrors ==
  /\ Leaving /\ ~ret.Succeeded /\ ~Committed
  /\ Leave(ret, top.start, popFrame(errs, TRUE), top.createdAt)

(* A speculative failure leaves nothing behind. *)
RuleRollsBack == /\ Leaving /\ ~ret.Succeeded /\ ~Committed
                 /\ Leave(ret, top.start, popFrame(errs, FALSE), top.createdAt)

(* A descendant has resynchronised on a token that it left in the stream. *)
AlreadyResynced == ~ret.ConsumeSyncToken /\ cursor # top.start

RulePassesFailureUp == /\ Leaving /\ ~ret.Succeeded /\ Committed /\ AlreadyResynced
                       /\ Leave(ret, cursor, popFrame(errs, TRUE), top.createdAt)

(* The frame's own diagnostic replaces the best error when there is none,  *)
(* or when the best one is where the rule began.  The code compares a byte *)
(* offset with a token index.                                              *)
Diagnosed ==
  IF /\ ~IsProgramRule(top.rule) /\ ~IsRecoveryToken(PreToken)
     /\ \/ currentFrameWouldBeEmptyOnPop(errs)
        \/ currentBestPositionIs(errs, top.start)
    THEN replaceBest(errs, ErrorAt(Peek(cursor, 0).Start))
    ELSE errs

(* performRecoveryDiscardPhase: the first sync token at or after `from`,   *)
(* or the end of the input.                                                *)
DiscardTo(from, consumeOnly) ==
  LET isSync(token) == IF consumeOnly THEN IsActiveConsumeRecoveryToken(token)
                       ELSE IsActiveRecoveryToken(token)
      landings == {i \in from .. Len(input) - 1 : isSync(Lexeme(i).Token)} \cup {Len(input)}
  IN  CHOOSE i \in landings : \A j \in landings : i <= j

(* performRecovery: the second phase starts where the first one stopped.   *)
performRecovery(from) ==
  LET first == DiscardTo(from, TRUE)
  IN  IF first < Len(input) THEN first ELSE DiscardTo(first, FALSE)

Recovering == Leaving /\ ~ret.Succeeded /\ Committed /\ ~AlreadyResynced

(* The failed rule's frame commits; recovery runs in a frame of its own.   *)
AfterRecovery == popFrame(pushFrame(popFrame(Diagnosed, TRUE)), FALSE)

(* Mutant: recovery does not ask whether it has reached the end. *)
RuleRecoversPastEnd ==
  LET at     == performRecovery(cursor)
      token  == Lexeme(at).Token
      stays  == leftForAncestor(token)
      healed == topRule.isRecoveryBarrier /\ IsSyncToken(topRule, token)
  IN  /\ Recovering
      /\ Leave([ret EXCEPT !.ConsumeSyncToken = ~stays, !.Succeeded = healed,
                           !.Node = healed \/ @],
               IF stays THEN at ELSE at + 1, AfterRecovery,
               IF healed THEN top.createdAt + 1 ELSE top.createdAt)

RuleRecovers ==
  LET at     == performRecovery(cursor)
      token  == Lexeme(at).Token
      stays  == leftForAncestor(token)
      healed == topRule.isRecoveryBarrier /\ IsSyncToken(topRule, token)
  IN  /\ Recovering /\ at < Len(input)
      /\ Leave([ret EXCEPT !.ConsumeSyncToken = ~stays, !.Succeeded = healed,
                           !.Node = healed \/ @],
               IF stays THEN at ELSE at + 1, AfterRecovery,
               IF healed THEN top.createdAt + 1 ELSE top.createdAt)

RuleFails == /\ Recovering /\ performRecovery(cursor) = Len(input)
             /\ Leave(ret, top.start, AfterRecovery, top.createdAt)

-----------------------------------------------------------------------------
(* parseWithContext. *)

StartParse == control = "idle" /\ Enter(<<>>, program, "Normal", cursor, errs, created)

(* A program that did not match, or left input behind without having said  *)
(* why, is reported at the next visible lexeme.                            *)
LeftInput == /\ ret.Succeeded /\ Peek(cursor, 0).Token # EOF
             /\ ~HasCommittedSyntaxErrors(errs)

(* Mutant: only left-over input is reported, not a program that did not    *)
(* match.                                                                  *)
FinishParseSilently ==
  /\ control = "finish" /\ control' = "done"
  /\ errs' = IF LeftInput THEN report(errs, ErrorAt(Peek(cursor, 0).Start)) ELSE errs
  /\ ret' = [ret EXCEPT !.Succeeded = @ /\ ~LeftInput]
  /\ UNCHANGED <<parser, input, cursor, calls, recovery, created>>

FinishParse ==
  /\ control = "finish" /\ control' = "done"
  /\ errs' = IF LeftInput \/ (~ret.Succeeded /\ ret.Kind = FailureNoMatch)
               THEN report(errs, ErrorAt(Peek(cursor, 0).Start)) ELSE errs
  /\ ret' = [ret EXCEPT !.Succeeded = @ /\ ~LeftInput]
  /\ UNCHANGED <<parser, input, cursor, calls, recovery, created>>

Accepted == control = "done" /\ ret.Succeeded /\ errs.Errors = <<>>

Init == /\ parser \in Parsers
        /\ input \in UNION {[1 .. n -> parser.alphabet] : n \in 0 .. MaxInput}
        /\ cursor = 0 /\ calls = <<>> /\ recovery = <<>> /\ created = 0
        /\ errs = SyntaxErrorsCreate
        /\ control = "idle" /\ ret = NoResult

EngineStep == \/ StartParse \/ LeaveReference \/ RuleSucceeds \/ ContractPanic
              \/ RuleRollsBack \/ RulePassesFailureUp \/ RuleRecovers \/ RuleFails
              \/ FinishParse
=============================================================================
