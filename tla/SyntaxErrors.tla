---------------------------- MODULE SyntaxErrors ----------------------------
(***************************************************************************)
(* The diagnostic store as a component: the operations of ErrorStore in    *)
(* every order in which the engine and the rule factory can nest them.     *)
(* `scopes` is the caller's side: the nesting of the Go calls (a frame per *)
(* rule activation, a deferred close per delimiter or entry-rule scope).   *)
(***************************************************************************)
EXTENDS ErrorStore, FiniteSets

CONSTANTS Pos,        \* byte offsets at which an error may be reported
          MaxScopes,  \* bound: nesting of frames and scopes
          MaxErrors   \* bound: errors alive in the store

ASSUME PosAssumption == Pos \subseteq Nat

VARIABLES se,         \* the SyntaxErrors struct
          scopes      \* open scopes of the caller, innermost last

vars == <<se, scopes>>

(* A SyntaxError, down to what decides its fate: AbsolutePosition and      *)
(* ProducedByLexer.                                                        *)
SyntaxError == [pos : Pos, lexer : BOOLEAN]

errorFrame ==
  {f \in [best : SyntaxError \cup {ZeroError}, hasBest : BOOLEAN, commitStartIndex : Nat] :
     f.hasBest => f.best \in SyntaxError}

delimiterBoundary == [regionStart : Pos, flightAtOpen : Nat]

ScopeKind == {"frame", "delimiter", "entry"}

-----------------------------------------------------------------------------
(* The machine: one action per operation, in the order the calls nest.     *)
(* A scope remembers which entry of its stack it opened and how long the   *)
(* flight was then.                                                        *)

Open(kind, depth) ==
  /\ Len(scopes) < MaxScopes
  /\ scopes' = Append(scopes, [kind |-> kind, index |-> depth + 1, at |-> Len(se.flight)])

Close(kind) == /\ scopes # <<>> /\ scopes[Len(scopes)].kind = kind
               /\ scopes' = Pop(scopes)

Held(s) == Len(s.Errors) + Len(s.flight)
             + Cardinality({i \in DOMAIN s.stack : s.stack[i].hasBest})

Init == se = SyntaxErrorsCreate /\ scopes = <<>>

PushFrame == Open("frame", Len(se.stack)) /\ se' = pushFrame(se)

PopFrame(commit) == Close("frame") /\ se' = popFrame(se, commit)

(* handleFailureState commits the failed rule's frame and runs recovery in *)
(* a fresh frame that it rolls back.                                       *)
FailFrame == Close("frame") /\ se' = popFrame(pushFrame(popFrame(se, TRUE)), FALSE)

Report(err) == /\ Held(se) < MaxErrors
               /\ se' = report(se, err)
               /\ UNCHANGED scopes

ReplaceBest(err) == /\ Held(se) < MaxErrors
                    /\ se.stack # <<>>
                    /\ se' = replaceBest(se, err)
                    /\ UNCHANGED scopes

OpenDelimiter(p) == /\ se.stack # <<>>
                    /\ Open("delimiter", Len(se.delimiterBoundaries))
                    /\ se' = PushDelimiterBoundary(se, p)

CloseDelimiter == Close("delimiter") /\ se' = PopDelimiterBoundary(se)

OpenEntry == Open("entry", se.entryRuleScopeDepth) /\ se' = BeginEntryRuleScope(se)

CloseEntry == Close("entry") /\ se' = EndEntryRuleScope(se)

Next == \/ PushFrame \/ FailFrame \/ OpenEntry \/ CloseEntry \/ CloseDelimiter
        \/ \E commit \in BOOLEAN : PopFrame(commit)
        \/ \E err \in SyntaxError : Report(err) \/ ReplaceBest(err)
        \/ \E p \in Pos : OpenDelimiter(p)

Spec == Init /\ [][Next]_vars

-----------------------------------------------------------------------------
(* Properties. *)

(* The store and the caller's scopes have their types: frames, boundaries  *)
(* and errors are well formed and every index is a natural number.         *)
TypeOK ==
  /\ se \in [Errors : Seq(SyntaxError), stack : Seq(errorFrame), flight : Seq(SyntaxError),
            delimiterBoundaries : Seq(delimiterBoundary),
            entryRuleScopeDepth : Nat, entryRuleFlightBaseline : Nat]
  /\ scopes \in Seq([kind : ScopeKind, index : Nat, at : Nat])

(* The flat flight is partitioned by the frames: commitStartIndex never    *)
(* decreases towards the top of the stack, never passes the end of the     *)
(* flight (popFrame would slice out of range), and no speculative error is *)
(* left once no frame is open to claim it (syntax_errors.go:61-94).        *)
FramesPartitionFlight ==
  /\ \A i, j \in DOMAIN se.stack :
        i <= j => se.stack[i].commitStartIndex <= se.stack[j].commitStartIndex
  /\ \A i \in DOMAIN se.stack : se.stack[i].commitStartIndex <= Len(se.flight)
  /\ se.stack = <<>> => se.flight = <<>>

(* A rollback never cuts the flight below the point where a still open     *)
(* delimiter boundary or entry-rule scope began: the suppression tests     *)
(* compare with flightAtOpen and the baseline (syntax_errors.go:167-177,   *)
(* 200-202) and would miss errors if the buffer shrank under them and grew *)
(* again.                                                                  *)
BoundariesInsideFlight ==
  /\ \A i \in DOMAIN se.delimiterBoundaries :
        se.delimiterBoundaries[i].flightAtOpen <= Len(se.flight)
  /\ se.entryRuleScopeDepth > 0 => se.entryRuleFlightBaseline <= Len(se.flight)

-----------------------------------------------------------------------------
(* The inductive invariant behind the two: the scopes sc of the caller and *)
(* the entries of the store st correspond, in order.                       *)

Entries(st, kind) == CASE kind = "frame" -> Len(st.stack)
                       [] kind = "delimiter" -> Len(st.delimiterBoundaries)
                       [] kind = "entry" -> st.entryRuleScopeDepth

(* The length of the flight that the n-th entry of a kind remembers; of    *)
(* nested entry-rule scopes only the outermost has one.                    *)
Remembers(kind, n) == kind # "entry" \/ n = 1

StartOf(st, kind, n) == CASE kind = "frame" -> st.stack[n].commitStartIndex
                          [] kind = "delimiter" -> st.delimiterBoundaries[n].flightAtOpen
                          [] kind = "entry" -> st.entryRuleFlightBaseline

(* An open scope owns an entry that remembers how long the flight was when *)
(* the scope opened; the flight is no shorter now.                         *)
OwnsEntry(st, scope) ==
  /\ scope.index \in 1 .. Entries(st, scope.kind)
  /\ scope.at <= Len(st.flight)
  /\ Remembers(scope.kind, scope.index) => StartOf(st, scope.kind, scope.index) = scope.at

ScopesOwnEntries(st, sc) == \A i \in DOMAIN sc : OwnsEntry(st, sc[i])

ScopesAreOrdered(sc) ==
  \A i, j \in DOMAIN sc :
     i < j => /\ sc[i].at <= sc[j].at
              /\ sc[i].kind = sc[j].kind => sc[i].index < sc[j].index

EntriesHaveScopes(st, sc) ==
  \A kind \in ScopeKind : \A n \in 1 .. Entries(st, kind) :
     \E i \in DOMAIN sc : sc[i].kind = kind /\ sc[i].index = n

(* Without frames there is no flight, and the first frame began with none. *)
FlightHasOwner(st) == /\ st.stack = <<>> => st.flight = <<>>
                      /\ st.stack # <<>> => st.stack[1].commitStartIndex = 0

(* Hence no pop finds its stack empty and panics (syntax_errors.go:68,     *)
(* 160, 194), and no rollback reaches below the start of a scope that is   *)
(* still open.                                                             *)
ScopesOwnStore == /\ ScopesOwnEntries(se, scopes) /\ ScopesAreOrdered(scopes)
                  /\ EntriesHaveScopes(se, scopes) /\ FlightHasOwner(se)
=============================================================================
