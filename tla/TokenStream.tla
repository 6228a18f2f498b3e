---------------------------- MODULE TokenStream -----------------------------
(***************************************************************************)
(* The token stream of a rule context (rule_context.go) with its cache of  *)
(* the next visible lexeme, over a slice or over a lexer session.  Rules   *)
(* peek, consume, change the set of skipped roles, call other rules and    *)
(* fail; a snapshot carries the position and the cache, and not the skip   *)
(* stack.  A lexeme is its role, the only thing the stream looks at.       *)
(*                                                                         *)
(* A session that cannot lex its source at some point gives an error there *)
(* and goes no further; the parser is shown EOF (resolveLexeme).           *)
(***************************************************************************)
EXTENDS Integers, Sequences

CONSTANTS Roles,      \* lexeme roles
          EOF, Bad,   \* the end of the input; a place that does not lex
          MaxInput,   \* bound: lexemes in an input
          MaxSkips,   \* bound: skip sets pushed
          MaxRules    \* bound: nested activations

ASSUME StreamAssumption == MaxInput \in Nat /\ EOF \notin Roles /\ Bad \notin Roles

VARIABLES input,      \* Bad, if at all, comes last
          cursor,     \* lexemes consumed
          cache,      \* nextVisibleRawIndex and nextVisibleCached
          skips,      \* skipCore.stack, innermost last
          rules,      \* open activations with their snapshots, innermost last
          failing,    \* out.LexingError # nil after the last call of the session
          verdict     \* of parseWithContext

vars == <<input, cursor, cache, skips, rules, failing, verdict>>

-----------------------------------------------------------------------------
(* The raw source. *)

Raw(i) == IF i < Len(input) /\ input[i + 1] \in Roles THEN input[i + 1] ELSE EOF

Fails(i) == i < Len(input) /\ input[i + 1] = Bad

(* Mutant: the end of the input does not stop it. *)
consumeRawAnyway(i) == i + 1

consumeRaw(i) == IF Raw(i) = EOF THEN i ELSE i + 1

-----------------------------------------------------------------------------
(* tokenStream. *)

invalidated == [index |-> 0, cached |-> FALSE]

(* What the innermost of the first n skip sets skips. *)
SkippedAt(n) == IF n = 0 THEN {} ELSE skips[n]

IsVisible(i, skipped) == Raw(i) = EOF \/ Raw(i) \notin skipped

(* resolveNextVisibleRaw: how far ahead of `from` the next visible one is. *)
NextVisible(from, skipped) ==
  CHOOSE k \in 0 .. Len(input) : /\ IsVisible(from + k, skipped)
                                 /\ \A j \in 0 .. k - 1 : ~IsVisible(from + j, skipped)

resolveNextVisibleRaw == NextVisible(cursor, SkippedAt(Len(skips)))

(* The cache after Peek, from a position with a cache. *)
ResolvedFrom(from, c) ==
  IF c.cached THEN c
  ELSE [index |-> NextVisible(from, SkippedAt(Len(skips))), cached |-> TRUE]

Resolved == ResolvedFrom(cursor, cache)

(* Where skipForward stops. *)
skipForward == cursor + resolveNextVisibleRaw

Parsing == verdict = "parsing" /\ rules # <<>>

(* The raw lexemes that a peek can reach. *)
Ahead == {i \in cursor .. Len(input) : \A j \in cursor .. i - 1 : Raw(j) # EOF}

(* Peek(n), for some n: it fills the cache and ends at a visible lexeme.   *)
Peek == /\ Parsing
        /\ cache' = Resolved
        /\ \E i \in Ahead : /\ i >= cursor + Resolved.index
                            /\ IsVisible(i, SkippedAt(Len(skips)))
                            /\ failing' = Fails(i)
        /\ UNCHANGED <<input, cursor, skips, rules, verdict>>

PeekRaw == /\ Parsing
           /\ \E i \in Ahead : failing' = Fails(i)
           /\ UNCHANGED <<input, cursor, cache, skips, rules, verdict>>

ConsumeAt(i) == /\ Parsing
                /\ cursor' = consumeRaw(i) /\ cache' = invalidated /\ failing' = Fails(i)
                /\ UNCHANGED <<input, skips, rules, verdict>>

Consume == ConsumeAt(skipForward)

ConsumeRaw == ConsumeAt(cursor)

-----------------------------------------------------------------------------
(* skipCore.  A rule pops the sets that it pushed, and no others, before it *)
(* returns, as a deferred PopSkipRoles does.                               *)

Innermost == rules[Len(rules)]

PushSkipRoles(roles) ==
  /\ Parsing /\ Len(skips) < MaxSkips
  /\ skips' = Append(skips, roles) /\ cache' = invalidated
  /\ UNCHANGED <<input, cursor, rules, failing, verdict>>

PopSkipRoles ==
  /\ Parsing /\ Len(skips) > Innermost.depth
  /\ skips' = SubSeq(skips, 1, Len(skips) - 1) /\ cache' = invalidated
  /\ UNCHANGED <<input, cursor, rules, failing, verdict>>

-----------------------------------------------------------------------------
(* syntaxaParserExecuteRule: save, then Peek(0) and PeekRaw(0). *)

(* Mutant: the saved index is taken for valid. *)
ParserSnapshotCached == [cursor |-> cursor, cache |-> [cache EXCEPT !.cached = TRUE],
                         depth |-> Len(skips)]

ParserSnapshot == [cursor |-> cursor, cache |-> cache, depth |-> Len(skips)]

EnterRule == /\ verdict = "parsing" /\ Len(rules) < MaxRules
             /\ rules' = Append(rules, ParserSnapshot)
             /\ cache' = Resolved /\ failing' = Fails(cursor)
             /\ UNCHANGED <<input, cursor, skips, verdict>>

Returning == Parsing /\ Len(skips) = Innermost.depth

(* The program has succeeded when the outermost rule has.  parseWithContext*)
(* asks for a lexing error, and then peeks for left-over input.  "accepted"*)
(* is success as far as the stream is concerned: other diagnostics, which  *)
(* also make a parse fail, are in ParserEngine.                            *)
RuleSucceeds ==
  /\ Returning
  /\ rules' = SubSeq(rules, 1, Len(rules) - 1)
  /\ \/ Len(rules) > 1 /\ UNCHANGED <<cache, failing, verdict>>
     \/ /\ Len(rules) = 1
        /\ cache' = Resolved /\ failing' = Fails(cursor + Resolved.index)
        /\ verdict' = IF failing \/ Raw(cursor + Resolved.index) # EOF
                        THEN "rejected" ELSE "accepted"
  /\ UNCHANGED <<input, cursor, skips>>

(* A failure that keeps its position: one that its rule recovered from (the*)
(* recovery being Peek and Consume), or one that is handed up.             *)
RuleFailsAhead ==
  /\ Returning
  /\ rules' = SubSeq(rules, 1, Len(rules) - 1)
  /\ verdict' = IF Len(rules) = 1 THEN "rejected" ELSE verdict
  /\ UNCHANGED <<input, cursor, cache, skips, failing>>

(* Mutant: restore forgets the cache. *)
restoreCursorOnly(snapshot) == cursor' = snapshot.cursor /\ cache' = cache

restore(snapshot) == cursor' = snapshot.cursor /\ cache' = snapshot.cache

RuleFails ==
  /\ Returning /\ restore(Innermost)
  /\ rules' = SubSeq(rules, 1, Len(rules) - 1)
  /\ verdict' = IF Len(rules) = 1 THEN "rejected" ELSE verdict
  /\ UNCHANGED <<input, skips, failing>>

(* The program does not match; parseWithContext peeks to say so. *)
ProgramMismatches ==
  /\ Returning /\ Len(rules) = 1
  /\ LET found == ResolvedFrom(Innermost.cursor, Innermost.cache)
     IN restore([Innermost EXCEPT !.cache = found])
        /\ failing' = Fails(Innermost.cursor + found.index)
  /\ rules' = <<>> /\ verdict' = "rejected"
  /\ UNCHANGED <<input, skips>>

Stopped == verdict # "parsing" /\ UNCHANGED vars

Texts(n) == UNION {[1 .. k -> Roles] : k \in 0 .. n}

Init == /\ input \in Texts(MaxInput) \cup {Append(s, Bad) : s \in Texts(MaxInput - 1)}
        /\ cursor = 0 /\ cache = invalidated /\ rules = <<>>
        /\ skips \in {<<>>} \cup {<<defaults>> : defaults \in SUBSET Roles}
        /\ failing = FALSE /\ verdict = "parsing"

Next == \/ Peek \/ PeekRaw \/ Consume \/ ConsumeRaw \/ PopSkipRoles
        \/ EnterRule \/ RuleSucceeds \/ RuleFails \/ RuleFailsAhead
        \/ ProgramMismatches \/ Stopped
        \/ \E roles \in SUBSET Roles : PushSkipRoles(roles)

Spec == Init /\ [][Next]_vars

-----------------------------------------------------------------------------
(* Properties. *)

Cache == [index : Nat, cached : BOOLEAN]

(* The stream has its type. *)
TypeOK ==
  /\ input \in Seq(Roles \cup {Bad}) /\ cursor \in 0 .. Len(input) /\ cache \in Cache
  /\ skips \in Seq(SUBSET Roles)
  /\ rules \in Seq([cursor : 0 .. Len(input), cache : Cache, depth : Nat])
  /\ failing \in BOOLEAN /\ verdict \in {"parsing", "accepted", "rejected"}

Exact(c, from, depth) == c.cached => c.index = NextVisible(from, SkippedAt(depth))

(* A cached index is where a fresh search would end: Peek and the slower   *)
(* resolveNextVisibleRaw agree after any mix of consumption, changes of    *)
(* the skip set and nested rollbacks, although snapshots bring back caches *)
(* from before (rule_context.go:27-98, 811-821).                           *)
CacheIsExact == Exact(cache, cursor, Len(skips))

(* The reason: a snapshot's cache is exact for the skip sets that were     *)
(* pushed when it was taken, and these are still there when it is used.    *)
SnapshotsAreExact ==
  /\ \A i \in DOMAIN rules : /\ rules[i].depth <= Len(skips)
                             /\ Exact(rules[i].cache, rules[i].cursor, rules[i].depth)
  /\ \A i, j \in DOMAIN rules : i <= j => rules[i].depth <= rules[j].depth

(* rule_context.go:676-677: on a lexer error the parser is presented EOF,  *)
(* "The concrete error is still available via ctx.lastLexingError()."  A   *)
(* parse is not accepted when it stopped where the source does not lex.    *)
LexingErrorIsReported == verdict = "accepted" => ~Fails(Len(input) - 1)
=============================================================================
