# Syntaxa in TLA+

Syntaxa is a Go library for top-down parsers.  A grammar is a tree of rules,
each of which is a closure; the engine runs a closure inside an envelope that
makes it transactional, and resynchronises after syntax errors.  The product is
a lossless syntax tree (LST) and a list of diagnostics.  A parse is one
goroutine; what is hard is not concurrency but backtracking: every rule may
fail after it has consumed tokens, created nodes, committed diagnostics and
recovered from errors, and five separate stacks and buffers must then be cut
back to exactly where they were.

File names below are relative to `src/`.

## 1. Inventory

| Component | State | Operations | Used by |
|---|---|---|---|
| Diagnostic store, `syntax_errors.go` | published errors, stack of frames (best error, start index), flat flight buffer, delimiter boundaries, entry-scope depth and baseline | push/pop frame, report, replaceBest, delimiter and entry scopes, suppression tests | engine, factory |
| Engine, `parser.go` | parser (program rule, registry, EOF kind) | parseWithContext, syntaxaParserExecuteRule, handleFailureState, performRecovery, validateRuleSuccess | callers; rules through `ctx.ExecuteRule` |
| Rule context, `rule_context.go` | cursor, peek cache, skip stack, recovery stack in two flat buffers, results scratch | peek, consume, save, restore, push/pop recovery, ExecuteReference | engine, factory |
| Rules, `rule.go` | contract, recovery tokens, barrier flag | creation, WithRecoveryBarrier | factory |
| Factory, `rule/factory.go` | registry of labelled rules | about thirty constructors and their bodies | grammar authors |
| Pratt rules, `rule/pratt.go` | operator tables, resolved on the first parse | operators by position, precedence loop, grammar of the levels | grammar authors |
| Choice dispatch, guards, `choice_dispatch.go`, `lookahead_guard.go` | - | which arms to try | factory |
| LST editor, `ast_editor.go` | ledger of created nodes, free pool, root, nextID, frozen, treeDirty, inUse | create, truncate, attach, slot, replace, detach, spans, freeze | engine, factory, callers |
| LST queries, clone, line spans, `ast_node.go`, `lst_clone.go`, `lst_diagnostic_span.go` | the tree, line cache | walks, copies, ReplaceChildInTree | callers |
| Grammar IR and package, `grammar*.go` | grammar trees with a path per node, rules by label | construction, ProducePackage | lowering, tools |
| Lowering, `lowering/` | contexts, transitions, a queue of contexts to build | BuildStateGraph, GetAnalysis, ToPatternGrammar | editors; the analysis of Choice |
| Debuggers and statistics | - | printing, counters | callers |

Interaction: the factory builds closures; a closure calls `ctx.ExecuteRule`,
which is the engine's envelope around the next closure.  The envelope pushes a
recovery frame and an error frame, runs the closure, and commits, rolls back or
recovers.  A Reference looks its target up in the registry and runs the
target's closure without an envelope of its own.  Both write to the same
diagnostic store and the same editor.

Every constructor also builds a grammar tree.  ProducePackage gives the nodes
paths and collects the rules; the analysis of that package is what Choice
dispatches on, and BuildStateGraph turns the package into a pushdown graph by
which an editor colours a file without the parser.

What makes each part correct:

* store: a rollback removes exactly the diagnostics of the frame it closes; the
  lengths that boundaries remember never point past the buffer;
* engine: a failed speculation leaves no trace; the stacks follow the calls; a
  failed parse has a diagnostic; every parse ends;
* factory: the contracts it derives are kept; what is accepted without a
  diagnostic is what the grammar derives;
* editor: parent and child links agree; nothing reachable is in the pool; while
  `treeDirty` is off all spans are right;
* Pratt rules: the tree of an expression nests as the binding powers say;
* package and lowering: each node has its own path, a package is refused exactly
  when a label is double or dangling, and an editor that follows the graph reads
  the programs of the grammar and no others.

The hazards, each at its line, are in `PROJECT.json`.

## 2. Modules

```
ErrorStore            operators on a diagnostic store           (syntax_errors.go)
 |- SyntaxErrors      the store as a component, all nestings
 |   `- SyntaxErrorsRefinement  implements ErrorLog (abstract)
 |       |- SyntaxErrorsProofs      theorems
 |       `- MCSyntaxErrors
 `- ParserEngine      envelope, recovery, parseWithContext      (parser.go, rule_context.go)
     `- PrattRules    bodies of expression rules                (rule/pratt.go)
         `- RuleFactory   the other rule bodies, Spec, properties (rule/factory.go)
             |- RuleFactoryLemmas   inductive invariant, what bodies do to it
             |   `- RuleFactoryProofs   theorems
             |       `- PrattProofs     theorems about expressions
             `- GrammarLanguage     the language of a grammar (reference)
                 `- MCRuleFactory   with MCGrammars
RuleBuilder           constructors and derived contracts        (rule/factory.go, pratt.go, rule.go)
 `- GrammarIR         the grammar tree of each rule             (grammar.go, factory.go, pratt.go)
     |- GrammarTables     numbering, registry, Nullable/First/Follow (external analysis)
     |   `- MCGrammars    small grammars
     `- GrammarPackage    paths, rules, references, analysis    (grammar_package.go)
         `- StateGraph    BuildStateGraph and an editor         (lowering/)
             `- MCLowering    packages of the grammars
ContextBuffers        recovery flights, results scratch         (rule_context.go)
 |- implements ResultFrames (abstract)
 |- ContextBuffersProofs
 `- MCContextBuffers
TokenStream           peek cache, skip sets, snapshots          (rule_context.go)
 |- MCTokenStream
 `- TokenStreamProofs theorems
NodeStore             operators on an editor                    (ast_editor.go)
 `- LSTEditor         the editor as rules and callers use it
     |- LSTEditorLemmas   what each call does to heap, pool and ledger
     |   `- LSTEditorProofs   theorems
     `- MCLSTEditor
```

**ErrorStore / SyntaxErrors.**  The variable `se` is the Go struct, field by
field; an error is its position and whether the lexer produced it, which is all
that `betterError` looks at.  `scopes` stands for the Go call stack: a frame
per rule activation, and the deferred closes of delimiter and entry scopes.
Actions are the operations, enabled in the order in which such calls nest.
`FailFrame` is the commit, push, rollback that `handleFailureState` does in one
go.

**ErrorLog.**  What the store promises: nested transactions, each with a
candidate and the errors of its committed children; no shared buffer, no
indices.  The refinement maps the slice of the flight between one frame's start
index and the next one's to what that frame's children have handed over.

**ParserEngine / RuleFactory.**  `calls` is the Go stack of rule activations
and `control` says whether a body begins, continues, has a result to look at or
has returned to its envelope.  A body runs uninterrupted between calls, so each
action is one such segment.  `cursor`, `recovery`, `errs`, `created` are the
token index, the recovery stack (by contents), the store and `len(created)`.
The envelope's exits are separate actions: success, contract panic, rollback,
passing a failure up, recovery, failed recovery.  Byte offsets are
`Stride * index`, so that the places where the code compares an offset with an
index, or with the zero offset of the EOF lexeme, behave as in the program.
`Reference` runs its target in its own envelope.

**PrattRules.**  `runPrattExpression` calls itself without an envelope, so an
activation has a stack `runs`, a record per Go call with its minimum binding
power and the operator it is at work on.  Each operator of `PrattConfig` has a
position (prefix, postfix, infix, implicit) and is a token or a rule; the two
forms share an action per position where the code does the same with both.
The operators that the loop would take are `Operators`, and `Taken` is the first
in the code's order.  `nodes` records the tree that is built, as the cursors
that delimit operands and operator.  Three properties are stated of it:
`ExpressionsAreTrees`, `LeftOperandsBindTighter` and `RightOperandsBindTighter`.
The last two speak of operators at the edge of an operand, because an operator
inside of it may bind as loosely as it likes: where a prefix minus is looser than
`=`, `x + - a = b` is `x + (-(a = b))` however tight the `+` is.

**RuleBuilder / GrammarTables / MCGrammars.**  Grammars are written with the
factory's constructors; contracts, recovery sets, barriers and registration
are derived as in the code, including what wrappers lose.  The analysis comes
from an external library and is modelled as textbook fixpoints.

**GrammarIR / GrammarPackage.**  Nodes are records; equal records are one node,
as shared pointers are one node in the code.  A package numbers them.  Paths are
kept in the nodes as in the code.  Merged recovery sets and token sets, which
only printers and generators read, are left out.

**StateGraph.**  `contexts` and `queue` are those of `BuildStateGraph`, one
action for the root, one for each pending entry and one for the end.  A terminal
carries its remaining sequence, its frames and its guard, as in `gTerminal`.
Keys are compared and not hashed, contexts are numbers and not labels.
Afterwards an editor reads any word: the editor is external, and `Read` does
what the fields of a transition tell it to (pop, push, check the guard of a
fork).  It keeps every configuration the graph allows, so no token order is
missed.

**ContextBuffers / ResultFrames.**  The two recovery flights and the results
scratch of a rule context.  A Go slice is an array of `heap` with a length, so
that the old array and its replacement are different things.  ResultFrames is
what the rules rely on: a frame is private, and nothing a callee does changes
it.  `EnterSequence` is the envelope's push and the acquisition the body begins
with; `LeaveRule` the deferred release and pop.

**GrammarLanguage.**  `Spans`, the least set of (rule, from, to) derivations,
is the reference against which acceptance is judged.  It knows nothing of
order, backtracking or recovery.  The language of an expression is that of its
chain of levels.

**NodeStore / LSTEditor.**  The heap is a sequence and a pointer an index; the
fields of a node are those that links and spans depend on.  `rules` are the
open activations with the ledger length each began at (`startLSTNodeCreationIdx`);
an activation may touch what was created since, which is what rule bodies can
reach.  The caller may go on editing when the parser does not freeze.
`Careful` excludes cycles and edits after Freeze.  `AttachFragment` gives the
result of the code's loop, which detaches and attaches the children one by one.
`NodesAreKept` is the inductive invariant of the proofs, which the run checks
too.

**TokenStream.**  The stream below the engine, with what ParserEngine leaves
out: the cached index of the next visible lexeme, the stack of skip sets, and
the lexer session.  `rules` are the open activations with their snapshots
(position, cache, and the depth of the skip stack, which the code does not
save).  A rule may peek, consume, push and pop sets in any order, under one
discipline that the API asks of rule authors: it pops what it pushed, and no
more, before it returns.  The session belongs to the library lexarch; from the
way `resolveLexeme` and `lastLexingError` use it, each call either gives a
lexeme or an error, an error is that of the latest call, and the source goes no
further than the first place that does not lex.  `cursor` counts the lexemes
consumed; the session's own numbering, which also counts the EOFs consumed, is
left out.

## 3. Runs

| Run | Question | Bounds |
|---|---|---|
| `syntax_errors` | Is the flat store a nested-transaction log in every nesting? | 2 positions, 4 open scopes, 3 live errors: enough for a rollback below a boundary below a frame with errors on either side |
| `rule_factory` | Do engine and factory keep the stacks, undo speculation, keep contracts and accept exactly the grammar's language? | 23 grammars, all inputs up to 5 lexemes over each grammar's tokens, one skipped token kind |
| `termination` | Does every parse end? | the grammars that loop or recurse, inputs up to 5 |
| `context_buffers` | Do shared arrays that grow, are replaced and cleared behave as private frames? | 3 nested rules, up to 2 children each, 2 results, 2 recovery sets: enough for an array that is replaced twice while an outer sequence still writes to the first |
| `lowering` | Is each package accepted or refused rightly, and does its graph read the grammar's language? | 17 packages, words up to 5 tokens: enough to enter a nest, recur in it, leave it and go on |
| `token_stream` | Is a cached peek what the source and the current skip set say, after any rollback? | 2 roles, every input up to 3 lexemes with or without an error at its end, every default skip set, 3 skip sets, 3 nested rules: enough for a rollback past two pushes |
| `lst_editor` | Do links, pool, ids and spans survive edits, rollbacks, sessions, and can what a rule built be cut off at any time? | 3 nodes (two in the ledger per session and a fragment, or one kept from an earlier session), 2 lexemes, 2 nested activations, 1 slot, a pool that grows by 1 |

The grammars cover every constructor, every position and form of operator, both
dispatch modes of Choice, guards at an offset, recursion through the registry
(also before definition), barriers that heal, insertion, all trailing-separator
modes, a contract that its author over-claims (`overclaimed`) and the contracts that
the factory itself does not derive from the parts (`overpromised`: Expression
promises that it consumes and OptionalSuffix a node, whatever the rule inside
promises, so the engine panics over them).  Every action fires.  Five lexemes are enough for an
error, a recovery to a sync token, and a second error or a success behind it.

Deadlock is checked except for the editor of trees, which is at rest when it is
not used any more, and for the lowering, which ends when the word has its
greatest length or the package was refused.  In the engine a finished or
panicked parse stutters (`Stopped`).

Fairness: `FairSpec` is weak fairness of the whole next-state relation.  The
parser is a single goroutine that never blocks, so it takes its next step.

Five runs refute a sentence of the documentation; each is a finding.

| Run | What happens |
|---|---|
| `doc_lexing_error_is_reported` | the error is asked for before the last peek, so text that does not lex behind a complete program is taken for the end of the input |
| `doc_sync_point_is_found` | recovery's second phase starts at the end of the input, so no-consume sync tokens are passed over |
| `doc_root_is_live` | the node of a failed Root is already in the pool when the caller gets it |
| `doc_choice_tries_its_arms` | an arm that is a reference gets the first guard found anywhere below its target, and is skipped although it matches |
| `doc_guards_only_disambiguate` | a fork keeps the guard of the construct behind the token, so an editor refuses `a - a` where `a` may be followed by a guarded choice |

More sentences that the code does not keep were met on the way.  Their
configurations lie beside the runs, for the same MC modules, and TLC finds each
of them violated:

| Configuration | Sentence | What happens |
|---|---|---|
| `DocSequenceCommits` | factory.go:922, a sequence is committed once a rule succeeded | at the end of the input the EOF offset 0 equals the start marker and the sequence reports a mismatch |
| `DocRecoversOnce` | parser.go:415, recovery is not performed again | each enclosing envelope recovers again behind a consumed sync token |
| `DocFrozenIsImmutable` | ast_editor.go:14, a frozen tree is immutable | `Freeze` calls `end`, which clears `frozen` |
| `DocCyclesAreRefused` | ast_editor.go:11, topology changes are invariant-checked | `SetSlot` accepts a node as its own slot |
| `DocLeftAssociative` | README.md:74, left-associative operators have `RightBP < LeftBP` | with `leftBP >= minBP` the loop takes the same operator again for the right operand when the right power is the smaller one, so such an operator associates to the right |
| `DocEndsAreMarked` | state_graph.go:60, contexts that may end are marked | nullability is not part of the key of a context |
| `DocRecoveryCoversNests` | state_graph.go:118, the recovery sets of all enclosing frames | the content of a nest is keyed by label and keeps the boundaries of its first place |

Other behaviour worth knowing that the model has because the code has it:
children of a probed rule run in normal mode and recover; `Repeat` ends at the
first recovered error although its comment asks for another attempt; a nest
whose body stopped at its closing delimiter returns without consuming it; a
repetition of a rule that succeeds on nothing does not end.  An operator whose
operand is missing gives up the whole expression.  Where a prefix or postfix
operator is looser than an infix one, the levels of the grammar and the loop
accept different inputs.  The graph ignores the maximum of a repetition and
counts above one, which is why `FollowedIsDerivable` compares with a loose
match.  BuildStateGraph does not end on rules that recur without a nest.

## 4. Proofs

`SyntaxErrorsProofs` proves, for every set of positions and every bound:

* `TypeCorrect`: `Spec => []TypeOK`;
* `ScopesOwned`: `Spec => []ScopesOwnStore`;
* `FlightPartitioned`: `Spec => []FramesPartitionFlight`;
* `BoundariesKept`: `Spec => []BoundariesInsideFlight`.

The only assumption on constants is `Pos \subseteq Nat`.  Neither of the last
two is inductive: a rollback cuts the flight to the start index of the top
frame, and nothing in the store alone says that a delimiter boundary or an
entry scope that is still open began earlier.  That knowledge is in the order
of the calls.  The inductive invariant `Inv` is therefore
`TypeOK /\ ScopesOwnStore`: the open scopes and the entries of the three stacks
correspond one to one and in order, each entry remembers the length the flight
had when its scope was opened, these lengths do not decrease from the outside
in, and the flight is at least as long as each of them.  Closing the innermost
scope then cuts at a length that no other open scope exceeds.  `OpenPreserves`,
`ClosePreserves` and `PopPreserves` say this for any store; each action has one
lemma on top of them.

The module also proves `LogImplemented`: `Spec => RefinesErrorLog`, from the
same assumption.  It rests on `Inv`, of which it
needs that the frames' start indices partition the flight (`InvPartitions`):
a frame's part ends where the next one's begins.  Operation by operation, the
lemmas say what happens to the parts: `PushBegins` adds an empty one,
`RollbackAborts` drops the last and leaves the others as they are,
`CommitHandsOver` appends the last part and its candidate to the part before,
because the cut and the copy leave one contiguous part, and `CommitPublishes`
publishes it when there is no other.  Each action of the store then maps to one
action of ErrorLog or to a stutter; a commit of a frame without a best error
and without errors below is a commit of an empty transaction.

`LSTEditorProofs` proves, for every set of slots and lexemes, every growth of
the pool and every bound:

* `TypeCorrect`: `Spec => []TypeOK`;
* `NodesKept`: `Spec => []NodesAreKept`;
* `LinksAlwaysAgree`: `Spec => []LinksAgree`;
* `PoolAlwaysDisjoint`: `Spec => []PoolIsDisjoint`;
* `RollbackAlwaysLocal`: `Spec => []RollbackIsLocal`;
* `IdsAlwaysUnique`: `Careful` implies `Spec => []IdsAreUnique`;
* `SpansAlwaysReconciled`: `Spec => []SpansReconciled`.

It assumes that the pool grows by at least one node, that lexemes have
offsets which are numbers, and that a source has an end.  Only `IdsAlwaysUnique`
assumes that callers are careful: the code gives out ids again when a caller
creates nodes after Freeze.  The others do not ask callers to avoid cycles.
The stated properties are not inductive, because they speak of what can be
reached from the ledger, and a node that is detached and rolled back, or a
fragment between two rules, is for a while reached by other ways.  The inductive
invariant (`Sound`, for some set X of nodes) names the nodes in play instead: X
holds the ledger and all fragments, has no node of the pool and is closed under
links; inside X a node is below p exactly if its parent is p, and at one place;
fragments have no slots, are not in the ledger and belong to one activation; and
no link of X joins what an activation would give up with what would stay.  The
last part is what makes a rollback sound: the nodes that `TruncateCreated`
resets are cut out of X as a whole, so no pointer to them is left.  It is kept
because an edit links only what the innermost activation owns, which all
activations around it own as well, and because a fragment's children are owned
by whoever owns the fragment.  `LSTEditorLemmas` says what each call of the
editor does to such a set (`AttachEdits`, `DetachEdits`, `SetSlotEdits`,
`ReplaceEdits`, `FragmentEdits`, `NewNodeCreates`, `TruncateTruncates`), and
that spans and lexemes change no link (`SpannedIsHeap`: a recursion over the
heap that keeps every link, by induction on the recursive function).  Then each
action has one lemma.

Spans need more.  `ensureSpanValid` walks the tree below the root, and
`SpansReconciled` says of every node of that tree that its span is the hull of
all lexemes at or below it, whenever `treeDirty` is off.  `TreeCloses` shows by
counting that as many steps as there are nodes reach the whole tree: as long as
a step adds a node, there are more nodes than steps.  (Where a careless caller
has closed a cycle the code does not return from this walk; the model's pass is
bounded by the number of nodes, and the theorem says nothing of the code there.)
`SpannedFits` is the induction over the recursion of `ensureSpanValid`: after d
rounds the span of a node is the hull of the lexemes at most d links below it
(`MergedFits` is one round at one node), so a forced pass leaves the promise
kept (`ForcedReconciles`).  A pass that is not forced visits only what is not
valid, and while the promise holds, what is not valid covers no lexeme and has
no valid node below it, so the pass changes nothing (`ReconciledStays`). The
invariant `Settled` says when there is a root at all: only between the end of a
parse and Freeze, with no rule open; the root is in the ledger or, after a parse
that failed, a node that `TruncateCreated` has just reset and put into the pool;
and the promise holds unless the tree is dirty.  Every edit sets `treeDirty`.
Creating a node does not, and leaves the tree alone because a new node is not in
it.

`TokenStreamProofs` proves, for every set of roles and every bound:

* `CacheExact`: `Spec => []CacheIsExact`;
* `SnapshotsExact`: `Spec => []SnapshotsAreExact`;
* `TypeCorrect`: `Spec => []TypeOK`, which says that the stream stays inside
  its input.

It assumes that `MaxInput` is a number.  `CacheIsExact` alone is not inductive:
a failing rule brings back a cache from an earlier time, when another skip set
may have been on top.  The inductive invariant adds `SnapshotsAreExact`: each
snapshot's cache is exact for the depth of the skip stack at which it was
taken, that part of the stack is still there, and depths do not decrease from
the outside in, so that what the innermost rule may pop leaves the sets of all
outer snapshots alone.  `NextVisibleInside` shows that the search for a visible
lexeme has an end (the least element of a set of numbers) and where it lies.

`ContextBuffersProofs` proves, for every set of results and of recoveries and
for every bound:

* `TypeCorrect`: `Spec => []TypeOK`;
* `NothingRetained`: `Spec => []NothingIsRetained`;
* `FramesImplemented`: `Spec => ImplementsFrames`, the refinement.

It assumes that the bounds are numbers, that the zero result is not one of
`Results` and that recoveries are made of two sequences of tokens and a flag.
The inductive invariant `Inv` has three parts.  `ScratchInv`: every slice lies
in its array, below the length of the scratch, starts at its mark and ends
before every later mark, although the two slices may be in different arrays; so
a result stored in the innermost slice, and the clearing of everything behind
the last mark, miss all other slices.  `RecoveryInv`: the same of the frames in
the two flights; so cutting a flight at the start of the top frame keeps the
tokens of the frames below.  `BuffersMatchRules`: a sequence has one slice, and
a rule in Normal mode one frame, more than its caller; so what a rule releases
is its own.  For the last part each entry of `rules` records the lengths of
`slices` and `stack` at its entry, which no action reads.  `AcquireKeeps`,
`StoreKeeps`, `ReleaseKeeps`, `PushKeeps` and `PopKeeps` say what each operation
preserves, and the refinement follows from them.

`RuleFactoryProofs` proves, for every set of parsers, every input and any depth
of calls:

* `TypeCorrect`: `Spec => []TypeOK`;
* `StacksAlwaysMatch`: `Spec => []StacksMatchCalls`;
* `DiagnosticsKept`: `Spec => []CallersKeepTheirDiagnostics`;
* `BacktrackingTraceless`: `Spec => BacktrackingLeavesNoTrace`;
* `FailuresDiagnosed`: `Spec => []FailureIsDiagnosed`;
* `ContractsHold`: `Spec => []ContractsAreKept`.

It assumes `EngineAssumption` (a parser's program is one of its rules, the EOF
kind is not in the input) and `RulesAssumption`: a rule is built of rules of the
same parser; a rule that runs its first child has one (factory.go:295 and 932
ask this of sequences, the signatures of the others give it); an operator's rule
is a child of its expression; and what a reference names is registered
(`ExecuteReference` panics otherwise, rule_context.go:854).  The analysis and
the recovery sets are assumed to be nothing in particular, so the theorems also
hold of parsers whose analysis is wrong.  Contracts and barriers matter to
`ContractsHold` only, which needs `ContractsAssumption`: a rule promises what its
constructor derives from the promises of its parts (`DerivedContract`), and only
nests, and sequences without no-consume tokens, are barriers.
`ConstructorsDerive` proves that each constructor of RuleBuilder does so.  Rules
made with `ParserRuleCreate` directly, or changed afterwards with
`WithRecoveryBarrier` or `ParserRuleApplyRecoverySpec`, are not covered: a
RecoverSyncBoundary marked as a barrier heals at a token that it leaves in the
stream.  The engine itself changes only the registry's copies, whose recovery
sets enter the frames of references.

None of these is inductive.  That a rollback restores the store depends on
everything that happened between entry and failure: nested frames, recoveries
with frames of their own, entry scopes of the program rule called again,
boundaries of nests that were left by an error.  The inductive invariant `IInv`
(RuleFactoryLemmas) relates the store at hand with the stores that activations
have found, which each records in `before`.  `Shape`: starts and node counts do
not decrease from the outside in, and a body without an envelope is a
reference's.  `Stores`: each activation's `before` is intact (`Keeps`) in the
store of today and in every later `before`: same published errors, same frames
below its own, same flight up to where its own frame began; and the store that
an activation sees differs from its `before` by one frame, by one entry scope if
it runs the program rule, and by one boundary if it is inside a nest (`Level`).
The last part is what `StacksMatchCalls` counts, and it makes the pops of an exit
meet their own pushes.  `Keeps` is carried by the start index of the frame: a
commit or rollback of a frame cuts the flight there, and no frame below began
later.

The proof has two halves.  `BodyStepMoves` shows that each of the forty segments
of rule bodies, and each of the expressions', is one of four moves: it calls a
rule, goes on, returns, or hands over to a reference's target (or it panics);
its only effect on the store is a report into the top frame (`Remarked`), unless
a nest opens or closes its boundary.  The moves are then a push, a change of the
top or a pop of `calls`, and `PushLands`, `RemarkedLands`, `OpenedLands`,
`ClosedLands` and `PopLands` show that each lands in the invariant;
`CommitCloses`, `RollbackCloses` and `RecoveryCloses` do so for the three ways
in which an envelope closes its frame.

`FailuresDiagnosed` needs a second invariant, `Said`, on top of `IInv`: a result
that fails with FailureError comes with an error in the store, both when a body
returns it and when its caller hears it (`Spoken`, `Heard`), and the result of
the program with a published one (`Published`).  Three facts carry it.  Only an
Optional calls as a probe (`Asked`), so that an error that a rollback drops was
asked for by a rule that never fails.  Prefixed and Nest note where their child
began, so that a child's mismatch at that place stays a mismatch and no error
arises without a report.  A commit hands the errors of a frame to the frame
below, and the last commit publishes them (`CommitSpeaks`, `CommitPublishes`).
`BodyVoiced` goes through the segments of the bodies once more, and `Owed` says
what each way out of an envelope owes its caller.

`ContractsHold` says that validateRuleSuccess (parser.go:542) panics over no
contract that was derived.  The third invariant, `Kept`, is about what an
activation has done so far.  `Moved`: it has consumed a token, or only trivia
was in front of it, in which case validateRuleSuccess sees the EOF kind and asks
for nothing (`EndIsBehindTrivia`).  `Progress`: which of the promised things have
happened when the body is at work again; a sequence has moved if a child before
the next one must consume, a repetition if it has counted one, an expression if
it has a left operand.  `HeardKid`: a child that succeeds has kept its own
promise, so that what the caller gets is as good as the caller's own start.
`Done`: a body that returns success has done what the rule promises, or the rule
promises more than its parts (`Overpromises`).  Two parts are about recovery,
which can turn a failure into a success: a nest that fails with an error has
moved already, and a sequence that heals, heals at a token of its own frame
(`Framed`: the frame that a rule finds on top of the recovery stack is its own),
which is not left for an ancestor and is consumed.  `Linked` ties each
activation to the one that called it, and a reference to the target that answers
for it.  `BodySteady` goes through the bodies, `KeptLeave` through the exits.

An earlier form of the property claimed that only Root panics.  The attempt to
prove it failed at OptionalSuffix and Expression for a good reason, the grammar
`overpromised` shows the panics, and the property now names these rules.

`PrattProofs` proves, for every set of parsers, with operators in every position,
by token and by rule, and any binding powers, every input and any depth of
calls:

* `ExpressionsGrowTrees`: `Spec => []ExpressionsAreTrees`;
* `LeftOperandsBind`: `Spec => []LeftOperandsBindTighter`;
* `RightOperandsBind`: `Spec => []RightOperandsBindTighter`.

It needs `RulesAssumption`, of which it uses that binding powers are integers
and that 0, the mark of a primary, is no operator, and `ContractsAssumption` for
`Kept`.  The properties speak of what an expression returns, so none is
inductive.  The invariant `Grows` says what an expression is while it is being
parsed (`Grown`, about lexemes, nodes and runs alone, and `Standing`, which adds
what the run on top is at): the runs below the one on top each hold an operator
that waits for its right operand; each run begins where the operator below it
ends, and its minimum is that operator's right binding power (`Chained`); the finished nodes
and the pending operators own different lexemes (`Disjoint`, `Clear`) and
together all that was consumed (`Covered`); every operator that takes a left
operand has a node there, and was among the operators that could follow it
(`Fits`).  Three facts carry the binding powers.  When a run ends, none of the
operators that could follow reaches its minimum, and this is kept with the node
that the run completes (`Finished`): whatever later takes that node as the right
edge of a left operand is one of those operators.  A pending operator reaches
its run's minimum (`Pending`).  And whatever begins where a pending run begins
reaches that run's minimum (`Nested`); this is only claimed while every operator
and primary has consumed (`Solids`), because otherwise two things that begin at
the same lexeme need not be inside one another.  An expression may be deep
inside of another one or of itself, through primaries and operators that are
rules.  `Awaited` therefore says of each expression on the stack of calls that
it waits where the rule it called began, and what it has built is left alone by
everything above it.  The pure lemmas `Push`, `Leaf` and `Close` are the three
things that can happen to `Grown`: an operator is taken, an operand ends in a
node of its own, and the operand of a pending operator ends.  `PrattFlows` shows
that each segment of the bodies is one of them, `GrowsBody` and `GrowsEngine`
that calls, returns, rollbacks and recoveries leave the waiting ones as they
were.  A failure needs no case of its own: the whole activation is given up.

An earlier form of `RightOperandsBindTighter` had no condition on what operators
and primaries consume, and held on the small grammars.  The attempt to prove it
showed that it needs one: a primary that matches nothing leaves two nodes that
begin at the same lexeme, of which neither is an operand of the other.

Only model-checked: everything stated against a grammar's language, of the
engine and of the graph, and all properties of package and lowering (their
definitions are recursive, which the prover does not handle); and liveness.

## 5. Not modelled

Texts of diagnostics, traces, statistics, debug printers; node post-processors
(user callbacks); line and column computation; the read-only walks over trees
and grammars; merged recovery sets and token sets of a package; names, hashes
and node kinds of contexts; the pushdown engines of the contexta library
(`lowering/pda.go`); changes of the lexer state, whose effect on lexemes ahead
is up to the lexarch library; the clone operations, which callers use on trees
that no session owns.

## 6. Plan

Done: store with abstraction, proofs and proof of the refinement; engine with
factory and expressions, with proofs of both; editor with proofs; token stream with
proofs; context buffers with abstraction and proofs; package and lowering.

1. Merged recovery sets; line spans with the editor's line cache.
