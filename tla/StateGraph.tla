----------------------------- MODULE StateGraph -----------------------------
(***************************************************************************)
(* BuildStateGraph (lowering): a grammar package becomes a pushdown graph  *)
(* of contexts for editors, which push, replace and pop contexts as they   *)
(* read tokens.                                                            *)
(*                                                                         *)
(* A context stands for a list of terminals, the tokens that may come      *)
(* next.  A terminal carries what the grammar still has to match: the      *)
(* `remaining` items of its own sequence, and a stack of frames, innermost *)
(* first, each with what remains in it.  An item is a node of the grammar  *)
(* or the close token of a nest.  Contexts are found again by their keys;  *)
(* keys are compared, not hashed, and a context is named by its number and *)
(* not by its label.                                                       *)
(*                                                                         *)
(* The editor that runs the graph is not part of the repository: Read is   *)
(* what the fields of Context, ContextMeta and Transition tell it to do.   *)
(* The RECURSIVE operators of this module are evaluated by TLC only.       *)
(***************************************************************************)
EXTENDS GrammarPackage

CONSTANT MaxWord   \* bound: tokens that an editor reads

VARIABLES contexts,   \* the contexts with their transitions, in order of creation
          queue,      \* contexts whose transitions have still to be built
          word,       \* the tokens that the editor has read
          configs     \* the editor states that may be reached with them

graphVars == <<contexts, queue>>

editorVars == <<word, configs>>

vars == <<packageVars, graphVars, editorVars>>

-----------------------------------------------------------------------------
(* Items and terminals. *)

Item(g) == [node |-> g, close |-> ""]

Close(token) == [node |-> 0, close |-> token]

Items(gs) == [i \in DOMAIN gs |-> Item(gs[i])]

IsNullable(item) == item.node \in nullable

Terminal(token, kind, nest) ==
  [token |-> token, nodeKind |-> kind, nest |-> nest, remaining |-> <<>>, stack |-> <<>>,
   popOffset |-> 0, choiceGuard |-> {}]

Frame(repeat, label, g) ==
  [repeat |-> repeat, label |-> label, remaining |-> <<>>,
   recovery |-> node[g].RecoveryTokens \cup node[g].NoConsumeOnRecoveryTokens]

Each(f(_), ts) == [i \in DOMAIN ts |-> f(ts[i])]

(* What follows an item, behind all that its terminals still have to match. *)
Followed(t, items) ==
  IF t.stack = <<>> THEN [t EXCEPT !.remaining = @ \o items]
  ELSE [t EXCEPT !.stack[Len(t.stack)].remaining = @ \o items]

InFrame(frame, ts) == Each(LAMBDA t : [t EXCEPT !.stack = Append(@, frame)], ts)

Guarded(guard, ts) == Each(LAMBDA t : [t EXCEPT !.choiceGuard = @ \cup guard], ts)

-----------------------------------------------------------------------------
(* lookahead: the terminals that an item can start with.  `visiting` are   *)
(* the labels of the references that are being followed.                   *)
RECURSIVE lookahead(_, _)

lookaheadConcat(items, visiting) ==
  LET reached == {i \in DOMAIN items : \A j \in 1 .. i - 1 : IsNullable(items[j])}
      from(i) == Each(LAMBDA t : Followed(t, SubSeq(items, i + 1, Len(items))),
                      lookahead(items[i], visiting))
  IN  FlattenSeq([i \in 1 .. Cardinality(reached) |-> from(i)])

lookahead(item, visiting) ==
  LET g == item.node
      n == node[g]
      arm(i) == Guarded(armGuardForChild(n.Children[i]), lookahead(Item(n.Children[i]), visiting))
      child  == lookahead(Item(n.Children[1]), visiting)
      target == lookahead(Item(rules[n.ReferenceTarget]), visiting \cup {n.ReferenceTarget})
      own    == IF n.RecoveryTokens \cup n.NoConsumeOnRecoveryTokens = {} THEN {}
                ELSE {Frame(0, n.GrammarLabel, g)}
      framed(ts) == IF own = {} THEN ts ELSE InFrame(CHOOSE f \in own : TRUE, ts)
  IN  IF item.close # "" THEN <<Terminal(item.close, "", 0)>>
      ELSE CASE n.Kind = "Token" -> framed(<<Terminal(n.Token, n.OutputNodeKind, 0)>>)
             [] n.Kind = "Nest" -> framed(<<Terminal(n.Token, n.OutputNodeKind, g)>>)
             [] n.Kind = "Concat" -> framed(lookaheadConcat(Items(n.Children), visiting))
             [] n.Kind = "Choice" -> framed(FlattenSeq([i \in DOMAIN n.Children |-> arm(i)]))
             [] n.Kind = "Repeat" -> InFrame(Frame(g, n.GrammarLabel, g), child)
             [] n.Kind = "Optional" -> InFrame(Frame(0, n.GrammarLabel, g), child)
             [] n.Kind = "Reference" ->
                  IF n.ReferenceTarget \in visiting THEN <<>>
                  ELSE InFrame(Frame(0, n.ReferenceTarget, g), target)

-----------------------------------------------------------------------------
(* advanceTerminal: the terminals after t has been read.                   *)

(* Offsets count from the next token; what the token has met is dropped. *)
shiftChoiceGuardAfterConsume(guard, token) ==
  {[l EXCEPT !.offset = @ - 1] : l \in {l \in guard : l.offset > 0}}
    \cup {l \in guard : l.offset = 0 /\ l.expected # token}

(* Level 0 is the terminal's own sequence, level i its i-th frame. *)
RemainingAt(t, i) == IF i = 0 THEN t.remaining ELSE t.stack[i].remaining

(* Mutant: a repetition does not begin again. *)
LookaheadAtOnce(t, i) == lookaheadConcat(RemainingAt(t, i), {})

(* A repetition begins again, or it is left. *)
LookaheadAt(t, i) ==
  LET again == lookahead(Item(t.stack[i].repeat), {})
      rest  == lookaheadConcat(RemainingAt(t, i), {})
  IN  IF i > 0 /\ t.stack[i].repeat # 0
        THEN Each(LAMBDA s : Followed(s, RemainingAt(t, i)), again) \o rest
        ELSE rest

Passed(t, i) == \A k \in DOMAIN RemainingAt(t, i) : IsNullable(RemainingAt(t, i)[k])

advanceTerminal(t) ==
  LET guard == shiftChoiceGuardAfterConsume(t.choiceGuard, t.token)
      at(i) == Each(LAMBDA s : [s EXCEPT !.stack = @ \o SubSeq(t.stack, i + 1, Len(t.stack)),
                                         !.choiceGuard = @ \cup guard,
                                         !.popOffset = t.popOffset],
                    LookaheadAt(t, i))
      reached == {i \in 0 .. Len(t.stack) : \A j \in 0 .. i - 1 : Passed(t, j)}
  IN  [terms |-> FlattenSeq([i \in 1 .. Cardinality(reached) |-> at(i - 1)]),
       nullable |-> \A i \in 0 .. Len(t.stack) : Passed(t, i)]

-----------------------------------------------------------------------------
(* Keys (keys.go). *)

ItemKey(item) == IF item.close # "" THEN [token |-> item.close, path |-> <<>>]
                 ELSE [token |-> "", path |-> paths[item.node]]

ItemKeys(items) == [i \in DOMAIN items |-> ItemKey(items[i])]

(* The frames up to the first that repeats a repetition or a label, and    *)
(* how many there are in all.  Neither the repeated node of a repetition   *)
(* nor the recovery tokens of a frame are part of the key.                 *)
StackKey(stack) ==
  LET repeats(i) == \E j \in 1 .. i - 1 :
                       IF stack[i].repeat # 0 THEN stack[j].repeat = stack[i].repeat
                       ELSE /\ stack[j].repeat = 0 /\ stack[i].label # ""
                            /\ stack[j].label = stack[i].label
      cut == {i \in DOMAIN stack : \A j \in 1 .. i : ~repeats(j)}
  IN  <<Len(stack),
        [i \in cut |-> [label |-> IF stack[i].repeat # 0 THEN "" ELSE stack[i].label,
                        isRepetition |-> stack[i].repeat # 0,
                        remaining |-> ItemKeys(stack[i].remaining)]]>>

(* Mutant: the frames around the terminal are not part of the key. *)
terminalKeyOfSequence(t) ==
  [token |-> t.token, nodeKind |-> t.nodeKind, nest |-> t.nest, remaining |-> ItemKeys(t.remaining)]

terminalKey(t) ==
  [token |-> t.token, nodeKind |-> t.nodeKind,
   nest |-> IF t.nest = 0 THEN "" ELSE node[t.nest].GrammarLabel,
   remaining |-> ItemKeys(t.remaining), stack |-> StackKey(t.stack),
   popOffset |-> t.popOffset, choiceGuard |-> t.choiceGuard]

lookaheadKey(terms) ==
  LET keys == [i \in DOMAIN terms |-> terminalKey(terms[i])]
  IN  [k \in ToSet(keys) |-> Cardinality({i \in DOMAIN keys : keys[i] = k})]

ContextKey(terms, inheritedSyncs) ==
  [nest |-> "", part |-> "", terms |-> lookaheadKey(terms), syncs |-> inheritedSyncs]

(* A nest is found by its label alone. *)
NestKey(part, label) == [nest |-> label, part |-> part, terms |-> <<>>, syncs |-> {}]

-----------------------------------------------------------------------------
(* The contexts.  `pop` is FallthroughPopAmount, for a context that may be *)
(* left without a token (0 for the root), and `push` is                    *)
(* ImmediatePushTargetID.  A transition pops contexts and pushes others:   *)
(* OpSet pops one.  Each operator returns the graph and the contexts, if   *)
(* any, that a transition pushes.                                          *)

Context(key, terms, syncs) ==
  [key |-> key, terms |-> terms, syncs |-> syncs, nullable |-> FALSE, pop |-> 0, push |-> 0,
   transitions |-> {}, recovery |-> {}]

Known(g, key) == {c \in DOMAIN g.contexts : g.contexts[c].key = key}

getOrCreateContext(g, terms, null, inheritedSyncs) ==
  LET key == ContextKey(terms, inheritedSyncs)
      new == Len(g.contexts) + 1
      ctx == [Context(key, terms, inheritedSyncs) EXCEPT !.nullable = null, !.pop = 1 + terms[1].popOffset]
  IN  IF Known(g, key) # {} THEN [graph |-> g, ids |-> SetToSeq(Known(g, key))]
      ELSE [graph |-> [contexts |-> Append(g.contexts, ctx), queue |-> Append(g.queue, new)],
            ids |-> <<new>>]

(* Mutant: the content of a nest only has the boundaries around the nest. *)
contentSyncsOfParent(nest, inheritedSyncs) == inheritedSyncs

contentSyncs(nest, inheritedSyncs) == inheritedSyncs \cup {node[nest].CloseToken}

(* The wrapper of a nest and, above it, its content, which is left         *)
(* together with the wrapper.                                              *)
getOrCreateNestBody(g, nest, inheritedSyncs) ==
  LET body(part) == NestKey(part, node[nest].GrammarLabel)
      new     == Len(g.contexts) + 1
      wrapper == [Context(body("body"), <<>>, inheritedSyncs)
                    EXCEPT !.push = new + 1, !.recovery = inheritedSyncs]
      terms   == Each(LAMBDA t : [t EXCEPT !.popOffset = 1],
                      lookaheadConcat(<<Item(node[nest].Children[1]), Close(node[nest].CloseToken)>>, {}))
      content == Context(body("content"), terms, contentSyncs(nest, inheritedSyncs))
  IN  IF Known(g, body("body")) # {} THEN [graph |-> g, ids |-> SetToSeq(Known(g, body("body")))]
      ELSE [graph |-> [contexts |-> g.contexts \o <<wrapper, content>>,
                       queue |-> Append(g.queue, new + 1)],
            ids |-> <<new>>]

(* buildNestTransition and buildStandardTransition.  Only a transition     *)
(* that has competitors for its token keeps a guard, the one of the first  *)
(* terminal that comes after it.                                           *)
TransitionTo(t, adv, body, inheritedSyncs, peekFork) ==
  LET after == IF adv.terms = <<>> THEN [graph |-> body.graph, ids |-> <<>>]
               ELSE getOrCreateContext(body.graph, adv.terms, adv.nullable, inheritedSyncs)
      push  == after.ids \o body.ids
  IN  [graph |-> after.graph,
       transition |-> [Token |-> t.token, NodeKind |-> t.nodeKind,
                       pop |-> IF push = <<>> THEN 1 + t.popOffset ELSE 1, push |-> push,
                       PeekAfterMatch |-> IF peekFork /\ adv.terms # <<>>
                                            THEN adv.terms[1].choiceGuard ELSE {}]]

buildTransition(g, t, inheritedSyncs, peekFork) ==
  TransitionTo(t, advanceTerminal(t),
               IF t.nest = 0 THEN [graph |-> g, ids |-> <<>>]
               ELSE getOrCreateNestBody(g, t.nest, inheritedSyncs),
               inheritedSyncs, peekFork)

-----------------------------------------------------------------------------
Consumed(c) == {tr.Token : tr \in c.transitions}

(* addRecoveryTransitions: boundaries that are not consumed. *)
WithRecovery(c) ==
  LET of(t) == UNION {f.recovery : f \in ToSet(t.stack)}
      all   == c.syncs \cup UNION {of(t) : t \in ToSet(c.terms)}
  IN  [c EXCEPT !.recovery = @ \cup (all \ Consumed(c))]

BuildRoot ==
  /\ stage = "build" /\ contexts = <<>>
  /\ LET terms == lookahead(Item(grammar.root), {})
     IN  contexts' = <<[Context(ContextKey(terms, {}), terms, {})
                          EXCEPT !.nullable = grammar.root \in nullable]>>
  /\ queue' = <<1>>
  /\ UNCHANGED <<packageVars, editorVars>>

WithTransition(made, i) == [made.graph EXCEPT !.contexts[i].transitions = @ \cup {made.transition}]

(* The graph with the transitions of its context i. *)
Built(i) ==
  LET c == contexts[i]
      peekFork(t) == \E k, l \in DOMAIN c.terms : /\ k # l /\ c.terms[k].token = t.token
                                                  /\ c.terms[l].token = t.token
      add(g, t) == WithTransition(buildTransition(g, t, c.syncs, peekFork(t)), i)
  IN  FoldLeft(add, [contexts |-> contexts, queue |-> Tail(queue)], c.terms)

(* The oldest pending entry. *)
BuildContext ==
  /\ stage = "build" /\ queue # <<>>
  /\ \E built \in {Built(Head(queue))} :
        /\ contexts' = [built.contexts EXCEPT ![Head(queue)] = WithRecovery(@)]
        /\ queue' = built.queue
  /\ UNCHANGED <<packageVars, editorVars>>

(* What an editor does when it arrives in a context. *)
Entered(stack) ==
  IF stack # <<>> /\ contexts[Last(stack)].push # 0 THEN Append(stack, contexts[Last(stack)].push)
  ELSE stack

(* validateRecoveryBoundaryOwnership, and an editor opens a file. *)
FinishGraph ==
  /\ stage = "build" /\ contexts # <<>> /\ queue = <<>>
  /\ stage' = IF \E i \in DOMAIN contexts : contexts[i].recovery \cap Consumed(contexts[i]) # {}
                THEN "error" ELSE "run"
  /\ configs' = {[stack |-> Entered(<<1>>), peek |-> {}]}
  /\ UNCHANGED <<grammar, paths, rules, nullable, graphVars, word>>

-----------------------------------------------------------------------------
(* An editor reads a token: all that the graph allows it to do. *)

Popped(stack, n) == SubSeq(stack, 1, Len(stack) - n)

Follow(config, token) ==
  LET ready == {tr \in contexts[Last(config.stack)].transitions : tr.Token = token}
      meets == \A l \in config.peek : l.offset = 0 => l.expected = token
      shift == {[l EXCEPT !.offset = @ - 1] : l \in {l \in config.peek : l.offset > 0}}
  IN  IF config.stack = <<>> \/ ~meets THEN {}
      ELSE {[stack |-> Entered(Popped(config.stack, tr.pop) \o tr.push),
             peek |-> shift \cup tr.PeekAfterMatch] : tr \in ready}

Read(token) ==
  /\ stage = "run" /\ Len(word) < MaxWord
  /\ word' = Append(word, token)
  /\ configs' = UNION {Follow(c, token) : c \in configs}
  /\ UNCHANGED <<packageVars, graphVars>>

RECURSIVE Drained(_)
Drained(stack) ==
  \/ stack = <<>>
  \/ LET c == contexts[Last(stack)]
     IN  c.nullable /\ (c.pop = 0 \/ Drained(Popped(stack, c.pop)))

Accepting(config) == config.peek = {} /\ Drained(config.stack)

Init == PackageInit /\ contexts = <<>> /\ queue = <<>> /\ word = <<>> /\ configs = {}

Next ==
  \/ (ProducePackage \/ GetAnalysis) /\ UNCHANGED <<graphVars, editorVars>>
  \/ BuildRoot \/ BuildContext \/ FinishGraph
  \/ \E token \in grammar.tokens : Read(token)

Spec == Init /\ [][Next]_vars

-----------------------------------------------------------------------------
(* The language of the grammar.  A strict match counts repetitions and     *)
(* obeys guards; a loose one does neither: at least one repetition if any  *)
(* is required.                                                            *)

Holds(guard, i) == \A l \in guard : i + l.offset < Len(word) /\ word[i + l.offset + 1] = l.expected

Matches(strict) ==
  LET After(D, I, g) == {m[3] : m \in {m \in D : m[1] = g /\ m[2] \in I}}
      Shift(I, token) == {i + 1 : i \in {i \in I : i < Len(word) /\ word[i + 1] = token}}
      Along(D, i, gs) == FoldLeft(LAMBDA I, g : After(D, I, g), {i}, gs)
      counts(n) == IF ~strict THEN (IF n.Min = 0 THEN 0 ELSE 1) .. Len(word)
                   ELSE n.Min .. IF n.hasMax THEN n.Max ELSE Len(word) + n.Min
      Ends(D, g, i) ==
        LET n     == node[g]
            child == n.Children[1]
        IN  CASE strict /\ ~Holds(n.Lookaheads, i) -> {}
              [] n.Kind = "Token" -> Shift({i}, n.Token)
              [] n.Kind = "Concat" -> Along(D, i, n.Children)
              [] n.Kind = "Choice" -> UNION {After(D, {i}, c) : c \in ToSet(n.Children)}
              [] n.Kind = "Optional" -> After(D, {i}, child) \cup {i}
              [] n.Kind = "Repeat" -> UNION {Along(D, i, [k \in 1 .. m |-> child]) : m \in counts(n)}
              [] n.Kind = "Nest" -> Shift(After(D, Shift({i}, n.Token), child), n.CloseToken)
              [] n.Kind = "Reference" -> After(D, {i}, rules[n.ReferenceTarget])
      Step(D) == UNION {{<<g, i, j>> : j \in Ends(D, g, i)} : <<g, i>> \in (DOMAIN node) \X (0 .. Len(word))}
  IN  LeastFixpoint(Step, {})

Derives(strict) == <<grammar.root, 0, Len(word)>> \in Matches(strict)

(* The words that a loose match can start with.  <<g, i>> is in V if the   *)
(* word from i on is the beginning of one that g derives (each node        *)
(* derives one).                                                           *)
IsViable ==
  LET D == Matches(FALSE)
      After(I, g) == {m[3] : m \in {m \in D : m[1] = g /\ m[2] \in I}}
      starts(V, I, g) == \E i \in I : <<g, i>> \in V
      begun(V, g, i) ==
        LET n     == node[g]
            child == n.Children[1]
        IN  CASE n.Kind = "Token" -> FALSE
              [] n.Kind = "Concat" ->
                   \E k \in DOMAIN n.Children :
                     starts(V, FoldLeft(After, {i}, SubSeq(n.Children, 1, k - 1)), n.Children[k])
              [] n.Kind = "Choice" -> \E c \in ToSet(n.Children) : <<c, i>> \in V
              [] n.Kind = "Optional" -> <<child, i>> \in V
              [] n.Kind = "Repeat" -> starts(V, {i} \cup After({i}, g), child)
              [] n.Kind = "Nest" -> i < Len(word) /\ word[i + 1] = n.Token /\ <<child, i + 1>> \in V
              [] n.Kind = "Reference" -> <<rules[n.ReferenceTarget], i>> \in V
      Step(V) == {<<g, i>> \in (DOMAIN node) \X (0 .. Len(word)) :
                    i = Len(word) \/ <<g, i, Len(word)>> \in D \/ begun(V, g, i)}
  IN  <<grammar.root, 0>> \in LeastFixpoint(Step, {})

-----------------------------------------------------------------------------
(* Properties. *)

(* An editor that follows the graph can read every program of the grammar: *)
(* no continuation is lost when contexts are shared between places of the  *)
(* grammar, when a nest is entered and left, or when a repetition is       *)
(* repeated.  Except where a guarded choice may come after a fork, see     *)
(* GuardsOnlyDisambiguate.                                                 *)
DerivableIsFollowed ==
  stage = "run" /\ ~grammar.guarded /\ Derives(TRUE) => configs # {}

(* So it does there: "the guard is only for disambiguating competing       *)
(* edges" (state_graph.go:100).                                            *)
GuardsOnlyDisambiguate ==
  stage = "run" /\ Derives(TRUE) => configs # {}

(* And it reads nothing else, up to counts and guards that the graph does  *)
(* not keep: contexts that are shared do continue alike, and each nest     *)
(* pops as many contexts as it pushed, so that a program is read when none *)
(* are left.                                                               *)
FollowedIsDerivable ==
  stage = "run" => /\ configs # {} => IsViable
                   /\ (\E c \in configs : c.stack = <<>>) => Derives(FALSE)

(* It may stop at the end of every program: "HasOptionalContinuation is    *)
(* true when all transitions from this context are from optional or repeat *)
(* grammar" (state_graph.go:60).                                           *)
EndsAreMarked ==
  stage = "run" /\ Derives(TRUE) => \E c \in configs : Accepting(c)

Nests(config) == {i \in DOMAIN config.stack : contexts[config.stack[i]].push # 0}

CloseOf(wrapper) ==
  LET label == contexts[wrapper].key.nest
  IN  CHOOSE token \in {node[g].CloseToken : g \in {g \in DOMAIN node : /\ node[g].Kind = "Nest"
                                                                  /\ node[g].GrammarLabel = label}} : TRUE

Leaves(config) == Consumed(contexts[Last(config.stack)]) \cup contexts[Last(config.stack)].recovery

(* Wherever an editor is inside a nest, the token that closes the nest is  *)
(* one that its context handles: it is read, or it is a point to recover   *)
(* at (getOrCreateNestBody, addRecoveryTransitions).                       *)
NestsCanBeLeft ==
  \A c \in configs : Nests(c) # {} => CloseOf(c.stack[Max(Nests(c))]) \in Leaves(c)

(* The boundaries of all nests around, not of the innermost only: the      *)
(* recovery transitions "carry the union of all recovery sets from all     *)
(* enclosing grammar frames" (state_graph.go:118-119).                     *)
RecoveryCoversEnclosingNests ==
  \A c \in configs : \A i \in Nests(c) : CloseOf(c.stack[i]) \in Leaves(c)
=============================================================================
