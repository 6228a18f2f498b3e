------------------------- MODULE RuleFactoryProofs -------------------------
(***************************************************************************)
(* The parse state is well typed, the four stacks of the engine follow the *)
(* calls, no rule touches a diagnostic of its callers, a rule that does    *)
(* not match leaves no trace, a parse that fails has a diagnostic, and     *)
(* rules keep the contracts that the factory derives for them: for every   *)
(* grammar, every input and any depth of calls.  The invariant is stated   *)
(* once more for a stack `cs` and a store `s` that need not be those of a  *)
(* state (Chain, Bounded, Live, Counted, together Lands), so that a push,  *)
(* a change of the top or a pop can be looked at before it becomes a step. *)
(* The invariant Said follows a mismatch from the rule that reports it to  *)
(* the caller that makes an error of it; the invariant Kept, in the last   *)
(* part, follows a promise from the parts of a rule to the rule.           *)
(***************************************************************************)
EXTENDS RuleFactoryLemmas, RuleBuilder

-----------------------------------------------------------------------------
(* Counting the activations of a kind. *)

NormalIn(cs) == {i \in DOMAIN cs : cs[i].mode = "Normal"}

EnvelopesIn(cs) == {i \in DOMAIN cs : cs[i].envelope}

EntriesIn(cs) == {i \in DOMAIN cs : IsEntry(cs[i])}

InsidesIn(cs, resumed) ==
  {i \in DOMAIN cs : KindOf(cs[i]) = "Nest" /\ (i < Len(cs) \/ resumed)}

Counted(cs, frames, s, resumed) ==
  /\ Len(frames) = Cardinality(NormalIn(cs))
  /\ Len(s.stack) = Cardinality(EnvelopesIn(cs))
  /\ s.entryRuleScopeDepth = Cardinality(EntriesIn(cs))
  /\ Len(s.delimiterBoundaries) = Cardinality(InsidesIn(cs, resumed))

LEMMA CountsMatch ==
  StacksMatchCalls <=>
    (control # "panic" => Counted(calls, recovery, errs, control = "resume"))
<1> DEFINE normal    == {i \in DOMAIN calls : calls[i].mode = "Normal"}
           envelopes == {i \in DOMAIN calls : calls[i].envelope}
           entries   == {i \in normal \cap envelopes : IsProgramRule(calls[i].rule)}
           insides   == {i \in DOMAIN calls : /\ Rule[calls[i].rule].kind = "Nest"
                                              /\ (i < Len(calls) \/ control = "resume")}
<1>1. normal = NormalIn(calls) /\ envelopes = EnvelopesIn(calls)
  BY DEF NormalIn, EnvelopesIn
<1>2. entries = EntriesIn(calls)
  BY DEF EntriesIn, IsEntry
<1>3. insides = InsidesIn(calls, control = "resume")
  BY DEF InsidesIn, KindOf
<1>4. StacksMatchCalls <=>
        (control # "panic" => /\ Len(recovery) = Cardinality(normal)
                              /\ Len(errs.stack) = Cardinality(envelopes)
                              /\ errs.entryRuleScopeDepth = Cardinality(entries)
                              /\ Len(errs.delimiterBoundaries) = Cardinality(insides))
  BY DEF StacksMatchCalls
<1> HIDE DEF normal, envelopes, entries, insides
<1> QED
  BY <1>1, <1>2, <1>3, <1>4 DEF Counted

LEMMA CountMore ==
  ASSUME NEW n \in Nat, NEW T \in SUBSET (1 .. n)
  PROVE  Cardinality(T) \in Nat /\ Cardinality(T \cup {n + 1}) = Cardinality(T) + 1
<1>1. IsFiniteSet(1 .. n)
  BY FS_Interval
<1>2. IsFiniteSet(T)
  BY <1>1, FS_Subset
<1>3. n + 1 \notin T
  OBVIOUS
<1> QED
  BY <1>2, <1>3, FS_AddElement, FS_CardinalityType

LEMMA CountLess ==
  ASSUME NEW n \in Nat, NEW T \in SUBSET (1 .. n), n \in T
  PROVE  Cardinality(T) \in Nat /\ Cardinality(T \ {n}) = Cardinality(T) - 1
<1>1. IsFiniteSet(1 .. n)
  BY FS_Interval
<1>2. IsFiniteSet(T)
  BY <1>1, FS_Subset
<1> QED
  BY <1>2, FS_RemoveElement, FS_CardinalityType

(* An activation that differs in its locals counts alike. *)
Alike(t) ==
  /\ IsSeq(t) /\ Len(t) = Len(calls)
  /\ \A i \in DOMAIN calls :
        /\ IsActivation(t[i]) /\ t[i].rule = calls[i].rule /\ t[i].mode = calls[i].mode
        /\ t[i].envelope = calls[i].envelope /\ t[i].start = calls[i].start
        /\ t[i].createdAt = calls[i].createdAt /\ t[i].before = calls[i].before
        /\ t[i].next \in Nat /\ t[i].marker \in Nat

LEMMA AlikeSelf == ASSUME IInv PROVE Alike(calls)
<1>1. IsSeq(calls) /\ \A i \in DOMAIN calls : IsActivation(calls[i])
  BY DEF IInv, Shape
<1>2. \A i \in DOMAIN calls : calls[i].next \in Nat /\ calls[i].marker \in Nat
  BY DEF IInv, TypeOK
<1> QED
  BY <1>1, <1>2 DEF Alike

LEMMA AlikeTop ==
  ASSUME IInv, Running, NEW a, Same(a)
  PROVE  Alike(Append(Pop(calls), a)) /\ Append(Pop(calls), a)[Len(calls)] = a
<1> DEFINE p == Pop(calls)
           n == Len(calls)
           t == Append(p, a)
<1>1. calls # <<>> /\ IsSeq(calls) /\ n \in Nat \ {0} /\ DOMAIN calls = 1 .. n
  BY TopHas DEF Running
<1>2. IsSeq(p) /\ Len(p) = n - 1 /\ \A i \in 1 .. n - 1 : p[i] = calls[i]
  BY <1>1, SeqPop
<1> HIDE DEF p
<1>3. /\ IsSeq(t) /\ Len(t) = Len(p) + 1 /\ t[Len(p) + 1] = a
      /\ \A i \in 1 .. Len(p) : t[i] = p[i]
  BY <1>2, SeqAppend
<1>4. Len(p) + 1 = n
  BY <1>1, <1>2
<1> HIDE DEF t, n
<1>5. Len(t) = n /\ t[n] = a /\ \A i \in 1 .. n - 1 : t[i] = calls[i]
  BY <1>2, <1>3, <1>4
<1>6. Alike(calls)
  BY AlikeSelf
<1>7. calls[n] = top
  BY DEF top, n
<1>8. ASSUME NEW i \in DOMAIN calls
      PROVE  /\ IsActivation(t[i]) /\ t[i].rule = calls[i].rule /\ t[i].mode = calls[i].mode
             /\ t[i].envelope = calls[i].envelope /\ t[i].start = calls[i].start
             /\ t[i].createdAt = calls[i].createdAt /\ t[i].before = calls[i].before
             /\ t[i].next \in Nat /\ t[i].marker \in Nat
  <2>1. i \in 1 .. n - 1 \/ i = n
    BY <1>1
  <2>2. CASE i \in 1 .. n - 1
    BY <1>5, <1>6, <2>2 DEF Alike
  <2>3. CASE i = n
    BY <1>5, <1>7, <2>3 DEF Same
  <2> QED
    BY <2>1, <2>2, <2>3
<1> QED
  BY <1>3, <1>5, <1>8 DEF Alike, t, n, p

LEMMA AlikeCounts ==
  ASSUME NEW t, IsSeq(calls), Alike(t), NEW resumed \in BOOLEAN
  PROVE  /\ DOMAIN t = DOMAIN calls
         /\ NormalIn(t) = NormalIn(calls) /\ EnvelopesIn(t) = EnvelopesIn(calls)
         /\ EntriesIn(t) = EntriesIn(calls) /\ InsidesIn(t, resumed) = InsidesIn(calls, resumed)
<1>1. DOMAIN t = DOMAIN calls
  BY SeqHas DEF Alike
<1>2. NormalIn(t) = NormalIn(calls) /\ EnvelopesIn(t) = EnvelopesIn(calls)
  BY <1>1 DEF Alike, NormalIn, EnvelopesIn
<1>3. EntriesIn(t) = EntriesIn(calls)
  BY <1>1 DEF Alike, EntriesIn, IsEntry
<1>4. InsidesIn(t, resumed) = InsidesIn(calls, resumed)
  BY <1>1 DEF Alike, InsidesIn, KindOf
<1> QED
  BY <1>1, <1>2, <1>3, <1>4

LEMMA PushCounts ==
  ASSUME NEW t, IsSeq(t), NEW a
  PROVE  LET u == Append(t, a)
             n == Len(t)
         IN  /\ NormalIn(u) = IF a.mode = "Normal" THEN NormalIn(t) \cup {n + 1} ELSE NormalIn(t)
             /\ EnvelopesIn(u) = IF a.envelope THEN EnvelopesIn(t) \cup {n + 1} ELSE EnvelopesIn(t)
             /\ EntriesIn(u) = IF IsEntry(a) THEN EntriesIn(t) \cup {n + 1} ELSE EntriesIn(t)
             /\ InsidesIn(u, FALSE) = InsidesIn(t, TRUE)
<1> DEFINE u == Append(t, a)
           n == Len(t)
<1>1. /\ n \in Nat /\ DOMAIN t = 1 .. n /\ DOMAIN u = 1 .. n + 1 /\ Len(u) = n + 1
      /\ u[n + 1] = a /\ \A i \in 1 .. n : u[i] = t[i]
  BY SeqAppend, SeqHas
<1> HIDE DEF u, n
<1>2. 1 .. n + 1 = (1 .. n) \cup {n + 1} /\ n + 1 \notin 1 .. n
  BY <1>1
<1>3. NormalIn(u) = IF a.mode = "Normal" THEN NormalIn(t) \cup {n + 1} ELSE NormalIn(t)
  BY <1>1, <1>2 DEF NormalIn
<1>4. EnvelopesIn(u) = IF a.envelope THEN EnvelopesIn(t) \cup {n + 1} ELSE EnvelopesIn(t)
  BY <1>1, <1>2 DEF EnvelopesIn
<1>5. EntriesIn(u) = IF IsEntry(a) THEN EntriesIn(t) \cup {n + 1} ELSE EntriesIn(t)
  BY <1>1, <1>2 DEF EntriesIn
<1>6. InsidesIn(u, FALSE) = InsidesIn(t, TRUE)
  <2>1. \A i \in 1 .. n : i < n + 1
    BY <1>1
  <2>2. ~(n + 1 < n + 1)
    BY <1>1
  <2> QED
    BY <1>1, <1>2, <2>1, <2>2 DEF InsidesIn
<1> QED
  BY <1>3, <1>4, <1>5, <1>6 DEF u, n

LEMMA PopCounts ==
  ASSUME IsSeq(calls), calls # <<>>
  PROVE  LET u == Pop(calls)
             n == Len(calls)
         IN  /\ NormalIn(u) = NormalIn(calls) \ {n}
             /\ EnvelopesIn(u) = EnvelopesIn(calls) \ {n}
             /\ EntriesIn(u) = EntriesIn(calls) \ {n}
             /\ InsidesIn(u, TRUE) = InsidesIn(calls, FALSE)
<1> DEFINE u == Pop(calls)
           n == Len(calls)
<1>1. /\ n \in Nat \ {0} /\ DOMAIN calls = 1 .. n /\ DOMAIN u = 1 .. n - 1 /\ Len(u) = n - 1
      /\ \A i \in 1 .. n - 1 : u[i] = calls[i]
  BY SeqPop, SeqHas
<1> HIDE DEF u, n
<1>2. 1 .. n - 1 = (1 .. n) \ {n} /\ \A i \in 1 .. n : i < n <=> i # n
  BY <1>1
<1>3. NormalIn(u) = NormalIn(calls) \ {n}
  BY <1>1, <1>2 DEF NormalIn
<1>4. EnvelopesIn(u) = EnvelopesIn(calls) \ {n}
  BY <1>1, <1>2 DEF EnvelopesIn
<1>5. EntriesIn(u) = EntriesIn(calls) \ {n}
  BY <1>1, <1>2 DEF EntriesIn
<1>6. InsidesIn(u, TRUE) = InsidesIn(calls, FALSE)
  <2>1. Len(calls) = n
    BY DEF n
  <2>2. InsidesIn(u, TRUE) = {i \in 1 .. n - 1 : KindOf(calls[i]) = "Nest"}
    BY <1>1 DEF InsidesIn
  <2>3. InsidesIn(calls, FALSE) = {i \in 1 .. n : KindOf(calls[i]) = "Nest" /\ i < n}
    BY <1>1, <2>1 DEF InsidesIn
  <2>4. \A i : i \in 1 .. n - 1 <=> (i \in 1 .. n /\ i < n)
    BY <1>1
  <2> QED
    BY <2>2, <2>3, <2>4
<1> QED
  BY <1>3, <1>4, <1>5, <1>6 DEF u, n

-----------------------------------------------------------------------------
(* The invariant as a statement about a call stack and a store. *)

Chain(cs) ==
  /\ IsSeq(cs)
  /\ \A i \in DOMAIN cs :
        /\ IsActivation(cs[i]) /\ cs[i].rule \in DOMAIN Rule /\ cs[i].mode \in {"Normal", "Probe"}
        /\ cs[i].next \in Nat /\ cs[i].marker \in Nat
        /\ ~cs[i].envelope => /\ i > 1 /\ cs[i].mode = "Normal"
                              /\ KindOf(cs[i - 1]) = "Reference"
  /\ \A i \in DOMAIN cs :
        /\ IsStore(cs[i].before) /\ cs[i].before.entryRuleFlightBaseline = 0
        /\ i > 1 => cs[i].before.entryRuleScopeDepth > 0
  /\ \A i, j \in DOMAIN cs : i <= j => /\ cs[i].start <= cs[j].start
                                      /\ cs[i].createdAt <= cs[j].createdAt
  /\ \A i, j \in DOMAIN cs :
        i < j /\ cs[i].envelope => Keeps(cs[j].before, cs[i].before)

Bounded(cs, cur, count) ==
  \A i \in DOMAIN cs : cs[i].start \in 0 .. cur /\ cs[i].createdAt \in 0 .. count

InsideOf(cs, i, resumed) == KindOf(cs[i]) = "Nest" /\ (i < Len(cs) \/ resumed)

SeenBy(cs, i, s) == IF i < Len(cs) THEN cs[i + 1].before ELSE s

KeptBy(cs, s) == \A i \in DOMAIN cs : cs[i].envelope => Keeps(s, cs[i].before)

Levels(cs, s, resumed) == \A i \in DOMAIN cs : Level(cs[i], InsideOf(cs, i, resumed), SeenBy(cs, i, s))

Sound(s) == IsStore(s) /\ s.entryRuleFlightBaseline = 0

Live(cs, s, resumed) ==
  /\ cs # <<>> => s.entryRuleScopeDepth > 0
  /\ KeptBy(cs, s)
  /\ Levels(cs, s, resumed)

LEMMA InvHas ==
  ASSUME IInv
  PROVE  /\ Chain(calls) /\ Bounded(calls, cursor, created) /\ Sound(errs)
         /\ control # "panic" =>
              /\ Live(calls, errs, control = "resume")
              /\ Counted(calls, recovery, errs, control = "resume")
<1>1. Chain(calls)
  <2>1. IsSeq(calls)
    BY DEF IInv, Shape
  <2>2. \A i \in DOMAIN calls :
        /\ IsActivation(calls[i]) /\ calls[i].rule \in DOMAIN Rule
        /\ calls[i].mode \in {"Normal", "Probe"}
        /\ calls[i].next \in Nat /\ calls[i].marker \in Nat
        /\ ~calls[i].envelope => /\ i > 1 /\ calls[i].mode = "Normal"
                                 /\ KindOf(calls[i - 1]) = "Reference"
    BY DEF IInv, Shape, TypeOK
  <2>3. \A i \in DOMAIN calls :
        /\ IsStore(calls[i].before) /\ calls[i].before.entryRuleFlightBaseline = 0
        /\ i > 1 => calls[i].before.entryRuleScopeDepth > 0
    BY DEF IInv, Stores
  <2>4. \A i, j \in DOMAIN calls : i <= j => /\ calls[i].start <= calls[j].start
                                            /\ calls[i].createdAt <= calls[j].createdAt
    BY DEF IInv, Shape
  <2>5. \A i, j \in DOMAIN calls :
        i < j /\ calls[i].envelope => Keeps(calls[j].before, calls[i].before)
    BY DEF IInv, Stores
  <2> QED
    BY <2>1, <2>2, <2>3, <2>4, <2>5 DEF Chain
<1>2. Bounded(calls, cursor, created)
  BY DEF IInv, TypeOK, Bounded
<1>3. Sound(errs)
  BY DEF IInv, Stores, Sound
<1>4. control # "panic" => Live(calls, errs, control = "resume")
  BY DEF IInv, Stores, Live, KeptBy, Levels, Inside, InsideOf, StoreAt, SeenBy
<1>5. control # "panic" => Counted(calls, recovery, errs, control = "resume")
  BY CountsMatch DEF IInv
<1> QED
  BY <1>1, <1>2, <1>3, <1>4, <1>5

(* The facts that make the invariant hold after a step. *)
Lands(cs, rec, s, cur, count, resumed) ==
  /\ Chain(cs) /\ Bounded(cs, cur, count) /\ Sound(s) /\ IsSeq(rec)
  /\ cur \in 0 .. Len(input) /\ count \in Nat
  /\ Live(cs, s, resumed) /\ Counted(cs, rec, s, resumed)

Typed == /\ parser \in Parsers /\ input \in Seq(parser.alphabet)
         /\ cursor \in 0 .. Len(input) /\ created \in Nat
         /\ ret \in Results

InvParts == /\ Typed /\ Chain(calls) /\ Bounded(calls, cursor, created) /\ Sound(errs)
            /\ IsSeq(recovery)
            /\ control \in {"begin", "loop", "resume", "leave", "finish", "done", "panic"}
            /\ control \in {"begin", "loop", "resume", "leave", "panic"} <=> calls # <<>>
            /\ control # "panic" =>
                 /\ Live(calls, errs, control = "resume")
                 /\ Counted(calls, recovery, errs, control = "resume")

LEMMA InvOf == InvParts => IInv
<1> SUFFICES ASSUME InvParts PROVE IInv
  OBVIOUS
<1>1. /\ Typed /\ Chain(calls) /\ Bounded(calls, cursor, created) /\ Sound(errs)
      /\ IsSeq(recovery)
      /\ control \in {"begin", "loop", "resume", "leave", "finish", "done", "panic"}
      /\ control \in {"begin", "loop", "resume", "leave", "panic"} <=> calls # <<>>
  BY DEF InvParts
<1>2. control # "panic" => Live(calls, errs, control = "resume")
  BY DEF InvParts
<1>3. control # "panic" => Counted(calls, recovery, errs, control = "resume")
  BY DEF InvParts
<1>4. TypeOK
  BY <1>1 DEF Typed, Chain, Bounded, TypeOK, Results
<1>5. Shape
  <2>1. \A i \in DOMAIN calls :
        /\ IsActivation(calls[i])
        /\ ~calls[i].envelope => /\ i > 1 /\ calls[i].mode = "Normal"
                                 /\ KindOf(calls[i - 1]) = "Reference"
    BY <1>1 DEF Chain
  <2>2. \A i, j \in DOMAIN calls : i <= j => /\ calls[i].start <= calls[j].start
                                            /\ calls[i].createdAt <= calls[j].createdAt
    BY <1>1 DEF Chain
  <2>3. IsSeq(calls)
    BY <1>1 DEF Chain
  <2> QED
    BY <1>1, <2>1, <2>2, <2>3 DEF Shape
<1>6. Stores
  <2>1. \A i \in DOMAIN calls :
        /\ IsStore(calls[i].before) /\ calls[i].before.entryRuleFlightBaseline = 0
        /\ i > 1 => calls[i].before.entryRuleScopeDepth > 0
    BY <1>1 DEF Chain
  <2>2. \A i, j \in DOMAIN calls :
        i < j /\ calls[i].envelope => Keeps(calls[j].before, calls[i].before)
    BY <1>1 DEF Chain
  <2>3. IsStore(errs) /\ errs.entryRuleFlightBaseline = 0
    BY <1>1 DEF Sound
  <2>4. control # "panic" =>
        /\ calls # <<>> => errs.entryRuleScopeDepth > 0
        /\ \A i \in DOMAIN calls : /\ calls[i].envelope => Keeps(errs, calls[i].before)
                                  /\ Level(calls[i], Inside(i), StoreAt(i))
    BY <1>2 DEF Live, KeptBy, Levels, Inside, InsideOf, StoreAt, SeenBy
  <2> QED
    BY <2>1, <2>2, <2>3, <2>4 DEF Stores
<1>7. Fresh
  BY <1>1 DEF Fresh
<1>8. StacksMatchCalls
  BY <1>3, CountsMatch
<1> QED
  BY <1>4, <1>5, <1>6, <1>7, <1>8 DEF IInv

LEMMA InvNow == InvParts' => IInv'
<1>1. (InvParts => IInv)'
  BY InvOf, PTL
<1> QED
  BY <1>1

LEMMA Arrives ==
  ASSUME IInv, parser' = parser, input' = input, ret' \in Results,
         Lands(calls', recovery', errs', cursor', created', control' = "resume"),
         control' \in {"begin", "loop", "resume", "leave", "finish", "done"},
         control' \in {"begin", "loop", "resume", "leave"} <=> calls' # <<>>
  PROVE  IInv'
<1>1. /\ Chain(calls') /\ Bounded(calls', cursor', created') /\ Sound(errs') /\ IsSeq(recovery')
      /\ cursor' \in 0 .. Len(input) /\ created' \in Nat
      /\ Live(calls', errs', control' = "resume")
      /\ Counted(calls', recovery', errs', control' = "resume")
  BY DEF Lands
<1>2. Typed'
  BY <1>1 DEF Typed, Results, IInv, TypeOK
<1>3. Chain(calls)'
  <2>1. \A r : Rule'[r] = Rule[r] /\ Rule' = Rule
    BY DEF Rule
  <2>2. \A i \in DOMAIN calls' : KindOf(calls[i])' = KindOf(calls'[i])
                                /\ KindOf(calls[i - 1])' = KindOf(calls'[i - 1])
    BY <2>1 DEF KindOf
  <2> QED
    BY <1>1, <2>1, <2>2 DEF Chain
<1>4. Bounded(calls, cursor, created)' /\ Sound(errs)'
  BY <1>1 DEF Bounded, Sound
<1>5. Live(calls, errs, control = "resume")'
  BY <1>1 DEF Live, KeptBy, Levels, Level, InsideOf, SeenBy, IsEntry, IsProgramRule,
              KindOf, Rule, program
<1>6. Counted(calls, recovery, errs, control = "resume")'
  <2>1. NormalIn(calls)' = NormalIn(calls') /\ EnvelopesIn(calls)' = EnvelopesIn(calls')
    BY DEF NormalIn, EnvelopesIn
  <2>2. EntriesIn(calls)' = EntriesIn(calls')
    BY DEF EntriesIn, IsEntry, IsProgramRule, Rule, program
  <2>3. InsidesIn(calls, control = "resume")' = InsidesIn(calls', control' = "resume")
    BY DEF InsidesIn, KindOf, Rule
  <2> QED
    BY <1>1, <2>1, <2>2, <2>3 DEF Counted
<1>7. IsSeq(recovery)'
  BY <1>1 DEF IsSeq
<1> QED
  BY <1>1, <1>2, <1>3, <1>4, <1>5, <1>6, <1>7, InvNow DEF InvParts

LEMMA NoSeq == IsSeq(<<>>) /\ Len(<<>>) = 0 /\ DOMAIN <<>> = {}
<1>1. <<>> \in Seq({})
  BY EmptySeq
<1>2. IsSeq(<<>>)
  BY <1>1, SeqOf
<1>3. Len(<<>>) = 0
  OBVIOUS
<1>4. DOMAIN <<>> = 1 .. 0
  BY <1>2, <1>3, SeqHas
<1> QED
  BY <1>2, <1>3, <1>4

LEMMA EmptyLands ==
  ASSUME IInv, NEW rec, NEW s, NEW resumed \in BOOLEAN, Sound(s), rec = <<>>,
         s.stack = <<>>, s.entryRuleScopeDepth = 0, s.delimiterBoundaries = <<>>
  PROVE  Lands(<<>>, rec, s, cursor, created, resumed)
<1>1. IsSeq(<<>>) /\ Len(<<>>) = 0 /\ DOMAIN <<>> = {}
  BY NoSeq
<1>2. Chain(<<>>) /\ Bounded(<<>>, cursor, created) /\ Live(<<>>, s, resumed)
  BY <1>1 DEF Chain, Bounded, Live, KeptBy, Levels
<1>3. /\ NormalIn(<<>>) = {} /\ EnvelopesIn(<<>>) = {} /\ EntriesIn(<<>>) = {}
      /\ InsidesIn(<<>>, resumed) = {}
  BY <1>1 DEF NormalIn, EnvelopesIn, EntriesIn, InsidesIn
<1>4. Cardinality({}) = 0
  BY FS_EmptySet
<1>5. Counted(<<>>, rec, s, resumed)
  BY <1>1, <1>3, <1>4 DEF Counted
<1>6. IsSeq(rec) /\ cursor \in 0 .. Len(input) /\ created \in Nat
  BY <1>1 DEF IInv, TypeOK
<1> QED
  BY <1>2, <1>5, <1>6 DEF Lands

(* And with no activation, nothing is on the stacks. *)
LEMMA EmptyHas ==
  ASSUME NEW rec, NEW s, NEW resumed \in BOOLEAN, IsStore(s), IsSeq(rec),
         Counted(<<>>, rec, s, resumed)
  PROVE  /\ rec = <<>> /\ s.stack = <<>> /\ s.delimiterBoundaries = <<>>
         /\ s.entryRuleScopeDepth = 0
<1>1. IsSeq(<<>>) /\ Len(<<>>) = 0 /\ DOMAIN <<>> = {}
  BY NoSeq
<1>2. /\ NormalIn(<<>>) = {} /\ EnvelopesIn(<<>>) = {} /\ EntriesIn(<<>>) = {}
      /\ InsidesIn(<<>>, resumed) = {}
  BY <1>1 DEF NormalIn, EnvelopesIn, EntriesIn, InsidesIn
<1>3. Cardinality({}) = 0
  BY FS_EmptySet
<1>4. /\ Len(rec) = 0 /\ Len(s.stack) = 0 /\ s.entryRuleScopeDepth = 0
      /\ Len(s.delimiterBoundaries) = 0
  BY <1>2, <1>3 DEF Counted
<1>5. rec = <<>> <=> Len(rec) = 0
  BY SeqHas
<1> QED
  BY <1>4, <1>5, StoreHas

-----------------------------------------------------------------------------
(* Entering a rule. *)

(* The store when the body of activation a begins. *)
Opening(a) ==
  IF ~a.envelope THEN a.before
  ELSE IF IsEntry(a) THEN pushFrame(BeginEntryRuleScope(a.before))
  ELSE pushFrame(a.before)

LEMMA OpeningHas ==
  ASSUME NEW a, IsActivation(a), Sound(a.before),
         a.before.entryRuleScopeDepth = 0 => a.before.flight = <<>>
  PROVE  /\ Sound(Opening(a)) /\ Level(a, FALSE, Opening(a))
         /\ a.envelope => Keeps(Opening(a), a.before)
         /\ \A b : IsStore(b) /\ Keeps(a.before, b) => Keeps(Opening(a), b)
<1> DEFINE s == a.before
<1>1. IsStore(s) /\ s.entryRuleFlightBaseline = 0 /\ Len(s.stack) \in Nat
      /\ s.entryRuleScopeDepth \in Nat
  BY StoreHas DEF Sound, IsStore
<1>1a. a.envelope \in BOOLEAN
  BY DEF IsActivation
<1>2. CASE ~a.envelope
  <2>1. Opening(a) = s /\ ~IsEntry(a)
    BY <1>2 DEF Opening, IsEntry
  <2>2. Level(a, FALSE, s)
    BY <1>1, <1>2, <2>1 DEF Level
  <2> QED
    BY <1>2, <2>1, <2>2
<1>3. CASE a.envelope /\ IsEntry(a)
  <2> DEFINE p == BeginEntryRuleScope(s)
             t == pushFrame(p)
  <2>1. /\ IsStore(p) /\ p.stack = s.stack /\ p.flight = s.flight /\ p.Errors = s.Errors
        /\ p.delimiterBoundaries = s.delimiterBoundaries
        /\ p.entryRuleScopeDepth = s.entryRuleScopeDepth + 1
        /\ p.entryRuleFlightBaseline = 0
    BY <1>1, BeginScope
  <2>2. Opening(a) = t
    BY <1>3 DEF Opening
  <2> HIDE DEF p
  <2>3. /\ IsStore(t) /\ Len(t.stack) = Len(p.stack) + 1
        /\ t.delimiterBoundaries = p.delimiterBoundaries
        /\ t.entryRuleScopeDepth = p.entryRuleScopeDepth
        /\ t.entryRuleFlightBaseline = p.entryRuleFlightBaseline
    BY <2>1, PushFrame
  <2>4. Keeps(t, p)
    BY <2>1, FrameKeeps
  <2>5. \A b : IsStore(b) /\ Keeps(s, b) => Keeps(t, b)
    BY <2>1, KeepsSameErrors, KeepsFramed
  <2> HIDE DEF t
  <2>6. Keeps(t, s)
    BY <2>1, <2>4 DEF Keeps
  <2>7. Level(a, FALSE, t)
    BY <1>1, <1>3, <2>1, <2>3 DEF Level
  <2> QED
    BY <1>3, <2>1, <2>2, <2>3, <2>5, <2>6, <2>7 DEF Sound
<1>4. CASE a.envelope /\ ~IsEntry(a)
  <2> DEFINE t == pushFrame(s)
  <2>2. Opening(a) = t
    BY <1>4 DEF Opening
  <2>3. /\ IsStore(t) /\ Len(t.stack) = Len(s.stack) + 1
        /\ t.delimiterBoundaries = s.delimiterBoundaries
        /\ t.entryRuleScopeDepth = s.entryRuleScopeDepth
        /\ t.entryRuleFlightBaseline = s.entryRuleFlightBaseline
    BY <1>1, PushFrame
  <2>4. Keeps(t, s)
    BY <1>1, FrameKeeps
  <2>5. \A b : IsStore(b) /\ Keeps(s, b) => Keeps(t, b)
    BY <1>1, KeepsFramed
  <2> HIDE DEF t
  <2>7. Level(a, FALSE, t)
    BY <1>1, <1>4, <2>3 DEF Level
  <2> QED
    BY <1>1, <1>4, <2>2, <2>3, <2>4, <2>5, <2>7 DEF Sound
<1> QED
  BY <1>2, <1>3, <1>4

(* An activation that may be put on the stack t.                           *)
Follows(t, a, cur, count) ==
  /\ IsActivation(a) /\ a.rule \in DOMAIN Rule /\ a.mode \in {"Normal", "Probe"}
  /\ a.next \in Nat /\ a.marker \in Nat
  /\ a.start = cur /\ a.createdAt = count
  /\ ~a.envelope => /\ t # <<>> /\ a.mode = "Normal" /\ KindOf(t[Len(t)]) = "Reference"
  /\ t = <<>> => IsEntry(a) /\ a.before.flight = <<>>

LEMMA PushChain ==
  ASSUME NEW t, NEW a, NEW cur \in Nat, NEW count \in Nat,
         Chain(t), Bounded(t, cur, count), KeptBy(t, a.before), Sound(a.before),
         t # <<>> => a.before.entryRuleScopeDepth > 0, Follows(t, a, cur, count)
  PROVE  Chain(Append(t, a)) /\ Bounded(Append(t, a), cur, count)
<1> DEFINE u == Append(t, a)
           n == Len(t)
<1>1. /\ IsSeq(t) /\ IsSeq(u) /\ n \in Nat /\ DOMAIN t = 1 .. n /\ DOMAIN u = 1 .. n + 1
      /\ u[n + 1] = a /\ \A i \in 1 .. n : u[i] = t[i]
      /\ t = <<>> <=> n = 0
  BY SeqAppend, SeqHas DEF Chain
<1>1a. t[n] = t[Len(t)]
  OBVIOUS
<1> HIDE DEF u, n
<1>2. 1 .. n + 1 = (1 .. n) \cup {n + 1} /\ n + 1 \notin 1 .. n
  BY <1>1
<1>3. ASSUME NEW i \in DOMAIN u
      PROVE  /\ IsActivation(u[i]) /\ u[i].rule \in DOMAIN Rule /\ u[i].mode \in {"Normal", "Probe"}
             /\ u[i].next \in Nat /\ u[i].marker \in Nat
             /\ ~u[i].envelope => /\ i > 1 /\ u[i].mode = "Normal"
                                  /\ KindOf(u[i - 1]) = "Reference"
             /\ IsStore(u[i].before) /\ u[i].before.entryRuleFlightBaseline = 0
             /\ i > 1 => u[i].before.entryRuleScopeDepth > 0
             /\ u[i].start \in 0 .. cur /\ u[i].createdAt \in 0 .. count
  <2>1. CASE i \in 1 .. n
    <3>1. u[i] = t[i] /\ i \in DOMAIN t
      BY <1>1, <2>1
    <3>2. i > 1 => u[i - 1] = t[i - 1]
      <4>1. i > 1 => i - 1 \in 1 .. n
        BY <1>1, <2>1
      <4> QED
        BY <1>1, <4>1
    <3>3. /\ IsActivation(u[i]) /\ u[i].rule \in DOMAIN Rule /\ u[i].mode \in {"Normal", "Probe"}
          /\ u[i].next \in Nat /\ u[i].marker \in Nat
          /\ ~u[i].envelope => /\ i > 1 /\ u[i].mode = "Normal"
                               /\ KindOf(t[i - 1]) = "Reference"
      BY <3>1 DEF Chain
    <3>4. /\ IsStore(u[i].before) /\ u[i].before.entryRuleFlightBaseline = 0
          /\ i > 1 => u[i].before.entryRuleScopeDepth > 0
      BY <3>1 DEF Chain
    <3>5. u[i].start \in 0 .. cur /\ u[i].createdAt \in 0 .. count
      BY <3>1 DEF Bounded
    <3> QED
      BY <3>2, <3>3, <3>4, <3>5
  <2>2. CASE i = n + 1
    <3>1. u[i] = a
      BY <1>1, <2>2
    <3>2. t # <<>> => i > 1 /\ i - 1 = n /\ n \in 1 .. n
      BY <1>1, <2>2
    <3>3. t # <<>> => u[i - 1] = t[n]
      BY <1>1, <3>2
    <3>4. /\ IsActivation(a) /\ a.rule \in DOMAIN Rule /\ a.mode \in {"Normal", "Probe"}
          /\ a.next \in Nat /\ a.marker \in Nat /\ a.start = cur /\ a.createdAt = count
          /\ ~a.envelope => /\ t # <<>> /\ a.mode = "Normal" /\ KindOf(t[n]) = "Reference"
      BY <1>1a DEF Follows, n
    <3>5. cur \in 0 .. cur /\ count \in 0 .. count
      OBVIOUS
    <3>6. i > 1 => t # <<>>
      BY <1>1, <2>2
    <3>7. ~a.envelope => i > 1 /\ KindOf(u[i - 1]) = "Reference"
      BY <3>2, <3>3, <3>4
    <3> QED
      BY <3>1, <3>4, <3>5, <3>6, <3>7 DEF Sound
  <2> QED
    BY <1>1, <1>2, <2>1, <2>2
<1>4. ASSUME NEW i \in DOMAIN u, NEW j \in DOMAIN u, i <= j
      PROVE  u[i].start <= u[j].start /\ u[i].createdAt <= u[j].createdAt
  <2>1. CASE j \in 1 .. n
    <3>1. i \in 1 .. n
      BY <1>1, <1>4, <2>1
    <3>2. u[i] = t[i] /\ u[j] = t[j] /\ i \in DOMAIN t /\ j \in DOMAIN t
      BY <1>1, <2>1, <3>1
    <3> QED
      BY <1>4, <3>2 DEF Chain
  <2>2. CASE j = n + 1
    <3>1. u[j].start = cur /\ u[j].createdAt = count
      BY <1>1, <2>2 DEF Follows
    <3>2. u[i].start \in 0 .. cur /\ u[i].createdAt \in 0 .. count
      BY <1>3
    <3> QED
      BY <3>1, <3>2
  <2> QED
    BY <1>1, <1>2, <2>1, <2>2
<1>5. ASSUME NEW i \in DOMAIN u, NEW j \in DOMAIN u, i < j, u[i].envelope
      PROVE  Keeps(u[j].before, u[i].before)
  <2>0. i \in 1 .. n
    BY <1>1, <1>5
  <2>1. u[i] = t[i] /\ i \in DOMAIN t
    BY <1>1, <2>0
  <2>2. CASE j \in 1 .. n
    <3>1. u[j] = t[j] /\ j \in DOMAIN t
      BY <1>1, <2>2
    <3> QED
      BY <1>5, <2>1, <3>1 DEF Chain
  <2>3. CASE j = n + 1
    <3>1. u[j] = a
      BY <1>1, <2>3
    <3> QED
      BY <1>5, <2>1, <3>1 DEF KeptBy
  <2> QED
    BY <1>1, <1>2, <2>2, <2>3
<1>6. Chain(u)
  BY <1>1, <1>3, <1>4, <1>5 DEF Chain
<1>7. Bounded(u, cur, count)
  BY <1>3 DEF Bounded
<1> QED
  BY <1>6, <1>7 DEF u

LEMMA PushLive ==
  ASSUME NEW t, NEW a, NEW cur, NEW count, Chain(t), Follows(t, a, cur, count),
         Live(t, a.before, TRUE), Sound(a.before)
  PROVE  Live(Append(t, a), Opening(a), FALSE)
<1> DEFINE u == Append(t, a)
           n == Len(t)
           s == a.before
           o == Opening(a)
<1>1. /\ IsSeq(u) /\ n \in Nat /\ DOMAIN t = 1 .. n /\ DOMAIN u = 1 .. n + 1 /\ Len(u) = n + 1
      /\ u[n + 1] = a /\ \A i \in 1 .. n : u[i] = t[i]
      /\ t = <<>> <=> n = 0
  BY SeqAppend, SeqHas DEF Chain
<1>1a. \A i \in DOMAIN t : IsStore(t[i].before)
  BY DEF Chain
<1>2. /\ IsStore(s) /\ IsActivation(a)
      /\ t = <<>> => IsEntry(a) /\ s.flight = <<>>
      /\ t # <<>> => s.entryRuleScopeDepth > 0
  BY DEF Follows, Sound, Live
<1>3. s.entryRuleScopeDepth \in Nat
  BY <1>2 DEF IsStore
<1>4. s.entryRuleScopeDepth = 0 => s.flight = <<>>
  BY <1>2, <1>3
<1>5. /\ Level(a, FALSE, o) /\ (a.envelope => Keeps(o, s))
      /\ \A b : IsStore(b) /\ Keeps(s, b) => Keeps(o, b)
  BY <1>2, <1>4, OpeningHas
<1>6. \A i \in DOMAIN t : /\ t[i].envelope => Keeps(s, t[i].before)
                         /\ Level(t[i], InsideOf(t, i, TRUE), SeenBy(t, i, s))
  BY DEF Live, KeptBy, Levels
<1>7. n = Len(t)
  OBVIOUS
<1> HIDE DEF u, n, s, o
<1>8. 1 .. n + 1 = (1 .. n) \cup {n + 1} /\ n + 1 \notin 1 .. n
  BY <1>1
<1>9. o.entryRuleScopeDepth > 0
  <2>1. o.entryRuleScopeDepth = s.entryRuleScopeDepth + (IF IsEntry(a) THEN 1 ELSE 0)
    BY <1>5 DEF Level, s
  <2> QED
    BY <1>2, <1>3, <2>1
<1>10. ASSUME NEW i \in DOMAIN u, u[i].envelope PROVE Keeps(o, u[i].before)
  <2>1. CASE i \in 1 .. n
    <3>1. u[i] = t[i] /\ i \in DOMAIN t
      BY <1>1, <2>1
    <3>2. Keeps(s, u[i].before)
      BY <1>6, <1>10, <3>1
    <3> QED
      BY <1>1a, <1>5, <3>1, <3>2
  <2>2. CASE i = n + 1
    BY <1>1, <1>5, <1>10, <2>2 DEF s
  <2> QED
    BY <1>1, <1>8, <2>1, <2>2
<1>11. ASSUME NEW i \in DOMAIN u PROVE Level(u[i], InsideOf(u, i, FALSE), SeenBy(u, i, o))
  <2>0. i \in 1 .. n \/ i = n + 1
    BY <1>1, <1>8
  <2>1. CASE i \in 1 .. n
    <3>1. u[i] = t[i] /\ i \in DOMAIN t /\ i < n + 1
      BY <1>1, <2>1
    <3>2. InsideOf(u, i, FALSE) <=> InsideOf(t, i, TRUE)
      BY <1>1, <3>1 DEF InsideOf
    <3>3. SeenBy(u, i, o) = u[i + 1].before
      BY <1>1, <3>1 DEF SeenBy
    <3>4. u[i + 1].before = SeenBy(t, i, s)
      <4>1. CASE i < n
        <5>1. i + 1 \in 1 .. n
          BY <1>1, <2>1, <4>1
        <5> QED
          BY <1>1, <1>7, <4>1, <5>1 DEF SeenBy
      <4>2. CASE i = n
        <5>1. ~(i < n)
          BY <1>1, <4>2
        <5> QED
          BY <1>1, <1>7, <4>2, <5>1 DEF SeenBy, s
      <4> QED
        BY <1>1, <2>1, <4>1, <4>2
    <3>5. Level(t[i], InsideOf(t, i, TRUE), SeenBy(t, i, s))
      BY <1>6, <3>1
    <3> QED
      BY <3>1, <3>2, <3>3, <3>4, <3>5 DEF Level
  <2>2. CASE i = n + 1
    <3>1. ~(i < Len(u)) /\ u[i] = a
      BY <1>1, <2>2
    <3>2. ~InsideOf(u, i, FALSE) /\ SeenBy(u, i, o) = o
      BY <3>1 DEF InsideOf, SeenBy
    <3> QED
      BY <1>5, <3>1, <3>2 DEF Level
  <2> QED
    BY <2>0, <2>1, <2>2
<1> QED
  BY <1>9, <1>10, <1>11 DEF Live, KeptBy, Levels, u, o

LEMMA PushCounted ==
  ASSUME NEW t, NEW a, NEW cur, NEW count, NEW rec, NEW f, IsSeq(t), IsSeq(rec),
         Follows(t, a, cur, count), Live(t, a.before, TRUE), Sound(a.before),
         Counted(t, rec, a.before, TRUE)
  PROVE  LET rec1 == IF a.mode = "Normal" THEN Append(rec, f) ELSE rec
         IN  IsSeq(rec1) /\ Counted(Append(t, a), rec1, Opening(a), FALSE)
<1> DEFINE u == Append(t, a)
           n == Len(t)
           s == a.before
           o == Opening(a)
           rec1 == IF a.mode = "Normal" THEN Append(rec, f) ELSE rec
<1>1. n \in Nat /\ DOMAIN t = 1 .. n /\ (t = <<>> <=> n = 0)
  BY SeqHas
<1>2. /\ NormalIn(t) \in SUBSET (1 .. n) /\ EnvelopesIn(t) \in SUBSET (1 .. n)
      /\ EntriesIn(t) \in SUBSET (1 .. n)
  BY <1>1 DEF NormalIn, EnvelopesIn, EntriesIn
<1>3. /\ NormalIn(u) = IF a.mode = "Normal" THEN NormalIn(t) \cup {n + 1} ELSE NormalIn(t)
      /\ EnvelopesIn(u) = IF a.envelope THEN EnvelopesIn(t) \cup {n + 1} ELSE EnvelopesIn(t)
      /\ EntriesIn(u) = IF IsEntry(a) THEN EntriesIn(t) \cup {n + 1} ELSE EntriesIn(t)
      /\ InsidesIn(u, FALSE) = InsidesIn(t, TRUE)
  BY PushCounts
<1>4. /\ IsStore(s) /\ IsActivation(a)
      /\ t = <<>> => IsEntry(a) /\ s.flight = <<>>
      /\ t # <<>> => s.entryRuleScopeDepth > 0
  BY DEF Follows, Sound, Live
<1>5. s.entryRuleScopeDepth \in Nat
  BY <1>4 DEF IsStore
<1>6. s.entryRuleScopeDepth = 0 => s.flight = <<>>
  BY <1>4, <1>5
<1>7. Level(a, FALSE, o)
  BY <1>4, <1>6, OpeningHas
<1>8. /\ Len(rec) = Cardinality(NormalIn(t)) /\ Len(s.stack) = Cardinality(EnvelopesIn(t))
      /\ s.entryRuleScopeDepth = Cardinality(EntriesIn(t))
      /\ Len(s.delimiterBoundaries) = Cardinality(InsidesIn(t, TRUE))
  BY DEF Counted
<1>9. /\ Len(o.stack) = Len(s.stack) + (IF a.envelope THEN 1 ELSE 0)
      /\ o.entryRuleScopeDepth = s.entryRuleScopeDepth + (IF IsEntry(a) THEN 1 ELSE 0)
      /\ o.delimiterBoundaries = s.delimiterBoundaries
  BY <1>7 DEF Level
<1>10. /\ IsSeq(rec1)
       /\ Len(rec1) = IF a.mode = "Normal" THEN Len(rec) + 1 ELSE Len(rec)
  BY SeqAppend
<1>11. /\ Cardinality(NormalIn(t)) \in Nat /\ Cardinality(EnvelopesIn(t)) \in Nat
       /\ Cardinality(EntriesIn(t)) \in Nat
       /\ Cardinality(NormalIn(t) \cup {n + 1}) = Cardinality(NormalIn(t)) + 1
       /\ Cardinality(EnvelopesIn(t) \cup {n + 1}) = Cardinality(EnvelopesIn(t)) + 1
       /\ Cardinality(EntriesIn(t) \cup {n + 1}) = Cardinality(EntriesIn(t)) + 1
  BY <1>1, <1>2, CountMore
<1> HIDE DEF u, n, s, o, rec1
<1>12. Len(rec1) = Cardinality(NormalIn(u))
  BY <1>3, <1>8, <1>10, <1>11
<1>13. Len(o.stack) = Cardinality(EnvelopesIn(u))
  BY <1>3, <1>8, <1>9, <1>11
<1>14. o.entryRuleScopeDepth = Cardinality(EntriesIn(u))
  BY <1>3, <1>8, <1>9, <1>11
<1>15. Len(o.delimiterBoundaries) = Cardinality(InsidesIn(u, FALSE))
  BY <1>3, <1>8, <1>9
<1>16. Counted(u, rec1, o, FALSE)
  BY <1>12, <1>13, <1>14, <1>15 DEF Counted
<1> QED
  BY <1>10, <1>16 DEF u, o, rec1

(* A rule that is entered on a sound stack makes a sound stack.            *)
LEMMA PushLands ==
  ASSUME NEW t, NEW a, NEW cur, NEW count, NEW rec, NEW f,
         Lands(t, rec, a.before, cur, count, TRUE), Follows(t, a, cur, count)
  PROVE  Lands(Append(t, a), IF a.mode = "Normal" THEN Append(rec, f) ELSE rec, Opening(a),
               cur, count, FALSE)
<1> DEFINE rec1 == IF a.mode = "Normal" THEN Append(rec, f) ELSE rec
<1>1. /\ Chain(t) /\ Bounded(t, cur, count) /\ Sound(a.before) /\ IsSeq(rec)
      /\ cur \in 0 .. Len(input) /\ count \in Nat
      /\ Live(t, a.before, TRUE) /\ Counted(t, rec, a.before, TRUE)
  BY DEF Lands
<1>2. IsSeq(t) /\ cur \in Nat /\ KeptBy(t, a.before)
      /\ (t # <<>> => a.before.entryRuleScopeDepth > 0)
  BY <1>1 DEF Chain, Live
<1>3. Chain(Append(t, a)) /\ Bounded(Append(t, a), cur, count)
  BY <1>1, <1>2, PushChain
<1>4. Live(Append(t, a), Opening(a), FALSE)
  BY <1>1, <1>2, PushLive
<1>5. IsSeq(rec1) /\ Counted(Append(t, a), rec1, Opening(a), FALSE)
  BY <1>1, <1>2, PushCounted
<1>6. Sound(Opening(a))
  <2>1. /\ IsStore(a.before) /\ IsActivation(a)
        /\ t = <<>> => a.before.flight = <<>>
    BY <1>1 DEF Follows, Sound
  <2>2. a.before.entryRuleScopeDepth \in Nat
    BY <2>1 DEF IsStore
  <2>3. a.before.entryRuleScopeDepth = 0 => a.before.flight = <<>>
    BY <1>2, <2>1, <2>2
  <2> QED
    BY <1>1, <2>1, <2>3, OpeningHas
<1> HIDE DEF rec1
<1> QED
  BY <1>1, <1>3, <1>4, <1>5, <1>6 DEF Lands, rec1

-----------------------------------------------------------------------------
(* Staying in a rule: its locals change, and what it has said. *)

LEMMA AlikeChain ==
  ASSUME IInv, NEW t, Alike(t), NEW cur, NEW count, Ahead(cur, count)
  PROVE  Chain(t) /\ Bounded(t, cur, count)
<1>1. IsSeq(calls) /\ IsSeq(t) /\ Chain(calls) /\ Bounded(calls, cursor, created)
  BY InvHas DEF Alike, Chain
<1>2. DOMAIN t = DOMAIN calls /\ DOMAIN calls = 1 .. Len(calls) /\ Len(calls) \in Nat
  BY <1>1, AlikeCounts, SeqHas
<1>3. \A i \in DOMAIN calls :
        /\ IsActivation(t[i]) /\ t[i].rule = calls[i].rule /\ t[i].mode = calls[i].mode
        /\ t[i].envelope = calls[i].envelope /\ t[i].start = calls[i].start
        /\ t[i].createdAt = calls[i].createdAt /\ t[i].before = calls[i].before
        /\ t[i].next \in Nat /\ t[i].marker \in Nat
  BY DEF Alike
<1>4. ASSUME NEW i \in DOMAIN calls
      PROVE  /\ IsActivation(t[i]) /\ t[i].rule \in DOMAIN Rule /\ t[i].mode \in {"Normal", "Probe"}
             /\ t[i].next \in Nat /\ t[i].marker \in Nat
             /\ ~t[i].envelope => /\ i > 1 /\ t[i].mode = "Normal"
                                  /\ KindOf(t[i - 1]) = "Reference"
  <2>1. /\ calls[i].rule \in DOMAIN Rule /\ calls[i].mode \in {"Normal", "Probe"}
        /\ ~calls[i].envelope => /\ i > 1 /\ calls[i].mode = "Normal"
                                 /\ KindOf(calls[i - 1]) = "Reference"
    BY <1>1 DEF Chain
  <2>2. i > 1 => KindOf(t[i - 1]) = KindOf(calls[i - 1])
    <3>1. i > 1 => i - 1 \in DOMAIN calls
      BY <1>2
    <3> QED
      BY <1>3, <3>1 DEF KindOf
  <2>3. /\ IsActivation(t[i]) /\ t[i].rule = calls[i].rule /\ t[i].mode = calls[i].mode
        /\ t[i].envelope = calls[i].envelope /\ t[i].next \in Nat /\ t[i].marker \in Nat
    BY <1>3
  <2> QED
    BY <2>1, <2>2, <2>3
<1>5. \A i \in DOMAIN calls :
        /\ IsStore(t[i].before) /\ t[i].before.entryRuleFlightBaseline = 0
        /\ i > 1 => t[i].before.entryRuleScopeDepth > 0
  BY <1>1, <1>3 DEF Chain
<1>6. \A i, j \in DOMAIN calls : i <= j => /\ t[i].start <= t[j].start
                                          /\ t[i].createdAt <= t[j].createdAt
  BY <1>1, <1>3 DEF Chain
<1>7. \A i, j \in DOMAIN calls : i < j /\ t[i].envelope => Keeps(t[j].before, t[i].before)
  BY <1>1, <1>3 DEF Chain
<1>8. Chain(t)
  BY <1>1, <1>2, <1>4, <1>5, <1>6, <1>7 DEF Chain
<1>9. Bounded(t, cur, count)
  <2>1. cursor \in Nat /\ created \in Nat /\ cur \in Nat /\ count \in Nat
        /\ cursor <= cur /\ created <= count
    BY InputHas DEF Ahead, IInv, TypeOK
  <2>2. ASSUME NEW i \in DOMAIN calls
        PROVE  t[i].start \in 0 .. cur /\ t[i].createdAt \in 0 .. count
    <3>1. t[i].start \in 0 .. cursor /\ t[i].createdAt \in 0 .. created
      BY <1>1, <1>3 DEF Bounded
    <3> QED
      BY <2>1, <3>1
  <2> QED
    BY <1>2, <2>2 DEF Bounded
<1> QED
  BY <1>8, <1>9

LEMMA AlikeLive ==
  ASSUME IInv, Running, NEW t, Alike(t), NEW s, NEW c \in BOOLEAN,
         s.entryRuleScopeDepth = errs.entryRuleScopeDepth, KeptBy(calls, s),
         Level(top, KindOf(top) = "Nest" /\ c, s)
  PROVE  Live(t, s, c)
<1> DEFINE n == Len(calls)
<1>1. /\ calls # <<>> /\ n \in Nat \ {0} /\ DOMAIN calls = 1 .. n /\ IsSeq(calls)
      /\ calls[n] = top /\ Len(t) = n
  BY TopHas DEF Running, top, Alike
<1>2. DOMAIN t = DOMAIN calls
  BY <1>1, AlikeCounts
<1>3. Live(calls, errs, control = "resume")
  BY InvHas DEF Running
<1>4. \A i \in DOMAIN calls :
        /\ t[i].rule = calls[i].rule /\ t[i].mode = calls[i].mode
        /\ t[i].envelope = calls[i].envelope /\ t[i].before = calls[i].before
  BY DEF Alike
<1>5. n = Len(calls)
  OBVIOUS
<1> HIDE DEF n
<1>6. s.entryRuleScopeDepth > 0 /\ KeptBy(t, s)
  BY <1>1, <1>2, <1>3, <1>4 DEF Live, KeptBy
<1>7. ASSUME NEW i \in DOMAIN t PROVE Level(t[i], InsideOf(t, i, c), SeenBy(t, i, s))
  <2>0. i \in 1 .. n - 1 \/ i = n
    BY <1>1, <1>2
  <2>1. \A inside, u : Level(t[i], inside, u) <=> Level(calls[i], inside, u)
    BY <1>2, <1>4 DEF Level, IsEntry
  <2>2. CASE i \in 1 .. n - 1
    <3>1. i < n /\ i + 1 \in DOMAIN calls /\ i \in DOMAIN calls
      BY <1>1, <2>2
    <3>2. InsideOf(t, i, c) <=> InsideOf(calls, i, control = "resume")
      BY <1>1, <1>4, <1>5, <3>1 DEF InsideOf, KindOf
    <3>3. SeenBy(t, i, s) = SeenBy(calls, i, errs)
      BY <1>1, <1>4, <1>5, <3>1 DEF SeenBy
    <3>4. Level(calls[i], InsideOf(calls, i, control = "resume"), SeenBy(calls, i, errs))
      BY <1>3, <3>1 DEF Live, Levels
    <3> QED
      BY <2>1, <3>2, <3>3, <3>4, ZenonT(60) DEF Level
  <2>3. CASE i = n
    <3>1. ~(i < n) /\ i \in DOMAIN calls
      BY <1>1, <2>3
    <3>2. SeenBy(t, i, s) = s
      BY <1>1, <3>1 DEF SeenBy
    <3>3. InsideOf(t, i, c) <=> (KindOf(top) = "Nest" /\ c)
      BY <1>1, <1>4, <2>3, <3>1 DEF InsideOf, KindOf
    <3>4. Level(calls[i], KindOf(top) = "Nest" /\ c, s)
      BY <1>1, <2>3
    <3> QED
      BY <2>1, <3>2, <3>3, <3>4 DEF Level
  <2> QED
    BY <2>0, <2>2, <2>3
<1> QED
  BY <1>6, <1>7 DEF Live, Levels

LEMMA TopLevel ==
  ASSUME IInv, control \in {"begin", "loop", "resume", "leave"}
  PROVE  /\ Level(top, KindOf(top) = "Nest" /\ control = "resume", errs)
         /\ KindOf(top) = topRule.kind
<1>1. Len(calls) \in DOMAIN calls /\ Len(calls) \in Nat
  BY TopHas
<1>2. Levels(calls, errs, control = "resume")
  BY InvHas DEF Live
<1>3. ~(Len(calls) < Len(calls))
  BY <1>1
<1>4. /\ SeenBy(calls, Len(calls), errs) = errs
      /\ InsideOf(calls, Len(calls), control = "resume")
           <=> (KindOf(top) = "Nest" /\ control = "resume")
  BY <1>3 DEF SeenBy, InsideOf, top
<1>5. Level(top, InsideOf(calls, Len(calls), control = "resume"), errs)
  BY <1>1, <1>2, <1>4 DEF Levels, top
<1>6. KindOf(top) = topRule.kind
  BY DEF KindOf, topRule
<1> QED
  BY <1>4, <1>5, <1>6 DEF Level

LEMMA AlikeCounted ==
  ASSUME IInv, Running, NEW t, Alike(t), NEW s, NEW c \in BOOLEAN,
         Len(s.stack) = Len(errs.stack), s.entryRuleScopeDepth = errs.entryRuleScopeDepth,
         Len(s.delimiterBoundaries) = Cardinality(InsidesIn(calls, c))
  PROVE  Counted(t, recovery, s, c)
<1>1. IsSeq(calls) /\ Counted(calls, recovery, errs, control = "resume")
  BY InvHas DEF Running, Chain
<1>2. /\ NormalIn(t) = NormalIn(calls) /\ EnvelopesIn(t) = EnvelopesIn(calls)
      /\ EntriesIn(t) = EntriesIn(calls) /\ InsidesIn(t, c) = InsidesIn(calls, c)
  BY <1>1, AlikeCounts
<1> QED
  BY <1>1, <1>2 DEF Counted

(* Without a change of the delimiter boundaries. *)
LEMMA RemarkedLands ==
  ASSUME IInv, Running, NEW t, Alike(t), NEW s, Remarked(errs, s), NEW c \in BOOLEAN,
         topRule.kind # "Nest" \/ c = (control = "resume"),
         NEW cur, NEW count, Ahead(cur, count)
  PROVE  Lands(t, recovery, s, cur, count, c)
<1>1. /\ IsStore(s) /\ Len(s.stack) = Len(errs.stack)
      /\ s.delimiterBoundaries = errs.delimiterBoundaries
      /\ s.entryRuleScopeDepth = errs.entryRuleScopeDepth
      /\ s.entryRuleFlightBaseline = errs.entryRuleFlightBaseline
  BY DEF Remarked
<1>2. /\ Chain(calls) /\ Sound(errs) /\ Live(calls, errs, control = "resume")
      /\ Counted(calls, recovery, errs, control = "resume")
  BY InvHas DEF Running
<1>3. KeptBy(calls, s)
  <2>1. KeptBy(calls, errs) /\ IsStore(errs) /\ \A i \in DOMAIN calls : IsStore(calls[i].before)
    BY <1>2 DEF Live, Sound, Chain
  <2> QED
    BY <2>1, KeepsRemarked DEF KeptBy
<1>4. Level(top, KindOf(top) = "Nest" /\ c, s)
  <2>1. /\ Level(top, KindOf(top) = "Nest" /\ control = "resume", errs)
        /\ KindOf(top) = topRule.kind
    BY TopLevel DEF Running
  <2>2. (KindOf(top) = "Nest" /\ c) <=> (KindOf(top) = "Nest" /\ control = "resume")
    BY <2>1
  <2> QED
    BY <1>1, <2>1, <2>2 DEF Level
<1>5. Live(t, s, c)
  BY <1>1, <1>3, <1>4, AlikeLive
<1>6. InsidesIn(calls, c) = InsidesIn(calls, control = "resume")
  <2>1. CASE c = (control = "resume")
    BY <2>1
  <2>2. CASE topRule.kind # "Nest"
    <3>1. \A i \in DOMAIN calls : KindOf(calls[i]) = "Nest" => i < Len(calls)
      <4>1. Len(calls) \in Nat /\ DOMAIN calls = 1 .. Len(calls)
        BY TopHas DEF Running
      <4>2. KindOf(calls[Len(calls)]) # "Nest"
        BY <2>2 DEF KindOf, topRule, top
      <4> QED
        BY <4>1, <4>2
    <3> QED
      BY <3>1 DEF InsidesIn
  <2> QED
    BY <2>1, <2>2
<1>7. Counted(t, recovery, s, c)
  <2>1. Len(s.delimiterBoundaries) = Cardinality(InsidesIn(calls, c))
    BY <1>1, <1>2, <1>6 DEF Counted
  <2> QED
    BY <1>1, <2>1, AlikeCounted
<1>8. Chain(t) /\ Bounded(t, cur, count)
  BY AlikeChain
<1>9. cur \in 0 .. Len(input) /\ count \in Nat /\ IsSeq(recovery)
  BY InputHas DEF Ahead, IInv, Shape
<1> QED
  BY <1>1, <1>2, <1>5, <1>7, <1>8, <1>9 DEF Lands, Sound

(* The boundary of the nest that runs counts only while its body runs.     *)
LEMMA NestInsides ==
  ASSUME IInv, Running, topRule.kind = "Nest"
  PROVE  /\ Cardinality(InsidesIn(calls, FALSE)) \in Nat
         /\ Cardinality(InsidesIn(calls, TRUE)) = Cardinality(InsidesIn(calls, FALSE)) + 1
<1> DEFINE n == Len(calls)
           T == InsidesIn(calls, TRUE)
           F == InsidesIn(calls, FALSE)
<1>1. n \in Nat \ {0} /\ DOMAIN calls = 1 .. n /\ KindOf(calls[n]) = "Nest"
  BY TopHas DEF Running, KindOf, topRule, top
<1>2. n = Len(calls)
  OBVIOUS
<1> HIDE DEF n
<1>3. T = {i \in 1 .. n : KindOf(calls[i]) = "Nest"}
  BY <1>1 DEF InsidesIn
<1>4. F = {i \in 1 .. n : KindOf(calls[i]) = "Nest" /\ i < n}
  BY <1>1, <1>2 DEF InsidesIn
<1> HIDE DEF T, F
<1>5. \A i \in 1 .. n : i < n <=> i # n
  BY <1>1
<1>6. F = T \ {n}
  BY <1>3, <1>4, <1>5
<1>7. n \in 1 .. n
  BY <1>1
<1>8. n \in T /\ T \in SUBSET (1 .. n)
  BY <1>1, <1>3, <1>7
<1>9. Cardinality(T) \in Nat /\ Cardinality(T \ {n}) = Cardinality(T) - 1
  BY <1>1, <1>8, CountLess
<1>10. IsFiniteSet(F)
  <2>1. IsFiniteSet(1 .. n)
    BY <1>1, FS_Interval
  <2> QED
    BY <1>6, <1>8, <2>1, FS_Subset
<1>11. Cardinality(F) \in Nat
  BY <1>10, FS_CardinalityType
<1>12. Cardinality(T) = Cardinality(F) + 1
  BY <1>6, <1>9, <1>11
<1> QED
  BY <1>11, <1>12 DEF T, F

(* A nest that calls its child has opened its boundary. *)
LEMMA OpenedLands ==
  ASSUME IInv, Running, NEW t, Alike(t), topRule.kind = "Nest", control = "begin",
         NEW at, NEW cur, NEW count, Ahead(cur, count)
  PROVE  Lands(t, recovery, PushDelimiterBoundary(errs, at), cur, count, TRUE)
<1> DEFINE s == PushDelimiterBoundary(errs, at)
<1>2. /\ Chain(calls) /\ Sound(errs) /\ Live(calls, errs, FALSE)
      /\ Counted(calls, recovery, errs, FALSE)
  <2>1. (control = "resume") = FALSE
    OBVIOUS
  <2> QED
    BY <2>1, InvHas DEF Running
<1>1. /\ IsStore(s) /\ s.stack = errs.stack /\ s.flight = errs.flight /\ s.Errors = errs.Errors
      /\ s.delimiterBoundaries # <<>>
      /\ Len(s.delimiterBoundaries) = Len(errs.delimiterBoundaries) + 1
      /\ Pop(s.delimiterBoundaries) = errs.delimiterBoundaries
      /\ s.entryRuleScopeDepth = errs.entryRuleScopeDepth
      /\ s.entryRuleFlightBaseline = errs.entryRuleFlightBaseline
  BY <1>2, PushBoundary DEF Sound
<1> HIDE DEF s
<1>3. KeptBy(calls, s)
  BY <1>1, <1>2, KeepsSameErrors DEF Live, KeptBy
<1>4. Level(top, KindOf(top) = "Nest" /\ TRUE, s)
  <2>1. Level(top, FALSE, errs) /\ KindOf(top) = "Nest"
    <3>1. (KindOf(top) = "Nest" /\ control = "resume") = FALSE
      OBVIOUS
    <3> QED
      BY <3>1, TopLevel DEF Running
  <2>2. (KindOf(top) = "Nest" /\ TRUE) = TRUE
    BY <2>1
  <2> QED
    BY <1>1, <2>1, <2>2 DEF Level
<1>5. Live(t, s, TRUE)
  BY <1>1, <1>3, <1>4, AlikeLive
<1>6. Len(s.delimiterBoundaries) = Cardinality(InsidesIn(calls, TRUE))
  <2>6. /\ Cardinality(InsidesIn(calls, FALSE)) \in Nat
        /\ Cardinality(InsidesIn(calls, TRUE)) = Cardinality(InsidesIn(calls, FALSE)) + 1
    BY NestInsides
  <2>7. Len(errs.delimiterBoundaries) = Cardinality(InsidesIn(calls, FALSE))
    BY <1>2 DEF Counted
  <2>8. Len(s.delimiterBoundaries) = Len(errs.delimiterBoundaries) + 1
    BY <1>1
  <2> QED
    BY <2>6, <2>7, <2>8
<1>7. Counted(t, recovery, s, TRUE)
  <2>1. Len(s.stack) = Len(errs.stack)
    BY <1>1
  <2> QED
    BY <1>1, <1>6, <2>1, AlikeCounted
<1>8. Chain(t) /\ Bounded(t, cur, count)
  BY AlikeChain
<1>9. cur \in 0 .. Len(input) /\ count \in Nat /\ IsSeq(recovery)
  BY InputHas DEF Ahead, IInv, Shape
<1>10. Lands(t, recovery, s, cur, count, TRUE)
  BY <1>1, <1>2, <1>5, <1>7, <1>8, <1>9 DEF Lands, Sound
<1> QED
  BY <1>10 DEF s

(* A nest that returns has closed it. *)
LEMMA ClosedLands ==
  ASSUME IInv, Running, topRule.kind = "Nest", control = "resume",
         NEW q, Remarked(errs, q), NEW cur, NEW count, Ahead(cur, count)
  PROVE  Lands(calls, recovery, PopDelimiterBoundary(q), cur, count, FALSE)
<1> DEFINE s == PopDelimiterBoundary(q)
<1>0. /\ IsStore(q) /\ Len(q.stack) = Len(errs.stack)
      /\ q.delimiterBoundaries = errs.delimiterBoundaries
      /\ q.entryRuleScopeDepth = errs.entryRuleScopeDepth
      /\ q.entryRuleFlightBaseline = errs.entryRuleFlightBaseline
  BY DEF Remarked
<1>2. /\ Chain(calls) /\ Sound(errs) /\ Live(calls, errs, TRUE)
      /\ Counted(calls, recovery, errs, TRUE)
  <2>1. (control = "resume") = TRUE
    OBVIOUS
  <2> QED
    BY <2>1, InvHas DEF Running
<1>2a. Level(top, TRUE, errs) /\ KindOf(top) = "Nest"
  <2>1. (KindOf(top) = "Nest" /\ control = "resume") = TRUE
    BY DEF KindOf, topRule
  <2> QED
    BY <2>1, TopLevel DEF Running
<1>2b. errs.delimiterBoundaries # <<>>
       /\ Pop(errs.delimiterBoundaries) = top.before.delimiterBoundaries
  BY <1>2a DEF Level
<1>1. /\ IsStore(s) /\ s.stack = q.stack /\ s.flight = q.flight /\ s.Errors = q.Errors
      /\ s.delimiterBoundaries = Pop(q.delimiterBoundaries)
      /\ s.entryRuleScopeDepth = q.entryRuleScopeDepth
      /\ s.entryRuleFlightBaseline = q.entryRuleFlightBaseline
  BY <1>0, <1>2b, PopBoundary
<1> HIDE DEF s
<1>3. KeptBy(calls, s)
  <2>1. KeptBy(calls, errs) /\ IsStore(errs) /\ \A i \in DOMAIN calls : IsStore(calls[i].before)
    BY <1>2 DEF Live, Sound, Chain
  <2>2. KeptBy(calls, q)
    BY <2>1, KeepsRemarked DEF KeptBy
  <2> QED
    BY <1>1, <2>2, KeepsSameErrors DEF KeptBy
<1>4. Level(top, KindOf(top) = "Nest" /\ FALSE, s)
  BY <1>0, <1>1, <1>2a, <1>2b DEF Level
<1>4a. Alike(calls)
  BY AlikeSelf
<1>5. Live(calls, s, FALSE)
  BY <1>0, <1>1, <1>3, <1>4, <1>4a, AlikeLive
<1>6. Len(s.delimiterBoundaries) = Cardinality(InsidesIn(calls, FALSE))
  <2>6. /\ Cardinality(InsidesIn(calls, FALSE)) \in Nat
        /\ Cardinality(InsidesIn(calls, TRUE)) = Cardinality(InsidesIn(calls, FALSE)) + 1
    BY NestInsides
  <2>7. Len(errs.delimiterBoundaries) = Cardinality(InsidesIn(calls, TRUE))
    BY <1>2 DEF Counted
  <2>8. Len(s.delimiterBoundaries) = Len(errs.delimiterBoundaries) - 1
    <3> DEFINE b == errs.delimiterBoundaries
    <3>1. IsSeq(b) /\ b # <<>> /\ s.delimiterBoundaries = Pop(b)
      BY <1>0, <1>1, <1>2, <1>2b DEF Sound, IsStore
    <3> HIDE DEF b
    <3>2. Len(s.delimiterBoundaries) = Len(b) - 1
      BY <3>1, SeqPop
    <3> QED
      BY <3>2 DEF b
  <2> DEFINE k == Cardinality(InsidesIn(calls, FALSE))
             m == Cardinality(InsidesIn(calls, TRUE))
             l == Len(s.delimiterBoundaries)
             e == Len(errs.delimiterBoundaries)
  <2>9. k \in Nat /\ m = k + 1 /\ e = m /\ l = e - 1
    BY <2>6, <2>7, <2>8
  <2> HIDE DEF k, m, l, e
  <2>10. l = k
    BY <2>9
  <2> QED
    BY <2>10 DEF k, l
<1>7. Counted(calls, recovery, s, FALSE)
  <2>1. Len(s.stack) = Len(errs.stack)
    BY <1>0, <1>1
  <2> QED
    BY <1>0, <1>1, <1>4a, <1>6, <2>1, AlikeCounted
<1>8. Chain(calls) /\ Bounded(calls, cur, count)
  BY <1>4a, AlikeChain
<1>9. cur \in 0 .. Len(input) /\ count \in Nat /\ IsSeq(recovery)
  BY InputHas DEF Ahead, IInv, Shape
<1>10. Lands(calls, recovery, s, cur, count, FALSE)
  BY <1>0, <1>1, <1>2, <1>5, <1>7, <1>8, <1>9 DEF Lands, Sound
<1> QED
  BY <1>10 DEF s

-----------------------------------------------------------------------------
(* The moves of a body keep the invariant. *)

LEMMA NoResultIs == NoResult \in Results
  BY DEF NoResult, Success, Results

(* Enter, with the stack, the caller's frame and the store given.          *)
LEMMA EnterInv ==
  ASSUME IInv, NEW t, NEW r \in DOMAIN Rule, NEW mode \in {"Normal", "Probe"},
         NEW cur, NEW s, NEW count, Lands(t, recovery, s, cur, count, TRUE),
         t = <<>> => mode = "Normal" /\ IsProgramRule(r) /\ s.flight = <<>>,
         Enter(t, r, mode, cur, s, count)
  PROVE  IInv'
<1> DEFINE a == Activation(r, mode, TRUE, cur, s, count)
           f == RecoveryFrame(Rule[r])
<1>1. /\ IsActivation(a) /\ a.rule = r /\ a.mode = mode /\ a.envelope = TRUE
      /\ a.start = cur /\ a.createdAt = count /\ a.before = s /\ a.next = 0 /\ a.marker = 0
  BY DEF Activation, IsActivation, ActivationFields
<1>2. /\ calls' = Append(t, a)
      /\ recovery' = IF mode = "Normal" THEN Append(recovery, f) ELSE recovery
      /\ cursor' = cur /\ created' = count /\ parser' = parser /\ input' = input
      /\ control' = "begin" /\ ret' = NoResult
      /\ errs' = pushFrame(IF mode = "Normal" /\ IsProgramRule(r) THEN BeginEntryRuleScope(s)
                           ELSE s)
  BY DEF Enter, Effect
<1> HIDE DEF a, f
<1>3. Follows(t, a, cur, count)
  BY <1>1 DEF Follows, IsEntry
<1>4. errs' = Opening(a)
  BY <1>1, <1>2 DEF Opening, IsEntry
<1>5. Lands(t, recovery, a.before, cur, count, TRUE)
  BY <1>1
<1>6. Lands(Append(t, a), IF a.mode = "Normal" THEN Append(recovery, f) ELSE recovery,
            Opening(a), cur, count, FALSE)
  BY <1>3, <1>5, PushLands
<1>7. (control' = "resume") = FALSE
  BY <1>2
<1>8. Lands(calls', recovery', errs', cursor', created', control' = "resume")
  BY <1>1, <1>2, <1>4, <1>6, <1>7
<1>9. calls' # <<>>
  BY <1>2, <1>5, SeqAppend DEF Lands, Chain
<1> QED
  BY <1>2, <1>8, <1>9, NoResultIs, Arrives

LEMMA CallsInv ==
  ASSUME IInv, Running, NEW a, NEW r, NEW mode, NEW cur, NEW s, NEW count,
         Calls(a, r, mode, cur, s, count)
  PROVE  IInv'
<1> DEFINE t == Append(Pop(calls), a)
<1>1. /\ Same(a) /\ r \in DOMAIN Rule /\ mode \in {"Normal", "Probe"}
      /\ Ahead(cur, count) /\ Opened(s) /\ Enter(t, r, mode, cur, s, count)
  BY DEF Calls, Call
<1>2. Alike(t)
  BY <1>1, AlikeTop
<1>3. t # <<>>
  <2>1. IsSeq(Pop(calls))
    BY TopHas, SeqPop DEF Running
  <2> QED
    BY <2>1, SeqAppend
<1> HIDE DEF t
<1>4. Lands(t, recovery, s, cur, count, TRUE)
  <2>1. CASE topRule.kind = "Nest"
    <3>1. PICK n : s = PushDelimiterBoundary(errs, n)
      BY <1>1, <2>1 DEF Opened
    <3>2. control = "begin"
      BY <1>1, <2>1 DEF Opened
    <3>3. Lands(t, recovery, PushDelimiterBoundary(errs, n), cur, count, TRUE)
      BY <1>1, <1>2, <2>1, <3>2, OpenedLands
    <3> QED
      BY <3>1, <3>3
  <2>2. CASE topRule.kind # "Nest"
    <3>1. Remarked(errs, s)
      BY <1>1, <2>2 DEF Opened
    <3> QED
      BY <1>1, <1>2, <2>2, <3>1, RemarkedLands
  <2> QED
    BY <2>1, <2>2
<1> QED
  BY <1>1, <1>3, <1>4, EnterInv

LEMMA ContinuesInv ==
  ASSUME IInv, Running, NEW a, NEW cur, NEW s, NEW count, Continues(a, cur, s, count)
  PROVE  IInv'
<1> DEFINE t == Append(Pop(calls), a)
<1>1. /\ topRule.kind # "Nest" /\ Same(a) /\ Ahead(cur, count) /\ Remarked(errs, s)
      /\ calls' = t /\ control' = "loop" /\ UNCHANGED <<ret, recovery>>
      /\ cursor' = cur /\ errs' = s /\ created' = count /\ parser' = parser /\ input' = input
  BY DEF Continues, Continue, Effect
<1>2. Alike(t)
  BY <1>1, AlikeTop
<1>3. t # <<>>
  <2>1. IsSeq(Pop(calls))
    BY TopHas, SeqPop DEF Running
  <2> QED
    BY <2>1, SeqAppend
<1> HIDE DEF t
<1>4. Lands(t, recovery, s, cur, count, FALSE)
  BY <1>1, <1>2, RemarkedLands
<1>5. (control' = "resume") = FALSE
  BY <1>1
<1>6. Lands(calls', recovery', errs', cursor', created', control' = "resume")
  BY <1>1, <1>4, <1>5
<1>7. ret' \in Results
  BY <1>1, RetIsResult
<1> QED
  BY <1>1, <1>3, <1>6, <1>7, Arrives

LEMMA ReturnsInv ==
  ASSUME IInv, Running, NEW result, NEW cur, NEW s, NEW count, Returns(result, cur, s, count)
  PROVE  IInv'
<1>1. /\ result \in Results /\ Ahead(cur, count) /\ Closed(s)
      /\ ret' = result /\ control' = "leave" /\ UNCHANGED <<calls, recovery>>
      /\ cursor' = cur /\ errs' = s /\ created' = count /\ parser' = parser /\ input' = input
  BY DEF Returns, Return, Effect
<1>2. Lands(calls, recovery, s, cur, count, FALSE)
  <2>1. CASE topRule.kind = "Nest" /\ control = "resume"
    <3>1. PICK q : Remarked(errs, q) /\ s = PopDelimiterBoundary(q)
      BY <1>1, <2>1 DEF Closed
    <3>2. Lands(calls, recovery, PopDelimiterBoundary(q), cur, count, FALSE)
      BY <1>1, <2>1, <3>1, ClosedLands
    <3> QED
      BY <3>1, <3>2
  <2>2. CASE ~(topRule.kind = "Nest" /\ control = "resume")
    <3>1. Remarked(errs, s)
      BY <1>1, <2>2 DEF Closed
    <3>2. topRule.kind # "Nest" \/ FALSE = (control = "resume")
      BY <2>2
    <3>3. Alike(calls)
      BY AlikeSelf
    <3> QED
      BY <1>1, <3>1, <3>2, <3>3, RemarkedLands
  <2> QED
    BY <2>1, <2>2
<1>3. (control' = "resume") = FALSE
  BY <1>1
<1>4. Lands(calls', recovery', errs', cursor', created', control' = "resume")
  BY <1>1, <1>2, <1>3
<1>5. calls' # <<>>
  BY <1>1, TopHas DEF Running
<1> QED
  BY <1>1, <1>4, <1>5, Arrives

(* A reference runs its target in its own frame. *)
LEMMA RefersInv ==
  ASSUME IInv, Running, Refers
  PROVE  IInv'
<1> DEFINE r == Registry[topRule.target].rule
           a == Activation(r, "Normal", FALSE, cursor, errs, created)
           f == RecoveryFrame(Registry[topRule.target])
<1>1. /\ topRule.kind = "Reference" /\ r \in DOMAIN Rule
      /\ calls' = Append(calls, a) /\ recovery' = Append(recovery, f)
      /\ control' = "begin" /\ ret' = NoResult
      /\ cursor' = cursor /\ errs' = errs /\ created' = created
      /\ parser' = parser /\ input' = input
  BY DEF Refers, ExecuteReference, Effect
<1>2. /\ IsActivation(a) /\ a.rule = r /\ a.mode = "Normal" /\ a.envelope = FALSE
      /\ a.start = cursor /\ a.createdAt = created /\ a.before = errs
      /\ a.next = 0 /\ a.marker = 0
  BY DEF Activation, IsActivation, ActivationFields
<1>3. calls # <<>> /\ KindOf(calls[Len(calls)]) = "Reference"
  BY <1>1, TopHas DEF Running, KindOf, topRule, top
<1> HIDE DEF a, f, r
<1>4. Follows(calls, a, cursor, created)
  BY <1>1, <1>2, <1>3 DEF Follows
<1>5. Lands(calls, recovery, a.before, cursor, created, TRUE)
  <2>1. Remarked(errs, errs) /\ Ahead(cursor, created) /\ Alike(calls)
    BY NothingSaid, HereIsAhead, AlikeSelf
  <2>2. Lands(calls, recovery, errs, cursor, created, TRUE)
    BY <1>1, <2>1, RemarkedLands
  <2> QED
    BY <1>2, <2>2
<1>6. Lands(Append(calls, a), IF a.mode = "Normal" THEN Append(recovery, f) ELSE recovery,
            Opening(a), cursor, created, FALSE)
  BY <1>4, <1>5, PushLands
<1>7. Opening(a) = errs
  BY <1>2 DEF Opening
<1>8. (control' = "resume") = FALSE
  BY <1>1
<1>9. Lands(calls', recovery', errs', cursor', created', control' = "resume")
  BY <1>1, <1>2, <1>6, <1>7, <1>8
<1>10. calls' # <<>>
  BY <1>1, <1>5, SeqAppend DEF Lands, Chain
<1> QED
  BY <1>1, <1>9, <1>10, NoResultIs, Arrives

(* A rule that breaks its contract stops everything. *)
LEMMA PanicInv ==
  ASSUME IInv, calls # <<>>, control' = "panic", Sound(errs'),
         UNCHANGED <<parser, input, cursor, calls, ret, recovery, created>>
  PROVE  IInv'
<1>1. Typed'
  BY DEF Typed, IInv, TypeOK, Results
<1>2. /\ Chain(calls) /\ Bounded(calls, cursor, created) /\ IsSeq(recovery)
  BY InvHas DEF IInv, Shape
<1>3. Chain(calls)'
  <2>1. Rule' = Rule
    BY DEF Rule
  <2>2. \A i \in DOMAIN calls : KindOf(calls[i - 1])' = KindOf(calls[i - 1])
    BY <2>1 DEF KindOf
  <2> QED
    BY <1>2, <2>1, <2>2 DEF Chain
<1>4. Bounded(calls, cursor, created)' /\ IsSeq(recovery)' /\ Sound(errs)'
  BY <1>2 DEF Bounded, IsSeq, Sound
<1> QED
  BY <1>1, <1>3, <1>4, InvNow DEF InvParts

LEMMA BodyInv == ASSUME IInv, BodyStep PROVE IInv'
<1>1. BodyMoves /\ Running
  BY BodyStepMoves DEF BodyMoves
<1>2. CASE \E a, r, mode, cur, s, count : Calls(a, r, mode, cur, s, count)
  BY <1>1, <1>2, CallsInv
<1>3. CASE \E a, cur, s, count : Continues(a, cur, s, count)
  BY <1>1, <1>3, ContinuesInv
<1>4. CASE \E result, cur, s, count : Returns(result, cur, s, count)
  BY <1>1, <1>4, ReturnsInv
<1>5. CASE Refers
  BY <1>1, <1>5, RefersInv
<1>6. CASE Panics
  <2>1. calls # <<>> /\ Sound(errs)
    BY <1>1, TopHas, InvHas DEF Running
  <2>2. /\ control' = "panic" /\ errs' = errs
        /\ UNCHANGED <<parser, input, cursor, calls, ret, recovery, created>>
    BY <1>6 DEF Panics
  <2> QED
    BY <2>1, <2>2, PanicInv
<1> QED
  BY <1>1, <1>2, <1>3, <1>4, <1>5, <1>6 DEF BodyMoves

LEMMA StartInv == ASSUME IInv, StartParse PROVE IInv'
<1>1. control = "idle" /\ Enter(<<>>, program, "Normal", cursor, errs, created)
  BY DEF StartParse
<1>2. /\ recovery = <<>> /\ errs = SyntaxErrorsCreate /\ Sound(errs)
  BY <1>1, InvHas DEF IInv, Fresh
<1>3. /\ errs.stack = <<>> /\ errs.entryRuleScopeDepth = 0 /\ errs.delimiterBoundaries = <<>>
      /\ errs.flight = <<>>
  BY <1>2 DEF SyntaxErrorsCreate
<1>4. Lands(<<>>, recovery, errs, cursor, created, TRUE)
  BY <1>2, <1>3, EmptyLands
<1>5. program \in DOMAIN Rule /\ IsProgramRule(program)
  BY EngineAssumption DEF IInv, TypeOK, Rule, program, IsProgramRule
<1> QED
  BY <1>1, <1>3, <1>4, <1>5, EnterInv

-----------------------------------------------------------------------------
(* Leaving a rule. *)

LEMMA LeaveHas ==
  ASSUME IInv, control = "leave"
  PROVE  /\ Live(calls, errs, FALSE) /\ Counted(calls, recovery, errs, FALSE)
         /\ Level(top, FALSE, errs) /\ Chain(calls) /\ Sound(errs)
         /\ IsStore(top.before) /\ top.before.entryRuleFlightBaseline = 0
         /\ IsActivation(top) /\ (top.envelope => Keeps(errs, top.before))
<1>1. (control = "resume") = FALSE
  OBVIOUS
<1>2. /\ Live(calls, errs, FALSE) /\ Counted(calls, recovery, errs, FALSE)
      /\ Chain(calls) /\ Sound(errs)
  BY <1>1, InvHas
<1>3. Level(top, FALSE, errs)
  <2>1. (KindOf(top) = "Nest" /\ control = "resume") = FALSE
    BY <1>1
  <2> QED
    BY <2>1, TopLevel
<1>4. Len(calls) \in DOMAIN calls
  BY TopHas
<1>5. /\ IsStore(top.before) /\ top.before.entryRuleFlightBaseline = 0
      /\ IsActivation(top)
  BY <1>2, <1>4 DEF Chain, top
<1>6. top.envelope => Keeps(errs, top.before)
  BY <1>2, <1>4 DEF Live, KeptBy, top
<1> QED
  BY <1>2, <1>3, <1>5, <1>6

(* A store that a rule may leave to its caller: the frames, the scopes and *)
(* the boundaries are those the rule has found, and what the callers own   *)
(* is intact.                                                              *)
Hands(s) ==
  /\ Sound(s) /\ Len(s.stack) = Len(top.before.stack)
  /\ s.entryRuleScopeDepth = top.before.entryRuleScopeDepth
  /\ s.delimiterBoundaries = top.before.delimiterBoundaries
  /\ \A i \in 1 .. Len(calls) - 1 : calls[i].envelope => Keeps(s, calls[i].before)

LEMMA PopChain ==
  ASSUME IInv, control = "leave", NEW cur, NEW count, cur \in top.start .. Len(input),
         count \in Nat, top.createdAt <= count
  PROVE  Chain(Pop(calls)) /\ Bounded(Pop(calls), cur, count)
<1> DEFINE u == Pop(calls)
           n == Len(calls)
<1>1. calls # <<>> /\ IsSeq(calls) /\ n \in Nat \ {0} /\ DOMAIN calls = 1 .. n
      /\ calls[n] = top
  BY TopHas DEF top
<1>2. IsSeq(u) /\ DOMAIN u = 1 .. n - 1 /\ \A i \in 1 .. n - 1 : u[i] = calls[i]
  BY <1>1, SeqPop
<1>3. Chain(calls) /\ Bounded(calls, cursor, created)
  BY InvHas
<1> HIDE DEF u, n
<1>4. ASSUME NEW i \in DOMAIN u
      PROVE  i \in DOMAIN calls /\ i <= n /\ i \in 1 .. n - 1 /\ n \in DOMAIN calls
  BY <1>1, <1>2
<1>5. ASSUME NEW i \in DOMAIN u
      PROVE  /\ IsActivation(u[i]) /\ u[i].rule \in DOMAIN Rule /\ u[i].mode \in {"Normal", "Probe"}
             /\ u[i].next \in Nat /\ u[i].marker \in Nat
             /\ ~u[i].envelope => /\ i > 1 /\ u[i].mode = "Normal"
                                  /\ KindOf(u[i - 1]) = "Reference"
  <2>1. u[i] = calls[i] /\ i \in DOMAIN calls
    BY <1>2, <1>4
  <2>2. i > 1 => u[i - 1] = calls[i - 1]
    <3>1. i > 1 => i - 1 \in 1 .. n - 1
      BY <1>1, <1>4
    <3> QED
      BY <1>2, <3>1
  <2>3. /\ IsActivation(calls[i]) /\ calls[i].rule \in DOMAIN Rule
        /\ calls[i].mode \in {"Normal", "Probe"}
        /\ calls[i].next \in Nat /\ calls[i].marker \in Nat
        /\ ~calls[i].envelope => /\ i > 1 /\ calls[i].mode = "Normal"
                                 /\ KindOf(calls[i - 1]) = "Reference"
    BY <1>3, <2>1 DEF Chain
  <2> QED
    BY <2>1, <2>2, <2>3
<1>6. \A i \in DOMAIN u :
        /\ IsStore(u[i].before) /\ u[i].before.entryRuleFlightBaseline = 0
        /\ i > 1 => u[i].before.entryRuleScopeDepth > 0
  BY <1>2, <1>3, <1>4 DEF Chain
<1>7. \A i, j \in DOMAIN u : i <= j => /\ u[i].start <= u[j].start
                                      /\ u[i].createdAt <= u[j].createdAt
  BY <1>2, <1>3, <1>4 DEF Chain
<1>8. \A i, j \in DOMAIN u : i < j /\ u[i].envelope => Keeps(u[j].before, u[i].before)
  BY <1>2, <1>3, <1>4 DEF Chain
<1>9. Chain(u)
  BY <1>2, <1>5, <1>6, <1>7, <1>8 DEF Chain
<1>10. Bounded(u, cur, count)
  <2>1. ASSUME NEW i \in DOMAIN u PROVE u[i].start \in 0 .. cur /\ u[i].createdAt \in 0 .. count
    <3>1. u[i] = calls[i] /\ i \in DOMAIN calls /\ n \in DOMAIN calls /\ i <= n
      BY <1>2, <1>4
    <3>2. u[i].start <= top.start /\ u[i].createdAt <= top.createdAt
      BY <1>1, <1>3, <3>1 DEF Chain
    <3>3. /\ u[i].start \in 0 .. cursor /\ u[i].createdAt \in 0 .. created
          /\ top.start \in 0 .. cursor /\ top.createdAt \in 0 .. created
      BY <1>1, <1>3, <3>1 DEF Bounded
    <3>4. cursor \in Nat /\ created \in Nat /\ Len(input) \in Nat
      BY InputHas DEF IInv, TypeOK
    <3> QED
      BY <3>2, <3>3, <3>4
  <2> QED
    BY <2>1 DEF Bounded
<1> QED
  BY <1>9, <1>10 DEF u

LEMMA PopLive ==
  ASSUME IInv, control = "leave", NEW s, Hands(s), NEW c \in BOOLEAN,
         ~c /\ Len(calls) > 1 => KindOf(calls[Len(calls) - 1]) # "Nest"
  PROVE  Live(Pop(calls), s, c)
<1> DEFINE u == Pop(calls)
           n == Len(calls)
<1>1. calls # <<>> /\ IsSeq(calls) /\ n \in Nat \ {0} /\ DOMAIN calls = 1 .. n
      /\ calls[n] = top
  BY TopHas DEF top
<1>2. /\ IsSeq(u) /\ DOMAIN u = 1 .. n - 1 /\ Len(u) = n - 1
      /\ \A i \in 1 .. n - 1 : u[i] = calls[i]
  BY <1>1, SeqPop
<1>3. Chain(calls) /\ Levels(calls, errs, FALSE)
  BY LeaveHas DEF Live
<1>4. n = Len(calls)
  OBVIOUS
<1> HIDE DEF u, n
<1>5. u # <<>> => s.entryRuleScopeDepth > 0
  <2>1. u # <<>> => n > 1
    <3>1. u = <<>> <=> Len(u) = 0
      BY <1>2, SeqHas
    <3> QED
      BY <1>1, <1>2, <3>1
  <2>2. n \in DOMAIN calls
    BY <1>1
  <2>3. n > 1 => top.before.entryRuleScopeDepth > 0
    BY <1>1, <1>3, <2>2 DEF Chain
  <2> QED
    BY <2>1, <2>3 DEF Hands
<1>6. KeptBy(u, s)
  BY <1>2, <1>4 DEF KeptBy, Hands
<1>7. ASSUME NEW i \in 1 .. n - 1 PROVE Level(u[i], InsideOf(u, i, c), SeenBy(u, i, s))
  <2>1. u[i] = calls[i] /\ i \in DOMAIN calls /\ i < n /\ i + 1 \in DOMAIN calls
    BY <1>1, <1>2
  <2>2. Level(u[i], InsideOf(calls, i, FALSE), SeenBy(calls, i, errs))
    BY <1>3, <2>1 DEF Levels
  <2>3. SeenBy(calls, i, errs) = calls[i + 1].before
    BY <1>4, <2>1 DEF SeenBy
  <2>4. InsideOf(calls, i, FALSE) <=> KindOf(u[i]) = "Nest"
    BY <1>4, <2>1 DEF InsideOf
  <2>5. CASE i < n - 1
    <3>1. i + 1 \in 1 .. n - 1
      BY <1>1, <2>5
    <3>2. SeenBy(u, i, s) = calls[i + 1].before
      BY <1>2, <2>5, <3>1 DEF SeenBy
    <3>3. InsideOf(u, i, c) <=> KindOf(u[i]) = "Nest"
      BY <1>2, <2>5 DEF InsideOf
    <3> QED
      BY <2>2, <2>3, <2>4, <3>2, <3>3 DEF Level
  <2>6. CASE i = n - 1
    <3>1. i + 1 = n /\ ~(i < n - 1)
      BY <1>1, <2>6
    <3>2. SeenBy(u, i, s) = s
      BY <1>2, <3>1 DEF SeenBy
    <3>3. InsideOf(u, i, c) <=> KindOf(u[i]) = "Nest"
      <4>1. c \/ KindOf(u[i]) # "Nest"
        <5>1. n > 1
          BY <1>1, <2>1, <2>6
        <5> QED
          BY <1>4, <2>1, <2>6, <5>1
      <4> QED
        BY <1>2, <3>1, <4>1 DEF InsideOf
    <3>4. SeenBy(calls, i, errs) = top.before
      BY <1>1, <2>3, <3>1
    <3>5. Level(u[i], InsideOf(calls, i, FALSE), top.before)
      BY <2>2, <3>4
    <3> QED
      BY <2>4, <3>2, <3>3, <3>5 DEF Level, Hands
  <2> QED
    BY <1>1, <2>5, <2>6
<1> QED
  BY <1>2, <1>5, <1>6, <1>7 DEF Live, Levels, u

LEMMA CountPop ==
  ASSUME NEW n \in Nat, NEW T \in SUBSET (1 .. n), NEW p \in BOOLEAN, p <=> n \in T,
         NEW x \in Nat, Cardinality(T) = x + (IF p THEN 1 ELSE 0)
  PROVE  Cardinality(T \ {n}) = x
<1>1. CASE p
  <2>1. n \in T
    BY <1>1
  <2>2. Cardinality(T) \in Nat /\ Cardinality(T \ {n}) = Cardinality(T) - 1
    BY <2>1, CountLess
  <2>3. Cardinality(T) = x + 1
    BY <1>1
  <2> QED
    BY <2>2, <2>3
<1>2. CASE ~p
  <2>1. T \ {n} = T
    BY <1>2
  <2>2. Cardinality(T) = x + 0
    BY <1>2
  <2> QED
    BY <2>1, <2>2
<1> QED
  BY <1>1, <1>2

LEMMA PopCounted ==
  ASSUME IInv, control = "leave", NEW s, Hands(s), NEW c \in BOOLEAN,
         ~c /\ Len(calls) > 1 => KindOf(calls[Len(calls) - 1]) # "Nest"
  PROVE  LET rec1 == IF top.mode = "Normal" THEN Pop(recovery) ELSE recovery
         IN  IsSeq(rec1) /\ Counted(Pop(calls), rec1, s, c)
<1> DEFINE u == Pop(calls)
           n == Len(calls)
           rec1 == IF top.mode = "Normal" THEN Pop(recovery) ELSE recovery
<1>1. calls # <<>> /\ IsSeq(calls) /\ n \in Nat \ {0} /\ DOMAIN calls = 1 .. n
      /\ calls[n] = top
  BY TopHas DEF top
<1>2. /\ IsSeq(u) /\ DOMAIN u = 1 .. n - 1 /\ Len(u) = n - 1
      /\ \A i \in 1 .. n - 1 : u[i] = calls[i]
  BY <1>1, SeqPop
<1>3. /\ NormalIn(u) = NormalIn(calls) \ {n}
      /\ EnvelopesIn(u) = EnvelopesIn(calls) \ {n}
      /\ EntriesIn(u) = EntriesIn(calls) \ {n}
      /\ InsidesIn(u, TRUE) = InsidesIn(calls, FALSE)
  BY <1>1, PopCounts
<1>4. n = Len(calls)
  OBVIOUS
<1>5. /\ Level(top, FALSE, errs) /\ Sound(errs) /\ IsStore(top.before) /\ IsActivation(top)
      /\ Counted(calls, recovery, errs, FALSE)
  BY LeaveHas
<1>6. IsSeq(recovery)
  BY DEF IInv, Shape
<1> HIDE DEF u, n
<1>7. n \in 1 .. n
  BY <1>1
<1>8. /\ NormalIn(calls) \in SUBSET (1 .. n) /\ (top.mode = "Normal" <=> n \in NormalIn(calls))
  BY <1>1, <1>7 DEF NormalIn
<1>9. /\ EnvelopesIn(calls) \in SUBSET (1 .. n) /\ (top.envelope <=> n \in EnvelopesIn(calls))
  BY <1>1, <1>7 DEF EnvelopesIn
<1>10. /\ EntriesIn(calls) \in SUBSET (1 .. n) /\ (IsEntry(top) <=> n \in EntriesIn(calls))
  BY <1>1, <1>7 DEF EntriesIn
<1>11. IsSeq(rec1) /\ Len(rec1) = Cardinality(NormalIn(u))
  <2>1. CASE top.mode = "Normal"
    <3>1. recovery # <<>>
      <4>1. IsFiniteSet(NormalIn(calls))
        BY <1>1, <1>8, FS_Interval, FS_Subset
      <4>2. Cardinality(NormalIn(calls)) # 0
        BY <1>8, <2>1, <4>1, FS_EmptySet
      <4>3. Len(recovery) # 0
        BY <1>5, <4>2 DEF Counted
      <4> QED
        BY <1>6, <4>3, SeqHas
    <3>2. IsSeq(rec1) /\ Len(rec1) = Len(recovery) - 1 /\ Len(recovery) \in Nat \ {0}
      BY <1>6, <2>1, <3>1, SeqPop
    <3> DEFINE x == Len(rec1)
    <3>3. x \in Nat /\ Len(recovery) = x + 1
      <4> DEFINE y == Len(recovery)
      <4>1. x = y - 1 /\ y \in Nat \ {0}
        BY <3>2
      <4> HIDE DEF x, y
      <4>2. x \in Nat /\ y = x + 1
        BY <4>1
      <4> QED
        BY <4>2 DEF y
    <3>4. Cardinality(NormalIn(calls)) = Len(recovery)
      BY <1>5 DEF Counted
    <3>5. Cardinality(NormalIn(calls)) = x + (IF TRUE THEN 1 ELSE 0)
      BY <3>3, <3>4
    <3>6. n \in NormalIn(calls)
      BY <1>8, <2>1
    <3> HIDE DEF x
    <3>7. Cardinality(NormalIn(calls) \ {n}) = x
      BY <1>1, <1>8, <3>3, <3>5, <3>6, CountPop
    <3> QED
      BY <1>3, <3>2, <3>7 DEF x
  <2>2. CASE top.mode # "Normal"
    <3>1. NormalIn(u) = NormalIn(calls)
      BY <1>3, <1>8, <2>2
    <3> QED
      BY <1>5, <1>6, <2>2, <3>1 DEF Counted
  <2> QED
    BY <2>1, <2>2
<1>12. Len(s.stack) = Cardinality(EnvelopesIn(u))
  <2> DEFINE x == Len(top.before.stack)
  <2>1. x \in Nat /\ Len(s.stack) = x /\ Len(errs.stack) = x + (IF top.envelope THEN 1 ELSE 0)
    BY <1>5, StoreHas DEF Hands, Level
  <2>2. Cardinality(EnvelopesIn(calls)) = Len(errs.stack)
    BY <1>5 DEF Counted
  <2>3. Cardinality(EnvelopesIn(calls)) = x + (IF top.envelope THEN 1 ELSE 0)
    BY <2>1, <2>2
  <2>4. top.envelope \in BOOLEAN
    BY <1>5 DEF IsActivation
  <2> HIDE DEF x
  <2>5. Cardinality(EnvelopesIn(calls) \ {n}) = x
    BY <1>1, <1>9, <2>1, <2>3, <2>4, CountPop
  <2> QED
    BY <1>3, <2>1, <2>5
<1>13. s.entryRuleScopeDepth = Cardinality(EntriesIn(u))
  <2> DEFINE x == top.before.entryRuleScopeDepth
             p == IsEntry(top)
  <2>1. x \in Nat /\ s.entryRuleScopeDepth = x
        /\ errs.entryRuleScopeDepth = x + (IF p THEN 1 ELSE 0)
    BY <1>5 DEF Hands, Level, IsStore
  <2>2. Cardinality(EntriesIn(calls)) = errs.entryRuleScopeDepth
    BY <1>5 DEF Counted
  <2>3. Cardinality(EntriesIn(calls)) = x + (IF p THEN 1 ELSE 0)
    BY <2>1, <2>2
  <2>4. p \in BOOLEAN /\ (p <=> n \in EntriesIn(calls))
    BY <1>5, <1>10 DEF IsActivation, IsEntry
  <2> HIDE DEF x, p
  <2>5. Cardinality(EntriesIn(calls) \ {n}) = x
    BY <1>1, <1>10, <2>1, <2>3, <2>4, CountPop
  <2> QED
    BY <1>3, <2>1, <2>5
<1>14. Len(s.delimiterBoundaries) = Cardinality(InsidesIn(u, TRUE))
  BY <1>3, <1>5 DEF Hands, Level, Counted
<1>15. InsidesIn(u, c) = InsidesIn(u, TRUE)
  <2>1. CASE c
    BY <2>1
  <2>2. CASE ~c
    <3>1. ASSUME NEW i \in DOMAIN u, KindOf(u[i]) = "Nest" PROVE i < Len(u)
      <4>1. i \in 1 .. n - 1 /\ u[i] = calls[i]
        BY <1>2
      <4>2. i # n - 1
        <5>1. ASSUME i = n - 1 PROVE FALSE
          <6>1. n > 1
            BY <1>1, <4>1, <5>1
          <6> QED
            BY <1>4, <2>2, <3>1, <4>1, <5>1, <6>1
        <5> QED
          BY <5>1
      <4>3. i < n - 1
        BY <1>1, <4>1, <4>2
      <4> QED
        BY <1>2, <4>3
    <3> QED
      BY <3>1 DEF InsidesIn
  <2> QED
    BY <2>1, <2>2
<1> HIDE DEF rec1
<1>16. Counted(u, rec1, s, c)
  BY <1>11, <1>12, <1>13, <1>14, <1>15 DEF Counted
<1> QED
  BY <1>11, <1>16 DEF u, rec1

LEMMA PopLands ==
  ASSUME IInv, control = "leave", NEW s, Hands(s), NEW c \in BOOLEAN,
         ~c /\ Len(calls) > 1 => KindOf(calls[Len(calls) - 1]) # "Nest",
         NEW cur, NEW count, cur \in top.start .. Len(input), count \in Nat,
         top.createdAt <= count
  PROVE  Lands(Pop(calls), IF top.mode = "Normal" THEN Pop(recovery) ELSE recovery,
               s, cur, count, c)
<1> DEFINE rec1 == IF top.mode = "Normal" THEN Pop(recovery) ELSE recovery
<1>1. Chain(Pop(calls)) /\ Bounded(Pop(calls), cur, count)
  BY PopChain
<1>2. Live(Pop(calls), s, c)
  BY PopLive
<1>3. IsSeq(rec1) /\ Counted(Pop(calls), rec1, s, c)
  BY PopCounted
<1>4. cur \in 0 .. Len(input)
  <2>1. top.start \in 0 .. cursor /\ cursor \in Nat /\ Len(input) \in Nat
    BY TopHas, InputHas DEF IInv, TypeOK
  <2> QED
    BY <2>1
<1> HIDE DEF rec1
<1> QED
  BY <1>1, <1>2, <1>3, <1>4 DEF Lands, Hands, rec1

(* The store once the frame of the rule is popped; the entry scope ends    *)
(* next.                                                                   *)
Closes(q) ==
  /\ Sound(q) /\ Len(q.stack) = Len(top.before.stack)
  /\ q.entryRuleScopeDepth = errs.entryRuleScopeDepth
  /\ q.delimiterBoundaries = errs.delimiterBoundaries
  /\ \A i \in 1 .. Len(calls) - 1 : calls[i].envelope => Keeps(q, calls[i].before)

Scoped(q) == IF top.mode = "Normal" /\ IsProgramRule(top.rule) THEN EndEntryRuleScope(q) ELSE q

LEMMA ClosesHands ==
  ASSUME IInv, Leaving, NEW q, Closes(q)
  PROVE  Hands(Scoped(q))
<1>1. control = "leave" /\ top.envelope
  BY DEF Leaving
<1>2. /\ Level(top, FALSE, errs) /\ IsStore(top.before)
  BY <1>1, LeaveHas
<1>3. IsEntry(top) <=> (top.mode = "Normal" /\ IsProgramRule(top.rule))
  BY <1>1 DEF IsEntry
<1>4. top.before.entryRuleScopeDepth \in Nat
  BY <1>2 DEF IsStore
<1>5. /\ q.entryRuleScopeDepth = top.before.entryRuleScopeDepth + (IF IsEntry(top) THEN 1 ELSE 0)
      /\ q.delimiterBoundaries = top.before.delimiterBoundaries
  BY <1>2 DEF Level, Closes
<1>6. IsStore(q) /\ q.entryRuleFlightBaseline = 0
  BY DEF Closes, Sound
<1>7. CASE IsEntry(top)
  <2> DEFINE s == EndEntryRuleScope(q)
  <2>1. q.entryRuleScopeDepth = top.before.entryRuleScopeDepth + 1
    BY <1>5, <1>7
  <2>2. q.entryRuleScopeDepth > 0
    BY <1>4, <2>1
  <2>3. /\ IsStore(s) /\ s.stack = q.stack /\ s.flight = q.flight /\ s.Errors = q.Errors
        /\ s.delimiterBoundaries = q.delimiterBoundaries
        /\ s.entryRuleScopeDepth = q.entryRuleScopeDepth - 1
        /\ s.entryRuleFlightBaseline = q.entryRuleFlightBaseline
    BY <1>6, <2>2, EndScope
  <2> HIDE DEF s
  <2>4. s.entryRuleScopeDepth = top.before.entryRuleScopeDepth
    BY <1>4, <2>1, <2>3
  <2>5. \A i \in 1 .. Len(calls) - 1 : calls[i].envelope => Keeps(s, calls[i].before)
    BY <2>3, KeepsSameErrors DEF Closes
  <2>6. Hands(s)
    BY <1>5, <1>6, <2>3, <2>4, <2>5 DEF Hands, Closes, Sound
  <2> QED
    BY <1>3, <1>7, <2>6 DEF Scoped, s
<1>8. CASE ~IsEntry(top)
  <2>1. q.entryRuleScopeDepth = top.before.entryRuleScopeDepth
    BY <1>4, <1>5, <1>8
  <2>2. Hands(q)
    BY <1>5, <2>1 DEF Hands, Closes
  <2> QED
    BY <1>3, <1>8, <2>2 DEF Scoped
<1> QED
  BY <1>7, <1>8

(* What the callers own lies below the frame of the rule. *)
LEMMA CallersBelow ==
  ASSUME IInv, Leaving
  PROVE  /\ Len(errs.stack) = Len(top.before.stack) + 1 /\ errs.stack # <<>>
         /\ IsStore(errs) /\ IsStore(top.before) /\ Keeps(errs, top.before)
         /\ \A i \in 1 .. Len(calls) - 1 : calls[i].envelope =>
               /\ IsStore(calls[i].before) /\ Keeps(top.before, calls[i].before)
               /\ Keeps(errs, calls[i].before)
               /\ Len(errs.stack) > Len(calls[i].before.stack) + 1
<1>1. control = "leave" /\ top.envelope
  BY DEF Leaving
<1>2. /\ Level(top, FALSE, errs) /\ Sound(errs) /\ Chain(calls) /\ IsStore(top.before)
      /\ Keeps(errs, top.before) /\ Live(calls, errs, FALSE)
  BY <1>1, LeaveHas
<1>3. Len(errs.stack) = Len(top.before.stack) + 1
  BY <1>1, <1>2 DEF Level
<1>4. Len(calls) \in Nat \ {0} /\ DOMAIN calls = 1 .. Len(calls)
  BY <1>1, TopHas
<1>5. ASSUME NEW i \in 1 .. Len(calls) - 1, calls[i].envelope
      PROVE  /\ IsStore(calls[i].before) /\ Keeps(top.before, calls[i].before)
             /\ Keeps(errs, calls[i].before)
             /\ Len(errs.stack) > Len(calls[i].before.stack) + 1
  <2>1. i \in DOMAIN calls /\ Len(calls) \in DOMAIN calls /\ i < Len(calls)
    BY <1>4
  <2>2. /\ IsStore(calls[i].before) /\ Keeps(top.before, calls[i].before)
    BY <1>2, <1>5, <2>1 DEF Chain, top
  <2>3. Keeps(errs, calls[i].before)
    BY <1>2, <1>5, <2>1 DEF Live, KeptBy
  <2>4. Len(top.before.stack) > Len(calls[i].before.stack)
    BY <2>2 DEF Keeps
  <2>5. Len(top.before.stack) \in Nat /\ Len(calls[i].before.stack) \in Nat
    BY <1>2, <2>2, StoreHas
  <2> QED
    BY <1>3, <2>2, <2>3, <2>4, <2>5
<1>6. IsStore(errs) /\ errs.stack # <<>>
  BY <1>1, ErrsHas
<1> QED
  BY <1>2, <1>3, <1>5, <1>6

LEMMA CommitCloses ==
  ASSUME IInv, Leaving, NEW e, Remarked(errs, e)
  PROVE  Closes(popFrame(e, TRUE))
<1> DEFINE q == popFrame(e, TRUE)
<1>1. /\ IsStore(e) /\ Len(e.stack) = Len(errs.stack)
      /\ e.delimiterBoundaries = errs.delimiterBoundaries
      /\ e.entryRuleScopeDepth = errs.entryRuleScopeDepth
      /\ e.entryRuleFlightBaseline = errs.entryRuleFlightBaseline
  BY DEF Remarked
<1>2. /\ Len(errs.stack) = Len(top.before.stack) + 1 /\ errs.stack # <<>>
      /\ IsStore(errs) /\ IsStore(top.before)
  BY CallersBelow
<1>3. e.stack # <<>>
  BY <1>1, <1>2, StoreHas
<1>4. /\ q.delimiterBoundaries = e.delimiterBoundaries
      /\ q.entryRuleScopeDepth = e.entryRuleScopeDepth
      /\ q.entryRuleFlightBaseline = e.entryRuleFlightBaseline
      /\ Len(q.stack) = Len(e.stack) - 1
  BY <1>1, <1>3, PopFrame
<1>5. IsStore(q)
  BY <1>1, <1>3, Commit
<1>6. ASSUME NEW i \in 1 .. Len(calls) - 1, calls[i].envelope
      PROVE  Keeps(q, calls[i].before)
  <2>1. /\ IsStore(calls[i].before) /\ Keeps(errs, calls[i].before)
        /\ Len(errs.stack) > Len(calls[i].before.stack) + 1
    BY <1>6, CallersBelow
  <2>2. Keeps(e, calls[i].before)
    BY <1>2, <2>1, KeepsRemarked
  <2>3. Len(e.stack) > Len(calls[i].before.stack) + 1
    BY <1>1, <2>1
  <2> QED
    BY <1>1, <2>1, <2>2, <2>3, KeepsCommit
<1> HIDE DEF q
<1>7. Len(q.stack) = Len(top.before.stack)
  <2> DEFINE m == Len(top.before.stack)
             l == Len(e.stack)
  <2>1. m \in Nat /\ l = m + 1 /\ Len(q.stack) = l - 1
    BY <1>1, <1>2, <1>4, StoreHas
  <2> HIDE DEF m, l
  <2>2. Len(q.stack) = m
    BY <2>1
  <2> QED
    BY <2>2 DEF m
<1>8. Closes(q)
  <2>1. Sound(q)
    BY <1>1, <1>4, <1>5, InvHas DEF Sound
  <2> QED
    BY <1>1, <1>4, <1>6, <1>7, <2>1 DEF Closes
<1> QED
  BY <1>8 DEF q

LEMMA RollbackCloses ==
  ASSUME IInv, Leaving
  PROVE  Closes(popFrame(errs, FALSE))
<1> DEFINE q == popFrame(errs, FALSE)
<1>1. /\ Len(errs.stack) = Len(top.before.stack) + 1
      /\ IsStore(errs) /\ IsStore(top.before) /\ Keeps(errs, top.before)
  BY CallersBelow
<1>2. /\ IsStore(q) /\ q.stack = top.before.stack /\ q.flight = top.before.flight
      /\ q.Errors = top.before.Errors
      /\ q.delimiterBoundaries = errs.delimiterBoundaries
      /\ q.entryRuleScopeDepth = errs.entryRuleScopeDepth
      /\ q.entryRuleFlightBaseline = errs.entryRuleFlightBaseline
  BY <1>1, RollbackRestores, ZenonT(60)
<1> HIDE DEF q
<1>3. ASSUME NEW i \in 1 .. Len(calls) - 1, calls[i].envelope
      PROVE  Keeps(q, calls[i].before)
  <2>1. Keeps(top.before, calls[i].before)
    BY <1>3, CallersBelow
  <2> QED
    BY <1>2, <2>1, KeepsSameErrors
<1>4. Sound(q)
  BY <1>2, InvHas DEF Sound
<1>5. Closes(q)
  BY <1>2, <1>3, <1>4 DEF Closes
<1> QED
  BY <1>5 DEF q

LEMMA LeaveInv ==
  ASSUME IInv, Leaving, NEW q, Closes(q), NEW result \in Results,
         NEW cur, NEW count, cur \in top.start .. Len(input), count \in Nat,
         top.createdAt <= count, Leave(result, cur, q, count)
  PROVE  IInv'
<1> DEFINE s == Scoped(q)
           rec1 == IF top.mode = "Normal" THEN Pop(recovery) ELSE recovery
<1>1. /\ calls' = Pop(calls) /\ recovery' = rec1
      /\ control' = (IF Len(calls) = 1 THEN "finish" ELSE "resume")
      /\ ret' = result /\ cursor' = cur /\ errs' = s /\ created' = count
      /\ parser' = parser /\ input' = input
  BY DEF Leave, Effect, Scoped
<1>2. Hands(s)
  BY ClosesHands
<1>3. control = "leave"
  BY DEF Leaving
<1>4. IsSeq(calls) /\ calls # <<>> /\ Len(calls) \in Nat \ {0}
  BY <1>3, TopHas
<1>5. IsSeq(Pop(calls)) /\ Len(Pop(calls)) = Len(calls) - 1
  BY <1>4, SeqPop
<1> HIDE DEF s, rec1
<1>6. CASE Len(calls) = 1
  <2>1. control' = "finish" /\ (control' = "resume") = FALSE
    BY <1>1, <1>6
  <2>2. Lands(Pop(calls), rec1, s, cur, count, FALSE)
    <3>1. ~(Len(calls) > 1)
      BY <1>6
    <3> QED
      BY <1>2, <1>3, <3>1, PopLands DEF rec1
  <2>3. calls' = <<>>
    BY <1>1, <1>5, <1>6, SeqHas
  <2>4. Lands(calls', recovery', errs', cursor', created', control' = "resume")
    BY <1>1, <2>1, <2>2
  <2> QED
    BY <1>1, <2>1, <2>3, <2>4, Arrives
<1>7. CASE Len(calls) # 1
  <2>1. control' = "resume" /\ (control' = "resume") = TRUE
    BY <1>1, <1>7
  <2>2. Lands(Pop(calls), rec1, s, cur, count, TRUE)
    BY <1>2, <1>3, PopLands DEF rec1
  <2>3. calls' # <<>>
    <3>1. Len(Pop(calls)) # 0
      BY <1>4, <1>5, <1>7
    <3> QED
      BY <1>1, <1>5, <3>1, SeqHas
  <2>4. Lands(calls', recovery', errs', cursor', created', control' = "resume")
    BY <1>1, <2>1, <2>2
  <2> QED
    BY <1>1, <2>1, <2>3, <2>4, Arrives
<1> QED
  BY <1>6, <1>7

LEMMA DiagnosedRemarks ==
  ASSUME IInv, Leaving
  PROVE  Remarked(errs, Diagnosed)
<1>1. IsStore(errs) /\ errs.stack # <<>>
  BY CallersBelow
<1> QED
  BY <1>1, RemarkedSelf, ReplaceRemarks DEF Diagnosed

(* The frame in which recovery runs leaves the store as the commit made it. *)
LEMMA RecoveryCloses ==
  ASSUME IInv, Leaving
  PROVE  Closes(AfterRecovery)
<1> DEFINE q == popFrame(Diagnosed, TRUE)
<1>1. Closes(q)
  BY DiagnosedRemarks, CommitCloses
<1>2. IsStore(q)
  BY <1>1 DEF Closes, Sound
<1>3. AfterRecovery = popFrame(pushFrame(q), FALSE)
  BY DEF AfterRecovery
<1> HIDE DEF q
<1>4. AfterRecovery = q
  BY <1>2, <1>3, PushThenRollback
<1> QED
  BY <1>1, <1>4

LEMMA LeaveBounds ==
  ASSUME IInv, control = "leave"
  PROVE  /\ cursor \in top.start .. Len(input) /\ top.start \in top.start .. Len(input)
         /\ created \in Nat /\ top.createdAt <= created
         /\ top.createdAt \in Nat /\ top.createdAt <= top.createdAt
         /\ top.createdAt + 1 \in Nat /\ top.createdAt <= top.createdAt + 1
<1>1. /\ top.start \in 0 .. cursor /\ top.createdAt \in 0 .. created /\ created \in Nat
      /\ cursor \in 0 .. Len(input) /\ Len(input) \in Nat
  BY TopHas, InputHas DEF IInv, TypeOK
<1> QED
  BY <1>1

LEMMA SucceedsInv == ASSUME IInv, RuleSucceeds PROVE IInv'
<1>1. Leaving /\ Leave(ret, cursor, popFrame(errs, TRUE), created) /\ control = "leave"
  BY DEF RuleSucceeds, Leaving
<1>2. Closes(popFrame(errs, TRUE))
  BY <1>1, CallersBelow, RemarkedSelf, CommitCloses
<1> QED
  BY <1>1, <1>2, RetIsResult, LeaveBounds, LeaveInv

LEMMA RollsBackInv == ASSUME IInv, RuleRollsBack PROVE IInv'
<1>1. Leaving /\ Leave(ret, top.start, popFrame(errs, FALSE), top.createdAt) /\ control = "leave"
  BY DEF RuleRollsBack, Leaving
<1>2. Closes(popFrame(errs, FALSE))
  BY <1>1, RollbackCloses
<1> QED
  BY <1>1, <1>2, RetIsResult, LeaveBounds, LeaveInv

LEMMA PassesUpInv == ASSUME IInv, RulePassesFailureUp PROVE IInv'
<1>1. Leaving /\ Leave(ret, cursor, popFrame(errs, TRUE), top.createdAt) /\ control = "leave"
  BY DEF RulePassesFailureUp, Leaving
<1>2. Closes(popFrame(errs, TRUE))
  BY <1>1, CallersBelow, RemarkedSelf, CommitCloses
<1> QED
  BY <1>1, <1>2, RetIsResult, LeaveBounds, LeaveInv

LEMMA FailsInv == ASSUME IInv, RuleFails PROVE IInv'
<1>1. Leaving /\ Leave(ret, top.start, AfterRecovery, top.createdAt) /\ control = "leave"
  BY DEF RuleFails, Recovering, Leaving
<1>2. Closes(AfterRecovery)
  BY <1>1, RecoveryCloses
<1> QED
  BY <1>1, <1>2, RetIsResult, LeaveBounds, LeaveInv

LEMMA HealedIsResult ==
  ASSUME IInv, NEW stays \in BOOLEAN, NEW healed \in BOOLEAN
  PROVE  [ret EXCEPT !.ConsumeSyncToken = ~stays, !.Succeeded = healed,
                     !.Node = healed \/ @] \in Results
  BY RetIsResult DEF Results

LEMMA RecoversInv == ASSUME IInv, RuleRecovers PROVE IInv'
<1> DEFINE at     == performRecovery(cursor)
           token  == Lexeme(at).Token
           stays  == leftForAncestor(token)
           healed == topRule.isRecoveryBarrier /\ IsSyncToken(topRule, token)
           result == [ret EXCEPT !.ConsumeSyncToken = ~stays, !.Succeeded = healed,
                                 !.Node = healed \/ @]
           cur    == IF stays THEN at ELSE at + 1
           count  == IF healed THEN top.createdAt + 1 ELSE top.createdAt
<1>1. Leaving /\ at < Len(input) /\ Leave(result, cur, AfterRecovery, count) /\ control = "leave"
  BY DEF RuleRecovers, Recovering, Leaving
<1>2. Closes(AfterRecovery)
  BY <1>1, RecoveryCloses
<1>3. stays \in BOOLEAN /\ healed \in BOOLEAN
  BY DEF leftForAncestor, IsSyncToken
<1>4. result \in Results
  <2> HIDE DEF stays, healed
  <2> QED
    BY <1>3, HealedIsResult
<1>5. cur \in top.start .. Len(input)
  <2>1. at \in cursor .. Len(input)
    BY RecoveryAdvances, InputHas DEF IInv
  <2>2. top.start \in 0 .. cursor /\ cursor \in 0 .. Len(input) /\ Len(input) \in Nat
    BY <1>1, TopHas, InputHas DEF IInv
  <2> HIDE DEF at, stays
  <2>3. at \in top.start .. Len(input) /\ at + 1 \in top.start .. Len(input)
    BY <1>1, <2>1, <2>2
  <2> QED
    BY <2>3
<1>6. count \in Nat /\ top.createdAt <= count
  <2> HIDE DEF healed
  <2> QED
    BY <1>1, LeaveBounds
<1> HIDE DEF result, cur, count
<1> QED
  BY <1>1, <1>2, <1>4, <1>5, <1>6, LeaveInv

(* A reference's target hands the reference its own store.                 *)
LEMMA LeaveReferenceInv == ASSUME IInv, LeaveReference PROVE IInv'
<1>1. /\ control = "leave" /\ ~top.envelope
      /\ calls' = Pop(calls) /\ recovery' = Pop(recovery)
      /\ UNCHANGED <<parser, input, cursor, control, ret, errs, created>>
  BY DEF LeaveReference
<1>2. /\ IsSeq(calls) /\ calls # <<>> /\ Len(calls) \in Nat \ {0} /\ Len(calls) \in DOMAIN calls
      /\ DOMAIN calls = 1 .. Len(calls)
  BY <1>1, TopHas
<1>3. /\ Level(top, FALSE, errs) /\ Sound(errs) /\ Chain(calls) /\ IsStore(top.before)
      /\ Live(calls, errs, FALSE)
  BY <1>1, LeaveHas
<1>4. /\ Len(calls) > 1 /\ top.mode = "Normal"
      /\ KindOf(calls[Len(calls) - 1]) = "Reference"
  BY <1>1, <1>2, <1>3 DEF Chain, top
<1>5. Hands(errs)
  <2>1. /\ Len(errs.stack) = Len(top.before.stack)
        /\ errs.entryRuleScopeDepth = top.before.entryRuleScopeDepth
        /\ errs.delimiterBoundaries = top.before.delimiterBoundaries
    <3>1. ~IsEntry(top) /\ Len(top.before.stack) \in Nat /\ top.before.entryRuleScopeDepth \in Nat
      BY <1>1, <1>3, StoreHas DEF IsEntry, IsStore
    <3> QED
      BY <1>1, <1>3, <3>1 DEF Level
  <2>2. \A i \in 1 .. Len(calls) - 1 : calls[i].envelope => Keeps(errs, calls[i].before)
    <3>1. \A i \in 1 .. Len(calls) - 1 : i \in DOMAIN calls
      BY <1>2
    <3> QED
      BY <1>3, <3>1 DEF Live, KeptBy
  <2> QED
    BY <1>3, <2>1, <2>2 DEF Hands
<1>6. Lands(Pop(calls), Pop(recovery), errs, cursor, created, FALSE)
  BY <1>1, <1>4, <1>5, LeaveBounds, PopLands
<1>7. (control' = "resume") = FALSE
  BY <1>1
<1>8. Lands(calls', recovery', errs', cursor', created', control' = "resume")
  BY <1>1, <1>6, <1>7
<1>9. calls' # <<>>
  <2>1. IsSeq(Pop(calls)) /\ Len(Pop(calls)) = Len(calls) - 1
    BY <1>2, SeqPop
  <2>2. Len(Pop(calls)) # 0
    BY <1>2, <1>4, <2>1
  <2> QED
    BY <1>1, <2>1, <2>2, SeqHas
<1>10. ret' \in Results
  BY <1>1, RetIsResult
<1> QED
  BY <1>1, <1>8, <1>9, <1>10, Arrives

LEMMA ContractPanicInv == ASSUME IInv, ContractPanic PROVE IInv'
<1>1. /\ Leaving /\ control = "leave" /\ control' = "panic" /\ errs' = popFrame(errs, TRUE)
      /\ UNCHANGED <<parser, input, cursor, calls, ret, recovery, created>>
  BY DEF ContractPanic, Leaving
<1>2. Closes(popFrame(errs, TRUE))
  BY <1>1, CallersBelow, RemarkedSelf, CommitCloses
<1>3. calls # <<>>
  BY <1>1, TopHas
<1> QED
  BY <1>1, <1>2, <1>3, PanicInv DEF Closes

(* The last report, with no frame open, is published at once.              *)
LEMMA ReportPublishes ==
  ASSUME NEW s, NEW e, Sound(s), s.stack = <<>>
  PROVE  LET t == report(s, e)
         IN  /\ Sound(t) /\ t.stack = s.stack
             /\ t.delimiterBoundaries = s.delimiterBoundaries
             /\ t.entryRuleScopeDepth = s.entryRuleScopeDepth
<1> DEFINE t == report(s, e)
<1>1. IsStore(s) /\ HasFields(s)
  BY DEF Sound, IsStore
<1>2. t = [s EXCEPT !.Errors = Append(@, e)]
  BY DEF report
<1>3. /\ HasFields(t) /\ t.stack = s.stack /\ t.flight = s.flight
      /\ t.delimiterBoundaries = s.delimiterBoundaries
      /\ t.entryRuleScopeDepth = s.entryRuleScopeDepth
      /\ t.entryRuleFlightBaseline = s.entryRuleFlightBaseline
  BY <1>1, <1>2 DEF HasFields, StoreFields
<1> HIDE DEF t
<1>4. IsStore(t)
  BY <1>1, <1>3 DEF IsStore
<1> QED
  BY <1>3, <1>4 DEF Sound, t

LEMMA FinishInv == ASSUME IInv, FinishParse PROVE IInv'
<1> DEFINE e == ErrorAt(Peek(cursor, 0).Start)
           s == IF LeftInput \/ (~ret.Succeeded /\ ret.Kind = FailureNoMatch)
                  THEN report(errs, e) ELSE errs
<1>1. /\ control = "finish" /\ control' = "done" /\ errs' = s
      /\ ret' = [ret EXCEPT !.Succeeded = @ /\ ~LeftInput]
      /\ UNCHANGED <<parser, input, cursor, calls, recovery, created>>
  BY DEF FinishParse
<1>2. calls = <<>> /\ IsSeq(recovery)
  BY <1>1 DEF IInv, Shape
<1>3. Sound(errs) /\ Counted(<<>>, recovery, errs, FALSE)
  <2>1. (control = "resume") = FALSE
    BY <1>1
  <2> QED
    BY <1>1, <1>2, <2>1, InvHas
<1>4. /\ recovery = <<>> /\ errs.stack = <<>> /\ errs.delimiterBoundaries = <<>>
      /\ errs.entryRuleScopeDepth = 0
  BY <1>2, <1>3, EmptyHas DEF Sound
<1>5. /\ Sound(s) /\ s.stack = <<>> /\ s.delimiterBoundaries = <<>>
      /\ s.entryRuleScopeDepth = 0
  <2> DEFINE r == report(errs, e)
  <2>1. /\ Sound(r) /\ r.stack = <<>> /\ r.delimiterBoundaries = <<>>
        /\ r.entryRuleScopeDepth = 0
    BY <1>3, <1>4, ReportPublishes
  <2>2. s = r \/ s = errs
    OBVIOUS
  <2> HIDE DEF s, r
  <2> QED
    BY <1>3, <1>4, <2>1, <2>2
<1> HIDE DEF s
<1>6. Lands(<<>>, recovery, s, cursor, created, FALSE)
  BY <1>4, <1>5, EmptyLands
<1>7. (control' = "resume") = FALSE
  BY <1>1
<1>8. Lands(calls', recovery', errs', cursor', created', control' = "resume")
  BY <1>1, <1>2, <1>6, <1>7
<1>9. ret' \in Results
  BY <1>1, RetIsResult DEF Results
<1> QED
  BY <1>1, <1>2, <1>8, <1>9, Arrives

-----------------------------------------------------------------------------
(* The invariant. *)

LEMMA InitInv == Init => IInv
<1> SUFFICES ASSUME Init PROVE IInv
  OBVIOUS
<1>1. /\ parser \in Parsers /\ cursor = 0 /\ calls = <<>> /\ recovery = <<>> /\ created = 0
      /\ errs = SyntaxErrorsCreate /\ control = "idle" /\ ret = NoResult
      /\ input \in UNION {[1 .. n -> parser.alphabet] : n \in 0 .. MaxInput}
  BY DEF Init
<1>2. input \in Seq(parser.alphabet) /\ Len(input) \in Nat
  <2>1. PICK n \in 0 .. MaxInput : input \in [1 .. n -> parser.alphabet]
    BY <1>1
  <2>2. n \in Nat
    BY EngineAssumption
  <2> QED
    BY <2>1, <2>2
<1>3. Typed
  BY <1>1, <1>2, NoResultIs DEF Typed
<1>4. Sound(errs)
  <2>1. IsSeq(<<>>) /\ Len(<<>>) = 0
    BY NoSeq
  <2>2. HasFields(SyntaxErrorsCreate)
    BY DEF SyntaxErrorsCreate, HasFields, StoreFields
  <2>3. IsStore(SyntaxErrorsCreate)
    BY <2>1, <2>2 DEF SyntaxErrorsCreate, IsStore
  <2> QED
    BY <1>1, <2>3 DEF Sound, SyntaxErrorsCreate
<1>5. IsSeq(<<>>) /\ Len(<<>>) = 0 /\ DOMAIN <<>> = {}
  BY NoSeq
<1>6. /\ Chain(calls) /\ Bounded(calls, cursor, created) /\ Live(calls, errs, FALSE)
  BY <1>1, <1>5 DEF Chain, Bounded, Live, KeptBy, Levels
<1>7. Counted(calls, recovery, errs, FALSE)
  <2>1. /\ NormalIn(<<>>) = {} /\ EnvelopesIn(<<>>) = {} /\ EntriesIn(<<>>) = {}
        /\ InsidesIn(<<>>, FALSE) = {}
    BY <1>5 DEF NormalIn, EnvelopesIn, EntriesIn, InsidesIn
  <2>2. Cardinality({}) = 0
    BY FS_EmptySet
  <2> QED
    BY <1>1, <1>5, <2>1, <2>2 DEF Counted, SyntaxErrorsCreate
<1>8. (control = "resume") = FALSE
  BY <1>1
<1>9. TypeOK
  BY <1>1, <1>2, <1>3, <1>5 DEF TypeOK, Typed, Results
<1>10. Shape
  BY <1>1, <1>5 DEF Shape
<1>11. Stores
  BY <1>1, <1>4, <1>5 DEF Stores, Sound
<1>12. Fresh
  BY <1>1 DEF Fresh
<1>13. StacksMatchCalls
  BY <1>7, <1>8, CountsMatch
<1> QED
  BY <1>9, <1>10, <1>11, <1>12, <1>13 DEF IInv

LEMMA NextInv == IInv /\ [Next]_vars => IInv'
<1> SUFFICES ASSUME IInv, [Next]_vars PROVE IInv'
  OBVIOUS
<1>1. CASE StartParse
  BY <1>1, StartInv
<1>2. CASE LeaveReference
  BY <1>2, LeaveReferenceInv
<1>3. CASE RuleSucceeds
  BY <1>3, SucceedsInv
<1>4. CASE ContractPanic
  BY <1>4, ContractPanicInv
<1>5. CASE RuleRollsBack
  BY <1>5, RollsBackInv
<1>6. CASE RulePassesFailureUp
  BY <1>6, PassesUpInv
<1>7. CASE RuleRecovers
  BY <1>7, RecoversInv
<1>8. CASE RuleFails
  BY <1>8, FailsInv
<1>9. CASE FinishParse
  BY <1>9, FinishInv
<1>10. CASE BodyStep
  BY <1>10, BodyInv
<1>11. CASE UNCHANGED vars
  <2>1. /\ parser' = parser /\ input' = input /\ cursor' = cursor /\ calls' = calls
        /\ control' = control /\ ret' = ret /\ recovery' = recovery /\ errs' = errs
        /\ created' = created
    BY <1>11 DEF vars
  <2>2. TypeOK'
    BY <2>1 DEF IInv, TypeOK, Rule
  <2>3. Shape'
    BY <2>1 DEF IInv, Shape, KindOf, Rule, IsSeq
  <2>4. Stores'
    BY <2>1, ZenonT(60) DEF IInv, Stores, Level, Inside, StoreAt, IsEntry, IsProgramRule, KindOf, Rule, program
  <2>5. Fresh'
    BY <2>1 DEF IInv, Fresh
  <2>6. StacksMatchCalls'
    BY <2>1 DEF IInv, StacksMatchCalls, IsProgramRule, Rule, program
  <2> QED
    BY <2>2, <2>3, <2>4, <2>5, <2>6 DEF IInv
<1> QED
  BY <1>1, <1>2, <1>3, <1>4, <1>5, <1>6, <1>7, <1>8, <1>9, <1>10, <1>11
     DEF Next, EngineStep, Stopped

-----------------------------------------------------------------------------
(* The theorems. *)

LEMMA InvAlways == Spec => []IInv
  BY InitInv, NextInv, PTL DEF Spec

(* The cursor stays within the input, every activation runs a rule of the  *)
(* parser, and no rule is entered ahead of the cursor or of the nodes      *)
(* created (syntaxaParserExecuteRule and all bodies of rule/factory.go).   *)
THEOREM TypeCorrect == Spec => []TypeOK
<1>1. IInv => TypeOK
  BY DEF IInv
<1> QED
  BY <1>1, InvAlways, PTL

(* Recovery frames, error frames, entry scopes and delimiter boundaries    *)
(* are one to one with the activations that opened them, through every     *)
(* failure, recovery and reference (parser.go:331-349, factory.go:1691).   *)
THEOREM StacksAlwaysMatch == Spec => []StacksMatchCalls
<1>1. IInv => StacksMatchCalls
  BY DEF IInv
<1> QED
  BY <1>1, InvAlways, PTL

LEMMA KeptPrefix ==
  ASSUME NEW s, NEW b, IsSeq(s), IsSeq(b), Len(s) >= Len(b), \A k \in 1 .. Len(b) : s[k] = b[k]
  PROVE  SubSeq(s, 1, Len(b)) = b
<1>1. Len(b) \in 0 .. Len(s)
  BY SeqHas
<1>2. /\ IsSeq(SubSeq(s, 1, Len(b))) /\ Len(SubSeq(s, 1, Len(b))) = Len(b)
      /\ \A k \in 1 .. Len(b) : SubSeq(s, 1, Len(b))[k] = s[k]
  BY <1>1, SeqPrefix
<1> DEFINE t == SubSeq(s, 1, Len(b))
<1>3. IsSeq(t) /\ Len(t) = Len(b) /\ \A k \in 1 .. Len(t) : t[k] = b[k]
  BY <1>2
<1> HIDE DEF t
<1>4. t = b
  BY <1>3, SeqSame
<1> QED
  BY <1>4 DEF t

LEMMA KeptDiagnostics == IInv => CallersKeepTheirDiagnostics
<1> SUFFICES ASSUME IInv, NEW i \in DOMAIN calls, calls[i].envelope, control # "panic"
             PROVE  LET before == calls[i].before
                    IN  /\ SubSeq(errs.flight, 1, Len(before.flight)) = before.flight
                        /\ SubSeq(errs.stack, 1, Len(before.stack)) = before.stack
                        /\ errs.Errors = before.Errors
  BY DEF CallersKeepTheirDiagnostics
<1> DEFINE b == calls[i].before
<1>1. Keeps(errs, b) /\ IsStore(errs) /\ IsStore(b)
  BY InvHas DEF Live, KeptBy, Chain, Sound
<1> HIDE DEF b
<1>2. /\ IsSeq(errs.flight) /\ IsSeq(errs.stack) /\ IsSeq(b.flight) /\ IsSeq(b.stack)
  BY <1>1 DEF IsStore
<1>3. SubSeq(errs.flight, 1, Len(b.flight)) = b.flight
  <2>1. Len(errs.flight) >= Len(b.flight) /\ \A k \in 1 .. Len(b.flight) : errs.flight[k] = b.flight[k]
    BY <1>1 DEF Keeps
  <2> QED
    BY <1>2, <2>1, KeptPrefix
<1>4. SubSeq(errs.stack, 1, Len(b.stack)) = b.stack
  <2>1. Len(errs.stack) > Len(b.stack) /\ \A k \in 1 .. Len(b.stack) : errs.stack[k] = b.stack[k]
    BY <1>1 DEF Keeps
  <2>2. Len(errs.stack) \in Nat /\ Len(b.stack) \in Nat
    BY <1>2, SeqHas
  <2>3. Len(errs.stack) >= Len(b.stack)
    BY <2>1, <2>2
  <2> QED
    BY <1>2, <2>1, <2>3, KeptPrefix
<1>5. errs.Errors = b.Errors
  BY <1>1 DEF Keeps
<1> QED
  BY <1>3, <1>4, <1>5 DEF b

(* Whatever a rule and its subtree report, commit, roll back or recover,   *)
(* the diagnostics and frames that its callers had when it was entered are *)
(* still there, in place (syntax_errors.go:67-94 under parser.go).         *)
THEOREM DiagnosticsKept == Spec => []CallersKeepTheirDiagnostics
  BY KeptDiagnostics, InvAlways, PTL

(* A store is its six fields. *)
LEMMA SameStore ==
  ASSUME NEW s, NEW t, IsStore(s), IsStore(t), s.Errors = t.Errors, s.stack = t.stack,
         s.flight = t.flight, s.delimiterBoundaries = t.delimiterBoundaries,
         s.entryRuleScopeDepth = t.entryRuleScopeDepth,
         s.entryRuleFlightBaseline = t.entryRuleFlightBaseline
  PROVE  s = t
<1>1. HasFields(s) /\ HasFields(t)
  BY DEF IsStore
<1> QED
  BY <1>1 DEF HasFields, StoreFields

LEMMA RollbackIsWhole ==
  ASSUME IInv, Leaving
  PROVE  Scoped(popFrame(errs, FALSE)) = top.before
<1> DEFINE q == popFrame(errs, FALSE)
           s == Scoped(q)
<1>1. /\ Len(errs.stack) = Len(top.before.stack) + 1
      /\ IsStore(errs) /\ IsStore(top.before) /\ Keeps(errs, top.before)
  BY CallersBelow
<1>2. /\ IsStore(q) /\ q.stack = top.before.stack /\ q.flight = top.before.flight
      /\ q.Errors = top.before.Errors
  BY <1>1, RollbackRestores, ZenonT(60)
<1>3. Hands(s)
  BY RollbackCloses, ClosesHands
<1> HIDE DEF q
<1>4. s.stack = q.stack /\ s.flight = q.flight /\ s.Errors = q.Errors
  BY <1>2 DEF Scoped, EndEntryRuleScope, IsStore, HasFields, StoreFields
<1> HIDE DEF s
<1>5. /\ IsStore(s) /\ s.entryRuleFlightBaseline = 0
      /\ s.entryRuleScopeDepth = top.before.entryRuleScopeDepth
      /\ s.delimiterBoundaries = top.before.delimiterBoundaries
  BY <1>3 DEF Hands, Sound
<1>6. top.before.entryRuleFlightBaseline = 0
  BY LeaveHas DEF Leaving
<1>7. s = top.before
  <2> DEFINE b == top.before
  <2>1. /\ IsStore(b) /\ s.Errors = b.Errors /\ s.stack = b.stack
        /\ s.flight = b.flight /\ s.delimiterBoundaries = b.delimiterBoundaries
        /\ s.entryRuleScopeDepth = b.entryRuleScopeDepth
        /\ s.entryRuleFlightBaseline = b.entryRuleFlightBaseline
    BY <1>1, <1>2, <1>4, <1>5, <1>6
  <2> HIDE DEF b
  <2>2. s = b
    BY <1>5, <2>1, SameStore
  <2> QED
    BY <2>2 DEF b
<1> QED
  BY <1>7 DEF s, q

(* A step out of a rule that did not match is its rollback. *)
LEMMA OnlyRollback ==
  ASSUME IInv, Next, Leaving, ~ret.Succeeded, ~Committed
  PROVE  RuleRollsBack
<1>1. control = "leave" /\ top.envelope
  BY DEF Leaving
<1>2. ~BodyStep
  <2>1. BodyStep => Running
    BY BodyStepMoves DEF BodyMoves
  <2> QED
    BY <1>1, <2>1 DEF Running
<1>3. /\ ~StartParse /\ ~LeaveReference /\ ~FinishParse /\ ~Stopped
  BY <1>1 DEF StartParse, LeaveReference, FinishParse, Stopped
<1>4. /\ ~RuleSucceeds /\ ~ContractPanic /\ ~RulePassesFailureUp /\ ~RuleRecovers /\ ~RuleFails
  BY DEF RuleSucceeds, ContractPanic, RulePassesFailureUp, RuleRecovers, RuleFails, Recovering
<1> QED
  BY <1>2, <1>3, <1>4 DEF Next, EngineStep

LEMMA RollbackLeavesNoTrace ==
  ASSUME IInv, [Next]_vars
  PROVE  [Leaving /\ ~ret.Succeeded /\ ~Committed =>
            cursor' = top.start /\ created' = top.createdAt /\ errs' = top.before]_vars
<1> SUFFICES ASSUME Next, Leaving, ~ret.Succeeded, ~Committed
             PROVE  cursor' = top.start /\ created' = top.createdAt /\ errs' = top.before
  OBVIOUS
<1>1. RuleRollsBack
  BY OnlyRollback
<1>2. cursor' = top.start /\ created' = top.createdAt /\ errs' = Scoped(popFrame(errs, FALSE))
  BY <1>1 DEF RuleRollsBack, Leave, Effect, Scoped
<1> QED
  BY <1>2, RollbackIsWhole

(* A rule that does not match, or fails as a probe, gives its caller the   *)
(* stream, the nodes and the diagnostic store that it was entered with     *)
(* (handleFailureState, parser.go:409-413).                                *)
THEOREM BacktrackingTraceless == Spec => BacktrackingLeavesNoTrace
<1>1. IInv /\ [Next]_vars =>
        [Leaving /\ ~ret.Succeeded /\ ~Committed =>
           cursor' = top.start /\ created' = top.createdAt /\ errs' = top.before]_vars
  BY RollbackLeavesNoTrace
<1> QED
  BY <1>1, InvAlways, PTL DEF Spec, BacktrackingLeavesNoTrace

-----------------------------------------------------------------------------
(* Why a failed parse has a diagnostic.                                    *)

(* A result that claims an error comes with a store that holds one. *)
Spoken(result, s) ==
  ~result.Succeeded => \/ result.Kind = FailureNoMatch
                       \/ result.Kind = FailureError /\ HasCommittedSyntaxErrors(s)

(* Only an Optional probes, and a Prefixed or a Nest, which must not turn a *)
(* mismatch of its child into an error without a word, remembers where its *)
(* child began.                                                            *)
Asked(cs) ==
  \A i \in DOMAIN cs :
     /\ i = 1 => cs[i].mode = "Normal" /\ cs[i].before.Errors = <<>>
     /\ i > 1 => /\ cs[i].mode = "Probe" => KindOf(cs[i - 1]) = "Optional"
                 /\ KindOf(cs[i - 1]) \in {"Prefixed", "Nest"} =>
                      cs[i - 1].marker = PeekRaw(cs[i].start).Start

(* What a caller is told, unless it is an Optional, which does not listen. *)
Heard(a, result, s, cur) ==
  KindOf(a) # "Optional" =>
    /\ Spoken(result, s)
    /\ KindOf(a) \in {"Prefixed", "Nest"} /\ ~result.Succeeded /\ result.Kind = FailureNoMatch =>
         a.marker = PeekRaw(cur).Start

Published(result, s) ==
  /\ IsSeq(s.Errors)
  /\ ~result.Succeeded => \/ result.Kind = FailureNoMatch
                          \/ result.Kind = FailureError /\ s.Errors # <<>>

Marked(s) == \A k \in DOMAIN s.delimiterBoundaries : s.delimiterBoundaries[k].flightAtOpen \in Nat

Said == /\ Asked(calls) /\ Marked(errs)
        /\ control = "leave" => Spoken(ret, errs)
        /\ control = "resume" => Heard(top, ret, errs, cursor)
        /\ control = "finish" => Published(ret, errs)
        /\ FailureIsDiagnosed

(* An error that is set, reported or already there is in the store. *)
LEMMA SetBestSpeaks ==
  ASSUME NEW s, NEW e, IsStore(s), s.stack # <<>>
  PROVE  HasCommittedSyntaxErrors(setBest(s, e))
<1> DEFINE n == Len(s.stack)
           t == setBest(s, e)
<1>1. n \in Nat \ {0} /\ DOMAIN s.stack = 1 .. n
  BY StoreHas
<1>2. n \in 1 .. n /\ IsFrame(s.stack[n])
  BY <1>1 DEF IsStore
<1>3. t.stack = [s.stack EXCEPT ![n] = [s.stack[n] EXCEPT !.best = e, !.hasBest = TRUE]]
  BY DEF setBest, IsStore, HasFields, StoreFields
<1> HIDE DEF t
<1> HIDE DEF n
<1>4. t.stack[n].hasBest
  BY <1>1, <1>2, <1>3 DEF IsFrame
<1>5. n \in DOMAIN t.stack
  BY <1>1, <1>2, <1>3
<1> QED
  BY <1>4, <1>5 DEF HasCommittedSyntaxErrors, t

LEMMA ReportSpeaks ==
  ASSUME NEW s, NEW e, IsStore(s), s.stack # <<>>
  PROVE  HasCommittedSyntaxErrors(report(s, e))
<1> DEFINE n == Len(s.stack)
<1>1. n \in DOMAIN s.stack
  <2>1. n \in Nat \ {0} /\ DOMAIN s.stack = 1 .. n
    BY StoreHas
  <2> QED
    BY <2>1
<1>2. CASE betterError(Top(s), e)
  BY <1>2, SetBestSpeaks DEF report
<1>3. CASE ~betterError(Top(s), e)
  <2>1. Top(s).hasBest /\ report(s, e) = s
    BY <1>3 DEF betterError, report
  <2>2. s.stack[n].hasBest
    BY <2>1 DEF Top
  <2> QED
    BY <1>1, <2>1, <2>2 DEF HasCommittedSyntaxErrors
<1> QED
  BY <1>2, <1>3

(* A commit hands on what the frame holds, and the last one publishes it. *)
LEMMA CommitSpeaks ==
  ASSUME NEW s, IsStore(s), s.stack # <<>>, s.Errors = <<>>,
         HasCommittedSyntaxErrors(s)
  PROVE  LET t == popFrame(s, TRUE)
         IN  /\ HasCommittedSyntaxErrors(t)
             /\ Len(s.stack) = 1 => t.Errors # <<>>
<1> DEFINE n == Len(s.stack)
           rest == Pop(s.stack)
           kept == IF Top(s).hasBest THEN Append(s.flight, Top(s).best) ELSE s.flight
           t == popFrame(s, TRUE)
<1>1. n \in Nat \ {0} /\ DOMAIN s.stack = 1 .. n /\ IsSeq(s.stack) /\ IsSeq(s.flight)
  BY StoreHas DEF IsStore
<1>2. IsSeq(rest) /\ Len(rest) = n - 1 /\ \A k \in 1 .. n - 1 : rest[k] = s.stack[k]
  BY <1>1, SeqPop
<1>3. /\ DOMAIN rest = 1 .. n - 1
      /\ rest = <<>> <=> n - 1 = 0
  BY <1>2, SeqHas
<1>4. IsSeq(kept) /\ (s.flight # <<>> \/ Top(s).hasBest => kept # <<>>)
  <2>1. CASE Top(s).hasBest
    <3> DEFINE f == Append(s.flight, Top(s).best)
    <3>1. IsSeq(f) /\ Len(f) = Len(s.flight) + 1
      BY <1>1, SeqAppend
    <3>2. Len(s.flight) \in Nat
      BY <1>1, SeqHas
    <3> HIDE DEF f
    <3>3. f # <<>>
      BY <3>1, <3>2, SeqHas
    <3> QED
      BY <2>1, <3>1, <3>3 DEF f
  <2>2. CASE ~Top(s).hasBest
    BY <1>1, <2>2
  <2> QED
    BY <2>1, <2>2
<1>5. /\ t.stack = rest
      /\ rest = <<>> => t.Errors = <<>> \o kept
      /\ rest # <<>> => t.flight = kept /\ t.Errors = s.Errors
  BY DEF popFrame, IsStore, HasFields, StoreFields
<1>6. \/ kept # <<>>
      \/ \E k \in 1 .. n - 1 : s.stack[k].hasBest
  <2>1. CASE \E k \in DOMAIN s.stack : s.stack[k].hasBest
    <3>1. PICK k \in 1 .. n : s.stack[k].hasBest
      BY <1>1, <2>1
    <3>2. CASE k = n
      BY <1>4, <3>1, <3>2 DEF Top
    <3>3. CASE k # n
      <4>1. k \in 1 .. n - 1
        BY <1>1, <3>3
      <4> QED
        BY <3>1, <4>1
    <3> QED
      BY <3>2, <3>3
  <2> QED
    BY <1>4, <2>1 DEF HasCommittedSyntaxErrors
<1> HIDE DEF kept, t, rest, n
<1>7. CASE rest = <<>>
  <2>1. ~(\E k \in 1 .. n - 1 : s.stack[k].hasBest)
    <3>1. n - 1 = 0
      BY <1>3, <1>7
    <3>2. 1 .. n - 1 = {}
      BY <3>1
    <3> QED
      BY <3>2
  <2>2. kept # <<>> /\ t.Errors = <<>> \o kept
    BY <1>5, <1>6, <1>7, <2>1
  <2>3. <<>> \o kept = kept
    BY <1>4, ConcatEmptySeq DEF IsSeq
  <2>4. t.Errors # <<>>
    BY <2>2, <2>3
  <2> QED
    BY <2>4 DEF HasCommittedSyntaxErrors, t
<1>8. CASE rest # <<>>
  <2>1. t.flight = kept /\ t.stack = rest /\ n # 1
    BY <1>1, <1>3, <1>5, <1>8
  <2>2. CASE kept # <<>>
    BY <2>1, <2>2 DEF HasCommittedSyntaxErrors, t, n
  <2>3. CASE \E k \in 1 .. n - 1 : s.stack[k].hasBest
    <3>1. \E k \in DOMAIN t.stack : t.stack[k].hasBest
      BY <1>2, <1>3, <2>1, <2>3
    <3> QED
      BY <2>1, <3>1 DEF HasCommittedSyntaxErrors, t, n
  <2> QED
    BY <1>6, <2>2, <2>3
<1> QED
  BY <1>7, <1>8 DEF n, t

(* The last commit publishes a sequence. *)
LEMMA CommitPublishes ==
  ASSUME NEW s, IsStore(s), s.Errors = <<>>, Len(s.stack) = 1
  PROVE  IsSeq(popFrame(s, TRUE).Errors)
<1> DEFINE rest == Pop(s.stack)
           kept == IF Top(s).hasBest THEN Append(s.flight, Top(s).best) ELSE s.flight
           t == popFrame(s, TRUE)
<1>1. IsSeq(s.stack) /\ IsSeq(s.flight) /\ s.stack # <<>>
  BY StoreHas DEF IsStore
<1>2. rest = <<>>
  <2> DEFINE stack == s.stack
  <2>1. IsSeq(stack) /\ stack # <<>> /\ Len(stack) = 1 /\ rest = Pop(stack)
    BY <1>1
  <2> HIDE DEF stack, rest
  <2>2. IsSeq(rest) /\ Len(rest) = Len(stack) - 1
    BY <2>1, SeqPop
  <2>3. IsSeq(rest) /\ Len(rest) = 0
    BY <2>1, <2>2
  <2> QED
    BY <2>3, SeqHas
<1>3. IsSeq(kept)
  BY <1>1, SeqAppend
<1>4. rest = <<>> => t.Errors = <<>> \o kept
  BY DEF popFrame, IsStore, HasFields, StoreFields
<1> HIDE DEF kept, t, rest
<1>5. t.Errors = kept
  BY <1>2, <1>3, <1>4, ConcatEmptySeq DEF IsSeq
<1> QED
  BY <1>3, <1>5 DEF t

-----------------------------------------------------------------------------
(* What bodies say. *)

(* A step of a body that calls with a reason and returns with a word.      *)
Voiced ==
  \/ \E a, r, mode, cur, s, count :
        /\ Call(a, r, mode, cur, s, count)
        /\ mode = "Probe" => topRule.kind = "Optional"
        /\ topRule.kind \in {"Prefixed", "Nest"} => a.marker = PeekRaw(cur).Start
  \/ control' = "loop"
  \/ \E result, cur, s, count : Return(result, cur, s, count) /\ Spoken(result, s)
  \/ topRule.kind = "Reference" /\ ExecuteReference(topRule.target)
  \/ control' = "panic"

Plain == topRule.kind \notin {"Prefixed", "Nest"}

LEMMA VoicedCall ==
  ASSUME Plain, NEW a, NEW r, NEW cur, NEW s, NEW count, Call(a, r, "Normal", cur, s, count)
  PROVE  Voiced
  BY DEF Voiced, Plain

LEMMA VoicedKid == ASSUME Plain, NEW a, NEW i, CallKid(a, i, "Normal") PROVE Voiced
  BY VoicedCall DEF CallKid

LEMMA VoicedContinue ==
  ASSUME NEW a, NEW cur, NEW s, NEW count, Continue(a, cur, s, count) PROVE Voiced
  BY DEF Voiced, Continue

LEMMA VoicedReturn ==
  ASSUME NEW result, NEW cur, NEW s, NEW count, Return(result, cur, s, count), Spoken(result, s)
  PROVE  Voiced
  BY DEF Voiced

LEMMA VoicedGive ==
  ASSUME NEW result, Give(result), Spoken(result, errs)
  PROVE  Voiced
  BY VoicedReturn DEF Give

LEMMA SpokenAlways == ASSUME NEW s
                      PROVE  /\ \A node : Spoken(Success(node), s)
                             /\ Spoken(Failure(FailureNoMatch), s)
  BY DEF Spoken, Success, Failure

LEMMA SpokenOnce == ASSUME NEW s, HasCommittedSyntaxErrors(s)
                    PROVE  Spoken(Failure(FailureError), s)
  BY DEF Spoken, Failure

LEMMA ReportedSpeaks == ASSUME IInv, Running, NEW p
                        PROVE  /\ HasCommittedSyntaxErrors(Reported(p))
                               /\ Spoken(Failure(FailureError), Reported(p))
  BY ErrsHas, ReportSpeaks, SpokenOnce DEF Running, Reported

LEMMA RetSpoken == ASSUME Said, control = "resume", topRule.kind # "Optional"
                   PROVE  Spoken(ret, errs)
  BY DEF Said, Heard, KindOf, topRule

(* A failed child that the store knows of, or a mismatch. *)
LEMMA RetKinds ==
  ASSUME Said, control = "resume", topRule.kind # "Optional", ~ret.Succeeded
  PROVE  \/ ret.Kind = FailureNoMatch
         \/ ret.Kind = FailureError /\ HasCommittedSyntaxErrors(errs)
  BY RetSpoken DEF Spoken

LEMMA ExpectVoiced == ASSUME ExpectToken PROVE Voiced
<1>1. CASE Next0.Token \in topRule.tokens
  BY <1>1, VoicedReturn, SpokenAlways DEF ExpectToken
<1>2. CASE Next0.Token \notin topRule.tokens
  BY <1>2, VoicedGive, SpokenAlways DEF ExpectToken
<1> QED
  BY <1>1, <1>2

LEMMA ListVoiced ==
  ASSUME IInv, ListOpen \/ ListFirst \/ ListAfterElement \/ ListAfterSeparator
  PROVE  Voiced
<1>1. Running
  BY AtHas DEF ListOpen, ListFirst, ListAfterElement, ListAfterSeparator
<1>2. \/ ListError \/ ListShift(0, 1) \/ ListShift(1, 1) \/ ListShift(2, 0)
      \/ \E allowed : ListClose(allowed)
  BY DEF ListOpen, ListFirst, ListAfterElement, ListAfterSeparator
<1>3. CASE ListError
  BY <1>1, <1>3, ReportedSpeaks, VoicedReturn DEF ListError
<1>4. ASSUME NEW x, NEW n, ListShift(x, n) PROVE Voiced
  BY <1>4, VoicedContinue DEF ListShift
<1>5. ASSUME NEW allowed, ListClose(allowed) PROVE Voiced
  <2>1. CASE allowed
    BY <1>5, <2>1, VoicedReturn, SpokenAlways DEF ListClose
  <2>2. CASE ~allowed
    BY <1>3, <1>5, <2>2 DEF ListClose
  <2> QED
    BY <2>1, <2>2
<1> QED
  BY <1>2, <1>3, <1>4, <1>5

LEMMA SequenceVoiced ==
  ASSUME IInv, Said, SequenceBegin \/ SequenceAdvance \/ SequenceFail
  PROVE  Voiced
<1>1. Running /\ Plain /\ topRule.kind # "Optional"
  <2>1. Running /\ topRule.kind = "Sequence"
    BY AtHas DEF SequenceBegin, SequenceAdvance, SequenceFail
  <2> QED
    BY <2>1 DEF Plain
<1>2. CASE SequenceBegin
  BY <1>1, <1>2, VoicedKid DEF SequenceBegin
<1>3. CASE SequenceAdvance
  <2>1. CASE top.next < Len(kids)
    BY <1>1, <1>3, <2>1, VoicedCall DEF SequenceAdvance
  <2>2. CASE ~(top.next < Len(kids))
    BY <1>3, <2>2, VoicedReturn, SpokenAlways DEF SequenceAdvance
  <2> QED
    BY <2>1, <2>2
<1>4. CASE SequenceFail
  <2> DEFINE kind == sequenceCommitmentFailureKind(top.marker, ret.Kind)
  <2>1. Return(Failure(kind), cursor, MissingReported, created)
    BY <1>4 DEF SequenceFail
  <2>2. control = "resume" /\ ~ret.Succeeded
    BY <1>4, AtHas DEF SequenceFail
  <2>3. kind = FailureNoMatch \/ kind = FailureError
    BY DEF sequenceCommitmentFailureKind
  <2>4. CASE kind = FailureNoMatch
    BY <2>1, <2>4, VoicedReturn, SpokenAlways
  <2>5. CASE kind = FailureError
    <3>1. HasCommittedSyntaxErrors(MissingReported)
      <4>1. CASE ret.Kind = FailureNoMatch
        <5>1. Promoted
          BY <2>2, <2>5, <4>1 DEF Promoted
        <5> QED
          BY <1>1, <5>1, ReportedSpeaks DEF MissingReported
      <4>2. CASE ret.Kind # FailureNoMatch
        <5>1. ~Promoted
          BY <4>2 DEF Promoted
        <5> QED
          BY <1>1, <2>2, <4>2, <5>1, RetKinds DEF MissingReported
      <4> QED
        BY <4>1, <4>2
    <3>2. Spoken(Failure(kind), MissingReported)
      BY <2>5, <3>1, SpokenOnce
    <3> QED
      BY <2>1, <3>2, VoicedReturn
  <2> QED
    BY <2>3, <2>4, <2>5
<1> QED
  BY <1>2, <1>3, <1>4

LEMMA GuardedVoiced ==
  ASSUME NEW kind \in {"OptionalWhen", "Predict"}, NEW otherwise, Spoken(otherwise, errs),
         Guarded(kind, otherwise)
  PROVE  Voiced
<1>1. Plain
  BY AtHas DEF Guarded, Plain
<1>2. CallKid(top, 1, "Normal") \/ Give(otherwise)
  BY DEF Guarded
<1> QED
  BY <1>1, <1>2, VoicedKid, VoicedGive

LEMMA AroundVoiced ==
  ASSUME IInv, Said,
         \/ OptionalBegin \/ OptionalEnd \/ OptionalWhenBegin \/ PredictBegin \/ RecoverSyncBegin
         \/ \E kind \in {"OptionalWhen", "Predict", "RecoverSync"} : ReturnKid(kind)
  PROVE  Voiced
<1>1. CASE OptionalBegin
  <2>1. topRule.kind = "Optional" /\ Call(top, kids[1], "Probe", cursor, errs, created)
    BY <1>1, AtHas DEF OptionalBegin, CallKid
  <2> QED
    BY <2>1 DEF Voiced
<1>2. CASE OptionalEnd
  <2>1. CASE ret.Succeeded
    BY <1>2, <2>1, VoicedGive DEF OptionalEnd, Spoken
  <2>2. CASE ~ret.Succeeded
    BY <1>2, <2>2, SpokenAlways, VoicedGive DEF OptionalEnd
  <2> QED
    BY <2>1, <2>2
<1>3. CASE OptionalWhenBegin
  BY <1>3, SpokenAlways, GuardedVoiced DEF OptionalWhenBegin
<1>4. CASE PredictBegin
  BY <1>4, SpokenAlways, GuardedVoiced DEF PredictBegin
<1>5. CASE RecoverSyncBegin
  BY <1>5, AtHas, VoicedKid DEF RecoverSyncBegin, Plain
<1>6. ASSUME NEW kind \in {"OptionalWhen", "Predict", "RecoverSync"}, ReturnKid(kind)
      PROVE  Voiced
  <2>1. control = "resume" /\ topRule.kind # "Optional" /\ Give(ret)
    BY <1>6, AtHas DEF ReturnKid
  <2> QED
    BY <2>1, RetSpoken, VoicedGive
<1> QED
  BY <1>1, <1>2, <1>3, <1>4, <1>5, <1>6

LEMMA SuffixVoiced ==
  ASSUME IInv, Said, OptionalSuffixBegin \/ OptionalSuffixEnd \/ RequiredBegin \/ RequiredEnd
  PROVE  Voiced
<1>1. CASE OptionalSuffixBegin \/ RequiredBegin
  BY <1>1, AtHas, VoicedKid DEF OptionalSuffixBegin, RequiredBegin, Plain
<1>2. CASE OptionalSuffixEnd
  <2>1. control = "resume" /\ topRule.kind # "Optional"
    BY <1>2, AtHas DEF OptionalSuffixEnd
  <2>2. Return(Success(TRUE), Consume(cursor), errs, NewNodes(1)) \/ Give(ret)
    BY <1>2 DEF OptionalSuffixEnd
  <2> QED
    BY <2>1, <2>2, RetSpoken, SpokenAlways, VoicedGive, VoicedReturn
<1>3. CASE RequiredEnd
  <2>1. control = "resume" /\ topRule.kind # "Optional" /\ Running
    BY <1>3, AtHas DEF RequiredEnd
  <2> DEFINE s == Reported(ExpectedPosition(cursor))
  <2>2. Return(Failure(FailureError), cursor, s, created) \/ Give(ret)
    BY <1>3 DEF RequiredEnd
  <2>3. Spoken(Failure(FailureError), s)
    BY <2>1, ReportedSpeaks
  <2> HIDE DEF s
  <2> QED
    BY <2>1, <2>2, <2>3, RetSpoken, VoicedGive, VoicedReturn
<1> QED
  BY <1>1, <1>2, <1>3

(* What a Prefixed or a Nest makes of the failure of its child. *)
LEMMA InnerSpoken ==
  ASSUME Said, control = "resume", topRule.kind \in {"Prefixed", "Nest"}, ~ret.Succeeded
  PROVE  Spoken(InnerFailure, errs)
<1>1. topRule.kind # "Optional"
  OBVIOUS
<1>2. CASE ret.Kind = FailureNoMatch
  <2>1. top.marker = PeekRaw(cursor).Start
    BY <1>2 DEF Said, Heard, KindOf, topRule
  <2>2. InnerFailure = Failure(FailureNoMatch)
    BY <1>2, <2>1 DEF InnerFailure, sequenceCommitmentFailureKind
  <2> QED
    BY <2>2, SpokenAlways
<1>3. CASE ret.Kind = FailureError /\ HasCommittedSyntaxErrors(errs)
  <2>1. InnerFailure = Failure(FailureError)
    BY <1>3 DEF InnerFailure, sequenceCommitmentFailureKind, FailureError, FailureNoMatch
  <2> QED
    BY <1>3, <2>1, SpokenOnce
<1> QED
  BY <1>1, <1>2, <1>3, RetKinds

LEMMA PrefixedVoiced == ASSUME IInv, Said, PrefixedBegin \/ PrefixedEnd PROVE Voiced
<1>1. CASE PrefixedBegin
  <2> DEFINE a == [top EXCEPT !.marker = PeekRaw(Consume(cursor)).Start]
  <2>1. \/ Call(a, kids[1], "Normal", Consume(cursor), errs, created)
        \/ Give(Failure(FailureNoMatch))
    BY <1>1 DEF PrefixedBegin
  <2>2. Running
    BY <1>1, AtHas DEF PrefixedBegin
  <2>3. a.marker = PeekRaw(Consume(cursor)).Start
    BY <2>2, TopHas DEF Running, IsActivation, ActivationFields
  <2> HIDE DEF a
  <2> QED
    BY <2>1, <2>3, VoicedGive, SpokenAlways DEF Voiced
<1>2. CASE PrefixedEnd
  <2>1. control = "resume" /\ topRule.kind = "Prefixed"
    BY <1>2, AtHas DEF PrefixedEnd
  <2>2. CASE ret.Succeeded
    BY <1>2, <2>2, VoicedGive DEF PrefixedEnd, Spoken
  <2>3. CASE ~ret.Succeeded
    BY <1>2, <2>1, <2>3, InnerSpoken, VoicedGive DEF PrefixedEnd
  <2> QED
    BY <2>2, <2>3
<1> QED
  BY <1>1, <1>2

(* An error inside a nest is an error. *)
LEMMA InsideSpeaks ==
  ASSUME NEW s, IsStore(s), Marked(s), HasCommittedErrorInsideCurrentDelimiterBoundary(s)
  PROVE  HasCommittedSyntaxErrors(s)
<1> DEFINE k == Len(s.delimiterBoundaries)
           b == s.delimiterBoundaries[k]
<1>1. k \in DOMAIN s.delimiterBoundaries
  <2>1. s.delimiterBoundaries # <<>> /\ IsSeq(s.delimiterBoundaries)
    BY DEF HasCommittedErrorInsideCurrentDelimiterBoundary, IsStore
  <2>2. k \in Nat \ {0} /\ DOMAIN s.delimiterBoundaries = 1 .. k
    BY <2>1, SeqHas
  <2> QED
    BY <2>2
<1>2. b.flightAtOpen \in Nat
  BY <1>1 DEF Marked
<1>3. CASE \E i \in DOMAIN s.stack : s.stack[i].hasBest
  BY <1>3 DEF HasCommittedSyntaxErrors
<1>4. CASE \E i \in b.flightAtOpen + 1 .. Len(s.flight) : TRUE
  <2>1. Len(s.flight) \in Nat
    BY StoreHas
  <2>2. Len(s.flight) # 0
    BY <1>2, <1>4, <2>1
  <2>3. s.flight # <<>>
    BY <2>2, StoreHas
  <2> QED
    BY <2>3 DEF HasCommittedSyntaxErrors
<1> QED
  BY <1>3, <1>4 DEF HasCommittedErrorInsideCurrentDelimiterBoundary

LEMMA PoppedSpeaks ==
  ASSUME NEW s, IsStore(s), HasCommittedSyntaxErrors(s)
  PROVE  HasCommittedSyntaxErrors(PopDelimiterBoundary(s))
<1> DEFINE t == PopDelimiterBoundary(s)
<1>1. t.Errors = s.Errors /\ t.stack = s.stack /\ t.flight = s.flight
  BY DEF PopDelimiterBoundary, IsStore, HasFields, StoreFields
<1> HIDE DEF t
<1> QED
  BY <1>1 DEF HasCommittedSyntaxErrors, t

LEMMA NestVoiced ==
  ASSUME IInv, Said, NestBegin \/ NestInnerFails \/ NestCloses \/ NestCloseMissing
  PROVE  Voiced
<1>1. CASE NestBegin
  <2> DEFINE a == [top EXCEPT !.marker = PeekRaw(Consume(cursor)).Start]
             s == PushDelimiterBoundary(errs, Next0.Start)
  <2>1. \/ Call(a, kids[1], "Normal", Consume(cursor), s, created)
        \/ Give(Failure(FailureNoMatch))
    BY <1>1 DEF NestBegin
  <2>2. Running
    BY <1>1, AtHas DEF NestBegin
  <2>3. a.marker = PeekRaw(Consume(cursor)).Start
    BY <2>2, TopHas DEF Running, IsActivation, ActivationFields
  <2> HIDE DEF a, s
  <2> QED
    BY <2>1, <2>3, VoicedGive, SpokenAlways DEF Voiced
<1>2. CASE NestInnerFails
  <2>1. control = "resume" /\ topRule.kind = "Nest" /\ ~ret.Succeeded /\ Running
    BY <1>2, AtHas DEF NestInnerFails
  <2>2. Spoken(InnerFailure, errs)
    BY <2>1, InnerSpoken
  <2>3. Spoken(InnerFailure, PopDelimiterBoundary(errs))
    BY <2>1, <2>2, ErrsHas, PoppedSpeaks DEF Spoken
  <2> QED
    BY <1>2, <2>3, VoicedReturn DEF NestInnerFails
<1>3. CASE NestCloses
  <2> DEFINE result == IF topRule.transparent THEN ret ELSE Success(TRUE)
             s == PopDelimiterBoundary(errs)
             n == NewNodes(IF topRule.transparent THEN 0 ELSE 1)
  <2>1. Return(result, Consume(cursor), s, n) /\ ret.Succeeded
    BY <1>3 DEF NestCloses
  <2>2. Spoken(result, s)
    BY <2>1, SpokenAlways DEF Spoken
  <2> HIDE DEF result, s, n
  <2> QED
    BY <2>1, <2>2, VoicedReturn
<1>4. CASE NestCloseMissing
  <2> DEFINE q == IF HasCommittedErrorInsideCurrentDelimiterBoundary(errs) THEN errs
                  ELSE Reported(Next0.Start)
             s == PopDelimiterBoundary(q)
  <2>1. Return(Failure(FailureError), cursor, s, created)
    BY <1>4 DEF NestCloseMissing
  <2>2. Running
    BY <1>4, AtHas DEF NestCloseMissing
  <2>3. IsStore(errs) /\ Marked(errs)
    BY <2>2, ErrsHas DEF Said, Running
  <2>4. HasCommittedSyntaxErrors(q) /\ IsStore(q)
    <3>1. CASE HasCommittedErrorInsideCurrentDelimiterBoundary(errs)
      BY <2>3, <3>1, InsideSpeaks
    <3>2. CASE ~HasCommittedErrorInsideCurrentDelimiterBoundary(errs)
      <4>1. q = Reported(Next0.Start)
        BY <3>2
      <4>2. IsStore(Reported(Next0.Start))
        BY <2>2, SomethingSaid DEF Remarked
      <4> QED
        BY <2>2, <4>1, <4>2, ReportedSpeaks
    <3> QED
      BY <3>1, <3>2
  <2> HIDE DEF q
  <2>5. Spoken(Failure(FailureError), s)
    BY <2>4, PoppedSpeaks, SpokenOnce
  <2> QED
    BY <2>1, <2>5, VoicedReturn
<1> QED
  BY <1>1, <1>2, <1>3, <1>4

LEMMA RootVoiced == ASSUME IInv, Said, RootBegin \/ RootAdvance \/ RootFail PROVE Voiced
<1>1. Running /\ Plain /\ topRule.kind # "Optional"
  <2>1. Running /\ topRule.kind = "Root"
    BY AtHas DEF RootBegin, RootAdvance, RootFail
  <2> QED
    BY <2>1 DEF Plain
<1>2. CASE RootBegin
  BY <1>1, <1>2, VoicedCall DEF RootBegin
<1>3. CASE RootAdvance
  <2>1. CASE top.next < Len(kids)
    BY <1>1, <1>3, <2>1, VoicedKid DEF RootAdvance
  <2>2. CASE ~(top.next < Len(kids))
    BY <1>3, <2>2, VoicedGive, SpokenAlways DEF RootAdvance
  <2> QED
    BY <2>1, <2>2
<1>4. CASE RootFail
  <2> DEFINE late == top.next > 1 /\ ret.Kind = FailureNoMatch
             result == [ret EXCEPT !.Node = TRUE, !.Kind = IF late THEN FailureError ELSE @]
             s == IF late /\ ~HasCommittedErrorSinceEntryRuleScope(errs)
                    THEN Reported(ExpectedPosition(cursor)) ELSE errs
  <2>1. control = "resume" /\ ~ret.Succeeded /\ Return(result, cursor, s, created)
    BY <1>4, AtHas DEF RootFail
  <2>2. result.Succeeded = ret.Succeeded /\ result.Kind = IF late THEN FailureError ELSE ret.Kind
    BY RetIsResult DEF Results
  <2>3. CASE late
    <3>1. HasCommittedSyntaxErrors(s)
      <4>1. CASE HasCommittedErrorSinceEntryRuleScope(errs)
        <5>1. Len(errs.flight) > errs.entryRuleFlightBaseline /\ IsStore(errs)
          BY <4>1 DEF HasCommittedErrorSinceEntryRuleScope, IInv, Stores
        <5>2. errs.entryRuleFlightBaseline = 0 /\ Len(errs.flight) \in Nat
          BY <5>1, StoreHas DEF IInv, Stores
        <5>3. Len(errs.flight) # 0
          BY <5>1, <5>2
        <5>4. errs.flight # <<>>
          BY <5>1, <5>3, StoreHas
        <5> QED
          BY <2>3, <4>1, <5>4 DEF HasCommittedSyntaxErrors
      <4>2. CASE ~HasCommittedErrorSinceEntryRuleScope(errs)
        BY <1>1, <2>3, <4>2, ReportedSpeaks
      <4> QED
        BY <4>1, <4>2
    <3>2. Spoken(result, s)
      BY <2>2, <2>3, <3>1 DEF Spoken
    <3> HIDE DEF result, s
    <3> QED
      BY <2>1, <3>2, VoicedReturn
  <2>4. CASE ~late
    <3>1. Spoken(ret, errs)
      BY <1>1, <2>1, RetSpoken
    <3>2. Spoken(result, s)
      BY <2>2, <2>4, <3>1 DEF Spoken
    <3> HIDE DEF result, s
    <3> QED
      BY <2>1, <3>2, VoicedReturn
  <2> QED
    BY <2>3, <2>4
<1> QED
  BY <1>2, <1>3, <1>4

LEMMA RepetitionEndVoiced == ASSUME NEW count, RepetitionEnd(count) PROVE Voiced
  BY VoicedGive, SpokenAlways DEF RepetitionEnd

LEMMA AttemptVoiced == ASSUME Plain, NEW a, NEW cur, NEW count, Attempt(a, cur, count) PROVE Voiced
  BY VoicedCall DEF Attempt

LEMMA RepetitionVoiced ==
  ASSUME IInv, Said,
         \/ RepetitionBegin \/ RepetitionBeginFull \/ RepetitionMatch \/ RepetitionStops
         \/ RepetitionPropagates \/ RepetitionRetries
  PROVE  Voiced
<1>1. Running /\ Plain /\ topRule.kind # "Optional"
  <2>1. Running /\ topRule.kind = "Repetition"
    BY AtHas DEF RepetitionBegin, RepetitionBeginFull, RepetitionMatch, RepetitionStops,
                 RepetitionPropagates, RepetitionRetries
  <2> QED
    BY <2>1 DEF Plain
<1>2. CASE RepetitionBegin
  BY <1>1, <1>2, AttemptVoiced DEF RepetitionBegin
<1>3. CASE RepetitionBeginFull
  BY <1>3, VoicedReturn, SpokenAlways DEF RepetitionBeginFull
<1>4. CASE RepetitionMatch
  BY <1>1, <1>4, AttemptVoiced, RepetitionEndVoiced DEF RepetitionMatch
<1>5. CASE RepetitionStops
  BY <1>5, RepetitionEndVoiced DEF RepetitionStops
<1>6. CASE RepetitionPropagates
  <2>1. control = "resume" /\ Give(ret)
    BY <1>6, AtHas DEF RepetitionPropagates
  <2> QED
    BY <1>1, <2>1, RetSpoken, VoicedGive
<1>7. CASE RepetitionRetries
  BY <1>1, <1>7, AttemptVoiced, RepetitionEndVoiced DEF RepetitionRetries
<1> QED
  BY <1>2, <1>3, <1>4, <1>5, <1>6, <1>7

LEMMA TryArmVoiced == ASSUME Plain, NEW i, TryArm(i) PROVE Voiced
<1>1. CASE ArmsAfter(i) = {}
  BY <1>1, VoicedGive, SpokenAlways DEF TryArm
<1>2. CASE ArmsAfter(i) # {}
  BY <1>2, VoicedKid DEF TryArm
<1> QED
  BY <1>1, <1>2

LEMMA ChoiceVoiced ==
  ASSUME IInv, Said, ChoiceBegin \/ ChoiceEnd \/ ChoiceNextArm
  PROVE  Voiced
<1>1. Plain /\ topRule.kind # "Optional"
  <2>1. topRule.kind = "Choice"
    BY AtHas DEF ChoiceBegin, ChoiceEnd, ChoiceNextArm
  <2> QED
    BY <2>1 DEF Plain
<1>2. CASE ChoiceEnd
  <2>1. control = "resume" /\ Give(ret)
    BY <1>2, AtHas DEF ChoiceEnd
  <2> QED
    BY <1>1, <2>1, RetSpoken, VoicedGive
<1>3. CASE ChoiceBegin \/ ChoiceNextArm
  BY <1>1, <1>3, TryArmVoiced DEF ChoiceBegin, ChoiceNextArm
<1> QED
  BY <1>2, <1>3

LEMMA PrattVoiced == ASSUME IInv, Said, PrattStep PROVE Voiced
<1>1. Plain /\ topRule.kind # "Optional" /\ Running
  <2>1. Running /\ topRule.kind = "Pratt"
    BY AtHas DEF PrattStep, AmbiguityPanic, PrattBegin, TryPrefixOp, TryPrefixRuleOp,
                 ParsePrimary, ParsePrimaryEnd, TryPostfixOp, TryInfixOp, TryRuleOp, RuleOpEnd,
                 TryImplicitInfix, RunEnd, PrattEnd, Operand, Loop
  <2> QED
    BY <2>1 DEF Plain
<1>2. CASE AmbiguityPanic
  BY <1>2 DEF AmbiguityPanic, Voiced
<1>3. CASE PrattBegin \/ TryPostfixOp \/ TryImplicitInfix \/ RunEnd
  BY <1>3, VoicedContinue DEF PrattBegin, TryPostfixOp, TryImplicitInfix, RunEnd
<1>4. ASSUME NEW o, TakeToken(o) PROVE Voiced
  BY <1>4, VoicedContinue DEF TakeToken
<1>5. ASSUME NEW o, CallOperator(o) PROVE Voiced
  BY <1>1, <1>5, VoicedKid DEF CallOperator
<1>6. CASE TryPrefixOp \/ TryPrefixRuleOp \/ TryInfixOp \/ TryRuleOp
  BY <1>4, <1>5, <1>6 DEF TryPrefixOp, TryPrefixRuleOp, TryInfixOp, TryRuleOp
<1>7. CASE ParsePrimary
  BY <1>1, <1>7, VoicedKid DEF ParsePrimary
<1>8. CASE ParsePrimaryEnd
  <2>1. control = "resume"
    BY <1>8, AtHas DEF ParsePrimaryEnd
  <2>2. CASE ~ret.Succeeded
    BY <1>1, <1>8, <2>1, <2>2, RetSpoken, VoicedGive DEF ParsePrimaryEnd
  <2>3. CASE ret.Succeeded /\ ~ret.Node
    <3>1. Return(Failure(FailureError), cursor, Reported(Next0.Start), created)
      BY <1>8, <2>3 DEF ParsePrimaryEnd
    <3> QED
      BY <1>1, <3>1, ReportedSpeaks, VoicedReturn
  <2>4. CASE ret.Succeeded /\ ret.Node
    BY <1>8, <2>4, VoicedContinue DEF ParsePrimaryEnd
  <2> QED
    BY <2>2, <2>3, <2>4
<1>9. CASE RuleOpEnd
  <2>1. control = "resume"
    BY <1>9, AtHas DEF RuleOpEnd
  <2>2. CASE ~ret.Succeeded
    BY <1>1, <1>9, <2>1, <2>2, RetSpoken, VoicedGive DEF RuleOpEnd
  <2>3. CASE ret.Succeeded
    BY <1>9, <2>3, VoicedContinue DEF RuleOpEnd
  <2> QED
    BY <2>2, <2>3
<1>10. CASE PrattEnd
  BY <1>10, SpokenAlways, VoicedGive DEF PrattEnd
<1> QED
  BY <1>2, <1>3, <1>6, <1>7, <1>8, <1>9, <1>10 DEF PrattStep

LEMMA BodyVoiced == ASSUME IInv, Said, BodyStep PROVE Voiced
<1>1. CASE ReferenceBegin
  BY <1>1, AtHas DEF ReferenceBegin, Voiced
<1>2. CASE \/ ReturnKid("OptionalWhen") \/ ReturnKid("Predict") \/ ReturnKid("RecoverSync")
  BY <1>2, AroundVoiced
<1> QED
  BY <1>1, <1>2, ExpectVoiced, ListVoiced, SequenceVoiced, AroundVoiced, SuffixVoiced,
     PrefixedVoiced, NestVoiced, RootVoiced, RepetitionVoiced, ChoiceVoiced, PrattVoiced
     DEF BodyStep

-----------------------------------------------------------------------------
(* Calls that have a reason. *)

LEMMA AskedNow ==
  ASSUME parser' = parser, input' = input, Asked(calls')
  PROVE  Asked(calls)'
<1>1. Rule' = Rule
  BY DEF Rule
<1>2. \A i : PeekRaw(calls[i].start)' = PeekRaw(calls'[i].start)
  BY DEF PeekRaw, Lexeme
<1>3. \A i : KindOf(calls[i])' = KindOf(calls'[i])
  BY <1>1 DEF KindOf
<1> QED
  BY <1>2, <1>3 DEF Asked

LEMMA AskedPush ==
  ASSUME NEW t, IsSeq(t), Asked(t), NEW a,
         t = <<>> => a.mode = "Normal" /\ a.before.Errors = <<>>,
         t # <<>> => /\ a.mode = "Probe" => KindOf(t[Len(t)]) = "Optional"
                     /\ KindOf(t[Len(t)]) \in {"Prefixed", "Nest"} =>
                          t[Len(t)].marker = PeekRaw(a.start).Start
  PROVE  Asked(Append(t, a))
<1> DEFINE n == Len(t)
           u == Append(t, a)
<1>1. /\ n \in Nat /\ DOMAIN t = 1 .. n
      /\ t = <<>> <=> n = 0
  BY SeqHas
<1>2. DOMAIN u = 1 .. n + 1 /\ u[n + 1] = a /\ \A i \in 1 .. n : u[i] = t[i]
  BY SeqAppend
<1> HIDE DEF u
<1> SUFFICES ASSUME NEW i \in 1 .. n + 1
             PROVE  /\ i = 1 => u[i].mode = "Normal" /\ u[i].before.Errors = <<>>
                    /\ i > 1 => /\ u[i].mode = "Probe" => KindOf(u[i - 1]) = "Optional"
                                /\ KindOf(u[i - 1]) \in {"Prefixed", "Nest"} =>
                                     u[i - 1].marker = PeekRaw(u[i].start).Start
  BY <1>2 DEF Asked, u
<1>3. i \in 1 .. n \/ i = n + 1
  BY <1>1
<1>4. CASE i \in 1 .. n
  <2>1. u[i] = t[i] /\ i \in DOMAIN t /\ (i > 1 => u[i - 1] = t[i - 1])
    BY <1>1, <1>2, <1>4
  <2> QED
    BY <2>1 DEF Asked
<1>5. CASE i = n + 1
  <2>1. u[i] = a
    BY <1>2, <1>5
  <2>2. CASE n = 0
    BY <1>1, <1>5, <2>1, <2>2
  <2>3. CASE n # 0
    <3>1. u[i - 1] = t[n] /\ i # 1 /\ t # <<>>
      BY <1>1, <1>2, <1>5, <2>3
    <3> QED
      BY <2>1, <3>1
  <2> QED
    BY <2>2, <2>3
<1> QED
  BY <1>3, <1>4, <1>5

LEMMA AskedPop ==
  ASSUME NEW t, IsSeq(t), t # <<>>, Asked(t)
  PROVE  Asked(Pop(t))
<1> DEFINE n == Len(t)
           u == Pop(t)
<1>1. /\ n \in Nat \ {0} /\ DOMAIN t = 1 .. n /\ DOMAIN u = 1 .. n - 1
      /\ \A i \in 1 .. n - 1 : u[i] = t[i]
  BY SeqPop, SeqHas
<1> HIDE DEF u, n
<1> SUFFICES ASSUME NEW i \in 1 .. n - 1
             PROVE  /\ i = 1 => u[i].mode = "Normal" /\ u[i].before.Errors = <<>>
                    /\ i > 1 => /\ u[i].mode = "Probe" => KindOf(u[i - 1]) = "Optional"
                                /\ KindOf(u[i - 1]) \in {"Prefixed", "Nest"} =>
                                     u[i - 1].marker = PeekRaw(u[i].start).Start
  BY <1>1 DEF Asked, u
<1>2. u[i] = t[i] /\ i \in DOMAIN t /\ (i > 1 => u[i - 1] = t[i - 1])
  BY <1>1
<1> QED
  BY <1>2 DEF Asked

(* The top activation with other locals was called for the same reason. *)
LEMMA AskedTop ==
  ASSUME IInv, Running, Asked(calls), NEW a, Same(a)
  PROVE  LET u == Append(Pop(calls), a)
         IN  /\ Asked(u) /\ IsSeq(u) /\ u # <<>> /\ u[Len(u)] = a
             /\ Len(u) = Len(calls) /\ Pop(u) = Pop(calls)
<1> DEFINE n == Len(calls)
           p == Pop(calls)
           u == Append(p, a)
           m == Len(p)
<1>1. calls # <<>> /\ IsSeq(calls) /\ n \in Nat \ {0} /\ DOMAIN calls = 1 .. n
  BY TopHas DEF Running
<1>2. /\ IsSeq(p) /\ m = n - 1 /\ \A i \in 1 .. n - 1 : p[i] = calls[i]
      /\ (p = <<>> <=> m = 0)
  BY <1>1, SeqPop, SeqHas
<1>3. Asked(p)
  BY <1>1, AskedPop
<1>4. calls[n] = top /\ a.mode = top.mode /\ a.before = top.before /\ a.start = top.start
  BY DEF Same, top
<1> HIDE DEF p
<1>5. IsSeq(u) /\ u # <<>> /\ Len(u) = m + 1 /\ u[m + 1] = a /\ Pop(u) = p
  BY <1>2, SeqAppend
<1> HIDE DEF n, m
<1>6. m + 1 = n
  BY <1>1, <1>2
<1>7. /\ p = <<>> => a.mode = "Normal" /\ a.before.Errors = <<>>
      /\ p # <<>> => /\ a.mode = "Probe" => KindOf(p[m]) = "Optional"
                     /\ KindOf(p[m]) \in {"Prefixed", "Nest"} =>
                          p[m].marker = PeekRaw(a.start).Start
  <2>1. CASE p = <<>>
    <3>1. n = 1
      BY <1>1, <1>2, <2>1
    <3>2. 1 \in DOMAIN calls
      BY <1>1
    <3>3. calls[1].mode = "Normal" /\ calls[1].before.Errors = <<>>
      BY <3>2 DEF Asked
    <3> QED
      BY <1>4, <2>1, <3>1, <3>3
  <2>2. CASE p # <<>>
    <3>1. m \in 1 .. n - 1 /\ m = n - 1 /\ n \in DOMAIN calls /\ n > 1
      BY <1>1, <1>2, <2>2
    <3>2. p[m] = calls[n - 1]
      BY <1>2, <3>1
    <3>3. /\ calls[n].mode = "Probe" => KindOf(calls[n - 1]) = "Optional"
          /\ KindOf(calls[n - 1]) \in {"Prefixed", "Nest"} =>
               calls[n - 1].marker = PeekRaw(calls[n].start).Start
      BY <3>1 DEF Asked
    <3> QED
      BY <1>4, <2>2, <3>2, <3>3
  <2> QED
    BY <2>1, <2>2
<1>8. Asked(u)
  BY <1>2, <1>3, <1>7, AskedPush DEF m
<1> HIDE DEF u
<1>9. u[Len(u)] = a /\ Len(u) = n
  BY <1>5, <1>6
<1> QED
  BY <1>5, <1>8, <1>9 DEF u, p, n

(* The parts of the invariant after a step. *)
LEMMA SaidNow ==
  ASSUME parser' = parser, input' = input, Asked(calls'), Marked(errs'),
         control' = "leave" => Spoken(ret', errs'),
         control' = "resume" => Heard(calls'[Len(calls')], ret', errs', cursor'),
         control' = "finish" => Published(ret', errs'),
         control' = "done" /\ ~ret'.Succeeded => errs'.Errors # <<>>
  PROVE  Said'
<1>1. Asked(calls)'
  BY AskedNow
<1>2. Heard(top, ret, errs, cursor)' <=> Heard(calls'[Len(calls')], ret', errs', cursor')
  <2>1. Rule' = Rule
    BY DEF Rule
  <2>2. PeekRaw(cursor)' = PeekRaw(cursor')
    BY DEF PeekRaw, Lexeme
  <2>3. top' = calls'[Len(calls')]
    BY DEF top
  <2>4. KindOf(top)' = KindOf(calls'[Len(calls')])
    BY <2>1, <2>3 DEF KindOf
  <2> QED
    BY <2>2, <2>3, <2>4 DEF Heard, Spoken, HasCommittedSyntaxErrors
<1>3. Spoken(ret, errs)' <=> Spoken(ret', errs')
  BY DEF Spoken, HasCommittedSyntaxErrors
<1>4. (Published(ret, errs)' <=> Published(ret', errs')) /\ (Marked(errs)' <=> Marked(errs'))
  BY DEF Published, Marked
<1> QED
  BY <1>1, <1>2, <1>3, <1>4 DEF Said, FailureIsDiagnosed

LEMMA MarkedSame ==
  ASSUME NEW s, NEW t, Marked(s), t.delimiterBoundaries = s.delimiterBoundaries
  PROVE  Marked(t)
  BY DEF Marked

LEMMA MarkedMore ==
  ASSUME NEW s, NEW n, IsStore(s), Marked(s)
  PROVE  Marked(PushDelimiterBoundary(s, n))
<1> DEFINE t == PushDelimiterBoundary(s, n)
           b == [regionStart |-> n, flightAtOpen |-> Len(s.flight)]
           open == s.delimiterBoundaries
           m == Len(open)
<1>1. t.delimiterBoundaries = Append(open, b)
  BY DEF IsStore, HasFields, StoreFields, PushDelimiterBoundary
<1>2. IsSeq(open) /\ Len(s.flight) \in Nat /\ m \in Nat /\ DOMAIN open = 1 .. m
  BY StoreHas, SeqHas DEF IsStore
<1>3. b.flightAtOpen \in Nat
  BY <1>2
<1> HIDE DEF b, t
<1>4. /\ DOMAIN Append(open, b) = 1 .. m + 1 /\ Append(open, b)[m + 1] = b
      /\ \A i \in 1 .. m : Append(open, b)[i] = open[i]
  BY <1>2, SeqAppend
<1> DEFINE more == Append(open, b)
<1> HIDE DEF more, m
<1>5. ASSUME NEW k \in 1 .. m + 1 PROVE more[k].flightAtOpen \in Nat
  <2>1. k \in 1 .. m \/ k = m + 1
    BY <1>2
  <2>2. CASE k \in 1 .. m
    BY <1>2, <1>4, <2>2 DEF Marked, more
  <2>3. CASE k = m + 1
    BY <1>3, <1>4, <2>3 DEF more
  <2> QED
    BY <2>1, <2>2, <2>3
<1> QED
  BY <1>1, <1>4, <1>5 DEF Marked, t, more

LEMMA MarkedLess ==
  ASSUME NEW s, NEW t, Marked(s), IsSeq(s.delimiterBoundaries), s.delimiterBoundaries # <<>>,
         t.delimiterBoundaries = Pop(s.delimiterBoundaries)
  PROVE  Marked(t)
<1> DEFINE open == s.delimiterBoundaries
           n == Len(open)
<1>1. /\ DOMAIN Pop(open) = 1 .. n - 1 /\ n \in Nat \ {0} /\ DOMAIN open = 1 .. n
      /\ \A i \in 1 .. n - 1 : Pop(open)[i] = open[i]
  BY SeqPop, SeqHas
<1>2. ASSUME NEW k \in 1 .. n - 1 PROVE Pop(open)[k].flightAtOpen \in Nat
  <2>1. k \in 1 .. n
    BY <1>1
  <2> QED
    BY <1>1, <2>1 DEF Marked
<1> QED
  BY <1>1, <1>2 DEF Marked

(* Two descriptions of one call agree on what matters. *)
LEMMA OneCall ==
  ASSUME IInv, Running, NEW a, NEW r, NEW mode, NEW cur, NEW s, NEW count,
         NEW b, NEW q, NEW how, NEW at, NEW z, NEW k,
         Call(a, r, mode, cur, s, count), Call(b, q, how, at, z, k)
  PROVE  a = b /\ mode = how /\ cur = at
<1> DEFINE p == Pop(calls)
           t == Append(p, a)
           u == Append(p, b)
           x == Activation(r, mode, TRUE, cur, s, count)
           y == Activation(q, how, TRUE, at, z, k)
<1>1. IsSeq(p)
  BY TopHas, SeqPop DEF Running
<1>2. calls' = Append(t, x) /\ calls' = Append(u, y) /\ cur = at
  BY DEF Call, Enter, Effect
<1>3. x.mode = mode /\ y.mode = how
  BY DEF Activation
<1> HIDE DEF p, x, y
<1>4. IsSeq(t) /\ Len(t) = Len(p) + 1 /\ t[Len(p) + 1] = a
  BY <1>1, SeqAppend
<1>5. IsSeq(u) /\ Len(u) = Len(p) + 1 /\ u[Len(p) + 1] = b
  BY <1>1, SeqAppend
<1> HIDE DEF t, u
<1>6. calls'[Len(t) + 1] = x /\ calls'[Len(u) + 1] = y
  BY <1>2, <1>4, <1>5, SeqAppend, ZenonT(60)
<1>7. Pop(Append(t, x)) = t /\ Pop(Append(u, y)) = u
  BY <1>4, <1>5, SeqAppend
<1>8. t = u /\ x = y
  BY <1>2, <1>4, <1>5, <1>6, <1>7
<1> QED
  BY <1>2, <1>3, <1>4, <1>5, <1>8

(* The store that a call hands down. *)
LEMMA MarkedOpened ==
  ASSUME IInv, Running, Marked(errs), NEW s, Opened(s)
  PROVE  Marked(s)
<1>1. CASE topRule.kind = "Nest"
  <2>1. PICK n : s = PushDelimiterBoundary(errs, n)
    BY <1>1 DEF Opened
  <2>2. IsStore(errs)
    BY ErrsHas DEF Running
  <2> QED
    BY <2>1, <2>2, MarkedMore
<1>2. CASE topRule.kind # "Nest"
  BY <1>2, MarkedSame DEF Opened, Remarked
<1> QED
  BY <1>1, <1>2

LEMMA MarkedEntered ==
  ASSUME NEW s, IsStore(s), Marked(s)
  PROVE  Marked(pushFrame(s)) /\ Marked(pushFrame(BeginEntryRuleScope(s)))
<1> DEFINE t == pushFrame(s)
           p == BeginEntryRuleScope(s)
           u == pushFrame(p)
<1>1. t.delimiterBoundaries = s.delimiterBoundaries
  BY DEF pushFrame, IsStore, HasFields, StoreFields
<1>2. HasFields(p) /\ p.delimiterBoundaries = s.delimiterBoundaries
  BY DEF BeginEntryRuleScope, IsStore, HasFields, StoreFields
<1> HIDE DEF p, t
<1>3. u.delimiterBoundaries = p.delimiterBoundaries
  BY <1>2 DEF pushFrame, HasFields, StoreFields
<1> HIDE DEF u
<1>4. Marked(t) /\ Marked(u)
  BY <1>1, <1>2, <1>3, MarkedSame
<1> QED
  BY <1>4 DEF t, u, p

LEMMA SaidEnter ==
  ASSUME IInv, NEW t, IsSeq(t), Asked(t), NEW r, NEW mode, NEW cur, NEW s, NEW count,
         Enter(t, r, mode, cur, s, count), IsStore(s), Marked(s),
         t = <<>> => mode = "Normal" /\ s.Errors = <<>>,
         t # <<>> => /\ mode = "Probe" => KindOf(t[Len(t)]) = "Optional"
                     /\ KindOf(t[Len(t)]) \in {"Prefixed", "Nest"} =>
                          t[Len(t)].marker = PeekRaw(cur).Start
  PROVE  Said'
<1> DEFINE x == Activation(r, mode, TRUE, cur, s, count)
<1>1. /\ calls' = Append(t, x) /\ parser' = parser /\ input' = input /\ control' = "begin"
      /\ errs' = pushFrame(IF mode = "Normal" /\ IsProgramRule(r) THEN BeginEntryRuleScope(s)
                           ELSE s)
  BY DEF Enter, Effect
<1>2. x.mode = mode /\ x.start = cur /\ x.before = s
  BY DEF Activation
<1> HIDE DEF x
<1>3. Asked(calls')
  BY <1>1, <1>2, AskedPush
<1>4. Marked(errs')
  BY <1>1, MarkedEntered
<1> QED
  BY <1>1, <1>3, <1>4, SaidNow

LEMMA SaidCalls ==
  ASSUME IInv, Said, Running, Voiced, NEW a, NEW r, NEW mode, NEW cur, NEW s, NEW count,
         Calls(a, r, mode, cur, s, count)
  PROVE  Said'
<1> DEFINE t == Append(Pop(calls), a)
<1>1. /\ Same(a) /\ Opened(s) /\ Call(a, r, mode, cur, s, count) /\ topRule.kind # "Reference"
      /\ Ahead(cur, count)
  BY DEF Calls
<1>2. control' = "begin" /\ Enter(t, r, mode, cur, s, count)
  BY <1>1 DEF Call, Enter
<1>3. PICK b, q, how, at, z, k :
        /\ Call(b, q, how, at, z, k)
        /\ how = "Probe" => topRule.kind = "Optional"
        /\ topRule.kind \in {"Prefixed", "Nest"} => b.marker = PeekRaw(at).Start
  BY <1>1, <1>2 DEF Voiced, Return
<1>4. a = b /\ mode = how /\ cur = at
  BY <1>1, <1>3, OneCall
<1>5. Asked(t) /\ IsSeq(t) /\ t # <<>> /\ t[Len(t)] = a
  BY <1>1, AskedTop DEF Said
<1>6. KindOf(a) = topRule.kind
  BY <1>1 DEF Same, KindOf, topRule
<1>7. Marked(s)
  BY <1>1, MarkedOpened DEF Said
<1>8. IsStore(s)
  <2>1. CASE topRule.kind = "Nest"
    <3>1. PICK n : s = PushDelimiterBoundary(errs, n)
      BY <1>1, <2>1 DEF Opened
    <3> QED
      BY <3>1, ErrsHas, PushBoundary DEF Running
  <2>2. CASE topRule.kind # "Nest"
    BY <1>1, <2>2 DEF Opened, Remarked
  <2> QED
    BY <2>1, <2>2
<1> HIDE DEF t
<1>9. /\ mode = "Probe" => KindOf(t[Len(t)]) = "Optional"
      /\ KindOf(t[Len(t)]) \in {"Prefixed", "Nest"} => t[Len(t)].marker = PeekRaw(cur).Start
  BY <1>3, <1>4, <1>5, <1>6
<1> QED
  BY <1>2, <1>5, <1>7, <1>8, <1>9, SaidEnter

LEMMA SaidContinues ==
  ASSUME IInv, Said, Running, NEW a, NEW cur, NEW s, NEW count, Continues(a, cur, s, count)
  PROVE  Said'
<1>1. /\ Same(a) /\ Remarked(errs, s) /\ calls' = Append(Pop(calls), a) /\ control' = "loop"
      /\ errs' = s /\ parser' = parser /\ input' = input
  BY DEF Continues, Continue, Effect
<1>2. Asked(calls')
  BY <1>1, AskedTop DEF Said
<1>3. Marked(errs')
  BY <1>1, MarkedSame DEF Said, Remarked
<1> QED
  BY <1>1, <1>2, <1>3, SaidNow

LEMMA SaidReturns ==
  ASSUME IInv, Said, Running, Voiced, NEW result, NEW cur, NEW s, NEW count,
         Returns(result, cur, s, count)
  PROVE  Said'
<1>1. /\ Closed(s) /\ ret' = result /\ control' = "leave" /\ calls' = calls
      /\ errs' = s /\ parser' = parser /\ input' = input /\ cursor' = cur
  BY DEF Returns, Return, Effect
<1>2. Spoken(ret', errs')
  BY <1>1 DEF Voiced, Call, Enter, ExecuteReference, Return, Effect
<1>3. Marked(errs')
  <2>1. CASE topRule.kind = "Nest" /\ control = "resume"
    <3>1. PICK q : Remarked(errs, q) /\ s = PopDelimiterBoundary(q)
      BY <1>1, <2>1 DEF Closed
    <3>2. Level(top, TRUE, errs)
      <4>1. (KindOf(top) = "Nest" /\ control = "resume") = TRUE
        BY <2>1 DEF KindOf, topRule
      <4> QED
        BY <4>1, TopLevel DEF Running
    <3>3. errs.delimiterBoundaries # <<>>
      BY <3>2 DEF Level
    <3>4. IsStore(q) /\ q.delimiterBoundaries = errs.delimiterBoundaries
      BY <3>1 DEF Remarked
    <3>5. Marked(q) /\ IsSeq(q.delimiterBoundaries) /\ q.delimiterBoundaries # <<>>
      BY <3>3, <3>4, MarkedSame DEF Said, IsStore
    <3>6. s.delimiterBoundaries = Pop(q.delimiterBoundaries)
      BY <3>1, <3>4, <3>5, PopBoundary
    <3> QED
      BY <1>1, <3>5, <3>6, MarkedLess
  <2>2. CASE ~(topRule.kind = "Nest" /\ control = "resume")
    BY <1>1, <2>2, MarkedSame DEF Said, Closed, Remarked
  <2> QED
    BY <2>1, <2>2
<1>4. Asked(calls')
  BY <1>1 DEF Said
<1> QED
  BY <1>1, <1>2, <1>3, <1>4, SaidNow

LEMMA SaidRefers == ASSUME IInv, Said, Running, Refers PROVE Said'
<1> DEFINE x == Activation(Registry[topRule.target].rule, "Normal", FALSE, cursor, errs, created)
<1>1. /\ topRule.kind = "Reference" /\ calls' = Append(calls, x) /\ control' = "begin"
      /\ errs' = errs /\ parser' = parser /\ input' = input
  BY DEF Refers, ExecuteReference, Effect
<1>2. x.mode = "Normal"
  BY DEF Activation
<1> HIDE DEF x
<1>3. IsSeq(calls) /\ calls # <<>> /\ KindOf(calls[Len(calls)]) = "Reference"
  BY <1>1, TopHas DEF Running, KindOf, topRule, top
<1>4. Asked(calls')
  BY <1>1, <1>2, <1>3, AskedPush DEF Said
<1>5. Marked(errs')
  BY <1>1 DEF Said
<1> QED
  BY <1>1, <1>4, <1>5, SaidNow

LEMMA SaidPanics ==
  ASSUME Said, control' = "panic", parser' = parser, input' = input, calls' = calls,
         errs'.delimiterBoundaries = errs.delimiterBoundaries
  PROVE  Said'
<1>1. Marked(errs')
  BY MarkedSame DEF Said
<1>2. Asked(calls')
  BY DEF Said
<1> QED
  BY <1>1, <1>2, SaidNow

LEMMA SaidBody == ASSUME IInv, Said, BodyStep PROVE Said'
<1>1. BodyMoves /\ Running /\ Voiced
  BY BodyStepMoves, BodyVoiced DEF BodyMoves
<1>2. CASE \E a, r, mode, cur, s, count : Calls(a, r, mode, cur, s, count)
  BY <1>1, <1>2, SaidCalls
<1>3. CASE \E a, cur, s, count : Continues(a, cur, s, count)
  BY <1>1, <1>3, SaidContinues
<1>4. CASE \E result, cur, s, count : Returns(result, cur, s, count)
  BY <1>1, <1>4, SaidReturns
<1>5. CASE Refers
  BY <1>1, <1>5, SaidRefers
<1>6. CASE Panics
  BY <1>6, SaidPanics DEF Panics
<1> QED
  BY <1>1, <1>2, <1>3, <1>4, <1>5, <1>6 DEF BodyMoves

-----------------------------------------------------------------------------
(* Leaving with a word. *)

(* Nothing is published while a rule runs. *)
LEMMA NothingPublished == ASSUME IInv, Said, control = "leave" PROVE errs.Errors = <<>>
<1>1. Len(calls) \in Nat \ {0} /\ DOMAIN calls = 1 .. Len(calls)
  BY TopHas
<1>2. 1 \in DOMAIN calls
  BY <1>1
<1>3. calls[1].before.Errors = <<>>
  BY <1>2 DEF Said, Asked
<1>4. calls[1].envelope
  BY <1>2 DEF IInv, Shape
<1>5. Keeps(errs, calls[1].before)
  BY <1>2, <1>4 DEF IInv, Stores
<1> QED
  BY <1>3, <1>5 DEF Keeps

(* The program's frame is the first one. *)
LEMMA OneFrame ==
  ASSUME IInv, Leaving, Len(calls) = 1
  PROVE  Len(errs.stack) = 1
<1>1. control = "leave" /\ top.envelope
  BY DEF Leaving
<1>2. DOMAIN calls = 1 .. 1 /\ calls[1].envelope
  BY <1>1, TopHas DEF top
<1>3. EnvelopesIn(calls) = {1}
  BY <1>2 DEF EnvelopesIn
<1>4. Len(errs.stack) = Cardinality(EnvelopesIn(calls))
  BY <1>1, LeaveHas DEF Counted
<1>5. Cardinality({1}) = 1
  BY FS_Singleton
<1> QED
  BY <1>3, <1>4, <1>5

(* What a rule that does not succeed must hand to its caller, or to the    *)
(* parse if it has none.                                                   *)
Owed(result, cur, q) ==
  /\ Len(errs.stack) = 1 => IsSeq(q.Errors)
  /\ ~result.Succeeded =>
       \/ result.Kind = FailureNoMatch /\ cur = top.start
       \/ top.mode = "Probe"
       \/ /\ result.Kind = FailureError /\ HasCommittedSyntaxErrors(q)
          /\ Len(errs.stack) = 1 => q.Errors # <<>>

LEMMA SaidLeave ==
  ASSUME IInv, Said, Leaving, NEW result, NEW cur, NEW q, NEW count,
         Leave(result, cur, q, count), Closes(q), Owed(result, cur, q)
  PROVE  Said'
<1> DEFINE s == Scoped(q)
           n == Len(calls)
           p == Pop(calls)
<1>1. /\ calls' = p /\ ret' = result /\ cursor' = cur /\ errs' = s
      /\ control' = (IF n = 1 THEN "finish" ELSE "resume")
      /\ parser' = parser /\ input' = input
  BY DEF Leave, Effect, Scoped
<1>2. control = "leave"
  BY DEF Leaving
<1>3. IsSeq(calls) /\ calls # <<>> /\ n \in Nat \ {0} /\ DOMAIN calls = 1 .. n
  BY <1>2, TopHas
<1>4. Len(p) = n - 1 /\ \A i \in 1 .. n - 1 : p[i] = calls[i]
  BY <1>3, SeqPop
<1>5. Asked(calls')
  BY <1>1, <1>3, AskedPop DEF Said
<1>6. /\ IsStore(q) /\ q.delimiterBoundaries = errs.delimiterBoundaries
  BY DEF Closes, Sound
<1>7. /\ s.Errors = q.Errors /\ s.stack = q.stack /\ s.flight = q.flight
      /\ s.delimiterBoundaries = q.delimiterBoundaries
  BY <1>6 DEF Scoped, EndEntryRuleScope, IsStore, HasFields, StoreFields
<1>8. top = calls[n]
  BY DEF top
<1> HIDE DEF s, p
<1>9. Marked(errs')
  BY <1>1, <1>6, <1>7, MarkedSame DEF Said
<1>10. HasCommittedSyntaxErrors(q) => HasCommittedSyntaxErrors(s)
  BY <1>7 DEF HasCommittedSyntaxErrors
<1>11. n = 1 => top.mode = "Normal"
  <2>1. 1 \in DOMAIN calls
    BY <1>3
  <2> QED
    BY <1>8, <2>1 DEF Said, Asked
<1>12. CASE n = 1
  <2>1. control' = "finish" /\ Len(errs.stack) = 1
    BY <1>1, <1>12, OneFrame
  <2>2. Published(ret', errs')
    BY <1>1, <1>7, <1>11, <1>12, <2>1 DEF Owed, Published
  <2> QED
    BY <1>1, <1>5, <1>9, <2>1, <2>2, SaidNow
<1>13. CASE n # 1
  <2> HIDE DEF n
  <2> DEFINE m == n - 1
  <2>1. m \in 1 .. n - 1 /\ n > 1 /\ n \in DOMAIN calls
    BY <1>3, <1>13
  <2>2. calls'[Len(calls')] = calls[m]
    BY <1>1, <1>4, <2>1
  <2>3. /\ top.mode = "Probe" => KindOf(calls[m]) = "Optional"
        /\ KindOf(calls[m]) \in {"Prefixed", "Nest"} =>
             calls[m].marker = PeekRaw(top.start).Start
    BY <1>8, <2>1 DEF Said, Asked
  <2> HIDE DEF m
  <2>4. Heard(calls[m], result, s, cur)
    <3> SUFFICES ASSUME KindOf(calls[m]) # "Optional", ~result.Succeeded
                 PROVE  /\ Spoken(result, s)
                        /\ KindOf(calls[m]) \in {"Prefixed", "Nest"}
                           /\ result.Kind = FailureNoMatch => calls[m].marker = PeekRaw(cur).Start
      BY DEF Heard, Spoken
    <3>1. \/ result.Kind = FailureNoMatch /\ cur = top.start
          \/ result.Kind = FailureError /\ HasCommittedSyntaxErrors(q)
      BY <2>3 DEF Owed
    <3>2. Spoken(result, s)
      BY <1>10, <3>1 DEF Spoken
    <3>3. result.Kind = FailureNoMatch => cur = top.start
      BY <3>1 DEF FailureNoMatch, FailureError
    <3> QED
      BY <2>3, <3>2, <3>3
  <2>5. control' = "resume"
    BY <1>1, <1>13 DEF n
  <2> QED
    BY <1>1, <1>5, <1>9, <2>2, <2>4, <2>5, SaidNow
<1> QED
  BY <1>12, <1>13

LEMMA SaidSucceeds == ASSUME IInv, Said, RuleSucceeds PROVE Said'
<1>1. Leaving /\ Leave(ret, cursor, popFrame(errs, TRUE), created) /\ ret.Succeeded
  BY DEF RuleSucceeds
<1>2. Closes(popFrame(errs, TRUE))
  BY <1>1, CallersBelow, RemarkedSelf, CommitCloses
<1>3. Len(errs.stack) = 1 => IsSeq(popFrame(errs, TRUE).Errors)
  BY <1>1, CallersBelow, NothingPublished, CommitPublishes DEF Leaving
<1>4. Owed(ret, cursor, popFrame(errs, TRUE))
  BY <1>1, <1>3 DEF Owed
<1> QED
  BY <1>1, <1>2, <1>4, SaidLeave

LEMMA SaidRollsBack == ASSUME IInv, Said, RuleRollsBack PROVE Said'
<1>1. /\ Leaving /\ Leave(ret, top.start, popFrame(errs, FALSE), top.createdAt)
      /\ ~ret.Succeeded /\ ~Committed /\ control = "leave"
  BY DEF RuleRollsBack, Leaving
<1>2. Closes(popFrame(errs, FALSE))
  BY <1>1, RollbackCloses
<1>3. top.mode \in {"Normal", "Probe"}
  BY <1>1, TopHas
<1>4. IsSeq(popFrame(errs, FALSE).Errors)
  <2>1. IsStore(errs) /\ IsStore(top.before) /\ Keeps(errs, top.before)
        /\ Len(errs.stack) = Len(top.before.stack) + 1
    BY <1>1, CallersBelow
  <2>2. popFrame(errs, FALSE).Errors = top.before.Errors
    BY <2>1, RollbackRestores
  <2>3. top.before.Errors = <<>>
    BY <1>1, <2>1, NothingPublished DEF Keeps
  <2> QED
    BY <2>2, <2>3, NoSeq
<1>5. Owed(ret, top.start, popFrame(errs, FALSE))
  BY <1>1, <1>3, <1>4 DEF Owed, Committed, Said, Spoken
<1> QED
  BY <1>1, <1>2, <1>5, SaidLeave

LEMMA SaidPassesUp == ASSUME IInv, Said, RulePassesFailureUp PROVE Said'
<1> DEFINE q == popFrame(errs, TRUE)
<1>1. /\ Leaving /\ Leave(ret, cursor, q, top.createdAt) /\ ~ret.Succeeded
      /\ ret.Kind = FailureError /\ control = "leave"
  BY DEF RulePassesFailureUp, Leaving, Committed
<1>2. Closes(q)
  BY <1>1, CallersBelow, RemarkedSelf, CommitCloses
<1>3. IsStore(errs) /\ errs.stack # <<>> /\ errs.Errors = <<>>
  BY <1>1, CallersBelow, NothingPublished
<1>4. HasCommittedSyntaxErrors(errs)
  BY <1>1 DEF Said, Spoken, FailureError, FailureNoMatch
<1>5. /\ HasCommittedSyntaxErrors(q)
      /\ Len(errs.stack) = 1 => q.Errors # <<>> /\ IsSeq(q.Errors)
  BY <1>3, <1>4, CommitSpeaks, CommitPublishes
<1> HIDE DEF q
<1>6. Owed(ret, cursor, q)
  BY <1>1, <1>5 DEF Owed
<1> QED
  BY <1>1, <1>2, <1>6, SaidLeave

(* The failed rule's own diagnostic, or the one that is there, survives    *)
(* the recovery.                                                           *)
LEMMA RecoverySpeaks ==
  ASSUME IInv, Said, Recovering
  PROVE  /\ HasCommittedSyntaxErrors(AfterRecovery)
         /\ Len(errs.stack) = 1 => AfterRecovery.Errors # <<>> /\ IsSeq(AfterRecovery.Errors)
<1> DEFINE d == Diagnosed
           q == popFrame(d, TRUE)
<1>1. Leaving /\ ~ret.Succeeded /\ ret.Kind = FailureError /\ control = "leave"
  BY DEF Recovering, Committed, Leaving
<1>2. IsStore(errs) /\ errs.stack # <<>> /\ errs.Errors = <<>>
  BY <1>1, CallersBelow, NothingPublished
<1>3. HasCommittedSyntaxErrors(errs)
  BY <1>1 DEF Said, Spoken, FailureError, FailureNoMatch
<1>4. HasCommittedSyntaxErrors(d)
  BY <1>2, <1>3, SetBestSpeaks DEF Diagnosed, replaceBest
<1>5. Remarked(errs, d) /\ Closes(q)
  BY <1>1, DiagnosedRemarks, CommitCloses
<1>6. AfterRecovery = popFrame(pushFrame(q), FALSE)
  BY DEF AfterRecovery
<1> HIDE DEF d
<1>7. IsStore(d) /\ d.Errors = <<>> /\ Len(d.stack) = Len(errs.stack)
  BY <1>2, <1>5 DEF Remarked
<1>8. d.stack # <<>>
  BY <1>2, <1>7, StoreHas
<1>9. /\ HasCommittedSyntaxErrors(q)
      /\ Len(d.stack) = 1 => q.Errors # <<>> /\ IsSeq(q.Errors)
  BY <1>4, <1>7, <1>8, CommitSpeaks, CommitPublishes
<1>10. IsStore(q)
  BY <1>5 DEF Closes, Sound
<1> HIDE DEF q
<1>11. AfterRecovery = q
  BY <1>6, <1>10, PushThenRollback
<1> QED
  BY <1>7, <1>9, <1>11

LEMMA SaidFails == ASSUME IInv, Said, RuleFails PROVE Said'
<1>1. /\ Leaving /\ Recovering /\ Leave(ret, top.start, AfterRecovery, top.createdAt)
      /\ ret.Kind = FailureError
  BY DEF RuleFails, Recovering, Committed
<1>2. Closes(AfterRecovery)
  BY <1>1, RecoveryCloses
<1>3. Owed(ret, top.start, AfterRecovery)
  BY <1>1, RecoverySpeaks DEF Owed
<1> QED
  BY <1>1, <1>2, <1>3, SaidLeave

LEMMA SaidRecovers == ASSUME IInv, Said, RuleRecovers PROVE Said'
<1> DEFINE at     == performRecovery(cursor)
           token  == Lexeme(at).Token
           stays  == leftForAncestor(token)
           healed == topRule.isRecoveryBarrier /\ IsSyncToken(topRule, token)
           result == [ret EXCEPT !.ConsumeSyncToken = ~stays, !.Succeeded = healed,
                                 !.Node = healed \/ @]
           cur    == IF stays THEN at ELSE at + 1
           count  == IF healed THEN top.createdAt + 1 ELSE top.createdAt
<1>1. /\ Leaving /\ Recovering /\ Leave(result, cur, AfterRecovery, count)
      /\ ret.Kind = FailureError
  BY DEF RuleRecovers, Recovering, Committed
<1>2. Closes(AfterRecovery)
  BY <1>1, RecoveryCloses
<1>3. result.Kind = FailureError
  <2> HIDE DEF stays, healed
  <2> QED
    BY <1>1, RetIsResult DEF Results
<1> HIDE DEF result, cur, count
<1>4. Owed(result, cur, AfterRecovery)
  BY <1>1, <1>3, RecoverySpeaks DEF Owed
<1> QED
  BY <1>1, <1>2, <1>4, SaidLeave

LEMMA SaidLeavesReference == ASSUME IInv, Said, LeaveReference PROVE Said'
<1>1. /\ control = "leave" /\ calls' = Pop(calls)
      /\ UNCHANGED <<parser, input, cursor, control, ret, errs, created>>
  BY DEF LeaveReference
<1>2. IsSeq(calls) /\ calls # <<>>
  BY <1>1, TopHas
<1>3. Asked(calls')
  BY <1>1, <1>2, AskedPop DEF Said
<1>4. Marked(errs') /\ Spoken(ret', errs')
  BY <1>1 DEF Said
<1> QED
  BY <1>1, <1>3, <1>4, SaidNow

LEMMA SaidContractPanic == ASSUME IInv, Said, ContractPanic PROVE Said'
<1>1. /\ Leaving /\ control' = "panic" /\ errs' = popFrame(errs, TRUE)
      /\ UNCHANGED <<parser, input, cursor, calls, ret, recovery, created>>
  BY DEF ContractPanic
<1>2. IsStore(errs) /\ errs.stack # <<>>
  BY <1>1, CallersBelow
<1>3. errs'.delimiterBoundaries = errs.delimiterBoundaries
  BY <1>1, <1>2, PopFrame
<1> QED
  BY <1>1, <1>3, SaidPanics

LEMMA SaidStarts == ASSUME IInv, Said, StartParse PROVE Said'
<1>1. control = "idle" /\ Enter(<<>>, program, "Normal", cursor, errs, created)
  BY DEF StartParse
<1>2. errs = SyntaxErrorsCreate /\ IsStore(errs)
  BY <1>1, InvHas DEF IInv, Fresh, Sound
<1>3. errs.Errors = <<>> /\ IsSeq(<<>>) /\ Asked(<<>>) /\ Marked(errs)
  BY <1>2, NoSeq DEF SyntaxErrorsCreate, Asked, Said
<1> QED
  BY <1>1, <1>2, <1>3, SaidEnter

LEMMA SaidFinishes == ASSUME IInv, Said, FinishParse PROVE Said'
<1> DEFINE e == ErrorAt(Peek(cursor, 0).Start)
           r == report(errs, e)
           told == LeftInput \/ (~ret.Succeeded /\ ret.Kind = FailureNoMatch)
<1>1. /\ control = "finish" /\ control' = "done" /\ errs' = IF told THEN r ELSE errs
      /\ ret' = [ret EXCEPT !.Succeeded = @ /\ ~LeftInput]
      /\ UNCHANGED <<parser, input, cursor, calls, recovery, created>>
  BY DEF FinishParse
<1>2. calls = <<>> /\ IsSeq(recovery)
  BY <1>1 DEF IInv, Shape
<1>3. Sound(errs) /\ Counted(<<>>, recovery, errs, FALSE)
  <2>1. (control = "resume") = FALSE
    BY <1>1
  <2> QED
    BY <1>1, <1>2, <2>1, InvHas
<1>4. errs.stack = <<>> /\ IsStore(errs)
  BY <1>2, <1>3, EmptyHas DEF Sound
<1>5. r.Errors = Append(errs.Errors, e) /\ r.delimiterBoundaries = errs.delimiterBoundaries
  BY <1>4 DEF report, IsStore, HasFields, StoreFields
<1>6. r.Errors # <<>>
  <2>1. IsSeq(errs.Errors)
    BY <1>1 DEF Said, Published
  <2> QED
    BY <1>5, <2>1, SeqAppend
<1> HIDE DEF r, told
<1>7. Marked(errs')
  BY <1>1, <1>5, MarkedSame DEF Said
<1>8. ~ret'.Succeeded => errs'.Errors # <<>>
  <2>1. CASE told
    BY <1>1, <1>6, <2>1
  <2>2. CASE ~told
    <3>1. ret'.Succeeded = ret.Succeeded
      BY <1>1, <2>2, RetIsResult DEF told, Results
    <3>2. ~ret.Succeeded => ret.Kind # FailureNoMatch
      BY <2>2 DEF told
    <3> QED
      BY <1>1, <2>2, <3>1, <3>2 DEF Said, Published
  <2> QED
    BY <2>1, <2>2
<1>9. Asked(calls')
  BY <1>1 DEF Said
<1> QED
  BY <1>1, <1>7, <1>8, <1>9, SaidNow

-----------------------------------------------------------------------------
LEMMA InitSaid == Init => Said
<1> SUFFICES ASSUME Init PROVE Said
  OBVIOUS
<1>1. calls = <<>> /\ errs = SyntaxErrorsCreate /\ control = "idle"
  BY DEF Init
<1>2. Asked(calls) /\ Marked(errs)
  BY <1>1, NoSeq DEF Asked, Marked, SyntaxErrorsCreate
<1> QED
  BY <1>1, <1>2 DEF Said, FailureIsDiagnosed

LEMMA NextSaid == IInv /\ Said /\ [Next]_vars => Said'
<1> SUFFICES ASSUME IInv, Said, [Next]_vars PROVE Said'
  OBVIOUS
<1>1. CASE EngineStep
  BY <1>1, SaidStarts, SaidLeavesReference, SaidSucceeds, SaidContractPanic, SaidRollsBack,
     SaidPassesUp, SaidRecovers, SaidFails, SaidFinishes DEF EngineStep
<1>2. CASE BodyStep
  BY <1>2, SaidBody
<1>3. CASE UNCHANGED vars
  <2>1. /\ parser' = parser /\ input' = input /\ cursor' = cursor /\ calls' = calls
        /\ control' = control /\ ret' = ret /\ errs' = errs
    BY <1>3 DEF vars
  <2>2. Asked(calls') /\ Marked(errs')
    BY <2>1 DEF Said
  <2>3. control' = "leave" => Spoken(ret', errs')
    BY <2>1 DEF Said
  <2>4. control' = "resume" => Heard(calls'[Len(calls')], ret', errs', cursor')
    BY <2>1 DEF Said, top
  <2>5. control' = "finish" => Published(ret', errs')
    BY <2>1 DEF Said
  <2>6. control' = "done" /\ ~ret'.Succeeded => errs'.Errors # <<>>
    BY <2>1 DEF Said, FailureIsDiagnosed
  <2> QED
    BY <2>1, <2>2, <2>3, <2>4, <2>5, <2>6, SaidNow
<1> QED
  BY <1>1, <1>2, <1>3 DEF Next, Stopped

(* A parse that fails has a diagnostic to show: no rule turns a mismatch   *)
(* into an error without a report, and no frame with the report is dropped *)
(* unless an Optional asked for it (parser.go:253-309, handleFailureState, *)
(* and the bodies of rule/factory.go).                                     *)
THEOREM FailuresDiagnosed == Spec => []FailureIsDiagnosed
<1>1. Said => FailureIsDiagnosed
  BY DEF Said
<1> QED
  BY <1>1, InitSaid, NextSaid, InvAlways, PTL DEF Spec

-----------------------------------------------------------------------------
(* Why contracts are kept.                                                 *)

(* The activation has consumed, or had only trivia in front of it.         *)
Moved(a, cur) == cur > a.start \/ \A i \in a.start .. Len(input) - 1 : input[i + 1] \in Skips

(* A result keeps what a rule promises. *)
Honours(rule, a, result, cur) ==
  result.Succeeded => /\ rule.MustConsume => Moved(a, cur)
                      /\ rule.MustReturnNode => result.Node

Due(a) == Contract(Rule[a.rule])

(* What a body returns.  A nest that fails with an error has been opened.  *)
Done(a, result, cur) ==
  /\ Overpromises(Due(a)) \/ Honours(Due(a), a, result, cur)
  /\ KindOf(a) = "Nest" /\ ~result.Succeeded /\ result.Kind = FailureError => Moved(a, cur)

(* The rule that an activation has called: of an expression, the primary.  *)
KidOf(a) == Rule[a.rule].kids[IF KindOf(a) \in {"Sequence", "Choice", "Root"} THEN a.next ELSE 1]

LastRun(a) == a.runs[Len(a.runs)]

CallsOperator(a) == KindOf(a) = "Pratt" /\ LastRun(a).stage # "primary"

Asks(a, b) ==
  IF b.envelope THEN CallsOperator(a) \/ b.rule = KidOf(a)
  ELSE /\ KindOf(a) = "Reference" /\ b.rule = Registry[Rule[a.rule].target].rule
       /\ b.start = a.start

HeardKid(a, result, cur) ==
  CallsOperator(a) \/ Honours(Contract(Rule[KidOf(a)]), a, result, cur)

(* An expression has a left operand. *)
Led(a) == \/ LastRun(a).stage = "left"
          \/ /\ LastRun(a).stage = "operator"
             /\ Rule[a.rule].ops[LastRun(a).op].fix = "postfix"

RunFields == {"minBP", "from", "op", "mid", "right", "stage"}

AreRuns(runs) ==
  IsSeq(runs) /\ runs # <<>> /\ \A k \in DOMAIN runs : DOMAIN runs[k] = RunFields

(* How far an activation has come when it stands at cur. *)
Progress(a, cur) ==
  /\ KindOf(a) = "Sequence" =>
       /\ a.marker = PeekRaw(a.start).Start
       /\ \A i \in DOMAIN Rule[a.rule].kids :
             i < a.next /\ Rule[Rule[a.rule].kids[i]].MustConsume => Moved(a, cur)
  /\ KindOf(a) = "Choice" => a.next \in DOMAIN Rule[a.rule].kids
  /\ KindOf(a) = "Repetition" =>
       (a.next > 0 /\ Rule[Rule[a.rule].kids[1]].MustConsume => Moved(a, cur))
  /\ KindOf(a) \in {"Prefixed", "Nest", "List"} => Moved(a, cur)
  /\ KindOf(a) = "Pratt" =>
       /\ AreRuns(a.runs)
       /\ Led(a) /\ Contract(Rule[Rule[a.rule].kids[1]]).MustConsume => Moved(a, cur)

(* A Normal activation has the recovery frame of its rule. *)
Rank(cs, i) == Cardinality({j \in 1 .. i : cs[j].mode = "Normal"})

Framed(cs, frames) ==
  \A i \in DOMAIN cs : cs[i].envelope /\ cs[i].mode = "Normal" =>
    frames[Rank(cs, i)] = RecoveryFrame(Rule[cs[i].rule])

Linked(cs) ==
  \A i \in DOMAIN cs : i > 1 =>
     /\ Asks(cs[i - 1], cs[i])
     /\ cs[i].envelope => Progress(cs[i - 1], cs[i].start)

Kept == /\ control # "panic" => Framed(calls, recovery) /\ Linked(calls)
        /\ control = "begin" => cursor = top.start /\ top.next = 0
        /\ control \in {"loop", "resume"} => Progress(top, cursor)
        /\ control = "resume" => HeardKid(top, ret, cursor)
        /\ control = "leave" => Done(top, ret, cursor)
        /\ ContractsAreKept

LEMMA RuleSame ==
  ASSUME parser' = parser
  PROVE  Rule' = Rule /\ Registry' = Registry
  BY DEF Rule, Registry

(* The parser and its input stay, so what is said of an activation does. *)
LEMMA FramedNow ==
  ASSUME parser' = parser, Framed(calls', recovery')
  PROVE  Framed(calls, recovery)'
<1>1. Rule' = Rule
  BY RuleSame
<1> QED
  BY <1>1 DEF Framed, Rank, RecoveryFrame
LEMMA LinkedNow ==
  ASSUME parser' = parser, input' = input, Linked(calls')
  PROVE  Linked(calls)'
<1>1. Rule' = Rule /\ Registry' = Registry
  BY RuleSame
<1>2. \A i : KindOf(calls[i])' = KindOf(calls'[i])
  BY <1>1 DEF KindOf
<1>3. \A i : KidOf(calls[i])' = KidOf(calls'[i])
  BY <1>1, <1>2 DEF KidOf
<1>4. \A i, j : Moved(calls[i], calls[j].start)' = Moved(calls'[i], calls'[j].start)
  BY DEF Moved
<1>5. \A i : PeekRaw(calls[i].start)' = PeekRaw(calls'[i].start)
  BY DEF PeekRaw, Lexeme
<1>6. \A i : Led(calls[i])' = Led(calls'[i])
  BY <1>1 DEF Led, LastRun
<1>7. \A i : AreRuns(calls[i].runs)' = AreRuns(calls'[i].runs)
  BY DEF AreRuns, IsSeq
<1>8. \A i : Contract(Rule[Rule[calls[i].rule].kids[1]])'
               = Contract(Rule[Rule[calls'[i].rule].kids[1]])
  BY <1>1 DEF Contract
<1>9. \A i, j : Progress(calls[i], calls[j].start)' <=> Progress(calls'[i], calls'[j].start)
  BY <1>1, <1>2, <1>4, <1>5, <1>6, <1>7, <1>8, SMTT(60) DEF Progress
<1>10. \A i : CallsOperator(calls[i])' <=> CallsOperator(calls'[i])
  BY <1>1, <1>2 DEF CallsOperator, LastRun
<1>11. \A i : Registry[Rule[calls[i].rule].target].rule'
                = Registry[Rule[calls'[i].rule].target].rule
  BY <1>1
<1>12. \A i, j : Asks(calls[i], calls[j])' <=> Asks(calls'[i], calls'[j])
  BY <1>2, <1>3, <1>10, <1>11 DEF Asks
<1> QED
  BY <1>9, <1>12 DEF Linked

(* The parts of the invariant after a step. *)
LEMMA KeptNow ==
  ASSUME parser' = parser, input' = input, NEW t, t = calls'[Len(calls')],
         control' # "panic" => Framed(calls', recovery') /\ Linked(calls'),
         control' = "begin" => cursor' = t.start /\ t.next = 0,
         control' \in {"loop", "resume"} => Progress(t, cursor'),
         control' = "resume" => HeardKid(t, ret', cursor'),
         control' = "leave" => Done(t, ret', cursor'),
         control' = "panic" => Overpromises(Due(t))
  PROVE  Kept'
<1>1. Rule' = Rule /\ Registry' = Registry
  BY RuleSame
<1>2. top' = calls'[Len(calls')]
  BY DEF top
<1>3. KindOf(top)' = KindOf(calls'[Len(calls')])
  BY <1>1, <1>2 DEF KindOf
<1>4. KidOf(top)' = KidOf(calls'[Len(calls')])
  BY <1>1, <1>2, <1>3 DEF KidOf
<1>5. Moved(top, cursor)' <=> Moved(calls'[Len(calls')], cursor')
  BY <1>2 DEF Moved
<1>6. PeekRaw(top.start)' = PeekRaw(calls'[Len(calls')].start)
  BY <1>2 DEF PeekRaw, Lexeme
<1>7. Led(top)' <=> Led(calls'[Len(calls')])
  BY <1>1, <1>2 DEF Led, LastRun
<1>8. AreRuns(top.runs)' <=> AreRuns(calls'[Len(calls')].runs)
  BY <1>2 DEF AreRuns, IsSeq
<1>9. Contract(Rule[Rule[top.rule].kids[1]])'
        = Contract(Rule[Rule[calls'[Len(calls')].rule].kids[1]])
  BY <1>1, <1>2 DEF Contract
<1>10. Progress(top, cursor)' <=> Progress(calls'[Len(calls')], cursor')
  BY <1>1, <1>2, <1>3, <1>5, <1>6, <1>7, <1>8, <1>9 DEF Progress
<1>11. CallsOperator(top)' <=> CallsOperator(calls'[Len(calls')])
  BY <1>1, <1>2, <1>3 DEF CallsOperator, LastRun
<1>12. Contract(Rule[KidOf(top)])' = Contract(Rule[KidOf(calls'[Len(calls')])])
  BY <1>1, <1>4 DEF Contract
<1>13. HeardKid(top, ret, cursor)' <=> HeardKid(calls'[Len(calls')], ret', cursor')
  BY <1>5, <1>11, <1>12 DEF HeardKid, Honours
<1>14. Due(top)' = Due(calls'[Len(calls')]) /\ Contract(topRule)' = Due(calls'[Len(calls')])
  BY <1>1, <1>2 DEF Due, Contract, topRule
<1>15. Overpromises(Due(top))' <=> Overpromises(Due(calls'[Len(calls')]))
  <2> DEFINE d == Due(calls'[Len(calls')])
  <2>1. Contract(Rule[Due(top).kids[1]])' = Contract(Rule[d.kids[1]])
    BY <1>1, <1>14 DEF Contract
  <2>2. Ambiguous(Due(top))' <=> Ambiguous(d)
    BY <1>14 DEF Ambiguous
  <2> QED
    BY <1>14, <2>1, <2>2 DEF Overpromises
<1>16. Done(top, ret, cursor)' <=> Done(calls'[Len(calls')], ret', cursor')
  BY <1>3, <1>5, <1>14, <1>15 DEF Done, Honours
<1>17. Overpromises(Contract(topRule))' <=> Overpromises(Due(calls'[Len(calls')]))
  <2> DEFINE d == Due(calls'[Len(calls')])
  <2>1. Contract(Rule[Contract(topRule).kids[1]])' = Contract(Rule[d.kids[1]])
    BY <1>1, <1>14 DEF Contract
  <2>2. Ambiguous(Contract(topRule))' <=> Ambiguous(d)
    BY <1>14 DEF Ambiguous
  <2> QED
    BY <1>14, <2>1, <2>2 DEF Overpromises
<1>18. (Framed(calls, recovery)' <=> Framed(calls', recovery'))
  BY <1>1, FramedNow DEF Framed, Rank, RecoveryFrame
<1>19. Linked(calls') => Linked(calls)'
  BY LinkedNow
<1>20. (cursor = top.start /\ top.next = 0)'
         <=> (cursor' = calls'[Len(calls')].start /\ calls'[Len(calls')].next = 0)
  BY <1>2
<1> QED
  BY <1>10, <1>13, <1>16, <1>17, <1>18, <1>19, <1>20 DEF Kept, ContractsAreKept

-----------------------------------------------------------------------------
(* Having moved. *)

LEMMA MovedOn ==
  ASSUME NEW a, NEW cur, NEW to, a.start \in Nat, cur \in Nat, to \in Nat, cur <= to,
         Moved(a, cur)
  PROVE  Moved(a, to)
  BY DEF Moved

(* What a callee has consumed its caller has. *)
LEMMA MovedOut ==
  ASSUME NEW a, NEW b, NEW cur, a.start \in Nat, b.start \in Nat, cur \in Nat,
         a.start <= b.start, b.start <= cur, Moved(b, cur)
  PROVE  Moved(a, cur)
<1>1. CASE a.start = b.start
  BY <1>1 DEF Moved
<1>2. CASE a.start # b.start
  BY <1>2 DEF Moved
<1> QED
  BY <1>1, <1>2

LEMMA VisibleHas ==
  ASSUME TypeOK, NEW cur \in 0 .. Len(input)
  PROVE  /\ VisibleFrom(cur) \subseteq cur .. Len(input) - 1
         /\ \/ VisibleIndex(cur, 0) \in VisibleFrom(cur)
            \/ VisibleIndex(cur, 0) = Len(input) /\ VisibleFrom(cur) = {}
<1> DEFINE V == VisibleFrom(cur)
           at == {i \in V : Cardinality({j \in V : j < i}) = 0}
<1>1. V \subseteq cur .. Len(input) - 1 /\ Len(input) \in Nat
  BY InputHas DEF VisibleFrom
<1>2. VisibleIndex(cur, 0) = IF at = {} THEN Len(input) ELSE CHOOSE i \in at : TRUE
  BY DEF VisibleIndex
<1> HIDE DEF V
<1>3. CASE at # {}
  <2>1. (CHOOSE i \in at : TRUE) \in at
    BY <1>3
  <2> QED
    BY <1>1, <1>2, <1>3, <2>1 DEF V
<1>4. CASE at = {}
  <2>1. ASSUME V # {} PROVE FALSE
    <3>1. V \in SUBSET Nat
      BY <1>1
    <3>2. PICK i \in V : \A j \in V : i <= j
      BY <2>1, <3>1, LeastOf
    <3>3. \A j \in V : ~(j < i)
      <4>1. i \in Nat /\ \A j \in V : j \in Nat /\ i <= j
        BY <3>1, <3>2
      <4> QED
        BY <4>1
    <3> DEFINE B == {j \in V : j < i}
    <3>3a. B = {}
      BY <3>3
    <3>4. i \in at
      BY <3>3a, FS_EmptySet
    <3> QED
      BY <1>4, <3>4
  <2> QED
    BY <1>1, <1>2, <1>4, <2>1 DEF V
<1> QED
  BY <1>3, <1>4

(* At the end nothing but trivia is left, and before it something moves.   *)
LEMMA ConsumeMoves ==
  ASSUME TypeOK, NEW cur \in 0 .. Len(input), NEW a, a.start \in Nat, a.start <= cur
  PROVE  Moved(a, Consume(cur))
<1>1. Len(input) \in Nat
  BY InputHas
<1> DEFINE v == VisibleIndex(cur, 0)
<1>2. v \in cur .. Len(input) /\ (v \in cur .. Len(input) - 1 \/ v = Len(input))
  BY <1>1, VisibleHas
<1>3. Consume(cur) = IF v < Len(input) THEN v + 1 ELSE v
  BY DEF Consume
<1> HIDE DEF v
<1>4. CASE v < Len(input)
  BY <1>1, <1>2, <1>3, <1>4 DEF Moved
<1>5. CASE v = Len(input)
  <2>1. Consume(cur) = Len(input)
    BY <1>1, <1>3, <1>5
  <2>2. a.start < Len(input) \/ a.start = Len(input)
    BY <1>1
  <2> QED
    BY <1>1, <2>1, <2>2 DEF Moved
<1> QED
  BY <1>1, <1>2, <1>4, <1>5

(* A rule that began in front of trivia only began in front of the end.    *)
LEMMA EndIsBehindTrivia ==
  ASSUME TypeOK, NEW cur \in 0 .. Len(input)
  PROVE  Peek(cur, 0).Token = EOF <=> \A i \in cur .. Len(input) - 1 : input[i + 1] \in Skips
<1>1. Len(input) \in Nat /\ input \in Seq(parser.alphabet) /\ EOF \notin parser.alphabet
  BY EngineAssumption, InputHas DEF TypeOK
<1>2. \A i \in cur .. Len(input) - 1 :
         Lexeme(i).Token = input[i + 1] /\ input[i + 1] \in parser.alphabet
  BY <1>1 DEF Lexeme
<1> DEFINE v == VisibleIndex(cur, 0)
<1>3. VisibleFrom(cur) = {} <=> \A i \in cur .. Len(input) - 1 : input[i + 1] \in Skips
  BY <1>2 DEF VisibleFrom
<1>4. VisibleFrom(cur) \subseteq cur .. Len(input) - 1
  BY VisibleHas
<1>5. CASE v \in VisibleFrom(cur)
  <2>1. Peek(cur, 0).Token # EOF
    BY <1>1, <1>2, <1>4, <1>5 DEF Peek
  <2> QED
    BY <1>3, <1>5, <2>1
<1>6. CASE v = Len(input) /\ VisibleFrom(cur) = {}
  <2>1. Peek(cur, 0).Token = EOF
    BY <1>1, <1>6 DEF Peek, Lexeme
  <2> QED
    BY <1>3, <1>6, <2>1
<1> QED
  BY <1>5, <1>6, VisibleHas

LEMMA ProgressOn ==
  ASSUME NEW a, NEW cur, NEW to, a.start \in Nat, cur \in Nat, to \in Nat, cur <= to,
         Progress(a, cur)
  PROVE  Progress(a, to)
<1>1. Moved(a, cur) => Moved(a, to)
  BY MovedOn
<1> QED
  BY <1>1 DEF Progress

-----------------------------------------------------------------------------
(* What rules promise. *)

(* Every constructor of the factory derives its contract from the rules it *)
(* is given, in the sense of ContractsAssumption; Root's is its caller's.  *)
(* Repeat panics over a maximum below the minimum (validateBounds).        *)
Derives(rule) == DerivedContract(rule, rule.kids)

LEMMA ConstructorsDerive ==
  ASSUME NEW label, NEW rule, NEW rules, NEW tokens, NEW token, NEW other, NEW last,
         NEW flag \in BOOLEAN, NEW mode, NEW guard, NEW min \in Nat, NEW max \in Nat, NEW table,
         \A i \in DOMAIN rules : rules[i].MustConsume \in BOOLEAN,
         rule.MustConsume \in BOOLEAN, rule.MustReturnNode \in BOOLEAN
  PROVE  /\ Derives(Expect(label, token)) /\ Derives(ExpectVirtual(label, token))
         /\ Derives(ExpectOneOf(label, tokens))
         /\ Derives(List(label, token, other, last, mode, flag, mode))
         /\ Derives(TransparentSequence(label, rules)) /\ Derives(Sequence(label, rules))
         /\ Derives(Block(label, token, rules)) /\ Derives(Wrap(label, rule))
         /\ Derives(Optional(rule)) /\ Derives(OptionalWhen(rule, guard))
         /\ Derives(OptionalPrefix(rule, token)) /\ Derives(PredictLookahead(rule, guard))
         /\ Derives(OptionalSuffix(label, rule, token)) /\ Derives(Required(rule))
         /\ Derives(Root(label, flag, rules))
         /\ Derives(NOrMore(label, min, rule)) /\ Derives(TransparentNOrMore(label, min, rule))
         /\ min <= max => /\ Derives(Repeat(label, min, max, rule))
                          /\ Derives(TransparentRepeat(label, min, max, rule))
         /\ Derives(Nest(label, token, other, rule))
         /\ Derives(TransparentNest(label, token, other, rule))
         /\ Derives(Reference(label, other)) /\ Derives(RecoverSync(rule, tokens))
         /\ Derives(RecoverSyncBoundary(rule, tokens, other))
         /\ Derives(Prefixed(label, token, rule)) /\ Derives(Choice(label, rules))
         /\ Derives(Expression(label, rule, rules, table))
<1>1. <<rule>>[1] = rule /\ DOMAIN <<rule>> = {1}
  OBVIOUS
<1>2. /\ Derives(Expect(label, token)) /\ Derives(ExpectVirtual(label, token))
      /\ Derives(ExpectOneOf(label, tokens))
  BY DEF Derives, DerivedContract, Expect, ExpectVirtual, ExpectOneOf, expectCore, constructRule
<1>3. Derives(List(label, token, other, last, mode, flag, mode))
  BY DEF Derives, DerivedContract, List, constructRule
<1>4. \A rs : /\ Derives(TransparentSequence(label, rs)) /\ Derives(Sequence(label, rs))
              /\ Derives(Block(label, token, rs))
  BY DEF Derives, DerivedContract, TransparentSequence, Sequence, Block, listCore,
         listCoreMustConsume, WithRecoveryBarrier, constructRule
<1>5. Derives(Wrap(label, rule))
  BY <1>4 DEF Wrap, Sequence
<1>6. /\ Derives(Optional(rule)) /\ Derives(OptionalWhen(rule, guard))
      /\ Derives(OptionalPrefix(rule, token))
  BY DEF Derives, DerivedContract, Optional, OptionalWhen, OptionalPrefix, constructRule
<1>7. /\ Derives(PredictLookahead(rule, guard)) /\ Derives(Required(rule))
      /\ Derives(RecoverSync(rule, tokens)) /\ Derives(RecoverSyncBoundary(rule, tokens, other))
  BY <1>1 DEF Derives, DerivedContract, PredictLookahead, Required, RecoverSync,
              RecoverSyncBoundary, Wrapper, constructRule
<1>8. Derives(OptionalSuffix(label, rule, token)) /\ Derives(Prefixed(label, token, rule))
  BY <1>1 DEF Derives, DerivedContract, OptionalSuffix, Prefixed, constructRule
<1>9. Derives(Root(label, flag, rules)) /\ Derives(Reference(label, other))
  BY DEF Derives, DerivedContract, Root, Reference, constructRule
<1>10. /\ Derives(NOrMore(label, min, rule)) /\ Derives(TransparentNOrMore(label, min, rule))
  BY <1>1, ZenonT(60) DEF Derives, DerivedContract, NOrMore, TransparentNOrMore, constructRepetition,
              constructRule
<1>11. min <= max => /\ Derives(Repeat(label, min, max, rule))
                     /\ Derives(TransparentRepeat(label, min, max, rule))
  BY <1>1, ZenonT(60) DEF Derives, DerivedContract, Repeat, TransparentRepeat, constructRepetition,
              constructRule
<1>12. /\ Derives(Nest(label, token, other, rule))
       /\ Derives(TransparentNest(label, token, other, rule))
  BY <1>1 DEF Derives, DerivedContract, Nest, TransparentNest, WithRecoveryBarrier, constructRule
<1>13. Derives(Choice(label, rules))
  BY DEF Derives, DerivedContract, Choice, choiceMustConsume, constructRule
<1>14. Derives(Expression(label, rule, rules, table))
  BY DEF Derives, DerivedContract, Expression, constructRule
<1> QED
  BY <1>2, <1>3, <1>4, <1>5, <1>6, <1>7, <1>8, <1>9, <1>10, <1>11, <1>12, <1>13, <1>14

LEMMA ContractOf ==
  ASSUME TypeOK, NEW r \in DOMAIN Rule
  PROVE  /\ DerivedContract(Rule[r], [i \in DOMAIN Rule[r].kids |-> Rule[Rule[r].kids[i]]])
         /\ Rule[r].kind = "Repetition" => Rule[r].min \in Nat /\ Rule[r].max \in Nat
<1>1. parser \in Parsers
  BY DEF TypeOK
<1> QED
  BY <1>1, ContractsAssumption DEF Rule

(* A rule promises no more than what answers for it. *)
LEMMA ReferencePromisesNothing ==
  ASSUME TypeOK, NEW r \in DOMAIN Rule
  PROVE  /\ Rule[r].MustConsume => Contract(Rule[r]).MustConsume
         /\ Rule[r].MustReturnNode => Contract(Rule[r]).MustReturnNode
         /\ Rule[r].kind = "Reference" => ~Rule[r].MustConsume /\ ~Rule[r].MustReturnNode
  BY ContractOf DEF DerivedContract, Contract

(* The promise of the rule that runs, by what its children promise.        *)
LEMMA TopPromise ==
  ASSUME IInv, control \in {"begin", "loop", "resume", "leave"}
  PROVE  /\ top.rule \in DOMAIN Rule
         /\ topRule.kind # "Reference" => Due(top) = topRule /\ Contract(topRule) = topRule
         /\ KindOf(top) = topRule.kind
         /\ kids = Rule[top.rule].kids
         /\ DerivedContract(topRule, [i \in DOMAIN kids |-> Rule[kids[i]]])
         /\ topRule.kind = "Repetition" => topRule.min \in Nat /\ topRule.max \in Nat
<1>1. top.rule \in DOMAIN Rule /\ TypeOK
  BY TopHas DEF IInv
<1> QED
  BY <1>1, ContractOf DEF Due, Contract, topRule, KindOf, kids

(* Where the rule that runs stands. *)
LEMMA TopStands ==
  ASSUME IInv, control \in {"begin", "loop", "resume", "leave"}
  PROVE  /\ top.start \in Nat /\ cursor \in Nat /\ top.start <= cursor
         /\ Len(input) \in Nat /\ cursor <= Len(input) /\ cursor \in 0 .. Len(input)
         /\ Consume(cursor) \in cursor .. Len(input) /\ Consume(cursor) \in Nat
         /\ cursor <= Consume(cursor)
<1>1. TypeOK /\ Len(input) \in Nat /\ cursor \in 0 .. Len(input)
  BY InputHas DEF IInv
<1>2. top.start \in 0 .. cursor
  BY TopHas
<1>3. Consume(cursor) \in cursor .. Len(input)
  BY <1>1, ConsumeAdvances
<1> QED
  BY <1>1, <1>2, <1>3

LEMMA TopMoves == ASSUME IInv, Running PROVE Moved(top, Consume(cursor))
  BY TopStands, ConsumeMoves DEF Running, IInv

-----------------------------------------------------------------------------
(* The locals of a body. *)

Local(a, next, marker, runs) ==
  /\ a.rule = top.rule /\ a.start = top.start
  /\ a.next = next /\ a.marker = marker /\ a.runs = runs

LEMMA LocalsOf ==
  ASSUME IInv, Running
  PROVE  /\ Local(top, top.next, top.marker, top.runs)
         /\ \A n : Local([top EXCEPT !.next = n], n, top.marker, top.runs)
         /\ \A n, m : Local([top EXCEPT !.next = n, !.marker = m], n, m, top.runs)
         /\ \A m : Local([top EXCEPT !.marker = m], top.next, m, top.runs)
         /\ \A runs : Local([top EXCEPT !.runs = runs], top.next, top.marker, runs)
         /\ \A runs, nodes : Local([top EXCEPT !.runs = runs, !.nodes = nodes],
                                   top.next, top.marker, runs)
<1> DEFINE t == top
<1>1. DOMAIN t = ActivationFields /\ t = [x \in ActivationFields |-> t[x]]
  BY TopHas DEF Running, IsActivation
<1> HIDE DEF t
<1> DEFINE L(a, next, marker, runs) == /\ a.rule = t.rule /\ a.start = t.start
                                       /\ a.next = next /\ a.marker = marker /\ a.runs = runs
<1>2. /\ L(t, t.next, t.marker, t.runs)
      /\ \A n : L([t EXCEPT !.next = n], n, t.marker, t.runs)
      /\ \A n, m : L([t EXCEPT !.next = n, !.marker = m], n, m, t.runs)
  BY <1>1 DEF ActivationFields
<1>3. /\ \A m : L([t EXCEPT !.marker = m], t.next, m, t.runs)
      /\ \A runs : L([t EXCEPT !.runs = runs], t.next, t.marker, runs)
      /\ \A runs, nodes : L([t EXCEPT !.runs = runs, !.nodes = nodes], t.next, t.marker, runs)
  BY <1>1 DEF ActivationFields
<1> QED
  BY <1>2, <1>3 DEF Local, t

LEMMA LocalKind ==
  ASSUME IInv, Running, NEW a, NEW next, NEW marker, NEW runs, Local(a, next, marker, runs)
  PROVE  /\ KindOf(a) = topRule.kind /\ Rule[a.rule].kids = kids /\ a.start \in Nat
         /\ \A cur : Moved(a, cur) <=> Moved(top, cur)
<1>1. top.start \in Nat
  BY TopStands DEF Running
<1> QED
  BY <1>1 DEF Local, KindOf, topRule, kids, Moved

-----------------------------------------------------------------------------
(* What bodies promise. *)

(* A step of a body that calls one of its parts and knows how far it has   *)
(* come, or returns what the rule promises.                                *)
Steady ==
  \/ \E a, r, mode, cur, s, count :
        /\ Call(a, r, mode, cur, s, count)
        /\ Progress(a, cur) /\ (CallsOperator(a) \/ r = KidOf(a))
  \/ \E a, cur, s, count : Continue(a, cur, s, count) /\ Progress(a, cur)
  \/ \E result, cur, s, count : Return(result, cur, s, count) /\ Done(top, result, cur)
  \/ topRule.kind = "Reference" /\ ExecuteReference(topRule.target)
  \/ control' = "panic" /\ Overpromises(Due(top))

LEMMA SteadyCall ==
  ASSUME NEW a, NEW r, NEW mode, NEW cur, NEW s, NEW count, Call(a, r, mode, cur, s, count),
         Progress(a, cur), CallsOperator(a) \/ r = KidOf(a)
  PROVE  Steady
  BY DEF Steady

LEMMA SteadyContinue ==
  ASSUME NEW a, NEW cur, NEW s, NEW count, Continue(a, cur, s, count), Progress(a, cur)
  PROVE  Steady
  BY DEF Steady

LEMMA SteadyReturn ==
  ASSUME NEW result, NEW cur, NEW s, NEW count, Return(result, cur, s, count),
         Done(top, result, cur)
  PROVE  Steady
  BY DEF Steady

LEMMA SteadyGive ==
  ASSUME NEW result, Give(result), Done(top, result, cursor)
  PROVE  Steady
  BY SteadyReturn DEF Give

(* Rules whose progress is nothing but their call. *)
Simple == topRule.kind \in {"Optional", "OptionalWhen", "Predict", "RecoverSync",
                            "OptionalSuffix", "Required"}

LEMMA SimpleCall ==
  ASSUME IInv, Running, Simple, NEW mode, CallKid(top, 1, mode)
  PROVE  Steady
<1>1. Call(top, kids[1], mode, cursor, errs, created)
  BY DEF CallKid
<1>2. KindOf(top) = topRule.kind /\ Rule[top.rule].kids = kids
  BY LocalsOf, LocalKind
<1>3. Progress(top, cursor)
  BY <1>2 DEF Simple, Progress
<1>4. kids[1] = KidOf(top)
  BY <1>2 DEF Simple, KidOf
<1> QED
  BY <1>1, <1>3, <1>4, SteadyCall

LEMMA DoneFailure ==
  ASSUME IInv, Running, NEW result, NEW cur, ~result.Succeeded,
         topRule.kind # "Nest" \/ result.Kind = FailureNoMatch \/ Moved(top, cur)
  PROVE  Done(top, result, cur)
<1>1. KindOf(top) = topRule.kind
  BY DEF KindOf, topRule
<1>2. FailureNoMatch # FailureError
  BY DEF FailureNoMatch, FailureError
<1> QED
  BY <1>1, <1>2 DEF Done, Honours

LEMMA DoneSuccess ==
  ASSUME IInv, Running, NEW result, NEW cur, result.Succeeded, topRule.kind # "Reference",
         topRule.MustConsume => Moved(top, cur), topRule.MustReturnNode => result.Node
  PROVE  Done(top, result, cur)
<1>1. Due(top) = topRule
  BY TopPromise DEF Running
<1> QED
  BY <1>1 DEF Done, Honours

(* A child that has succeeded has kept its promise. *)
LEMMA KidHonours ==
  ASSUME IInv, Kept, control = "resume", ret.Succeeded,
         topRule.kind \notin {"Pratt", "Sequence", "Choice", "Root"},
         kids[1] \in DOMAIN Rule
  PROVE  /\ Rule[kids[1]].MustConsume => Moved(top, cursor)
         /\ Rule[kids[1]].MustReturnNode => ret.Node
         /\ Contract(Rule[kids[1]]).MustReturnNode => ret.Node
<1>1. KindOf(top) = topRule.kind /\ kids = Rule[top.rule].kids
  BY TopPromise
<1>2. ~CallsOperator(top) /\ KidOf(top) = kids[1]
  BY <1>1 DEF CallsOperator, KidOf
<1>3. Honours(Contract(Rule[kids[1]]), top, ret, cursor)
  BY <1>2 DEF Kept, HeardKid
<1> QED
  BY <1>3, ReferencePromisesNothing DEF Honours, IInv

LEMMA ExpectSteady == ASSUME IInv, ExpectToken PROVE Steady
<1>1. Running /\ topRule.kind = "Expect"
  BY AtHas DEF ExpectToken
<1>2. CASE Next0.Token \in topRule.tokens
  <2> DEFINE result == Success(topRule.addNode)
  <2>1. Return(result, Consume(cursor), errs, NewNodes(IF topRule.addNode THEN 1 ELSE 0))
    BY <1>2 DEF ExpectToken
  <2>2. result.Succeeded /\ result.Node = topRule.addNode
    BY DEF Success
  <2>3. topRule.MustReturnNode => topRule.addNode
    BY <1>1, TopPromise DEF DerivedContract, Running
  <2> HIDE DEF result
  <2>4. Done(top, result, Consume(cursor))
    BY <1>1, <2>2, <2>3, TopMoves, DoneSuccess
  <2> QED
    BY <2>1, <2>4, SteadyReturn
<1>3. CASE Next0.Token \notin topRule.tokens
  <2>1. Done(top, Failure(FailureNoMatch), cursor)
    BY <1>1, DoneFailure DEF Failure
  <2> QED
    BY <1>3, <2>1, SteadyGive DEF ExpectToken
<1> QED
  BY <1>2, <1>3

LEMMA ListSteady ==
  ASSUME IInv, ListOpen \/ ListFirst \/ ListAfterElement \/ ListAfterSeparator
  PROVE  Steady
<1>1. Running /\ topRule.kind = "List"
  BY AtHas DEF ListOpen, ListFirst, ListAfterElement, ListAfterSeparator
<1>2. \/ ListError \/ ListShift(0, 1) \/ ListShift(1, 1) \/ ListShift(2, 0)
      \/ \E allowed : ListClose(allowed)
  BY DEF ListOpen, ListFirst, ListAfterElement, ListAfterSeparator
<1>3. CASE ListError
  <2>1. Done(top, Failure(FailureError), cursor)
    BY <1>1, DoneFailure DEF Failure
  <2> QED
    BY <1>3, <2>1, SteadyReturn DEF ListError
<1>4. ASSUME NEW x, NEW n, ListShift(x, n) PROVE Steady
  <2> DEFINE a == [top EXCEPT !.next = x]
  <2>1. Continue(a, Consume(cursor), errs, NewNodes(n))
    BY <1>4 DEF ListShift
  <2>2. Local(a, x, top.marker, top.runs)
    BY <1>1, LocalsOf
  <2> HIDE DEF a
  <2>3. KindOf(a) = "List" /\ Moved(a, Consume(cursor))
    BY <1>1, <2>2, LocalKind, TopMoves
  <2>4. Progress(a, Consume(cursor))
    BY <2>3 DEF Progress
  <2> QED
    BY <2>1, <2>4, SteadyContinue
<1>5. ASSUME NEW allowed, ListClose(allowed) PROVE Steady
  <2>1. CASE allowed
    <3>1. Done(top, Success(TRUE), Consume(cursor))
      BY <1>1, TopMoves, DoneSuccess DEF Success
    <3> QED
      BY <1>5, <2>1, <3>1, SteadyReturn DEF ListClose
  <2>2. CASE ~allowed
    BY <1>3, <1>5, <2>2 DEF ListClose
  <2> QED
    BY <2>1, <2>2
<1> QED
  BY <1>2, <1>3, <1>4, <1>5

(* The children that a sequence has behind it. *)
LEMMA SequenceHas ==
  ASSUME IInv, Kept, control = "resume", topRule.kind = "Sequence", ret.Succeeded \/ Inserted
  PROVE  \A i \in DOMAIN kids : i < top.next + 1 /\ Rule[kids[i]].MustConsume => Moved(top, cursor)
<1>1. KindOf(top) = topRule.kind /\ kids = Rule[top.rule].kids /\ TypeOK
  BY TopPromise DEF IInv
<1>2. Progress(top, cursor)
  BY DEF Kept
<1>3. CASE ret.Succeeded
  <2>1. kids \in Seq(DOMAIN Rule) /\ top.next \in Nat
    BY RuleHas, TopHas
  <2>2. ~CallsOperator(top) /\ KidOf(top) = kids[top.next]
    BY <1>1 DEF CallsOperator, KidOf
  <2>3. Honours(Contract(Rule[kids[top.next]]), top, ret, cursor)
    BY <2>2 DEF Kept, HeardKid
  <2> SUFFICES ASSUME NEW i \in DOMAIN kids, i < top.next + 1, Rule[kids[i]].MustConsume
               PROVE  Moved(top, cursor)
    OBVIOUS
  <2>4. i \in Nat /\ kids[i] \in DOMAIN Rule
    BY <2>1
  <2>5. CASE i < top.next
    BY <1>1, <1>2, <2>5 DEF Progress
  <2>6. CASE i = top.next
    <3>1. Contract(Rule[kids[i]]).MustConsume
      BY <1>1, <2>4, ReferencePromisesNothing
    <3> QED
      BY <1>3, <2>3, <2>6, <3>1 DEF Honours
  <2> QED
    BY <2>1, <2>4, <2>5, <2>6
<1>4. CASE Inserted
  <2>1. top.marker # PeekRaw(cursor).Start
    BY <1>4 DEF Inserted, Promoted, sequenceCommitmentFailureKind, FailureError, FailureNoMatch
  <2>2. top.marker = PeekRaw(top.start).Start
    BY <1>1, <1>2 DEF Progress
  <2>3. cursor # top.start
    BY <2>1, <2>2
  <2>4. Moved(top, cursor)
    BY <2>3, TopStands DEF Moved
  <2> QED
    BY <2>4
<1> QED
  BY <1>3, <1>4

LEMMA SequenceCall ==
  ASSUME IInv, Running, topRule.kind = "Sequence", NEW a, NEW n, NEW s, NEW m,
         Local(a, n, m, top.runs), m = PeekRaw(top.start).Start,
         \A i \in DOMAIN kids : i < n /\ Rule[kids[i]].MustConsume => Moved(top, cursor),
         Call(a, kids[n], "Normal", cursor, s, created)
  PROVE  Steady
<1>1. /\ KindOf(a) = "Sequence" /\ Rule[a.rule].kids = kids /\ a.start = top.start
      /\ a.next = n /\ a.marker = m /\ (Moved(a, cursor) <=> Moved(top, cursor))
  BY LocalKind DEF Local
<1>2. Progress(a, cursor)
  BY <1>1 DEF Progress
<1>3. kids[n] = KidOf(a)
  BY <1>1 DEF KidOf
<1> QED
  BY <1>2, <1>3, SteadyCall

LEMMA SequenceSteady ==
  ASSUME IInv, Kept, SequenceBegin \/ SequenceAdvance \/ SequenceFail
  PROVE  Steady
<1>1. Running /\ topRule.kind = "Sequence"
  BY AtHas DEF SequenceBegin, SequenceAdvance, SequenceFail
<1>2. top.next \in Nat /\ kids \in Seq(DOMAIN Rule)
  BY <1>1, TopHas, RuleHas DEF Running
<1>3. CASE SequenceBegin
  <2> DEFINE m == PeekRaw(cursor).Start
             a == [top EXCEPT !.next = 1, !.marker = m]
  <2>1. Call(a, kids[1], "Normal", cursor, errs, created) /\ control = "begin"
    BY <1>3, AtHas DEF SequenceBegin, CallKid
  <2>2. cursor = top.start
    BY <2>1 DEF Kept
  <2>3. Local(a, 1, m, top.runs)
    BY <1>1, LocalsOf
  <2>4. \A i \in DOMAIN kids : ~(i < 1)
    BY <1>2
  <2>5. m = PeekRaw(top.start).Start
    BY <2>2
  <2> HIDE DEF a, m
  <2> QED
    BY <1>1, <2>1, <2>3, <2>4, <2>5, SequenceCall
<1>4. CASE SequenceAdvance
  <2>1. control = "resume" /\ (ret.Succeeded \/ Inserted)
    BY <1>4, AtHas DEF SequenceAdvance
  <2>2. \A i \in DOMAIN kids :
           i < top.next + 1 /\ Rule[kids[i]].MustConsume => Moved(top, cursor)
    BY <1>1, <2>1, SequenceHas
  <2>3. CASE top.next < Len(kids)
    <3> DEFINE n == top.next + 1
               a == [top EXCEPT !.next = n]
    <3>1. Call(a, kids[n], "Normal", cursor, MissingReported, created)
      BY <1>4, <2>3 DEF SequenceAdvance
    <3>2. Local(a, n, top.marker, top.runs)
      BY <1>1, LocalsOf
    <3>3. top.marker = PeekRaw(top.start).Start
      BY <1>1, <2>1, TopPromise DEF Kept, Progress
    <3>4. \A i \in DOMAIN kids : i < n /\ Rule[kids[i]].MustConsume => Moved(top, cursor)
      BY <2>2
    <3> HIDE DEF a, n
    <3> QED
      BY <1>1, <3>1, <3>2, <3>3, <3>4, SequenceCall
  <2>4. CASE ~(top.next < Len(kids))
    <3>1. Return(Success(TRUE), cursor, MissingReported,
                 NewNodes(IF topRule.transparent THEN 0 ELSE 1))
      BY <1>4, <2>4 DEF SequenceAdvance
    <3>2. topRule.MustConsume => \E i \in DOMAIN kids : Rule[kids[i]].MustConsume
      <4> DEFINE parts == [i \in DOMAIN kids |-> Rule[kids[i]]]
      <4>1. topRule.MustConsume => \E i \in DOMAIN parts : parts[i].MustConsume
        BY <1>1, TopPromise DEF DerivedContract, Running
      <4> QED
        BY <4>1
    <3>3. \A i \in DOMAIN kids : i < top.next + 1
      BY <1>2, <2>4
    <3>4. topRule.MustConsume => Moved(top, cursor)
      BY <2>2, <3>2, <3>3
    <3>5. Done(top, Success(TRUE), cursor)
      BY <1>1, <3>4, DoneSuccess DEF Success
    <3> QED
      BY <3>1, <3>5, SteadyReturn
  <2> QED
    BY <2>3, <2>4
<1>5. CASE SequenceFail
  <2> DEFINE result == Failure(sequenceCommitmentFailureKind(top.marker, ret.Kind))
  <2>1. Return(result, cursor, MissingReported, created)
    BY <1>5 DEF SequenceFail
  <2>2. ~result.Succeeded
    BY DEF Failure
  <2> HIDE DEF result
  <2>3. Done(top, result, cursor)
    BY <1>1, <2>2, DoneFailure
  <2> QED
    BY <2>1, <2>3, SteadyReturn
<1> QED
  BY <1>3, <1>4, <1>5

LEMMA GuardedSteady ==
  ASSUME IInv, NEW kind \in {"OptionalWhen", "Predict"}, NEW otherwise,
         topRule.kind = kind => Done(top, otherwise, cursor), Guarded(kind, otherwise)
  PROVE  Steady
<1>1. Running /\ Simple /\ topRule.kind = kind
  BY AtHas DEF Guarded, Simple
<1>2. CallKid(top, 1, "Normal") \/ Give(otherwise)
  BY DEF Guarded
<1> QED
  BY <1>1, <1>2, SimpleCall, SteadyGive

(* What a rule around one rule promises, the inner rule does. *)
LEMMA FirstPart ==
  ASSUME IInv, Running, topRule.kind \in RunsAChild
  PROVE  /\ topRule.kind \in {"Predict", "RecoverSync", "Required", "OptionalSuffix"} =>
              (topRule.MustConsume => Rule[kids[1]].MustConsume)
         /\ \/ topRule.kind \in {"Predict", "RecoverSync", "Required", "Prefixed"}
            \/ topRule.kind = "Nest" /\ topRule.transparent
            => (topRule.MustReturnNode => Rule[kids[1]].MustReturnNode)
         /\ topRule.kind = "Repetition" =>
              (topRule.MustConsume => topRule.min > 0 /\ Rule[kids[1]].MustConsume)
<1> DEFINE parts == [i \in DOMAIN kids |-> Rule[kids[i]]]
<1>1. DerivedContract(topRule, parts)
  BY TopPromise DEF Running
<1>2. kids \in Seq(DOMAIN Rule) /\ kids # <<>>
  BY RuleHas DEF Running
<1>3. parts[1] = Rule[kids[1]]
  BY <1>2
<1> HIDE DEF parts
<1> QED
  BY <1>1, <1>3 DEF DerivedContract

LEMMA AroundSteady ==
  ASSUME IInv, Kept,
         \/ OptionalBegin \/ OptionalEnd \/ OptionalWhenBegin \/ PredictBegin \/ RecoverSyncBegin
         \/ \E kind \in {"OptionalWhen", "Predict", "RecoverSync"} : ReturnKid(kind)
  PROVE  Steady
<1>0. ASSUME NEW result, Running, topRule.kind \in {"Optional", "OptionalWhen"}
      PROVE  Done(top, result, cursor)
  <2>1. ~topRule.MustConsume /\ ~topRule.MustReturnNode
    BY <1>0, TopPromise DEF DerivedContract, Running
  <2> QED
    BY <1>0, <2>1, DoneSuccess, DoneFailure
<1>1. CASE OptionalBegin
  BY <1>1, AtHas, SimpleCall DEF OptionalBegin, Simple
<1>2. CASE OptionalEnd
  BY <1>0, <1>2, AtHas, SteadyGive DEF OptionalEnd
<1>3. CASE OptionalWhenBegin
  BY <1>0, <1>3, AtHas, GuardedSteady DEF OptionalWhenBegin, Guarded
<1>4. CASE PredictBegin
  <2>1. topRule.kind = "Predict" /\ Running
    BY <1>4, AtHas DEF PredictBegin, Guarded
  <2>2. Done(top, Failure(FailureNoMatch), cursor)
    BY <2>1, DoneFailure DEF Failure
  <2> QED
    BY <1>4, <2>2, GuardedSteady DEF PredictBegin
<1>5. CASE RecoverSyncBegin
  BY <1>5, AtHas, SimpleCall DEF RecoverSyncBegin, Simple
<1>6. ASSUME NEW kind \in {"OptionalWhen", "Predict", "RecoverSync"}, ReturnKid(kind)
      PROVE  Steady
  <2>1. control = "resume" /\ topRule.kind = kind /\ Running /\ Give(ret)
    BY <1>6, AtHas DEF ReturnKid
  <2>2. CASE kind = "OptionalWhen" \/ ~ret.Succeeded
    BY <1>0, <2>1, <2>2, DoneFailure, SteadyGive
  <2>3. CASE kind # "OptionalWhen" /\ ret.Succeeded
    <3>1. kids[1] \in DOMAIN Rule
      BY <2>1, FirstKid DEF RunsAChild
    <3>2. /\ topRule.MustConsume => Rule[kids[1]].MustConsume
          /\ topRule.MustReturnNode => Rule[kids[1]].MustReturnNode
      BY <2>1, <2>3, FirstPart DEF RunsAChild
    <3>3. Done(top, ret, cursor)
      BY <2>1, <2>3, <3>1, <3>2, KidHonours, DoneSuccess
    <3> QED
      BY <2>1, <3>3, SteadyGive
  <2> QED
    BY <2>2, <2>3
<1> QED
  BY <1>1, <1>2, <1>3, <1>4, <1>5, <1>6

LEMMA SuffixSteady ==
  ASSUME IInv, Kept, OptionalSuffixBegin \/ OptionalSuffixEnd \/ RequiredBegin \/ RequiredEnd
  PROVE  Steady
<1>1. CASE OptionalSuffixBegin \/ RequiredBegin
  BY <1>1, AtHas, SimpleCall DEF OptionalSuffixBegin, RequiredBegin, Simple
<1>2. CASE OptionalSuffixEnd
  <2>1. control = "resume" /\ topRule.kind = "OptionalSuffix" /\ Running
    BY <1>2, AtHas DEF OptionalSuffixEnd
  <2>2. CASE ret.Succeeded /\ Next0.Token = topRule.suffix
    <3>1. Done(top, Success(TRUE), Consume(cursor))
      BY <2>1, TopMoves, DoneSuccess DEF Success
    <3> QED
      BY <1>2, <2>2, <3>1, SteadyReturn DEF OptionalSuffixEnd
  <2>3. CASE ~(ret.Succeeded /\ Next0.Token = topRule.suffix)
    <3>1. Give(ret)
      BY <1>2, <2>3 DEF OptionalSuffixEnd
    <3>2. kids[1] \in DOMAIN Rule /\ (topRule.MustConsume => Rule[kids[1]].MustConsume)
      BY <2>1, FirstKid, FirstPart DEF RunsAChild
    <3>3. CASE Contract(Rule[kids[1]]).MustReturnNode
      <4>1. Done(top, ret, cursor)
        BY <2>1, <3>2, <3>3, KidHonours, DoneSuccess, DoneFailure
      <4> QED
        BY <3>1, <4>1, SteadyGive
    <3>4. CASE ~Contract(Rule[kids[1]]).MustReturnNode
      <4>1. Overpromises(topRule)
        BY <2>1, <3>4 DEF Overpromises, kids
      <4>2. Due(top) = topRule /\ KindOf(top) = topRule.kind
        BY <2>1, TopPromise
      <4>3. Done(top, ret, cursor)
        BY <2>1, <4>1, <4>2 DEF Done
      <4> QED
        BY <3>1, <4>3, SteadyGive
    <3> QED
      BY <3>3, <3>4
  <2> QED
    BY <2>2, <2>3
<1>3. CASE RequiredEnd
  <2>1. control = "resume" /\ topRule.kind = "Required" /\ Running
    BY <1>3, AtHas DEF RequiredEnd
  <2> DEFINE s == Reported(ExpectedPosition(cursor))
  <2>2. Return(Failure(FailureError), cursor, s, created) \/ Give(ret)
    BY <1>3 DEF RequiredEnd
  <2> HIDE DEF s
  <2>3. Done(top, Failure(FailureError), cursor)
    BY <2>1, DoneFailure DEF Failure
  <2>4. /\ kids[1] \in DOMAIN Rule
        /\ topRule.MustConsume => Rule[kids[1]].MustConsume
        /\ topRule.MustReturnNode => Rule[kids[1]].MustReturnNode
    BY <2>1, FirstKid, FirstPart DEF RunsAChild
  <2>5. Done(top, ret, cursor)
    BY <2>1, <2>4, KidHonours, DoneSuccess, DoneFailure
  <2> QED
    BY <2>2, <2>3, <2>5, SteadyGive, SteadyReturn
<1> QED
  BY <1>1, <1>2, <1>3

(* A rule that has passed its first token has moved. *)
LEMMA OpenedCall ==
  ASSUME IInv, Running, topRule.kind \in {"Prefixed", "Nest"}, NEW m, NEW s,
         Call([top EXCEPT !.marker = m], kids[1], "Normal", Consume(cursor), s, created)
  PROVE  Steady
<1> DEFINE a == [top EXCEPT !.marker = m]
<1>1. Local(a, top.next, m, top.runs)
  BY LocalsOf
<1>2. Call(a, kids[1], "Normal", Consume(cursor), s, created)
  OBVIOUS
<1> HIDE DEF a
<1>3. /\ KindOf(a) = topRule.kind /\ Rule[a.rule].kids = kids
      /\ Moved(a, Consume(cursor))
  BY <1>1, LocalKind, TopMoves
<1>4. Progress(a, Consume(cursor)) /\ kids[1] = KidOf(a)
  BY <1>3 DEF Progress, KidOf
<1> QED
  BY <1>2, <1>4, SteadyCall

LEMMA OpenedMoves ==
  ASSUME IInv, Kept, control = "resume", topRule.kind \in {"Prefixed", "Nest"}
  PROVE  Moved(top, cursor)
  BY TopPromise DEF Kept, Progress

LEMMA PrefixedSteady == ASSUME IInv, Kept, PrefixedBegin \/ PrefixedEnd PROVE Steady
<1>1. CASE PrefixedBegin
  <2>1. Running /\ topRule.kind = "Prefixed"
    BY <1>1, AtHas DEF PrefixedBegin
  <2>2. CASE Next0.Token = topRule.prefix
    BY <1>1, <2>1, <2>2, OpenedCall DEF PrefixedBegin
  <2>3. CASE Next0.Token # topRule.prefix
    <3>1. Done(top, Failure(FailureNoMatch), cursor)
      BY <2>1, DoneFailure DEF Failure
    <3> QED
      BY <1>1, <2>3, <3>1, SteadyGive DEF PrefixedBegin
  <2> QED
    BY <2>2, <2>3
<1>2. CASE PrefixedEnd
  <2>1. control = "resume" /\ topRule.kind = "Prefixed" /\ Running
    BY <1>2, AtHas DEF PrefixedEnd
  <2>2. CASE ret.Succeeded
    <3>1. kids[1] \in DOMAIN Rule /\ (topRule.MustReturnNode => Rule[kids[1]].MustReturnNode)
      BY <2>1, FirstKid, FirstPart DEF RunsAChild
    <3>2. Moved(top, cursor)
      BY <2>1, OpenedMoves
    <3>3. Done(top, ret, cursor)
      BY <2>1, <2>2, <3>1, <3>2, KidHonours, DoneSuccess
    <3> QED
      BY <1>2, <2>2, <3>3, SteadyGive DEF PrefixedEnd
  <2>3. CASE ~ret.Succeeded
    <3>1. Done(top, InnerFailure, cursor)
      BY <2>1, DoneFailure DEF InnerFailure, Failure
    <3> QED
      BY <1>2, <2>3, <3>1, SteadyGive DEF PrefixedEnd
  <2> QED
    BY <2>2, <2>3
<1> QED
  BY <1>1, <1>2

LEMMA NestSteady ==
  ASSUME IInv, Kept, NestBegin \/ NestInnerFails \/ NestCloses \/ NestCloseMissing
  PROVE  Steady
<1>1. CASE NestBegin
  <2>1. Running /\ topRule.kind = "Nest"
    BY <1>1, AtHas DEF NestBegin
  <2>2. CASE Next0.Token = topRule.open
    BY <1>1, <2>1, <2>2, OpenedCall DEF NestBegin
  <2>3. CASE Next0.Token # topRule.open
    <3>1. Done(top, Failure(FailureNoMatch), cursor)
      BY <2>1, DoneFailure DEF Failure
    <3> QED
      BY <1>1, <2>3, <3>1, SteadyGive DEF NestBegin
  <2> QED
    BY <2>2, <2>3
<1>2. CASE NestInnerFails \/ NestCloseMissing
  <2>1. control = "resume" /\ topRule.kind = "Nest" /\ Running
    BY <1>2, AtHas DEF NestInnerFails, NestCloseMissing
  <2>2. Moved(top, cursor)
    BY <2>1, OpenedMoves
  <2>3. Done(top, InnerFailure, cursor) /\ Done(top, Failure(FailureError), cursor)
    BY <2>1, <2>2, DoneFailure DEF InnerFailure, Failure
  <2> QED
    BY <1>2, <2>3, SteadyReturn DEF NestInnerFails, NestCloseMissing
<1>3. CASE NestCloses
  <2>1. control = "resume" /\ topRule.kind = "Nest" /\ Running /\ ret.Succeeded
    BY <1>3, AtHas DEF NestCloses
  <2>2. kids[1] \in DOMAIN Rule
    BY <2>1, FirstKid DEF RunsAChild
  <2> DEFINE result == IF topRule.transparent THEN ret ELSE Success(TRUE)
  <2>3. Return(result, Consume(cursor), PopDelimiterBoundary(errs),
               NewNodes(IF topRule.transparent THEN 0 ELSE 1))
    BY <1>3 DEF NestCloses
  <2>4. result.Succeeded /\ (topRule.MustReturnNode => result.Node)
    <3>1. CASE topRule.transparent
      <4>1. topRule.MustReturnNode => Rule[kids[1]].MustReturnNode
        BY <2>1, <3>1, FirstPart DEF RunsAChild
      <4> QED
        BY <2>1, <2>2, <3>1, <4>1, KidHonours
    <3>2. CASE ~topRule.transparent
      BY <3>2 DEF Success
    <3> QED
      BY <3>1, <3>2
  <2> HIDE DEF result
  <2>5. Done(top, result, Consume(cursor))
    BY <2>1, <2>4, TopMoves, DoneSuccess
  <2> QED
    BY <2>3, <2>5, SteadyReturn
<1> QED
  BY <1>1, <1>2, <1>3

(* Root promises what its caller says, which is not checked here. *)
LEMMA RootSteady == ASSUME IInv, Kept, RootBegin \/ RootAdvance \/ RootFail PROVE Steady
<1>1. Running /\ topRule.kind = "Root"
  BY AtHas DEF RootBegin, RootAdvance, RootFail
<1>2. ASSUME NEW result, NEW cur PROVE Done(top, result, cur)
  BY <1>1, TopPromise DEF Done, Overpromises, Running
<1>3. ASSUME NEW a, NEW n, Local(a, n, top.marker, top.runs), NEW cur, NEW s, NEW count,
             Call(a, kids[n], "Normal", cur, s, count)
      PROVE  Steady
  <2>1. KindOf(a) = "Root" /\ Rule[a.rule].kids = kids /\ a.next = n
    BY <1>1, <1>3, LocalKind DEF Local
  <2>2. Progress(a, cur) /\ kids[n] = KidOf(a)
    BY <2>1 DEF Progress, KidOf
  <2> QED
    BY <1>3, <2>2, SteadyCall
<1>4. CASE RootBegin
  <2> DEFINE a == [top EXCEPT !.next = 1]
  <2>1. Call(a, kids[1], "Normal", cursor, errs, NewNodes(1))
    BY <1>4 DEF RootBegin
  <2>2. Local(a, 1, top.marker, top.runs)
    BY <1>1, LocalsOf
  <2> HIDE DEF a
  <2> QED
    BY <1>3, <2>1, <2>2
<1>5. CASE RootAdvance
  <2> DEFINE n == top.next + 1
             a == [top EXCEPT !.next = n]
  <2>1. Call(a, kids[n], "Normal", cursor, errs, created) \/ Give(Success(TRUE))
    BY <1>5 DEF RootAdvance, CallKid
  <2>2. Local(a, n, top.marker, top.runs)
    BY <1>1, LocalsOf
  <2> HIDE DEF a, n
  <2> QED
    BY <1>2, <1>3, <2>1, <2>2, SteadyGive
<1>6. CASE RootFail
  <2>1. \E result, s : Return(result, cursor, s, created)
    BY <1>6 DEF RootFail
  <2> QED
    BY <1>2, <2>1, SteadyReturn
<1> QED
  BY <1>4, <1>5, <1>6

-----------------------------------------------------------------------------
(* Repetitions and choices. *)

LEMMA AttemptSteady ==
  ASSUME IInv, Running, topRule.kind = "Repetition", NEW a, NEW n, NEW count,
         Local(a, n, top.marker, top.runs), IsActivation(a),
         n > 0 /\ Rule[kids[1]].MustConsume => Moved(top, cursor),
         Attempt(a, cursor, count)
  PROVE  Steady
<1> DEFINE m == PeekRaw(cursor).Start
           b == [a EXCEPT !.marker = m]
<1>1. Call(b, kids[1], "Normal", cursor, errs, count)
  BY DEF Attempt
<1>2. a.rule = top.rule /\ a.start = top.start /\ a.next = n /\ a.runs = top.runs
  BY DEF Local
<1>3. b.rule = a.rule /\ b.start = a.start /\ b.next = a.next /\ b.runs = a.runs /\ b.marker = m
  BY DEF IsActivation, ActivationFields
<1> HIDE DEF b
<1>4. Local(b, n, m, top.runs)
  BY <1>2, <1>3 DEF Local
<1>5. /\ KindOf(b) = "Repetition" /\ Rule[b.rule].kids = kids /\ b.next = n
      /\ Moved(b, cursor) <=> Moved(top, cursor)
  BY <1>4, LocalKind DEF Local
<1>6. Progress(b, cursor) /\ kids[1] = KidOf(b)
  BY <1>5 DEF Progress, KidOf
<1> QED
  BY <1>1, <1>6, SteadyCall

LEMMA RepetitionEndSteady ==
  ASSUME IInv, Running, topRule.kind = "Repetition", NEW n \in Nat,
         n > 0 /\ Rule[kids[1]].MustConsume => Moved(top, cursor), RepetitionEnd(n)
  PROVE  Steady
<1>1. /\ topRule.min \in Nat
      /\ topRule.MustConsume => topRule.min > 0 /\ Rule[kids[1]].MustConsume
  BY TopPromise, FirstPart DEF Running, RunsAChild
<1>2. CASE n < topRule.min
  <2>1. Done(top, Failure(FailureNoMatch), cursor)
    BY DoneFailure DEF Failure
  <2> QED
    BY <1>2, <2>1, SteadyGive DEF RepetitionEnd
<1>3. CASE ~(n < topRule.min)
  <2>1. topRule.MustConsume => Moved(top, cursor)
    BY <1>1, <1>3
  <2>2. Done(top, Success(TRUE), cursor)
    BY <2>1, DoneSuccess DEF Success
  <2> QED
    BY <1>3, <2>2, SteadyGive DEF RepetitionEnd
<1> QED
  BY <1>2, <1>3

LEMMA RepetitionSteady ==
  ASSUME IInv, Kept, \/ RepetitionBegin \/ RepetitionBeginFull \/ RepetitionMatch
                     \/ RepetitionStops \/ RepetitionPropagates \/ RepetitionRetries
  PROVE  Steady
<1>1. Running /\ topRule.kind = "Repetition"
  BY AtHas DEF RepetitionBegin, RepetitionBeginFull, RepetitionMatch, RepetitionStops,
               RepetitionPropagates, RepetitionRetries
<1>2. top.next \in Nat /\ IsActivation(top) /\ kids[1] \in DOMAIN Rule
  BY <1>1, TopHas, FirstKid DEF Running, RunsAChild
<1>3. control = "resume" => (top.next > 0 /\ Rule[kids[1]].MustConsume => Moved(top, cursor))
  BY <1>1, TopPromise DEF Kept, Progress, Running
<1>3a. Local(top, top.next, top.marker, top.runs)
  BY <1>1, LocalsOf
<1>4. CASE RepetitionBegin
  <2>1. Attempt(top, cursor, NewNodes(IF topRule.transparent THEN 0 ELSE 1)) /\ control = "begin"
    BY <1>4, AtHas DEF RepetitionBegin
  <2>2. top.next = 0
    BY <2>1 DEF Kept
  <2>3. ~(top.next > 0)
    BY <2>2
  <2> QED
    BY <1>1, <1>2, <1>3a, <2>1, <2>3, AttemptSteady
<1>5. CASE RepetitionBeginFull
  <2>1. /\ Return(Success(TRUE), cursor, errs, NewNodes(IF topRule.transparent THEN 0 ELSE 1))
        /\ Full(0)
    BY <1>5 DEF RepetitionBeginFull
  <2>2. /\ topRule.min \in Nat /\ topRule.max \in Nat
        /\ topRule.MustConsume => topRule.min > 0
        /\ topRule.hasMax => topRule.min <= topRule.max
    BY <1>1, TopPromise DEF DerivedContract, Running
  <2>3. ~topRule.MustConsume
    BY <2>1, <2>2 DEF Full
  <2>4. Done(top, Success(TRUE), cursor)
    BY <1>1, <2>3, DoneSuccess DEF Success
  <2> QED
    BY <2>1, <2>4, SteadyReturn
<1>6. CASE RepetitionMatch
  <2> DEFINE n == top.next + 1
             a == [top EXCEPT !.next = n]
  <2>1. control = "resume" /\ ret.Succeeded
    BY <1>6, AtHas DEF RepetitionMatch
  <2>2. RepetitionEnd(n) \/ Attempt(a, cursor, created)
    BY <1>6 DEF RepetitionMatch
  <2>3. Local(a, n, top.marker, top.runs)
    BY <1>1, LocalsOf
  <2>4. n \in Nat
    BY <1>2
  <2>5. IsActivation(a)
    <3> HIDE DEF n
    <3>1. Same(a)
      BY <1>1, <2>4, TopIsSame
    <3> QED
      BY <3>1 DEF Same
  <2>6. Rule[kids[1]].MustConsume => Moved(top, cursor)
    BY <1>1, <1>2, <2>1, KidHonours
  <2> HIDE DEF n, a
  <2>7. CASE RepetitionEnd(n)
    BY <1>1, <2>4, <2>6, <2>7, RepetitionEndSteady
  <2>8. CASE Attempt(a, cursor, created)
    BY <1>1, <2>3, <2>4, <2>5, <2>6, <2>8, AttemptSteady
  <2> QED
    BY <2>2, <2>7, <2>8
<1>7. CASE RepetitionStops
  BY <1>1, <1>2, <1>3, <1>7, AtHas, RepetitionEndSteady DEF RepetitionStops
<1>8. CASE RepetitionPropagates
  BY <1>1, <1>8, DoneFailure, SteadyGive DEF RepetitionPropagates
<1>9. CASE RepetitionRetries
  <2>1. control = "resume" /\ (RepetitionEnd(top.next) \/ Attempt(top, cursor, created))
    BY <1>9, AtHas DEF RepetitionRetries
  <2> QED
    BY <1>1, <1>2, <1>3, <1>3a, <2>1, RepetitionEndSteady, AttemptSteady
<1> QED
  BY <1>4, <1>5, <1>6, <1>7, <1>8, <1>9

LEMMA TryArmSteady ==
  ASSUME IInv, Running, topRule.kind = "Choice", NEW i \in Nat, TryArm(i)
  PROVE  Steady
<1>1. kids \in Seq(DOMAIN Rule)
  BY RuleHas DEF Running
<1> DEFINE arms == ArmsAfter(i)
           j == CHOOSE j \in arms : \A k \in arms : j <= k
<1>2. arms \in SUBSET Nat /\ arms \subseteq DOMAIN kids
  BY <1>1 DEF ArmsAfter
<1>3. CASE arms = {}
  <2>1. Done(top, Failure(FailureNoMatch), cursor)
    BY DoneFailure DEF Failure
  <2> QED
    BY <1>3, <2>1, SteadyGive DEF TryArm
<1>4. CASE arms # {}
  <2> DEFINE a == [top EXCEPT !.next = j]
  <2>1. Call(a, kids[j], "Normal", cursor, errs, created)
    BY <1>4 DEF TryArm, CallKid
  <2> HIDE DEF arms
  <2>2. \E k \in arms : \A l \in arms : k <= l
    BY <1>2, <1>4, LeastOf
  <2>3. j \in DOMAIN kids
    BY <1>2, <2>2
  <2> HIDE DEF j
  <2>4. Local(a, j, top.marker, top.runs)
    BY LocalsOf
  <2> HIDE DEF a
  <2>5. KindOf(a) = "Choice" /\ Rule[a.rule].kids = kids /\ a.next = j
    BY <2>4, LocalKind DEF Local
  <2>6. Progress(a, cursor) /\ kids[j] = KidOf(a)
    BY <2>3, <2>5 DEF Progress, KidOf
  <2> QED
    BY <2>1, <2>6, SteadyCall
<1> QED
  BY <1>3, <1>4

LEMMA ChoiceSteady ==
  ASSUME IInv, Kept, ChoiceBegin \/ ChoiceEnd \/ ChoiceNextArm
  PROVE  Steady
<1>1. Running /\ topRule.kind = "Choice"
  BY AtHas DEF ChoiceBegin, ChoiceEnd, ChoiceNextArm
<1>2. top.next \in Nat
  BY <1>1, TopHas DEF Running
<1>3. CASE ChoiceBegin
  BY <1>1, <1>3, TryArmSteady DEF ChoiceBegin
<1>4. CASE ChoiceEnd
  <2>1. control = "resume" /\ Give(ret)
    BY <1>4, AtHas DEF ChoiceEnd
  <2>2. CASE ret.Succeeded
    <3>1. KindOf(top) = "Choice" /\ kids = Rule[top.rule].kids /\ kids \in Seq(DOMAIN Rule)
      BY <1>1, TopPromise, RuleHas DEF Running
    <3>2. top.next \in DOMAIN kids
      BY <2>1, <3>1 DEF Kept, Progress
    <3>3. ~CallsOperator(top) /\ KidOf(top) = kids[top.next]
      BY <3>1 DEF CallsOperator, KidOf
    <3>4. Honours(Contract(Rule[kids[top.next]]), top, ret, cursor)
      BY <2>1, <3>3 DEF Kept, HeardKid
    <3>5. /\ topRule.MustConsume => Rule[kids[top.next]].MustConsume
          /\ ~topRule.MustReturnNode
      <4> DEFINE parts == [i \in DOMAIN kids |-> Rule[kids[i]]]
      <4>1. DerivedContract(topRule, parts)
        BY <1>1, TopPromise DEF Running
      <4>2. parts[top.next] = Rule[kids[top.next]] /\ top.next \in DOMAIN parts
        BY <3>2
      <4> HIDE DEF parts
      <4> QED
        BY <1>1, <4>1, <4>2 DEF DerivedContract
    <3>6. kids[top.next] \in DOMAIN Rule
      BY <3>1, <3>2
    <3>7. topRule.MustConsume => Moved(top, cursor)
      BY <2>2, <3>4, <3>5, <3>6, ReferencePromisesNothing DEF Honours, IInv
    <3>8. Done(top, ret, cursor)
      BY <1>1, <2>2, <3>5, <3>7, DoneSuccess
    <3> QED
      BY <2>1, <3>8, SteadyGive
  <2>3. CASE ~ret.Succeeded
    BY <1>1, <2>1, <2>3, DoneFailure, SteadyGive
  <2> QED
    BY <2>2, <2>3
<1>5. CASE ChoiceNextArm
  BY <1>1, <1>2, <1>5, TryArmSteady DEF ChoiceNextArm
<1> QED
  BY <1>3, <1>4, <1>5

-----------------------------------------------------------------------------
(* Expressions. *)

OfRuns(runs) == IsSeq(runs) /\ \A k \in DOMAIN runs : DOMAIN runs[k] = RunFields

LEMMA RunsMore ==
  ASSUME NEW p, OfRuns(p), NEW r, DOMAIN r = RunFields
  PROVE  LET u == Append(p, r) IN AreRuns(u) /\ OfRuns(u) /\ u[Len(u)] = r /\ Pop(u) = p
<1> DEFINE n == Len(p)
           u == Append(p, r)
<1>1. n \in Nat /\ DOMAIN p = 1 .. n
  BY SeqHas DEF OfRuns
<1>2. /\ IsSeq(u) /\ u # <<>> /\ Len(u) = n + 1 /\ DOMAIN u = 1 .. n + 1
      /\ u[n + 1] = r /\ (\A k \in 1 .. n : u[k] = p[k]) /\ Pop(u) = p
  BY SeqAppend DEF OfRuns
<1> HIDE DEF u, n
<1>3. ASSUME NEW k \in DOMAIN u PROVE DOMAIN u[k] = RunFields
  <2>1. k \in 1 .. n \/ k = n + 1
    BY <1>1, <1>2
  <2>2. CASE k \in 1 .. n
    <3>1. u[k] = p[k] /\ k \in DOMAIN p
      BY <1>1, <1>2, <2>2
    <3> QED
      BY <3>1 DEF OfRuns
  <2>3. CASE k = n + 1
    BY <1>2, <2>3
  <2> QED
    BY <2>1, <2>2, <2>3
<1>4. u[Len(u)] = r
  BY <1>2
<1> QED
  BY <1>2, <1>3, <1>4 DEF AreRuns, OfRuns, u

LEMMA RunsLess ==
  ASSUME NEW runs, AreRuns(runs)
  PROVE  /\ OfRuns(runs) /\ OfRuns(Pop(runs)) /\ DOMAIN runs[Len(runs)] = RunFields
         /\ Len(runs) \in Nat \ {0}
         /\ Len(runs) > 1 => OfRuns(Pop(Pop(runs))) /\ DOMAIN runs[Len(runs) - 1] = RunFields
<1> DEFINE n == Len(runs)
           p == Pop(runs)
<1>1. n \in Nat \ {0} /\ DOMAIN runs = 1 .. n
  BY SeqHas DEF AreRuns
<1>2. IsSeq(p) /\ Len(p) = n - 1 /\ DOMAIN p = 1 .. n - 1 /\ \A k \in 1 .. n - 1 : p[k] = runs[k]
  BY SeqPop, SeqHas DEF AreRuns
<1>3. \A k \in 1 .. n - 1 : k \in DOMAIN runs
  BY <1>1
<1> HIDE DEF p
<1>4. OfRuns(runs) /\ OfRuns(p)
  BY <1>2, <1>3 DEF AreRuns, OfRuns
<1>5. n \in DOMAIN runs
  BY <1>1
<1>6. ASSUME n > 1 PROVE OfRuns(Pop(p)) /\ n - 1 \in DOMAIN runs
  <2> DEFINE q == Pop(p)
             m == n - 1
  <2>1. m \in Nat \ {0} /\ n - 1 \in DOMAIN runs
    BY <1>1, <1>6
  <2> HIDE DEF m
  <2>2. p # <<>> /\ Len(p) = m
    <3>1. Len(p) = m /\ Len(p) # 0
      BY <1>2, <2>1 DEF m
    <3> QED
      BY <1>2, <3>1, SeqHas
  <2>3. IsSeq(q) /\ DOMAIN q = 1 .. m - 1 /\ \A k \in 1 .. m - 1 : q[k] = p[k]
    BY <1>2, <2>2, SeqPop, SeqHas
  <2>4. \A k \in 1 .. m - 1 : k \in DOMAIN p
    BY <1>2, <2>1 DEF m
  <2> HIDE DEF q
  <2>5. OfRuns(q)
    BY <1>4, <2>3, <2>4 DEF OfRuns
  <2> QED
    BY <2>1, <2>5 DEF q
<1> QED
  BY <1>1, <1>4, <1>5, <1>6 DEF AreRuns, p

LEMMA PairAppends ==
  ASSUME NEW p, IsSeq(p), NEW r, NEW q
  PROVE  p \o <<r, q>> = Append(Append(p, r), q)
<1> DEFINE S == {p[i] : i \in DOMAIN p} \cup {r, q}
<1>1. p \in Seq(S) /\ r \in S /\ q \in S
  BY SeqHas DEF IsSeq
<1> HIDE DEF S
<1> QED
  BY <1>1

Inner == Contract(Rule[kids[1]])

(* What the run on which the expression works says. *)
LEMMA ExpressionStands ==
  ASSUME IInv, Kept, control \in {"loop", "resume"}, topRule.kind = "Pratt"
  PROVE  /\ Running /\ AreRuns(top.runs) /\ DOMAIN run = RunFields /\ LastRun(top) = run
         /\ OfRuns(Pop(top.runs))
         /\ \/ run.stage = "left"
            \/ run.stage = "operator" /\ ops[run.op].fix = "postfix"
            => (Inner.MustConsume => Moved(top, cursor))
<1>1. Running /\ KindOf(top) = "Pratt" /\ kids = Rule[top.rule].kids
  BY TopPromise DEF Running
<1>2. Progress(top, cursor)
  BY DEF Kept
<1>3. AreRuns(top.runs) /\ (Led(top) /\ Inner.MustConsume => Moved(top, cursor))
  BY <1>1, <1>2 DEF Progress, Inner
<1>4. DOMAIN run = RunFields /\ OfRuns(Pop(top.runs)) /\ LastRun(top) = run
  BY <1>3, RunsLess DEF run, LastRun
<1> QED
  BY <1>1, <1>3, <1>4 DEF Led, ops, topRule

(* The expression with the runs p and, on top, the run r. *)
LEMMA ExpressionGoes ==
  ASSUME IInv, Running, topRule.kind = "Pratt", NEW p, OfRuns(p), NEW r, DOMAIN r = RunFields,
         NEW a, Local(a, top.next, top.marker, Append(p, r)), NEW cur,
         \/ r.stage = "left"
         \/ r.stage = "operator" /\ ops[r.op].fix = "postfix"
         => (Inner.MustConsume => Moved(top, cur))
  PROVE  Progress(a, cur) /\ LastRun(a) = r /\ KindOf(a) = "Pratt" /\ Rule[a.rule].kids = kids
<1>1. /\ KindOf(a) = "Pratt" /\ Rule[a.rule].kids = kids /\ a.runs = Append(p, r)
      /\ Moved(a, cur) <=> Moved(top, cur)
  BY LocalKind DEF Local
<1>2. AreRuns(a.runs) /\ LastRun(a) = r
  BY <1>1, RunsMore DEF LastRun
<1>3. Rule[a.rule].ops = ops
  BY DEF Local, ops, topRule
<1>4. Led(a) /\ Inner.MustConsume => Moved(a, cur)
  BY <1>1, <1>2, <1>3 DEF Led
<1> QED
  BY <1>1, <1>2, <1>4 DEF Progress, Inner

LEMMA NewRun == ASSUME NEW bp, NEW cur
                PROVE  DOMAIN Run(bp, cur) = RunFields /\ Run(bp, cur).stage = "operand"
  BY DEF Run, RunFields

(* A run starts for the operand after an operator. *)
LEMMA OperandGoes ==
  ASSUME IInv, Running, topRule.kind = "Pratt", NEW p, OfRuns(p), NEW r, DOMAIN r = RunFields,
         NEW bp, NEW cur, NEW s, NEW count, NEW a,
         Local(a, top.next, top.marker, p \o <<r, Run(bp, cur)>>), Continue(a, cur, s, count)
  PROVE  Steady
<1> DEFINE q == Run(bp, cur)
           u == Append(p, r)
<1>1. DOMAIN q = RunFields /\ q.stage = "operand"
  BY NewRun
<1>2. OfRuns(u) /\ p \o <<r, q>> = Append(u, q)
  BY RunsMore, PairAppends DEF OfRuns
<1>3. Local(a, top.next, top.marker, Append(u, q))
  BY <1>2
<1> HIDE DEF u, q
<1>4. Progress(a, cur)
  BY <1>1, <1>2, <1>3, ExpressionGoes
<1> QED
  BY <1>4, SteadyContinue

LEMMA RunForSteady ==
  ASSUME IInv, Kept, topRule.kind = "Pratt", control = "loop", NEW o, NEW cur,
         Continue(RunFor(o, cur), cur, errs, created)
  PROVE  Steady
<1> DEFINE r == [run EXCEPT !.op = o, !.mid = cursor, !.right = cur, !.stage = "right"]
           p == Pop(top.runs)
           runs == p \o <<r, Run(ops[o].rightBP, cur)>>
           a == [top EXCEPT !.runs = runs]
<1>1. Running /\ OfRuns(p) /\ DOMAIN run = RunFields
  BY ExpressionStands
<1>2. DOMAIN r = RunFields
  BY <1>1
<1>3. Continue(a, cur, errs, created)
  <2>1. RunFor(o, cur) = a
    BY DEF RunFor
  <2> QED
    BY <2>1
<1>4. Local(a, top.next, top.marker, runs)
  BY <1>1, LocalsOf
<1> HIDE DEF a, r, p
<1> QED
  BY <1>1, <1>2, <1>3, <1>4, OperandGoes

LEMMA TakeTokenSteady ==
  ASSUME IInv, Kept, topRule.kind = "Pratt", control = "loop", NEW o, TakeToken(o)
  PROVE  Steady
  BY RunForSteady DEF TakeToken

LEMMA CallOperatorSteady ==
  ASSUME IInv, Kept, topRule.kind = "Pratt", control = "loop", NEW o, CallOperator(o),
         run.stage = "left" \/ ops[o].fix = "prefix"
  PROVE  Steady
<1> DEFINE r == [run EXCEPT !.op = o, !.mid = cursor, !.stage = "operator"]
           p == Pop(top.runs)
           a == [top EXCEPT !.runs = Append(p, r)]
<1>1. Running /\ OfRuns(p) /\ DOMAIN run = RunFields
  BY ExpressionStands
<1>2. DOMAIN r = RunFields /\ r.op = o /\ r.stage = "operator"
  BY <1>1 DEF RunFields
<1>3. Call(a, kids[ops[o].kid], "Normal", cursor, errs, created)
  BY DEF CallOperator, CallKid, WithRun
<1>4. Local(a, top.next, top.marker, Append(p, r))
  BY <1>1, LocalsOf
<1>5. r.stage = "left" \/ (r.stage = "operator" /\ ops[r.op].fix = "postfix")
      => (Inner.MustConsume => Moved(top, cursor))
  BY <1>2, ExpressionStands
<1> HIDE DEF a, r, p
<1>6. Progress(a, cursor) /\ LastRun(a) = r /\ KindOf(a) = "Pratt"
  BY <1>1, <1>2, <1>4, <1>5, ExpressionGoes
<1>7. CallsOperator(a)
  BY <1>2, <1>6 DEF CallsOperator
<1> QED
  BY <1>3, <1>6, <1>7, SteadyCall

(* A left operand is there. *)
LEMMA WithLeftSteady ==
  ASSUME IInv, Running, topRule.kind = "Pratt", NEW p, OfRuns(p), NEW r, DOMAIN r = RunFields,
         NEW n, NEW cur, NEW s, NEW count, Inner.MustConsume => Moved(top, cur),
         Continue(WithLeft(p, r, n), cur, s, count)
  PROVE  Steady
<1> DEFINE q == [r EXCEPT !.op = 0, !.stage = "left"]
           runs == Append(p, q)
           nodes == top.nodes \cup {n}
           a == [top EXCEPT !.runs = runs, !.nodes = nodes]
<1>1. DOMAIN q = RunFields
  OBVIOUS
<1>2. Continue(a, cur, s, count)
  BY DEF WithLeft
<1>3. Local(a, top.next, top.marker, runs)
  BY LocalsOf
<1> HIDE DEF a, q, nodes
<1>4. Progress(a, cur)
  BY <1>1, <1>3, ExpressionGoes
<1> QED
  BY <1>2, <1>4, SteadyContinue

LEMMA PrattSteady == ASSUME IInv, Kept, PrattStep PROVE Steady
<1>1. Running /\ topRule.kind = "Pratt"
  BY AtHas DEF PrattStep, AmbiguityPanic, PrattBegin, TryPrefixOp, TryPrefixRuleOp, ParsePrimary,
               ParsePrimaryEnd, TryPostfixOp, TryInfixOp, TryRuleOp, RuleOpEnd, TryImplicitInfix,
               RunEnd, PrattEnd, Operand, Loop
<1>2. KindOf(top) = "Pratt" /\ Due(top) = topRule /\ kids = Rule[top.rule].kids
  BY <1>1, TopPromise DEF Running
<1>3. CASE AmbiguityPanic
  BY <1>1, <1>2, <1>3 DEF AmbiguityPanic, Steady, Overpromises
<1>4. CASE PrattBegin
  <2> DEFINE r == Run(0, cursor)
             runs == Append(<<>>, r)
             a == [top EXCEPT !.runs = runs]
  <2>1. Continue(a, cursor, errs, created)
    BY <1>4 DEF PrattBegin
  <2>2. Local(a, top.next, top.marker, runs)
    BY <1>1, LocalsOf
  <2>3. OfRuns(<<>>)
    BY NoSeq DEF OfRuns
  <2>4. DOMAIN r = RunFields /\ r.stage = "operand"
    BY NewRun
  <2> HIDE DEF a, r
  <2>5. Progress(a, cursor)
    BY <1>1, <2>2, <2>3, <2>4, ExpressionGoes
  <2> QED
    BY <2>1, <2>5, SteadyContinue
<1>5. CASE TryPrefixOp
  <2>1. control = "loop" /\ \E o : TakeToken(o)
    BY <1>5, AtHas DEF TryPrefixOp, Operand
  <2> QED
    BY <1>1, <2>1, TakeTokenSteady
<1>6. CASE TryPrefixRuleOp
  <2>1. control = "loop" /\ \E o \in PrefixOperators : CallOperator(o)
    BY <1>6, AtHas DEF TryPrefixRuleOp, Operand
  <2>2. \A o \in PrefixOperators : ops[o].fix = "prefix"
    BY DEF PrefixOperators, WithFix
  <2> QED
    BY <1>1, <2>1, <2>2, CallOperatorSteady
<1>7. CASE ParsePrimary
  <2> DEFINE r == [run EXCEPT !.stage = "primary"]
             p == Pop(top.runs)
             a == [top EXCEPT !.runs = Append(p, r)]
  <2>1. control = "loop" /\ Call(a, kids[1], "Normal", cursor, errs, created)
    BY <1>7, AtHas DEF ParsePrimary, Operand, CallKid, WithRun
  <2>2. OfRuns(p) /\ DOMAIN run = RunFields
    BY <1>1, <2>1, ExpressionStands
  <2>3. DOMAIN r = RunFields /\ r.stage = "primary"
    BY <2>2 DEF RunFields
  <2>4. Local(a, top.next, top.marker, Append(p, r))
    BY <1>1, LocalsOf
  <2> HIDE DEF a, r, p
  <2>5. Progress(a, cursor) /\ KindOf(a) = "Pratt" /\ Rule[a.rule].kids = kids
    BY <1>1, <2>2, <2>3, <2>4, ExpressionGoes
  <2>6. kids[1] = KidOf(a)
    BY <2>5 DEF KidOf
  <2> QED
    BY <2>1, <2>5, <2>6, SteadyCall
<1>8. CASE ParsePrimaryEnd
  <2>1. control = "resume" /\ run.stage = "primary"
    BY <1>8, AtHas DEF ParsePrimaryEnd
  <2>2. /\ OfRuns(Pop(top.runs)) /\ DOMAIN run = RunFields /\ LastRun(top) = run
    BY <1>1, <2>1, ExpressionStands
  <2>3. CASE ~ret.Succeeded
    BY <1>1, <1>8, <2>3, DoneFailure, SteadyGive DEF ParsePrimaryEnd
  <2>4. CASE ret.Succeeded /\ ~ret.Node
    <3>1. Done(top, Failure(FailureError), cursor)
      BY <1>1, DoneFailure DEF Failure
    <3> QED
      BY <1>8, <2>4, <3>1, SteadyReturn DEF ParsePrimaryEnd
  <2>5. CASE ret.Succeeded /\ ret.Node
    <3>1. \E n : Continue(WithLeft(Pop(top.runs), run, n), cursor, errs, created)
      BY <1>8, <2>5 DEF ParsePrimaryEnd
    <3>2. ~CallsOperator(top) /\ KidOf(top) = kids[1]
      BY <1>2, <2>1, <2>2 DEF CallsOperator, KidOf
    <3>3. Inner.MustConsume => Moved(top, cursor)
      BY <2>1, <2>5, <3>2 DEF Kept, HeardKid, Honours, Inner
    <3> QED
      BY <1>1, <2>2, <3>1, <3>3, WithLeftSteady
  <2> QED
    BY <2>3, <2>4, <2>5
<1>9. CASE TryPostfixOp
  <2> DEFINE end == Consume(cursor)
  <2>1. control = "loop" /\ \E n : Continue(WithLeft(Pop(top.runs), run, n), end, errs, NewNodes(1))
    BY <1>9, AtHas DEF TryPostfixOp, Loop
  <2>2. OfRuns(Pop(top.runs)) /\ DOMAIN run = RunFields
    BY <1>1, <2>1, ExpressionStands
  <2>3. Moved(top, end)
    BY <1>1, TopMoves
  <2> HIDE DEF end
  <2> QED
    BY <1>1, <2>1, <2>2, <2>3, WithLeftSteady
<1>10. CASE TryInfixOp
  <2>1. control = "loop" /\ \E o : TakeToken(o)
    BY <1>10, AtHas DEF TryInfixOp, Loop
  <2> QED
    BY <1>1, <2>1, TakeTokenSteady
<1>11. CASE TryRuleOp
  <2>1. control = "loop" /\ run.stage = "left" /\ \E o : CallOperator(o)
    BY <1>11, AtHas DEF TryRuleOp, Loop
  <2> QED
    BY <1>1, <2>1, CallOperatorSteady
<1>12. CASE RuleOpEnd
  <2>1. control = "resume" /\ run.stage = "operator"
    BY <1>12, AtHas DEF RuleOpEnd
  <2>2. OfRuns(Pop(top.runs)) /\ DOMAIN run = RunFields
    BY <1>1, <2>1, ExpressionStands
  <2>3. CASE ~ret.Succeeded
    BY <1>1, <1>12, <2>3, DoneFailure, SteadyGive DEF RuleOpEnd
  <2>4. CASE ret.Succeeded /\ op.fix = "postfix"
    <3>1. \E n : Continue(WithLeft(Pop(top.runs), run, n), cursor, errs, NewNodes(1))
      BY <1>12, <2>4 DEF RuleOpEnd
    <3>2. Inner.MustConsume => Moved(top, cursor)
      BY <1>1, <2>1, <2>4, ExpressionStands DEF op
    <3> QED
      BY <1>1, <2>2, <3>1, <3>2, WithLeftSteady
  <2>5. CASE ret.Succeeded /\ op.fix # "postfix"
    <3> DEFINE r == [run EXCEPT !.right = cursor, !.stage = "right"]
               bp == op.rightBP
               p == Pop(top.runs)
               runs == p \o <<r, Run(bp, cursor)>>
               a == [top EXCEPT !.runs = runs]
    <3>1. Continue(a, cursor, errs, created)
      BY <1>12, <2>5 DEF RuleOpEnd
    <3>2. DOMAIN r = RunFields
      BY <2>2
    <3>3. Local(a, top.next, top.marker, runs)
      BY <1>1, LocalsOf
    <3> HIDE DEF a, r, bp, p
    <3>4. OfRuns(p)
      BY <2>2 DEF p
    <3> QED
      BY <1>1, <3>1, <3>2, <3>3, <3>4, OperandGoes
  <2> QED
    BY <2>3, <2>4, <2>5
<1>13. CASE TryImplicitInfix
  <2>1. control = "loop" /\ Continue(RunFor(Taken, cursor), cursor, errs, created)
    BY <1>13, AtHas DEF TryImplicitInfix, Loop
  <2> QED
    BY <1>1, <2>1, RunForSteady
<1>14. CASE RunEnd
  <2> DEFINE below == top.runs[Len(top.runs) - 1]
             p == Pop(Pop(top.runs))
  <2>1. /\ control = "loop" /\ run.stage = "left" /\ Len(top.runs) > 1
        /\ \E n : Continue(WithLeft(p, below, n), cursor, errs, NewNodes(1))
    BY <1>14, AtHas DEF RunEnd, Loop
  <2>2. AreRuns(top.runs) /\ (Inner.MustConsume => Moved(top, cursor))
    BY <1>1, <2>1, ExpressionStands
  <2>3. OfRuns(p) /\ DOMAIN below = RunFields
    BY <2>1, <2>2, RunsLess
  <2> HIDE DEF below, p
  <2> QED
    BY <1>1, <2>1, <2>2, <2>3, WithLeftSteady
<1>15. CASE PrattEnd
  <2>1. control = "loop" /\ run.stage = "left" /\ Give(Success(TRUE))
    BY <1>15, AtHas DEF PrattEnd, Loop
  <2>2. Inner.MustConsume => Moved(top, cursor)
    BY <1>1, <2>1, ExpressionStands
  <2>3. ~Inner.MustConsume => Overpromises(topRule)
    BY <1>1 DEF Overpromises, Inner, kids
  <2>4. Done(top, Success(TRUE), cursor)
    <3>1. CASE Inner.MustConsume
      BY <1>1, <2>2, <3>1, DoneSuccess DEF Success
    <3>2. CASE ~Inner.MustConsume
      BY <1>2, <2>3, <3>2 DEF Done
    <3> QED
      BY <3>1, <3>2
  <2> QED
    BY <2>1, <2>4, SteadyGive
<1> QED
  BY <1>3, <1>4, <1>5, <1>6, <1>7, <1>8, <1>9, <1>10, <1>11, <1>12, <1>13, <1>14, <1>15
     DEF PrattStep

LEMMA BodySteady == ASSUME IInv, Kept, BodyStep PROVE Steady
<1>1. CASE ReferenceBegin
  BY <1>1, AtHas DEF ReferenceBegin, Steady
<1>2. CASE PrattStep
  BY <1>2, PrattSteady
<1> QED
  BY <1>1, <1>2, ExpectSteady, ListSteady, SequenceSteady, AroundSteady, SuffixSteady,
     PrefixedSteady, NestSteady, RootSteady, RepetitionSteady, ChoiceSteady
     DEF BodyStep

-----------------------------------------------------------------------------
(* Whose recovery frame is whose. *)

LEMMA RankHas ==
  ASSUME NEW t, IsSeq(t), NEW i \in DOMAIN t
  PROVE  /\ Rank(t, i) \in Nat /\ Cardinality(NormalIn(t)) \in Nat
         /\ Rank(t, i) <= Cardinality(NormalIn(t))
         /\ t[i].mode = "Normal" => Rank(t, i) > 0
         /\ i = Len(t) => Rank(t, i) = Cardinality(NormalIn(t))
<1> DEFINE n == Len(t)
           R == {j \in 1 .. i : t[j].mode = "Normal"}
           N == NormalIn(t)
<1>1. n \in Nat /\ DOMAIN t = 1 .. n /\ i \in 1 .. n
  BY SeqHas
<1>2. R \subseteq N /\ N \subseteq 1 .. n /\ (i = n => R = N)
  BY <1>1 DEF NormalIn
<1>3. t[i].mode = "Normal" => i \in R
  BY <1>1
<1>4. Rank(t, i) = Cardinality(R)
  BY DEF Rank
<1> HIDE DEF R, N, n
<1>5. IsFiniteSet(N)
  <2>1. IsFiniteSet(1 .. n)
    BY <1>1, FS_Interval
  <2> QED
    BY <1>2, <2>1, FS_Subset
<1>6. IsFiniteSet(R) /\ Cardinality(R) <= Cardinality(N)
  BY <1>2, <1>5, FS_Subset
<1>7. Cardinality(R) \in Nat /\ Cardinality(N) \in Nat
  BY <1>5, <1>6, FS_CardinalityType
<1>8. R # {} => Cardinality(R) # 0
  BY <1>6, FS_EmptySet
<1>9. t[i].mode = "Normal" => Cardinality(R) > 0
  BY <1>3, <1>7, <1>8
<1> QED
  BY <1>2, <1>4, <1>6, <1>7, <1>9 DEF N, n

LEMMA FramedPush ==
  ASSUME NEW t, IsSeq(t), NEW f, IsSeq(f), Len(f) = Cardinality(NormalIn(t)), Framed(t, f),
         NEW a, NEW x, a.envelope /\ a.mode = "Normal" => x = RecoveryFrame(Rule[a.rule])
  PROVE  Framed(Append(t, a), IF a.mode = "Normal" THEN Append(f, x) ELSE f)
<1> DEFINE n == Len(t)
           u == Append(t, a)
           g == IF a.mode = "Normal" THEN Append(f, x) ELSE f
<1>1. n \in Nat /\ DOMAIN t = 1 .. n
  BY SeqHas
<1>2. IsSeq(u) /\ DOMAIN u = 1 .. n + 1 /\ Len(u) = n + 1 /\ u[n + 1] = a
      /\ \A i \in 1 .. n : u[i] = t[i]
  BY SeqAppend
<1>3. NormalIn(u) = IF a.mode = "Normal" THEN NormalIn(t) \cup {n + 1} ELSE NormalIn(t)
  BY PushCounts
<1>4. NormalIn(t) \in SUBSET (1 .. n)
  BY <1>1 DEF NormalIn
<1>5. /\ Len(f) \in Nat /\ DOMAIN f = 1 .. Len(f)
      /\ \A k \in 1 .. Len(f) : g[k] = f[k]
      /\ a.mode = "Normal" => g[Len(f) + 1] = x
  BY SeqHas, SeqAppend
<1> HIDE DEF u, g
<1>6. ASSUME NEW i \in 1 .. n, u[i].envelope /\ u[i].mode = "Normal"
      PROVE  g[Rank(u, i)] = RecoveryFrame(Rule[u[i].rule])
  <2>1. i \in DOMAIN t /\ u[i] = t[i]
    BY <1>1, <1>2
  <2>2. {j \in 1 .. i : u[j].mode = "Normal"} = {j \in 1 .. i : t[j].mode = "Normal"}
    BY <1>1, <1>2
  <2>3. Rank(u, i) = Rank(t, i)
    BY <2>2 DEF Rank
  <2>4. Rank(t, i) \in Nat /\ Rank(t, i) <= Len(f) /\ Rank(t, i) > 0
    BY <1>6, <2>1, RankHas
  <2> DEFINE k == Rank(t, i)
  <2>5. f[k] = RecoveryFrame(Rule[t[i].rule])
    BY <1>6, <2>1 DEF Framed
  <2> HIDE DEF k
  <2>6. k \in 1 .. Len(f)
    BY <1>5, <2>4 DEF k
  <2>7. g[k] = f[k]
    BY <1>5, <2>6
  <2> QED
    BY <2>1, <2>3, <2>5, <2>7 DEF k
<1>7. ASSUME a.envelope, a.mode = "Normal"
      PROVE  g[Rank(u, n + 1)] = RecoveryFrame(Rule[a.rule])
  <2>1. n + 1 \in DOMAIN u
    BY <1>1, <1>2
  <2>2. Rank(u, n + 1) = Cardinality(NormalIn(u))
    BY <1>2, <2>1, RankHas
  <2>3. Cardinality(NormalIn(u)) = Len(f) + 1
    BY <1>1, <1>3, <1>4, <1>7, CountMore
  <2> QED
    BY <1>5, <1>7, <2>2, <2>3
<1> SUFFICES ASSUME NEW i \in 1 .. n + 1, u[i].envelope /\ u[i].mode = "Normal"
             PROVE  g[Rank(u, i)] = RecoveryFrame(Rule[u[i].rule])
  BY <1>2 DEF Framed, u, g
<1>8. i \in 1 .. n \/ i = n + 1
  BY <1>1
<1>9. CASE i = n + 1
  BY <1>2, <1>7, <1>9
<1> QED
  BY <1>6, <1>8, <1>9

LEMMA FramedPop ==
  ASSUME NEW t, IsSeq(t), t # <<>>, NEW f, IsSeq(f), Len(f) = Cardinality(NormalIn(t)),
         Framed(t, f)
  PROVE  Framed(Pop(t), IF t[Len(t)].mode = "Normal" THEN Pop(f) ELSE f)
<1> DEFINE n == Len(t)
           u == Pop(t)
           g == IF t[n].mode = "Normal" THEN Pop(f) ELSE f
<1>1. n \in Nat \ {0} /\ DOMAIN t = 1 .. n
  BY SeqHas
<1>2. IsSeq(u) /\ DOMAIN u = 1 .. n - 1 /\ Len(u) = n - 1 /\ \A i \in 1 .. n - 1 : u[i] = t[i]
  BY SeqPop
<1>3. n \in DOMAIN t
  BY <1>1
<1>4. Rank(t, n) = Len(f) /\ Len(f) \in Nat /\ (t[n].mode = "Normal" => Len(f) > 0)
  BY <1>3, RankHas
<1>5. t[n].mode = "Normal" => \A k \in 1 .. Len(f) - 1 : Pop(f)[k] = f[k]
  <2>1. ASSUME t[n].mode = "Normal" PROVE f # <<>>
    BY <1>4, <2>1, SeqHas
  <2> QED
    BY <2>1, SeqPop
<1> SUFFICES ASSUME NEW i \in 1 .. n - 1, u[i].envelope /\ u[i].mode = "Normal"
             PROVE  g[Rank(u, i)] = RecoveryFrame(Rule[u[i].rule])
  BY <1>2 DEF Framed
<1> HIDE DEF u
<1>6. i \in DOMAIN t /\ i \in DOMAIN u /\ u[i] = t[i]
  BY <1>1, <1>2
<1>7. {j \in 1 .. i : u[j].mode = "Normal"} = {j \in 1 .. i : t[j].mode = "Normal"}
  BY <1>1, <1>2
<1>8. Rank(u, i) = Rank(t, i)
  BY <1>7 DEF Rank
<1> DEFINE k == Rank(t, i)
<1>9. f[k] = RecoveryFrame(Rule[t[i].rule])
  BY <1>6 DEF Framed
<1>10. CASE t[n].mode = "Normal"
  <2>1. k \in Nat /\ k > 0 /\ Rank(u, i) <= Cardinality(NormalIn(u))
    BY <1>2, <1>6, RankHas
  <2>2. NormalIn(u) = NormalIn(t) \ {n}
    <3>1. 1 .. n - 1 = (1 .. n) \ {n}
      BY <1>1
    <3> HIDE DEF n
    <3> QED
      BY <1>1, <1>2, <3>1 DEF NormalIn
  <2>3. NormalIn(t) \in SUBSET (1 .. n) /\ n \in NormalIn(t)
    BY <1>1, <1>10 DEF NormalIn
  <2>4. Cardinality(NormalIn(u)) = Len(f) - 1
    BY <1>1, <2>2, <2>3, CountLess
  <2> HIDE DEF k
  <2>5. k <= Len(f) - 1
    BY <1>8, <2>1, <2>4 DEF k
  <2>6. k \in 1 .. Len(f) - 1
    BY <1>4, <2>1, <2>5
  <2>7. g[k] = f[k]
    BY <1>5, <1>10, <2>6
  <2> QED
    BY <1>6, <1>8, <1>9, <2>7 DEF k
<1>11. CASE t[n].mode # "Normal"
  BY <1>6, <1>8, <1>9, <1>11
<1> QED
  BY <1>10, <1>11

LEMMA FramedAlike ==
  ASSUME IInv, NEW t, Alike(t), Framed(calls, recovery)
  PROVE  Framed(t, recovery)
<1>1. IsSeq(calls)
  BY DEF IInv, Shape
<1>2. DOMAIN t = DOMAIN calls /\ DOMAIN calls = 1 .. Len(calls) /\ Len(calls) \in Nat
  BY <1>1, AlikeCounts, SeqHas
<1> SUFFICES ASSUME NEW i \in DOMAIN calls, t[i].envelope /\ t[i].mode = "Normal"
             PROVE  recovery[Rank(t, i)] = RecoveryFrame(Rule[t[i].rule])
  BY <1>2 DEF Framed
<1>3. t[i].envelope = calls[i].envelope /\ t[i].mode = calls[i].mode /\ t[i].rule = calls[i].rule
  BY DEF Alike
<1>4. \A j \in 1 .. i : j \in DOMAIN calls
  BY <1>2
<1>5. \A j \in 1 .. i : t[j].mode = calls[j].mode
  BY <1>4 DEF Alike
<1>6. Rank(t, i) = Rank(calls, i)
  BY <1>5 DEF Rank
<1> QED
  BY <1>3, <1>6 DEF Framed

-----------------------------------------------------------------------------
(* Every activation was called as a part of the one below. *)

LEMMA LinkedPush ==
  ASSUME NEW t, IsSeq(t), Linked(t), NEW a,
         t # <<>> => /\ Asks(t[Len(t)], a)
                     /\ a.envelope => Progress(t[Len(t)], a.start)
  PROVE  Linked(Append(t, a))
<1> DEFINE n == Len(t)
           u == Append(t, a)
<1>1. /\ n \in Nat /\ DOMAIN t = 1 .. n
      /\ t = <<>> <=> n = 0
  BY SeqHas
<1>2. DOMAIN u = 1 .. n + 1 /\ u[n + 1] = a /\ \A i \in 1 .. n : u[i] = t[i]
  BY SeqAppend
<1> HIDE DEF u
<1> SUFFICES ASSUME NEW i \in 1 .. n + 1, i > 1
             PROVE  /\ Asks(u[i - 1], u[i])
                    /\ u[i].envelope => Progress(u[i - 1], u[i].start)
  BY <1>2 DEF Linked, u
<1>3. i \in 1 .. n \/ i = n + 1
  BY <1>1
<1>4. CASE i \in 1 .. n
  <2>1. u[i] = t[i] /\ i \in DOMAIN t /\ u[i - 1] = t[i - 1]
    BY <1>1, <1>2, <1>4
  <2> QED
    BY <2>1 DEF Linked
<1>5. CASE i = n + 1
  <2>1. u[i] = a /\ u[i - 1] = t[n] /\ t # <<>>
    BY <1>1, <1>2, <1>5
  <2> QED
    BY <2>1
<1> QED
  BY <1>3, <1>4, <1>5

LEMMA LinkedPop ==
  ASSUME NEW t, IsSeq(t), t # <<>>, Linked(t)
  PROVE  Linked(Pop(t))
<1> DEFINE n == Len(t)
           u == Pop(t)
<1>1. /\ n \in Nat \ {0} /\ DOMAIN t = 1 .. n /\ DOMAIN u = 1 .. n - 1
      /\ \A i \in 1 .. n - 1 : u[i] = t[i]
  BY SeqPop, SeqHas
<1> HIDE DEF u, n
<1> SUFFICES ASSUME NEW i \in 1 .. n - 1, i > 1
             PROVE  /\ Asks(u[i - 1], u[i])
                    /\ u[i].envelope => Progress(u[i - 1], u[i].start)
  BY <1>1 DEF Linked, u
<1>2. u[i] = t[i] /\ i \in DOMAIN t /\ u[i - 1] = t[i - 1]
  BY <1>1
<1> QED
  BY <1>2 DEF Linked

(* The top activation with other locals is the same part of its caller. *)
LEMMA LinkedTop ==
  ASSUME IInv, Running, Linked(calls), NEW a, Same(a)
  PROVE  LET u == Append(Pop(calls), a)
         IN  Linked(u) /\ IsSeq(u) /\ u # <<>> /\ u[Len(u)] = a
<1> DEFINE n == Len(calls)
           p == Pop(calls)
           u == Append(p, a)
           m == Len(p)
<1>1. calls # <<>> /\ IsSeq(calls) /\ n \in Nat \ {0} /\ DOMAIN calls = 1 .. n
  BY TopHas DEF Running
<1>2. /\ IsSeq(p) /\ m = n - 1 /\ \A i \in 1 .. n - 1 : p[i] = calls[i]
      /\ (p = <<>> <=> m = 0)
  BY <1>1, SeqPop, SeqHas
<1>3. Linked(p)
  BY <1>1, LinkedPop
<1>4. calls[n] = top /\ a.envelope = top.envelope /\ a.rule = top.rule /\ a.start = top.start
  BY DEF Same, top
<1> HIDE DEF p
<1>5. IsSeq(u) /\ u # <<>> /\ Len(u) = m + 1 /\ u[m + 1] = a
  BY <1>2, SeqAppend
<1> HIDE DEF n, m
<1>6. p # <<>> => Asks(p[m], a) /\ (a.envelope => Progress(p[m], a.start))
  <2> SUFFICES ASSUME p # <<>> PROVE Asks(p[m], a) /\ (a.envelope => Progress(p[m], a.start))
    OBVIOUS
  <2>1. m \in 1 .. n - 1 /\ m = n - 1 /\ n \in DOMAIN calls /\ n > 1
    BY <1>1, <1>2
  <2>2. p[m] = calls[n - 1]
    BY <1>2, <2>1
  <2>3. Asks(calls[n - 1], calls[n]) /\ (calls[n].envelope => Progress(calls[n - 1], calls[n].start))
    BY <2>1 DEF Linked
  <2> QED
    BY <1>4, <2>2, <2>3 DEF Asks
<1>7. Linked(u)
  BY <1>2, <1>3, <1>6, LinkedPush DEF m
<1> HIDE DEF u
<1>8. u[Len(u)] = a
  BY <1>5
<1> QED
  BY <1>5, <1>7, <1>8 DEF u, p

-----------------------------------------------------------------------------
(* The steps of bodies keep the invariant. *)

LEMMA FramesMatch ==
  ASSUME IInv, control # "panic"
  PROVE  IsSeq(calls) /\ IsSeq(recovery) /\ Len(recovery) = Cardinality(NormalIn(calls))
  BY CountsMatch DEF IInv, Shape, Counted

LEMMA KeptEnter ==
  ASSUME IInv, NEW t, IsSeq(t), Linked(t), Framed(t, recovery), IsSeq(recovery),
         Len(recovery) = Cardinality(NormalIn(t)),
         NEW r, NEW mode, NEW cur, NEW s, NEW count, Enter(t, r, mode, cur, s, count),
         t # <<>> => /\ CallsOperator(t[Len(t)]) \/ r = KidOf(t[Len(t)])
                     /\ Progress(t[Len(t)], cur)
  PROVE  Kept'
<1> DEFINE x == Activation(r, mode, TRUE, cur, s, count)
           f == RecoveryFrame(Rule[r])
<1>1. /\ calls' = Append(t, x) /\ parser' = parser /\ input' = input /\ control' = "begin"
      /\ recovery' = (IF mode = "Normal" THEN Append(recovery, f) ELSE recovery)
      /\ cursor' = cur
  BY DEF Enter, Effect
<1>2. x.rule = r /\ x.mode = mode /\ x.envelope = TRUE /\ x.start = cur /\ x.next = 0
  BY DEF Activation
<1> HIDE DEF x, f
<1>3. Framed(calls', recovery')
  BY <1>1, <1>2, FramedPush DEF f
<1>4. t # <<>> => Asks(t[Len(t)], x) /\ Progress(t[Len(t)], x.start)
  BY <1>2 DEF Asks
<1>5. Linked(calls')
  BY <1>1, <1>4, LinkedPush
<1>6. calls'[Len(calls')] = x
  <2>1. Len(Append(t, x)) = Len(t) + 1 /\ Append(t, x)[Len(t) + 1] = x
    BY SeqAppend
  <2> QED
    BY <1>1, <2>1
<1> QED
  BY <1>1, <1>2, <1>3, <1>5, <1>6, KeptNow

(* Two descriptions of one call name one rule. *)
LEMMA OneCallee ==
  ASSUME IInv, Running, NEW a, NEW r, NEW mode, NEW cur, NEW s, NEW count,
         NEW b, NEW q, NEW how, NEW at, NEW z, NEW k,
         Call(a, r, mode, cur, s, count), Call(b, q, how, at, z, k)
  PROVE  r = q
<1> DEFINE p == Pop(calls)
           t == Append(p, a)
           u == Append(p, b)
           x == Activation(r, mode, TRUE, cur, s, count)
           y == Activation(q, how, TRUE, at, z, k)
<1>1. IsSeq(p)
  BY TopHas, SeqPop DEF Running
<1>2. calls' = Append(t, x) /\ calls' = Append(u, y)
  BY DEF Call, Enter
<1>3. x.rule = r /\ y.rule = q
  BY DEF Activation
<1> HIDE DEF p, x, y
<1>4. IsSeq(t) /\ Len(t) = Len(p) + 1 /\ IsSeq(u) /\ Len(u) = Len(p) + 1
  BY <1>1, SeqAppend
<1> HIDE DEF t, u
<1>5. calls'[Len(t) + 1] = x /\ calls'[Len(u) + 1] = y
  BY <1>2, <1>4, SeqAppend, ZenonT(60)
<1> QED
  BY <1>3, <1>4, <1>5

LEMMA KeptCalls ==
  ASSUME IInv, Kept, Running, Steady, NEW a, NEW r, NEW mode, NEW cur, NEW s, NEW count,
         Calls(a, r, mode, cur, s, count)
  PROVE  Kept'
<1> DEFINE t == Append(Pop(calls), a)
<1>1. Same(a) /\ Call(a, r, mode, cur, s, count) /\ topRule.kind # "Reference"
  BY DEF Calls
<1>2. control' = "begin" /\ Enter(t, r, mode, cur, s, count)
  BY <1>1 DEF Call, Enter
<1>3. PICK b, q, how, at, z, k :
        /\ Call(b, q, how, at, z, k)
        /\ Progress(b, at) /\ (CallsOperator(b) \/ q = KidOf(b))
  BY <1>1, <1>2 DEF Steady, Return, Continue
<1>4. a = b /\ cur = at /\ r = q
  BY <1>1, <1>3, OneCall, OneCallee
<1>5. /\ control # "panic" /\ IsSeq(recovery) /\ Len(recovery) = Cardinality(NormalIn(calls))
      /\ Framed(calls, recovery) /\ Linked(calls) /\ IsSeq(calls)
  BY FramesMatch DEF Running, Kept
<1>6. Linked(t) /\ IsSeq(t) /\ t # <<>> /\ t[Len(t)] = a
  BY <1>1, <1>5, LinkedTop
<1>7. Alike(t)
  BY <1>1, AlikeTop
<1> HIDE DEF t
<1>8. Framed(t, recovery) /\ NormalIn(t) = NormalIn(calls)
  <2>1. FALSE \in BOOLEAN
    OBVIOUS
  <2> QED
    BY <1>5, <1>7, <2>1, FramedAlike, AlikeCounts
<1>9. (CallsOperator(t[Len(t)]) \/ r = KidOf(t[Len(t)])) /\ Progress(t[Len(t)], cur)
  BY <1>3, <1>4, <1>6
<1> QED
  BY <1>2, <1>5, <1>6, <1>8, <1>9, KeptEnter

LEMMA KeptContinues ==
  ASSUME IInv, Kept, Running, Steady, NEW a, NEW cur, NEW s, NEW count,
         Continues(a, cur, s, count)
  PROVE  Kept'
<1> DEFINE p == Pop(calls)
           t == Append(p, a)
<1>1. /\ Same(a) /\ calls' = t /\ control' = "loop" /\ cursor' = cur
      /\ parser' = parser /\ input' = input /\ recovery' = recovery
  BY DEF Continues, Continue, Effect
<1>2. PICK b, at, z, k : Continue(b, at, z, k) /\ Progress(b, at)
  BY <1>1 DEF Steady, Return, Call, Enter, ExecuteReference
<1>3. calls' = Append(p, b) /\ cursor' = at
  BY <1>2 DEF Continue, Effect
<1>4. IsSeq(p)
  BY TopHas, SeqPop DEF Running
<1>5. a = b
  <2>1. Append(p, a)[Len(p) + 1] = a /\ Append(p, b)[Len(p) + 1] = b
    BY <1>4, SeqAppend
  <2> QED
    BY <1>1, <1>3, <2>1
<1>6. control # "panic" /\ Framed(calls, recovery) /\ Linked(calls)
  BY DEF Running, Kept
<1>7. Linked(t) /\ t[Len(t)] = a /\ Alike(t)
  BY <1>1, <1>6, LinkedTop, AlikeTop
<1> HIDE DEF t
<1>8. Framed(t, recovery)
  BY <1>6, <1>7, FramedAlike
<1> QED
  BY <1>1, <1>2, <1>3, <1>5, <1>7, <1>8, KeptNow

LEMMA KeptReturns ==
  ASSUME IInv, Kept, Running, Steady, NEW result, NEW cur, NEW s, NEW count,
         Returns(result, cur, s, count)
  PROVE  Kept'
<1>1. /\ ret' = result /\ control' = "leave" /\ calls' = calls /\ cursor' = cur
      /\ recovery' = recovery /\ parser' = parser /\ input' = input
  BY DEF Returns, Return, Effect
<1>2. Done(top, ret', cursor')
  BY <1>1 DEF Steady, Call, Enter, Continue, ExecuteReference, Return, Effect
<1>3. Framed(calls, recovery) /\ Linked(calls)
  BY DEF Running, Kept
<1>4. calls'[Len(calls')] = top
  BY <1>1 DEF top
<1> QED
  BY <1>1, <1>2, <1>3, <1>4, KeptNow

LEMMA KeptRefers == ASSUME IInv, Kept, Running, Refers PROVE Kept'
<1> DEFINE x == Activation(Registry[topRule.target].rule, "Normal", FALSE, cursor, errs, created)
           f == RecoveryFrame(Registry[topRule.target])
<1>1. /\ topRule.kind = "Reference" /\ control = "begin" /\ calls' = Append(calls, x)
      /\ recovery' = Append(recovery, f) /\ control' = "begin" /\ cursor' = cursor
      /\ parser' = parser /\ input' = input
  BY DEF Refers, ExecuteReference, Effect
<1>2. /\ x.rule = Registry[topRule.target].rule /\ x.mode = "Normal" /\ x.envelope = FALSE
      /\ x.start = cursor /\ x.next = 0
  BY DEF Activation
<1> HIDE DEF x, f
<1>3. /\ control # "panic" /\ IsSeq(recovery) /\ Len(recovery) = Cardinality(NormalIn(calls))
      /\ Framed(calls, recovery) /\ Linked(calls) /\ IsSeq(calls)
  BY FramesMatch DEF Running, Kept
<1>4. Framed(calls', recovery')
  BY <1>1, <1>2, <1>3, FramedPush
<1>5. cursor = top.start /\ KindOf(top) = "Reference"
  BY <1>1, TopPromise DEF Kept
<1>6. Asks(top, x)
  BY <1>2, <1>5 DEF Asks, topRule
<1>7. Linked(calls')
  BY <1>1, <1>2, <1>3, <1>6, LinkedPush DEF top
<1>8. calls'[Len(calls')] = x
  <2>1. Len(Append(calls, x)) = Len(calls) + 1 /\ Append(calls, x)[Len(calls) + 1] = x
    BY <1>3, SeqAppend
  <2> QED
    BY <1>1, <2>1
<1> QED
  BY <1>1, <1>2, <1>4, <1>7, <1>8, KeptNow

LEMMA KeptPanics == ASSUME IInv, Kept, Running, Steady, Panics PROVE Kept'
<1>1. control' = "panic" /\ calls' = calls /\ parser' = parser /\ input' = input
  BY DEF Panics
<1>2. Overpromises(Due(top))
  BY <1>1 DEF Steady, Call, Enter, Continue, ExecuteReference, Return
<1>3. calls'[Len(calls')] = top
  BY <1>1 DEF top
<1> QED
  BY <1>1, <1>2, <1>3, KeptNow

LEMMA KeptBody == ASSUME IInv, Kept, BodyStep PROVE Kept'
<1>1. BodyMoves /\ Running /\ Steady
  BY BodyStepMoves, BodySteady DEF BodyMoves
<1>2. CASE \E a, r, mode, cur, s, count : Calls(a, r, mode, cur, s, count)
  BY <1>1, <1>2, KeptCalls
<1>3. CASE \E a, cur, s, count : Continues(a, cur, s, count)
  BY <1>1, <1>3, KeptContinues
<1>4. CASE \E result, cur, s, count : Returns(result, cur, s, count)
  BY <1>1, <1>4, KeptReturns
<1>5. CASE Refers
  BY <1>1, <1>5, KeptRefers
<1>6. CASE Panics
  BY <1>1, <1>6, KeptPanics
<1> QED
  BY <1>1, <1>2, <1>3, <1>4, <1>5, <1>6 DEF BodyMoves

-----------------------------------------------------------------------------
(* Leaving a rule. *)

(* The caller hears of a rule what the rule promises. *)
LEMMA KeptLeave ==
  ASSUME IInv, Kept, Leaving, NEW result, NEW cur, NEW q, NEW count,
         Leave(result, cur, q, count), cur \in Nat, top.start <= cur,
         Honours(Due(top), top, result, cur)
  PROVE  Kept'
<1> DEFINE n == Len(calls)
           p == Pop(calls)
<1>1. /\ calls' = p /\ ret' = result /\ cursor' = cur
      /\ control' = (IF n = 1 THEN "finish" ELSE "resume")
      /\ recovery' = (IF top.mode = "Normal" THEN Pop(recovery) ELSE recovery)
      /\ parser' = parser /\ input' = input
  BY DEF Leave, Effect
<1>2. control = "leave" /\ top.envelope
  BY DEF Leaving
<1>3. IsSeq(calls) /\ calls # <<>> /\ n \in Nat \ {0} /\ DOMAIN calls = 1 .. n
  BY <1>2, TopHas
<1>4. /\ IsSeq(recovery) /\ Len(recovery) = Cardinality(NormalIn(calls))
      /\ Framed(calls, recovery) /\ Linked(calls)
  BY <1>2, FramesMatch DEF Kept
<1>5. Len(p) = n - 1 /\ \A i \in 1 .. n - 1 : p[i] = calls[i]
  BY <1>3, SeqPop
<1>6. top = calls[n]
  BY DEF top
<1> HIDE DEF p
<1>7. Linked(calls')
  BY <1>1, <1>3, <1>4, LinkedPop DEF p
<1>8. Framed(calls', recovery')
  <2>1. Framed(p, IF calls[n].mode = "Normal" THEN Pop(recovery) ELSE recovery)
    BY <1>3, <1>4, FramedPop DEF p
  <2> QED
    BY <1>1, <1>6, <2>1
<1>9. CASE n = 1
  <2>1. control' = "finish"
    BY <1>1, <1>9
  <2> QED
    BY <1>1, <1>7, <1>8, <2>1, KeptNow
<1>10. CASE n # 1
  <2> HIDE DEF n
  <2> DEFINE b == calls[n - 1]
  <2>1. n \in DOMAIN calls /\ n - 1 \in DOMAIN calls /\ n > 1 /\ n - 1 \in 1 .. n - 1
        /\ n - 1 <= n
    BY <1>3, <1>10
  <2>2. calls'[Len(calls')] = b
    BY <1>1, <1>5, <2>1
  <2>3. Asks(b, top) /\ Progress(b, top.start)
    BY <1>2, <1>4, <1>6, <2>1 DEF Linked
  <2>4. b.start \in Nat /\ top.start \in Nat /\ b.start <= top.start
    <3>1. b.start <= top.start
      BY <1>6, <2>1 DEF IInv, Shape
    <3>2. b.start \in 0 .. cursor /\ top.start \in 0 .. cursor
      BY <1>6, <2>1 DEF IInv, TypeOK
    <3> QED
      BY <3>1, <3>2
  <2> HIDE DEF b
  <2>5. Progress(b, cur)
    BY <2>3, <2>4, ProgressOn
  <2>6. Moved(top, cur) => Moved(b, cur)
    BY <2>4, MovedOut
  <2>7. CallsOperator(b) \/ top.rule = KidOf(b)
    BY <1>2, <2>3 DEF Asks
  <2>8. HeardKid(b, result, cur)
    <3>1. CASE top.rule = KidOf(b)
      <4>1. Due(top) = Contract(Rule[KidOf(b)])
        BY <3>1 DEF Due
      <4> QED
        BY <2>6, <4>1 DEF HeardKid, Honours
    <3> QED
      BY <2>7, <3>1 DEF HeardKid
  <2>9. control' = "resume"
    BY <1>1, <1>10 DEF n
  <2> QED
    BY <1>1, <1>7, <1>8, <2>2, <2>5, <2>8, <2>9, KeptNow
<1> QED
  BY <1>9, <1>10

(* validateRuleSuccess asks for what the contract promises. *)
LEMMA ValidHonours ==
  ASSUME IInv, control = "leave", ret.Succeeded
  PROVE  Honours(Due(top), top, ret, cursor) <=> ~BreaksContract
<1>1. Due(top) = Contract(topRule)
  BY DEF Due, topRule
<1>2. /\ top.start \in 0 .. Len(input) /\ cursor >= top.start /\ cursor \in Nat
      /\ top.start \in Nat /\ TypeOK
  BY TopStands, TopHas DEF IInv
<1>3. Moved(top, cursor) <=> cursor # top.start \/ PreToken = EOF
  <2>1. PreToken = EOF <=> \A i \in top.start .. Len(input) - 1 : input[i + 1] \in Skips
    BY <1>2, EndIsBehindTrivia DEF PreToken
  <2>2. cursor > top.start <=> cursor # top.start
    BY <1>2
  <2> QED
    BY <2>1, <2>2 DEF Moved
<1> QED
  BY <1>1, <1>3 DEF Honours, BreaksContract

LEMMA KeptSucceeds == ASSUME IInv, Kept, RuleSucceeds PROVE Kept'
<1>1. /\ Leaving /\ Leave(ret, cursor, popFrame(errs, TRUE), created) /\ ret.Succeeded
      /\ ~BreaksContract /\ control = "leave"
  BY DEF RuleSucceeds, Leaving
<1> QED
  BY <1>1, TopStands, ValidHonours, KeptLeave

LEMMA KeptContractPanic == ASSUME IInv, Kept, ContractPanic PROVE Kept'
<1>1. /\ control = "leave" /\ ret.Succeeded /\ BreaksContract /\ control' = "panic"
      /\ UNCHANGED <<parser, input, calls>>
  BY DEF ContractPanic, Leaving
<1>2. ~Honours(Due(top), top, ret, cursor)
  BY <1>1, ValidHonours
<1>3. Overpromises(Due(top))
  BY <1>1, <1>2 DEF Kept, Done
<1>4. calls'[Len(calls')] = top
  BY <1>1 DEF top
<1> QED
  BY <1>1, <1>3, <1>4, KeptNow

LEMMA KeptRollsBack == ASSUME IInv, Kept, RuleRollsBack PROVE Kept'
<1>1. /\ Leaving /\ Leave(ret, top.start, popFrame(errs, FALSE), top.createdAt)
      /\ ~ret.Succeeded /\ control = "leave"
  BY DEF RuleRollsBack, Leaving
<1>2. Honours(Due(top), top, ret, top.start) /\ top.start \in Nat /\ top.start <= top.start
  BY <1>1, TopStands DEF Honours
<1> QED
  BY <1>1, <1>2, KeptLeave

LEMMA KeptPassesUp == ASSUME IInv, Kept, RulePassesFailureUp PROVE Kept'
<1>1. /\ Leaving /\ Leave(ret, cursor, popFrame(errs, TRUE), top.createdAt)
      /\ ~ret.Succeeded /\ control = "leave"
  BY DEF RulePassesFailureUp, Leaving
<1>2. Honours(Due(top), top, ret, cursor)
  BY <1>1 DEF Honours
<1> QED
  BY <1>1, <1>2, TopStands, KeptLeave

LEMMA KeptFails == ASSUME IInv, Kept, RuleFails PROVE Kept'
<1>1. /\ Leaving /\ Leave(ret, top.start, AfterRecovery, top.createdAt)
      /\ ~ret.Succeeded /\ control = "leave"
  BY DEF RuleFails, Recovering, Leaving
<1>2. Honours(Due(top), top, ret, top.start) /\ top.start \in Nat /\ top.start <= top.start
  BY <1>1, TopStands DEF Honours
<1> QED
  BY <1>1, <1>2, KeptLeave

(* The frame of the rule that recovers is on top. *)
LEMMA TopFrame ==
  ASSUME IInv, Kept, Recovering
  PROVE  /\ recovery[Len(recovery)] = RecoveryFrame(topRule)
         /\ Len(recovery) \in DOMAIN recovery /\ Len(recovery) \in Nat
<1> DEFINE n == Len(calls)
<1>1. control = "leave" /\ top.envelope /\ top.mode = "Normal"
  BY DEF Recovering, Leaving, Committed
<1>2. IsSeq(calls) /\ n \in DOMAIN calls /\ top = calls[n]
  BY <1>1, TopHas DEF top
<1>3. /\ IsSeq(recovery) /\ Len(recovery) = Cardinality(NormalIn(calls))
      /\ Framed(calls, recovery)
  BY <1>1, FramesMatch DEF Kept
<1>4. Rank(calls, n) = Len(recovery) /\ Len(recovery) \in Nat /\ Len(recovery) > 0
  BY <1>1, <1>2, <1>3, RankHas
<1>5. recovery[Rank(calls, n)] = RecoveryFrame(Rule[top.rule])
  BY <1>1, <1>2, <1>3 DEF Framed
<1>6. DOMAIN recovery = 1 .. Len(recovery)
  BY <1>3, SeqHas
<1> QED
  BY <1>4, <1>5, <1>6 DEF topRule

(* A barrier that heals has been opened, as a nest, or skips the token it  *)
(* synchronises on, as a sequence.                                         *)
LEMMA KeptRecovers == ASSUME IInv, Kept, RuleRecovers PROVE Kept'
<1> DEFINE at     == performRecovery(cursor)
           token  == Lexeme(at).Token
           stays  == leftForAncestor(token)
           healed == topRule.isRecoveryBarrier /\ IsSyncToken(topRule, token)
           result == [ret EXCEPT !.ConsumeSyncToken = ~stays, !.Succeeded = healed,
                                 !.Node = healed \/ @]
           cur    == IF stays THEN at ELSE at + 1
           count  == IF healed THEN top.createdAt + 1 ELSE top.createdAt
<1>1. /\ Leaving /\ Recovering /\ at < Len(input) /\ Leave(result, cur, AfterRecovery, count)
      /\ control = "leave" /\ ~ret.Succeeded /\ ret.Kind = FailureError
  BY DEF RuleRecovers, Recovering, Leaving, Committed
<1>2. /\ cursor \in Nat /\ top.start \in Nat /\ top.start <= cursor /\ Len(input) \in Nat
      /\ at \in Nat /\ cursor <= at
  <2>1. at \in cursor .. Len(input)
    BY <1>1, TopStands, RecoveryAdvances DEF IInv
  <2>2. cursor \in Nat /\ Len(input) \in Nat /\ top.start \in Nat /\ top.start <= cursor
    BY <1>1, TopStands
  <2> HIDE DEF at
  <2> QED
    BY <2>1, <2>2
<1>3. result.Succeeded = healed /\ (healed => result.Node)
  <2> HIDE DEF stays, healed
  <2>1. ret \in Results /\ healed \in BOOLEAN
    BY RetIsResult DEF healed, IsSyncToken
  <2> QED
    BY <2>1 DEF Results
<1>4. healed => stays \in BOOLEAN
  BY DEF leftForAncestor
<1>5. healed /\ topRule.kind = "Sequence" => ~stays
  <2> SUFFICES ASSUME healed, topRule.kind = "Sequence", stays PROVE FALSE
    OBVIOUS
  <2>1. topRule.noConsumeOnRecoveryTokens = {}
    BY <1>1, TopPromise DEF DerivedContract
  <2>2. token \in topRule.recoveryTokens
    BY <2>1 DEF IsSyncToken
  <2>3. recovery[Len(recovery)] = RecoveryFrame(topRule) /\ Len(recovery) \in DOMAIN recovery
        /\ Len(recovery) \in Nat
    BY <1>1, TopFrame
  <2>4. DOMAIN recovery = 1 .. Len(recovery)
    BY SeqHas DEF IInv, Shape
  <2> DEFINE m == Len(recovery)
  <2> HIDE DEF token
  <2>5. frameContainsToken(recovery[m], token) /\ token \notin recovery[m].noConsume
    BY <2>1, <2>2, <2>3 DEF frameContainsToken, RecoveryFrame
  <2> HIDE DEF m
  <2>6. PICK i \in 1 .. m : /\ token \in recovery[i].noConsume
                            /\ \A j \in i + 1 .. m : ~frameContainsToken(recovery[j], token)
    BY <2>4 DEF leftForAncestor, m
  <2>7. i # m /\ m \in Nat /\ i \in 1 .. m
    BY <2>3, <2>5, <2>6 DEF m
  <2>8. m \in i + 1 .. m
    BY <2>7
  <2> QED
    BY <2>5, <2>6, <2>8
<1>6. healed => topRule.kind \in {"Nest", "Sequence"}
  BY <1>1, TopPromise DEF DerivedContract
<1>7. cur \in Nat /\ top.start <= cur /\ cursor <= cur /\ (~stays => cur > top.start)
  <2> HIDE DEF at, stays
  <2> QED
    BY <1>2
<1>8. healed => Moved(top, cur)
  <2> HIDE DEF cur, stays, healed
  <2>1. CASE topRule.kind = "Nest"
    <3>1. KindOf(top) = "Nest"
      BY <2>1 DEF KindOf, topRule
    <3>2. Moved(top, cursor)
      BY <1>1, <3>1 DEF Kept, Done
    <3> QED
      BY <1>2, <1>7, <3>2, MovedOn
  <2>2. CASE topRule.kind = "Sequence"
    BY <1>5, <1>7, <2>2 DEF Moved
  <2> QED
    BY <1>6, <2>1, <2>2
<1> HIDE DEF healed, cur, count, result
<1>9. Honours(Due(top), top, result, cur)
  BY <1>3, <1>8 DEF Honours
<1> QED
  BY <1>1, <1>7, <1>9, KeptLeave

(* A reference owes what its target has promised. *)
LEMMA KeptLeavesReference == ASSUME IInv, Kept, LeaveReference PROVE Kept'
<1> DEFINE n == Len(calls)
           p == Pop(calls)
<1>1. /\ control = "leave" /\ ~top.envelope /\ calls' = p /\ recovery' = Pop(recovery)
      /\ control' = control /\ ret' = ret /\ cursor' = cursor
      /\ parser' = parser /\ input' = input
  BY DEF LeaveReference
<1>2. /\ IsSeq(calls) /\ calls # <<>> /\ n \in Nat \ {0} /\ DOMAIN calls = 1 .. n
      /\ n \in DOMAIN calls /\ top = calls[n]
  BY <1>1, TopHas DEF top
<1>3. /\ IsSeq(recovery) /\ Len(recovery) = Cardinality(NormalIn(calls))
      /\ Framed(calls, recovery) /\ Linked(calls) /\ Done(top, ret, cursor)
  BY <1>1, FramesMatch DEF Kept
<1>4. n > 1 /\ top.mode = "Normal"
  BY <1>1, <1>2 DEF IInv, Shape
<1>5. Len(p) = n - 1 /\ \A i \in 1 .. n - 1 : p[i] = calls[i]
  BY <1>2, SeqPop
<1> HIDE DEF p
<1>6. Linked(calls')
  BY <1>1, <1>2, <1>3, LinkedPop DEF p
<1>7. Framed(calls', recovery')
  <2>1. Framed(p, IF calls[n].mode = "Normal" THEN Pop(recovery) ELSE recovery)
    BY <1>2, <1>3, FramedPop DEF p
  <2> QED
    BY <1>1, <1>2, <1>4, <2>1
<1> HIDE DEF n
<1> DEFINE b == calls[n - 1]
<1>8. n - 1 \in DOMAIN calls /\ n - 1 \in 1 .. n - 1
  BY <1>2, <1>4
<1>9. calls'[Len(calls')] = b
  BY <1>1, <1>5, <1>8
<1>10. /\ KindOf(b) = "Reference" /\ top.rule = Registry[Rule[b.rule].target].rule
       /\ top.start = b.start
  <2>1. Asks(b, top)
    BY <1>2, <1>3, <1>4 DEF Linked
  <2> QED
    BY <1>1, <2>1 DEF Asks
<1> HIDE DEF b
<1>11. Due(b) = Rule[top.rule]
  BY <1>10 DEF Due, Contract, KindOf
<1>12. Moved(b, cursor) <=> Moved(top, cursor)
  BY <1>10 DEF Moved
<1>13. Done(b, ret, cursor)
  <2>1. CASE topRule.kind = "Reference"
    <3>1. ~Rule[top.rule].MustConsume /\ ~Rule[top.rule].MustReturnNode
      BY <1>1, <2>1, TopHas, ReferencePromisesNothing DEF IInv, topRule
    <3> QED
      BY <1>10, <1>11, <3>1 DEF Done, Honours
  <2>2. CASE topRule.kind # "Reference"
    <3>1. Due(top) = Due(b)
      BY <1>1, <1>11, <2>2, TopPromise DEF topRule
    <3> QED
      BY <1>3, <1>10, <1>12, <3>1 DEF Done, Honours
  <2> QED
    BY <2>1, <2>2
<1> QED
  BY <1>1, <1>6, <1>7, <1>9, <1>13, KeptNow

(* The stacks of a parse that has not begun, or has ended. *)
LEMMA NothingKept ==
  ASSUME NEW f, IsSeq(f)
  PROVE  /\ IsSeq(<<>>) /\ Linked(<<>>) /\ Framed(<<>>, f)
         /\ Cardinality(NormalIn(<<>>)) = 0
<1>1. IsSeq(<<>>) /\ Len(<<>>) = 0 /\ DOMAIN <<>> = {}
  BY NoSeq
<1>2. NormalIn(<<>>) = {}
  BY <1>1 DEF NormalIn
<1> QED
  BY <1>1, <1>2, FS_EmptySet DEF Linked, Framed

LEMMA KeptStarts == ASSUME IInv, Kept, StartParse PROVE Kept'
<1>1. control = "idle" /\ Enter(<<>>, program, "Normal", cursor, errs, created)
  BY DEF StartParse
<1>2. IsSeq(recovery) /\ recovery = <<>>
  BY <1>1 DEF IInv, Shape, Fresh
<1>3. /\ IsSeq(<<>>) /\ Linked(<<>>) /\ Framed(<<>>, recovery)
      /\ Cardinality(NormalIn(<<>>)) = 0
  BY <1>2, NothingKept
<1>4. Len(recovery) = 0
  BY <1>2
<1> QED
  BY <1>1, <1>2, <1>3, <1>4, KeptEnter

LEMMA KeptFinishes == ASSUME IInv, Kept, FinishParse PROVE Kept'
<1>1. /\ control = "finish" /\ control' = "done"
      /\ UNCHANGED <<parser, input, calls, recovery>>
  BY DEF FinishParse
<1>2. Framed(calls', recovery') /\ Linked(calls')
  BY <1>1 DEF Kept
<1> QED
  BY <1>1, <1>2, KeptNow

-----------------------------------------------------------------------------
LEMMA InitKept == Init => Kept
<1> SUFFICES ASSUME Init PROVE Kept
  OBVIOUS
<1>1. calls = <<>> /\ recovery = <<>> /\ control = "idle"
  BY DEF Init
<1>2. Framed(calls, recovery) /\ Linked(calls)
  BY <1>1, NoSeq, NothingKept
<1> QED
  BY <1>1, <1>2 DEF Kept, ContractsAreKept

LEMMA NextKept == IInv /\ Kept /\ [Next]_vars => Kept'
<1> SUFFICES ASSUME IInv, Kept, [Next]_vars PROVE Kept'
  OBVIOUS
<1>1. CASE EngineStep
  BY <1>1, KeptStarts, KeptLeavesReference, KeptSucceeds, KeptContractPanic, KeptRollsBack,
     KeptPassesUp, KeptRecovers, KeptFails, KeptFinishes DEF EngineStep
<1>2. CASE BodyStep
  BY <1>2, KeptBody
<1>3. CASE UNCHANGED vars
  <2>1. /\ parser' = parser /\ input' = input /\ cursor' = cursor /\ calls' = calls
        /\ control' = control /\ ret' = ret /\ recovery' = recovery
    BY <1>3 DEF vars
  <2>2. calls'[Len(calls')] = top
    BY <2>1 DEF top
  <2>3. control' # "panic" => Framed(calls', recovery') /\ Linked(calls')
    BY <2>1 DEF Kept
  <2>4. /\ control' = "begin" => cursor' = top.start /\ top.next = 0
        /\ control' \in {"loop", "resume"} => Progress(top, cursor')
        /\ control' = "resume" => HeardKid(top, ret', cursor')
        /\ control' = "leave" => Done(top, ret', cursor')
    BY <2>1 DEF Kept
  <2>5. control' = "panic" => Overpromises(Due(top))
    BY <2>1 DEF Kept, ContractsAreKept, Due, topRule
  <2> QED
    BY <2>1, <2>2, <2>3, <2>4, <2>5, KeptNow
<1> QED
  BY <1>1, <1>2, <1>3 DEF Next, Stopped

(* A rule that succeeds has consumed and returned what its contract, as    *)
(* its constructor derives it, promises, for every grammar, input and way  *)
(* through recovery: validateRuleSuccess panics only over the contracts    *)
(* that are not derived (parser.go:542-585; factory.go:304-2149).          *)
THEOREM ContractsHold == Spec => []ContractsAreKept
<1>1. Kept => ContractsAreKept
  BY DEF Kept
<1> QED
  BY <1>1, InitKept, NextKept, InvAlways, PTL DEF Spec
=============================================================================
