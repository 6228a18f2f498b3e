------------------------- MODULE TokenStreamProofs --------------------------
(***************************************************************************)
(* The cache of the next visible lexeme is exact, for every input, every   *)
(* set of roles and any nesting of rules and skip sets.                    *)
(***************************************************************************)
EXTENDS TokenStream, SequenceTheorems, WellFoundedInduction, TLAPS

Snapshot == [cursor : 0 .. Len(input), cache : Cache, depth : Nat]

Inv == TypeOK /\ CacheIsExact /\ SnapshotsAreExact

(* A set of numbers that is not empty has a least one. *)
LEMMA LeastNumber ==
  ASSUME NEW T, T \subseteq Nat, T # {}
  PROVE  \E x \in T : \A y \in T : x <= y
<1> DEFINE R == OpToRel(<, Nat)
<1>1. \E x \in T : \A y \in T : ~(<<y, x>> \in R)
  <2> HIDE DEF R
  <2>1. IsWellFoundedOn(R, Nat)
    BY NatLessThanWellFounded DEF R
  <2> QED
    BY <2>1, WFMin, Zenon
<1>2. \A x, y \in Nat : <<y, x>> \in R <=> y < x
  BY DEF OpToRel
<1> HIDE DEF R
<1>3. PICK x \in T : \A y \in T : ~(<<y, x>> \in R)
  BY <1>1
<1>4. \A y \in T : ~(y < x)
  BY <1>2, <1>3
<1> QED
  BY <1>3, <1>4

(* A stack and its top. *)
LEMMA PopLast ==
  ASSUME NEW S, NEW s \in Seq(S), s # <<>>
  PROVE  /\ Len(s) \in Nat /\ Len(s) > 0 /\ Len(s) \in DOMAIN s /\ s[Len(s)] \in S
         /\ DOMAIN s = 1 .. Len(s)
         /\ SubSeq(s, 1, Len(s) - 1) \in Seq(S)
         /\ Len(SubSeq(s, 1, Len(s) - 1)) = Len(s) - 1
         /\ \A i \in 1 .. Len(s) - 1 : SubSeq(s, 1, Len(s) - 1)[i] = s[i]
<1>1. Len(s) \in Nat /\ Len(s) > 0 /\ DOMAIN s = 1 .. Len(s)
  BY EmptySeq
<1>2. \A i \in 1 .. Len(s) - 1 : s[i] \in S
  BY <1>1
<1> QED
  BY <1>1, <1>2, SubSeqProperties

(* The search of resolveNextVisibleRaw ends, at or before the end. *)
LEMMA NextVisibleInside ==
  ASSUME TypeOK, NEW from \in 0 .. Len(input), NEW skipped
  PROVE  /\ NextVisible(from, skipped) \in Nat
         /\ from + NextVisible(from, skipped) \in 0 .. Len(input)
<1> DEFINE T == {k \in Nat : IsVisible(from + k, skipped)}
<1>0. Len(input) \in Nat
  BY DEF TypeOK
<1>1. \A i \in Nat : i >= Len(input) => IsVisible(i, skipped)
  BY <1>0 DEF IsVisible, Raw
<1>2. Len(input) - from \in T
  BY <1>0, <1>1
<1>3. PICK k \in T : \A y \in T : k <= y
  <2> HIDE DEF T
  <2>1. T \subseteq Nat
    BY DEF T
  <2> QED
    BY <1>2, <2>1, LeastNumber
<1>4. k \in Nat /\ k <= Len(input) - from
  BY <1>2, <1>3
<1>5. \A j \in 0 .. k - 1 : ~IsVisible(from + j, skipped)
  BY <1>3, <1>4
<1> DEFINE P(c) == /\ IsVisible(from + c, skipped)
                   /\ \A j \in 0 .. c - 1 : ~IsVisible(from + j, skipped)
<1>6. k \in 0 .. Len(input) /\ P(k)
  BY <1>0, <1>3, <1>4, <1>5
<1>7. NextVisible(from, skipped) = CHOOSE c \in 0 .. Len(input) : P(c)
  BY DEF NextVisible
<1> HIDE DEF P
<1>8. NextVisible(from, skipped) \in 0 .. Len(input) /\ P(NextVisible(from, skipped))
  BY <1>6, <1>7
<1>9. NextVisible(from, skipped) <= k
  BY <1>0, <1>4, <1>6, <1>8 DEF P
<1> QED
  BY <1>0, <1>4, <1>8, <1>9

(* The input does not change, nor does what is visible in it. *)
LEMMA SameInput ==
  ASSUME input' = input, NEW from, NEW skipped
  PROVE  NextVisible(from, skipped)' = NextVisible(from, skipped)
BY DEF NextVisible, IsVisible, Raw

(* The first skip sets are the same after a push, a pop, or nothing. *)
SkipsAgree == \A d \in 0 .. Len(skips) : d <= Len(skips') => SkippedAt(d)' = SkippedAt(d)

(* Exact, as seen from the state before. *)
LEMMA ExactStays ==
  ASSUME input' = input, SkipsAgree, NEW c, NEW from,
         NEW d \in 0 .. Len(skips), d <= Len(skips'), Exact(c, from, d)
  PROVE  Exact(c, from, d)'
<1>1. SkippedAt(d)' = SkippedAt(d)
  BY DEF SkipsAgree
<1>2. \A skipped : NextVisible(from, skipped)' = NextVisible(from, skipped)
  BY SameInput
<1>3. c.cached => c.index = NextVisible(from, SkippedAt(d))
  BY DEF Exact
<1>4. NextVisible(from, SkippedAt(d))' = NextVisible(from, SkippedAt(d))
  BY <1>1, <1>2 DEF NextVisible, IsVisible, Raw
<1> QED
  BY <1>3, <1>4 DEF Exact

(* Rules that stay open keep exact snapshots. *)
LEMMA SnapshotsStay ==
  ASSUME Inv, input' = input, SkipsAgree, Len(skips') \in Nat,
         rules' \in Seq(Snapshot), Len(rules') <= Len(rules),
         \A i \in 1 .. Len(rules') : /\ rules'[i] = rules[i]
                                     /\ rules[i].depth <= Len(skips')
  PROVE  SnapshotsAreExact'
<1>0. /\ rules \in Seq(Snapshot) /\ Len(rules') \in Nat /\ Len(rules) \in Nat
      /\ Len(skips) \in Nat /\ DOMAIN rules = 1 .. Len(rules)
      /\ DOMAIN rules' = 1 .. Len(rules')
  BY DEF Inv, TypeOK, Snapshot
<1>1. ASSUME NEW i \in DOMAIN rules'
      PROVE  /\ rules'[i].depth <= Len(skips')
             /\ Exact(rules[i].cache, rules[i].cursor, rules[i].depth)'
  <2>1. i \in DOMAIN rules /\ rules'[i] = rules[i]
    BY <1>0, <1>1
  <2>2. rules[i].depth \in 0 .. Len(skips) /\ rules[i].depth <= Len(skips')
    <3>1. rules[i] \in Snapshot
      BY <1>0, <2>1
    <3>2. rules[i].depth \in Nat
      BY <3>1 DEF Snapshot
    <3>3. rules[i].depth <= Len(skips)
      BY <2>1 DEF Inv, SnapshotsAreExact
    <3>4. rules[i].depth <= Len(skips')
      BY <1>0, <1>1
    <3> QED
      BY <1>0, <3>2, <3>3, <3>4
  <2>3. Exact(rules[i].cache, rules[i].cursor, rules[i].depth)
    BY <2>1 DEF Inv, SnapshotsAreExact
  <2>4. \A cc, ff : \A dd \in 0 .. Len(skips) :
          dd <= Len(skips') /\ Exact(cc, ff, dd) => Exact(cc, ff, dd)'
    BY ExactStays
  <2> QED
    BY <2>1, <2>2, <2>3, <2>4 DEF Exact
<1>2. \A i, j \in DOMAIN rules' : i <= j => rules'[i].depth <= rules'[j].depth
  BY <1>0 DEF Inv, SnapshotsAreExact
<1> QED
  BY <1>1, <1>2 DEF SnapshotsAreExact

(* What Peek leaves in the cache is exact and inside the input. *)
LEMMA ResolvedExact ==
  ASSUME TypeOK, NEW from \in 0 .. Len(input), NEW c \in Cache,
         Exact(c, from, Len(skips))
  PROVE  /\ ResolvedFrom(from, c) \in Cache
         /\ Exact(ResolvedFrom(from, c), from, Len(skips))
<1>1. NextVisible(from, SkippedAt(Len(skips))) \in Nat
  BY NextVisibleInside
<1> QED
  BY <1>1 DEF ResolvedFrom, Exact, Cache

LEMMA PeekPreserves == Inv /\ Peek => Inv'
<1> SUFFICES ASSUME Inv, Peek PROVE Inv'
  OBVIOUS
<1>1. UNCHANGED <<input, cursor, skips, rules, verdict>> /\ cache' = Resolved
  BY DEF Peek
<1>2. Resolved \in Cache /\ Exact(Resolved, cursor, Len(skips))
  BY ResolvedExact DEF Inv, TypeOK, CacheIsExact, Resolved
<1>3. failing' \in BOOLEAN
  BY DEF Peek, Fails
<1>4. TypeOK'
  BY <1>1, <1>2, <1>3 DEF Inv, TypeOK
<1>5. CacheIsExact'
  BY <1>1, <1>2, SameInput DEF CacheIsExact, Exact, SkippedAt
<1>6. SnapshotsAreExact'
  BY <1>1, SameInput DEF Inv, SnapshotsAreExact, Exact, SkippedAt
<1> QED
  BY <1>4, <1>5, <1>6 DEF Inv

LEMMA PeekRawPreserves == Inv /\ PeekRaw => Inv'
<1> SUFFICES ASSUME Inv, PeekRaw PROVE Inv'
  OBVIOUS
<1>1. UNCHANGED <<input, cursor, cache, skips, rules, verdict>> /\ failing' \in BOOLEAN
  BY DEF PeekRaw, Fails
<1>2. TypeOK'
  BY <1>1 DEF Inv, TypeOK
<1>3. CacheIsExact' /\ SnapshotsAreExact'
  BY <1>1, SameInput DEF Inv, CacheIsExact, SnapshotsAreExact, Exact, SkippedAt
<1> QED
  BY <1>2, <1>3 DEF Inv

(* Consuming at a place inside the input stays inside, and forgets. *)
LEMMA ConsumePreserves ==
  ASSUME Inv, NEW i \in 0 .. Len(input), ConsumeAt(i)
  PROVE  Inv'
<1>1. /\ UNCHANGED <<input, skips, rules, verdict>> /\ cache' = invalidated
      /\ cursor' = consumeRaw(i) /\ failing' \in BOOLEAN
  BY DEF ConsumeAt, Fails
<1>2. consumeRaw(i) \in 0 .. Len(input)
  BY DEF consumeRaw, Raw, Inv, TypeOK
<1>3. TypeOK'
  BY <1>1, <1>2 DEF Inv, TypeOK, invalidated, Cache
<1>4. CacheIsExact'
  BY <1>1 DEF CacheIsExact, Exact, invalidated
<1>5. SnapshotsAreExact'
  BY <1>1, SameInput DEF Inv, SnapshotsAreExact, Exact, SkippedAt
<1> QED
  BY <1>3, <1>4, <1>5 DEF Inv

LEMMA PushSkipRolesPreserves ==
  ASSUME Inv, NEW roles \in SUBSET Roles, PushSkipRoles(roles)
  PROVE  Inv'
<1>1. /\ UNCHANGED <<input, cursor, rules, failing, verdict>> /\ cache' = invalidated
      /\ skips' = Append(skips, roles) /\ skips \in Seq(SUBSET Roles)
      /\ rules \in Seq(Snapshot)
  BY DEF PushSkipRoles, Inv, TypeOK, Snapshot
<1>2. /\ skips' \in Seq(SUBSET Roles) /\ Len(skips') = Len(skips) + 1 /\ Len(skips) \in Nat
      /\ \A d \in 1 .. Len(skips) : skips'[d] = skips[d]
  BY <1>1
<1>3. TypeOK'
  BY <1>1, <1>2 DEF Inv, TypeOK, invalidated, Cache
<1>4. CacheIsExact'
  BY <1>1 DEF CacheIsExact, Exact, invalidated
<1>5. SkipsAgree
  BY <1>2 DEF SkipsAgree, SkippedAt
<1>6. \A i \in 1 .. Len(rules) : rules[i].depth <= Len(skips')
  <2> TAKE i \in 1 .. Len(rules)
  <2>1. rules[i] \in Snapshot /\ i \in DOMAIN rules
    BY <1>1
  <2>2. rules[i].depth \in Nat /\ rules[i].depth <= Len(skips)
    BY <2>1 DEF Inv, SnapshotsAreExact, Snapshot
  <2> QED
    BY <1>2, <2>2
<1>7. SnapshotsAreExact'
  <2>1. Len(skips') \in Nat /\ Len(rules) \in Nat
    BY <1>1, <1>2
  <2> QED
    BY <1>1, <1>5, <1>6, <2>1, SnapshotsStay
<1> QED
  BY <1>3, <1>4, <1>7 DEF Inv

(* The innermost rule bounds what it may pop, and the outer ones began     *)
(* with no more skip sets than it did.                                     *)
LEMMA PopSkipRolesPreserves == Inv /\ PopSkipRoles => Inv'
<1> SUFFICES ASSUME Inv, PopSkipRoles PROVE Inv'
  OBVIOUS
<1>1. /\ UNCHANGED <<input, cursor, rules, failing, verdict>> /\ cache' = invalidated
      /\ skips' = SubSeq(skips, 1, Len(skips) - 1) /\ skips \in Seq(SUBSET Roles)
      /\ rules \in Seq(Snapshot) /\ rules # <<>> /\ Len(skips) > Innermost.depth
  BY DEF PopSkipRoles, Parsing, Inv, TypeOK, Snapshot
<1>2. Len(rules) \in DOMAIN rules /\ Innermost \in Snapshot /\ Innermost.depth \in Nat
  <2>1. Len(rules) \in DOMAIN rules /\ Innermost \in Snapshot
    BY <1>1, PopLast DEF Innermost
  <2> QED
    BY <2>1 DEF Snapshot
<1>3. /\ skips' \in Seq(SUBSET Roles) /\ Len(skips') = Len(skips) - 1
      /\ Len(skips) \in Nat /\ Len(skips') \in Nat
      /\ \A d \in 1 .. Len(skips') : skips'[d] = skips[d]
  <2>1. Len(skips) \in Nat /\ Len(skips) > 0
    BY <1>1, <1>2
  <2>2. skips # <<>>
    BY <2>1
  <2> QED
    BY <1>1, <2>1, <2>2, PopLast
<1>4. TypeOK'
  BY <1>1, <1>3 DEF Inv, TypeOK, invalidated, Cache
<1>5. CacheIsExact'
  BY <1>1 DEF CacheIsExact, Exact, invalidated
<1>6. SkipsAgree
  BY <1>3 DEF SkipsAgree, SkippedAt
<1>7. \A i \in 1 .. Len(rules) : rules[i].depth <= Len(skips')
  <2> TAKE i \in 1 .. Len(rules)
  <2>1. rules[i] \in Snapshot /\ i \in DOMAIN rules /\ i <= Len(rules)
    BY <1>1
  <2>2. rules[i].depth \in Nat
    BY <2>1 DEF Snapshot
  <2>3. rules[i].depth <= Innermost.depth
    BY <1>2, <2>1 DEF Inv, SnapshotsAreExact, Innermost
  <2> QED
    BY <1>1, <1>2, <1>3, <2>2, <2>3
<1>8. SnapshotsAreExact'
  <2>1. Len(rules) \in Nat
    BY <1>1
  <2> QED
    BY <1>1, <1>3, <1>6, <1>7, <2>1, SnapshotsStay
<1> QED
  BY <1>4, <1>5, <1>8 DEF Inv

(* The new snapshot is the innermost one, and the cache is exact now. *)
LEMMA EnterRulePreserves == Inv /\ EnterRule => Inv'
<1> SUFFICES ASSUME Inv, EnterRule PROVE Inv'
  OBVIOUS
<1>1. /\ UNCHANGED <<input, cursor, skips, verdict>> /\ cache' = Resolved
      /\ rules' = Append(rules, ParserSnapshot) /\ failing' \in BOOLEAN
      /\ rules \in Seq(Snapshot) /\ Len(skips) \in Nat
  BY DEF EnterRule, Fails, Inv, TypeOK, Snapshot
<1>2. Resolved \in Cache /\ Exact(Resolved, cursor, Len(skips))
  BY ResolvedExact DEF Inv, TypeOK, CacheIsExact, Resolved
<1>3. /\ ParserSnapshot \in Snapshot /\ ParserSnapshot.depth = Len(skips)
      /\ Exact(ParserSnapshot.cache, ParserSnapshot.cursor, ParserSnapshot.depth)
  BY <1>1 DEF ParserSnapshot, Snapshot, Inv, TypeOK, CacheIsExact
<1>4. /\ rules' \in Seq(Snapshot) /\ Len(rules') = Len(rules) + 1 /\ Len(rules) \in Nat
      /\ DOMAIN rules = 1 .. Len(rules) /\ DOMAIN rules' = 1 .. Len(rules) + 1
      /\ \A i \in DOMAIN rules : rules'[i] = rules[i]
      /\ rules'[Len(rules) + 1] = ParserSnapshot
  BY <1>1, <1>3
<1>5. TypeOK'
  <2>1. Snapshot' = Snapshot
    BY <1>1 DEF Snapshot
  <2> QED
    BY <1>1, <1>2, <1>4, <2>1 DEF Inv, TypeOK, Snapshot
<1>6. CacheIsExact'
  BY <1>1, <1>2, SameInput DEF CacheIsExact, Exact, SkippedAt
<1>7. \A i \in DOMAIN rules' : /\ rules'[i].depth \in Nat /\ rules'[i].depth <= Len(skips)
                               /\ Exact(rules'[i].cache, rules'[i].cursor, rules'[i].depth)
  <2> TAKE i \in DOMAIN rules'
  <2>1. rules'[i].depth \in Nat
    <3>1. rules'[i] \in Snapshot
      BY <1>4
    <3> QED
      BY <3>1 DEF Snapshot
  <2>2. CASE i \in DOMAIN rules
    BY <1>4, <2>1, <2>2 DEF Inv, SnapshotsAreExact
  <2>3. CASE i = Len(rules) + 1
    BY <1>1, <1>3, <1>4, <2>3
  <2> QED
    BY <1>4, <2>2, <2>3
<1>8. \A i, j \in DOMAIN rules' : i <= j => rules'[i].depth <= rules'[j].depth
  <2> SUFFICES ASSUME NEW i \in DOMAIN rules', NEW j \in DOMAIN rules', i <= j
               PROVE  rules'[i].depth <= rules'[j].depth
    OBVIOUS
  <2>1. CASE j \in DOMAIN rules
    BY <1>4, <2>1 DEF Inv, SnapshotsAreExact
  <2>2. CASE j = Len(rules) + 1
    BY <1>3, <1>4, <1>7, <2>2
  <2> QED
    BY <1>4, <2>1, <2>2
<1>9. SnapshotsAreExact'
  BY <1>1, <1>7, <1>8, SameInput DEF SnapshotsAreExact, Exact, SkippedAt
<1> QED
  BY <1>5, <1>6, <1>9 DEF Inv

(* When a rule returns, its snapshot is exact for the present skip sets.   *)
LEMMA ReturningSnapshot ==
  ASSUME Inv, Returning, UNCHANGED <<input, skips>>,
         rules' = SubSeq(rules, 1, Len(rules) - 1)
  PROVE  /\ Innermost.cursor \in 0 .. Len(input) /\ Innermost.cache \in Cache
         /\ Exact(Innermost.cache, Innermost.cursor, Len(skips))
         /\ rules' \in Seq(Snapshot) /\ SnapshotsAreExact'
<1>1. rules \in Seq(Snapshot) /\ rules # <<>> /\ Len(skips) \in Nat
  BY DEF Inv, TypeOK, Snapshot, Returning, Parsing
<1>2. /\ Len(rules) \in DOMAIN rules /\ Innermost \in Snapshot
      /\ DOMAIN rules = 1 .. Len(rules) /\ Len(rules) \in Nat /\ Len(rules) > 0
      /\ rules' \in Seq(Snapshot) /\ Len(rules') = Len(rules) - 1
      /\ \A i \in 1 .. Len(rules) - 1 : rules'[i] = rules[i]
  BY <1>1, PopLast DEF Innermost
<1>3. Innermost.cursor \in 0 .. Len(input) /\ Innermost.cache \in Cache
  BY <1>2 DEF Snapshot
<1>4. Exact(Innermost.cache, Innermost.cursor, Len(skips))
  BY <1>2 DEF Inv, SnapshotsAreExact, Innermost, Returning
<1>5. SkipsAgree
  BY DEF SkipsAgree, SkippedAt
<1>6. \A i \in 1 .. Len(rules') : rules'[i] = rules[i] /\ rules[i].depth <= Len(skips')
  BY <1>2 DEF Inv, SnapshotsAreExact
<1>7. SnapshotsAreExact'
  BY <1>1, <1>2, <1>5, <1>6, SnapshotsStay
<1> QED
  BY <1>2, <1>3, <1>4, <1>7

LEMMA RuleSucceedsPreserves == Inv /\ RuleSucceeds => Inv'
<1> SUFFICES ASSUME Inv, RuleSucceeds PROVE Inv'
  OBVIOUS
<1>1. /\ UNCHANGED <<input, cursor, skips>> /\ (cache' = cache \/ cache' = Resolved)
      /\ failing' \in BOOLEAN /\ verdict' \in {"parsing", "accepted", "rejected"}
  BY DEF RuleSucceeds, Fails, Inv, TypeOK
<1>2. rules' \in Seq(Snapshot) /\ SnapshotsAreExact'
  BY <1>1, ReturningSnapshot DEF RuleSucceeds
<1>3. cache' \in Cache /\ Exact(cache', cursor, Len(skips))
  <2>1. Resolved \in Cache /\ Exact(Resolved, cursor, Len(skips))
    BY ResolvedExact DEF Inv, TypeOK, CacheIsExact, Resolved
  <2> QED
    BY <1>1, <2>1 DEF Inv, TypeOK, CacheIsExact
<1>4. TypeOK'
  BY <1>1, <1>2, <1>3 DEF Inv, TypeOK, Snapshot
<1>5. CacheIsExact'
  BY <1>1, <1>3, SameInput DEF CacheIsExact, Exact, SkippedAt
<1> QED
  BY <1>2, <1>4, <1>5 DEF Inv

LEMMA RuleFailsAheadPreserves == Inv /\ RuleFailsAhead => Inv'
<1> SUFFICES ASSUME Inv, RuleFailsAhead PROVE Inv'
  OBVIOUS
<1>1. /\ UNCHANGED <<input, cursor, cache, skips, failing>>
      /\ verdict' \in {"parsing", "accepted", "rejected"}
  BY DEF RuleFailsAhead, Inv, TypeOK
<1>2. rules' \in Seq(Snapshot) /\ SnapshotsAreExact'
  BY <1>1, ReturningSnapshot DEF RuleFailsAhead
<1>3. TypeOK'
  BY <1>1, <1>2 DEF Inv, TypeOK, Snapshot
<1>4. CacheIsExact'
  BY <1>1, SameInput DEF Inv, CacheIsExact, Exact, SkippedAt
<1> QED
  BY <1>2, <1>3, <1>4 DEF Inv

(* The cache that comes back is the one of the restored position. *)
LEMMA RuleFailsPreserves == Inv /\ RuleFails => Inv'
<1> SUFFICES ASSUME Inv, RuleFails PROVE Inv'
  OBVIOUS
<1>1. /\ UNCHANGED <<input, skips, failing>>
      /\ cursor' = Innermost.cursor /\ cache' = Innermost.cache
      /\ verdict' \in {"parsing", "accepted", "rejected"}
  BY DEF RuleFails, restore, Inv, TypeOK
<1>2. /\ Innermost.cursor \in 0 .. Len(input) /\ Innermost.cache \in Cache
      /\ Exact(Innermost.cache, Innermost.cursor, Len(skips))
      /\ rules' \in Seq(Snapshot) /\ SnapshotsAreExact'
  BY <1>1, ReturningSnapshot DEF RuleFails
<1>3. TypeOK'
  BY <1>1, <1>2 DEF Inv, TypeOK, Snapshot
<1>4. CacheIsExact'
  BY <1>1, <1>2, SameInput DEF CacheIsExact, Exact, SkippedAt
<1> QED
  BY <1>2, <1>3, <1>4 DEF Inv

LEMMA ProgramMismatchesPreserves == Inv /\ ProgramMismatches => Inv'
<1> SUFFICES ASSUME Inv, ProgramMismatches PROVE Inv'
  OBVIOUS
<1> DEFINE found == ResolvedFrom(Innermost.cursor, Innermost.cache)
<1>0. rules \in Seq(Snapshot) /\ rules # <<>> /\ Len(rules) = 1
  BY DEF ProgramMismatches, Returning, Parsing, Inv, TypeOK, Snapshot
<1>1. /\ UNCHANGED <<input, skips>> /\ rules' = <<>> /\ verdict' = "rejected"
      /\ cursor' = Innermost.cursor /\ cache' = found /\ failing' \in BOOLEAN
  <2>1. Innermost \in Snapshot
    BY <1>0, PopLast DEF Innermost
  <2> HIDE DEF found
  <2>2. /\ [Innermost EXCEPT !.cache = found].cursor = Innermost.cursor
        /\ [Innermost EXCEPT !.cache = found].cache = found
    BY <2>1 DEF Snapshot
  <2> QED
    BY <2>2 DEF ProgramMismatches, restore, Fails, found
<1>2. rules' = SubSeq(rules, 1, Len(rules) - 1)
  BY <1>0, <1>1, SubSeqEmpty
<1>3. /\ Innermost.cursor \in 0 .. Len(input) /\ Innermost.cache \in Cache
      /\ Exact(Innermost.cache, Innermost.cursor, Len(skips))
      /\ rules' \in Seq(Snapshot) /\ SnapshotsAreExact'
  BY <1>1, <1>2, ReturningSnapshot DEF ProgramMismatches
<1>4. found \in Cache /\ Exact(found, Innermost.cursor, Len(skips))
  BY <1>3, ResolvedExact DEF Inv
<1> HIDE DEF found
<1>5. TypeOK'
  BY <1>1, <1>3, <1>4 DEF Inv, TypeOK, Snapshot
<1>6. CacheIsExact'
  BY <1>1, <1>4, SameInput DEF CacheIsExact, Exact, SkippedAt
<1> QED
  BY <1>3, <1>5, <1>6 DEF Inv

LEMMA InitInv == Init => Inv
<1> SUFFICES ASSUME Init PROVE Inv
  OBVIOUS
<1>1. \A n \in Int : Texts(n) \subseteq Seq(Roles)
  <2> SUFFICES ASSUME NEW n \in Int, NEW s \in Texts(n) PROVE s \in Seq(Roles)
    OBVIOUS
  <2>1. PICK k \in 0 .. n : s \in [1 .. k -> Roles]
    BY DEF Texts
  <2> QED
    BY <2>1
<1>2. input \in Seq(Roles \cup {Bad})
  <2>1. CASE input \in Texts(MaxInput)
    <3>1. input \in Seq(Roles)
      BY <1>1, <2>1, StreamAssumption
    <3> QED
      BY <3>1
  <2>2. CASE input \in {Append(s, Bad) : s \in Texts(MaxInput - 1)}
    <3>1. PICK s \in Texts(MaxInput - 1) : input = Append(s, Bad)
      BY <2>2
    <3>2. s \in Seq(Roles)
      BY <1>1, <3>1, StreamAssumption
    <3> QED
      BY <3>1, <3>2
  <2> QED
    BY <2>1, <2>2 DEF Init
<1>3. skips \in Seq(SUBSET Roles)
  <2>1. CASE skips = <<>>
    BY <2>1
  <2>2. CASE \E defaults \in SUBSET Roles : skips = <<defaults>>
    BY <2>2
  <2> QED
    BY <2>1, <2>2 DEF Init
<1>4. TypeOK
  <2>1. Len(input) \in Nat
    BY <1>2
  <2>2. /\ cursor \in 0 .. Len(input) /\ cache \in Cache /\ rules = <<>>
        /\ failing \in BOOLEAN /\ verdict \in {"parsing", "accepted", "rejected"}
    <3>1. cursor = 0 /\ cache = invalidated /\ rules = <<>>
      BY DEF Init
    <3>2. failing \in BOOLEAN /\ verdict \in {"parsing", "accepted", "rejected"}
      BY Zenon DEF Init
    <3> QED
      BY <2>1, <3>1, <3>2 DEF invalidated, Cache
  <2> QED
    BY <1>2, <1>3, <2>2 DEF TypeOK
<1>5. CacheIsExact /\ SnapshotsAreExact
  BY DEF Init, CacheIsExact, SnapshotsAreExact, Exact, invalidated
<1> QED
  BY <1>4, <1>5 DEF Inv

LEMMA NextInv == Inv /\ [Next]_vars => Inv'
<1> SUFFICES ASSUME Inv, [Next]_vars PROVE Inv'
  OBVIOUS
<1>1. CASE Peek
  BY <1>1, PeekPreserves
<1>2. CASE PeekRaw
  BY <1>2, PeekRawPreserves
<1>3. CASE Consume
  <2>1. skipForward \in 0 .. Len(input)
    BY NextVisibleInside DEF skipForward, resolveNextVisibleRaw, Inv, TypeOK
  <2> QED
    BY <1>3, <2>1, ConsumePreserves DEF Consume
<1>4. CASE ConsumeRaw
  BY <1>4, ConsumePreserves DEF ConsumeRaw, Inv, TypeOK
<1>5. CASE PopSkipRoles
  BY <1>5, PopSkipRolesPreserves
<1>6. CASE EnterRule
  BY <1>6, EnterRulePreserves
<1>7. CASE RuleSucceeds
  BY <1>7, RuleSucceedsPreserves
<1>8. CASE RuleFails
  BY <1>8, RuleFailsPreserves
<1>9. CASE RuleFailsAhead
  BY <1>9, RuleFailsAheadPreserves
<1>10. CASE ProgramMismatches
  BY <1>10, ProgramMismatchesPreserves
<1>11. CASE \E roles \in SUBSET Roles : PushSkipRoles(roles)
  BY <1>11, PushSkipRolesPreserves
<1>12. CASE Stopped \/ UNCHANGED vars
  <2>1. UNCHANGED vars
    BY <1>12 DEF Stopped
  <2>2. TypeOK'
    BY <2>1 DEF Inv, TypeOK, vars
  <2>3. CacheIsExact' /\ SnapshotsAreExact'
    BY <2>1, SameInput DEF vars, Inv, CacheIsExact, SnapshotsAreExact, Exact, SkippedAt
  <2> QED
    BY <2>2, <2>3 DEF Inv
<1> QED
  BY <1>1, <1>2, <1>3, <1>4, <1>5, <1>6, <1>7, <1>8, <1>9, <1>10, <1>11, <1>12
     DEF Next

(* The stream stays inside its input: no consumption and no restored       *)
(* snapshot leads behind the end (rule_context.go:619-632, 811-821).       *)
THEOREM TypeCorrect == Spec => []TypeOK
<1>1. Inv => TypeOK
  BY DEF Inv
<1> QED
  BY <1>1, InitInv, NextInv, PTL DEF Spec

(* Peek may trust its cache: whatever rules consume, push, pop, call and   *)
(* undo, a cached index is where a fresh search would end                  *)
(* (rule_context.go:27-98).                                                *)
THEOREM CacheExact == Spec => []CacheIsExact
<1>1. Inv => CacheIsExact
  BY DEF Inv
<1> QED
  BY <1>1, InitInv, NextInv, PTL DEF Spec

(* A snapshot need not carry the skip stack: the sets that it was taken    *)
(* under are there when it is used (rule_context.go:811-821).              *)
THEOREM SnapshotsExact == Spec => []SnapshotsAreExact
<1>1. Inv => SnapshotsAreExact
  BY DEF Inv
<1> QED
  BY <1>1, InitInv, NextInv, PTL DEF Spec
=============================================================================
