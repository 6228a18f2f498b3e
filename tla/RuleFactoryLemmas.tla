------------------------- MODULE RuleFactoryLemmas -------------------------
(***************************************************************************)
(* The inductive invariant of the engine, and what the bodies of rules do  *)
(* to it: whatever a body is, each of its steps calls a rule, goes on,     *)
(* returns, or hands over to a reference's target, and reports diagnostics *)
(* only into the frame on top (BodyStepMoves).                             *)
(***************************************************************************)
EXTENDS RuleFactory, FiniteSetTheorems, SequenceTheorems, WellFoundedInduction, TLAPS

-----------------------------------------------------------------------------
(* Sequences of whatever elements. *)

IsSeq(s) == s \in Seq({s[i] : i \in DOMAIN s})

LEMMA SeqHas == ASSUME NEW s, IsSeq(s)
                PROVE  /\ Len(s) \in Nat /\ DOMAIN s = 1 .. Len(s)
                       /\ s = <<>> <=> Len(s) = 0
  BY DEF IsSeq

LEMMA SeqOf == ASSUME NEW S, NEW s \in Seq(S) PROVE IsSeq(s)
<1> DEFINE T == {s[i] : i \in DOMAIN s}
<1>1. Len(s) \in Nat /\ DOMAIN s = 1 .. Len(s)
  OBVIOUS
<1>2. \A i \in 1 .. Len(s) : s[i] \in T
  BY <1>1
<1>3. s = [i \in 1 .. Len(s) |-> s[i]]
  OBVIOUS
<1> HIDE DEF T
<1>4. s \in Seq(T)
  BY <1>1, <1>2, <1>3, IsASeq
<1> QED
  BY <1>4 DEF IsSeq, T

LEMMA SeqAppend ==
  ASSUME NEW s, NEW e, IsSeq(s)
  PROVE  /\ IsSeq(Append(s, e)) /\ Append(s, e) # <<>>
         /\ Len(Append(s, e)) = Len(s) + 1
         /\ DOMAIN Append(s, e) = 1 .. Len(s) + 1
         /\ Append(s, e)[Len(s) + 1] = e
         /\ \A i \in 1 .. Len(s) : Append(s, e)[i] = s[i]
         /\ Pop(Append(s, e)) = s
<1> DEFINE T == {s[i] : i \in DOMAIN s} \cup {e}
           t == Append(s, e)
<1>1. s \in Seq(T)
  <2> DEFINE U == {s[i] : i \in DOMAIN s}
  <2>1. s \in Seq(U) /\ U \subseteq T
    BY DEF IsSeq
  <2> HIDE DEF U, T
  <2> QED
    BY <2>1, SeqMonotonic
<1>2. e \in T
  OBVIOUS
<1> HIDE DEF T
<1>3. t \in Seq(T) /\ Len(t) = Len(s) + 1 /\ Len(s) \in Nat /\ t # <<>>
  BY <1>1, <1>2
<1>4. t[Len(s) + 1] = e /\ \A i \in 1 .. Len(s) : t[i] = s[i]
  BY <1>1, <1>2
<1>5. IsSeq(t)
  <2> HIDE DEF t
  <2> QED
    BY <1>3, SeqOf
<1>5a. DOMAIN t = 1 .. Len(s) + 1
  BY <1>3
<1>6. Pop(t) = s
  <2>1. Pop(t) = SubSeq(t, 1, Len(s))
    BY <1>3 DEF Pop
  <2>2. s = [i \in 1 .. Len(s) |-> s[i]]
    BY <1>1
  <2> QED
    BY <1>1, <1>2, <2>1, AppendProperties
<1> QED
  BY <1>3, <1>4, <1>5, <1>5a, <1>6

LEMMA SeqPrefix ==
  ASSUME NEW s, IsSeq(s), NEW n \in 0 .. Len(s)
  PROVE  /\ IsSeq(SubSeq(s, 1, n)) /\ Len(SubSeq(s, 1, n)) = n
         /\ \A i \in 1 .. n : SubSeq(s, 1, n)[i] = s[i]
<1> DEFINE T == {s[i] : i \in DOMAIN s}
<1>1. s \in Seq(T)
  BY DEF IsSeq
<1> HIDE DEF T
<1>2. Len(s) \in Nat
  BY <1>1
<1>3. SubSeq(s, 1, n) \in Seq(T) /\ Len(SubSeq(s, 1, n)) = n
  BY <1>1, <1>2
<1>4. \A i \in 1 .. n : SubSeq(s, 1, n)[i] = s[i]
  BY <1>1, <1>2
<1> QED
  BY <1>3, <1>4, SeqOf

LEMMA SeqPop ==
  ASSUME NEW s, IsSeq(s), s # <<>>
  PROVE  /\ IsSeq(Pop(s)) /\ Len(Pop(s)) = Len(s) - 1 /\ Len(s) \in Nat \ {0}
         /\ DOMAIN Pop(s) = 1 .. Len(s) - 1
         /\ \A i \in 1 .. Len(s) - 1 : Pop(s)[i] = s[i]
<1>1. Len(s) \in Nat \ {0}
  BY SeqHas
<1>2. Len(s) - 1 \in 0 .. Len(s)
  BY <1>1
<1> QED
  BY <1>1, <1>2, SeqPrefix, SeqHas DEF Pop

LEMMA SeqSame ==
  ASSUME NEW s, NEW t, IsSeq(s), IsSeq(t), Len(s) = Len(t),
         \A i \in 1 .. Len(s) : s[i] = t[i]
  PROVE  s = t
<1>1. s = [i \in 1 .. Len(s) |-> s[i]] /\ t = [i \in 1 .. Len(t) |-> t[i]]
  BY DEF IsSeq
<1> QED
  BY <1>1

(* A set of naturals that is not empty has a least element. *)
LEMMA LeastOf ==
  ASSUME NEW T \in SUBSET Nat, T # {}
  PROVE  \E i \in T : \A j \in T : i <= j
<1> DEFINE R == OpToRel(<, Nat)
<1>1. \E x \in T : \A y \in T : ~(<<y, x>> \in R)
  <2> HIDE DEF R
  <2>1. IsWellFoundedOn(R, Nat)
    BY NatLessThanWellFounded DEF R
  <2> QED
    BY <2>1, WFMin, Zenon
<1>2. \A x, y \in Nat : <<y, x>> \in R <=> y < x
  BY DEF OpToRel
<1> HIDE DEF R
<1>3. PICK x \in T : \A y \in T : ~(<<y, x>> \in R)
  BY <1>1
<1>4. ASSUME NEW y \in T PROVE x <= y
  <2>1. x \in Nat /\ y \in Nat
    BY <1>3
  <2>2. ~(y < x)
    BY <1>2, <1>3, <2>1
  <2> QED
    BY <2>1, <2>2
<1> QED
  BY <1>3, <1>4

-----------------------------------------------------------------------------
(* The token stream. *)

LEMMA InputHas == ASSUME TypeOK PROVE Len(input) \in Nat /\ cursor \in 0 .. Len(input)
  BY DEF TypeOK

LEMMA StartIsNat == ASSUME NEW i \in Nat PROVE Lexeme(i).Start \in Nat
<1>1. Stride * i \in Nat
  BY EngineAssumption
<1> QED
  BY <1>1 DEF Lexeme

LEMMA PeekRawIsNat == ASSUME NEW cur \in Nat PROVE PeekRaw(cur).Start \in Nat
  BY StartIsNat DEF PeekRaw

LEMMA ConsumeAdvances ==
  ASSUME TypeOK, NEW cur \in 0 .. Len(input)
  PROVE  Consume(cur) \in cur .. Len(input)
<1>1. Len(input) \in Nat
  BY InputHas
<1>2. VisibleIndex(cur, 0) \in cur .. Len(input)
  <2> DEFINE at == {i \in VisibleFrom(cur) : Cardinality({j \in VisibleFrom(cur) : j < i}) = 0}
  <2>1. at \subseteq cur .. Len(input) - 1
    BY DEF VisibleFrom
  <2>2. VisibleIndex(cur, 0) = IF at = {} THEN Len(input) ELSE CHOOSE i \in at : TRUE
    BY DEF VisibleIndex
  <2>3. Len(input) \in cur .. Len(input)
    BY <1>1
  <2>4. cur .. Len(input) - 1 \subseteq cur .. Len(input)
    BY <1>1
  <2> HIDE DEF at
  <2>5. CASE at = {}
    BY <2>2, <2>3, <2>5
  <2>6. CASE at # {}
    <3>1. (CHOOSE i \in at : TRUE) \in at
      BY <2>6
    <3> QED
      BY <2>1, <2>2, <2>4, <2>6, <3>1
  <2> QED
    BY <2>5, <2>6
<1> QED
  BY <1>1, <1>2 DEF Consume

LEMMA DiscardAdvances ==
  ASSUME TypeOK, NEW from \in 0 .. Len(input), NEW consumeOnly \in BOOLEAN
  PROVE  DiscardTo(from, consumeOnly) \in from .. Len(input)
<1> DEFINE isSync(token) == IF consumeOnly THEN IsActiveConsumeRecoveryToken(token)
                            ELSE IsActiveRecoveryToken(token)
           landings == {i \in from .. Len(input) - 1 : isSync(Lexeme(i).Token)} \cup {Len(input)}
<1>1. Len(input) \in Nat
  BY InputHas
<1>2. landings \subseteq from .. Len(input) /\ landings \subseteq Nat /\ landings # {}
  BY <1>1
<1>3. DiscardTo(from, consumeOnly) = CHOOSE i \in landings : \A j \in landings : i <= j
  BY DEF DiscardTo
<1> HIDE DEF landings
<1>4. \E i \in landings : \A j \in landings : i <= j
  BY <1>2, LeastOf
<1> QED
  BY <1>2, <1>3, <1>4

LEMMA RecoveryAdvances ==
  ASSUME TypeOK, NEW from \in 0 .. Len(input)
  PROVE  performRecovery(from) \in from .. Len(input)
<1>1. Len(input) \in Nat
  BY InputHas
<1>2. DiscardTo(from, TRUE) \in from .. Len(input)
  BY DiscardAdvances
<1> DEFINE first == DiscardTo(from, TRUE)
<1>4. performRecovery(from) = IF first < Len(input) THEN first ELSE DiscardTo(first, FALSE)
  BY DEF performRecovery
<1>5. first \in from .. Len(input)
  BY <1>2
<1> HIDE DEF first
<1>2a. from \in Nat /\ from <= Len(input)
  BY <1>1
<1>3. first \in 0 .. Len(input) /\ from <= first
  BY <1>1, <1>2a, <1>5
<1>6. DiscardTo(first, FALSE) \in first .. Len(input)
  BY <1>3, DiscardAdvances
<1> DEFINE second == DiscardTo(first, FALSE)
<1> HIDE DEF second
<1>7. second \in first .. Len(input) /\ performRecovery(from) \in {first, second}
  BY <1>4, <1>6 DEF second
<1>8. second \in from .. Len(input) /\ first \in from .. Len(input)
  BY <1>1, <1>2a, <1>3, <1>7
<1> QED
  BY <1>7, <1>8

-----------------------------------------------------------------------------
(* Diagnostic stores. *)

IsFrame(f) == /\ DOMAIN f = {"best", "hasBest", "commitStartIndex"}
              /\ f = [x \in DOMAIN f |-> f[x]]

StoreFields == {"Errors", "stack", "flight", "delimiterBoundaries",
                "entryRuleScopeDepth", "entryRuleFlightBaseline"}

HasFields(s) == DOMAIN s = StoreFields /\ s = [x \in StoreFields |-> s[x]]

IsStore(s) ==
  /\ HasFields(s)
  /\ IsSeq(s.stack) /\ IsSeq(s.flight) /\ IsSeq(s.delimiterBoundaries)
  /\ \A k \in 1 .. Len(s.stack) : IsFrame(s.stack[k])
  /\ s.entryRuleScopeDepth \in Nat

(* t is s but for the best error of the innermost frame. *)
Remarked(s, t) ==
  /\ IsStore(t)
  /\ Len(t.stack) = Len(s.stack)
  /\ \A k \in 1 .. Len(s.stack) : t.stack[k].commitStartIndex = s.stack[k].commitStartIndex
  /\ \A k \in 1 .. Len(s.stack) - 1 : t.stack[k] = s.stack[k]
  /\ t.flight = s.flight /\ t.Errors = s.Errors
  /\ t.delimiterBoundaries = s.delimiterBoundaries
  /\ t.entryRuleScopeDepth = s.entryRuleScopeDepth
  /\ t.entryRuleFlightBaseline = s.entryRuleFlightBaseline

(* s is a store in which what a rule found in b, when it began, is intact: *)
(* its frame lies on b's frames and begins at the end of b's flight.       *)
Keeps(s, b) ==
  /\ Len(s.stack) > Len(b.stack)
  /\ \A k \in 1 .. Len(b.stack) : s.stack[k] = b.stack[k]
  /\ s.stack[Len(b.stack) + 1].commitStartIndex = Len(b.flight)
  /\ Len(s.flight) >= Len(b.flight)
  /\ \A k \in 1 .. Len(b.flight) : s.flight[k] = b.flight[k]
  /\ s.Errors = b.Errors

LEMMA StoreHas ==
  ASSUME NEW s, IsStore(s)
  PROVE  /\ Len(s.stack) \in Nat /\ DOMAIN s.stack = 1 .. Len(s.stack)
         /\ s.stack = <<>> <=> Len(s.stack) = 0
         /\ Len(s.flight) \in Nat
         /\ s.flight = <<>> <=> Len(s.flight) = 0
         /\ Len(s.delimiterBoundaries) \in Nat
         /\ s.delimiterBoundaries = <<>> <=> Len(s.delimiterBoundaries) = 0
  BY SeqHas DEF IsStore

LEMMA RemarkedSelf == ASSUME NEW s, IsStore(s) PROVE Remarked(s, s)
  BY DEF Remarked

LEMMA BestInFrame ==
  ASSUME NEW g, NEW e, IsFrame(g)
  PROVE  LET f == [g EXCEPT !.best = e, !.hasBest = TRUE]
         IN  IsFrame(f) /\ f.commitStartIndex = g.commitStartIndex
  BY DEF IsFrame

LEMMA SetBestRemarks ==
  ASSUME NEW s, NEW e, IsStore(s), s.stack # <<>>
  PROVE  Remarked(s, setBest(s, e))
<1> DEFINE n == Len(s.stack)
           f == [s.stack[n] EXCEPT !.best = e, !.hasBest = TRUE]
           stack == [s.stack EXCEPT ![n] = f]
           t == [s EXCEPT !.stack = stack]
<1>1. n \in Nat \ {0} /\ DOMAIN s.stack = 1 .. n
  BY StoreHas
<1>2. IsFrame(s.stack[n])
  BY <1>1 DEF IsStore
<1>3. IsFrame(f) /\ f.commitStartIndex = s.stack[n].commitStartIndex
  BY <1>2, BestInFrame
<1>4. /\ DOMAIN stack = 1 .. n /\ stack[n] = f
      /\ \A k \in 1 .. n : k # n => stack[k] = s.stack[k]
  BY <1>1
<1>5. Len(stack) = n /\ stack = [k \in 1 .. n |-> stack[k]]
  BY <1>1, <1>4
<1>6. IsSeq(stack)
  <2> DEFINE T == {stack[k] : k \in DOMAIN stack}
  <2>1. \A k \in 1 .. n : stack[k] \in T
    BY <1>4
  <2> HIDE DEF T, stack, n
  <2>2. stack \in Seq(T)
    BY <1>1, <1>5, <2>1, IsASeq
  <2> QED
    BY <2>2, SeqOf
<1>7. setBest(s, e) = t
  BY DEF setBest, IsStore, HasFields, StoreFields
<1> HIDE DEF f, stack
<1>8. /\ t.stack = stack /\ t.flight = s.flight /\ t.Errors = s.Errors
      /\ t.delimiterBoundaries = s.delimiterBoundaries
      /\ t.entryRuleScopeDepth = s.entryRuleScopeDepth
      /\ t.entryRuleFlightBaseline = s.entryRuleFlightBaseline
      /\ HasFields(t)
  BY DEF IsStore, HasFields, StoreFields
<1> HIDE DEF t
<1>9. \A k \in 1 .. n : IsFrame(stack[k])
  BY <1>3, <1>4 DEF IsStore
<1>10. IsStore(t)
  BY <1>5, <1>6, <1>8, <1>9 DEF IsStore
<1>11. /\ \A k \in 1 .. n : stack[k].commitStartIndex = s.stack[k].commitStartIndex
       /\ \A k \in 1 .. n - 1 : stack[k] = s.stack[k]
  BY <1>1, <1>3, <1>4
<1> QED
  BY <1>5, <1>7, <1>8, <1>10, <1>11 DEF Remarked

LEMMA ReportRemarks ==
  ASSUME NEW s, NEW e, IsStore(s), s.stack # <<>>
  PROVE  Remarked(s, report(s, e))
  BY RemarkedSelf, SetBestRemarks DEF report

LEMMA ReplaceRemarks ==
  ASSUME NEW s, NEW e, IsStore(s), s.stack # <<>>
  PROVE  Remarked(s, replaceBest(s, e))
  BY SetBestRemarks DEF replaceBest

LEMMA PushFrame ==
  ASSUME NEW s, IsStore(s)
  PROVE  LET t == pushFrame(s)
         IN  /\ IsStore(t) /\ Len(t.stack) = Len(s.stack) + 1
             /\ \A k \in 1 .. Len(s.stack) : t.stack[k] = s.stack[k]
             /\ t.stack[Len(s.stack) + 1].commitStartIndex = Len(s.flight)
             /\ t.flight = s.flight /\ t.Errors = s.Errors
             /\ t.delimiterBoundaries = s.delimiterBoundaries
             /\ t.entryRuleScopeDepth = s.entryRuleScopeDepth
             /\ t.entryRuleFlightBaseline = s.entryRuleFlightBaseline
<1> DEFINE f == [best |-> ZeroError, hasBest |-> FALSE, commitStartIndex |-> Len(s.flight)]
           stack == Append(s.stack, f)
           t == [s EXCEPT !.stack = stack]
<1>1. IsFrame(f) /\ f.commitStartIndex = Len(s.flight)
  BY DEF IsFrame
<1>2. pushFrame(s) = t
  BY DEF pushFrame, IsStore, HasFields, StoreFields
<1> HIDE DEF f
<1>3. /\ IsSeq(stack) /\ Len(stack) = Len(s.stack) + 1
      /\ stack[Len(s.stack) + 1] = f
      /\ \A k \in 1 .. Len(s.stack) : stack[k] = s.stack[k]
  BY SeqAppend DEF IsStore
<1> HIDE DEF stack
<1>4. /\ t.stack = stack /\ t.flight = s.flight /\ t.Errors = s.Errors
      /\ t.delimiterBoundaries = s.delimiterBoundaries
      /\ t.entryRuleScopeDepth = s.entryRuleScopeDepth
      /\ t.entryRuleFlightBaseline = s.entryRuleFlightBaseline
      /\ HasFields(t)
  BY DEF IsStore, HasFields, StoreFields
<1> HIDE DEF t
<1>5. \A k \in 1 .. Len(stack) : IsFrame(stack[k])
  BY <1>1, <1>3, StoreHas DEF IsStore
<1>6. IsStore(t)
  BY <1>3, <1>4, <1>5 DEF IsStore
<1> QED
  BY <1>1, <1>2, <1>3, <1>4, <1>6

(* A scope, or a delimiter boundary, touches nothing else. *)
LEMMA BeginScope ==
  ASSUME NEW s, IsStore(s), s.entryRuleFlightBaseline = 0,
         s.entryRuleScopeDepth = 0 => s.flight = <<>>
  PROVE  LET t == BeginEntryRuleScope(s)
         IN  /\ IsStore(t) /\ t.stack = s.stack /\ t.flight = s.flight /\ t.Errors = s.Errors
             /\ t.delimiterBoundaries = s.delimiterBoundaries
             /\ t.entryRuleScopeDepth = s.entryRuleScopeDepth + 1
             /\ t.entryRuleFlightBaseline = 0
<1> DEFINE t == BeginEntryRuleScope(s)
<1>1. /\ t.stack = s.stack /\ t.flight = s.flight /\ t.Errors = s.Errors
      /\ t.delimiterBoundaries = s.delimiterBoundaries
      /\ t.entryRuleScopeDepth = s.entryRuleScopeDepth + 1
      /\ t.entryRuleFlightBaseline = IF s.entryRuleScopeDepth = 0 THEN Len(s.flight)
                                     ELSE s.entryRuleFlightBaseline
      /\ HasFields(t)
  BY DEF IsStore, HasFields, StoreFields, BeginEntryRuleScope
<1> HIDE DEF t
<1>2. t.entryRuleFlightBaseline = 0
  BY <1>1, StoreHas
<1>3. IsStore(t)
  BY <1>1 DEF IsStore
<1> QED
  BY <1>1, <1>2, <1>3 DEF t

LEMMA EndScope ==
  ASSUME NEW s, IsStore(s), s.entryRuleScopeDepth > 0
  PROVE  LET t == EndEntryRuleScope(s)
         IN  /\ IsStore(t) /\ t.stack = s.stack /\ t.flight = s.flight /\ t.Errors = s.Errors
             /\ t.delimiterBoundaries = s.delimiterBoundaries
             /\ t.entryRuleScopeDepth = s.entryRuleScopeDepth - 1
             /\ t.entryRuleFlightBaseline = s.entryRuleFlightBaseline
<1> DEFINE t == EndEntryRuleScope(s)
<1>1. /\ t.stack = s.stack /\ t.flight = s.flight /\ t.Errors = s.Errors
      /\ t.delimiterBoundaries = s.delimiterBoundaries
      /\ t.entryRuleScopeDepth = s.entryRuleScopeDepth - 1
      /\ t.entryRuleFlightBaseline = s.entryRuleFlightBaseline
      /\ HasFields(t)
  BY DEF IsStore, HasFields, StoreFields, EndEntryRuleScope
<1> HIDE DEF t
<1>2. IsStore(t)
  BY <1>1 DEF IsStore
<1> QED
  BY <1>1, <1>2 DEF t

LEMMA PushBoundary ==
  ASSUME NEW s, IsStore(s), NEW n
  PROVE  LET t == PushDelimiterBoundary(s, n)
         IN  /\ IsStore(t) /\ t.stack = s.stack /\ t.flight = s.flight /\ t.Errors = s.Errors
             /\ t.delimiterBoundaries # <<>>
             /\ Len(t.delimiterBoundaries) = Len(s.delimiterBoundaries) + 1
             /\ Pop(t.delimiterBoundaries) = s.delimiterBoundaries
             /\ t.entryRuleScopeDepth = s.entryRuleScopeDepth
             /\ t.entryRuleFlightBaseline = s.entryRuleFlightBaseline
<1> DEFINE t == PushDelimiterBoundary(s, n)
           b == [regionStart |-> n, flightAtOpen |-> Len(s.flight)]
<1>1. /\ t.stack = s.stack /\ t.flight = s.flight /\ t.Errors = s.Errors
      /\ t.delimiterBoundaries = Append(s.delimiterBoundaries, b)
      /\ t.entryRuleScopeDepth = s.entryRuleScopeDepth
      /\ t.entryRuleFlightBaseline = s.entryRuleFlightBaseline
      /\ HasFields(t)
  BY DEF IsStore, HasFields, StoreFields, PushDelimiterBoundary
<1> HIDE DEF t, b
<1> DEFINE open == s.delimiterBoundaries
<1>2. IsSeq(open)
  BY DEF IsStore
<1>2a. /\ IsSeq(t.delimiterBoundaries) /\ t.delimiterBoundaries # <<>>
      /\ Len(t.delimiterBoundaries) = Len(open) + 1
      /\ Pop(t.delimiterBoundaries) = open
  <2> HIDE DEF open
  <2>1. t.delimiterBoundaries = Append(open, b)
    BY <1>1 DEF open
  <2> QED
    BY <1>2, <2>1, SeqAppend
<1>3. IsStore(t)
  BY <1>1, <1>2a DEF IsStore
<1> QED
  BY <1>1, <1>2a, <1>3 DEF t

LEMMA PopBoundary ==
  ASSUME NEW s, IsStore(s), s.delimiterBoundaries # <<>>
  PROVE  LET t == PopDelimiterBoundary(s)
         IN  /\ IsStore(t) /\ t.stack = s.stack /\ t.flight = s.flight /\ t.Errors = s.Errors
             /\ t.delimiterBoundaries = Pop(s.delimiterBoundaries)
             /\ t.entryRuleScopeDepth = s.entryRuleScopeDepth
             /\ t.entryRuleFlightBaseline = s.entryRuleFlightBaseline
<1> DEFINE t == PopDelimiterBoundary(s)
<1>1. /\ t.stack = s.stack /\ t.flight = s.flight /\ t.Errors = s.Errors
      /\ t.delimiterBoundaries = Pop(s.delimiterBoundaries)
      /\ t.entryRuleScopeDepth = s.entryRuleScopeDepth
      /\ t.entryRuleFlightBaseline = s.entryRuleFlightBaseline
      /\ HasFields(t)
  BY DEF IsStore, HasFields, StoreFields, PopDelimiterBoundary
<1> HIDE DEF t
<1>2. IsSeq(t.delimiterBoundaries)
  BY <1>1, SeqPop DEF IsStore
<1>3. IsStore(t)
  BY <1>1, <1>2 DEF IsStore
<1> QED
  BY <1>1, <1>3 DEF t

(* Both ways to close the innermost frame uncover the frames below it.     *)
LEMMA PopFrame ==
  ASSUME NEW s, IsStore(s), s.stack # <<>>, NEW commit \in BOOLEAN
  PROVE  LET t == popFrame(s, commit)
         IN  /\ HasFields(t) /\ t.stack = Pop(s.stack)
             /\ t.delimiterBoundaries = s.delimiterBoundaries
             /\ t.entryRuleScopeDepth = s.entryRuleScopeDepth
             /\ t.entryRuleFlightBaseline = s.entryRuleFlightBaseline
             /\ IsSeq(t.stack) /\ Len(t.stack) = Len(s.stack) - 1
             /\ \A k \in 1 .. Len(s.stack) - 1 : /\ t.stack[k] = s.stack[k]
                                                /\ IsFrame(t.stack[k])
<1> DEFINE t == popFrame(s, commit)
<1>1. /\ t.stack = Pop(s.stack)
      /\ t.delimiterBoundaries = s.delimiterBoundaries
      /\ t.entryRuleScopeDepth = s.entryRuleScopeDepth
      /\ t.entryRuleFlightBaseline = s.entryRuleFlightBaseline
      /\ HasFields(t)
  BY DEF IsStore, HasFields, StoreFields, popFrame
<1> HIDE DEF t
<1>2. /\ IsSeq(s.stack) /\ Len(s.stack) \in Nat \ {0}
      /\ \A k \in 1 .. Len(s.stack) : IsFrame(s.stack[k])
  BY StoreHas DEF IsStore
<1>3. /\ IsSeq(t.stack) /\ Len(t.stack) = Len(s.stack) - 1
      /\ \A k \in 1 .. Len(s.stack) - 1 : t.stack[k] = s.stack[k]
  BY <1>1, <1>2, SeqPop
<1>4. \A k \in 1 .. Len(s.stack) - 1 : IsFrame(t.stack[k])
  BY <1>2, <1>3
<1> QED
  BY <1>1, <1>3, <1>4 DEF t

(* A commit leaves the frames below and what they own as they were, unless *)
(* it is the last one, which publishes.                                    *)
LEMMA Commit ==
  ASSUME NEW s, IsStore(s), s.stack # <<>>
  PROVE  LET t == popFrame(s, TRUE)
         IN  /\ IsStore(t)
             /\ Len(s.stack) > 1 =>
                  /\ t.Errors = s.Errors
                  /\ Len(t.flight) >= Len(s.flight)
                  /\ \A k \in 1 .. Len(s.flight) : t.flight[k] = s.flight[k]
<1> DEFINE t == popFrame(s, TRUE)
           n == Len(s.stack)
           rest == Pop(s.stack)
           best == s.stack[n].best
           has == s.stack[n].hasBest
           kept == IF has THEN Append(s.flight, best) ELSE s.flight
<1>1. t = IF rest = <<>>
            THEN [s EXCEPT !.stack = rest, !.Errors = @ \o kept, !.flight = <<>>]
            ELSE [s EXCEPT !.stack = rest, !.flight = kept]
  BY DEF popFrame, Top
<1>2. /\ HasFields(t) /\ IsSeq(t.stack) /\ Len(t.stack) = n - 1
      /\ t.delimiterBoundaries = s.delimiterBoundaries
      /\ t.entryRuleScopeDepth = s.entryRuleScopeDepth
      /\ \A k \in 1 .. n - 1 : IsFrame(t.stack[k])
  BY PopFrame
<1>3. n \in Nat \ {0} /\ IsSeq(s.stack) /\ IsSeq(s.flight) /\ HasFields(s)
      /\ IsSeq(s.delimiterBoundaries) /\ s.entryRuleScopeDepth \in Nat
  BY StoreHas DEF IsStore
<1>4. /\ IsSeq(kept) /\ Len(kept) >= Len(s.flight)
      /\ \A k \in 1 .. Len(s.flight) : kept[k] = s.flight[k]
  <2> DEFINE flight == s.flight
  <2>1. IsSeq(flight)
    BY <1>3
  <2> HIDE DEF flight, has, best
  <2>2. /\ IsSeq(Append(flight, best)) /\ Len(Append(flight, best)) = Len(flight) + 1
        /\ Len(flight) \in Nat
        /\ \A k \in 1 .. Len(flight) : Append(flight, best)[k] = flight[k]
    BY <2>1, SeqAppend, SeqHas
  <2>3. kept = Append(flight, best) \/ kept = flight
    BY DEF flight
  <2>4. Len(flight) + 1 >= Len(flight) /\ Len(flight) >= Len(flight)
    BY <2>2
  <2> QED
    BY <2>1, <2>2, <2>3, <2>4 DEF flight
<1>5. rest = <<>> <=> n = 1
  <2>1. IsSeq(rest) /\ Len(rest) = n - 1
    BY <1>3, SeqPop
  <2> HIDE DEF rest, n
  <2>2. rest = <<>> <=> Len(rest) = 0
    BY <2>1, SeqHas
  <2> QED
    BY <1>3, <2>1, <2>2
<1> HIDE DEF t, kept
<1>6. t.flight = IF rest = <<>> THEN <<>> ELSE kept
  BY <1>1, <1>3 DEF HasFields, StoreFields
<1>7. rest # <<>> => t.Errors = s.Errors
  BY <1>1, <1>3 DEF HasFields, StoreFields
<1> HIDE DEF rest, n
<1>8. IsSeq(t.flight)
  <2>1. IsSeq(<<>>)
    BY EmptySeq, SeqOf
  <2> QED
    BY <1>4, <1>6, <2>1
<1>9. IsStore(t)
  BY <1>2, <1>3, <1>8 DEF IsStore
<1>10. n > 1 => rest # <<>>
  BY <1>3, <1>5
<1> QED
  BY <1>4, <1>6, <1>7, <1>9, <1>10 DEF t, n

(* A rollback cuts the flight to where the frame began.                    *)
LEMMA Rollback ==
  ASSUME NEW s, IsStore(s), s.stack # <<>>,
         s.stack[Len(s.stack)].commitStartIndex \in 0 .. Len(s.flight)
  PROVE  LET t == popFrame(s, FALSE)
             from == s.stack[Len(s.stack)].commitStartIndex
         IN  /\ IsStore(t) /\ t.Errors = s.Errors
             /\ Len(t.flight) = from
             /\ \A k \in 1 .. from : t.flight[k] = s.flight[k]
<1> DEFINE t == popFrame(s, FALSE)
           n == Len(s.stack)
           from == s.stack[n].commitStartIndex
<1>1. t = [s EXCEPT !.stack = Pop(s.stack), !.flight = SubSeq(@, 1, from)]
  BY DEF popFrame, Top
<1>2. /\ HasFields(t) /\ IsSeq(t.stack) /\ Len(t.stack) = n - 1
      /\ t.delimiterBoundaries = s.delimiterBoundaries
      /\ t.entryRuleScopeDepth = s.entryRuleScopeDepth
      /\ \A k \in 1 .. n - 1 : IsFrame(t.stack[k])
  BY PopFrame
<1>3. IsSeq(s.flight) /\ HasFields(s)
      /\ IsSeq(s.delimiterBoundaries) /\ s.entryRuleScopeDepth \in Nat
  BY DEF IsStore
<1> HIDE DEF from
<1>4. t.flight = SubSeq(s.flight, 1, from) /\ t.Errors = s.Errors
  BY <1>1, <1>3 DEF HasFields, StoreFields
<1> HIDE DEF t
<1>5. /\ IsSeq(t.flight) /\ Len(t.flight) = from
      /\ \A k \in 1 .. from : t.flight[k] = s.flight[k]
  <2> DEFINE flight == s.flight
  <2>1. IsSeq(flight) /\ from \in 0 .. Len(flight) /\ t.flight = SubSeq(flight, 1, from)
    BY <1>3, <1>4 DEF from
  <2> HIDE DEF flight
  <2>2. /\ IsSeq(t.flight) /\ Len(t.flight) = from
        /\ \A k \in 1 .. from : t.flight[k] = flight[k]
    BY <2>1, SeqPrefix
  <2> QED
    BY <2>2 DEF flight
<1>6. IsStore(t)
  BY <1>2, <1>3, <1>5 DEF IsStore
<1> QED
  BY <1>4, <1>5, <1>6 DEF t, from

(* The frame in which a recovery runs leaves nothing.                      *)
LEMMA PushThenRollback ==
  ASSUME NEW s, IsStore(s)
  PROVE  popFrame(pushFrame(s), FALSE) = s
<1> DEFINE p == pushFrame(s)
           t == popFrame(p, FALSE)
           n == Len(s.stack)
<1>1. /\ IsStore(p) /\ Len(p.stack) = n + 1 /\ n \in Nat
      /\ \A k \in 1 .. n : p.stack[k] = s.stack[k]
      /\ p.stack[n + 1].commitStartIndex = Len(s.flight)
      /\ p.flight = s.flight /\ p.Errors = s.Errors
      /\ p.delimiterBoundaries = s.delimiterBoundaries
      /\ p.entryRuleScopeDepth = s.entryRuleScopeDepth
      /\ p.entryRuleFlightBaseline = s.entryRuleFlightBaseline
  BY PushFrame, StoreHas
<1>2. Len(s.flight) \in Nat /\ IsSeq(s.flight) /\ IsSeq(s.stack) /\ HasFields(s)
  BY StoreHas DEF IsStore
<1> HIDE DEF p, n
<1>3. p.stack # <<>> /\ p.stack[Len(p.stack)].commitStartIndex = Len(s.flight)
  BY <1>1, StoreHas
<1>4. Len(s.flight) \in 0 .. Len(p.flight)
  BY <1>1, <1>2
<1>5. /\ HasFields(t) /\ IsSeq(t.stack) /\ Len(t.stack) = n
      /\ \A k \in 1 .. n : t.stack[k] = s.stack[k]
      /\ t.delimiterBoundaries = s.delimiterBoundaries
      /\ t.entryRuleScopeDepth = s.entryRuleScopeDepth
      /\ t.entryRuleFlightBaseline = s.entryRuleFlightBaseline
  <2>1. n + 1 - 1 = n
    BY <1>1
  <2>2. /\ HasFields(t) /\ IsSeq(t.stack) /\ Len(t.stack) = Len(p.stack) - 1
        /\ \A k \in 1 .. Len(p.stack) - 1 : t.stack[k] = p.stack[k]
        /\ t.delimiterBoundaries = p.delimiterBoundaries
        /\ t.entryRuleScopeDepth = p.entryRuleScopeDepth
        /\ t.entryRuleFlightBaseline = p.entryRuleFlightBaseline
    BY <1>1, <1>3, PopFrame
  <2> HIDE DEF t
  <2>3. Len(p.stack) - 1 = n
    BY <1>1, <2>1
  <2> QED
    BY <1>1, <2>2, <2>3
<1>6. /\ IsStore(t) /\ t.Errors = s.Errors /\ Len(t.flight) = Len(s.flight)
      /\ \A k \in 1 .. Len(s.flight) : t.flight[k] = s.flight[k]
  <2> DEFINE from == p.stack[Len(p.stack)].commitStartIndex
  <2>1. from \in 0 .. Len(p.flight)
    BY <1>3, <1>4
  <2>2. /\ IsStore(t) /\ t.Errors = p.Errors /\ Len(t.flight) = from
        /\ \A k \in 1 .. from : t.flight[k] = p.flight[k]
    BY <1>1, <1>3, <2>1, Rollback
  <2>3. from = Len(s.flight)
    BY <1>3
  <2> HIDE DEF t, from
  <2> QED
    BY <1>1, <2>2, <2>3
<1> HIDE DEF t
<1>7. t.flight = s.flight
  <2> DEFINE u == t.flight
             v == s.flight
  <2>1. IsSeq(u) /\ IsSeq(v) /\ Len(u) = Len(v) /\ \A k \in 1 .. Len(v) : u[k] = v[k]
    BY <1>2, <1>6 DEF IsStore
  <2> HIDE DEF u, v
  <2>2. u = v
    BY <2>1, SeqSame
  <2> QED
    BY <2>2 DEF u, v
<1>8. t.stack = s.stack
  <2> DEFINE u == t.stack
             v == s.stack
  <2>1. IsSeq(u) /\ IsSeq(v) /\ Len(u) = Len(v) /\ \A k \in 1 .. Len(v) : u[k] = v[k]
    BY <1>2, <1>5 DEF n
  <2> HIDE DEF u, v
  <2>2. u = v
    BY <2>1, SeqSame
  <2> QED
    BY <2>2 DEF u, v
<1>9. t = s
  BY <1>2, <1>5, <1>6, <1>7, <1>8 DEF HasFields, StoreFields
<1> QED
  BY <1>9 DEF t, p

LEMMA KeepsStill ==
  ASSUME NEW s, NEW b, NEW t, Keeps(s, b), Len(t.stack) > Len(b.stack),
         \A k \in 1 .. Len(b.stack) : t.stack[k] = s.stack[k],
         t.stack[Len(b.stack) + 1].commitStartIndex = s.stack[Len(b.stack) + 1].commitStartIndex,
         Len(t.flight) >= Len(b.flight),
         \A k \in 1 .. Len(b.flight) : t.flight[k] = s.flight[k],
         t.Errors = s.Errors
  PROVE  Keeps(t, b)
  BY DEF Keeps

LEMMA KeepsRemarked ==
  ASSUME NEW s, NEW b, NEW t, IsStore(s), IsStore(b), Keeps(s, b), Remarked(s, t)
  PROVE  Keeps(t, b)
<1> DEFINE n == Len(b.stack)
           m == Len(s.stack)
<1>1. n \in Nat /\ m \in Nat /\ m > n
  BY StoreHas DEF Keeps
<1>2. /\ Len(t.stack) = m /\ t.flight = s.flight /\ t.Errors = s.Errors
      /\ \A k \in 1 .. m : t.stack[k].commitStartIndex = s.stack[k].commitStartIndex
      /\ \A k \in 1 .. m - 1 : t.stack[k] = s.stack[k]
  BY DEF Remarked
<1> HIDE DEF n, m
<1>3. ASSUME NEW k \in 1 .. n PROVE t.stack[k] = s.stack[k]
  <2>1. k \in 1 .. m - 1
    BY <1>1
  <2> QED
    BY <1>2, <2>1
<1>4. t.stack[n + 1].commitStartIndex = s.stack[n + 1].commitStartIndex
  <2>1. n + 1 \in 1 .. m
    BY <1>1
  <2> QED
    BY <1>2, <2>1
<1>5. Len(s.flight) >= Len(b.flight)
  BY DEF Keeps
<1> QED
  BY <1>1, <1>2, <1>3, <1>4, <1>5, KeepsStill DEF n, m

LEMMA KeepsSameErrors ==
  ASSUME NEW s, NEW b, NEW t, Keeps(s, b),
         t.stack = s.stack, t.flight = s.flight, t.Errors = s.Errors
  PROVE  Keeps(t, b)
  BY DEF Keeps

LEMMA KeepsFramed ==
  ASSUME NEW s, NEW b, IsStore(s), IsStore(b), Keeps(s, b)
  PROVE  Keeps(pushFrame(s), b)
<1> DEFINE t == pushFrame(s)
           n == Len(b.stack)
           m == Len(s.stack)
<1>1. n \in Nat /\ m \in Nat /\ m > n /\ Len(s.flight) >= Len(b.flight)
  BY StoreHas DEF Keeps
<1>2. /\ Len(t.stack) = m + 1 /\ t.flight = s.flight /\ t.Errors = s.Errors
      /\ \A k \in 1 .. m : t.stack[k] = s.stack[k]
  BY PushFrame
<1> HIDE DEF n, m, t
<1>3. \A k \in 1 .. n + 1 : t.stack[k] = s.stack[k]
  BY <1>1, <1>2
<1>4. Len(t.stack) > n /\ n + 1 \in 1 .. n + 1 /\ 1 .. n \subseteq 1 .. n + 1
  BY <1>1, <1>2
<1> QED
  BY <1>1, <1>2, <1>3, <1>4, KeepsStill DEF t, n

LEMMA FrameKeeps ==
  ASSUME NEW s, IsStore(s)
  PROVE  Keeps(pushFrame(s), s)
<1> DEFINE t == pushFrame(s)
           m == Len(s.stack)
<1>1. m \in Nat /\ Len(s.flight) \in Nat
  BY StoreHas
<1>2. /\ Len(t.stack) = m + 1 /\ t.flight = s.flight /\ t.Errors = s.Errors
      /\ \A k \in 1 .. m : t.stack[k] = s.stack[k]
      /\ t.stack[m + 1].commitStartIndex = Len(s.flight)
  BY PushFrame
<1> HIDE DEF t
<1>3. Len(t.stack) > m /\ Len(t.flight) >= Len(s.flight)
  BY <1>1, <1>2
<1> QED
  BY <1>2, <1>3 DEF Keeps, t

(* What a frame above a rule's own commits does not touch what the rule    *)
(* found.                                                                  *)
LEMMA KeepsCommit ==
  ASSUME NEW s, NEW b, IsStore(s), IsStore(b), Keeps(s, b), Len(s.stack) > Len(b.stack) + 1
  PROVE  Keeps(popFrame(s, TRUE), b)
<1> DEFINE t == popFrame(s, TRUE)
           n == Len(b.stack)
           m == Len(s.stack)
<1>1. n \in Nat /\ m \in Nat /\ m > n + 1 /\ Len(s.flight) >= Len(b.flight)
      /\ Len(s.flight) \in Nat /\ Len(b.flight) \in Nat /\ s.stack # <<>>
  BY StoreHas DEF Keeps
<1>2. /\ Len(t.stack) = m - 1 /\ \A k \in 1 .. m - 1 : t.stack[k] = s.stack[k]
  BY <1>1, PopFrame
<1>3. m > 1 => /\ t.Errors = s.Errors /\ Len(t.flight) >= Len(s.flight)
               /\ \A k \in 1 .. Len(s.flight) : t.flight[k] = s.flight[k]
  BY <1>1, Commit
<1>3a. IsStore(t)
  BY <1>1, Commit
<1> HIDE DEF n, m, t
<1>3b. Len(t.flight) \in Nat
  BY <1>3a, StoreHas
<1>4. Len(t.stack) > n /\ \A k \in 1 .. n + 1 : t.stack[k] = s.stack[k]
  BY <1>1, <1>2
<1>5. t.Errors = s.Errors /\ Len(t.flight) >= Len(s.flight)
      /\ \A k \in 1 .. Len(s.flight) : t.flight[k] = s.flight[k]
  BY <1>1, <1>3
<1>6. Len(t.flight) >= Len(b.flight) /\ \A k \in 1 .. Len(b.flight) : t.flight[k] = s.flight[k]
  BY <1>1, <1>3b, <1>5
<1>7. n + 1 \in 1 .. n + 1 /\ 1 .. n \subseteq 1 .. n + 1
  BY <1>1
<1> QED
  BY <1>4, <1>5, <1>6, <1>7, KeepsStill DEF t, n

(* A rollback restores what the rule found.                                *)
LEMMA RollbackRestores ==
  ASSUME NEW s, NEW b, IsStore(s), IsStore(b), Keeps(s, b), Len(s.stack) = Len(b.stack) + 1
  PROVE  LET t == popFrame(s, FALSE)
         IN  /\ IsStore(t) /\ t.stack = b.stack /\ t.flight = b.flight /\ t.Errors = b.Errors
             /\ t.delimiterBoundaries = s.delimiterBoundaries
             /\ t.entryRuleScopeDepth = s.entryRuleScopeDepth
             /\ t.entryRuleFlightBaseline = s.entryRuleFlightBaseline
<1> DEFINE t == popFrame(s, FALSE)
           n == Len(b.stack)
<1>1. /\ n \in Nat /\ Len(s.stack) = n + 1 /\ s.stack # <<>>
      /\ Len(s.flight) \in Nat /\ Len(b.flight) \in Nat
      /\ IsSeq(b.stack) /\ IsSeq(b.flight)
  BY StoreHas DEF IsStore
<1>2. /\ \A k \in 1 .. n : s.stack[k] = b.stack[k]
      /\ s.stack[n + 1].commitStartIndex = Len(b.flight)
      /\ Len(s.flight) >= Len(b.flight)
      /\ \A k \in 1 .. Len(b.flight) : s.flight[k] = b.flight[k]
      /\ s.Errors = b.Errors
  BY DEF Keeps
<1>3. /\ IsSeq(t.stack) /\ Len(t.stack) = Len(s.stack) - 1
      /\ \A k \in 1 .. Len(s.stack) - 1 : t.stack[k] = s.stack[k]
      /\ t.delimiterBoundaries = s.delimiterBoundaries
      /\ t.entryRuleScopeDepth = s.entryRuleScopeDepth
      /\ t.entryRuleFlightBaseline = s.entryRuleFlightBaseline
  BY <1>1, PopFrame
<1>4. s.stack[Len(s.stack)].commitStartIndex \in 0 .. Len(s.flight)
  BY <1>1, <1>2
<1>5. /\ IsStore(t) /\ t.Errors = s.Errors /\ Len(t.flight) = Len(b.flight)
      /\ \A k \in 1 .. Len(b.flight) : t.flight[k] = s.flight[k]
  <2>1. s.stack[Len(s.stack)].commitStartIndex = Len(b.flight)
    BY <1>1, <1>2
  <2> QED
    BY <1>1, <1>4, <2>1, Rollback
<1> HIDE DEF t
<1>6. t.flight = b.flight
  <2> DEFINE u == t.flight
             v == b.flight
  <2>1. IsSeq(u) /\ IsSeq(v) /\ Len(u) = Len(v) /\ \A k \in 1 .. Len(v) : u[k] = v[k]
    BY <1>1, <1>2, <1>5 DEF IsStore
  <2> HIDE DEF u, v
  <2>2. u = v
    BY <2>1, SeqSame
  <2> QED
    BY <2>2 DEF u, v
<1>7. t.stack = b.stack
  <2> DEFINE u == t.stack
             v == b.stack
  <2>1. IsSeq(u) /\ IsSeq(v) /\ Len(u) = Len(v)
    BY <1>1, <1>3
  <2>2. \A k \in 1 .. Len(v) : u[k] = v[k]
    BY <1>1, <1>2, <1>3
  <2> HIDE DEF u, v
  <2>3. u = v
    BY <2>1, <2>2, SeqSame
  <2> QED
    BY <2>3 DEF u, v
<1> QED
  BY <1>2, <1>3, <1>5, <1>6, <1>7 DEF t

-----------------------------------------------------------------------------
(* The invariant. *)

ActivationFields == {"rule", "mode", "envelope", "start", "createdAt", "before",
                     "next", "marker", "runs", "nodes"}

IsActivation(a) == /\ DOMAIN a = ActivationFields
                   /\ a = [x \in ActivationFields |-> a[x]]
                   /\ a.envelope \in BOOLEAN

KindOf(a) == Rule[a.rule].kind

(* The stacks have their shape: what is entered later began later, and     *)
(* only a reference runs a body without an envelope.                       *)
Shape ==
  /\ IsSeq(calls) /\ IsSeq(recovery)
  /\ control \in {"begin", "loop", "resume", "leave", "panic"} <=> calls # <<>>
  /\ \A i \in DOMAIN calls :
        /\ IsActivation(calls[i])
        /\ ~calls[i].envelope => /\ i > 1 /\ calls[i].mode = "Normal"
                                 /\ KindOf(calls[i - 1]) = "Reference"
  /\ \A i, j \in DOMAIN calls : i <= j => /\ calls[i].start <= calls[j].start
                                         /\ calls[i].createdAt <= calls[j].createdAt

(* The store as the rule that runs at i sees it: at the call it has made,  *)
(* or now.                                                                 *)
StoreAt(i) == IF i < Len(calls) THEN calls[i + 1].before ELSE errs

IsEntry(a) == a.envelope /\ a.mode = "Normal" /\ IsProgramRule(a.rule)

(* A nest's body runs. *)
Inside(i) == KindOf(calls[i]) = "Nest" /\ (i < Len(calls) \/ control = "resume")

(* What an activation has put on the stacks of the store since it began.   *)
Level(a, inside, s) ==
  /\ Len(s.stack) = Len(a.before.stack) + (IF a.envelope THEN 1 ELSE 0)
  /\ s.entryRuleScopeDepth = a.before.entryRuleScopeDepth + (IF IsEntry(a) THEN 1 ELSE 0)
  /\ inside => /\ s.delimiterBoundaries # <<>>
               /\ Pop(s.delimiterBoundaries) = a.before.delimiterBoundaries
  /\ ~inside => s.delimiterBoundaries = a.before.delimiterBoundaries

(* What every activation found is intact, below its own frame, in the      *)
(* store of today and in what the activations above it have found.         *)
Stores ==
  /\ IsStore(errs) /\ errs.entryRuleFlightBaseline = 0
  /\ \A i \in DOMAIN calls :
        /\ IsStore(calls[i].before) /\ calls[i].before.entryRuleFlightBaseline = 0
        /\ i > 1 => calls[i].before.entryRuleScopeDepth > 0
  /\ \A i, j \in DOMAIN calls :
        i < j /\ calls[i].envelope => Keeps(calls[j].before, calls[i].before)
  /\ control # "panic" =>
        /\ calls # <<>> => errs.entryRuleScopeDepth > 0
        /\ \A i \in DOMAIN calls : /\ calls[i].envelope => Keeps(errs, calls[i].before)
                                  /\ Level(calls[i], Inside(i), StoreAt(i))

(* Before the first step there is nothing.                                 *)
Fresh == control = "idle" => recovery = <<>> /\ errs = SyntaxErrorsCreate

IInv == TypeOK /\ Shape /\ Stores /\ Fresh /\ StacksMatchCalls

-----------------------------------------------------------------------------
(* What the body of a rule may do in a step. *)

Running == control \in {"begin", "loop", "resume"}

Results == [Succeeded : BOOLEAN, Kind : {"none", FailureError, FailureNoMatch},
            Node : BOOLEAN, ConsumeSyncToken : BOOLEAN]

(* An activation that is the top one but for the locals of the body. *)
Same(a) ==
  /\ IsActivation(a) /\ a.rule = top.rule /\ a.mode = top.mode /\ a.envelope = top.envelope
  /\ a.start = top.start /\ a.createdAt = top.createdAt /\ a.before = top.before
  /\ a.next \in Nat /\ a.marker \in Nat

Ahead(cur, count) == cur \in cursor .. Len(input) /\ count \in Nat /\ created <= count

(* Only a nest moves a boundary: it opens one when it calls its child and  *)
(* closes it when it returns from there.                                   *)
Opened(s) == IF topRule.kind = "Nest"
               THEN control = "begin" /\ \E n : s = PushDelimiterBoundary(errs, n)
               ELSE Remarked(errs, s)

Closed(s) == IF topRule.kind = "Nest" /\ control = "resume"
               THEN \E q : Remarked(errs, q) /\ s = PopDelimiterBoundary(q)
               ELSE Remarked(errs, s)

Calls(a, r, mode, cur, s, count) ==
  /\ topRule.kind # "Reference" /\ Same(a) /\ r \in DOMAIN Rule /\ mode \in {"Normal", "Probe"}
  /\ Ahead(cur, count) /\ Opened(s) /\ Call(a, r, mode, cur, s, count)

Continues(a, cur, s, count) ==
  /\ topRule.kind # "Nest" /\ Same(a) /\ Ahead(cur, count) /\ Remarked(errs, s)
  /\ Continue(a, cur, s, count)

Returns(result, cur, s, count) ==
  result \in Results /\ Ahead(cur, count) /\ Closed(s) /\ Return(result, cur, s, count)

Refers == /\ topRule.kind = "Reference" /\ control = "begin"
          /\ Registry[topRule.target].rule \in DOMAIN Rule
          /\ ExecuteReference(topRule.target)

Panics == /\ control' = "panic"
          /\ UNCHANGED <<parser, input, cursor, calls, ret, recovery, errs, created>>

BodyMoves ==
  /\ Running
  /\ \/ \E a, r, mode, cur, s, count : Calls(a, r, mode, cur, s, count)
     \/ \E a, cur, s, count : Continues(a, cur, s, count)
     \/ \E result, cur, s, count : Returns(result, cur, s, count)
     \/ Refers
     \/ Panics

LEMMA TopHas ==
  ASSUME IInv, control \in {"begin", "loop", "resume", "leave"}
  PROVE  /\ calls # <<>> /\ IsSeq(calls) /\ Len(calls) \in Nat \ {0}
         /\ DOMAIN calls = 1 .. Len(calls) /\ Len(calls) \in DOMAIN calls
         /\ IsActivation(top) /\ top.rule \in DOMAIN Rule /\ top.mode \in {"Normal", "Probe"}
         /\ top.start \in 0 .. cursor /\ top.createdAt \in 0 .. created
         /\ top.next \in Nat /\ top.marker \in Nat
<1>1. calls # <<>> /\ IsSeq(calls)
  BY DEF IInv, Shape
<1>2. Len(calls) \in Nat \ {0} /\ DOMAIN calls = 1 .. Len(calls) /\ Len(calls) \in DOMAIN calls
  BY <1>1, SeqHas
<1>3. /\ top.rule \in DOMAIN Rule /\ top.mode \in {"Normal", "Probe"}
      /\ top.start \in 0 .. cursor /\ top.createdAt \in 0 .. created
      /\ top.next \in Nat /\ top.marker \in Nat
  BY <1>2 DEF IInv, TypeOK, top
<1>4. IsActivation(top)
  BY <1>2 DEF IInv, Shape, top
<1> QED
  BY <1>1, <1>2, <1>3, <1>4

(* The store has a frame as long as a rule is active: the program's. *)
LEMMA ErrsHas ==
  ASSUME IInv, control \in {"begin", "loop", "resume", "leave"}
  PROVE  IsStore(errs) /\ errs.stack # <<>>
<1>1. Len(calls) \in Nat \ {0} /\ DOMAIN calls = 1 .. Len(calls)
  BY TopHas
<1>2. 1 \in DOMAIN calls /\ control # "panic"
  BY <1>1
<1>3. calls[1].envelope
  BY <1>2 DEF IInv, Shape
<1>4. IsStore(errs) /\ IsStore(calls[1].before) /\ Keeps(errs, calls[1].before)
  BY <1>2, <1>3 DEF IInv, Stores
<1>5. Len(errs.stack) > Len(calls[1].before.stack)
  BY <1>4 DEF Keeps
<1>6. Len(calls[1].before.stack) \in Nat
  BY <1>4, StoreHas
<1>7. Len(errs.stack) \in Nat /\ (errs.stack = <<>> <=> Len(errs.stack) = 0)
  BY <1>4, StoreHas
<1> QED
  BY <1>4, <1>5, <1>6, <1>7

LEMMA RuleHas ==
  ASSUME IInv, control \in {"begin", "loop", "resume", "leave"}
  PROVE  /\ kids \in Seq(DOMAIN Rule)
         /\ topRule.kind \in RunsAChild => kids # <<>>
         /\ topRule.kind = "Expect" => topRule.addNode \in BOOLEAN
         /\ topRule.kind = "Reference" => Registry[topRule.target].rule \in DOMAIN Rule
         /\ topRule.kind = "Pratt" => \A o \in DOMAIN ops : ops[o].kid \in 0 .. Len(kids)
<1>1. top.rule \in DOMAIN parser.rules /\ parser \in Parsers
  BY TopHas DEF IInv, TypeOK, Rule
<1> QED
  BY <1>1, RulesAssumption DEF Rule, topRule, kids, ops, Registry

LEMMA KidIsRule ==
  ASSUME IInv, Running, NEW i \in 1 .. Len(kids)
  PROVE  kids[i] \in DOMAIN Rule
  BY RuleHas DEF Running

LEMMA FirstKid ==
  ASSUME IInv, Running, topRule.kind \in RunsAChild
  PROVE  kids[1] \in DOMAIN Rule
<1>1. kids \in Seq(DOMAIN Rule) /\ kids # <<>>
  BY RuleHas DEF Running
<1> QED
  BY <1>1

LEMMA ResultsAre ==
  /\ \A node \in BOOLEAN : Success(node) \in Results
  /\ Failure(FailureError) \in Results /\ Failure(FailureNoMatch) \in Results
  BY DEF Results, Success, Failure

LEMMA RetIsResult == ASSUME IInv PROVE ret \in Results
  BY DEF IInv, TypeOK, Results

LEMMA HereIsAhead ==
  ASSUME IInv, NEW n \in Nat
  PROVE  /\ Ahead(cursor, NewNodes(n)) /\ Ahead(cursor, created)
         /\ Ahead(Consume(cursor), NewNodes(n)) /\ Ahead(Consume(cursor), created)
<1>1. created \in Nat /\ cursor \in 0 .. Len(input) /\ Len(input) \in Nat
  BY InputHas DEF IInv, TypeOK
<1>2. Consume(cursor) \in cursor .. Len(input)
  BY <1>1, ConsumeAdvances DEF IInv
<1> QED
  BY <1>1, <1>2 DEF Ahead, NewNodes

LEMMA NothingSaid ==
  ASSUME IInv, Running
  PROVE  Remarked(errs, errs)
  BY ErrsHas, RemarkedSelf DEF Running

LEMMA SomethingSaid ==
  ASSUME IInv, Running, NEW position
  PROVE  Remarked(errs, Reported(position))
  BY ErrsHas, ReportRemarks DEF Running, Reported

LEMMA NotNestCloses ==
  ASSUME NEW s, Remarked(errs, s), topRule.kind # "Nest" \/ control # "resume"
  PROVE  Closed(s)
  BY DEF Closed

LEMMA NotNestOpens ==
  ASSUME NEW s, Remarked(errs, s), topRule.kind # "Nest"
  PROVE  Opened(s)
  BY DEF Opened

(* The top activation with other locals. *)
LEMMA TopIsSame ==
  ASSUME IInv, Running
  PROVE  /\ Same(top)
         /\ \A n \in Nat : Same([top EXCEPT !.next = n])
         /\ \A m \in Nat : Same([top EXCEPT !.marker = m])
         /\ \A runs : Same([top EXCEPT !.runs = runs])
<1>1. /\ IsActivation(top) /\ top.next \in Nat /\ top.marker \in Nat
  BY TopHas DEF Running
<1> DEFINE t == top
<1>1a. /\ IsActivation(t) /\ t.next \in Nat /\ t.marker \in Nat
  BY <1>1
<1> HIDE DEF t
<1>2. Same(top)
  BY <1>1 DEF Same
<1>3. ASSUME NEW n \in Nat PROVE Same([top EXCEPT !.next = n])
  <2> DEFINE a == [t EXCEPT !.next = n]
  <2>1. /\ IsActivation(a) /\ a.rule = t.rule /\ a.mode = t.mode /\ a.envelope = t.envelope
        /\ a.start = t.start /\ a.createdAt = t.createdAt /\ a.before = t.before
        /\ a.next \in Nat /\ a.marker \in Nat
    BY <1>1a DEF IsActivation, ActivationFields
  <2> HIDE DEF a
  <2>2. Same(a)
    BY <2>1 DEF Same, t
  <2> QED
    BY <2>2 DEF a, t
<1>4. ASSUME NEW m \in Nat PROVE Same([top EXCEPT !.marker = m])
  <2> DEFINE a == [t EXCEPT !.marker = m]
  <2>1. /\ IsActivation(a) /\ a.rule = t.rule /\ a.mode = t.mode /\ a.envelope = t.envelope
        /\ a.start = t.start /\ a.createdAt = t.createdAt /\ a.before = t.before
        /\ a.next \in Nat /\ a.marker \in Nat
    BY <1>1a DEF IsActivation, ActivationFields
  <2> HIDE DEF a
  <2>2. Same(a)
    BY <2>1 DEF Same, t
  <2> QED
    BY <2>2 DEF a, t
<1>5. ASSUME NEW runs PROVE Same([top EXCEPT !.runs = runs])
  <2> DEFINE a == [t EXCEPT !.runs = runs]
  <2>1. /\ IsActivation(a) /\ a.rule = t.rule /\ a.mode = t.mode /\ a.envelope = t.envelope
        /\ a.start = t.start /\ a.createdAt = t.createdAt /\ a.before = t.before
        /\ a.next \in Nat /\ a.marker \in Nat
    BY <1>1a DEF IsActivation, ActivationFields
  <2> HIDE DEF a
  <2>2. Same(a)
    BY <2>1 DEF Same, t
  <2> QED
    BY <2>2 DEF a, t
<1> QED
  BY <1>2, <1>3, <1>4, <1>5

LEMMA TopIsSame2 ==
  ASSUME IInv, Running
  PROVE  /\ \A n, m \in Nat : Same([top EXCEPT !.next = n, !.marker = m])
         /\ \A runs, nodes : Same([top EXCEPT !.runs = runs, !.nodes = nodes])
<1>1. /\ IsActivation(top) /\ top.next \in Nat /\ top.marker \in Nat
  BY TopHas DEF Running
<1> DEFINE t == top
<1>1a. /\ IsActivation(t) /\ t.next \in Nat /\ t.marker \in Nat
  BY <1>1
<1> HIDE DEF t
<1>2. ASSUME NEW n \in Nat, NEW m \in Nat PROVE Same([top EXCEPT !.next = n, !.marker = m])
  <2> DEFINE a == [t EXCEPT !.next = n, !.marker = m]
  <2>1. /\ IsActivation(a) /\ a.rule = t.rule /\ a.mode = t.mode /\ a.envelope = t.envelope
        /\ a.start = t.start /\ a.createdAt = t.createdAt /\ a.before = t.before
        /\ a.next \in Nat /\ a.marker \in Nat
    BY <1>1a DEF IsActivation, ActivationFields
  <2> HIDE DEF a
  <2>2. Same(a)
    BY <2>1 DEF Same, t
  <2> QED
    BY <2>2 DEF a, t
<1>3. ASSUME NEW runs, NEW nodes PROVE Same([top EXCEPT !.runs = runs, !.nodes = nodes])
  <2> DEFINE a == [t EXCEPT !.runs = runs, !.nodes = nodes]
  <2>1. /\ IsActivation(a) /\ a.rule = t.rule /\ a.mode = t.mode /\ a.envelope = t.envelope
        /\ a.start = t.start /\ a.createdAt = t.createdAt /\ a.before = t.before
        /\ a.next \in Nat /\ a.marker \in Nat
    BY <1>1a DEF IsActivation, ActivationFields
  <2> HIDE DEF a
  <2>2. Same(a)
    BY <2>1 DEF Same, t
  <2> QED
    BY <2>2 DEF a, t
<1> QED
  BY <1>2, <1>3

LEMMA CallMoves ==
  ASSUME IInv, Running, topRule.kind # "Reference", topRule.kind # "Nest",
         NEW a, Same(a), NEW r \in DOMAIN Rule, NEW mode \in {"Normal", "Probe"},
         NEW cur, NEW count, Ahead(cur, count), NEW s, Remarked(errs, s),
         Call(a, r, mode, cur, s, count)
  PROVE  BodyMoves
<1>1. Calls(a, r, mode, cur, s, count)
  BY NotNestOpens DEF Calls
<1> QED
  BY <1>1 DEF BodyMoves

LEMMA KidMoves ==
  ASSUME IInv, Running, topRule.kind # "Reference", topRule.kind # "Nest",
         NEW a, Same(a), NEW i \in 1 .. Len(kids), NEW mode \in {"Normal", "Probe"},
         CallKid(a, i, mode)
  PROVE  BodyMoves
<1>1. Call(a, kids[i], mode, cursor, errs, created)
  BY DEF CallKid
<1>2. kids[i] \in DOMAIN Rule /\ Ahead(cursor, created) /\ Remarked(errs, errs)
  BY KidIsRule, HereIsAhead, NothingSaid
<1> QED
  BY <1>1, <1>2, CallMoves

LEMMA ContinueMoves ==
  ASSUME IInv, Running, topRule.kind # "Nest", NEW a, Same(a),
         NEW cur, NEW count, Ahead(cur, count), NEW s, Remarked(errs, s),
         Continue(a, cur, s, count)
  PROVE  BodyMoves
<1>1. Continues(a, cur, s, count)
  BY DEF Continues
<1> QED
  BY <1>1 DEF BodyMoves

LEMMA ReturnMoves ==
  ASSUME IInv, Running, topRule.kind # "Nest" \/ control # "resume", NEW result \in Results,
         NEW cur, NEW count, Ahead(cur, count), NEW s, Remarked(errs, s),
         Return(result, cur, s, count)
  PROVE  BodyMoves
<1>1. Returns(result, cur, s, count)
  BY NotNestCloses DEF Returns
<1> QED
  BY <1>1 DEF BodyMoves

LEMMA GiveMoves ==
  ASSUME IInv, Running, topRule.kind # "Nest" \/ control # "resume", NEW result \in Results,
         Give(result)
  PROVE  BodyMoves
<1>1. Return(result, cursor, errs, created)
  BY DEF Give
<1>2. Ahead(cursor, created) /\ Remarked(errs, errs)
  BY HereIsAhead, NothingSaid
<1> QED
  BY <1>1, <1>2, ReturnMoves

LEMMA AtHas ==
  ASSUME NEW kind, NEW where \in {"begin", "loop", "resume"}, At(kind, where)
  PROVE  Running /\ control = where /\ topRule.kind = kind
  BY DEF At, Running

-----------------------------------------------------------------------------
(* The token rules. *)

LEMMA ExpectMoves == ASSUME IInv, ExpectToken PROVE BodyMoves
<1>1. Running /\ topRule.kind = "Expect"
  BY AtHas DEF ExpectToken
<1>2. CASE Next0.Token \in topRule.tokens
  <2> DEFINE n == IF topRule.addNode THEN 1 ELSE 0
  <2>1. Return(Success(topRule.addNode), Consume(cursor), errs, NewNodes(n))
    BY <1>2 DEF ExpectToken
  <2>2. Success(topRule.addNode) \in Results
    BY <1>1, RuleHas, ResultsAre DEF Running
  <2>3. n \in Nat
    OBVIOUS
  <2> HIDE DEF n
  <2>4. Ahead(Consume(cursor), NewNodes(n)) /\ Remarked(errs, errs)
    BY <1>1, <2>3, HereIsAhead, NothingSaid
  <2> QED
    BY <1>1, <2>1, <2>2, <2>4, ReturnMoves
<1>3. CASE Next0.Token \notin topRule.tokens
  <2>1. Give(Failure(FailureNoMatch))
    BY <1>3 DEF ExpectToken
  <2> QED
    BY <1>1, <2>1, ResultsAre, GiveMoves
<1> QED
  BY <1>2, <1>3

LEMMA ListErrorMoves == ASSUME IInv, Running, topRule.kind = "List", ListError PROVE BodyMoves
<1>1. Return(Failure(FailureError), cursor, Reported(Next0.Start), created)
  BY DEF ListError
<1> QED
  BY <1>1, ResultsAre, HereIsAhead, SomethingSaid, ReturnMoves

LEMMA ListShiftMoves ==
  ASSUME IInv, Running, topRule.kind = "List", NEW state \in Nat, NEW nodes \in Nat,
         ListShift(state, nodes)
  PROVE  BodyMoves
<1> DEFINE a == [top EXCEPT !.next = state]
<1>1. Continue(a, Consume(cursor), errs, NewNodes(nodes))
  BY DEF ListShift
<1>2. Same(a) /\ Ahead(Consume(cursor), NewNodes(nodes)) /\ Remarked(errs, errs)
  BY TopIsSame, HereIsAhead, NothingSaid
<1> HIDE DEF a
<1> QED
  BY <1>1, <1>2, ContinueMoves

LEMMA ListCloseMoves ==
  ASSUME IInv, Running, topRule.kind = "List", NEW allowed, ListClose(allowed)
  PROVE  BodyMoves
<1>1. CASE ListError
  BY <1>1, ListErrorMoves
<1>2. CASE Return(Success(TRUE), Consume(cursor), errs, created)
  <2>1. Success(TRUE) \in Results /\ Ahead(Consume(cursor), created) /\ Remarked(errs, errs)
    BY ResultsAre, HereIsAhead, NothingSaid
  <2> QED
    BY <1>2, <2>1, ReturnMoves
<1> QED
  BY <1>1, <1>2 DEF ListClose

LEMMA ListMoves ==
  ASSUME IInv, ListOpen \/ ListFirst \/ ListAfterElement \/ ListAfterSeparator
  PROVE  BodyMoves
<1>1. Running /\ topRule.kind = "List"
  BY AtHas DEF ListOpen, ListFirst, ListAfterElement, ListAfterSeparator
<1>2. \/ ListError \/ ListShift(0, 1) \/ ListShift(1, 1) \/ ListShift(2, 0)
      \/ \E allowed : ListClose(allowed)
  BY DEF ListOpen, ListFirst, ListAfterElement, ListAfterSeparator
<1> QED
  BY <1>1, <1>2, ListErrorMoves, ListShiftMoves, ListCloseMoves

-----------------------------------------------------------------------------
(* Sequences. *)

LEMMA MissingIsSaid == ASSUME IInv, Running PROVE Remarked(errs, MissingReported)
  BY NothingSaid, SomethingSaid DEF MissingReported

LEMMA FailureOfKind ==
  ASSUME NEW marker, NEW kind
  PROVE  Failure(sequenceCommitmentFailureKind(marker, kind)) \in Results
  BY ResultsAre DEF sequenceCommitmentFailureKind

LEMMA HereIsNat == ASSUME IInv
                   PROVE  PeekRaw(cursor).Start \in Nat /\ PeekRaw(Consume(cursor)).Start \in Nat
<1>1. cursor \in Nat /\ Consume(cursor) \in Nat
  BY InputHas, ConsumeAdvances DEF IInv
<1> QED
  BY <1>1, PeekRawIsNat

LEMMA SequenceMoves ==
  ASSUME IInv, SequenceBegin \/ SequenceAdvance \/ SequenceFail
  PROVE  BodyMoves
<1>1. Running /\ topRule.kind = "Sequence"
  BY AtHas DEF SequenceBegin, SequenceAdvance, SequenceFail
<1>2. CASE SequenceBegin
  <2> DEFINE a == [top EXCEPT !.next = 1, !.marker = PeekRaw(cursor).Start]
  <2>1. CallKid(a, 1, "Normal")
    BY <1>2 DEF SequenceBegin
  <2>2. Same(a)
    BY <1>1, TopIsSame2, HereIsNat
  <2>3. 1 \in 1 .. Len(kids)
    BY <1>1, RuleHas DEF Running, RunsAChild
  <2> HIDE DEF a
  <2> QED
    BY <1>1, <2>1, <2>2, <2>3, KidMoves
<1>3. CASE SequenceAdvance
  <2>1. Remarked(errs, MissingReported)
    BY <1>1, MissingIsSaid
  <2>2. CASE top.next < Len(kids)
    <3> DEFINE n == top.next + 1
               a == [top EXCEPT !.next = n]
    <3>1. Call(a, kids[n], "Normal", cursor, MissingReported, created)
      BY <1>3, <2>2 DEF SequenceAdvance
    <3>2. n \in Nat /\ n \in 1 .. Len(kids)
      BY <1>1, <2>2, TopHas, RuleHas DEF Running
    <3> HIDE DEF n
    <3>3. Same(a) /\ kids[n] \in DOMAIN Rule /\ Ahead(cursor, created)
      BY <1>1, <3>2, TopIsSame, KidIsRule, HereIsAhead
    <3> HIDE DEF a
    <3> QED
      BY <1>1, <2>1, <3>1, <3>3, CallMoves
  <2>3. CASE ~(top.next < Len(kids))
    <3> DEFINE n == IF topRule.transparent THEN 0 ELSE 1
    <3>1. Return(Success(TRUE), cursor, MissingReported, NewNodes(n))
      BY <1>3, <2>3 DEF SequenceAdvance
    <3>2. n \in Nat
      OBVIOUS
    <3> HIDE DEF n
    <3>3. Success(TRUE) \in Results /\ Ahead(cursor, NewNodes(n))
      BY <3>2, ResultsAre, HereIsAhead
    <3> QED
      BY <1>1, <2>1, <3>1, <3>3, ReturnMoves
  <2> QED
    BY <2>2, <2>3
<1>4. CASE SequenceFail
  <2> DEFINE result == Failure(sequenceCommitmentFailureKind(top.marker, ret.Kind))
  <2>1. Return(result, cursor, MissingReported, created)
    BY <1>4 DEF SequenceFail
  <2>2. result \in Results /\ Remarked(errs, MissingReported) /\ Ahead(cursor, created)
    BY <1>1, FailureOfKind, MissingIsSaid, HereIsAhead
  <2> HIDE DEF result
  <2> QED
    BY <1>1, <2>1, <2>2, ReturnMoves
<1> QED
  BY <1>2, <1>3, <1>4

-----------------------------------------------------------------------------
(* Rules around one rule. *)

LEMMA FirstKidMoves ==
  ASSUME IInv, Running, topRule.kind \in RunsAChild, topRule.kind # "Nest",
         NEW a, Same(a), NEW mode \in {"Normal", "Probe"}, CallKid(a, 1, mode)
  PROVE  BodyMoves
<1>1. 1 \in 1 .. Len(kids)
  BY RuleHas DEF Running
<1>2. topRule.kind # "Reference"
  BY DEF RunsAChild
<1> QED
  BY <1>1, <1>2, KidMoves

LEMMA GuardedMoves ==
  ASSUME IInv, NEW kind \in {"OptionalWhen", "Predict"}, NEW otherwise \in Results,
         Guarded(kind, otherwise)
  PROVE  BodyMoves
<1>1. Running /\ topRule.kind = kind
  BY AtHas DEF Guarded
<1>2. CallKid(top, 1, "Normal") \/ Give(otherwise)
  BY DEF Guarded
<1>3. topRule.kind \in RunsAChild /\ topRule.kind # "Nest"
  BY <1>1 DEF RunsAChild
<1>4. Same(top)
  BY <1>1, TopIsSame
<1> QED
  BY <1>1, <1>2, <1>3, <1>4, FirstKidMoves, GiveMoves

LEMMA AroundMoves ==
  ASSUME IInv,
         \/ OptionalBegin \/ OptionalEnd \/ OptionalWhenBegin \/ PredictBegin \/ RecoverSyncBegin
         \/ \E kind \in {"OptionalWhen", "Predict", "RecoverSync"} : ReturnKid(kind)
  PROVE  BodyMoves
<1>1. CASE OptionalBegin \/ RecoverSyncBegin
  <2>1. Running /\ topRule.kind \in {"Optional", "RecoverSync"}
    BY <1>1, AtHas DEF OptionalBegin, RecoverSyncBegin
  <2>2. topRule.kind \in RunsAChild /\ topRule.kind # "Nest" /\ Same(top)
    BY <2>1, TopIsSame DEF RunsAChild
  <2>3. \E mode \in {"Normal", "Probe"} : CallKid(top, 1, mode)
    BY <1>1 DEF OptionalBegin, RecoverSyncBegin
  <2> QED
    BY <2>1, <2>2, <2>3, FirstKidMoves
<1>2. CASE OptionalEnd
  <2>1. Running /\ topRule.kind = "Optional"
    BY <1>2, AtHas DEF OptionalEnd
  <2>2. Give(ret) \/ Give(Success(FALSE))
    BY <1>2 DEF OptionalEnd
  <2> QED
    BY <2>1, <2>2, ResultsAre, RetIsResult, GiveMoves
<1>3. CASE OptionalWhenBegin
  BY <1>3, ResultsAre, GuardedMoves DEF OptionalWhenBegin
<1>4. CASE PredictBegin
  BY <1>4, ResultsAre, GuardedMoves DEF PredictBegin
<1>5. ASSUME NEW kind \in {"OptionalWhen", "Predict", "RecoverSync"}, ReturnKid(kind)
      PROVE  BodyMoves
  <2>1. Running /\ topRule.kind = kind /\ Give(ret)
    BY <1>5, AtHas DEF ReturnKid
  <2> QED
    BY <2>1, RetIsResult, GiveMoves
<1> QED
  BY <1>1, <1>2, <1>3, <1>4, <1>5

LEMMA SuffixMoves == ASSUME IInv, OptionalSuffixBegin \/ OptionalSuffixEnd PROVE BodyMoves
<1>1. Running /\ topRule.kind = "OptionalSuffix"
  BY AtHas DEF OptionalSuffixBegin, OptionalSuffixEnd
<1>2. CASE OptionalSuffixBegin
  <2>1. topRule.kind \in RunsAChild /\ Same(top) /\ CallKid(top, 1, "Normal")
    BY <1>1, <1>2, TopIsSame DEF RunsAChild, OptionalSuffixBegin
  <2> QED
    BY <1>1, <2>1, FirstKidMoves
<1>3. CASE OptionalSuffixEnd
  <2>1. Return(Success(TRUE), Consume(cursor), errs, NewNodes(1)) \/ Give(ret)
    BY <1>3 DEF OptionalSuffixEnd
  <2>2. /\ Success(TRUE) \in Results /\ Ahead(Consume(cursor), NewNodes(1))
        /\ Remarked(errs, errs) /\ ret \in Results
    BY <1>1, ResultsAre, HereIsAhead, NothingSaid, RetIsResult
  <2> QED
    BY <1>1, <2>1, <2>2, ReturnMoves, GiveMoves
<1> QED
  BY <1>2, <1>3

LEMMA RequiredMoves == ASSUME IInv, RequiredBegin \/ RequiredEnd PROVE BodyMoves
<1>1. Running /\ topRule.kind = "Required"
  BY AtHas DEF RequiredBegin, RequiredEnd
<1>2. CASE RequiredBegin
  <2>1. topRule.kind \in RunsAChild /\ Same(top) /\ CallKid(top, 1, "Normal")
    BY <1>1, <1>2, TopIsSame DEF RunsAChild, RequiredBegin
  <2> QED
    BY <1>1, <2>1, FirstKidMoves
<1>3. CASE RequiredEnd
  <2> DEFINE s == Reported(ExpectedPosition(cursor))
  <2>1. Return(Failure(FailureError), cursor, s, created) \/ Give(ret)
    BY <1>3 DEF RequiredEnd
  <2>2. /\ Failure(FailureError) \in Results /\ Ahead(cursor, created)
        /\ Remarked(errs, s) /\ ret \in Results
    BY <1>1, ResultsAre, HereIsAhead, SomethingSaid, RetIsResult
  <2> HIDE DEF s
  <2> QED
    BY <1>1, <2>1, <2>2, ReturnMoves, GiveMoves
<1> QED
  BY <1>2, <1>3

LEMMA PrefixedMoves == ASSUME IInv, PrefixedBegin \/ PrefixedEnd PROVE BodyMoves
<1>1. Running /\ topRule.kind = "Prefixed"
  BY AtHas DEF PrefixedBegin, PrefixedEnd
<1>2. CASE PrefixedBegin
  <2> DEFINE a == [top EXCEPT !.marker = PeekRaw(Consume(cursor)).Start]
  <2>1. \/ Call(a, kids[1], "Normal", Consume(cursor), errs, created)
        \/ Give(Failure(FailureNoMatch))
    BY <1>2 DEF PrefixedBegin
  <2>2. Same(a)
    BY <1>1, TopIsSame, HereIsNat
  <2> HIDE DEF a
  <2>3. /\ kids[1] \in DOMAIN Rule /\ Ahead(Consume(cursor), created) /\ Remarked(errs, errs)
        /\ Failure(FailureNoMatch) \in Results
    BY <1>1, FirstKid, HereIsAhead, NothingSaid, ResultsAre DEF RunsAChild
  <2>4. CASE Call(a, kids[1], "Normal", Consume(cursor), errs, created)
    BY <1>1, <2>2, <2>3, <2>4, CallMoves
  <2>5. CASE Give(Failure(FailureNoMatch))
    BY <1>1, <2>3, <2>5, GiveMoves
  <2> QED
    BY <2>1, <2>4, <2>5
<1>3. CASE PrefixedEnd
  <2>1. Give(ret) \/ Give(InnerFailure)
    BY <1>3 DEF PrefixedEnd
  <2>2. InnerFailure \in Results /\ ret \in Results
    BY FailureOfKind, RetIsResult DEF InnerFailure
  <2> QED
    BY <1>1, <2>1, <2>2, GiveMoves
<1> QED
  BY <1>2, <1>3

-----------------------------------------------------------------------------
(* Nests. *)

LEMMA NestBeginMoves == ASSUME IInv, NestBegin PROVE BodyMoves
<1>1. Running /\ topRule.kind = "Nest" /\ control = "begin"
  BY AtHas DEF NestBegin
<1> DEFINE a == [top EXCEPT !.marker = PeekRaw(Consume(cursor)).Start]
           s == PushDelimiterBoundary(errs, Next0.Start)
<1>2. \/ Call(a, kids[1], "Normal", Consume(cursor), s, created)
      \/ Give(Failure(FailureNoMatch))
  BY DEF NestBegin
<1>3. Same(a)
  BY <1>1, TopIsSame, HereIsNat
<1>4. Opened(s)
  BY <1>1 DEF Opened
<1> HIDE DEF a, s
<1>5. kids[1] \in DOMAIN Rule /\ Ahead(Consume(cursor), created)
  BY <1>1, FirstKid, HereIsAhead DEF RunsAChild
<1>6. CASE Call(a, kids[1], "Normal", Consume(cursor), s, created)
  <2>1. Calls(a, kids[1], "Normal", Consume(cursor), s, created)
    BY <1>1, <1>3, <1>4, <1>5, <1>6 DEF Calls
  <2> QED
    BY <1>1, <2>1 DEF BodyMoves
<1>7. CASE Give(Failure(FailureNoMatch))
  BY <1>1, <1>7, ResultsAre, GiveMoves
<1> QED
  BY <1>2, <1>6, <1>7

LEMMA NestReturnMoves ==
  ASSUME IInv, Running, topRule.kind = "Nest", control = "resume", NEW result \in Results,
         NEW cur, NEW count, Ahead(cur, count), NEW q, Remarked(errs, q),
         Return(result, cur, PopDelimiterBoundary(q), count)
  PROVE  BodyMoves
<1> DEFINE s == PopDelimiterBoundary(q)
<1>1. Closed(s)
  BY DEF Closed
<1> HIDE DEF s
<1>2. Returns(result, cur, s, count)
  BY <1>1 DEF Returns, s
<1> QED
  BY <1>2 DEF BodyMoves

LEMMA NestEndMoves ==
  ASSUME IInv, NestInnerFails \/ NestCloses \/ NestCloseMissing
  PROVE  BodyMoves
<1>1. Running /\ topRule.kind = "Nest" /\ control = "resume"
  BY AtHas DEF NestInnerFails, NestCloses, NestCloseMissing
<1>2. Remarked(errs, errs)
  BY <1>1, NothingSaid
<1>3. CASE NestInnerFails
  <2>1. Return(InnerFailure, cursor, PopDelimiterBoundary(errs), created)
    BY <1>3 DEF NestInnerFails
  <2>2. InnerFailure \in Results /\ Ahead(cursor, created)
    BY FailureOfKind, HereIsAhead DEF InnerFailure
  <2> QED
    BY <1>1, <1>2, <2>1, <2>2, NestReturnMoves
<1>4. CASE NestCloses
  <2> DEFINE result == IF topRule.transparent THEN ret ELSE Success(TRUE)
             n == IF topRule.transparent THEN 0 ELSE 1
  <2>1. Return(result, Consume(cursor), PopDelimiterBoundary(errs), NewNodes(n))
    BY <1>4 DEF NestCloses
  <2>2. result \in Results /\ n \in Nat
    BY ResultsAre, RetIsResult
  <2> HIDE DEF result, n
  <2>3. Ahead(Consume(cursor), NewNodes(n))
    BY <2>2, HereIsAhead
  <2> QED
    BY <1>1, <1>2, <2>1, <2>2, <2>3, NestReturnMoves
<1>5. CASE NestCloseMissing
  <2> DEFINE q == IF HasCommittedErrorInsideCurrentDelimiterBoundary(errs) THEN errs
                  ELSE Reported(Next0.Start)
  <2>1. Return(Failure(FailureError), cursor, PopDelimiterBoundary(q), created)
    BY <1>5 DEF NestCloseMissing
  <2>2. Remarked(errs, q)
    BY <1>1, <1>2, SomethingSaid
  <2> HIDE DEF q
  <2>3. Failure(FailureError) \in Results /\ Ahead(cursor, created)
    BY ResultsAre, HereIsAhead
  <2> QED
    BY <1>1, <2>1, <2>2, <2>3, NestReturnMoves
<1> QED
  BY <1>3, <1>4, <1>5

-----------------------------------------------------------------------------
(* Root. *)

LEMMA RootMoves == ASSUME IInv, RootBegin \/ RootAdvance \/ RootFail PROVE BodyMoves
<1>1. Running /\ topRule.kind = "Root"
  BY AtHas DEF RootBegin, RootAdvance, RootFail
<1>2. CASE RootBegin
  <2> DEFINE a == [top EXCEPT !.next = 1]
  <2>1. Call(a, kids[1], "Normal", cursor, errs, NewNodes(1))
    BY <1>2 DEF RootBegin
  <2>2. Same(a) /\ kids[1] \in DOMAIN Rule /\ Ahead(cursor, NewNodes(1)) /\ Remarked(errs, errs)
    BY <1>1, TopIsSame, FirstKid, HereIsAhead, NothingSaid DEF RunsAChild
  <2> HIDE DEF a
  <2> QED
    BY <1>1, <2>1, <2>2, CallMoves
<1>3. CASE RootAdvance
  <2>1. CASE top.next < Len(kids)
    <3> DEFINE n == top.next + 1
               a == [top EXCEPT !.next = n]
    <3>1. CallKid(a, n, "Normal")
      BY <1>3, <2>1 DEF RootAdvance
    <3>2. n \in Nat /\ n \in 1 .. Len(kids)
      BY <1>1, <2>1, TopHas, RuleHas DEF Running
    <3> HIDE DEF n
    <3>3. Same(a)
      BY <1>1, <3>2, TopIsSame
    <3> HIDE DEF a
    <3> QED
      BY <1>1, <3>1, <3>2, <3>3, KidMoves
  <2>2. CASE ~(top.next < Len(kids))
    <3>1. Give(Success(TRUE))
      BY <1>3, <2>2 DEF RootAdvance
    <3> QED
      BY <1>1, <3>1, ResultsAre, GiveMoves
  <2> QED
    BY <2>1, <2>2
<1>4. CASE RootFail
  <2> DEFINE late == top.next > 1 /\ ret.Kind = FailureNoMatch
             result == [ret EXCEPT !.Node = TRUE, !.Kind = IF late THEN FailureError ELSE @]
             s == IF late /\ ~HasCommittedErrorSinceEntryRuleScope(errs)
                    THEN Reported(ExpectedPosition(cursor)) ELSE errs
  <2>1. Return(result, cursor, s, created)
    BY <1>4 DEF RootFail
  <2>2. result \in Results
    BY RetIsResult DEF Results
  <2>3. Remarked(errs, s)
    BY <1>1, NothingSaid, SomethingSaid
  <2> HIDE DEF result, s, late
  <2> QED
    BY <1>1, <2>1, <2>2, <2>3, HereIsAhead, ReturnMoves
<1> QED
  BY <1>2, <1>3, <1>4

-----------------------------------------------------------------------------
(* Repetitions. *)

LEMMA AttemptMoves ==
  ASSUME IInv, Running, topRule.kind = "Repetition", NEW n \in Nat, NEW count,
         Ahead(cursor, count),
         Attempt([top EXCEPT !.next = n], cursor, count) \/ Attempt(top, cursor, count)
  PROVE  BodyMoves
<1> DEFINE m == PeekRaw(cursor).Start
           a == [top EXCEPT !.next = n, !.marker = m]
           b == [top EXCEPT !.marker = m]
<1>1. m \in Nat
  BY HereIsNat
<1> HIDE DEF m
<1>2. Same(a) /\ Same(b)
  BY <1>1, TopIsSame, TopIsSame2
<1>3. \/ Call(a, kids[1], "Normal", cursor, errs, count)
      \/ Call(b, kids[1], "Normal", cursor, errs, count)
  <2>1. [[top EXCEPT !.next = n] EXCEPT !.marker = m] = a
    OBVIOUS
  <2> QED
    BY <2>1 DEF Attempt, m
<1>4. kids[1] \in DOMAIN Rule /\ Remarked(errs, errs)
  BY FirstKid, NothingSaid DEF RunsAChild
<1> HIDE DEF a, b
<1> QED
  BY <1>2, <1>3, <1>4, CallMoves

LEMMA RepetitionEndMoves ==
  ASSUME IInv, Running, topRule.kind = "Repetition", NEW count, RepetitionEnd(count)
  PROVE  BodyMoves
<1>1. Give(Failure(FailureNoMatch)) \/ Give(Success(TRUE))
  BY DEF RepetitionEnd
<1> QED
  BY <1>1, ResultsAre, GiveMoves

LEMMA RepetitionMoves ==
  ASSUME IInv,
         \/ RepetitionBegin \/ RepetitionBeginFull \/ RepetitionMatch \/ RepetitionStops
         \/ RepetitionPropagates \/ RepetitionRetries
  PROVE  BodyMoves
<1>1. Running /\ topRule.kind = "Repetition"
  BY AtHas DEF RepetitionBegin, RepetitionBeginFull, RepetitionMatch, RepetitionStops,
               RepetitionPropagates, RepetitionRetries
<1> DEFINE k == IF topRule.transparent THEN 0 ELSE 1
<1>2. k \in Nat
  OBVIOUS
<1> HIDE DEF k
<1>3. Ahead(cursor, NewNodes(k)) /\ Ahead(cursor, created) /\ Remarked(errs, errs)
  BY <1>1, <1>2, HereIsAhead, NothingSaid
<1>4. top.next + 1 \in Nat /\ 0 \in Nat
  BY <1>1, TopHas DEF Running
<1>5. CASE RepetitionBegin
  <2>1. Attempt(top, cursor, NewNodes(k))
    BY <1>5 DEF RepetitionBegin, k
  <2> QED
    BY <1>1, <1>3, <1>4, <2>1, AttemptMoves
<1>6. CASE RepetitionBeginFull
  <2>1. Return(Success(TRUE), cursor, errs, NewNodes(k))
    BY <1>6 DEF RepetitionBeginFull, k
  <2> QED
    BY <1>1, <1>3, <2>1, ResultsAre, ReturnMoves
<1>7. CASE RepetitionMatch
  <2>1. \/ RepetitionEnd(top.next + 1)
        \/ Attempt([top EXCEPT !.next = top.next + 1], cursor, created)
    BY <1>7 DEF RepetitionMatch
  <2>2. CASE RepetitionEnd(top.next + 1)
    BY <1>1, <2>2, RepetitionEndMoves
  <2>3. CASE Attempt([top EXCEPT !.next = top.next + 1], cursor, created)
    BY <1>1, <1>3, <1>4, <2>3, AttemptMoves
  <2> QED
    BY <2>1, <2>2, <2>3
<1>8. CASE RepetitionStops
  <2>1. RepetitionEnd(top.next)
    BY <1>8 DEF RepetitionStops
  <2> QED
    BY <1>1, <2>1, RepetitionEndMoves
<1>9. CASE RepetitionPropagates
  <2>1. Give(ret)
    BY <1>9 DEF RepetitionPropagates
  <2> QED
    BY <1>1, <2>1, RetIsResult, GiveMoves
<1>10. CASE RepetitionRetries
  <2>1. RepetitionEnd(top.next) \/ Attempt(top, cursor, created)
    BY <1>10 DEF RepetitionRetries
  <2>2. CASE RepetitionEnd(top.next)
    BY <1>1, <2>2, RepetitionEndMoves
  <2>3. CASE Attempt(top, cursor, created)
    BY <1>1, <1>3, <1>4, <2>3, AttemptMoves
  <2> QED
    BY <2>1, <2>2, <2>3
<1> QED
  BY <1>5, <1>6, <1>7, <1>8, <1>9, <1>10

-----------------------------------------------------------------------------
(* Choice and Reference. *)

LEMMA TryArmMoves ==
  ASSUME IInv, Running, topRule.kind = "Choice", NEW i \in Nat, TryArm(i)
  PROVE  BodyMoves
<1>1. CASE ArmsAfter(i) = {}
  <2>1. Give(Failure(FailureNoMatch))
    BY <1>1 DEF TryArm
  <2> QED
    BY <2>1, ResultsAre, GiveMoves
<1>2. CASE ArmsAfter(i) # {}
  <2> DEFINE T == ArmsAfter(i)
             j == CHOOSE j \in T : \A k \in T : j <= k
             a == [top EXCEPT !.next = j]
  <2>1. T \subseteq Nat /\ T \subseteq 1 .. Len(kids)
    <3>1. Len(kids) \in Nat
      BY RuleHas DEF Running
    <3> QED
      BY <3>1 DEF ArmsAfter
  <2>2. CallKid(a, j, "Normal")
    BY <1>2 DEF TryArm
  <2> HIDE DEF T
  <2>3. j \in T
    <3>1. \E n \in T : \A k \in T : n <= k
      BY <1>2, <2>1, LeastOf DEF T
    <3> QED
      BY <3>1
  <2> HIDE DEF j
  <2>4. Same(a) /\ j \in 1 .. Len(kids)
    BY <2>1, <2>3, TopIsSame
  <2> HIDE DEF a
  <2> QED
    BY <2>2, <2>4, KidMoves
<1> QED
  BY <1>1, <1>2

LEMMA ChoiceMoves == ASSUME IInv, ChoiceBegin \/ ChoiceEnd \/ ChoiceNextArm PROVE BodyMoves
<1>1. Running /\ topRule.kind = "Choice"
  BY AtHas DEF ChoiceBegin, ChoiceEnd, ChoiceNextArm
<1>2. TryArm(0) \/ TryArm(top.next) \/ Give(ret)
  BY DEF ChoiceBegin, ChoiceEnd, ChoiceNextArm
<1>3. 0 \in Nat /\ top.next \in Nat /\ ret \in Results
  BY <1>1, TopHas, RetIsResult DEF Running
<1> QED
  BY <1>1, <1>2, <1>3, TryArmMoves, GiveMoves

LEMMA ReferenceMoves == ASSUME IInv, ReferenceBegin PROVE BodyMoves
<1>1. Running /\ topRule.kind = "Reference" /\ control = "begin"
  BY AtHas DEF ReferenceBegin
<1>2. Registry[topRule.target].rule \in DOMAIN Rule
  BY <1>1, RuleHas DEF Running
<1>3. Refers
  BY <1>1, <1>2 DEF Refers, ReferenceBegin
<1> QED
  BY <1>1, <1>3 DEF BodyMoves

-----------------------------------------------------------------------------
(* Expressions. *)

(* A run of an expression goes on, with other runs and nodes. *)
LEMMA PrattContinues ==
  ASSUME IInv, Running, topRule.kind = "Pratt", NEW runs, NEW nodes,
         NEW cur, NEW count, Ahead(cur, count),
         \/ Continue([top EXCEPT !.runs = runs], cur, errs, count)
         \/ Continue([top EXCEPT !.runs = runs, !.nodes = nodes], cur, errs, count)
  PROVE  BodyMoves
<1> DEFINE a == [top EXCEPT !.runs = runs]
           b == [top EXCEPT !.runs = runs, !.nodes = nodes]
<1>1. Same(a) /\ Same(b) /\ Remarked(errs, errs)
  BY TopIsSame, TopIsSame2, NothingSaid
<1>2. Continue(a, cur, errs, count) \/ Continue(b, cur, errs, count)
  OBVIOUS
<1> HIDE DEF a, b
<1> QED
  BY <1>1, <1>2, ContinueMoves

LEMMA OperatorMoves ==
  ASSUME IInv, Running, topRule.kind = "Pratt", NEW o \in DOMAIN ops, ops[o].kid # 0,
         CallOperator(o)
  PROVE  BodyMoves
<1> DEFINE runs == Append(Pop(top.runs), [run EXCEPT !.op = o, !.mid = cursor, !.stage = "operator"])
           a == [top EXCEPT !.runs = runs]
<1>1. CallKid(a, ops[o].kid, "Normal")
  BY DEF CallOperator, WithRun
<1>2. ops[o].kid \in 1 .. Len(kids)
  <2>1. ops[o].kid \in 0 .. Len(kids) /\ Len(kids) \in Nat
    BY RuleHas DEF Running
  <2> QED
    BY <2>1
<1>3. Same(a)
  BY TopIsSame
<1> HIDE DEF a
<1> QED
  BY <1>1, <1>2, <1>3, KidMoves

LEMMA TokenOperatorMoves ==
  ASSUME IInv, Running, topRule.kind = "Pratt", NEW o, TakeToken(o)
  PROVE  BodyMoves
<1>1. Ahead(Consume(cursor), created)
  BY HereIsAhead
<1>2. \E runs : Continue([top EXCEPT !.runs = runs], Consume(cursor), errs, created)
  BY DEF TakeToken, RunFor
<1> QED
  BY <1>1, <1>2, PrattContinues

LEMMA TakenIsOperator ==
  ASSUME Operators # {}
  PROVE  Taken \in Operators /\ Taken \in DOMAIN ops
<1> DEFINE rank(i) == CASE ops[i].fix = "postfix" -> 1
                        [] ops[i].fix = "infix" -> 2
                        [] OTHER -> 3
<1>1. Taken = CHOOSE i \in Operators : \A j \in Operators : rank(i) <= rank(j)
  BY DEF Taken
<1>2. \E i \in Operators : \A j \in Operators : rank(i) <= rank(j)
  <2>0. \A i : rank(i) \in 1 .. 3
    OBVIOUS
  <2> HIDE DEF rank
  <2>1. CASE \E i \in Operators : rank(i) = 1
    BY <2>0, <2>1
  <2>2. CASE (\A i \in Operators : rank(i) # 1) /\ \E i \in Operators : rank(i) = 2
    BY <2>0, <2>2
  <2>3. CASE \A i \in Operators : rank(i) \notin {1, 2}
    BY <2>0, <2>3
  <2> QED
    BY <2>1, <2>2, <2>3
<1>3. Operators \subseteq DOMAIN ops
  BY DEF Operators
<1> HIDE DEF rank
<1> QED
  BY <1>1, <1>2, <1>3

LEMMA PrattMoves == ASSUME IInv, PrattStep PROVE BodyMoves
<1>1. Running /\ topRule.kind = "Pratt"
  BY AtHas DEF PrattStep, AmbiguityPanic, PrattBegin, TryPrefixOp, TryPrefixRuleOp,
               ParsePrimary, ParsePrimaryEnd, TryPostfixOp, TryInfixOp, TryRuleOp, RuleOpEnd,
               TryImplicitInfix, RunEnd, PrattEnd, Operand, Loop
<1>2. /\ Ahead(cursor, created) /\ Ahead(cursor, NewNodes(1))
      /\ Ahead(Consume(cursor), NewNodes(1)) /\ Remarked(errs, errs)
  BY <1>1, HereIsAhead, NothingSaid
<1>3. CASE AmbiguityPanic
  BY <1>1, <1>3 DEF AmbiguityPanic, BodyMoves, Panics
<1>4. CASE PrattBegin
  <2>1. \E runs : Continue([top EXCEPT !.runs = runs], cursor, errs, created)
    BY <1>4 DEF PrattBegin
  <2> QED
    BY <1>1, <1>2, <2>1, PrattContinues
<1>5. CASE TryPrefixOp
  <2>1. \E o : TakeToken(o)
    BY <1>5 DEF TryPrefixOp
  <2> QED
    BY <1>1, <2>1, TokenOperatorMoves
<1>6. CASE TryPrefixRuleOp
  <2>1. \E o \in DOMAIN ops : ops[o].kid # 0 /\ CallOperator(o)
    BY <1>6 DEF TryPrefixRuleOp, PrefixOperators, WithFix
  <2> QED
    BY <1>1, <2>1, OperatorMoves
<1>7. CASE ParsePrimary
  <2> DEFINE runs == Append(Pop(top.runs), [run EXCEPT !.stage = "primary"])
             a == [top EXCEPT !.runs = runs]
  <2>1. CallKid(a, 1, "Normal")
    BY <1>7 DEF ParsePrimary, WithRun
  <2>2. Same(a) /\ topRule.kind \in RunsAChild
    BY <1>1, TopIsSame DEF RunsAChild
  <2> HIDE DEF a
  <2> QED
    BY <1>1, <2>1, <2>2, FirstKidMoves
<1>8. CASE ParsePrimaryEnd
  <2>1. \/ Give(ret)
        \/ Return(Failure(FailureError), cursor, Reported(Next0.Start), created)
        \/ \E runs, nodes : Continue([top EXCEPT !.runs = runs, !.nodes = nodes],
                                     cursor, errs, created)
    BY <1>8 DEF ParsePrimaryEnd, WithLeft
  <2>2. Failure(FailureError) \in Results /\ Remarked(errs, Reported(Next0.Start))
        /\ ret \in Results
    BY <1>1, ResultsAre, SomethingSaid, RetIsResult
  <2>3. CASE Give(ret)
    BY <1>1, <2>2, <2>3, GiveMoves
  <2>4. CASE Return(Failure(FailureError), cursor, Reported(Next0.Start), created)
    BY <1>1, <1>2, <2>2, <2>4, ReturnMoves
  <2>5. CASE \E runs, nodes : Continue([top EXCEPT !.runs = runs, !.nodes = nodes],
                                       cursor, errs, created)
    BY <1>1, <1>2, <2>5, PrattContinues
  <2> QED
    BY <2>1, <2>3, <2>4, <2>5
<1>9. CASE TryPostfixOp
  <2>1. \E runs, nodes : Continue([top EXCEPT !.runs = runs, !.nodes = nodes],
                                  Consume(cursor), errs, NewNodes(1))
    BY <1>9 DEF TryPostfixOp, WithLeft
  <2> QED
    BY <1>1, <1>2, <2>1, PrattContinues
<1>10. CASE TryInfixOp
  BY <1>1, <1>10, TokenOperatorMoves DEF TryInfixOp
<1>11. CASE TryRuleOp
  <2>1. Taken \in DOMAIN ops /\ ops[Taken].kid # 0 /\ CallOperator(Taken)
    BY <1>11, TakenIsOperator DEF TryRuleOp
  <2> QED
    BY <1>1, <2>1, OperatorMoves
<1>12. CASE RuleOpEnd
  <2>1. \/ Give(ret)
        \/ \E runs, nodes : Continue([top EXCEPT !.runs = runs, !.nodes = nodes],
                                     cursor, errs, NewNodes(1))
        \/ \E runs : Continue([top EXCEPT !.runs = runs], cursor, errs, created)
    BY <1>12 DEF RuleOpEnd, WithLeft
  <2>2. CASE Give(ret)
    BY <1>1, <2>2, RetIsResult, GiveMoves
  <2>3. CASE \E runs, nodes : Continue([top EXCEPT !.runs = runs, !.nodes = nodes],
                                       cursor, errs, NewNodes(1))
    BY <1>1, <1>2, <2>3, PrattContinues
  <2>4. CASE \E runs : Continue([top EXCEPT !.runs = runs], cursor, errs, created)
    BY <1>1, <1>2, <2>4, PrattContinues
  <2> QED
    BY <2>1, <2>2, <2>3, <2>4
<1>13. CASE TryImplicitInfix
  <2>1. \E runs : Continue([top EXCEPT !.runs = runs], cursor, errs, created)
    BY <1>13 DEF TryImplicitInfix, RunFor
  <2> QED
    BY <1>1, <1>2, <2>1, PrattContinues
<1>14. CASE RunEnd
  <2>1. \E runs, nodes : Continue([top EXCEPT !.runs = runs, !.nodes = nodes],
                                  cursor, errs, NewNodes(1))
    BY <1>14 DEF RunEnd, WithLeft
  <2> QED
    BY <1>1, <1>2, <2>1, PrattContinues
<1>15. CASE PrattEnd
  <2>1. Give(Success(TRUE))
    BY <1>15 DEF PrattEnd
  <2> QED
    BY <1>1, <2>1, ResultsAre, GiveMoves
<1> QED
  BY <1>3, <1>4, <1>5, <1>6, <1>7, <1>8, <1>9, <1>10, <1>11, <1>12, <1>13, <1>14, <1>15
     DEF PrattStep

-----------------------------------------------------------------------------
(* Every step of a body is one of the moves. *)

LEMMA BodyStepMoves == ASSUME IInv, BodyStep PROVE BodyMoves
<1>1. CASE ExpectToken
  BY <1>1, ExpectMoves
<1>2. CASE ListOpen \/ ListFirst \/ ListAfterElement \/ ListAfterSeparator
  BY <1>2, ListMoves
<1>3. CASE SequenceBegin \/ SequenceAdvance \/ SequenceFail
  BY <1>3, SequenceMoves
<1>4. CASE \/ OptionalBegin \/ OptionalEnd
           \/ OptionalWhenBegin \/ PredictBegin \/ RecoverSyncBegin
           \/ ReturnKid("OptionalWhen") \/ ReturnKid("Predict") \/ ReturnKid("RecoverSync")
  BY <1>4, AroundMoves
<1>5. CASE OptionalSuffixBegin \/ OptionalSuffixEnd
  BY <1>5, SuffixMoves
<1>6. CASE RequiredBegin \/ RequiredEnd
  BY <1>6, RequiredMoves
<1>7. CASE PrefixedBegin \/ PrefixedEnd
  BY <1>7, PrefixedMoves
<1>8. CASE NestBegin
  BY <1>8, NestBeginMoves
<1>9. CASE NestInnerFails \/ NestCloses \/ NestCloseMissing
  BY <1>9, NestEndMoves
<1>10. CASE RootBegin \/ RootAdvance \/ RootFail
  BY <1>10, RootMoves
<1>11. CASE \/ RepetitionBegin \/ RepetitionBeginFull \/ RepetitionMatch \/ RepetitionStops
            \/ RepetitionPropagates \/ RepetitionRetries
  BY <1>11, RepetitionMoves
<1>12. CASE ChoiceBegin \/ ChoiceEnd \/ ChoiceNextArm
  BY <1>12, ChoiceMoves
<1>13. CASE ReferenceBegin
  BY <1>13, ReferenceMoves
<1>14. CASE PrattStep
  BY <1>14, PrattMoves
<1> QED
  BY <1>1, <1>2, <1>3, <1>4, <1>5, <1>6, <1>7, <1>8, <1>9, <1>10, <1>11, <1>12, <1>13, <1>14
     DEF BodyStep
=============================================================================
