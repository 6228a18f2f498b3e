------------------------- MODULE SyntaxErrorsProofs -------------------------
(***************************************************************************)
(* The diagnostic store is sound for every set of positions and without    *)
(* bounds on nesting or errors other than the named ones: its type, and    *)
(* the two invariants on the flat flight buffer, which follow from the     *)
(* correspondence of scopes and entries, ScopesOwnStore.  And it           *)
(* implements the log of nested transactions: what an operation does to    *)
(* the transactions is first stated of any store whose frames partition    *)
(* its flight.                                                             *)
(***************************************************************************)
EXTENDS SyntaxErrorsRefinement, SequenceTheorems, TLAPS

Store == [Errors : Seq(SyntaxError), stack : Seq(errorFrame), flight : Seq(SyntaxError),
          delimiterBoundaries : Seq(delimiterBoundary),
          entryRuleScopeDepth : Nat, entryRuleFlightBaseline : Nat]

(* Cutting a slice to its first n elements keeps them.                     *)
LEMMA CutProperties ==
  ASSUME NEW S, NEW s \in Seq(S), NEW n \in 0 .. Len(s)
  PROVE  /\ SubSeq(s, 1, n) \in Seq(S)
         /\ Len(SubSeq(s, 1, n)) = n
         /\ \A i \in 1 .. n : SubSeq(s, 1, n)[i] = s[i]
<1>1. \A i \in 1 .. n : s[i] \in S
  OBVIOUS
<1> QED
  BY <1>1, SubSeqProperties

(* Pop drops the last element (popFrame and PopDelimiterBoundary cut their *)
(* slices by one).                                                         *)
LEMMA PopProperties ==
  ASSUME NEW S, NEW s \in Seq(S), s # <<>>
  PROVE  /\ Len(s) \in Nat /\ Len(s) > 0
         /\ Pop(s) \in Seq(S)
         /\ Len(Pop(s)) = Len(s) - 1
         /\ \A i \in 1 .. Len(s) - 1 : Pop(s)[i] = s[i]
<1>1. Len(s) \in Nat /\ Len(s) > 0
  OBVIOUS
<1>2. Len(s) - 1 \in 0 .. Len(s)
  BY <1>1
<1> QED
  BY <1>1, <1>2, CutProperties DEF Pop

(* pushFrame appends a frame that remembers the length of the flight.      *)
LEMMA PushFrameProperties ==
  ASSUME NEW s \in Store
  PROVE  /\ pushFrame(s) \in Store
         /\ Len(pushFrame(s).stack) = Len(s.stack) + 1
         /\ \A i \in 1 .. Len(s.stack) : pushFrame(s).stack[i] = s.stack[i]
         /\ pushFrame(s).stack[Len(s.stack) + 1].commitStartIndex = Len(s.flight)
         /\ pushFrame(s) = [s EXCEPT !.stack = pushFrame(s).stack]
         /\ Pop(pushFrame(s).stack) = s.stack
<1> DEFINE f == [best |-> ZeroError, hasBest |-> FALSE, commitStartIndex |-> Len(s.flight)]
<1>1. f \in errorFrame /\ s.stack \in Seq(errorFrame)
  BY DEF Store, errorFrame
<1>2. pushFrame(s) = [s EXCEPT !.stack = Append(s.stack, f)]
  BY DEF pushFrame
<1>3. pushFrame(s).stack = Append(s.stack, f)
  BY <1>2 DEF Store
<1>4. Append(s.stack, f) \in Seq(errorFrame) /\ Pop(Append(s.stack, f)) = s.stack
  BY <1>1 DEF Pop
<1> DEFINE longer == Append(s.stack, f)
<1>5. pushFrame(s) \in Store
  <2> HIDE DEF f
  <2>1. longer \in Seq(errorFrame) /\ pushFrame(s) = [s EXCEPT !.stack = longer]
    BY <1>2, <1>4
  <2> HIDE DEF longer
  <2> QED
    BY <2>1 DEF Store
<1> QED
  BY <1>1, <1>2, <1>3, <1>4, <1>5, AppendProperties

(* Rolling back cuts the flight to where the frame began.                  *)
LEMMA RollbackProperties ==
  ASSUME NEW s \in Store, s.stack # <<>>, Top(s).commitStartIndex <= Len(s.flight)
  PROVE  /\ popFrame(s, FALSE) \in Store
         /\ popFrame(s, FALSE) = [s EXCEPT !.stack = Pop(s.stack),
                                          !.flight = popFrame(s, FALSE).flight]
         /\ Len(popFrame(s, FALSE).flight) = Top(s).commitStartIndex
<1> DEFINE n == Top(s).commitStartIndex
           cut == SubSeq(s.flight, 1, n)
<1>1. s.stack \in Seq(errorFrame) /\ s.flight \in Seq(SyntaxError)
  BY DEF Store
<1>2. Top(s) \in errorFrame
  BY <1>1 DEF Top
<1>3. n \in 0 .. Len(s.flight)
  BY <1>1, <1>2 DEF errorFrame
<1>4. cut \in Seq(SyntaxError) /\ Len(cut) = n
  BY <1>1, <1>3, CutProperties
<1>5. popFrame(s, FALSE) = [s EXCEPT !.stack = Pop(s.stack), !.flight = cut]
  BY DEF popFrame
<1>6. Pop(s.stack) \in Seq(errorFrame)
  BY <1>1, PopProperties
<1> HIDE DEF n, cut
<1>7. popFrame(s, FALSE).flight = cut
  BY <1>5 DEF Store
<1>8. popFrame(s, FALSE) \in Store
  BY <1>4, <1>5, <1>6 DEF Store
<1> QED
  BY <1>4, <1>5, <1>7, <1>8 DEF n

(* Committing hands the flight to the parent, longer by the best error if  *)
(* there is one; the last frame leaves no flight.                          *)
LEMMA CommitProperties ==
  ASSUME NEW s \in Store, s.stack # <<>>
  PROVE  /\ popFrame(s, TRUE) \in Store
         /\ popFrame(s, TRUE).stack = Pop(s.stack)
         /\ popFrame(s, TRUE).delimiterBoundaries = s.delimiterBoundaries
         /\ popFrame(s, TRUE).entryRuleScopeDepth = s.entryRuleScopeDepth
         /\ popFrame(s, TRUE).entryRuleFlightBaseline = s.entryRuleFlightBaseline
         /\ Len(s.stack) = 1 => popFrame(s, TRUE).flight = <<>>
         /\ Len(s.stack) # 1 => Len(popFrame(s, TRUE).flight) >= Len(s.flight)
<1> DEFINE rest == Pop(s.stack)
           kept == IF Top(s).hasBest THEN Append(s.flight, Top(s).best) ELSE s.flight
           all  == s.Errors \o kept
<1>1. s.stack \in Seq(errorFrame) /\ s.flight \in Seq(SyntaxError) /\ s.Errors \in Seq(SyntaxError)
  BY DEF Store
<1>2. Top(s) \in errorFrame
  BY <1>1 DEF Top
<1>3. kept \in Seq(SyntaxError) /\ Len(kept) >= Len(s.flight)
  <2>1. CASE Top(s).hasBest
    <3>1. Top(s).best \in SyntaxError
      BY <1>2, <2>1 DEF errorFrame
    <3> QED
      BY <1>1, <2>1, <3>1, AppendProperties
  <2>2. CASE ~Top(s).hasBest
    BY <1>1, <2>2
  <2> QED
    BY <2>1, <2>2
<1>4. all \in Seq(SyntaxError)
  BY <1>1, <1>3, ConcatProperties
<1>5. rest \in Seq(errorFrame) /\ Len(rest) = Len(s.stack) - 1 /\ Len(s.stack) \in Nat
  BY <1>1, PopProperties
<1>6. popFrame(s, TRUE) =
        IF rest = <<>> THEN [s EXCEPT !.stack = rest, !.Errors = all, !.flight = <<>>]
        ELSE [s EXCEPT !.stack = rest, !.flight = kept]
  BY DEF popFrame
<1> HIDE DEF rest, kept, all
<1>7. rest = <<>> <=> Len(s.stack) = 1
  <2>1. rest = <<>> <=> Len(rest) = 0
    BY <1>5, EmptySeq
  <2> QED
    BY <1>5, <2>1
<1>8. <<>> \in Seq(SyntaxError)
  OBVIOUS
<1>9. CASE rest = <<>>
  BY <1>3, <1>4, <1>5, <1>6, <1>7, <1>8, <1>9 DEF Store, rest
<1>10. CASE rest # <<>>
  BY <1>3, <1>5, <1>6, <1>7, <1>10 DEF Store, rest
<1> QED
  BY <1>9, <1>10

(* Opening a frame and rolling it back changes nothing: recovery, which    *)
(* runs in such a frame, leaves the store alone.                           *)
LEMMA PushThenRollback ==
  ASSUME NEW s \in Store
  PROVE  popFrame(pushFrame(s), FALSE) = s
<1> DEFINE p == pushFrame(s)
<1>1. /\ p \in Store /\ Len(p.stack) = Len(s.stack) + 1
      /\ p.stack[Len(s.stack) + 1].commitStartIndex = Len(s.flight)
      /\ p = [s EXCEPT !.stack = p.stack] /\ Pop(p.stack) = s.stack
  BY PushFrameProperties
<1>2. s.stack \in Seq(errorFrame) /\ s.flight \in Seq(SyntaxError)
  BY DEF Store
<1> HIDE DEF p
<1>3. Top(p).commitStartIndex = Len(s.flight) /\ p.flight = s.flight
  BY <1>1, <1>2 DEF Top, Store
<1>4. SubSeq(s.flight, 1, Len(s.flight)) = s.flight
  BY <1>2
<1>5. popFrame(p, FALSE) = [p EXCEPT !.stack = s.stack, !.flight = s.flight]
  BY <1>1, <1>3, <1>4 DEF popFrame
<1>6. [p EXCEPT !.stack = s.stack, !.flight = s.flight] = s
  BY <1>1, <1>2 DEF Store
<1> QED
  BY <1>5, <1>6 DEF p

(* report and replaceBest change the best error of the top frame only, or  *)
(* add a final error when no frame is open.                                *)
LEMMA SetBestProperties ==
  ASSUME NEW s \in Store, NEW err \in SyntaxError, s.stack # <<>>
  PROVE  /\ setBest(s, err) \in Store
         /\ setBest(s, err) = [s EXCEPT !.stack = setBest(s, err).stack]
         /\ Len(setBest(s, err).stack) = Len(s.stack)
         /\ \A i \in 1 .. Len(s.stack) :
               setBest(s, err).stack[i].commitStartIndex = s.stack[i].commitStartIndex
<1> DEFINE n == Len(s.stack)
           f == [Top(s) EXCEPT !.best = err, !.hasBest = TRUE]
           new == [s.stack EXCEPT ![n] = f]
<1>1. s.stack \in Seq(errorFrame) /\ n \in 1 .. Len(s.stack)
  BY DEF Store
<1>2. f \in errorFrame /\ f.commitStartIndex = s.stack[n].commitStartIndex
  <2>1. Top(s) = s.stack[n] /\ Top(s) \in errorFrame
    BY <1>1 DEF Top
  <2> DEFINE old == Top(s)
  <2> HIDE DEF old
  <2>2. old \in errorFrame /\ f = [old EXCEPT !.best = err, !.hasBest = TRUE]
    BY <2>1 DEF old
  <2>3. f \in errorFrame /\ f.commitStartIndex = old.commitStartIndex
    BY <2>2 DEF errorFrame
  <2> QED
    BY <2>1, <2>3 DEF old
<1>3. new \in Seq(errorFrame) /\ Len(new) = Len(s.stack)
      /\ \A i \in 1 .. Len(s.stack) : new[i] = IF i = n THEN f ELSE s.stack[i]
  BY <1>1, <1>2, ExceptSeq
<1>4. setBest(s, err) = [s EXCEPT !.stack = new]
  BY <1>1 DEF setBest, Store, Top
<1> HIDE DEF f, new
<1>5. setBest(s, err).stack = new /\ setBest(s, err) \in Store
  BY <1>3, <1>4 DEF Store
<1> QED
  BY <1>2, <1>3, <1>4, <1>5

-----------------------------------------------------------------------------
(* How opening and closing a scope preserve the correspondence, whatever   *)
(* kind of scope it is.                                                    *)

Scope == [kind : ScopeKind, index : Nat, at : Nat]

Correspond(st, sc) ==
  ScopesOwnEntries(st, sc) /\ ScopesAreOrdered(sc) /\ EntriesHaveScopes(st, sc)

(* The number of entries of each kind is a natural number.                 *)
LEMMA EntriesType ==
  ASSUME NEW s \in Store, NEW kind \in ScopeKind
  PROVE  Entries(s, kind) \in Nat
BY DEF Entries, Store, ScopeKind

(* The innermost scope owns the last entry of its kind.                    *)
LEMMA InnermostOwnsLast ==
  ASSUME NEW s \in Store, NEW sc \in Seq(Scope), sc # <<>>, Correspond(s, sc)
  PROVE  /\ sc[Len(sc)] \in Scope
         /\ Entries(s, sc[Len(sc)].kind) > 0
         /\ sc[Len(sc)].index = Entries(s, sc[Len(sc)].kind)
<1> DEFINE last == sc[Len(sc)]
           n == Entries(s, last.kind)
<1>1. Len(sc) \in DOMAIN sc /\ DOMAIN sc = 1 .. Len(sc) /\ last \in Scope
  OBVIOUS
<1>2. last.kind \in ScopeKind /\ last.index \in Nat
  BY <1>1 DEF Scope
<1>3. n \in Nat
  BY <1>2, EntriesType
<1>4. last.index \in 1 .. n
  BY <1>1 DEF Correspond, ScopesOwnEntries, OwnsEntry
<1>5. n \in 1 .. n
  BY <1>3, <1>4
<1>6. PICK i \in DOMAIN sc : sc[i].kind = last.kind /\ sc[i].index = n
  BY <1>2, <1>5 DEF Correspond, EntriesHaveScopes
<1>7. i = Len(sc) \/ i < Len(sc)
  BY <1>1, <1>6
<1>8. CASE i < Len(sc)
  <2>1. sc[i].index < last.index
    BY <1>1, <1>6, <1>8 DEF Correspond, ScopesAreOrdered
  <2> QED
    BY <1>2, <1>3, <1>4, <1>6, <2>1
<1> QED
  BY <1>1, <1>3, <1>4, <1>6, <1>7, <1>8

(* Opening a scope adds the next entry of its kind.                        *)
LEMMA OpenPreserves ==
  ASSUME NEW s \in Store, NEW t \in Store, NEW sc \in Seq(Scope), NEW k \in ScopeKind,
         Correspond(s, sc), Len(t.flight) = Len(s.flight),
         \A kind \in ScopeKind :
            Entries(t, kind) = IF kind = k THEN Entries(s, kind) + 1 ELSE Entries(s, kind),
         \A kind \in ScopeKind : \A n \in 1 .. Entries(s, kind) :
            Remembers(kind, n) => StartOf(t, kind, n) = StartOf(s, kind, n),
         Remembers(k, Entries(s, k) + 1) => StartOf(t, k, Entries(s, k) + 1) = Len(s.flight)
  PROVE  LET new == [kind |-> k, index |-> Entries(s, k) + 1, at |-> Len(s.flight)]
         IN  Append(sc, new) \in Seq(Scope) /\ Correspond(t, Append(sc, new))
<1> DEFINE new == [kind |-> k, index |-> Entries(s, k) + 1, at |-> Len(s.flight)]
           sc2 == Append(sc, new)
<1>1. Len(s.flight) \in Nat /\ \A kind \in ScopeKind : Entries(s, kind) \in Nat
  BY EntriesType DEF Store
<1>2. new \in Scope
  BY <1>1 DEF Scope
<1>3. /\ sc2 \in Seq(Scope) /\ Len(sc2) = Len(sc) + 1 /\ Len(sc) \in Nat
      /\ \A i \in 1 .. Len(sc) : sc2[i] = sc[i] /\ sc[i] \in Scope
      /\ sc2[Len(sc) + 1] = new
  BY <1>2, AppendProperties
<1>4. DOMAIN sc2 = 1 .. Len(sc) + 1 /\ DOMAIN sc = 1 .. Len(sc)
  BY <1>3
<1>5. new.kind = k /\ new.index = Entries(s, k) + 1 /\ new.at = Len(s.flight)
  OBVIOUS
<1> HIDE DEF new, sc2
<1>6. \A i \in 1 .. Len(sc) : OwnsEntry(s, sc[i]) /\ sc[i].kind \in ScopeKind
                              /\ sc[i].index \in Nat /\ sc[i].at \in Nat
  BY <1>3, <1>4 DEF Correspond, ScopesOwnEntries, Scope
<1>7. ScopesOwnEntries(t, sc2)
  <2>1. OwnsEntry(t, new)
    BY <1>1, <1>5 DEF OwnsEntry
  <2>2. \A i \in 1 .. Len(sc) : OwnsEntry(t, sc[i])
    BY <1>1, <1>6 DEF OwnsEntry
  <2> QED
    BY <1>3, <1>4, <2>1, <2>2 DEF ScopesOwnEntries
<1>8. ScopesAreOrdered(sc2)
  <2>1. \A i \in 1 .. Len(sc) : sc[i].at <= new.at
    BY <1>5, <1>6 DEF OwnsEntry
  <2>2. \A i \in 1 .. Len(sc) : sc[i].kind = new.kind => sc[i].index < new.index
    BY <1>1, <1>5, <1>6 DEF OwnsEntry
  <2>3. \A i, j \in 1 .. Len(sc) :
          i < j => /\ sc[i].at <= sc[j].at
                   /\ sc[i].kind = sc[j].kind => sc[i].index < sc[j].index
    BY <1>4 DEF Correspond, ScopesAreOrdered
  <2> QED
    BY <1>3, <1>4, <2>1, <2>2, <2>3 DEF ScopesAreOrdered
<1>9. EntriesHaveScopes(t, sc2)
  <2> SUFFICES ASSUME NEW kind \in ScopeKind, NEW n \in 1 .. Entries(t, kind)
               PROVE  \E i \in DOMAIN sc2 : sc2[i].kind = kind /\ sc2[i].index = n
    BY DEF EntriesHaveScopes
  <2>1. CASE n \in 1 .. Entries(s, kind)
    <3>1. PICK i \in DOMAIN sc : sc[i].kind = kind /\ sc[i].index = n
      BY <2>1 DEF Correspond, EntriesHaveScopes
    <3> QED
      BY <1>3, <1>4, <3>1
  <2>2. CASE n \notin 1 .. Entries(s, kind)
    <3>1. kind = k /\ n = Entries(s, k) + 1
      BY <1>1, <2>2
    <3> QED
      BY <1>3, <1>4, <1>5, <3>1
  <2> QED
    BY <2>1, <2>2
<1> QED
  BY <1>3, <1>7, <1>8, <1>9 DEF Correspond, new, sc2

(* Closing the innermost scope removes the last entry of its kind; the     *)
(* flight may shrink, but not below where a remaining scope began.         *)
LEMMA ClosePreserves ==
  ASSUME NEW s \in Store, NEW t \in Store, NEW sc \in Seq(Scope), sc # <<>>, Correspond(s, sc),
         NEW k, k = sc[Len(sc)].kind,
         \A kind \in ScopeKind :
            Entries(t, kind) = IF kind = k THEN Entries(s, kind) - 1 ELSE Entries(s, kind),
         \A kind \in ScopeKind : \A n \in 1 .. Entries(t, kind) :
            Remembers(kind, n) => StartOf(t, kind, n) = StartOf(s, kind, n),
         \A i \in 1 .. Len(sc) - 1 : sc[i].at <= Len(t.flight)
  PROVE  Pop(sc) \in Seq(Scope) /\ Correspond(t, Pop(sc))
<1> DEFINE sc2 == Pop(sc)
<1>1. /\ Len(sc) \in Nat /\ Len(sc) > 0 /\ sc2 \in Seq(Scope) /\ Len(sc2) = Len(sc) - 1
      /\ \A i \in 1 .. Len(sc) - 1 : sc2[i] = sc[i]
  BY PopProperties
<1>2. DOMAIN sc2 = 1 .. Len(sc) - 1 /\ DOMAIN sc = 1 .. Len(sc)
  BY <1>1
<1> HIDE DEF sc2
<1>3. /\ sc[Len(sc)] \in Scope /\ Entries(s, k) > 0 /\ sc[Len(sc)].index = Entries(s, k)
  BY InnermostOwnsLast
<1>4. k \in ScopeKind /\ \A kind \in ScopeKind : Entries(s, kind) \in Nat
  BY <1>3, EntriesType DEF Scope
<1>5. \A i \in 1 .. Len(sc) - 1 :
        /\ OwnsEntry(s, sc[i]) /\ sc[i].kind \in ScopeKind /\ sc[i].index \in Nat
        /\ sc[i].kind = k => sc[i].index < Entries(s, k)
  <2> SUFFICES ASSUME NEW i \in 1 .. Len(sc) - 1
               PROVE  /\ OwnsEntry(s, sc[i]) /\ sc[i].kind \in ScopeKind /\ sc[i].index \in Nat
                      /\ sc[i].kind = k => sc[i].index < Entries(s, k)
    OBVIOUS
  <2>1. i \in DOMAIN sc /\ Len(sc) \in DOMAIN sc /\ i < Len(sc)
    BY <1>1, <1>2
  <2>2. sc[i].kind = sc[Len(sc)].kind => sc[i].index < sc[Len(sc)].index
    BY <2>1 DEF Correspond, ScopesAreOrdered
  <2>3. sc[i] \in Scope
    BY <2>1
  <2>4. OwnsEntry(s, sc[i])
    BY <2>1 DEF Correspond, ScopesOwnEntries
  <2> QED
    BY <1>3, <2>2, <2>3, <2>4 DEF Scope
<1>6. ScopesOwnEntries(t, sc2)
  <2>1. \A i \in 1 .. Len(sc) - 1 : sc[i].index \in 1 .. Entries(t, sc[i].kind)
    BY <1>4, <1>5, SMTT(60) DEF OwnsEntry
  <2>2. \A i \in 1 .. Len(sc) - 1 : OwnsEntry(t, sc[i])
    BY <1>5, <2>1 DEF OwnsEntry
  <2> QED
    BY <1>1, <1>2, <2>2 DEF ScopesOwnEntries
<1>7. ScopesAreOrdered(sc2)
  <2>1. \A i \in DOMAIN sc2 : i \in DOMAIN sc /\ sc2[i] = sc[i]
    BY <1>1, <1>2
  <2> QED
    BY <2>1 DEF Correspond, ScopesAreOrdered
<1>8. EntriesHaveScopes(t, sc2)
  <2> SUFFICES ASSUME NEW kind \in ScopeKind, NEW n \in 1 .. Entries(t, kind)
               PROVE  \E i \in DOMAIN sc2 : sc2[i].kind = kind /\ sc2[i].index = n
    BY DEF EntriesHaveScopes
  <2>1. n \in 1 .. Entries(s, kind)
    BY <1>4
  <2>2. PICK i \in DOMAIN sc : sc[i].kind = kind /\ sc[i].index = n
    BY <2>1 DEF Correspond, EntriesHaveScopes
  <2>3. i # Len(sc)
    BY <1>3, <1>4, <2>2
  <2> QED
    BY <1>1, <1>2, <2>2, <2>3
<1> QED
  BY <1>1, <1>6, <1>7, <1>8 DEF Correspond, sc2

-----------------------------------------------------------------------------
(* Every operation of the store, on a store whose scopes correspond. *)

Inv == TypeOK /\ ScopesOwnStore

(* Inv, in terms of Store, Scope and Correspond.                           *)
LEMMA InvParts ==
  Inv <=> /\ se \in Store /\ scopes \in Seq(Scope) /\ Correspond(se, scopes)
          /\ FlightHasOwner(se)
BY DEF Inv, TypeOK, ScopesOwnStore, Store, Scope, Correspond

(* pushFrame (syntax_errors.go:61-65).                                     *)
LEMMA PushFrameStep == Inv /\ PushFrame => Inv'
<1> SUFFICES ASSUME Inv, PushFrame PROVE Inv'
  OBVIOUS
<1>1. se \in Store /\ scopes \in Seq(Scope) /\ Correspond(se, scopes) /\ FlightHasOwner(se)
  BY InvParts
<1>2. /\ se' = pushFrame(se)
      /\ scopes' = Append(scopes, [kind |-> "frame", index |-> Len(se.stack) + 1,
                                   at |-> Len(se.flight)])
  BY DEF PushFrame, Open
<1>3. /\ se' \in Store /\ Len(se'.stack) = Len(se.stack) + 1
      /\ \A i \in 1 .. Len(se.stack) : se'.stack[i] = se.stack[i]
      /\ se'.stack[Len(se.stack) + 1].commitStartIndex = Len(se.flight)
      /\ se' = [se EXCEPT !.stack = se'.stack]
  BY <1>1, <1>2, PushFrameProperties
<1>4. /\ se'.flight = se.flight /\ se'.delimiterBoundaries = se.delimiterBoundaries
      /\ se'.entryRuleScopeDepth = se.entryRuleScopeDepth
      /\ se'.entryRuleFlightBaseline = se.entryRuleFlightBaseline
  BY <1>1, <1>3 DEF Store
<1>5. "frame" \in ScopeKind /\ Entries(se, "frame") = Len(se.stack)
  BY DEF ScopeKind, Entries
<1>6. \A kind \in ScopeKind :
        Entries(se', kind) = IF kind = "frame" THEN Entries(se, kind) + 1 ELSE Entries(se, kind)
  BY <1>3, <1>4 DEF ScopeKind, Entries
<1>7. \A kind \in ScopeKind : \A n \in 1 .. Entries(se, kind) :
        Remembers(kind, n) => StartOf(se', kind, n) = StartOf(se, kind, n)
  BY <1>3, <1>4 DEF ScopeKind, Entries, StartOf
<1>8. StartOf(se', "frame", Entries(se, "frame") + 1) = Len(se.flight)
  BY <1>3, <1>5 DEF StartOf
<1>9. scopes' \in Seq(Scope) /\ Correspond(se', scopes')
  BY <1>1, <1>2, <1>3, <1>4, <1>5, <1>6, <1>7, <1>8, OpenPreserves, SMTT(60)
<1>10. FlightHasOwner(se')
  <2>1. se.stack \in Seq(errorFrame) /\ se'.stack \in Seq(errorFrame)
    BY <1>1, <1>3 DEF Store
  <2>2. se'.stack # <<>>
    BY <1>3, <2>1
  <2>3. CASE se.stack = <<>>
    BY <1>1, <1>3, <2>2, <2>3 DEF FlightHasOwner
  <2>4. CASE se.stack # <<>>
    BY <1>1, <1>3, <2>1, <2>2, <2>4 DEF FlightHasOwner
  <2> QED
    BY <2>3, <2>4
<1> QED
  <2>1. se' \in Store /\ scopes' \in Seq(Scope) /\ Correspond(se', scopes') /\ FlightHasOwner(se')
    BY <1>3, <1>9, <1>10
  <2> QED
    BY <2>1 DEF Inv, TypeOK, ScopesOwnStore, Store, Scope, Correspond

(* popFrame: what commit and rollback have in common.  The innermost scope *)
(* is the frame's, and the flight is left at least as long as every other  *)
(* scope needs it (syntax_errors.go:67-94).                                *)
LEMMA PopPreserves ==
  ASSUME NEW s \in Store, NEW t \in Store, NEW sc \in Seq(Scope), sc # <<>>,
         Correspond(s, sc), FlightHasOwner(s), sc[Len(sc)].kind = "frame",
         t.stack = Pop(s.stack), t.delimiterBoundaries = s.delimiterBoundaries,
         t.entryRuleScopeDepth = s.entryRuleScopeDepth,
         t.entryRuleFlightBaseline = s.entryRuleFlightBaseline,
         s.stack # <<>>,
         \/ Len(t.flight) = Top(s).commitStartIndex
         \/ Len(s.stack) # 1 /\ Len(t.flight) >= Len(s.flight)
         \/ Len(s.stack) = 1 /\ t.flight = <<>>,
         Len(s.stack) = 1 => t.flight = <<>>
  PROVE  Pop(sc) \in Seq(Scope) /\ Correspond(t, Pop(sc)) /\ FlightHasOwner(t)
<1>1. /\ Len(s.stack) \in Nat /\ Len(s.stack) > 0 /\ Len(t.stack) = Len(s.stack) - 1
      /\ t.stack \in Seq(errorFrame) /\ s.stack \in Seq(errorFrame)
      /\ \A i \in 1 .. Len(s.stack) - 1 : t.stack[i] = s.stack[i]
  BY PopProperties, SMTT(60) DEF Store
<1>2. \A kind \in ScopeKind :
        Entries(t, kind) = IF kind = "frame" THEN Entries(s, kind) - 1 ELSE Entries(s, kind)
  BY <1>1 DEF ScopeKind, Entries
<1>3. \A kind \in ScopeKind : \A n \in 1 .. Entries(t, kind) :
        Remembers(kind, n) => StartOf(t, kind, n) = StartOf(s, kind, n)
  BY <1>1 DEF ScopeKind, Entries, StartOf
<1>4. /\ sc[Len(sc)] \in Scope /\ sc[Len(sc)].index = Len(s.stack)
  BY InnermostOwnsLast DEF Entries
<1>5. Len(sc) \in DOMAIN sc /\ DOMAIN sc = 1 .. Len(sc) /\ Len(sc) \in Nat
  OBVIOUS
<1>6. sc[Len(sc)].at = Top(s).commitStartIndex
  <2>1. OwnsEntry(s, sc[Len(sc)])
    BY <1>5 DEF Correspond, ScopesOwnEntries
  <2> QED
    BY <1>4, <2>1 DEF OwnsEntry, Remembers, StartOf, Top
<1>7. \A i \in 1 .. Len(sc) - 1 :
        /\ sc[i].at \in Nat /\ sc[i].at <= Len(s.flight) /\ sc[i].at <= Top(s).commitStartIndex
  <2> SUFFICES ASSUME NEW i \in 1 .. Len(sc) - 1
               PROVE  /\ sc[i].at \in Nat /\ sc[i].at <= Len(s.flight)
                      /\ sc[i].at <= Top(s).commitStartIndex
    OBVIOUS
  <2>1. i \in DOMAIN sc /\ i < Len(sc)
    BY <1>5
  <2>2. sc[i] \in Scope /\ OwnsEntry(s, sc[i]) /\ sc[i].at <= sc[Len(sc)].at
    BY <1>5, <2>1 DEF Correspond, ScopesOwnEntries, ScopesAreOrdered
  <2> QED
    BY <1>6, <2>2 DEF Scope, OwnsEntry
<1>8. \A i \in 1 .. Len(sc) - 1 : sc[i].at <= Len(t.flight)
  <2>1. CASE Len(t.flight) = Top(s).commitStartIndex
    BY <1>7, <2>1
  <2>2. CASE Len(t.flight) >= Len(s.flight)
    <3>1. Len(t.flight) \in Nat /\ Len(s.flight) \in Nat
      BY DEF Store
    <3> QED
      BY <1>7, <2>2, <3>1
  <2>3. CASE Len(s.stack) = 1 /\ t.flight = <<>>
    <3>1. Top(s).commitStartIndex = 0 /\ Len(t.flight) = 0
      BY <2>3 DEF FlightHasOwner, Top
    <3> QED
      BY <1>7, <3>1
  <2> QED
    BY <2>1, <2>2, <2>3
<1>9. Pop(sc) \in Seq(Scope) /\ Correspond(t, Pop(sc))
  BY <1>2, <1>3, <1>8, ClosePreserves
<1>10. FlightHasOwner(t)
  <2>1. CASE Len(s.stack) = 1
    <3>1. t.stack = <<>>
      BY <1>1, <2>1, EmptySeq
    <3> QED
      BY <2>1, <3>1 DEF FlightHasOwner
  <2>2. CASE Len(s.stack) # 1
    <3>1. 1 \in 1 .. Len(s.stack) - 1 /\ Len(t.stack) > 0
      <4>1. \A m \in Nat : m > 0 /\ m # 1 => 1 \in 1 .. m - 1 /\ m - 1 > 0
        OBVIOUS
      <4>2. /\ Len(s.stack) \in Nat /\ Len(s.stack) > 0 /\ Len(s.stack) # 1
            /\ Len(t.stack) = Len(s.stack) - 1
        BY <1>1, <2>2
      <4> QED
        BY <4>1, <4>2
    <3>2. t.stack[1] = s.stack[1]
      BY <1>1, <3>1
    <3>3. t.stack # <<>>
      BY <1>1, <3>1, EmptySeq
    <3> QED
      BY <3>2, <3>3 DEF FlightHasOwner
  <2> QED
    BY <2>1, <2>2
<1> QED
  BY <1>9, <1>10

(* The scope that a deferred close belongs to is the innermost one.        *)
LEMMA CloseFacts ==
  ASSUME Inv, NEW kind, Close(kind)
  PROVE  /\ se \in Store /\ scopes \in Seq(Scope) /\ Correspond(se, scopes)
         /\ FlightHasOwner(se)
         /\ scopes # <<>> /\ scopes[Len(scopes)].kind = kind /\ scopes' = Pop(scopes)
         /\ kind \in ScopeKind /\ Entries(se, kind) > 0
<1>1. /\ se \in Store /\ scopes \in Seq(Scope) /\ Correspond(se, scopes)
      /\ FlightHasOwner(se)
  BY InvParts
<1>2. scopes # <<>> /\ scopes[Len(scopes)].kind = kind /\ scopes' = Pop(scopes)
  BY DEF Close
<1>3. scopes[Len(scopes)] \in Scope /\ Entries(se, kind) > 0
  BY <1>1, <1>2, InnermostOwnsLast
<1> QED
  BY <1>1, <1>2, <1>3 DEF Scope

(* A committing pop keeps the invariant.                                   *)
LEMMA CommitStep ==
  ASSUME Inv, Close("frame"), se' = popFrame(se, TRUE)
  PROVE  Inv'
<1>1. /\ se \in Store /\ scopes \in Seq(Scope) /\ Correspond(se, scopes)
      /\ FlightHasOwner(se)
      /\ scopes # <<>> /\ scopes[Len(scopes)].kind = "frame" /\ scopes' = Pop(scopes)
      /\ Len(se.stack) > 0
  BY CloseFacts DEF Entries
<1>2. se.stack # <<>>
  BY <1>1
<1>3. /\ se' \in Store /\ se'.stack = Pop(se.stack)
      /\ se'.delimiterBoundaries = se.delimiterBoundaries
      /\ se'.entryRuleScopeDepth = se.entryRuleScopeDepth
      /\ se'.entryRuleFlightBaseline = se.entryRuleFlightBaseline
      /\ Len(se.stack) = 1 => se'.flight = <<>>
      /\ Len(se.stack) # 1 => Len(se'.flight) >= Len(se.flight)
  BY <1>1, <1>2, CommitProperties
<1>4. Pop(scopes) \in Seq(Scope) /\ Correspond(se', Pop(scopes)) /\ FlightHasOwner(se')
  BY <1>1, <1>2, <1>3, PopPreserves
<1> QED
  BY <1>1, <1>3, <1>4 DEF Inv, TypeOK, ScopesOwnStore, Store, Scope, Correspond

(* A rolling-back pop keeps the invariant.                                 *)
LEMMA RollbackStep ==
  ASSUME Inv, Close("frame"), se' = popFrame(se, FALSE)
  PROVE  Inv'
<1>1. /\ se \in Store /\ scopes \in Seq(Scope) /\ Correspond(se, scopes)
      /\ FlightHasOwner(se)
      /\ scopes # <<>> /\ scopes[Len(scopes)].kind = "frame" /\ scopes' = Pop(scopes)
      /\ Len(se.stack) > 0
  BY CloseFacts DEF Entries
<1>2. se.stack # <<>> /\ se.stack \in Seq(errorFrame)
  BY <1>1 DEF Store
<1>3. Top(se).commitStartIndex <= Len(se.flight)
  <2>1. scopes[Len(scopes)].index = Len(se.stack)
    BY <1>1, InnermostOwnsLast DEF Entries
  <2>2. OwnsEntry(se, scopes[Len(scopes)])
    BY <1>1 DEF Correspond, ScopesOwnEntries
  <2> QED
    BY <1>1, <2>1, <2>2 DEF OwnsEntry, Remembers, StartOf, Top
<1>4. /\ se' \in Store
      /\ se' = [se EXCEPT !.stack = Pop(se.stack), !.flight = se'.flight]
      /\ Len(se'.flight) = Top(se).commitStartIndex
  BY <1>1, <1>2, <1>3, RollbackProperties
<1>5. /\ se'.stack = Pop(se.stack) /\ se'.delimiterBoundaries = se.delimiterBoundaries
      /\ se'.entryRuleScopeDepth = se.entryRuleScopeDepth
      /\ se'.entryRuleFlightBaseline = se.entryRuleFlightBaseline
  BY <1>1, <1>4 DEF Store
<1>6. Len(se.stack) = 1 => se'.flight = <<>>
  <2> SUFFICES ASSUME Len(se.stack) = 1 PROVE se'.flight = <<>>
    OBVIOUS
  <2>1. Len(se'.flight) = 0
    BY <1>1, <1>2, <1>4 DEF FlightHasOwner, Top
  <2>2. se'.flight \in Seq(SyntaxError)
    BY <1>4 DEF Store
  <2> QED
    BY <2>1, <2>2, EmptySeq
<1>7. Pop(scopes) \in Seq(Scope) /\ Correspond(se', Pop(scopes)) /\ FlightHasOwner(se')
  BY <1>1, <1>2, <1>4, <1>5, <1>6, PopPreserves
<1> QED
  BY <1>1, <1>4, <1>7 DEF Inv, TypeOK, ScopesOwnStore, Store, Scope, Correspond

(* The failure path of handleFailureState is a commit (parser.go:443-448). *)
LEMMA FailFrameStep ==
  ASSUME Inv, FailFrame
  PROVE  Inv'
<1>1. se \in Store /\ Len(se.stack) > 0 /\ Close("frame")
  BY CloseFacts DEF Entries, FailFrame
<1>2. popFrame(se, TRUE) \in Store
  <2>1. se.stack # <<>>
    BY <1>1
  <2> QED
    BY <1>1, <2>1, CommitProperties
<1>3. se' = popFrame(se, TRUE)
  BY <1>2, PushThenRollback DEF FailFrame
<1> QED
  BY <1>1, <1>3, CommitStep

(* A step that opens no scope and leaves every entry, its start and the    *)
(* flight as they were keeps the correspondence.                           *)
LEMMA SameEntriesPreserve ==
  ASSUME NEW s \in Store, NEW t \in Store, NEW sc \in Seq(Scope),
         Correspond(s, sc), FlightHasOwner(s),
         t.flight = s.flight, Len(t.stack) = Len(s.stack),
         \A i \in 1 .. Len(s.stack) : t.stack[i].commitStartIndex = s.stack[i].commitStartIndex,
         t.delimiterBoundaries = s.delimiterBoundaries,
         t.entryRuleScopeDepth = s.entryRuleScopeDepth,
         t.entryRuleFlightBaseline = s.entryRuleFlightBaseline
  PROVE  Correspond(t, sc) /\ FlightHasOwner(t)
<1>1. \A kind \in ScopeKind : Entries(t, kind) = Entries(s, kind)
  BY DEF ScopeKind, Entries
<1>2. \A kind \in ScopeKind : \A n \in 1 .. Entries(s, kind) :
        StartOf(t, kind, n) = StartOf(s, kind, n)
  BY DEF ScopeKind, Entries, StartOf
<1>3. ScopesOwnEntries(t, sc)
  <2> SUFFICES ASSUME NEW i \in DOMAIN sc PROVE OwnsEntry(t, sc[i])
    BY DEF ScopesOwnEntries
  <2>1. OwnsEntry(s, sc[i]) /\ sc[i] \in Scope
    BY DEF Correspond, ScopesOwnEntries
  <2>2. sc[i].kind \in ScopeKind
    BY <2>1 DEF Scope
  <2> QED
    BY <1>1, <1>2, <2>1, <2>2 DEF OwnsEntry
<1>4. EntriesHaveScopes(t, sc)
  BY <1>1 DEF Correspond, EntriesHaveScopes
<1>5. s.stack \in Seq(errorFrame) /\ t.stack \in Seq(errorFrame)
  BY DEF Store
<1>6. s.stack = <<>> <=> t.stack = <<>>
  BY <1>5, EmptySeq
<1>7. s.stack # <<>> => 1 \in 1 .. Len(s.stack)
  BY <1>5
<1>8. FlightHasOwner(t)
  BY <1>6, <1>7 DEF FlightHasOwner
<1> QED
  BY <1>3, <1>4, <1>8 DEF Correspond

(* setBest keeps the invariant.                                            *)
LEMMA SetBestStep ==
  ASSUME Inv, NEW err \in SyntaxError, se.stack # <<>>,
         se' = setBest(se, err), scopes' = scopes
  PROVE  Inv'
<1>1. se \in Store /\ scopes \in Seq(Scope) /\ Correspond(se, scopes) /\ FlightHasOwner(se)
  BY InvParts
<1>2. /\ se' \in Store /\ se' = [se EXCEPT !.stack = se'.stack]
      /\ Len(se'.stack) = Len(se.stack)
      /\ \A i \in 1 .. Len(se.stack) :
            se'.stack[i].commitStartIndex = se.stack[i].commitStartIndex
  BY <1>1, SetBestProperties
<1>3. /\ se'.flight = se.flight /\ se'.delimiterBoundaries = se.delimiterBoundaries
      /\ se'.entryRuleScopeDepth = se.entryRuleScopeDepth
      /\ se'.entryRuleFlightBaseline = se.entryRuleFlightBaseline
  BY <1>1, <1>2 DEF Store
<1>4. Correspond(se', scopes) /\ FlightHasOwner(se')
  BY <1>1, <1>2, <1>3, SameEntriesPreserve
<1> QED
  BY <1>1, <1>2, <1>4 DEF Inv, TypeOK, ScopesOwnStore, Store, Scope, Correspond

(* report (syntax_errors.go:133-145), in and outside of a frame.           *)
LEMMA ReportStep ==
  ASSUME Inv, NEW err \in SyntaxError, Report(err)
  PROVE  Inv'
<1>1. se \in Store /\ scopes \in Seq(Scope) /\ Correspond(se, scopes) /\ FlightHasOwner(se)
  BY InvParts
<1>2. se' = report(se, err) /\ scopes' = scopes
  BY DEF Report
<1>3. CASE se.stack = <<>>
  <2> DEFINE all == Append(se.Errors, err)
  <2>1. se' = [se EXCEPT !.Errors = all]
    BY <1>2, <1>3 DEF report
  <2>2. all \in Seq(SyntaxError)
    BY <1>1 DEF Store
  <2> HIDE DEF all
  <2>3. /\ se' \in Store /\ se'.stack = se.stack
        /\ se'.flight = se.flight /\ se'.delimiterBoundaries = se.delimiterBoundaries
        /\ se'.entryRuleScopeDepth = se.entryRuleScopeDepth
        /\ se'.entryRuleFlightBaseline = se.entryRuleFlightBaseline
    BY <1>1, <2>1, <2>2 DEF Store
  <2>4. Correspond(se', scopes) /\ FlightHasOwner(se')
    BY <1>1, <2>3, SameEntriesPreserve
  <2> QED
    BY <1>1, <1>2, <2>3, <2>4 DEF Inv, TypeOK, ScopesOwnStore, Store, Scope, Correspond
<1>4. CASE se.stack # <<>> /\ betterError(Top(se), err)
  BY <1>2, <1>4, SetBestStep DEF report
<1>5. CASE se.stack # <<>> /\ ~betterError(Top(se), err)
  <2>1. se' = se
    BY <1>2, <1>5 DEF report
  <2> QED
    BY <1>1, <1>2, <2>1 DEF Inv, TypeOK, ScopesOwnStore, Store, Scope, Correspond
<1> QED
  BY <1>3, <1>4, <1>5

(* replaceBest (syntax_errors.go:102-111).                                 *)
LEMMA ReplaceBestStep ==
  ASSUME Inv, NEW err \in SyntaxError, ReplaceBest(err)
  PROVE  Inv'
<1>1. se.stack # <<>> /\ se' = setBest(se, err) /\ scopes' = scopes
  BY DEF ReplaceBest, replaceBest
<1> QED
  BY <1>1, SetBestStep

(* PushDelimiterBoundary (syntax_errors.go:147-157).                       *)
LEMMA OpenDelimiterStep ==
  ASSUME Inv, NEW p \in Pos, OpenDelimiter(p)
  PROVE  Inv'
<1> DEFINE b == [regionStart |-> p, flightAtOpen |-> Len(se.flight)]
           longer == Append(se.delimiterBoundaries, b)
<1>1. se \in Store /\ scopes \in Seq(Scope) /\ Correspond(se, scopes) /\ FlightHasOwner(se)
  BY InvParts
<1>2. /\ se' = [se EXCEPT !.delimiterBoundaries = longer]
      /\ scopes' = Append(scopes, [kind |-> "delimiter",
                                   index |-> Len(se.delimiterBoundaries) + 1,
                                   at |-> Len(se.flight)])
  BY DEF OpenDelimiter, Open, PushDelimiterBoundary
<1>3. /\ se.delimiterBoundaries \in Seq(delimiterBoundary)
      /\ se.flight \in Seq(SyntaxError)
  BY <1>1 DEF Store
<1>4. b \in delimiterBoundary /\ b.flightAtOpen = Len(se.flight)
  BY <1>3 DEF delimiterBoundary
<1> HIDE DEF b
<1>5. /\ longer \in Seq(delimiterBoundary) /\ Len(longer) = Len(se.delimiterBoundaries) + 1
      /\ \A i \in 1 .. Len(se.delimiterBoundaries) : longer[i] = se.delimiterBoundaries[i]
      /\ longer[Len(se.delimiterBoundaries) + 1] = b
  BY <1>3, <1>4, AppendProperties
<1> HIDE DEF longer
<1>6. /\ se' \in Store /\ se'.stack = se.stack /\ se'.flight = se.flight
      /\ se'.delimiterBoundaries = longer
      /\ se'.entryRuleScopeDepth = se.entryRuleScopeDepth
      /\ se'.entryRuleFlightBaseline = se.entryRuleFlightBaseline
  BY <1>1, <1>2, <1>5 DEF Store
<1>7. "delimiter" \in ScopeKind /\ Entries(se, "delimiter") = Len(se.delimiterBoundaries)
  BY DEF ScopeKind, Entries
<1>8. \A kind \in ScopeKind : Entries(se', kind) =
        IF kind = "delimiter" THEN Entries(se, kind) + 1 ELSE Entries(se, kind)
  BY <1>5, <1>6 DEF ScopeKind, Entries
<1>9. \A kind \in ScopeKind : \A n \in 1 .. Entries(se, kind) :
        Remembers(kind, n) => StartOf(se', kind, n) = StartOf(se, kind, n)
  BY <1>5, <1>6 DEF ScopeKind, Entries, StartOf
<1>10. StartOf(se', "delimiter", Entries(se, "delimiter") + 1) = Len(se.flight)
  BY <1>4, <1>5, <1>6, <1>7 DEF StartOf
<1>11. scopes' \in Seq(Scope) /\ Correspond(se', scopes')
  BY <1>1, <1>2, <1>6, <1>7, <1>8, <1>9, <1>10, OpenPreserves
<1>12. FlightHasOwner(se')
  BY <1>1, <1>6 DEF FlightHasOwner
<1> QED
  BY <1>6, <1>11, <1>12 DEF Inv, TypeOK, ScopesOwnStore, Store, Scope, Correspond

(* Every scope that is open began inside the flight, which the closing of  *)
(* a delimiter or an entry-rule scope does not touch.                      *)
LEMMA ScopesBeganInFlight ==
  ASSUME NEW s, NEW sc \in Seq(Scope), Correspond(s, sc)
  PROVE  \A i \in 1 .. Len(sc) - 1 : sc[i].at <= Len(s.flight)
<1>1. DOMAIN sc = 1 .. Len(sc) /\ Len(sc) \in Nat
  OBVIOUS
<1> QED
  BY <1>1 DEF Correspond, ScopesOwnEntries, OwnsEntry

(* PopDelimiterBoundary (syntax_errors.go:159-165).                        *)
LEMMA CloseDelimiterStep ==
  ASSUME Inv, CloseDelimiter
  PROVE  Inv'
<1>1. /\ se \in Store /\ scopes \in Seq(Scope) /\ Correspond(se, scopes)
      /\ FlightHasOwner(se)
      /\ scopes # <<>> /\ scopes[Len(scopes)].kind = "delimiter" /\ scopes' = Pop(scopes)
      /\ Len(se.delimiterBoundaries) > 0
      /\ se' = PopDelimiterBoundary(se)
  BY CloseFacts DEF Entries, CloseDelimiter
<1>2. se.delimiterBoundaries # <<>> /\ se.delimiterBoundaries \in Seq(delimiterBoundary)
  BY <1>1 DEF Store
<1> DEFINE shorter == Pop(se.delimiterBoundaries)
<1>3. /\ shorter \in Seq(delimiterBoundary) /\ Len(shorter) = Len(se.delimiterBoundaries) - 1
      /\ \A i \in 1 .. Len(se.delimiterBoundaries) - 1 : shorter[i] = se.delimiterBoundaries[i]
  BY <1>2, PopProperties
<1>4. se' = [se EXCEPT !.delimiterBoundaries = shorter]
  BY <1>1 DEF PopDelimiterBoundary
<1> HIDE DEF shorter
<1>5. /\ se' \in Store /\ se'.stack = se.stack /\ se'.flight = se.flight
      /\ se'.delimiterBoundaries = shorter
      /\ se'.entryRuleScopeDepth = se.entryRuleScopeDepth
      /\ se'.entryRuleFlightBaseline = se.entryRuleFlightBaseline
  BY <1>1, <1>3, <1>4 DEF Store
<1>6. \A kind \in ScopeKind : Entries(se', kind) =
        IF kind = "delimiter" THEN Entries(se, kind) - 1 ELSE Entries(se, kind)
  BY <1>3, <1>5 DEF ScopeKind, Entries
<1>7. \A kind \in ScopeKind : \A n \in 1 .. Entries(se', kind) :
        Remembers(kind, n) => StartOf(se', kind, n) = StartOf(se, kind, n)
  BY <1>3, <1>5 DEF ScopeKind, Entries, StartOf
<1>8. \A i \in 1 .. Len(scopes) - 1 : scopes[i].at <= Len(se'.flight)
  BY <1>1, <1>5, ScopesBeganInFlight
<1>9. Pop(scopes) \in Seq(Scope) /\ Correspond(se', Pop(scopes))
  BY <1>1, <1>5, <1>6, <1>7, <1>8, ClosePreserves, SMTT(60)
<1>10. FlightHasOwner(se')
  BY <1>1, <1>5 DEF FlightHasOwner
<1> QED
  BY <1>1, <1>5, <1>9, <1>10 DEF Inv, TypeOK, ScopesOwnStore, Store, Scope, Correspond

(* BeginEntryRuleScope (syntax_errors.go:186-191): only the outermost      *)
(* scope takes a baseline.                                                 *)
LEMMA OpenEntryStep ==
  ASSUME Inv, OpenEntry
  PROVE  Inv'
<1> DEFINE depth == se.entryRuleScopeDepth
           base == IF depth = 0 THEN Len(se.flight) ELSE se.entryRuleFlightBaseline
<1>1. se \in Store /\ scopes \in Seq(Scope) /\ Correspond(se, scopes) /\ FlightHasOwner(se)
  BY InvParts
<1>2. /\ se' = [se EXCEPT !.entryRuleFlightBaseline = base, !.entryRuleScopeDepth = depth + 1]
      /\ scopes' = Append(scopes, [kind |-> "entry", index |-> depth + 1, at |-> Len(se.flight)])
  BY <1>1 DEF OpenEntry, Open, BeginEntryRuleScope, Store
<1>3. depth \in Nat /\ base \in Nat
  BY <1>1 DEF Store
<1>4. depth = 0 => base = Len(se.flight)
  OBVIOUS
<1>5. depth # 0 => base = se.entryRuleFlightBaseline
  OBVIOUS
<1> DEFINE deeper == depth + 1
<1>5a. deeper \in Nat
  BY <1>3
<1> HIDE DEF base
<1>6. /\ se' \in Store /\ se'.stack = se.stack /\ se'.flight = se.flight
      /\ se'.delimiterBoundaries = se.delimiterBoundaries
      /\ se'.entryRuleScopeDepth = depth + 1 /\ se'.entryRuleFlightBaseline = base
  <2>1. se' = [se EXCEPT !.entryRuleFlightBaseline = base, !.entryRuleScopeDepth = deeper]
    BY <1>2
  <2> HIDE DEF deeper
  <2>2. /\ se' \in Store /\ se'.stack = se.stack /\ se'.flight = se.flight
        /\ se'.delimiterBoundaries = se.delimiterBoundaries
        /\ se'.entryRuleScopeDepth = deeper /\ se'.entryRuleFlightBaseline = base
    BY <1>1, <1>3, <1>5a, <2>1 DEF Store
  <2> QED
    BY <2>2 DEF deeper
<1>7. "entry" \in ScopeKind /\ Entries(se, "entry") = depth
  BY DEF ScopeKind, Entries
<1>8. \A kind \in ScopeKind : Entries(se', kind) =
        IF kind = "entry" THEN Entries(se, kind) + 1 ELSE Entries(se, kind)
  BY <1>6 DEF ScopeKind, Entries
<1>9. \A kind \in ScopeKind : \A n \in 1 .. Entries(se, kind) :
        Remembers(kind, n) => StartOf(se', kind, n) = StartOf(se, kind, n)
  <2> SUFFICES ASSUME NEW kind \in ScopeKind, NEW n \in 1 .. Entries(se, kind)
               PROVE  StartOf(se', kind, n) = StartOf(se, kind, n)
    OBVIOUS
  <2>1. CASE kind = "entry"
    <3>1. depth # 0
      BY <1>3, <1>7, <2>1
    <3> QED
      BY <1>5, <1>6, <2>1, <3>1 DEF StartOf
  <2>2. CASE kind # "entry"
    BY <1>6, <2>2 DEF ScopeKind, StartOf
  <2> QED
    BY <2>1, <2>2
<1>10. Remembers("entry", depth + 1) => StartOf(se', "entry", depth + 1) = Len(se.flight)
  BY <1>3, <1>4, <1>6 DEF Remembers, StartOf
<1>11. scopes' \in Seq(Scope) /\ Correspond(se', scopes')
  <2> HIDE DEF depth
  <2>1. /\ Remembers("entry", Entries(se, "entry") + 1)
             => StartOf(se', "entry", Entries(se, "entry") + 1) = Len(se.flight)
        /\ scopes' = Append(scopes, [kind |-> "entry", index |-> Entries(se, "entry") + 1,
                                     at |-> Len(se.flight)])
    BY <1>2, <1>7, <1>10
  <2> QED
    BY <1>1, <1>6, <1>7, <1>8, <1>9, <2>1, OpenPreserves
<1>12. FlightHasOwner(se')
  BY <1>1, <1>6 DEF FlightHasOwner
<1> QED
  BY <1>6, <1>11, <1>12 DEF Inv, TypeOK, ScopesOwnStore, Store, Scope, Correspond

(* EndEntryRuleScope (syntax_errors.go:193-198).                           *)
LEMMA CloseEntryStep ==
  ASSUME Inv, CloseEntry
  PROVE  Inv'
<1>1. /\ se \in Store /\ scopes \in Seq(Scope) /\ Correspond(se, scopes)
      /\ FlightHasOwner(se)
      /\ scopes # <<>> /\ scopes[Len(scopes)].kind = "entry" /\ scopes' = Pop(scopes)
      /\ se.entryRuleScopeDepth > 0
      /\ se' = EndEntryRuleScope(se)
  BY CloseFacts DEF Entries, CloseEntry
<1> DEFINE depth == se.entryRuleScopeDepth - 1
<1>2. depth \in Nat
  BY <1>1 DEF Store
<1>3. se' = [se EXCEPT !.entryRuleScopeDepth = depth]
  BY <1>1 DEF EndEntryRuleScope
<1>4. /\ se' \in Store /\ se'.stack = se.stack /\ se'.flight = se.flight
      /\ se'.delimiterBoundaries = se.delimiterBoundaries
      /\ se'.entryRuleScopeDepth = se.entryRuleScopeDepth - 1
      /\ se'.entryRuleFlightBaseline = se.entryRuleFlightBaseline
  BY <1>1, <1>2, <1>3 DEF Store
<1>5. \A kind \in ScopeKind : Entries(se', kind) =
        IF kind = "entry" THEN Entries(se, kind) - 1 ELSE Entries(se, kind)
  BY <1>4 DEF ScopeKind, Entries
<1>6. \A kind \in ScopeKind : \A n \in 1 .. Entries(se', kind) :
        Remembers(kind, n) => StartOf(se', kind, n) = StartOf(se, kind, n)
  BY <1>4 DEF ScopeKind, StartOf
<1>7. \A i \in 1 .. Len(scopes) - 1 : scopes[i].at <= Len(se'.flight)
  BY <1>1, <1>4, ScopesBeganInFlight
<1>8. Pop(scopes) \in Seq(Scope) /\ Correspond(se', Pop(scopes))
  BY <1>1, <1>4, <1>5, <1>6, <1>7, ClosePreserves, SMTT(60)
<1>9. FlightHasOwner(se')
  BY <1>1, <1>4 DEF FlightHasOwner
<1> QED
  BY <1>1, <1>4, <1>8, <1>9 DEF Inv, TypeOK, ScopesOwnStore, Store, Scope, Correspond

-----------------------------------------------------------------------------
(* The theorems. *)

(* A fresh store (SyntaxErrorsCreate) has no entries and no scopes.        *)
LEMMA InitInv == Init => Inv
<1> SUFFICES ASSUME Init PROVE Inv
  OBVIOUS
<1>1. se = SyntaxErrorsCreate /\ scopes = <<>>
  BY DEF Init
<1>2. TypeOK
  BY <1>1 DEF TypeOK, SyntaxErrorsCreate
<1>3. DOMAIN scopes = {} /\ \A kind \in ScopeKind : Entries(se, kind) = 0
  BY <1>1 DEF SyntaxErrorsCreate, Entries, ScopeKind
<1>4. ScopesOwnEntries(se, scopes) /\ ScopesAreOrdered(scopes)
  BY <1>3 DEF ScopesOwnEntries, ScopesAreOrdered
<1>5. EntriesHaveScopes(se, scopes)
  BY <1>3 DEF EntriesHaveScopes
<1>6. FlightHasOwner(se)
  BY <1>1 DEF FlightHasOwner, SyntaxErrorsCreate
<1> QED
  BY <1>2, <1>4, <1>5, <1>6 DEF Inv, ScopesOwnStore

(* No operation of the store breaks the correspondence.                    *)
LEMMA NextInv == Inv /\ [Next]_vars => Inv'
<1> SUFFICES ASSUME Inv, [Next]_vars PROVE Inv'
  OBVIOUS
<1>1. CASE PushFrame
  BY <1>1, PushFrameStep
<1>2. CASE FailFrame
  BY <1>2, FailFrameStep
<1>3. CASE \E commit \in BOOLEAN : PopFrame(commit)
  <2>1. PICK commit \in BOOLEAN : PopFrame(commit)
    BY <1>3
  <2>2. CASE commit = TRUE
    BY <2>1, <2>2, CommitStep DEF PopFrame
  <2>3. CASE commit = FALSE
    BY <2>1, <2>3, RollbackStep DEF PopFrame
  <2> QED
    BY <2>2, <2>3
<1>4. ASSUME NEW err \in SyntaxError, Report(err) PROVE Inv'
  BY <1>4, ReportStep
<1>5. ASSUME NEW err \in SyntaxError, ReplaceBest(err) PROVE Inv'
  BY <1>5, ReplaceBestStep
<1>6. ASSUME NEW p \in Pos, OpenDelimiter(p) PROVE Inv'
  BY <1>6, OpenDelimiterStep
<1>7. CASE CloseDelimiter
  BY <1>7, CloseDelimiterStep
<1>8. CASE OpenEntry
  BY <1>8, OpenEntryStep
<1>9. CASE CloseEntry
  BY <1>9, CloseEntryStep
<1>10. CASE UNCHANGED vars
  <2>1. se' = se /\ scopes' = scopes
    BY <1>10 DEF vars
  <2>2. se \in Store /\ scopes \in Seq(Scope) /\ Correspond(se, scopes) /\ FlightHasOwner(se)
    BY InvParts
  <2> QED
    BY <2>1, <2>2 DEF Inv, TypeOK, ScopesOwnStore, Store, Scope, Correspond
<1> QED
  BY <1>1, <1>2, <1>3, <1>4, <1>5, <1>6, <1>7, <1>8, <1>9, <1>10 DEF Next

(* Inv holds in every reachable state of the store.                        *)
LEMMA SpecInv == Spec => []Inv
BY InitInv, NextInv, PTL DEF Spec

(* Every reachable store is well formed.                                   *)
THEOREM TypeCorrect == Spec => []TypeOK
<1>1. Inv => TypeOK
  BY DEF Inv
<1> QED
  BY <1>1, SpecInv, PTL

(* The open scopes of the callers and the entries of the store correspond: *)
(* no pop panics, and no rollback reaches into a scope that is still open. *)
THEOREM ScopesOwned == Spec => []ScopesOwnStore
<1>1. Inv => ScopesOwnStore
  BY DEF Inv
<1> QED
  BY <1>1, SpecInv, PTL

(* The scopes of two entries of a kind are ordered as the entries are.     *)
LEMMA OwnerOf ==
  ASSUME NEW s \in Store, NEW sc \in Seq(Scope), Correspond(s, sc),
         NEW kind \in ScopeKind, NEW n \in 1 .. Entries(s, kind), Remembers(kind, n)
  PROVE  \E i \in DOMAIN sc : /\ sc[i].kind = kind /\ sc[i].index = n
                              /\ StartOf(s, kind, n) = sc[i].at
                              /\ sc[i].at <= Len(s.flight)
<1>1. PICK i \in DOMAIN sc : sc[i].kind = kind /\ sc[i].index = n
  BY DEF Correspond, EntriesHaveScopes
<1>2. OwnsEntry(s, sc[i])
  BY <1>1 DEF Correspond, ScopesOwnEntries
<1> QED
  BY <1>1, <1>2 DEF OwnsEntry

(* The frames' start indices follow the order of the scopes that own them. *)
LEMMA InvPartitions == Inv => FramesPartitionFlight
<1> SUFFICES ASSUME Inv PROVE FramesPartitionFlight
  OBVIOUS
<1>1. se \in Store /\ scopes \in Seq(Scope) /\ Correspond(se, scopes) /\ FlightHasOwner(se)
  BY InvParts
<1>2. se.stack \in Seq(errorFrame) /\ DOMAIN se.stack = 1 .. Len(se.stack)
  BY <1>1 DEF Store
<1>3. \A n \in DOMAIN se.stack : \E i \in DOMAIN scopes :
        /\ scopes[i].kind = "frame" /\ scopes[i].index = n
        /\ se.stack[n].commitStartIndex = scopes[i].at
        /\ scopes[i].at <= Len(se.flight)
  <2> SUFFICES ASSUME NEW n \in DOMAIN se.stack
               PROVE  \E i \in DOMAIN scopes :
                        /\ scopes[i].kind = "frame" /\ scopes[i].index = n
                        /\ se.stack[n].commitStartIndex = scopes[i].at
                        /\ scopes[i].at <= Len(se.flight)
    OBVIOUS
  <2>1. "frame" \in ScopeKind /\ n \in 1 .. Entries(se, "frame") /\ Remembers("frame", n)
    BY <1>2 DEF ScopeKind, Entries, Remembers
  <2>2. StartOf(se, "frame", n) = se.stack[n].commitStartIndex
    BY DEF StartOf
  <2> QED
    BY <1>1, <2>1, <2>2, OwnerOf
<1>4. \A i \in DOMAIN scopes : scopes[i].index \in Nat /\ scopes[i].at \in Nat
  <2>1. \A i \in DOMAIN scopes : scopes[i] \in Scope
    BY <1>1
  <2> QED
    BY <2>1 DEF Scope
<1>5. ASSUME NEW m \in DOMAIN se.stack, NEW n \in DOMAIN se.stack, m <= n
      PROVE  se.stack[m].commitStartIndex <= se.stack[n].commitStartIndex
  <2>1. PICK i \in DOMAIN scopes :
          /\ scopes[i].kind = "frame" /\ scopes[i].index = m
          /\ se.stack[m].commitStartIndex = scopes[i].at
    BY <1>3
  <2>2. PICK j \in DOMAIN scopes :
          /\ scopes[j].kind = "frame" /\ scopes[j].index = n
          /\ se.stack[n].commitStartIndex = scopes[j].at
    BY <1>3
  <2>3. i \in Nat /\ j \in Nat
    BY <1>1
  <2>4. CASE i < j
    BY <1>1, <2>1, <2>2, <2>4 DEF Correspond, ScopesAreOrdered
  <2>5. CASE i = j
    BY <1>4, <2>1, <2>2, <2>5
  <2>6. CASE j < i
    <3>1. scopes[j].index < scopes[i].index
      BY <1>1, <2>1, <2>2, <2>6 DEF Correspond, ScopesAreOrdered
    <3>2. n < m
      BY <3>1, <2>1, <2>2
    <3> QED
      BY <1>5, <3>2, <1>4, <2>1, <2>2
  <2> QED
    BY <2>3, <2>4, <2>5, <2>6
<1> QED
  BY <1>1, <1>3, <1>5 DEF FramesPartitionFlight, FlightHasOwner

(* The frames partition the flight.                                        *)
THEOREM FlightPartitioned == Spec => []FramesPartitionFlight
BY InvPartitions, SpecInv, PTL

(* No rollback cuts the flight below an open delimiter boundary or the     *)
(* baseline of the open entry-rule scope.                                  *)
THEOREM BoundariesKept == Spec => []BoundariesInsideFlight
<1>1. Inv => BoundariesInsideFlight
  <2> SUFFICES ASSUME Inv PROVE BoundariesInsideFlight
    OBVIOUS
  <2>1. se \in Store /\ scopes \in Seq(Scope) /\ Correspond(se, scopes)
    BY InvParts
  <2>2. DOMAIN se.delimiterBoundaries = 1 .. Len(se.delimiterBoundaries)
    BY <2>1 DEF Store
  <2>3. ASSUME NEW n \in DOMAIN se.delimiterBoundaries
        PROVE  se.delimiterBoundaries[n].flightAtOpen <= Len(se.flight)
    <3>1. /\ "delimiter" \in ScopeKind /\ n \in 1 .. Entries(se, "delimiter")
          /\ Remembers("delimiter", n)
      BY <2>2 DEF ScopeKind, Entries, Remembers
    <3>2. StartOf(se, "delimiter", n) = se.delimiterBoundaries[n].flightAtOpen
      BY DEF StartOf
    <3> QED
      BY <2>1, <3>1, <3>2, OwnerOf
  <2>4. ASSUME se.entryRuleScopeDepth > 0
        PROVE  se.entryRuleFlightBaseline <= Len(se.flight)
    <3>1. se.entryRuleScopeDepth \in Nat
      BY <2>1 DEF Store
    <3>2. "entry" \in ScopeKind /\ 1 \in 1 .. Entries(se, "entry") /\ Remembers("entry", 1)
      BY <2>4, <3>1 DEF ScopeKind, Entries, Remembers
    <3>3. StartOf(se, "entry", 1) = se.entryRuleFlightBaseline
      BY DEF StartOf
    <3> QED
      BY <2>1, <3>2, <3>3, OwnerOf
  <2> QED
    BY <2>3, <2>4 DEF BoundariesInsideFlight
<1> QED
  BY <1>1, SpecInv, PTL

-----------------------------------------------------------------------------
(* The refinement of ErrorLog: the transactions of a store.               *)

EndOf(st, i) == IF i = Len(st.stack) THEN Len(st.flight)
                ELSE st.stack[i + 1].commitStartIndex

CandidateOf(frame) == IF frame.hasBest THEN <<frame.best>> ELSE <<>>

KeptOf(st, i) == SubSeq(st.flight, st.stack[i].commitStartIndex + 1, EndOf(st, i))

TransactionsOf(st) ==
  [i \in 1 .. Len(st.stack) |-> [candidate |-> CandidateOf(st.stack[i]), kept |-> KeptOf(st, i)]]

Transaction == [candidate : Seq(SyntaxError), kept : Seq(SyntaxError)]

(* Each frame's part of the flight begins where the part before it ends,   *)
(* the first at 0, and the last part ends with the flight.                 *)
Parted(st) ==
  /\ \A i, j \in 1 .. Len(st.stack) :
        i <= j => st.stack[i].commitStartIndex <= st.stack[j].commitStartIndex
  /\ \A i \in 1 .. Len(st.stack) : st.stack[i].commitStartIndex <= Len(st.flight)
  /\ st.stack # <<>> => st.stack[1].commitStartIndex = 0

LEMMA InvParted == Inv => se \in Store /\ Parted(se)
<1> SUFFICES ASSUME Inv PROVE se \in Store /\ Parted(se)
  OBVIOUS
<1>1. se \in Store /\ FlightHasOwner(se) /\ FramesPartitionFlight
  BY InvParts, InvPartitions
<1>2. DOMAIN se.stack = 1 .. Len(se.stack)
  BY <1>1 DEF Store
<1> QED
  BY <1>1, <1>2 DEF Parted, FlightHasOwner, FramesPartitionFlight

LEMMA InvPartedNext == Inv' => se' \in Store /\ Parted(se')
<1>1. (Inv => se \in Store /\ Parted(se))'
  BY InvParted, PTL
<1> QED
  BY <1>1

-----------------------------------------------------------------------------
(* Parts of sequences. *)

(* A part of a sequence that ends before m is the same part of its first m *)
(* elements.                                                               *)
LEMMA PartOfCut ==
  ASSUME NEW S, NEW s \in Seq(S), NEW m \in 0 .. Len(s), NEW a \in Nat, NEW e \in 0 .. m
  PROVE  SubSeq(SubSeq(s, 1, m), a + 1, e) = SubSeq(s, a + 1, e)
<1> DEFINE cut == SubSeq(s, 1, m)
<1>1. cut \in Seq(S) /\ Len(cut) = m /\ \A i \in 1 .. m : cut[i] = s[i]
  BY CutProperties
<1>2. Len(s) \in Nat /\ \A i \in 1 .. Len(s) : s[i] \in S
  OBVIOUS
<1> HIDE DEF cut
<1>3. \A i \in a + 1 .. e : s[i] \in S /\ cut[i] = s[i]
  BY <1>1, <1>2
<1>4. /\ SubSeq(s, a + 1, e) \in Seq(S)
      /\ Len(SubSeq(s, a + 1, e)) = IF a + 1 <= e THEN e - (a + 1) + 1 ELSE 0
      /\ \A i \in 1 .. e - (a + 1) + 1 : SubSeq(s, a + 1, e)[i] = s[a + 1 + i - 1]
  BY <1>3, SubSeqProperties
<1>5. \A i \in a + 1 .. e : cut[i] \in S
  BY <1>3
<1>6. /\ SubSeq(cut, a + 1, e) \in Seq(S)
      /\ Len(SubSeq(cut, a + 1, e)) = IF a + 1 <= e THEN e - (a + 1) + 1 ELSE 0
      /\ \A i \in 1 .. e - (a + 1) + 1 : SubSeq(cut, a + 1, e)[i] = cut[a + 1 + i - 1]
  BY <1>5, SubSeqProperties, SMTT(60)
<1> DEFINE x == SubSeq(cut, a + 1, e)
           y == SubSeq(s, a + 1, e)
<1>7. \A i \in 1 .. Len(x) : x[i] = y[i]
  <2> SUFFICES ASSUME NEW i \in 1 .. Len(x) PROVE x[i] = y[i]
    OBVIOUS
  <2>1. i \in 1 .. e - (a + 1) + 1 /\ a + 1 + i - 1 \in a + 1 .. e
    BY <1>6
  <2> QED
    BY <1>3, <1>4, <1>6, <2>1
<1>8. Len(x) = Len(y) /\ x \in Seq(S) /\ y \in Seq(S)
  BY <1>4, <1>6
<1> HIDE DEF x, y
<1>9. x = y
  BY <1>7, <1>8, SeqEqual
<1> QED
  BY <1>9 DEF x, y, cut

(* A part of a sequence is the same part of a longer one. *)
LEMMA PartOfConcat ==
  ASSUME NEW S, NEW s \in Seq(S), NEW t \in Seq(S), NEW a \in Nat, NEW e \in 0 .. Len(s)
  PROVE  SubSeq(s \o t, a + 1, e) = SubSeq(s, a + 1, e)
<1>1. /\ s \o t \in Seq(S) /\ Len(s \o t) = Len(s) + Len(t)
      /\ \A i \in 1 .. Len(s) + Len(t) :
            (s \o t)[i] = IF i <= Len(s) THEN s[i] ELSE t[i - Len(s)]
  BY ConcatProperties
<1>2. Len(s) \in Nat /\ Len(t) \in Nat
  OBVIOUS
<1> DEFINE both == s \o t
<1>3. Len(s) \in 0 .. Len(both)
  BY <1>1, <1>2
<1>4. SubSeq(both, 1, Len(s)) = s
  <2>1. /\ SubSeq(both, 1, Len(s)) \in Seq(S) /\ Len(SubSeq(both, 1, Len(s))) = Len(s)
        /\ \A i \in 1 .. Len(s) : SubSeq(both, 1, Len(s))[i] = both[i]
    BY <1>1, <1>3, CutProperties
  <2>2. \A i \in 1 .. Len(s) : both[i] = s[i]
    BY <1>1, <1>2
  <2> QED
    BY <2>1, <2>2, SeqEqual
<1> QED
  BY <1>1, <1>3, <1>4, PartOfCut

(* What begins at a and what is put behind the end make one part. *)
LEMMA PartAndMore ==
  ASSUME NEW S, NEW s \in Seq(S), NEW t \in Seq(S), NEW a \in 0 .. Len(s)
  PROVE  SubSeq(s \o t, a + 1, Len(s \o t)) = SubSeq(s, a + 1, Len(s)) \o t
<1> DEFINE both == s \o t
<1>1. /\ both \in Seq(S) /\ Len(both) = Len(s) + Len(t)
      /\ \A i \in 1 .. Len(s) + Len(t) :
            both[i] = IF i <= Len(s) THEN s[i] ELSE t[i - Len(s)]
  BY ConcatProperties
<1>2. Len(s) \in Nat /\ Len(t) \in Nat
  OBVIOUS
<1>3. SubSeq(both, a + 1, Len(s)) = SubSeq(s, a + 1, Len(s))
  BY <1>2, PartOfConcat
<1>4. SubSeq(both, Len(s) + 1, Len(both)) = t
  <2> HIDE DEF both
  <2>1. \A i \in Len(s) + 1 .. Len(both) : both[i] \in S
    BY <1>1, <1>2
  <2>2. Len(s) + 1 \in Int /\ Len(both) \in Int
    BY <1>1, <1>2
  <2> DEFINE u == SubSeq(both, Len(s) + 1, Len(both))
  <2>3. /\ u \in Seq(S)
        /\ Len(u) = IF Len(s) + 1 <= Len(both) THEN Len(both) - (Len(s) + 1) + 1 ELSE 0
        /\ \A i \in 1 .. Len(both) - (Len(s) + 1) + 1 : u[i] = both[Len(s) + 1 + i - 1]
    BY <2>1, <2>2, SubSeqProperties
  <2> HIDE DEF u
  <2>4. Len(u) = Len(t)
    BY <1>1, <1>2, <2>3
  <2>5. \A i \in 1 .. Len(u) : u[i] = t[i]
    <3> SUFFICES ASSUME NEW i \in 1 .. Len(u) PROVE u[i] = t[i]
      OBVIOUS
    <3>1. i \in 1 .. Len(both) - (Len(s) + 1) + 1 /\ Len(s) + 1 + i - 1 = Len(s) + i
      BY <1>1, <1>2, <2>4
    <3>2. u[i] = both[Len(s) + i]
      BY <2>3, <3>1
    <3>3. Len(s) + i \in 1 .. Len(s) + Len(t) /\ ~(Len(s) + i <= Len(s))
          /\ Len(s) + i - Len(s) = i
      BY <1>2, <2>4
    <3> QED
      BY <1>1, <3>2, <3>3
  <2>6. u = t
    BY <2>3, <2>4, <2>5, SeqEqual
  <2> QED
    BY <2>6 DEF u
<1> DEFINE m == a + 1
           k == Len(s)
           n == Len(both)
<1>5. m \in 1 .. Len(both) + 1 /\ k \in m - 1 .. Len(both) /\ n \in k .. Len(both)
  BY <1>1, <1>2
<1>6. both \in Seq(S)
  BY <1>1
<1> HIDE DEF both, m, k, n
<1>7. SubSeq(both, m, k) \o SubSeq(both, k + 1, n) = SubSeq(both, m, n)
  BY <1>5, <1>6, ConcatAdjacentSubSeq
<1> QED
  BY <1>3, <1>4, <1>7 DEF both, m, k, n
-----------------------------------------------------------------------------
(* What each operation does to the transactions. *)

LEMMA TransactionsType ==
  ASSUME NEW s \in Store, Parted(s)
  PROVE  /\ TransactionsOf(s) \in Seq(Transaction)
         /\ Len(TransactionsOf(s)) = Len(s.stack) /\ Len(s.stack) \in Nat
         /\ \A i \in 1 .. Len(s.stack) :
               /\ s.stack[i] \in errorFrame /\ s.stack[i].commitStartIndex \in 0 .. Len(s.flight)
               /\ EndOf(s, i) \in 0 .. Len(s.flight)
               /\ TransactionsOf(s)[i] =
                    [candidate |-> CandidateOf(s.stack[i]), kept |-> KeptOf(s, i)]
               /\ CandidateOf(s.stack[i]) \in Seq(SyntaxError)
               /\ KeptOf(s, i) \in Seq(SyntaxError)
<1>1. s.stack \in Seq(errorFrame) /\ s.flight \in Seq(SyntaxError)
  BY DEF Store
<1>2. Len(s.stack) \in Nat /\ Len(s.flight) \in Nat
  BY <1>1
<1> DEFINE tx(i) == [candidate |-> CandidateOf(s.stack[i]), kept |-> KeptOf(s, i)]
<1>3. ASSUME NEW i \in 1 .. Len(s.stack)
      PROVE  /\ s.stack[i] \in errorFrame /\ s.stack[i].commitStartIndex \in 0 .. Len(s.flight)
             /\ EndOf(s, i) \in 0 .. Len(s.flight)
             /\ CandidateOf(s.stack[i]) \in Seq(SyntaxError)
             /\ KeptOf(s, i) \in Seq(SyntaxError)
  <2>1. s.stack[i] \in errorFrame
    BY <1>1, <1>3
  <2>2. s.stack[i].commitStartIndex \in 0 .. Len(s.flight)
    BY <1>2, <2>1, <1>3 DEF Parted, errorFrame
  <2>3. EndOf(s, i) \in 0 .. Len(s.flight)
    <3>1. CASE i = Len(s.stack)
      BY <1>2, <3>1 DEF EndOf
    <3>2. CASE i # Len(s.stack)
      <4>1. i + 1 \in 1 .. Len(s.stack)
        BY <1>2, <1>3, <3>2
      <4>2. s.stack[i + 1] \in errorFrame
        BY <1>1, <4>1
      <4>3. s.stack[i + 1].commitStartIndex \in Nat
        BY <4>2 DEF errorFrame
      <4> QED
        BY <1>2, <3>2, <4>1, <4>3 DEF EndOf, Parted
    <3> QED
      BY <3>1, <3>2
  <2>4. CandidateOf(s.stack[i]) \in Seq(SyntaxError)
    <3>1. s.stack[i].hasBest => s.stack[i].best \in SyntaxError
      BY <2>1 DEF errorFrame
    <3> QED
      BY <3>1 DEF CandidateOf
  <2>5. KeptOf(s, i) \in Seq(SyntaxError)
    <3>1. \A j \in s.stack[i].commitStartIndex + 1 .. EndOf(s, i) : s.flight[j] \in SyntaxError
      BY <1>1, <1>2, <2>2, <2>3
    <3>2. s.stack[i].commitStartIndex + 1 \in Int /\ EndOf(s, i) \in Int
      BY <1>2, <2>2, <2>3
    <3> QED
      BY <3>1, <3>2, SubSeqProperties DEF KeptOf
  <2> QED
    BY <2>1, <2>2, <2>3, <2>4, <2>5
<1>4. \A i \in 1 .. Len(s.stack) : tx(i) \in Transaction
  BY <1>3 DEF Transaction
<1>5. TransactionsOf(s) = [i \in 1 .. Len(s.stack) |-> tx(i)]
  BY DEF TransactionsOf
<1> HIDE DEF tx
<1>6. TransactionsOf(s) \in Seq(Transaction) /\ Len(TransactionsOf(s)) = Len(s.stack)
  BY <1>2, <1>4, <1>5
<1>7. \A i \in 1 .. Len(s.stack) : TransactionsOf(s)[i] = tx(i)
  BY <1>5
<1> QED
  BY <1>2, <1>3, <1>6, <1>7 DEF tx

(* pushFrame begins an empty transaction. *)
LEMMA PushBegins ==
  ASSUME NEW s \in Store, Parted(s), Parted(pushFrame(s))
  PROVE  TransactionsOf(pushFrame(s)) =
           Append(TransactionsOf(s), [candidate |-> <<>>, kept |-> <<>>])
<1> DEFINE t == pushFrame(s)
           n == Len(s.stack)
           empty == [candidate |-> <<>>, kept |-> <<>>]
<1>1. /\ t \in Store /\ Len(t.stack) = n + 1 /\ n \in Nat
      /\ \A i \in 1 .. n : t.stack[i] = s.stack[i]
      /\ t.stack[n + 1].commitStartIndex = Len(s.flight)
  <2>1. t \in Store /\ Len(t.stack) = n + 1
    BY PushFrameProperties
  <2>2. \A i \in 1 .. n : t.stack[i] = s.stack[i]
    BY PushFrameProperties
  <2>3. t.stack[n + 1].commitStartIndex = Len(s.flight)
    BY PushFrameProperties
  <2>4. s.stack \in Seq(errorFrame)
    BY DEF Store
  <2> QED
    BY <2>1, <2>2, <2>3, <2>4
<1>2. t.flight = s.flight /\ ~t.stack[n + 1].hasBest
  BY DEF pushFrame, Store
<1>3. s.flight \in Seq(SyntaxError) /\ Len(s.flight) \in Nat
  BY DEF Store
<1> HIDE DEF t
<1>4. empty \in Transaction
  BY EmptySeq DEF Transaction
<1>5. /\ TransactionsOf(s) \in Seq(Transaction) /\ Len(TransactionsOf(s)) = n
      /\ \A i \in 1 .. n : TransactionsOf(s)[i] =
            [candidate |-> CandidateOf(s.stack[i]), kept |-> KeptOf(s, i)]
  BY TransactionsType
<1>6. /\ TransactionsOf(t) \in Seq(Transaction) /\ Len(TransactionsOf(t)) = n + 1
      /\ \A i \in 1 .. n + 1 : TransactionsOf(t)[i] =
            [candidate |-> CandidateOf(t.stack[i]), kept |-> KeptOf(t, i)]
  <2>1. Parted(t)
    BY DEF t
  <2> QED
    BY <1>1, <2>1, TransactionsType
<1>7. \A i \in 1 .. n : TransactionsOf(t)[i] = TransactionsOf(s)[i]
  <2> SUFFICES ASSUME NEW i \in 1 .. n PROVE TransactionsOf(t)[i] = TransactionsOf(s)[i]
    OBVIOUS
  <2>1. EndOf(t, i) = EndOf(s, i)
    BY <1>1, <1>2 DEF EndOf
  <2>2. KeptOf(t, i) = KeptOf(s, i)
    BY <1>1, <1>2, <2>1 DEF KeptOf
  <2>3. i \in 1 .. n + 1 /\ t.stack[i] = s.stack[i]
    BY <1>1
  <2> QED
    BY <1>5, <1>6, <2>2, <2>3
<1>8. TransactionsOf(t)[n + 1] = empty
  <2>1. KeptOf(t, n + 1) = SubSeq(s.flight, Len(s.flight) + 1, Len(s.flight))
    BY <1>1, <1>2 DEF KeptOf, EndOf
  <2>2. KeptOf(t, n + 1) = <<>>
    BY <1>3, <2>1, SubSeqEmpty
  <2>3. CandidateOf(t.stack[n + 1]) = <<>>
    BY <1>2 DEF CandidateOf
  <2> QED
    BY <1>1, <1>6, <2>2, <2>3
<1> HIDE DEF empty
<1>9. /\ Append(TransactionsOf(s), empty) \in Seq(Transaction)
      /\ Len(Append(TransactionsOf(s), empty)) = n + 1
      /\ \A i \in 1 .. n : Append(TransactionsOf(s), empty)[i] = TransactionsOf(s)[i]
      /\ Append(TransactionsOf(s), empty)[n + 1] = empty
  BY <1>4, <1>5, AppendProperties
<1>10. \A i \in 1 .. n + 1 : TransactionsOf(t)[i] = Append(TransactionsOf(s), empty)[i]
  BY <1>1, <1>7, <1>8, <1>9
<1>11. TransactionsOf(t) = Append(TransactionsOf(s), empty)
  BY <1>6, <1>9, <1>10, SeqEqual
<1> QED
  BY <1>11 DEF t, empty

(* A rollback drops the innermost transaction. *)
LEMMA RollbackAborts ==
  ASSUME NEW s \in Store, Parted(s), s.stack # <<>>, Parted(popFrame(s, FALSE))
  PROVE  TransactionsOf(popFrame(s, FALSE)) =
           SubSeq(TransactionsOf(s), 1, Len(s.stack) - 1)
<1> DEFINE t == popFrame(s, FALSE)
           n == Len(s.stack)
           last == s.stack[n]
<1>1. s.stack \in Seq(errorFrame) /\ s.flight \in Seq(SyntaxError)
  BY DEF Store
<1>2. n \in Nat /\ n > 0 /\ n \in 1 .. n
  BY <1>1
<1>3. last \in errorFrame /\ last.commitStartIndex \in 0 .. Len(s.flight)
  BY <1>1, <1>2, TransactionsType
<1>4. /\ t.stack = Pop(s.stack) /\ Len(t.stack) = n - 1
      /\ \A i \in 1 .. n - 1 : t.stack[i] = s.stack[i]
  <2>1. t.stack = Pop(s.stack)
    BY DEF popFrame, Store
  <2> QED
    BY <1>1, <2>1, PopProperties
<1>5. t.flight = SubSeq(s.flight, 1, last.commitStartIndex)
  BY DEF popFrame, Store, Top
<1>6. t \in Store /\ Len(t.flight) = last.commitStartIndex
  <2>1. Top(s).commitStartIndex <= Len(s.flight) /\ Top(s) = last
    BY <1>1, <1>3 DEF Top
  <2> QED
    BY <2>1, RollbackProperties
<1>7. Parted(t)
  OBVIOUS
<1> HIDE DEF t, last
<1>8. /\ TransactionsOf(s) \in Seq(Transaction) /\ Len(TransactionsOf(s)) = n
      /\ \A i \in 1 .. n : TransactionsOf(s)[i] =
            [candidate |-> CandidateOf(s.stack[i]), kept |-> KeptOf(s, i)]
      /\ \A i \in 1 .. n : s.stack[i].commitStartIndex \in 0 .. Len(s.flight)
                           /\ EndOf(s, i) \in 0 .. Len(s.flight)
  BY TransactionsType
<1>9. /\ TransactionsOf(t) \in Seq(Transaction) /\ Len(TransactionsOf(t)) = n - 1
      /\ \A i \in 1 .. n - 1 : TransactionsOf(t)[i] =
            [candidate |-> CandidateOf(t.stack[i]), kept |-> KeptOf(t, i)]
  BY <1>4, <1>6, <1>7, TransactionsType
<1>10. \A i \in 1 .. n - 1 : TransactionsOf(t)[i] = TransactionsOf(s)[i]
  <2> SUFFICES ASSUME NEW i \in 1 .. n - 1 PROVE TransactionsOf(t)[i] = TransactionsOf(s)[i]
    OBVIOUS
  <2>1. i \in 1 .. n /\ i + 1 \in 1 .. n /\ i # n /\ t.stack[i] = s.stack[i]
    BY <1>2, <1>4
  <2>2. EndOf(s, i) = s.stack[i + 1].commitStartIndex
    BY <2>1 DEF EndOf
  <2>3. EndOf(t, i) = EndOf(s, i)
    <3>1. CASE i = n - 1
      BY <1>2, <1>4, <1>6, <2>2, <3>1 DEF EndOf, last
    <3>2. CASE i # n - 1
      <4>1. i + 1 \in 1 .. n - 1
        BY <1>2, <3>2
      <4> QED
        BY <1>4, <2>2, <3>2, <4>1 DEF EndOf
    <3> QED
      BY <3>1, <3>2
  <2>4. EndOf(s, i) \in 0 .. last.commitStartIndex
    <3>1. s.stack[i + 1].commitStartIndex <= s.stack[n].commitStartIndex
      BY <1>2, <2>1 DEF Parted
    <3> QED
      BY <1>3, <1>8, <2>1, <2>2, <3>1 DEF last
  <2>5. s.stack[i].commitStartIndex \in Nat
    BY <1>8, <2>1
  <2>6. SubSeq(t.flight, s.stack[i].commitStartIndex + 1, EndOf(s, i)) =
          SubSeq(s.flight, s.stack[i].commitStartIndex + 1, EndOf(s, i))
    BY <1>1, <1>3, <1>5, <2>4, <2>5, PartOfCut
  <2>7. KeptOf(t, i) = KeptOf(s, i)
    BY <2>1, <2>3, <2>6 DEF KeptOf
  <2> QED
    BY <1>8, <1>9, <2>1, <2>7
<1>11. n - 1 \in 0 .. Len(TransactionsOf(s))
  BY <1>2, <1>8
<1>12. /\ SubSeq(TransactionsOf(s), 1, n - 1) \in Seq(Transaction)
       /\ Len(SubSeq(TransactionsOf(s), 1, n - 1)) = n - 1
       /\ \A i \in 1 .. n - 1 : SubSeq(TransactionsOf(s), 1, n - 1)[i] = TransactionsOf(s)[i]
  BY <1>8, <1>11, CutProperties
<1>13. \A i \in 1 .. n - 1 : TransactionsOf(t)[i] = SubSeq(TransactionsOf(s), 1, n - 1)[i]
  BY <1>10, <1>12
<1>14. TransactionsOf(t) = SubSeq(TransactionsOf(s), 1, n - 1)
  BY <1>9, <1>12, <1>13, SeqEqual
<1> QED
  BY <1>14 DEF t

(* A new best error of the top frame is a new candidate of the innermost   *)
(* transaction.                                                            *)
LEMMA SetBestProposes ==
  ASSUME NEW s \in Store, Parted(s), s.stack # <<>>, NEW err \in SyntaxError,
         Parted(setBest(s, err))
  PROVE  TransactionsOf(setBest(s, err)) =
           [TransactionsOf(s) EXCEPT ![Len(s.stack)].candidate = <<err>>]
<1> DEFINE t == setBest(s, err)
           n == Len(s.stack)
           tx == TransactionsOf(s)
           new == [tx[n] EXCEPT !.candidate = <<err>>]
<1>1. s.stack \in Seq(errorFrame) /\ n \in Nat /\ n \in 1 .. n
  BY DEF Store
<1>2. /\ t \in Store /\ t.flight = s.flight /\ Len(t.stack) = n
      /\ \A i \in 1 .. n : t.stack[i].commitStartIndex = s.stack[i].commitStartIndex
  <2>1. t.flight = s.flight
    BY DEF setBest, Store
  <2> QED
    BY <2>1, SetBestProperties
<1>3. /\ t.stack[n].hasBest /\ t.stack[n].best = err
      /\ \A i \in 1 .. n : i # n => t.stack[i] = s.stack[i]
  <2>1. t.stack = [[s.stack EXCEPT ![n].best = err] EXCEPT ![n].hasBest = TRUE]
    BY DEF setBest, Store
  <2>2. s.stack[n] \in errorFrame /\ DOMAIN s.stack = 1 .. n
    BY <1>1
  <2> DEFINE u == [s.stack EXCEPT ![n].best = err]
  <2>3. /\ DOMAIN u = 1 .. n /\ u[n] = [s.stack[n] EXCEPT !.best = err]
        /\ \A i \in 1 .. n : i # n => u[i] = s.stack[i]
    BY <1>1, <2>2
  <2> HIDE DEF u
  <2>4. /\ t.stack[n] = [u[n] EXCEPT !.hasBest = TRUE]
        /\ \A i \in 1 .. n : i # n => t.stack[i] = u[i]
    BY <1>1, <2>1, <2>3 DEF u
  <2> QED
    BY <2>2, <2>3, <2>4 DEF errorFrame
<1>4. Parted(t)
  OBVIOUS
<1> HIDE DEF t
<1>5. /\ tx \in Seq(Transaction) /\ Len(tx) = n
      /\ \A i \in 1 .. n : tx[i] =
            [candidate |-> CandidateOf(s.stack[i]), kept |-> KeptOf(s, i)]
  BY TransactionsType
<1>6. /\ TransactionsOf(t) \in Seq(Transaction) /\ Len(TransactionsOf(t)) = n
      /\ \A i \in 1 .. n : TransactionsOf(t)[i] =
            [candidate |-> CandidateOf(t.stack[i]), kept |-> KeptOf(t, i)]
  BY <1>2, <1>4, TransactionsType
<1>7. \A i \in 1 .. n : KeptOf(t, i) = KeptOf(s, i)
  <2> SUFFICES ASSUME NEW i \in 1 .. n PROVE KeptOf(t, i) = KeptOf(s, i)
    OBVIOUS
  <2>1. i # n => i + 1 \in 1 .. n
    BY <1>1
  <2>2. EndOf(t, i) = EndOf(s, i)
    BY <1>2, <2>1 DEF EndOf
  <2> QED
    BY <1>2, <2>2 DEF KeptOf
<1>8. tx[n] = [candidate |-> CandidateOf(s.stack[n]), kept |-> KeptOf(s, n)]
  BY <1>1, <1>5
<1> HIDE DEF tx
<1>9. new = [candidate |-> <<err>>, kept |-> KeptOf(s, n)]
  BY <1>8
<1>10. KeptOf(s, n) \in Seq(SyntaxError) /\ <<err>> \in Seq(SyntaxError)
  <2>1. \A i \in 1 .. n : KeptOf(s, i) \in Seq(SyntaxError)
    BY TransactionsType
  <2>2. <<err>> \in Seq(SyntaxError)
    OBVIOUS
  <2> QED
    BY <1>1, <2>1, <2>2
<1>11. new \in Transaction
  BY <1>9, <1>10 DEF Transaction
<1>12. TransactionsOf(t)[n] = new
  <2>1. CandidateOf(t.stack[n]) = <<err>>
    BY <1>3 DEF CandidateOf
  <2> QED
    BY <1>1, <1>6, <1>7, <1>9, <2>1
<1> HIDE DEF new
<1>13. /\ [tx EXCEPT ![n] = new] \in Seq(Transaction) /\ Len([tx EXCEPT ![n] = new]) = n
       /\ \A i \in 1 .. n : [tx EXCEPT ![n] = new][i] = IF i = n THEN new ELSE tx[i]
  <2>1. n \in 1 .. Len(tx)
    BY <1>1, <1>5
  <2> QED
    BY <1>5, <1>11, <2>1, ExceptSeq
<1>14. \A i \in 1 .. n : TransactionsOf(t)[i] = [tx EXCEPT ![n] = new][i]
  <2> SUFFICES ASSUME NEW i \in 1 .. n, i # n PROVE TransactionsOf(t)[i] = tx[i]
    BY <1>12, <1>13
  <2>1. t.stack[i] = s.stack[i] /\ KeptOf(t, i) = KeptOf(s, i)
    BY <1>3, <1>7
  <2> QED
    BY <1>5, <1>6, <2>1
<1>15. TransactionsOf(t) = [tx EXCEPT ![n] = new]
  BY <1>6, <1>13, <1>14, SeqEqual
<1> QED
  BY <1>15 DEF t, tx, new

(* What a commit does to the flight: the candidate goes behind it. *)
LEMMA CommittedFlight ==
  ASSUME NEW s \in Store, s.stack # <<>>
  PROVE  LET all == s.flight \o CandidateOf(Top(s))
         IN  /\ CandidateOf(Top(s)) \in Seq(SyntaxError) /\ all \in Seq(SyntaxError)
             /\ Len(s.stack) # 1 => /\ popFrame(s, TRUE).flight = all
                                    /\ popFrame(s, TRUE).Errors = s.Errors
             /\ Len(s.stack) = 1 => popFrame(s, TRUE).Errors = s.Errors \o all
<1> DEFINE kept == IF Top(s).hasBest THEN Append(s.flight, Top(s).best) ELSE s.flight
           all == s.flight \o CandidateOf(Top(s))
<1>1. s.stack \in Seq(errorFrame) /\ s.flight \in Seq(SyntaxError)
  BY DEF Store
<1>2. Top(s) \in errorFrame
  BY <1>1 DEF Top
<1>3. Top(s).hasBest => Top(s).best \in SyntaxError
  BY <1>2 DEF errorFrame
<1>4. CandidateOf(Top(s)) \in Seq(SyntaxError) /\ all \in Seq(SyntaxError)
  <2>1. CandidateOf(Top(s)) \in Seq(SyntaxError)
    BY <1>3 DEF CandidateOf
  <2> QED
    BY <1>1, <2>1, ConcatProperties
<1>5. kept = all
  <2>1. CASE Top(s).hasBest
    BY <1>1, <1>3, <2>1, AppendIsConcat DEF CandidateOf
  <2>2. CASE ~Top(s).hasBest
    BY <1>1, <2>2, ConcatEmptySeq DEF CandidateOf
  <2> QED
    BY <2>1, <2>2
<1>6. Pop(s.stack) = <<>> <=> Len(s.stack) = 1
  <2>1. Len(Pop(s.stack)) = Len(s.stack) - 1 /\ Pop(s.stack) \in Seq(errorFrame)
        /\ Len(s.stack) \in Nat
    BY <1>1, PopProperties
  <2>2. Pop(s.stack) = <<>> <=> Len(Pop(s.stack)) = 0
    BY <2>1, EmptySeq
  <2> QED
    BY <2>1, <2>2
<1>7. popFrame(s, TRUE) =
        IF Pop(s.stack) = <<>>
          THEN [s EXCEPT !.stack = Pop(s.stack), !.Errors = @ \o kept, !.flight = <<>>]
          ELSE [s EXCEPT !.stack = Pop(s.stack), !.flight = kept]
  BY DEF popFrame
<1> HIDE DEF kept, all
<1>8. CASE Len(s.stack) = 1
  BY <1>4, <1>5, <1>6, <1>7, <1>8 DEF Store, all
<1>9. CASE Len(s.stack) # 1
  BY <1>4, <1>5, <1>6, <1>7, <1>9 DEF Store, all
<1> QED
  BY <1>8, <1>9

(* The frames below the parent of the top frame. *)
LEMMA BelowParent ==
  ASSUME NEW m \in Nat, NEW i \in 1 .. m, i # m
  PROVE  i \in 1 .. m + 1 /\ i + 1 \in 1 .. m /\ i + 1 \in 1 .. m + 1 /\ i # m + 1
OBVIOUS

(* The transactions after transaction n has committed to its parent m. *)
HandedOver(tx, m, n) ==
  [SubSeq(tx, 1, m) EXCEPT ![m].kept = @ \o (tx[n].kept \o tx[n].candidate)]

(* A commit below another frame hands what the transaction kept and its    *)
(* candidate to the parent.                                                *)
LEMMA CommitHandsOver ==
  ASSUME NEW s \in Store, Parted(s), Parted(popFrame(s, TRUE)),
         NEW m \in Nat \ {0}, NEW n \in Nat, n = m + 1, Len(s.stack) = n,
         NEW tx, tx = TransactionsOf(s)
  PROVE  TransactionsOf(popFrame(s, TRUE)) = HandedOver(tx, m, n)
<1> DEFINE t == popFrame(s, TRUE)
           cand == CandidateOf(s.stack[n])
           start == s.stack[n].commitStartIndex
           from == s.stack[m].commitStartIndex
           parents == SubSeq(tx, 1, m)
           more == parents[m].kept \o (tx[n].kept \o tx[n].candidate)
           new == [parents[m] EXCEPT !.kept = more]
<1>1. s.stack \in Seq(errorFrame) /\ s.flight \in Seq(SyntaxError) /\ Len(s.flight) \in Nat
  BY DEF Store
<1>2. /\ m \in 1 .. n /\ n \in 1 .. n /\ m # n /\ m \in 1 .. m /\ m <= n /\ n # 1
      /\ m = n - 1 /\ s.stack # <<>>
  BY <1>1
<1>3. Top(s) = s.stack[n]
  BY DEF Top
<1>4. /\ cand \in Seq(SyntaxError) /\ s.flight \o cand \in Seq(SyntaxError)
      /\ t.flight = s.flight \o cand
  BY <1>2, <1>3, CommittedFlight
<1>5. /\ t \in Store /\ Len(t.stack) = m /\ \A i \in 1 .. m : t.stack[i] = s.stack[i]
  <2>1. t \in Store /\ t.stack = Pop(s.stack)
    BY <1>2, CommitProperties
  <2> QED
    BY <1>1, <1>2, <2>1, PopProperties, ZenonT(60)
<1>6. Parted(t)
  OBVIOUS
<1> HIDE DEF t
<1>7. /\ tx \in Seq(Transaction) /\ Len(tx) = n
      /\ \A i \in 1 .. n :
           /\ tx[i] = [candidate |-> CandidateOf(s.stack[i]), kept |-> KeptOf(s, i)]
           /\ s.stack[i].commitStartIndex \in 0 .. Len(s.flight)
           /\ EndOf(s, i) \in 0 .. Len(s.flight)
           /\ KeptOf(s, i) \in Seq(SyntaxError)
  BY TransactionsType
<1>8. /\ TransactionsOf(t) \in Seq(Transaction) /\ Len(TransactionsOf(t)) = m
      /\ \A i \in 1 .. m : TransactionsOf(t)[i] =
            [candidate |-> CandidateOf(t.stack[i]), kept |-> KeptOf(t, i)]
  BY <1>5, <1>6, TransactionsType
<1>9. /\ parents \in Seq(Transaction) /\ Len(parents) = m
      /\ \A i \in 1 .. m : parents[i] = tx[i]
  <2>1. m \in 0 .. Len(tx)
    BY <1>2, <1>7
  <2> QED
    BY <1>7, <2>1, CutProperties
<1> HIDE DEF start, from, cand, parents, more, new
<1>10. ASSUME NEW i \in 1 .. m, i # m PROVE TransactionsOf(t)[i] = tx[i]
  <2>0. i \in 1 .. n /\ i + 1 \in 1 .. m /\ i + 1 \in 1 .. n /\ i # n
    BY <1>10, BelowParent
  <2>1. t.stack[i] = s.stack[i] /\ t.stack[i + 1] = s.stack[i + 1]
    BY <1>5, <2>0
  <2>2. EndOf(t, i) = EndOf(s, i)
    BY <1>5, <1>10, <2>0, <2>1 DEF EndOf
  <2> DEFINE a == s.stack[i].commitStartIndex
             e == EndOf(s, i)
  <2>3. e \in 0 .. Len(s.flight) /\ a \in Nat
    BY <1>7, <2>0, SMTT(60)
  <2>4. KeptOf(t, i) = KeptOf(s, i)
    <3>1. KeptOf(t, i) = SubSeq(s.flight \o cand, a + 1, e)
      BY <1>4, <2>1, <2>2 DEF KeptOf
    <3>2. KeptOf(s, i) = SubSeq(s.flight, a + 1, e)
      BY DEF KeptOf
    <3> HIDE DEF a, e
    <3> QED
      BY <1>1, <1>4, <2>3, <3>1, <3>2, PartOfConcat, ZenonT(60)
  <2> QED
    BY <1>7, <1>8, <2>0, <2>1, <2>4
<1>11. KeptOf(t, m) = more
  <2>1. /\ start \in 0 .. Len(s.flight) /\ from \in 0 .. start
        /\ KeptOf(s, n) \in Seq(SyntaxError) /\ KeptOf(s, m) \in Seq(SyntaxError)
    <3>1. from <= start
      BY <1>2 DEF Parted, from, start
    <3>2. start \in 0 .. Len(s.flight) /\ from \in 0 .. Len(s.flight)
      BY <1>2, <1>7 DEF from, start
    <3>3. KeptOf(s, n) \in Seq(SyntaxError) /\ KeptOf(s, m) \in Seq(SyntaxError)
      BY <1>2, <1>7
    <3> QED
      BY <1>1, <3>1, <3>2, <3>3
  <2>2. KeptOf(s, n) = SubSeq(s.flight, start + 1, Len(s.flight))
    BY <1>2 DEF KeptOf, EndOf, start
  <2>3. KeptOf(s, m) = SubSeq(s.flight, from + 1, start)
    BY <1>2 DEF KeptOf, EndOf, from, start
  <2>4. KeptOf(t, m) = SubSeq(t.flight, from + 1, Len(t.flight))
    BY <1>2, <1>5 DEF KeptOf, EndOf, from
  <2>5. from \in 0 .. Len(s.flight)
    BY <1>1, <2>1
  <2>6. KeptOf(t, m) = SubSeq(s.flight, from + 1, Len(s.flight)) \o cand
    BY <1>1, <1>4, <2>4, <2>5, PartAndMore
  <2>7. SubSeq(s.flight, from + 1, start) \o SubSeq(s.flight, start + 1, Len(s.flight))
          = SubSeq(s.flight, from + 1, Len(s.flight))
    <3> DEFINE a == from + 1
               z == Len(s.flight)
    <3>1. a \in 1 .. Len(s.flight) + 1 /\ start \in a - 1 .. Len(s.flight)
          /\ z \in start .. Len(s.flight)
      BY <1>1, <2>1
    <3> HIDE DEF a, z
    <3>2. SubSeq(s.flight, a, start) \o SubSeq(s.flight, start + 1, z) = SubSeq(s.flight, a, z)
      BY <1>1, <3>1, ConcatAdjacentSubSeq
    <3> QED
      BY <3>2 DEF a, z
  <2>8. KeptOf(t, m) = (KeptOf(s, m) \o KeptOf(s, n)) \o cand
    BY <2>2, <2>3, <2>6, <2>7
  <2>9. KeptOf(t, m) = KeptOf(s, m) \o (KeptOf(s, n) \o cand)
    <3> DEFINE x == KeptOf(s, m)
               y == KeptOf(s, n)
    <3>1. x \in Seq(SyntaxError) /\ y \in Seq(SyntaxError) /\ cand \in Seq(SyntaxError)
      BY <1>4, <2>1
    <3> HIDE DEF x, y
    <3>2. (x \o y) \o cand = x \o (y \o cand)
      BY <3>1, ConcatAssociative
    <3> QED
      BY <2>8, <3>2 DEF x, y
  <2>10. tx[m].kept = KeptOf(s, m) /\ tx[n].kept = KeptOf(s, n) /\ tx[n].candidate = cand
    <3>1. tx[m] = [candidate |-> CandidateOf(s.stack[m]), kept |-> KeptOf(s, m)]
      BY <1>2, <1>7
    <3>2. tx[n] = [candidate |-> CandidateOf(s.stack[n]), kept |-> KeptOf(s, n)]
      BY <1>2, <1>7
    <3> QED
      BY <3>1, <3>2 DEF cand
  <2>11. parents[m] = tx[m]
    BY <1>2, <1>9
  <2> QED
    BY <2>9, <2>10, <2>11 DEF more
<1>12. TransactionsOf(t)[m] = new
  <2>1. TransactionsOf(t)[m] = [candidate |-> CandidateOf(s.stack[m]), kept |-> more]
    BY <1>2, <1>5, <1>8, <1>11
  <2>2. parents[m] = [candidate |-> CandidateOf(s.stack[m]), kept |-> KeptOf(s, m)]
    BY <1>2, <1>7, <1>9
  <2> QED
    BY <2>1, <2>2 DEF new
<1>13. new \in Transaction
  BY <1>2, <1>8, <1>12
<1>14. /\ [parents EXCEPT ![m] = new] \in Seq(Transaction)
       /\ Len([parents EXCEPT ![m] = new]) = m
       /\ \A i \in 1 .. m : [parents EXCEPT ![m] = new][i] = IF i = m THEN new ELSE parents[i]
  BY <1>2, <1>9, <1>13, ExceptSeq
<1>15. \A i \in 1 .. m : TransactionsOf(t)[i] = [parents EXCEPT ![m] = new][i]
  BY <1>9, <1>10, <1>12, <1>14
<1>16. TransactionsOf(t) = [parents EXCEPT ![m] = new]
  BY <1>8, <1>14, <1>15, SeqEqual
<1> QED
  BY <1>16 DEF t, new, parents, more, HandedOver

(* The outermost commit publishes all that the transaction kept, which is  *)
(* the whole flight, and its candidate.                                    *)
LEMMA CommitPublishes ==
  ASSUME NEW s \in Store, Parted(s), Len(s.stack) = 1, Parted(popFrame(s, TRUE)),
         NEW tx, tx = TransactionsOf(s)
  PROVE  /\ TransactionsOf(popFrame(s, TRUE)) = <<>>
         /\ popFrame(s, TRUE).Errors = s.Errors \o (tx[1].kept \o tx[1].candidate)
<1>1. s.stack \in Seq(errorFrame) /\ s.flight \in Seq(SyntaxError)
  BY DEF Store
<1>2. s.stack # <<>>
  <2>1. Len(<<>>) = 0
    OBVIOUS
  <2>2. Len(s.stack) # 0
    OBVIOUS
  <2> QED
    BY <2>1, <2>2, Zenon
<1>3. TransactionsOf(popFrame(s, TRUE)) = <<>>
  <2> DEFINE t == popFrame(s, TRUE)
  <2>1. t \in Store /\ t.stack = Pop(s.stack)
    BY <1>2, CommitProperties
  <2>2. Len(t.stack) = 0
    <3>1. Len(Pop(s.stack)) = Len(s.stack) - 1
      BY <1>1, <1>2, PopProperties
    <3>2. Len(Pop(s.stack)) = 0
      BY <3>1
    <3> QED
      BY <2>1, <3>2
  <2>3. Parted(t)
    OBVIOUS
  <2> HIDE DEF t
  <2>4. TransactionsOf(t) \in Seq(Transaction) /\ Len(TransactionsOf(t)) = 0
    BY <2>1, <2>2, <2>3, TransactionsType
  <2>5. TransactionsOf(t) = <<>>
    BY <2>4, EmptySeq
  <2> QED
    BY <2>5 DEF t
<1>4. popFrame(s, TRUE).Errors = s.Errors \o (s.flight \o CandidateOf(s.stack[1]))
  BY <1>2, CommittedFlight DEF Top
<1>5. tx[1] = [candidate |-> CandidateOf(s.stack[1]), kept |-> KeptOf(s, 1)]
  <2>1. 1 \in 1 .. Len(s.stack)
    OBVIOUS
  <2> QED
    BY <2>1, TransactionsType
<1>6. KeptOf(s, 1) = s.flight
  <2>1. KeptOf(s, 1) = SubSeq(s.flight, 1, Len(s.flight))
    BY <1>2 DEF KeptOf, EndOf, Parted
  <2> QED
    BY <1>1, <2>1, SubSeqFull
<1>7. tx[1].kept = s.flight /\ tx[1].candidate = CandidateOf(s.stack[1])
  BY <1>5, <1>6
<1> QED
  BY <1>3, <1>4, <1>7

-----------------------------------------------------------------------------
(* The refinement. *)

(* The transactions of the refinement mapping are those of the store. *)
LEMMA MappedTransactions ==
  /\ Transactions = TransactionsOf(se)
  /\ Transactions' = TransactionsOf(se')
BY DEF Transactions, TransactionsOf, FlightEnd, EndOf, CandidateOf, KeptOf

LEMMA InitRefinesLog == Init => Log!LogInit
<1> SUFFICES ASSUME Init PROVE Log!LogInit
  OBVIOUS
<1>1. se.stack = <<>> /\ se.Errors = <<>> /\ Len(se.stack) = 0
  BY DEF Init, SyntaxErrorsCreate
<1>2. Inv
  BY InitInv
<1>3. Transactions = <<>>
  <2>1. TransactionsOf(se) \in Seq(Transaction) /\ Len(TransactionsOf(se)) = 0
    BY <1>1, <1>2, InvParted, TransactionsType
  <2> QED
    BY <2>1, MappedTransactions, EmptySeq
<1> QED
  BY <1>1, <1>3 DEF Log!LogInit

(* A frame that a rule closes is on the stack. *)
LEMMA FrameIsOpen == Inv /\ Close("frame") => se.stack # <<>>
<1> SUFFICES ASSUME Inv, Close("frame") PROVE se.stack # <<>>
  OBVIOUS
<1>1. Entries(se, "frame") > 0
  BY CloseFacts
<1>2. Entries(se, "frame") = Len(se.stack)
  BY DEF Entries
<1> QED
  BY <1>1, <1>2, EmptySeq

(* A commit of the store is a commit of the log, a rollback an abort. *)
LEMMA CommitRefines ==
  ASSUME Inv, Inv', se.stack # <<>>, se' = popFrame(se, TRUE)
  PROVE  Log!CommitToParent \/ Log!CommitOutermost
<1> DEFINE n == Len(se.stack)
           m == n - 1
           tx == TransactionsOf(se)
<1>1. se \in Store /\ Parted(se) /\ se' \in Store /\ Parted(se')
  BY InvParted, InvPartedNext
<1>2. Transactions = tx /\ Transactions' = TransactionsOf(se')
  BY MappedTransactions
<1>3. Len(tx) = n /\ n \in Nat /\ n # 0
  BY <1>1, TransactionsType, EmptySeq DEF Store
<1>4. CASE n = 1
  <2>1. TransactionsOf(se') = <<>> /\ se'.Errors = se.Errors \o (tx[1].kept \o tx[1].candidate)
    BY <1>1, <1>4, CommitPublishes
  <2> HIDE DEF tx
  <2>2. Log!CommitOutermost
    BY <1>2, <1>3, <1>4, <2>1 DEF Log!CommitOutermost, Log!Depth, Log!Result
  <2> QED
    BY <2>2
<1>5. CASE n # 1
  <2>0. Len(se.stack) = n /\ tx = TransactionsOf(se) /\ Parted(popFrame(se, TRUE))
    BY <1>1
  <2>3. se'.Errors = se.Errors
    BY <1>1, <1>5, CommittedFlight
  <2> HIDE DEF tx, n
  <2>1. m \in Nat \ {0} /\ n \in Nat /\ n = m + 1 /\ n > 1
    BY <1>3, <1>5
  <2> HIDE DEF m
  <2>2. TransactionsOf(popFrame(se, TRUE)) = HandedOver(tx, m, n)
    BY <1>1, <2>0, <2>1, CommitHandsOver
  <2>4. Log!CommitToParent
    BY <1>2, <1>3, <2>1, <2>2, <2>3 DEF Log!CommitToParent, Log!Depth, Log!Result, Log!Parents, HandedOver, m
  <2> QED
    BY <2>4
<1> QED
  BY <1>4, <1>5

LEMMA RollbackRefines ==
  ASSUME Inv, Inv', se.stack # <<>>, se' = popFrame(se, FALSE)
  PROVE  Log!Abort
<1> DEFINE n == Len(se.stack)
           tx == TransactionsOf(se)
<1>1. se \in Store /\ Parted(se) /\ se' \in Store /\ Parted(se')
  BY InvParted, InvPartedNext
<1>2. Transactions = tx /\ Transactions' = TransactionsOf(se')
  BY MappedTransactions
<1>3. Len(tx) = n /\ n \in Nat /\ n # 0
  BY <1>1, TransactionsType, EmptySeq DEF Store
<1>4. TransactionsOf(se') = SubSeq(tx, 1, n - 1)
  BY <1>1, RollbackAborts
<1>5. se'.Errors = se.Errors
  BY <1>1 DEF popFrame, Store
<1> HIDE DEF n, tx
<1>6. Log!Depth = n /\ n > 0
  BY <1>2, <1>3 DEF Log!Depth
<1>7. Log!Parents = SubSeq(tx, 1, n - 1)
  BY <1>2, <1>6, Zenon DEF Log!Parents
<1> QED
  BY <1>2, <1>4, <1>5, <1>6, <1>7 DEF Log!Abort

LEMMA SetBestRefines ==
  ASSUME Inv, Inv', se.stack # <<>>, NEW err \in SyntaxError, se' = setBest(se, err)
  PROVE  Log!Propose(err)
<1> DEFINE n == Len(se.stack)
           tx == TransactionsOf(se)
<1>1. se \in Store /\ Parted(se) /\ se' \in Store /\ Parted(se')
  BY InvParted, InvPartedNext
<1>2. Transactions = tx /\ Transactions' = TransactionsOf(se')
  BY MappedTransactions
<1>3. Len(tx) = n /\ n \in Nat /\ n # 0
  BY <1>1, TransactionsType, EmptySeq DEF Store
<1>4. TransactionsOf(se') = [tx EXCEPT ![n].candidate = <<err>>]
  BY <1>1, SetBestProposes
<1>5. se'.Errors = se.Errors
  BY <1>1 DEF setBest, Store
<1> HIDE DEF n, tx
<1> QED
  BY <1>2, <1>3, <1>4, <1>5 DEF Log!Propose, Log!Depth

LEMMA ReportRefines ==
  ASSUME Inv, Inv', NEW err \in SyntaxError, Report(err)
  PROVE  Log!Propose(err) \/ Log!PublishDirectly(err) \/ UNCHANGED Log!logVars
<1>1. se \in Store /\ Parted(se) /\ se' = report(se, err)
  BY InvParted DEF Report
<1>2. CASE se.stack = <<>>
  <2>1. se' = [se EXCEPT !.Errors = Append(se.Errors, err)]
    BY <1>1, <1>2 DEF report
  <2>2. se'.Errors = Append(se.Errors, err) /\ se'.stack = se.stack /\ se'.flight = se.flight
    BY <1>1, <2>1 DEF Store
  <2>3. Transactions' = Transactions
    BY <2>2, MappedTransactions DEF TransactionsOf, CandidateOf, KeptOf, EndOf
  <2>4. Len(Transactions) = 0
    BY <1>1, <1>2, MappedTransactions, TransactionsType, EmptySeq
  <2> QED
    BY <2>2, <2>3, <2>4 DEF Log!PublishDirectly, Log!Depth
<1>3. CASE se.stack # <<>> /\ betterError(Top(se), err)
  BY <1>1, <1>3, SetBestRefines DEF report
<1>4. CASE se.stack # <<>> /\ ~betterError(Top(se), err)
  <2>1. se' = se
    BY <1>1, <1>4 DEF report
  <2> QED
    BY <2>1 DEF Log!logVars, Transactions, FlightEnd
<1> QED
  BY <1>2, <1>3, <1>4

LEMMA NextRefinesLog == Inv /\ [Next]_vars => [Log!LogNext]_(Log!logVars)
<1> SUFFICES ASSUME Inv, [Next]_vars PROVE [Log!LogNext]_(Log!logVars)
  OBVIOUS
<1>0. Inv' /\ se \in Store
  BY NextInv, InvParted
<1>1. ASSUME PushFrame PROVE Log!Begin
  <2>1. se' = pushFrame(se)
    BY <1>1 DEF PushFrame
  <2>2. Parted(se) /\ Parted(pushFrame(se))
    BY <1>0, <2>1, InvParted, InvPartedNext
  <2>3. Transactions' = Append(Transactions, [candidate |-> <<>>, kept |-> <<>>])
    BY <1>0, <2>1, <2>2, PushBegins, MappedTransactions
  <2>4. se'.Errors = se.Errors
    BY <1>0, <2>1 DEF pushFrame, Store
  <2> QED
    BY <2>3, <2>4 DEF Log!Begin
<1>2. ASSUME FailFrame PROVE Log!CommitToParent \/ Log!CommitOutermost
  <2>1. se.stack # <<>> /\ popFrame(se, TRUE) \in Store
    <3>1. se.stack # <<>>
      BY <1>2, FrameIsOpen DEF FailFrame
    <3> QED
      BY <1>0, <3>1, CommitProperties
  <2>2. se' = popFrame(se, TRUE)
    BY <1>2, <2>1, PushThenRollback DEF FailFrame
  <2> QED
    BY <1>0, <2>1, <2>2, CommitRefines
<1>3. ASSUME NEW commit \in BOOLEAN, PopFrame(commit)
      PROVE  Log!CommitToParent \/ Log!CommitOutermost \/ Log!Abort
  <2>1. se.stack # <<>>
    BY <1>3, FrameIsOpen DEF PopFrame
  <2>2. CASE commit
    <3>1. se' = popFrame(se, TRUE)
      BY <1>3, <2>2 DEF PopFrame
    <3> QED
      BY <1>0, <2>1, <3>1, CommitRefines
  <2>3. CASE ~commit
    <3>1. se' = popFrame(se, FALSE)
      BY <1>3, <2>3 DEF PopFrame
    <3> QED
      BY <1>0, <2>1, <3>1, RollbackRefines
  <2> QED
    BY <2>2, <2>3
<1>4. ASSUME NEW err \in SyntaxError, Report(err)
      PROVE  Log!Propose(err) \/ Log!PublishDirectly(err) \/ UNCHANGED Log!logVars
  BY <1>0, <1>4, ReportRefines
<1>5. ASSUME NEW err \in SyntaxError, ReplaceBest(err) PROVE Log!Propose(err)
  <2>1. se.stack # <<>> /\ se' = setBest(se, err)
    BY <1>5 DEF ReplaceBest, replaceBest
  <2> QED
    BY <1>0, <2>1, SetBestRefines
<1>6. ASSUME se'.stack = se.stack, se'.flight = se.flight, se'.Errors = se.Errors
      PROVE  UNCHANGED Log!logVars
  BY <1>6 DEF Log!logVars, Transactions, FlightEnd
<1>7. ASSUME NEW p \in Pos, OpenDelimiter(p) PROVE UNCHANGED Log!logVars
  BY <1>0, <1>6, <1>7 DEF OpenDelimiter, PushDelimiterBoundary, Store
<1>8. ASSUME CloseDelimiter PROVE UNCHANGED Log!logVars
  BY <1>0, <1>6, <1>8 DEF CloseDelimiter, PopDelimiterBoundary, Store
<1>9. ASSUME OpenEntry PROVE UNCHANGED Log!logVars
  BY <1>0, <1>6, <1>9 DEF OpenEntry, BeginEntryRuleScope, Store
<1>10. ASSUME CloseEntry PROVE UNCHANGED Log!logVars
  BY <1>0, <1>6, <1>10 DEF CloseEntry, EndEntryRuleScope, Store
<1>11. ASSUME UNCHANGED vars PROVE UNCHANGED Log!logVars
  BY <1>6, <1>11 DEF vars
<1> QED
  BY <1>1, <1>2, <1>3, <1>4, <1>5, <1>7, <1>8, <1>9, <1>10, <1>11 DEF Next, Log!LogNext

(* The store implements the log of nested transactions: a rollback drops   *)
(* exactly what the frame it closes holds, a commit hands it over in order *)
(* to the parent, and only the outermost commit publishes, although all    *)
(* frames share one buffer (syntax_errors.go:46-126).                      *)
THEOREM LogImplemented == Spec => RefinesErrorLog
BY InitInv, NextInv, InitRefinesLog, NextRefinesLog, PTL DEF Spec, RefinesErrorLog, Log!LogSpec
=============================================================================
