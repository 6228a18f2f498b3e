------------------------ MODULE ContextBuffersProofs ------------------------
(***************************************************************************)
(* The flat buffers of the rule context stay well formed and implement a   *)
(* stack of frames, for any results, any recoveries, any number of rules   *)
(* that run at the same time and any number of children.                   *)
(***************************************************************************)
EXTENDS ContextBuffers, SequenceTheorems, TLAPS

Values == Results \cup {zero}

Slice == [array : Nat, start : Nat, size : Nat, stored : Nat]

Rule == [normal : BOOLEAN, sequence : BOOLEAN, frames : Nat, slices : Nat]

ScratchTypes ==
  /\ heap \in Seq(Seq(Values))
  /\ scratch \in [array : Nat, len : Nat]
  /\ scratch.array \in 1 .. Len(heap) /\ scratch.len <= Len(heap[scratch.array])
  /\ marks \in Seq(Nat) /\ slices \in Seq(Slice) /\ Len(marks) = Len(slices)

(* A slice lies in its array, and no further than the scratch reaches. *)
SlicesLieInside ==
  \A i \in 1 .. Len(slices) :
     /\ slices[i].array \in 1 .. Len(heap)
     /\ slices[i].start + slices[i].size <= Len(heap[slices[i].array])
     /\ slices[i].stored <= slices[i].size
     /\ slices[i].start = marks[i]
     /\ slices[i].start + slices[i].size <= scratch.len

(* A slice ends before every later one starts, in whatever array it is. *)
SlicesAreDisjoint ==
  \A i, j \in 1 .. Len(slices) : i < j => slices[i].start + slices[i].size <= marks[j]

ScratchInv == ScratchTypes /\ SlicesLieInside /\ SlicesAreDisjoint /\ NothingIsRetained

Frame == [consumeStart : Nat, consumeEnd : Nat, noConsumeStart : Nat, noConsumeEnd : Nat,
          barrier : BOOLEAN]

RecoveryTypes ==
  stack \in Seq(Frame) /\ consumeFlight \in Seq(Tokens) /\ noConsumeFlight \in Seq(Tokens)

(* A frame lies in the flights, and ends before every later one starts. *)
FramesLieInside ==
  \A i \in 1 .. Len(stack) :
     /\ stack[i].consumeStart <= stack[i].consumeEnd
     /\ stack[i].consumeEnd <= Len(consumeFlight)
     /\ stack[i].noConsumeStart <= stack[i].noConsumeEnd
     /\ stack[i].noConsumeEnd <= Len(noConsumeFlight)

FramesAreDisjoint ==
  \A i, j \in 1 .. Len(stack) :
     i < j => /\ stack[i].consumeEnd <= stack[j].consumeStart
              /\ stack[i].noConsumeEnd <= stack[j].noConsumeStart

RecoveryInv == RecoveryTypes /\ FramesLieInside /\ FramesAreDisjoint

(* A rule that is a sequence holds one slice more than its caller did, and *)
(* a rule that runs in Normal mode one frame more.                         *)
BuffersMatchRules ==
  \A i \in 1 .. Len(rules) :
     /\ (IF i = Len(rules) THEN Len(slices) ELSE rules[i + 1].slices)
           = rules[i].slices + (IF rules[i].sequence THEN 1 ELSE 0)
     /\ (IF i = Len(rules) THEN Len(stack) ELSE rules[i + 1].frames)
           = rules[i].frames + (IF rules[i].normal THEN 1 ELSE 0)

Inv == ScratchInv /\ RecoveryInv /\ rules \in Seq(Rule) /\ BuffersMatchRules

(* A stack and its top. *)
LEMMA PopLast ==
  ASSUME NEW S, NEW s \in Seq(S), s # <<>>
  PROVE  /\ Len(s) \in Nat /\ Len(s) > 0 /\ Len(s) \in DOMAIN s /\ Last(s) \in S
         /\ DOMAIN s = 1 .. Len(s)
         /\ Cut(s) \in Seq(S) /\ Len(Cut(s)) = Len(s) - 1
         /\ DOMAIN Cut(s) = 1 .. Len(s) - 1
         /\ \A i \in 1 .. Len(s) - 1 : Cut(s)[i] = s[i]
<1>1. Len(s) \in Nat /\ Len(s) > 0 /\ DOMAIN s = 1 .. Len(s)
  BY EmptySeq
<1>2. \A i \in 1 .. Len(s) - 1 : s[i] \in S
  BY <1>1
<1> QED
  BY <1>1, <1>2, SubSeqProperties DEF Cut, Last

(* A stack and what is pushed on it. *)
LEMMA PushLast ==
  ASSUME NEW S, NEW s \in Seq(S), NEW e \in S
  PROVE  /\ Append(s, e) \in Seq(S) /\ Len(Append(s, e)) = Len(s) + 1
         /\ Append(s, e) # <<>>
         /\ Append(s, e)[Len(s) + 1] = e
         /\ \A i \in 1 .. Len(s) : Append(s, e)[i] = s[i]
<1> QED
  BY AppendProperties

(* The array that replaces a full one holds the scratch, then zeroes. *)
LEMMA GrownArray ==
  ASSUME ScratchTypes, NEW end \in Nat, capacity < end
  PROVE  /\ grown(end) \in Seq(Values) /\ Len(grown(end)) \in Nat
         /\ Len(grown(end)) >= end
         /\ \A i \in 1 .. Len(grown(end)) :
               grown(end)[i] = IF i <= scratch.len THEN heap[scratch.array][i] ELSE zero
<1>1. /\ heap[scratch.array] \in Seq(Values) /\ capacity \in Nat
      /\ scratch.len \in Nat /\ scratch.len <= capacity
  BY DEF ScratchTypes, capacity
<1>2. nextCapacity(end) \in Nat /\ nextCapacity(end) >= end
  BY <1>1 DEF nextCapacity
<1>3. \A i \in 1 .. nextCapacity(end) :
         (IF i <= scratch.len THEN heap[scratch.array][i] ELSE zero) \in Values
  BY <1>1 DEF capacity, Values
<1> QED
  BY <1>2, <1>3 DEF grown

(* A slice is acquired; the slices that are there keep their arrays. *)
LEMMA AcquireKeeps ==
  ASSUME ScratchInv, NEW size \in Nat, AcquireResultsScratch(size)
  PROVE  /\ ScratchInv' /\ Len(slices') = Len(slices) + 1
         /\ \A i \in 1 .. Len(slices) : slices'[i] = slices[i]
         /\ slices'[Len(slices) + 1].stored = 0
         /\ \A a \in 1 .. Len(heap) : heap'[a] = heap[a]
<1> DEFINE end   == scratch.len + size
           array == IF capacity < end THEN Len(heap) + 1 ELSE scratch.array
           s     == [array |-> array, start |-> scratch.len, size |-> size, stored |-> 0]
<1>1. /\ marks' = Append(marks, scratch.len)
      /\ heap' = IF capacity < end THEN Append(heap, grown(end)) ELSE heap
      /\ scratch' = [array |-> array, len |-> end]
      /\ slices' = Append(slices, s)
  BY DEF AcquireResultsScratch
<1>2. /\ heap \in Seq(Seq(Values)) /\ scratch.len \in Nat /\ scratch.array \in 1 .. Len(heap)
      /\ scratch.array \in Nat /\ Len(heap) \in Nat
      /\ scratch.len <= capacity /\ capacity \in Nat /\ end \in Nat
      /\ marks \in Seq(Nat) /\ slices \in Seq(Slice) /\ Len(marks) = Len(slices)
      /\ Len(slices) \in Nat
  BY DEF ScratchInv, ScratchTypes, capacity
<1>3. capacity < end => /\ grown(end) \in Seq(Values) /\ Len(grown(end)) \in Nat
                        /\ Len(grown(end)) >= end
                        /\ \A i \in 1 .. Len(grown(end)) : i > scratch.len => grown(end)[i] = zero
  <2> SUFFICES ASSUME capacity < end
               PROVE  /\ grown(end) \in Seq(Values) /\ Len(grown(end)) \in Nat
                      /\ Len(grown(end)) >= end
                      /\ \A i \in 1 .. Len(grown(end)) : i > scratch.len => grown(end)[i] = zero
    OBVIOUS
  <2> HIDE DEF end
  <2>1. /\ grown(end) \in Seq(Values) /\ Len(grown(end)) \in Nat
        /\ Len(grown(end)) >= end
        /\ \A i \in 1 .. Len(grown(end)) :
              grown(end)[i] = IF i <= scratch.len THEN heap[scratch.array][i] ELSE zero
    BY <1>2, GrownArray DEF ScratchInv
  <2> QED
    BY <1>2, <2>1
<1>4. /\ heap' \in Seq(Seq(Values)) /\ Len(heap') \in Nat /\ Len(heap') >= Len(heap)
      /\ \A a \in 1 .. Len(heap) : heap'[a] = heap[a]
      /\ array \in 1 .. Len(heap') /\ array \in Nat
      /\ heap'[array] \in Seq(Values) /\ Len(heap'[array]) \in Nat
      /\ capacity < end => heap'[array] = grown(end)
      /\ ~(capacity < end) => heap'[array] = heap[scratch.array]
  <2>1. CASE capacity < end
    BY <1>1, <1>2, <1>3, <2>1, AppendProperties, SMTT(60)
  <2>2. CASE ~(capacity < end)
    BY <1>1, <1>2, <2>2, SMTT(60)
  <2> QED
    BY <2>1, <2>2
<1>4a. /\ Len(heap) \in Nat /\ Len(heap') \in Nat /\ Len(heap') >= Len(heap)
       /\ array \in Nat /\ array >= 1 /\ array <= Len(heap')
       /\ Len(heap'[array]) \in Nat
  BY <1>2, <1>4
<1>4b. /\ size \in Nat /\ scratch.len \in Nat /\ end = scratch.len + size /\ end \in Nat
       /\ scratch.len <= end
  BY <1>2
<1>5. s \in Slice /\ s.array = array /\ s.start = scratch.len /\ s.size = size /\ s.stored = 0
  BY <1>2, <1>4 DEF Slice
<1>6. scratch'.array = array /\ scratch'.len = end /\ scratch' \in [array : Nat, len : Nat]
  BY <1>1, <1>2, <1>4
<1>7. end <= Len(heap'[array])
  BY <1>2, <1>3, <1>4, SMTT(60) DEF capacity
<1> HIDE DEF s, array, end
<1>8. /\ slices' \in Seq(Slice) /\ Len(slices') = Len(slices) + 1
      /\ slices'[Len(slices) + 1] = s /\ \A i \in 1 .. Len(slices) : slices'[i] = slices[i]
  BY <1>1, <1>2, <1>5, PushLast
<1>9. /\ marks' \in Seq(Nat) /\ Len(marks') = Len(slices) + 1
      /\ marks'[Len(slices) + 1] = scratch.len
      /\ \A i \in 1 .. Len(slices) : marks'[i] = marks[i]
  BY <1>1, <1>2, PushLast, SMTT(60)
<1>10. ScratchTypes'
  BY <1>4, <1>6, <1>7, <1>8, <1>9 DEF ScratchTypes
<1>11. \A i \in 1 .. Len(slices) : slices[i] \in Slice
  BY <1>2
<1>12. SlicesLieInside'
  <2> SUFFICES ASSUME NEW i \in 1 .. Len(slices')
               PROVE  /\ slices'[i].array \in 1 .. Len(heap')
                      /\ slices'[i].start + slices'[i].size <= Len(heap'[slices'[i].array])
                      /\ slices'[i].stored <= slices'[i].size
                      /\ slices'[i].start = marks'[i]
                      /\ slices'[i].start + slices'[i].size <= scratch'.len
    BY DEF SlicesLieInside
  <2>1. CASE i = Len(slices) + 1
    <3>1. slices'[i] = s /\ marks'[i] = scratch.len
      BY <1>8, <1>9, <2>1
    <3> QED
      BY <1>4a, <1>4b, <1>5, <1>6, <1>7, <3>1
  <2>2. CASE i \in 1 .. Len(slices)
    <3>1. /\ slices[i].array \in 1 .. Len(heap)
          /\ slices[i].start + slices[i].size <= Len(heap[slices[i].array])
          /\ slices[i].stored <= slices[i].size /\ slices[i].start = marks[i]
          /\ slices[i].start + slices[i].size <= scratch.len
      BY <2>2 DEF ScratchInv, SlicesLieInside
    <3>2. slices'[i] = slices[i] /\ marks'[i] = marks[i] /\ heap'[slices[i].array] = heap[slices[i].array]
      BY <1>4, <1>8, <1>9, <2>2, <3>1
    <3>3. slices[i].start \in Nat /\ slices[i].size \in Nat
      BY <1>11, <2>2 DEF Slice
    <3>4. slices[i].array \in 1 .. Len(heap')
      BY <1>4a, <3>1
    <3>5. slices[i].start + slices[i].size <= end
      BY <1>4b, <3>1, <3>3
    <3> QED
      BY <1>6, <3>1, <3>2, <3>4, <3>5
  <2> QED
    BY <1>2, <1>8, <2>1, <2>2
<1>13. SlicesAreDisjoint'
  <2> SUFFICES ASSUME NEW i \in 1 .. Len(slices'), NEW j \in 1 .. Len(slices'), i < j
               PROVE  slices'[i].start + slices'[i].size <= marks'[j]
    BY DEF SlicesAreDisjoint
  <2>1. i \in 1 .. Len(slices)
    BY <1>2, <1>8
  <2>2. CASE j = Len(slices) + 1
    BY <1>8, <1>9, <2>1, <2>2 DEF ScratchInv, SlicesLieInside
  <2>3. CASE j \in 1 .. Len(slices)
    BY <1>8, <1>9, <2>1, <2>3 DEF ScratchInv, SlicesAreDisjoint
  <2> QED
    BY <1>2, <1>8, <2>2, <2>3
<1>14. NothingIsRetained'
  <2> SUFFICES ASSUME NEW i \in end + 1 .. Len(heap'[array]) PROVE heap'[array][i] = zero
    BY <1>6 DEF NothingIsRetained, capacity
  <2>0. i \in Nat /\ i > end /\ i > scratch.len /\ i >= 1 /\ i <= Len(heap'[array])
    BY <1>4a, <1>4b
  <2>1. CASE capacity < end
    BY <1>3, <1>4, <2>0, <2>1
  <2>2. CASE ~(capacity < end)
    <3>1. heap'[array] = heap[scratch.array]
      BY <1>4, <2>2
    <3>2. \A k \in scratch.len + 1 .. Len(heap[scratch.array]) : heap[scratch.array][k] = zero
      BY DEF ScratchInv, NothingIsRetained, capacity
    <3>3. i \in scratch.len + 1 .. Len(heap[scratch.array])
      BY <1>4a, <1>4b, <2>0, <3>1
    <3> QED
      BY <3>1, <3>2, <3>3
  <2> QED
    BY <2>1, <2>2
<1> QED
  BY <1>4, <1>5, <1>8, <1>10, <1>12, <1>13, <1>14 DEF ScratchInv

(* One entry of one array is written. *)
LEMMA WriteEntry ==
  ASSUME NEW h \in Seq(Seq(Values)), NEW a \in 1 .. Len(h), NEW p \in 1 .. Len(h[a]),
         NEW v \in Values, NEW g, g = [h EXCEPT ![a][p] = v]
  PROVE  /\ g \in Seq(Seq(Values)) /\ Len(g) = Len(h) /\ Len(h) \in Nat
         /\ \A b \in 1 .. Len(h) : Len(g[b]) = Len(h[b]) /\ Len(h[b]) \in Nat
         /\ \A b \in 1 .. Len(h) : b # a => g[b] = h[b]
         /\ \A q \in 1 .. Len(h[a]) : q # p => g[a][q] = h[a][q]
         /\ g[a][p] = v
<1> DEFINE w == [h[a] EXCEPT ![p] = v]
<1>1. /\ h[a] \in Seq(Values) /\ Len(h) \in Nat
      /\ \A b \in 1 .. Len(h) : h[b] \in Seq(Values) /\ Len(h[b]) \in Nat
  OBVIOUS
<1>2. /\ w \in Seq(Values) /\ Len(w) = Len(h[a]) /\ w[p] = v
      /\ \A q \in 1 .. Len(h[a]) : q # p => w[q] = h[a][q]
  BY <1>1, ExceptSeq
<1>3. g = [h EXCEPT ![a] = w]
  OBVIOUS
<1> HIDE DEF w
<1>4. /\ g \in Seq(Seq(Values)) /\ Len(g) = Len(h) /\ g[a] = w
      /\ \A b \in 1 .. Len(h) : b # a => g[b] = h[b]
  BY <1>1, <1>2, <1>3, ExceptSeq
<1> QED
  BY <1>1, <1>2, <1>4

(* What a slice says of itself in ScratchInv. *)
LEMMA SliceFacts ==
  ASSUME ScratchInv, NEW i \in 1 .. Len(slices)
  PROVE  /\ slices[i] \in Slice /\ slices[i].array \in 1 .. Len(heap)
         /\ slices[i].start \in Nat /\ slices[i].size \in Nat /\ slices[i].stored \in Nat
         /\ heap[slices[i].array] \in Seq(Values) /\ Len(heap[slices[i].array]) \in Nat
         /\ slices[i].start + slices[i].size <= Len(heap[slices[i].array])
         /\ slices[i].stored <= slices[i].size /\ slices[i].start = marks[i]
         /\ slices[i].start + slices[i].size <= scratch.len
<1>1. heap \in Seq(Seq(Values)) /\ slices \in Seq(Slice)
  BY DEF ScratchInv, ScratchTypes
<1>2. slices[i] \in Slice
  BY <1>1
<1>3. slices[i].array \in 1 .. Len(heap)
  BY DEF ScratchInv, SlicesLieInside
<1>4. heap[slices[i].array] \in Seq(Values)
  BY <1>1, <1>3
<1> QED
  BY <1>2, <1>3, <1>4 DEF ScratchInv, SlicesLieInside, Slice

(* A slice that has one more result. *)
LEMMA OneMoreStored ==
  ASSUME NEW s \in Slice
  PROVE  LET t == [s EXCEPT !.stored = @ + 1]
         IN  /\ t \in Slice /\ t.array = s.array /\ t.start = s.start /\ t.size = s.size
             /\ t.stored = s.stored + 1
BY DEF Slice

(* The place after `stored` results of a slice that is not full. *)
LEMMA PlaceInSlice ==
  ASSUME NEW start \in Nat, NEW size \in Nat, NEW stored \in Nat, NEW length \in Nat,
         stored < size, start + size <= length
  PROVE  /\ start + stored + 1 \in 1 .. length /\ start + stored + 1 > start
         /\ start + stored + 1 \in Nat /\ start + stored + 1 <= length
OBVIOUS

(* The places of an earlier slice. *)
LEMMA PlaceBefore ==
  ASSUME NEW start \in Nat, NEW size \in Nat, NEW stored \in Nat, NEW length \in Nat,
         NEW next \in Nat, stored <= size, start + size <= length, start + size <= next,
         NEW k \in 1 .. stored
  PROVE  start + k \in 1 .. length /\ start + k <= next
OBVIOUS

(* What is not one of the places of a slice. *)
LEMMA PlaceBehind ==
  ASSUME NEW start \in Nat, NEW stored \in Nat, NEW k \in 1 .. stored
  PROVE  start + k # start + stored + 1
OBVIOUS

LEMMA PlaceBeyond ==
  ASSUME NEW m \in Nat, NEW length \in Nat, NEW i \in m + 1 .. length
  PROVE  i \in 1 .. length /\ i > m
OBVIOUS

LEMMA NotGreater ==
  ASSUME NEW a \in Nat, NEW b \in Nat, a <= b
  PROVE  ~(a > b)
OBVIOUS

(* A result is stored in the innermost slice, and nowhere else. *)
LEMMA StoreKeeps ==
  ASSUME ScratchInv, NEW v \in Results, slices # <<>>, StoreResult(v)
  PROVE  /\ ScratchInv' /\ Len(slices') = Len(slices)
         /\ \A i \in 1 .. Len(slices) - 1 :
               /\ slices'[i] = slices[i]
               /\ \A k \in 1 .. slices[i].stored :
                     heap'[slices[i].array][slices[i].start + k]
                        = heap[slices[i].array][slices[i].start + k]
         /\ LET s == Last(slices)
            IN  /\ slices'[Len(slices)] = [s EXCEPT !.stored = @ + 1]
                /\ \A k \in 1 .. s.stored :
                      heap'[s.array][s.start + k] = heap[s.array][s.start + k]
                /\ heap'[s.array][s.start + s.stored + 1] = v
<1> DEFINE n == Len(slices)
           s == Last(slices)
           p == s.start + s.stored + 1
           t == [s EXCEPT !.stored = @ + 1]
<1>1. /\ s.stored < s.size /\ scratch' = scratch /\ marks' = marks
      /\ heap' = [heap EXCEPT ![s.array][p] = v]
      /\ slices' = Append(Cut(slices), t)
  BY DEF StoreResult, Unfilled
<1>2. /\ heap \in Seq(Seq(Values)) /\ marks \in Seq(Nat) /\ slices \in Seq(Slice)
      /\ Len(marks) = n /\ scratch.len \in Nat /\ scratch.array \in 1 .. Len(heap)
      /\ scratch.len <= Len(heap[scratch.array]) /\ Len(heap[scratch.array]) \in Nat
  BY DEF ScratchInv, ScratchTypes
<1>3. /\ n \in Nat /\ n > 0 /\ s = slices[n] /\ s \in Slice
      /\ Cut(slices) \in Seq(Slice) /\ Len(Cut(slices)) = n - 1
      /\ \A i \in 1 .. n - 1 : Cut(slices)[i] = slices[i]
  BY <1>2, PopLast DEF Last
<1>4. /\ s.array \in 1 .. Len(heap) /\ s.start \in Nat /\ s.size \in Nat /\ s.stored \in Nat
      /\ Len(heap[s.array]) \in Nat
      /\ s.start + s.size <= Len(heap[s.array])
      /\ s.start = marks[n] /\ s.start + s.size <= scratch.len
  BY <1>3, SliceFacts
<1> HIDE DEF s
<1>5. t \in Slice /\ t.array = s.array /\ t.start = s.start /\ t.size = s.size
      /\ t.stored = s.stored + 1
  BY <1>3, OneMoreStored
<1>6. p \in 1 .. Len(heap[s.array]) /\ p <= scratch.len /\ p > s.start /\ p \in Nat
  <2>1. s.stored < s.size
    BY <1>1
  <2> QED
    BY <1>2, <1>4, <2>1, PlaceInSlice
<1> HIDE DEF p, t
<1>7. v \in Values
  BY DEF Values
<1>8. /\ heap' \in Seq(Seq(Values)) /\ Len(heap') = Len(heap) /\ Len(heap) \in Nat
      /\ \A b \in 1 .. Len(heap) : Len(heap'[b]) = Len(heap[b]) /\ Len(heap[b]) \in Nat
      /\ \A b \in 1 .. Len(heap) : b # s.array => heap'[b] = heap[b]
      /\ \A q \in 1 .. Len(heap[s.array]) : q # p => heap'[s.array][q] = heap[s.array][q]
      /\ heap'[s.array][p] = v
  <2>1. /\ heap \in Seq(Seq(Values)) /\ s.array \in 1 .. Len(heap)
        /\ p \in 1 .. Len(heap[s.array]) /\ heap' = [heap EXCEPT ![s.array][p] = v]
    BY <1>1, <1>2, <1>4, <1>6
  <2> QED
    BY <1>7, <2>1, WriteEntry
<1>9. /\ slices' \in Seq(Slice) /\ Len(slices') = n /\ slices'[n] = t
      /\ \A i \in 1 .. n - 1 : slices'[i] = slices[i]
  <2>1. /\ slices' \in Seq(Slice) /\ Len(slices') = Len(Cut(slices)) + 1
        /\ slices'[Len(Cut(slices)) + 1] = t
        /\ \A i \in 1 .. Len(Cut(slices)) : slices'[i] = Cut(slices)[i]
    BY <1>1, <1>3, <1>5, PushLast
  <2> QED
    BY <1>3, <2>1
<1>10. ASSUME NEW i \in 1 .. n
       PROVE  /\ slices'[i].array = slices[i].array /\ slices'[i].start = slices[i].start
              /\ slices'[i].size = slices[i].size
              /\ slices'[i].stored <= slices'[i].size
  <2>1. CASE i = n
    BY <1>1, <1>3, <1>4, <1>5, <1>9, <2>1
  <2>2. CASE i # n
    <3>1. i \in 1 .. n - 1
      BY <1>3, <2>2
    <3> QED
      BY <1>9, <3>1, SliceFacts
  <2> QED
    BY <2>1, <2>2
<1>11. ScratchTypes'
  <2>1. scratch'.len <= Len(heap'[scratch'.array]) /\ scratch'.array \in 1 .. Len(heap')
    BY <1>1, <1>2, <1>8
  <2> QED
    BY <1>1, <1>2, <1>8, <1>9, <2>1 DEF ScratchTypes, ScratchInv
<1>12. SlicesLieInside'
  <2> SUFFICES ASSUME NEW i \in 1 .. n
               PROVE  /\ slices'[i].array \in 1 .. Len(heap')
                      /\ slices'[i].start + slices'[i].size <= Len(heap'[slices'[i].array])
                      /\ slices'[i].stored <= slices'[i].size
                      /\ slices'[i].start = marks'[i]
                      /\ slices'[i].start + slices'[i].size <= scratch'.len
    BY <1>9 DEF SlicesLieInside
  <2>1. /\ slices[i].array \in 1 .. Len(heap)
        /\ slices[i].start + slices[i].size <= Len(heap[slices[i].array])
        /\ slices[i].start = marks[i]
        /\ slices[i].start + slices[i].size <= scratch.len
    BY SliceFacts
  <2>2. Len(heap'[slices[i].array]) = Len(heap[slices[i].array]) /\ Len(heap') = Len(heap)
    BY <1>8, <2>1
  <2> QED
    BY <1>1, <1>10, <2>1, <2>2
<1>13. SlicesAreDisjoint'
  BY <1>1, <1>9, <1>10 DEF ScratchInv, SlicesAreDisjoint
<1>14. NothingIsRetained'
  <2>0. \A i \in scratch.len + 1 .. Len(heap[scratch.array]) : heap[scratch.array][i] = zero
    BY DEF ScratchInv, NothingIsRetained, capacity
  <2> SUFFICES ASSUME NEW i \in scratch.len + 1 .. Len(heap[scratch.array])
               PROVE  heap'[scratch.array][i] = zero
    BY <1>1, <1>2, <1>8, ZenonT(60) DEF NothingIsRetained, capacity
  <2>1. i # p /\ i \in 1 .. Len(heap[scratch.array])
    BY <1>2, <1>6
  <2>2. heap'[scratch.array][i] = heap[scratch.array][i]
    BY <1>2, <1>8, <2>1
  <2> QED
    BY <2>0, <2>2
<1>15. ASSUME NEW i \in 1 .. n - 1, NEW k \in 1 .. slices[i].stored
       PROVE  heap'[slices[i].array][slices[i].start + k]
                 = heap[slices[i].array][slices[i].start + k]
  <2>1. i \in 1 .. n /\ i < n /\ n \in 1 .. n
    BY <1>3
  <2>2. /\ slices[i].array \in 1 .. Len(heap) /\ slices[i].start \in Nat
        /\ slices[i].size \in Nat /\ slices[i].stored \in Nat
        /\ slices[i].stored <= slices[i].size
        /\ Len(heap[slices[i].array]) \in Nat
        /\ slices[i].start + slices[i].size <= Len(heap[slices[i].array])
    BY <2>1, SliceFacts
  <2>3. slices[i].start + slices[i].size <= s.start
    BY <1>4, <2>1 DEF ScratchInv, SlicesAreDisjoint
  <2>4. /\ slices[i].start + k # p
        /\ slices[i].start + k \in 1 .. Len(heap[slices[i].array])
    <3>1. /\ slices[i].start + k \in 1 .. Len(heap[slices[i].array])
          /\ slices[i].start + k <= s.start
      BY <1>4, <2>2, <2>3, PlaceBefore
    <3> QED
      BY <1>4, <1>6, <2>2, <3>1
  <2> QED
    BY <1>8, <2>2, <2>4
<1>16. ASSUME NEW k \in 1 .. s.stored
       PROVE  heap'[s.array][s.start + k] = heap[s.array][s.start + k]
  <2>1. s.start + k # p /\ s.start + k \in 1 .. Len(heap[s.array])
    <3>1. s.start \in Nat /\ s.size \in Nat /\ s.stored \in Nat /\ s.stored <= s.size
      BY <1>1, <1>4
    <3>2. s.start + k \in 1 .. Len(heap[s.array])
      BY <1>4, <3>1, PlaceBefore, ZenonT(60)
    <3> QED
      BY <3>1, <3>2, PlaceBehind DEF p
  <2> QED
    BY <1>8, <2>1
<1> QED
  BY <1>8, <1>9, <1>11, <1>12, <1>13, <1>14, <1>15, <1>16 DEF ScratchInv, s, t, p

(* The innermost slice is released; the others keep what they hold. *)
LEMMA ReleaseKeeps ==
  ASSUME ScratchInv, slices # <<>>, ReleaseResultsScratch
  PROVE  /\ ScratchInv' /\ Len(slices') = Len(slices) - 1
         /\ \A i \in 1 .. Len(slices) - 1 :
               /\ slices'[i] = slices[i]
               /\ \A k \in 1 .. slices[i].stored :
                     heap'[slices[i].array][slices[i].start + k]
                        = heap[slices[i].array][slices[i].start + k]
<1> DEFINE n == Len(slices)
           m == Last(marks)
           Cleared(a) == [i \in DOMAIN heap[a] |->
                            IF i > m /\ i <= scratch.len THEN zero ELSE heap[a][i]]
           Released(a) == CASE a = scratch.array -> Cleared(a)
                            [] a # scratch.array /\ a \in inUse -> heap[a]
                            [] OTHER -> <<>>
<1>1. /\ marks' = Cut(marks) /\ slices' = Cut(slices)
      /\ scratch' = [scratch EXCEPT !.len = m]
      /\ heap' = [a \in DOMAIN heap |-> Released(a)]
  BY DEF ReleaseResultsScratch
<1>2. /\ heap \in Seq(Seq(Values)) /\ marks \in Seq(Nat) /\ slices \in Seq(Slice)
      /\ Len(marks) = n /\ scratch \in [array : Nat, len : Nat]
      /\ scratch.len \in Nat /\ scratch.array \in 1 .. Len(heap)
      /\ scratch.len <= Len(heap[scratch.array]) /\ Len(heap[scratch.array]) \in Nat
  BY DEF ScratchInv, ScratchTypes
<1>3. /\ n \in Nat /\ n > 0 /\ slices' \in Seq(Slice) /\ Len(slices') = n - 1
      /\ \A i \in 1 .. n - 1 : slices'[i] = slices[i]
  BY <1>1, <1>2, PopLast
<1>4. /\ m = marks[n] /\ m \in Nat /\ marks' \in Seq(Nat) /\ Len(marks') = n - 1
      /\ \A i \in 1 .. n - 1 : marks'[i] = marks[i]
  <2>1. marks # <<>>
    BY <1>2, <1>3
  <2> QED
    BY <1>1, <1>2, <2>1, PopLast DEF Last
<1>5. m <= scratch.len
  <2>1. n \in 1 .. n
    BY <1>3
  <2>2. /\ slices[n].start \in Nat /\ slices[n].size \in Nat /\ slices[n].start = marks[n]
        /\ slices[n].start + slices[n].size <= scratch.len
    BY <2>1, SliceFacts
  <2> QED
    BY <1>2, <1>4, <2>2, SMTT(60)
<1>6. scratch' \in [array : Nat, len : Nat] /\ scratch'.array = scratch.array /\ scratch'.len = m
  BY <1>1, <1>2, <1>4
<1> HIDE DEF m
<1>7. /\ DOMAIN heap = 1 .. Len(heap) /\ Len(heap) \in Nat
      /\ \A a \in 1 .. Len(heap) : heap[a] \in Seq(Values) /\ Len(heap[a]) \in Nat
                                   /\ DOMAIN heap[a] = 1 .. Len(heap[a])
  BY <1>2
<1>8. ASSUME NEW a \in 1 .. Len(heap)
      PROVE  /\ Cleared(a) \in Seq(Values) /\ Len(Cleared(a)) = Len(heap[a])
             /\ \A i \in 1 .. Len(heap[a]) :
                   Cleared(a)[i] = IF i > m /\ i <= scratch.len THEN zero ELSE heap[a][i]
  <2>1. \A i \in 1 .. Len(heap[a]) :
           (IF i > m /\ i <= scratch.len THEN zero ELSE heap[a][i]) \in Values
    BY <1>7 DEF Values
  <2>2. Cleared(a) = [i \in 1 .. Len(heap[a]) |->
                        IF i > m /\ i <= scratch.len THEN zero ELSE heap[a][i]]
    BY <1>7
  <2> HIDE DEF Cleared
  <2> QED
    BY <1>7, <2>1, <2>2
<1> HIDE DEF Cleared
<1>9. ASSUME NEW a \in 1 .. Len(heap)
      PROVE  Released(a) \in Seq(Values)
  <2>1. CASE a = scratch.array
    BY <1>8, <2>1
  <2>2. CASE a # scratch.array /\ a \in inUse
    BY <1>7, <2>2
  <2>3. CASE a # scratch.array /\ a \notin inUse
    BY <2>3
  <2> QED
    BY <2>1, <2>2, <2>3
<1>10. /\ Released(scratch.array) = Cleared(scratch.array)
       /\ \A a \in inUse : a # scratch.array => Released(a) = heap[a]
  OBVIOUS
<1> HIDE DEF Released
<1>11. /\ heap' \in Seq(Seq(Values)) /\ Len(heap') = Len(heap)
       /\ \A a \in 1 .. Len(heap) : heap'[a] = Released(a)
  <2>1. heap' = [a \in 1 .. Len(heap) |-> Released(a)]
    BY <1>1, <1>7
  <2> QED
    BY <1>7, <1>9, <2>1
<1>12. /\ Len(heap'[scratch.array]) = Len(heap[scratch.array])
       /\ \A i \in 1 .. Len(heap[scratch.array]) :
             heap'[scratch.array][i]
                = IF i > m /\ i <= scratch.len THEN zero ELSE heap[scratch.array][i]
  BY <1>2, <1>8, <1>10, <1>11
<1>13. ASSUME NEW i \in 1 .. n - 1
       PROVE  /\ slices[i].array \in 1 .. Len(heap) /\ slices[i].start \in Nat
              /\ slices[i].size \in Nat /\ slices[i].stored \in Nat
              /\ Len(heap[slices[i].array]) \in Nat
              /\ slices[i].start + slices[i].size <= Len(heap[slices[i].array])
              /\ slices[i].stored <= slices[i].size /\ slices[i].start = marks[i]
              /\ slices[i].start + slices[i].size <= m
              /\ Len(heap'[slices[i].array]) = Len(heap[slices[i].array])
              /\ slices[i].array # scratch.array
                    => heap'[slices[i].array] = heap[slices[i].array]
  <2>1. i \in 1 .. n /\ i < n /\ n \in 1 .. n
    BY <1>3
  <2>2. slices[i].start + slices[i].size <= m
    BY <1>4, <2>1 DEF ScratchInv, SlicesAreDisjoint
  <2>3. slices[i].array \in inUse /\ slices[i].array \in 1 .. Len(heap)
    BY <2>1, SliceFacts DEF inUse
  <2>4. slices[i].array # scratch.array => heap'[slices[i].array] = heap[slices[i].array]
    BY <1>10, <1>11, <2>3
  <2>5. Len(heap'[slices[i].array]) = Len(heap[slices[i].array])
    BY <1>12, <2>4
  <2> QED
    BY <2>1, <2>2, <2>4, <2>5, SliceFacts
<1>14. ScratchTypes'
  <2>1. scratch'.len <= Len(heap'[scratch'.array]) /\ scratch'.array \in 1 .. Len(heap')
    BY <1>2, <1>4, <1>5, <1>6, <1>11, <1>12, SMTT(60)
  <2> QED
    BY <1>3, <1>4, <1>6, <1>11, <2>1 DEF ScratchTypes
<1>15. SlicesLieInside'
  BY <1>3, <1>4, <1>6, <1>11, <1>13 DEF SlicesLieInside
<1>16. SlicesAreDisjoint'
  <2> SUFFICES ASSUME NEW i \in 1 .. n - 1, NEW j \in 1 .. n - 1, i < j
               PROVE  slices'[i].start + slices'[i].size <= marks'[j]
    BY <1>3 DEF SlicesAreDisjoint
  <2>1. i \in 1 .. n /\ j \in 1 .. n
    BY <1>3
  <2> QED
    BY <1>3, <1>4, <2>1 DEF ScratchInv, SlicesAreDisjoint
<1>17. NothingIsRetained'
  <2>0. \A i \in scratch.len + 1 .. Len(heap[scratch.array]) : heap[scratch.array][i] = zero
    BY DEF ScratchInv, NothingIsRetained, capacity
  <2> SUFFICES ASSUME NEW i \in m + 1 .. Len(heap[scratch.array])
               PROVE  heap'[scratch.array][i] = zero
    BY <1>6, <1>12 DEF NothingIsRetained, capacity
  <2>1. i \in 1 .. Len(heap[scratch.array]) /\ i > m
    BY <1>2, <1>4, PlaceBeyond
  <2>2. ~(i <= scratch.len) => heap[scratch.array][i] = zero
    BY <1>2, <2>0, <2>1
  <2> QED
    BY <1>12, <2>1, <2>2
<1>18. ASSUME NEW i \in 1 .. n - 1, NEW k \in 1 .. slices[i].stored
       PROVE  heap'[slices[i].array][slices[i].start + k]
                 = heap[slices[i].array][slices[i].start + k]
  <2>1. /\ slices[i].start + k \in 1 .. Len(heap[slices[i].array])
        /\ slices[i].start + k <= m
    BY <1>4, <1>13, PlaceBefore
  <2>2. ~(slices[i].start + k > m)
    <3>1. slices[i].start + k \in Nat
      BY <2>1
    <3> QED
      BY <1>4, <2>1, <3>1, NotGreater
  <2>3. CASE slices[i].array = scratch.array
    BY <1>12, <2>1, <2>2, <2>3
  <2>4. CASE slices[i].array # scratch.array
    BY <1>13, <2>4
  <2> QED
    BY <2>3, <2>4
<1> QED
  BY <1>3, <1>14, <1>15, <1>16, <1>17, <1>18 DEF ScratchInv

(* A rule that is a sequence has a slice, one in Normal mode a frame. *)
LEMMA RuleHasBuffers ==
  ASSUME Inv, rules # <<>>
  PROVE  /\ Last(rules) \in Rule
         /\ Last(rules).sequence => slices # <<>>
         /\ Last(rules).normal => stack # <<>>
<1>1. /\ Len(rules) \in 1 .. Len(rules) /\ Last(rules) = rules[Len(rules)] /\ Last(rules) \in Rule
  BY PopLast DEF Inv, Last
<1>2. Last(rules).slices \in Nat /\ Last(rules).frames \in Nat
  BY <1>1 DEF Rule
<1>3. /\ Len(slices) = Last(rules).slices + (IF Last(rules).sequence THEN 1 ELSE 0)
      /\ Len(stack) = Last(rules).frames + (IF Last(rules).normal THEN 1 ELSE 0)
  BY <1>1 DEF Inv, BuffersMatchRules
<1>4. ASSUME Last(rules).sequence PROVE slices # <<>>
  <2>1. Len(slices) # 0
    BY <1>2, <1>3, <1>4
  <2> QED
    BY <2>1
<1>5. ASSUME Last(rules).normal PROVE stack # <<>>
  <2>1. Len(stack) # 0
    BY <1>2, <1>3, <1>5
  <2> QED
    BY <2>1
<1> QED
  BY <1>1, <1>4, <1>5

(* A rule enters. *)
LEMMA RulesEnter ==
  ASSUME Inv, NEW normal \in BOOLEAN, NEW sequence \in BOOLEAN,
         rules' = Append(rules, [normal |-> normal, sequence |-> sequence,
                                 frames |-> Len(stack), slices |-> Len(slices)]),
         Len(slices') = Len(slices) + (IF sequence THEN 1 ELSE 0),
         Len(stack') = Len(stack) + (IF normal THEN 1 ELSE 0)
  PROVE  rules' \in Seq(Rule) /\ BuffersMatchRules'
<1> DEFINE r == [normal |-> normal, sequence |-> sequence,
                 frames |-> Len(stack), slices |-> Len(slices)]
<1>1. /\ Len(slices) \in Nat /\ Len(stack) \in Nat
      /\ rules \in Seq(Rule) /\ Len(rules) \in Nat
  BY DEF Inv, ScratchInv, ScratchTypes, RecoveryInv, RecoveryTypes
<1>2. /\ r \in Rule /\ r.sequence = sequence /\ r.slices = Len(slices)
      /\ r.normal = normal /\ r.frames = Len(stack)
  BY <1>1 DEF Rule
<1> HIDE DEF r
<1>3. /\ rules' \in Seq(Rule) /\ Len(rules') = Len(rules) + 1 /\ rules'[Len(rules) + 1] = r
      /\ \A i \in 1 .. Len(rules) : rules'[i] = rules[i]
  BY <1>1, <1>2, PushLast DEF r
<1>4. ASSUME NEW i \in 1 .. Len(rules')
      PROVE  /\ (IF i = Len(rules') THEN Len(slices') ELSE rules'[i + 1].slices)
                   = rules'[i].slices + (IF rules'[i].sequence THEN 1 ELSE 0)
             /\ (IF i = Len(rules') THEN Len(stack') ELSE rules'[i + 1].frames)
                   = rules'[i].frames + (IF rules'[i].normal THEN 1 ELSE 0)
  <2>1. CASE i = Len(rules) + 1
    BY <1>2, <1>3, <2>1
  <2>2. CASE i = Len(rules)
    <3>1. /\ Len(slices) = rules[i].slices + (IF rules[i].sequence THEN 1 ELSE 0)
          /\ Len(stack) = rules[i].frames + (IF rules[i].normal THEN 1 ELSE 0)
      BY <1>1, <1>3, <1>4, <2>2 DEF Inv, BuffersMatchRules
    <3>2. i # Len(rules') /\ i \in 1 .. Len(rules)
      BY <1>1, <1>3, <1>4, <2>2
    <3> QED
      BY <1>2, <1>3, <2>2, <3>1, <3>2
  <2>3. CASE i \in 1 .. Len(rules) - 1
    <3>1. i \in 1 .. Len(rules) /\ i + 1 \in 1 .. Len(rules) /\ i # Len(rules) /\ i # Len(rules')
      BY <1>1, <1>3, <2>3
    <3>2. /\ rules[i + 1].slices = rules[i].slices + (IF rules[i].sequence THEN 1 ELSE 0)
          /\ rules[i + 1].frames = rules[i].frames + (IF rules[i].normal THEN 1 ELSE 0)
      BY <3>1 DEF Inv, BuffersMatchRules
    <3> QED
      BY <1>3, <3>1, <3>2
  <2> QED
    BY <1>1, <1>3, <1>4, <2>1, <2>2, <2>3
<1> QED
  BY <1>3, <1>4 DEF BuffersMatchRules

(* A rule leaves. *)
LEMMA RulesLeave ==
  ASSUME Inv, rules # <<>>, rules' = Cut(rules),
         Len(slices') = Len(slices) - (IF Last(rules).sequence THEN 1 ELSE 0),
         Len(stack') = Len(stack) - (IF Last(rules).normal THEN 1 ELSE 0)
  PROVE  rules' \in Seq(Rule) /\ BuffersMatchRules'
<1> DEFINE n == Len(rules)
<1>1. /\ rules \in Seq(Rule) /\ n \in Nat /\ n > 0 /\ Last(rules) = rules[n] /\ Last(rules) \in Rule
      /\ rules' \in Seq(Rule) /\ Len(rules') = n - 1
      /\ \A i \in 1 .. n - 1 : rules'[i] = rules[i]
  BY PopLast DEF Inv, Last
<1>2. rules[n].slices \in Nat /\ rules[n].frames \in Nat
  BY <1>1 DEF Rule
<1>3. /\ Len(slices) = rules[n].slices + (IF rules[n].sequence THEN 1 ELSE 0)
      /\ Len(stack) = rules[n].frames + (IF rules[n].normal THEN 1 ELSE 0)
  BY <1>1 DEF Inv, BuffersMatchRules
<1>4. Len(slices') = rules[n].slices /\ Len(stack') = rules[n].frames
  BY <1>1, <1>2, <1>3
<1>5. ASSUME NEW i \in 1 .. n - 1
      PROVE  /\ (IF i = n - 1 THEN Len(slices') ELSE rules'[i + 1].slices)
                   = rules'[i].slices + (IF rules'[i].sequence THEN 1 ELSE 0)
             /\ (IF i = n - 1 THEN Len(stack') ELSE rules'[i + 1].frames)
                   = rules'[i].frames + (IF rules'[i].normal THEN 1 ELSE 0)
  <2>1. i \in 1 .. n /\ i + 1 \in 1 .. n /\ i # n
    BY <1>1
  <2>2. /\ rules[i + 1].slices = rules[i].slices + (IF rules[i].sequence THEN 1 ELSE 0)
        /\ rules[i + 1].frames = rules[i].frames + (IF rules[i].normal THEN 1 ELSE 0)
    BY <2>1 DEF Inv, BuffersMatchRules
  <2>3. CASE i = n - 1
    <3>1. i + 1 = n
      BY <1>1, <2>3
    <3> QED
      BY <1>1, <1>4, <2>2, <2>3, <3>1
  <2>4. CASE i # n - 1
    <3>1. i + 1 \in 1 .. n - 1
      BY <1>1, <2>4
    <3> QED
      BY <1>1, <2>2, <2>4, <3>1
  <2> QED
    BY <2>3, <2>4
<1> QED
  BY <1>1, <1>5 DEF BuffersMatchRules

(* A part of a flight is the same after more has been put behind it, and   *)
(* what has been put behind it is the part that starts at its end.         *)
LEMMA PartOfLonger ==
  ASSUME NEW S, NEW f \in Seq(S), NEW g \in Seq(S)
  PROVE  /\ f \o g \in Seq(S) /\ Len(f \o g) = Len(f) + Len(g)
         /\ \A a \in Nat, b \in 0 .. Len(f) : SubSeq(f \o g, a + 1, b) = SubSeq(f, a + 1, b)
         /\ SubSeq(f \o g, Len(f) + 1, Len(f) + Len(g)) = g
OBVIOUS

(* A part of a flight is the same after what is behind it has been cut.    *)
LEMMA PartOfShorter ==
  ASSUME NEW S, NEW f \in Seq(S), NEW c \in 0 .. Len(f)
  PROVE  /\ SubSeq(f, 1, c) \in Seq(S) /\ Len(SubSeq(f, 1, c)) = c
         /\ \A a \in Nat, b \in 0 .. c : SubSeq(SubSeq(f, 1, c), a + 1, b) = SubSeq(f, a + 1, b)
<1>1. \A i \in 1 .. c : f[i] \in S
  OBVIOUS
<1> QED
  BY <1>1, SubSeqProperties

(* What a frame says of itself in RecoveryInv. *)
LEMMA FrameFacts ==
  ASSUME RecoveryInv, NEW i \in 1 .. Len(stack)
  PROVE  /\ stack[i] \in Frame
         /\ stack[i].consumeStart \in Nat /\ stack[i].noConsumeStart \in Nat
         /\ stack[i].consumeEnd \in Nat /\ stack[i].noConsumeEnd \in Nat
         /\ stack[i].consumeStart <= stack[i].consumeEnd
         /\ stack[i].noConsumeStart <= stack[i].noConsumeEnd
         /\ stack[i].consumeEnd <= Len(consumeFlight)
         /\ stack[i].noConsumeEnd <= Len(noConsumeFlight)
         /\ stack[i].consumeEnd \in 0 .. Len(consumeFlight)
         /\ stack[i].noConsumeEnd \in 0 .. Len(noConsumeFlight)
<1>1. stack \in Seq(Frame)
  BY DEF RecoveryInv, RecoveryTypes
<1>2. stack[i] \in Frame
  BY <1>1
<1>3. Len(consumeFlight) \in Nat /\ Len(noConsumeFlight) \in Nat
  BY DEF RecoveryInv, RecoveryTypes
<1> QED
  BY <1>2, <1>3 DEF Frame, RecoveryInv, FramesLieInside

(* A rule pushes its recovery. *)
LEMMA PushKeeps ==
  ASSUME RecoveryInv, NEW r \in Recoveries, pushRecovery(r)
  PROVE  /\ RecoveryInv' /\ Len(stack') = Len(stack) + 1
         /\ \A i \in 1 .. Len(stack) : RecoveryOf(stack[i])' = RecoveryOf(stack[i])
         /\ RecoveryOf(stack[Len(stack)])' = r
<1> DEFINE n == Len(stack)
           f == [consumeStart |-> Len(consumeFlight),
                 consumeEnd |-> Len(consumeFlight) + Len(r.consume),
                 noConsumeStart |-> Len(noConsumeFlight),
                 noConsumeEnd |-> Len(noConsumeFlight) + Len(r.noConsume),
                 barrier |-> r.barrier]
<1>1. /\ consumeFlight' = consumeFlight \o r.consume
      /\ noConsumeFlight' = noConsumeFlight \o r.noConsume
      /\ stack' = Append(stack, f)
  BY DEF pushRecovery
<1>2. /\ stack \in Seq(Frame) /\ consumeFlight \in Seq(Tokens) /\ noConsumeFlight \in Seq(Tokens)
      /\ n \in Nat /\ Len(consumeFlight) \in Nat /\ Len(noConsumeFlight) \in Nat
  BY DEF RecoveryInv, RecoveryTypes
<1>3. /\ r \in [consume : Seq(Tokens), noConsume : Seq(Tokens), barrier : BOOLEAN]
      /\ r.consume \in Seq(Tokens) /\ r.noConsume \in Seq(Tokens) /\ r.barrier \in BOOLEAN
      /\ Len(r.consume) \in Nat /\ Len(r.noConsume) \in Nat
      /\ r = [consume |-> r.consume, noConsume |-> r.noConsume, barrier |-> r.barrier]
  BY BuffersAssumption
<1>4. /\ f \in Frame /\ f.barrier = r.barrier
      /\ f.consumeStart = Len(consumeFlight) /\ f.noConsumeStart = Len(noConsumeFlight)
      /\ f.consumeEnd = Len(consumeFlight) + Len(r.consume)
      /\ f.noConsumeEnd = Len(noConsumeFlight) + Len(r.noConsume)
  BY <1>2, <1>3 DEF Frame
<1> HIDE DEF f
<1>5. /\ stack' \in Seq(Frame) /\ Len(stack') = n + 1 /\ stack'[n + 1] = f
      /\ \A i \in 1 .. n : stack'[i] = stack[i]
  BY <1>1, <1>2, <1>4, PushLast
<1>6. /\ consumeFlight' \in Seq(Tokens) /\ noConsumeFlight' \in Seq(Tokens)
      /\ Len(consumeFlight') = Len(consumeFlight) + Len(r.consume)
      /\ Len(noConsumeFlight') = Len(noConsumeFlight) + Len(r.noConsume)
  BY <1>1, <1>2, <1>3, PartOfLonger
<1>8. RecoveryTypes'
  BY <1>5, <1>6 DEF RecoveryTypes
<1>9. FramesLieInside'
  <2> SUFFICES ASSUME NEW i \in 1 .. n + 1
               PROVE  /\ stack'[i].consumeStart <= stack'[i].consumeEnd
                      /\ stack'[i].consumeEnd <= Len(consumeFlight')
                      /\ stack'[i].noConsumeStart <= stack'[i].noConsumeEnd
                      /\ stack'[i].noConsumeEnd <= Len(noConsumeFlight')
    BY <1>5 DEF FramesLieInside
  <2>1. CASE i = n + 1
    BY <1>2, <1>3, <1>4, <1>5, <1>6, <2>1, SMTT(60)
  <2>2. CASE i \in 1 .. n
    <3>1. stack'[i] = stack[i]
      BY <1>5, <2>2
    <3>0. /\ Len(consumeFlight) \in Nat /\ Len(noConsumeFlight) \in Nat
          /\ Len(r.consume) \in Nat /\ Len(r.noConsume) \in Nat
          /\ stack[i].consumeEnd \in Nat /\ stack[i].noConsumeEnd \in Nat
          /\ stack[i].consumeEnd <= Len(consumeFlight)
          /\ stack[i].noConsumeEnd <= Len(noConsumeFlight)
      BY <1>2, <1>3, <2>2, FrameFacts
    <3>2. stack[i].consumeEnd <= Len(consumeFlight) + Len(r.consume)
      BY <3>0
    <3>3. stack[i].noConsumeEnd <= Len(noConsumeFlight) + Len(r.noConsume)
      BY <3>0
    <3> QED
      BY <1>6, <2>2, <3>1, <3>2, <3>3, FrameFacts
  <2> QED
    BY <1>2, <2>1, <2>2
<1>10. FramesAreDisjoint'
  <2> SUFFICES ASSUME NEW i \in 1 .. n + 1, NEW j \in 1 .. n + 1, i < j
               PROVE  /\ stack'[i].consumeEnd <= stack'[j].consumeStart
                      /\ stack'[i].noConsumeEnd <= stack'[j].noConsumeStart
    BY <1>5 DEF FramesAreDisjoint
  <2>1. i \in 1 .. n /\ stack'[i] = stack[i]
    BY <1>2, <1>5
  <2>2. CASE j = n + 1
    BY <1>4, <1>5, <2>1, <2>2, FrameFacts
  <2>3. CASE j \in 1 .. n
    BY <1>5, <2>1, <2>3 DEF RecoveryInv, FramesAreDisjoint
  <2> QED
    BY <1>2, <2>2, <2>3
<1>11. ASSUME NEW i \in 1 .. n
       PROVE  RecoveryOf(stack[i])' = RecoveryOf(stack[i])
  <2>0. /\ stack[i].consumeStart \in Nat /\ stack[i].noConsumeStart \in Nat
        /\ stack[i].consumeEnd \in 0 .. Len(consumeFlight)
        /\ stack[i].noConsumeEnd \in 0 .. Len(noConsumeFlight)
    BY FrameFacts
  <2>1. SubSeq(consumeFlight', stack[i].consumeStart + 1, stack[i].consumeEnd)
          = SubSeq(consumeFlight, stack[i].consumeStart + 1, stack[i].consumeEnd)
    <3>1. /\ consumeFlight \in Seq(Tokens) /\ r.consume \in Seq(Tokens)
          /\ consumeFlight' = consumeFlight \o r.consume
      BY <1>1, <1>2, <1>3
    <3>2. \A a \in Nat, b \in 0 .. Len(consumeFlight) :
             SubSeq(consumeFlight', a + 1, b) = SubSeq(consumeFlight, a + 1, b)
      BY <3>1, PartOfLonger
    <3> QED
      BY <2>0, <3>2, Zenon
  <2>2. SubSeq(noConsumeFlight', stack[i].noConsumeStart + 1, stack[i].noConsumeEnd)
          = SubSeq(noConsumeFlight, stack[i].noConsumeStart + 1, stack[i].noConsumeEnd)
    <3>1. /\ noConsumeFlight \in Seq(Tokens) /\ r.noConsume \in Seq(Tokens)
          /\ noConsumeFlight' = noConsumeFlight \o r.noConsume
      BY <1>1, <1>2, <1>3
    <3>2. \A a \in Nat, b \in 0 .. Len(noConsumeFlight) :
             SubSeq(noConsumeFlight', a + 1, b) = SubSeq(noConsumeFlight, a + 1, b)
      BY <3>1, PartOfLonger
    <3> QED
      BY <2>0, <3>2, Zenon
  <2>3. stack'[i] = stack[i]
    BY <1>5
  <2> QED
    BY <2>1, <2>2, <2>3 DEF RecoveryOf
<1>12. RecoveryOf(stack[n])' = r
  <2>1. SubSeq(consumeFlight', f.consumeStart + 1, f.consumeEnd) = r.consume
    BY <1>1, <1>2, <1>3, <1>4, PartOfLonger
  <2>2. SubSeq(noConsumeFlight', f.noConsumeStart + 1, f.noConsumeEnd) = r.noConsume
    BY <1>1, <1>2, <1>3, <1>4, PartOfLonger
  <2>3. RecoveryOf(stack[n])'
          = [consume |-> SubSeq(consumeFlight', f.consumeStart + 1, f.consumeEnd),
             noConsume |-> SubSeq(noConsumeFlight', f.noConsumeStart + 1, f.noConsumeEnd),
             barrier |-> f.barrier]
    <3>1. Len(stack)' = n + 1 /\ n' = n + 1
      BY <1>5
    <3> QED
      BY <1>5 DEF RecoveryOf
  <2> QED
    BY <1>3, <1>4, <2>1, <2>2, <2>3
<1> QED
  BY <1>5, <1>8, <1>9, <1>10, <1>11, <1>12 DEF RecoveryInv

(* A rule pops its frame; the others keep their tokens. *)
LEMMA PopKeeps ==
  ASSUME RecoveryInv, stack # <<>>, popRecovery
  PROVE  /\ RecoveryInv' /\ Len(stack') = Len(stack) - 1
         /\ \A i \in 1 .. Len(stack) - 1 : RecoveryOf(stack[i])' = RecoveryOf(stack[i])
<1> DEFINE n == Len(stack)
           c == stack[n].consumeStart
           d == stack[n].noConsumeStart
<1>1. /\ stack \in Seq(Frame) /\ consumeFlight \in Seq(Tokens) /\ noConsumeFlight \in Seq(Tokens)
  BY DEF RecoveryInv, RecoveryTypes
<1>2. /\ n \in Nat /\ n > 0 /\ n \in 1 .. n /\ stack' \in Seq(Frame) /\ Len(stack') = n - 1
      /\ \A i \in 1 .. n - 1 : stack'[i] = stack[i]
  BY <1>1, PopLast DEF popRecovery
<1>3. c \in 0 .. Len(consumeFlight) /\ d \in 0 .. Len(noConsumeFlight)
  <2>1. /\ stack[n].consumeStart \in Nat /\ stack[n].noConsumeStart \in Nat
        /\ stack[n].consumeEnd \in Nat /\ stack[n].noConsumeEnd \in Nat
        /\ stack[n].consumeStart <= stack[n].consumeEnd
        /\ stack[n].noConsumeStart <= stack[n].noConsumeEnd
        /\ stack[n].consumeEnd <= Len(consumeFlight)
        /\ stack[n].noConsumeEnd <= Len(noConsumeFlight)
    BY <1>2, FrameFacts
  <2>2. Len(consumeFlight) \in Nat /\ Len(noConsumeFlight) \in Nat
    BY <1>1
  <2> QED
    BY <2>1, <2>2
<1>4. consumeFlight' = SubSeq(consumeFlight, 1, c) /\ noConsumeFlight' = SubSeq(noConsumeFlight, 1, d)
  BY DEF popRecovery, Last
<1> HIDE DEF c, d
<1>5. /\ consumeFlight' \in Seq(Tokens) /\ Len(consumeFlight') = c
      /\ \A a \in Nat, b \in 0 .. c :
            SubSeq(consumeFlight', a + 1, b) = SubSeq(consumeFlight, a + 1, b)
  BY <1>1, <1>3, <1>4, PartOfShorter
<1>6. /\ noConsumeFlight' \in Seq(Tokens) /\ Len(noConsumeFlight') = d
      /\ \A a \in Nat, b \in 0 .. d :
            SubSeq(noConsumeFlight', a + 1, b) = SubSeq(noConsumeFlight, a + 1, b)
  BY <1>1, <1>3, <1>4, PartOfShorter
<1>7. ASSUME NEW i \in 1 .. n - 1
      PROVE  /\ i \in 1 .. n /\ stack'[i] = stack[i]
             /\ stack[i].consumeStart \in Nat /\ stack[i].noConsumeStart \in Nat
             /\ stack[i].consumeEnd \in 0 .. c /\ stack[i].noConsumeEnd \in 0 .. d
             /\ stack[i].consumeStart <= stack[i].consumeEnd
             /\ stack[i].noConsumeStart <= stack[i].noConsumeEnd
  <2>1. i \in 1 .. n /\ i < n /\ stack'[i] = stack[i]
    BY <1>2
  <2>2. stack[i].consumeEnd <= c /\ stack[i].noConsumeEnd <= d
    BY <1>2, <2>1 DEF RecoveryInv, FramesAreDisjoint, c, d
  <2>3. /\ stack[i].consumeStart \in Nat /\ stack[i].noConsumeStart \in Nat
        /\ stack[i].consumeEnd \in Nat /\ stack[i].noConsumeEnd \in Nat
        /\ stack[i].consumeStart <= stack[i].consumeEnd
        /\ stack[i].noConsumeStart <= stack[i].noConsumeEnd
    BY <2>1, FrameFacts
  <2>4. c \in Nat /\ d \in Nat
    BY <1>1, <1>3
  <2> QED
    BY <2>1, <2>2, <2>3, <2>4
<1>8. RecoveryTypes'
  BY <1>2, <1>5, <1>6 DEF RecoveryTypes
<1>9. FramesLieInside'
  BY <1>2, <1>5, <1>6, <1>7 DEF FramesLieInside
<1>10. FramesAreDisjoint'
  BY <1>2, <1>7 DEF RecoveryInv, FramesAreDisjoint
<1>11. ASSUME NEW i \in 1 .. n - 1
       PROVE  RecoveryOf(stack[i])' = RecoveryOf(stack[i])
  <2>1. SubSeq(consumeFlight', stack[i].consumeStart + 1, stack[i].consumeEnd)
          = SubSeq(consumeFlight, stack[i].consumeStart + 1, stack[i].consumeEnd)
    BY <1>5, <1>7, Zenon
  <2>2. SubSeq(noConsumeFlight', stack[i].noConsumeStart + 1, stack[i].noConsumeEnd)
          = SubSeq(noConsumeFlight, stack[i].noConsumeStart + 1, stack[i].noConsumeEnd)
    BY <1>6, <1>7, Zenon
  <2> QED
    BY <1>7, <2>1, <2>2 DEF RecoveryOf
<1> QED
  BY <1>2, <1>8, <1>9, <1>10, <1>11 DEF RecoveryInv

(* Nothing changes in the one part of the buffers, or in the other. *)
LEMMA ScratchUnchanged ==
  ASSUME ScratchInv, UNCHANGED scratchVars
  PROVE  /\ ScratchInv' /\ slices' = slices /\ heap' = heap
BY DEF ScratchInv, ScratchTypes, SlicesLieInside, SlicesAreDisjoint, NothingIsRetained,
       capacity, scratchVars

LEMMA RecoveryUnchanged ==
  ASSUME RecoveryInv, UNCHANGED recoveryVars
  PROVE  /\ RecoveryInv' /\ stack' = stack
         /\ \A i : RecoveryOf(stack[i])' = RecoveryOf(stack[i])
BY DEF RecoveryInv, RecoveryTypes, FramesLieInside, FramesAreDisjoint, RecoveryOf, recoveryVars

LEMMA InitInv == Init => Inv
<1> SUFFICES ASSUME Init PROVE Inv
  OBVIOUS
<1>1. /\ stack = <<>> /\ consumeFlight = <<>> /\ noConsumeFlight = <<>>
      /\ heap = <<<<>>>> /\ scratch = [array |-> 1, len |-> 0] /\ marks = <<>>
      /\ slices = <<>> /\ rules = <<>>
  BY DEF Init
<1>2. ScratchInv
  <2>1. /\ heap \in Seq(Seq(Values)) /\ Len(heap) = 1 /\ heap[1] = <<>>
    BY <1>1
  <2>2. ScratchTypes
    BY <1>1, <2>1 DEF ScratchTypes
  <2>3. SlicesLieInside /\ SlicesAreDisjoint
    BY <1>1 DEF SlicesLieInside, SlicesAreDisjoint
  <2>4. NothingIsRetained
    BY <1>1, <2>1 DEF NothingIsRetained, capacity
  <2> QED
    BY <2>2, <2>3, <2>4 DEF ScratchInv
<1>3. RecoveryInv
  BY <1>1 DEF RecoveryInv, RecoveryTypes, FramesLieInside, FramesAreDisjoint
<1>4. rules \in Seq(Rule) /\ BuffersMatchRules
  BY <1>1 DEF BuffersMatchRules
<1> QED
  BY <1>2, <1>3, <1>4 DEF Inv

(* A rule enters: what happens to the frames. *)
LEMMA EnterKeeps ==
  ASSUME Inv, NEW normal \in BOOLEAN, NEW sequence \in BOOLEAN, Enter(normal, sequence)
  PROVE  /\ RecoveryInv' /\ Len(stack') = Len(stack) + (IF normal THEN 1 ELSE 0)
         /\ rules' = Append(rules, [normal |-> normal, sequence |-> sequence,
                                    frames |-> Len(stack), slices |-> Len(slices)])
<1>1. Len(stack) \in Nat
  BY DEF Inv, RecoveryInv, RecoveryTypes
<1>2. CASE normal
  <2>1. PICK r \in Recoveries : pushRecovery(r)
    BY <1>2 DEF Enter
  <2> QED
    BY <1>2, <2>1, PushKeeps DEF Inv, Enter
<1>3. CASE ~normal
  BY <1>1, <1>3, RecoveryUnchanged DEF Inv, Enter
<1> QED
  BY <1>2, <1>3

LEMMA NextInv == Inv /\ [Next]_vars => Inv'
<1> SUFFICES ASSUME Inv, [Next]_vars PROVE Inv'
  OBVIOUS
<1>0. ScratchInv /\ RecoveryInv
  BY DEF Inv
<1>1. ASSUME NEW normal \in BOOLEAN, EnterRule(normal)
      PROVE  Inv'
  <2>1. ScratchInv' /\ Len(slices') = Len(slices)
    BY <1>0, <1>1, ScratchUnchanged DEF EnterRule
  <2>2. Len(slices) \in Nat
    BY <1>0 DEF ScratchInv, ScratchTypes
  <2>3. /\ RecoveryInv' /\ Len(stack') = Len(stack) + (IF normal THEN 1 ELSE 0)
        /\ rules' = Append(rules, [normal |-> normal, sequence |-> FALSE,
                                   frames |-> Len(stack), slices |-> Len(slices)])
    BY <1>1, EnterKeeps DEF EnterRule
  <2>4. Len(slices') = Len(slices) + (IF FALSE THEN 1 ELSE 0)
    BY <2>1, <2>2
  <2>5. rules' \in Seq(Rule) /\ BuffersMatchRules'
    BY <2>3, <2>4, RulesEnter
  <2> QED
    BY <2>1, <2>3, <2>5 DEF Inv
<1>2. ASSUME NEW normal \in BOOLEAN, NEW size \in 1 .. MaxSize, EnterSequence(normal, size)
      PROVE  Inv'
  <2>1. size \in Nat
    BY <1>2, BuffersAssumption
  <2>2. ScratchInv' /\ Len(slices') = Len(slices) + 1
    BY <1>0, <1>2, <2>1, AcquireKeeps DEF EnterSequence
  <2>3. /\ RecoveryInv' /\ Len(stack') = Len(stack) + (IF normal THEN 1 ELSE 0)
        /\ rules' = Append(rules, [normal |-> normal, sequence |-> TRUE,
                                   frames |-> Len(stack), slices |-> Len(slices)])
    BY <1>2, EnterKeeps DEF EnterSequence
  <2>4. Len(slices') = Len(slices) + (IF TRUE THEN 1 ELSE 0)
    BY <2>2
  <2>5. rules' \in Seq(Rule) /\ BuffersMatchRules'
    BY <2>3, <2>4, RulesEnter
  <2> QED
    BY <2>2, <2>3, <2>5 DEF Inv
<1>3. ASSUME NEW v \in Results, StoreResult(v)
      PROVE  Inv'
  <2>1. slices # <<>>
    BY <1>3, RuleHasBuffers DEF StoreResult
  <2>2. ScratchInv' /\ Len(slices') = Len(slices)
    BY <1>0, <1>3, <2>1, StoreKeeps
  <2>3. RecoveryInv' /\ stack' = stack /\ rules' = rules
    BY <1>0, <1>3, RecoveryUnchanged DEF StoreResult
  <2> QED
    BY <2>2, <2>3 DEF Inv, BuffersMatchRules
<1>4. ASSUME LeaveRule
      PROVE  Inv'
  <2>1. rules # <<>> /\ rules' = Cut(rules)
    BY <1>4 DEF LeaveRule
  <2>2. Len(slices) \in Nat /\ Len(stack) \in Nat
    BY <1>0 DEF ScratchInv, ScratchTypes, RecoveryInv, RecoveryTypes
  <2>3. ScratchInv' /\ Len(slices') = Len(slices) - (IF Last(rules).sequence THEN 1 ELSE 0)
    <3>1. CASE Last(rules).sequence
      BY <1>0, <1>4, <2>1, <3>1, RuleHasBuffers, ReleaseKeeps DEF LeaveRule
    <3>2. CASE ~Last(rules).sequence
      BY <1>0, <1>4, <2>2, <3>2, ScratchUnchanged DEF LeaveRule
    <3> QED
      BY <3>1, <3>2
  <2>4. RecoveryInv' /\ Len(stack') = Len(stack) - (IF Last(rules).normal THEN 1 ELSE 0)
    <3>1. CASE Last(rules).normal
      BY <1>0, <1>4, <2>1, <3>1, RuleHasBuffers, PopKeeps DEF LeaveRule
    <3>2. CASE ~Last(rules).normal
      BY <1>0, <1>4, <2>2, <3>2, RecoveryUnchanged DEF LeaveRule
    <3> QED
      BY <3>1, <3>2
  <2>5. rules' \in Seq(Rule) /\ BuffersMatchRules'
    BY <2>1, <2>3, <2>4, RulesLeave
  <2> QED
    BY <2>3, <2>4, <2>5 DEF Inv
<1>5. CASE UNCHANGED vars
  <2>1. UNCHANGED scratchVars /\ UNCHANGED recoveryVars /\ rules' = rules
    BY <1>5 DEF vars, scratchVars, recoveryVars
  <2>2. /\ ScratchInv' /\ RecoveryInv' /\ slices' = slices /\ stack' = stack
    BY <1>0, <2>1, ScratchUnchanged, RecoveryUnchanged
  <2> QED
    BY <2>1, <2>2 DEF Inv, BuffersMatchRules
<1> QED
  BY <1>1, <1>2, <1>3, <1>4, <1>5 DEF Next

(* The buffers are well formed whatever the rules are and however deep     *)
(* they run (rule_context.go:137-166, 526-571).                            *)
THEOREM TypeCorrect == Spec => []TypeOK
<1>1. Inv => TypeOK
  <2> SUFFICES ASSUME Inv PROVE TypeOK
    OBVIOUS
  <2>1. /\ heap \in Seq(Seq(Values)) /\ slices \in Seq(Slice) /\ scratch.len \in Nat
        /\ scratch.array \in 1 .. Len(heap) /\ scratch.len <= capacity /\ capacity \in Nat
    BY DEF Inv, ScratchInv, ScratchTypes, capacity
  <2>2. scratch.array \in DOMAIN heap /\ scratch.len \in 0 .. capacity /\ DOMAIN slices = 1 .. Len(slices)
    BY <2>1
  <2>3. \A i \in DOMAIN slices :
           /\ slices[i].array \in DOMAIN heap
           /\ slices[i].start + slices[i].size <= Len(heap[slices[i].array])
           /\ slices[i].stored <= slices[i].size
    BY <2>1, <2>2, SMTT(60) DEF Inv, ScratchInv, SlicesLieInside
  <2> QED
    BY <2>1, <2>2, <2>3 DEF TypeOK, Values, Inv, Rule
<1> QED
  BY <1>1, InitInv, NextInv, PTL DEF Spec

(* Nothing that a rule stored is left behind it (rule_context.go:526-571). *)
THEOREM NothingRetained == Spec => []NothingIsRetained
<1>1. Inv => NothingIsRetained
  BY DEF Inv, ScratchInv
<1> QED
  BY <1>1, InitInv, NextInv, PTL DEF Spec

-----------------------------------------------------------------------------
(* The flat buffers implement the stack of frames. *)

Recovery == [consume : Seq(Tokens), noConsume : Seq(Tokens), barrier : BOOLEAN]

LEMMA HeldRecoveries ==
  RecoveryInv => /\ heldRecoveries \in Seq(Recovery) /\ Len(heldRecoveries) = Len(stack)
                 /\ Len(stack) \in Nat
                 /\ \A i \in 1 .. Len(stack) : heldRecoveries[i] = RecoveryOf(stack[i])
<1> SUFFICES ASSUME RecoveryInv
             PROVE  /\ heldRecoveries \in Seq(Recovery) /\ Len(heldRecoveries) = Len(stack)
                    /\ Len(stack) \in Nat
                    /\ \A i \in 1 .. Len(stack) : heldRecoveries[i] = RecoveryOf(stack[i])
  OBVIOUS
<1>1. /\ Len(stack) \in Nat /\ consumeFlight \in Seq(Tokens) /\ noConsumeFlight \in Seq(Tokens)
  BY DEF RecoveryInv, RecoveryTypes
<1>2. ASSUME NEW S, NEW f \in Seq(S), NEW a \in Nat, NEW b \in 0 .. Len(f)
      PROVE  SubSeq(f, a + 1, b) \in Seq(S)
  <2>1. \A i \in a + 1 .. b : f[i] \in S
    BY <1>2
  <2> QED
    BY <1>2, <2>1, SubSeqProperties
<1>3. ASSUME NEW i \in 1 .. Len(stack) PROVE RecoveryOf(stack[i]) \in Recovery
  <2>1. /\ stack[i].consumeStart \in Nat /\ stack[i].noConsumeStart \in Nat
        /\ stack[i].consumeEnd \in 0 .. Len(consumeFlight)
        /\ stack[i].noConsumeEnd \in 0 .. Len(noConsumeFlight)
        /\ stack[i].barrier \in BOOLEAN
    BY FrameFacts DEF Frame
  <2>2. SubSeq(consumeFlight, stack[i].consumeStart + 1, stack[i].consumeEnd) \in Seq(Tokens)
    BY <1>1, <1>2, <2>1
  <2>3. SubSeq(noConsumeFlight, stack[i].noConsumeStart + 1, stack[i].noConsumeEnd) \in Seq(Tokens)
    BY <1>1, <1>2, <2>1
  <2> QED
    BY <2>1, <2>2, <2>3 DEF RecoveryOf, Recovery
<1> QED
  BY <1>1, <1>3 DEF heldRecoveries

LEMMA HeldResults ==
  ScratchInv => /\ heldResults \in Seq(Seq(Values)) /\ Len(heldResults) = Len(slices)
                /\ Len(slices) \in Nat
                /\ \A i \in 1 .. Len(slices) : heldResults[i] = ResultsOf(slices[i])
<1> SUFFICES ASSUME ScratchInv
             PROVE  /\ heldResults \in Seq(Seq(Values)) /\ Len(heldResults) = Len(slices)
                    /\ Len(slices) \in Nat
                    /\ \A i \in 1 .. Len(slices) : heldResults[i] = ResultsOf(slices[i])
  OBVIOUS
<1>1. Len(slices) \in Nat
  BY DEF ScratchInv, ScratchTypes
<1>2. ASSUME NEW i \in 1 .. Len(slices) PROVE ResultsOf(slices[i]) \in Seq(Values)
  <2>1. /\ slices[i].start \in Nat /\ slices[i].size \in Nat /\ slices[i].stored \in Nat
        /\ heap[slices[i].array] \in Seq(Values) /\ Len(heap[slices[i].array]) \in Nat
        /\ slices[i].stored <= slices[i].size
        /\ slices[i].start + slices[i].size <= Len(heap[slices[i].array])
    BY SliceFacts
  <2>2. ASSUME NEW k \in 1 .. slices[i].stored
        PROVE  heap[slices[i].array][slices[i].start + k] \in Values
    <3>1. slices[i].start + k \in 1 .. Len(heap[slices[i].array])
      BY <2>1, PlaceBefore
    <3> QED
      BY <2>1, <3>1
  <2>3. slices[i].stored \in Nat
    BY <2>1
  <2>4. [k \in 1 .. slices[i].stored |-> heap[slices[i].array][slices[i].start + k]] \in Seq(Values)
    BY <2>2, <2>3
  <2> QED
    BY <2>4 DEF ResultsOf
<1> QED
  BY <1>1, <1>2 DEF heldResults

(* One stack is another with one element more, or one less. *)
LEMMA OneMore ==
  ASSUME NEW S, NEW a \in Seq(S), NEW b \in Seq(S), NEW e \in S,
         Len(b) = Len(a) + 1, b[Len(a) + 1] = e, \A i \in 1 .. Len(a) : b[i] = a[i]
  PROVE  b = Append(a, e) /\ b = a \o <<e>>
<1>1. Append(a, e) \in Seq(S) /\ Len(Append(a, e)) = Len(b)
  BY PushLast
<1>2. \A i \in 1 .. Len(b) : b[i] = Append(a, e)[i]
  BY PushLast
<1>3. b = Append(a, e)
  BY <1>1, <1>2, SeqEqual
<1> QED
  BY <1>3, AppendIsConcat

LEMMA OneLess ==
  ASSUME NEW S, NEW a \in Seq(S), NEW b \in Seq(S), a # <<>>,
         Len(b) = Len(a) - 1, \A i \in 1 .. Len(a) - 1 : b[i] = a[i]
  PROVE  b = Cut(a)
<1>1. Cut(a) \in Seq(S) /\ Len(Cut(a)) = Len(b) /\ \A i \in 1 .. Len(b) : b[i] = Cut(a)[i]
  BY PopLast
<1> QED
  BY <1>1, SeqEqual

(* What a step of the buffers does to the frames. *)
LEMMA EnterRecoveries ==
  ASSUME Inv, NEW normal \in BOOLEAN, NEW sequence \in BOOLEAN, Enter(normal, sequence)
  PROVE  \/ \E r \in Recoveries : heldRecoveries' = heldRecoveries \o <<r>>
         \/ heldRecoveries' = heldRecoveries
<1>0. RecoveryInv
  BY DEF Inv
<1>1. CASE normal
  <2>1. PICK r \in Recoveries : pushRecovery(r)
    BY <1>1 DEF Enter
  <2>2. /\ RecoveryInv' /\ Len(stack') = Len(stack) + 1
        /\ \A i \in 1 .. Len(stack) : RecoveryOf(stack[i])' = RecoveryOf(stack[i])
        /\ RecoveryOf(stack[Len(stack)])' = r
    BY <1>0, <2>1, PushKeeps
  <2>3. (RecoveryInv => /\ heldRecoveries \in Seq(Recovery) /\ Len(heldRecoveries) = Len(stack)
                        /\ Len(stack) \in Nat
                        /\ \A i \in 1 .. Len(stack) : heldRecoveries[i] = RecoveryOf(stack[i]))'
    BY HeldRecoveries, PTL
  <2>4. /\ heldRecoveries \in Seq(Recovery) /\ Len(heldRecoveries) = Len(stack)
        /\ Len(stack) \in Nat
        /\ \A i \in 1 .. Len(stack) : heldRecoveries[i] = RecoveryOf(stack[i])
    BY <1>0, HeldRecoveries
  <2>5. /\ heldRecoveries' \in Seq(Recovery) /\ Len(heldRecoveries') = Len(stack')
        /\ \A i \in 1 .. Len(stack') : heldRecoveries'[i] = RecoveryOf(stack[i])'
    BY <2>2, <2>3
  <2>6. r \in Recovery
    BY BuffersAssumption DEF Recovery
  <2>7. heldRecoveries'[Len(stack) + 1] = r
    <3>1. Len(stack') \in 1 .. Len(stack')
      BY <2>2, <2>4
    <3>2. heldRecoveries'[Len(stack')] = RecoveryOf(stack[Len(stack)])'
      BY <3>1 DEF heldRecoveries
    <3> QED
      BY <2>2, <3>2
  <2>8. \A i \in 1 .. Len(heldRecoveries) : heldRecoveries'[i] = heldRecoveries[i]
    BY <2>2, <2>4, <2>5
  <2>9. Len(heldRecoveries') = Len(heldRecoveries) + 1 /\ heldRecoveries'[Len(heldRecoveries) + 1] = r
    BY <2>2, <2>4, <2>5, <2>7
  <2>10. heldRecoveries' = heldRecoveries \o <<r>>
    BY <2>4, <2>5, <2>6, <2>8, <2>9, OneMore
  <2> QED
    BY <2>10
<1>2. CASE ~normal
  BY <1>0, <1>2, RecoveryUnchanged DEF Enter, heldRecoveries
<1> QED
  BY <1>1, <1>2

LEMMA PopRecoveries ==
  ASSUME RecoveryInv, stack # <<>>, popRecovery
  PROVE  heldRecoveries' = Cut(heldRecoveries)
<1>1. /\ RecoveryInv' /\ Len(stack') = Len(stack) - 1
      /\ \A i \in 1 .. Len(stack) - 1 : RecoveryOf(stack[i])' = RecoveryOf(stack[i])
  BY PopKeeps
<1>2. (RecoveryInv => /\ heldRecoveries \in Seq(Recovery) /\ Len(heldRecoveries) = Len(stack)
                      /\ Len(stack) \in Nat
                      /\ \A i \in 1 .. Len(stack) : heldRecoveries[i] = RecoveryOf(stack[i]))'
  BY HeldRecoveries, PTL
<1>3. /\ heldRecoveries \in Seq(Recovery) /\ Len(heldRecoveries) = Len(stack)
      /\ Len(stack) \in Nat /\ Len(stack) # 0
      /\ \A i \in 1 .. Len(stack) : heldRecoveries[i] = RecoveryOf(stack[i])
  BY HeldRecoveries DEF RecoveryInv, RecoveryTypes
<1>4. /\ heldRecoveries' \in Seq(Recovery) /\ Len(heldRecoveries') = Len(heldRecoveries) - 1
      /\ \A i \in 1 .. Len(stack') : heldRecoveries'[i] = RecoveryOf(stack[i])'
  BY <1>1, <1>2, <1>3
<1>5. \A i \in 1 .. Len(heldRecoveries) - 1 : heldRecoveries'[i] = heldRecoveries[i]
  BY <1>1, <1>3, <1>4
<1>6. heldRecoveries # <<>>
  BY <1>3
<1> QED
  BY <1>3, <1>4, <1>5, <1>6, OneLess

(* Results that no step wrote to are read back as before. *)
LEMMA SameResults ==
  ASSUME NEW i, slices'[i] = slices[i],
         \A k \in 1 .. slices[i].stored :
            heap'[slices[i].array][slices[i].start + k] = heap[slices[i].array][slices[i].start + k]
  PROVE  ResultsOf(slices[i])' = ResultsOf(slices[i])
<1>1. ResultsOf(slices[i])'
        = [k \in 1 .. slices[i].stored |-> heap'[slices[i].array][slices[i].start + k]]
  BY DEF ResultsOf
<1> QED
  BY <1>1 DEF ResultsOf

LEMMA AcquireResults ==
  ASSUME ScratchInv, NEW size \in Nat, AcquireResultsScratch(size)
  PROVE  heldResults' = Append(heldResults, <<>>)
<1> DEFINE n == Len(slices)
<1>1. /\ ScratchInv' /\ Len(slices') = n + 1
      /\ \A i \in 1 .. n : slices'[i] = slices[i]
      /\ slices'[n + 1].stored = 0
      /\ \A a \in 1 .. Len(heap) : heap'[a] = heap[a]
  BY AcquireKeeps
<1>2. (ScratchInv => /\ heldResults \in Seq(Seq(Values)) /\ Len(heldResults) = Len(slices)
                     /\ Len(slices) \in Nat
                     /\ \A i \in 1 .. Len(slices) : heldResults[i] = ResultsOf(slices[i]))'
  BY HeldResults, PTL
<1>3. /\ heldResults \in Seq(Seq(Values)) /\ Len(heldResults) = n /\ n \in Nat
      /\ \A i \in 1 .. n : heldResults[i] = ResultsOf(slices[i])
  BY HeldResults
<1>4. /\ heldResults' \in Seq(Seq(Values)) /\ Len(heldResults') = Len(heldResults) + 1
      /\ \A i \in 1 .. Len(slices') : heldResults'[i] = ResultsOf(slices[i])'
  BY <1>1, <1>2, <1>3
<1>5. ASSUME NEW i \in 1 .. n PROVE heldResults'[i] = heldResults[i]
  <2>1. slices[i].array \in 1 .. Len(heap)
    BY SliceFacts
  <2>2. heap'[slices[i].array] = heap[slices[i].array] /\ slices'[i] = slices[i]
    BY <1>1, <2>1
  <2>3. ResultsOf(slices[i])' = ResultsOf(slices[i])
    BY <2>2, SameResults
  <2>4. i \in 1 .. Len(slices')
    BY <1>1, <1>3
  <2> QED
    BY <1>3, <1>4, <2>3, <2>4
<1>6. heldResults'[Len(heldResults) + 1] = <<>>
  <2>1. Len(slices') \in 1 .. Len(slices') /\ slices'[Len(slices')].stored = 0
    BY <1>1, <1>3
  <2>2. heldResults'[Len(slices')] = ResultsOf(slices[Len(slices)])'
    BY <2>1 DEF heldResults
  <2>3. ResultsOf(slices[Len(slices)])' = <<>>
    BY <2>1 DEF ResultsOf
  <2> QED
    BY <1>1, <1>3, <2>2, <2>3
<1>7. <<>> \in Seq(Values)
  OBVIOUS
<1> HIDE DEF n
<1>8. \A i \in 1 .. Len(heldResults) : heldResults'[i] = heldResults[i]
  BY <1>3, <1>5
<1> QED
  BY <1>3, <1>4, <1>6, <1>7, <1>8, OneMore

LEMMA ReleaseResults ==
  ASSUME ScratchInv, slices # <<>>, ReleaseResultsScratch
  PROVE  heldResults' = Cut(heldResults)
<1> DEFINE n == Len(slices)
<1>1. /\ ScratchInv' /\ Len(slices') = n - 1
      /\ \A i \in 1 .. n - 1 :
            /\ slices'[i] = slices[i]
            /\ \A k \in 1 .. slices[i].stored :
                  heap'[slices[i].array][slices[i].start + k]
                     = heap[slices[i].array][slices[i].start + k]
  BY ReleaseKeeps
<1>2. (ScratchInv => /\ heldResults \in Seq(Seq(Values)) /\ Len(heldResults) = Len(slices)
                     /\ Len(slices) \in Nat
                     /\ \A i \in 1 .. Len(slices) : heldResults[i] = ResultsOf(slices[i]))'
  BY HeldResults, PTL
<1>3. /\ heldResults \in Seq(Seq(Values)) /\ Len(heldResults) = n /\ n \in Nat /\ n # 0
      /\ \A i \in 1 .. n : heldResults[i] = ResultsOf(slices[i])
  BY HeldResults DEF ScratchInv, ScratchTypes
<1>4. /\ heldResults' \in Seq(Seq(Values)) /\ Len(heldResults') = Len(heldResults) - 1
      /\ \A i \in 1 .. Len(slices') : heldResults'[i] = ResultsOf(slices[i])'
  BY <1>1, <1>2, <1>3
<1>5. ASSUME NEW i \in 1 .. n - 1 PROVE heldResults'[i] = heldResults[i]
  <2>1. ResultsOf(slices[i])' = ResultsOf(slices[i])
    BY <1>1, SameResults
  <2>2. i \in 1 .. Len(slices') /\ i \in 1 .. n
    BY <1>1, <1>3
  <2> QED
    BY <1>3, <1>4, <2>1, <2>2
<1>6. heldResults # <<>> /\ \A i \in 1 .. Len(heldResults) - 1 : heldResults'[i] = heldResults[i]
  BY <1>3, <1>5
<1> QED
  BY <1>3, <1>4, <1>6, OneLess

LEMMA StoreResults ==
  ASSUME ScratchInv, NEW v \in Results, slices # <<>>, StoreResult(v)
  PROVE  /\ heldResults # <<>>
         /\ heldResults' = Append(Cut(heldResults), Append(heldResults[Len(heldResults)], v))
<1> DEFINE n == Len(slices)
           s == Last(slices)
           o == heldResults[n]
<1>1. /\ ScratchInv' /\ Len(slices') = n
      /\ \A i \in 1 .. n - 1 :
            /\ slices'[i] = slices[i]
            /\ \A k \in 1 .. slices[i].stored :
                  heap'[slices[i].array][slices[i].start + k]
                     = heap[slices[i].array][slices[i].start + k]
      /\ slices'[n] = [s EXCEPT !.stored = @ + 1]
      /\ \A k \in 1 .. s.stored : heap'[s.array][s.start + k] = heap[s.array][s.start + k]
      /\ heap'[s.array][s.start + s.stored + 1] = v
  BY StoreKeeps
<1>2. (ScratchInv => /\ heldResults \in Seq(Seq(Values)) /\ Len(heldResults) = Len(slices)
                     /\ Len(slices) \in Nat
                     /\ \A i \in 1 .. Len(slices) : heldResults[i] = ResultsOf(slices[i]))'
  BY HeldResults, PTL
<1>3. /\ heldResults \in Seq(Seq(Values)) /\ Len(heldResults) = n /\ n \in Nat /\ n # 0
      /\ \A i \in 1 .. n : heldResults[i] = ResultsOf(slices[i])
  BY HeldResults DEF ScratchInv, ScratchTypes
<1>4. /\ heldResults' \in Seq(Seq(Values)) /\ Len(heldResults') = n
      /\ \A i \in 1 .. n : heldResults'[i] = ResultsOf(slices[i])'
  BY <1>1, <1>2, <1>3
<1>5. ASSUME NEW i \in 1 .. n - 1 PROVE heldResults'[i] = heldResults[i]
  <2>1. ResultsOf(slices[i])' = ResultsOf(slices[i])
    BY <1>1, SameResults
  <2>2. i \in 1 .. n
    BY <1>3
  <2> QED
    BY <1>3, <1>4, <2>1, <2>2
<1>6. s = slices[n] /\ n \in 1 .. n /\ s \in Slice /\ s.stored \in Nat
  BY <1>3, SliceFacts DEF Last
<1>7. heldResults'[n] = Append(o, v)
  <2>1. o \in Seq(Values) /\ o = [k \in 1 .. s.stored |-> heap[s.array][s.start + k]]
    BY <1>3, <1>6 DEF ResultsOf
  <2>2. heldResults'[n]
          = [k \in 1 .. s.stored + 1 |-> heap'[s.array][s.start + k]]
    <3> DEFINE t == [s EXCEPT !.stored = @ + 1]
    <3>1. t.array = s.array /\ t.start = s.start /\ t.stored = s.stored + 1
      BY <1>6, OneMoreStored
    <3>2. heldResults'[n] = [k \in 1 .. t.stored |-> heap'[t.array][t.start + k]]
      <4>1. heldResults'[n] = ResultsOf(slices[Len(slices)])'
        BY <1>1, <1>6 DEF heldResults
      <4>2. slices'[Len(slices')] = t
        BY <1>1
      <4> HIDE DEF t
      <4> QED
        BY <4>1, <4>2 DEF ResultsOf
    <3> QED
      BY <3>1, <3>2
  <2>3. heldResults'[n] \in Seq(Values)
    BY <1>4, <1>6
  <2> HIDE DEF o, s
  <2>4. Len(o) = s.stored /\ Len(heldResults'[n]) = Len(o) + 1
    BY <1>6, <2>1, <2>2, <2>3, SMTT(60)
  <2>5. \A k \in 1 .. Len(o) : heldResults'[n][k] = o[k]
    BY <1>1, <1>6, <2>1, <2>2, <2>4, SMTT(60)
  <2>6. heldResults'[n][Len(o) + 1] = v
    <3>1. s.stored + 1 \in 1 .. s.stored + 1
      BY <1>6
    <3>2. s.start + (s.stored + 1) = s.start + s.stored + 1
      BY <1>6 DEF Slice
    <3> QED
      BY <1>1, <2>2, <2>4, <3>1, <3>2
  <2>7. v \in Values
    BY DEF Values
  <2> DEFINE b == heldResults'[n]
  <2>8. /\ o \in Seq(Values) /\ b \in Seq(Values) /\ Len(b) = Len(o) + 1
        /\ b[Len(o) + 1] = v /\ \A k \in 1 .. Len(o) : b[k] = o[k]
    BY <2>1, <2>3, <2>4, <2>5, <2>6
  <2> HIDE DEF b
  <2>9. b = Append(o, v)
    BY <2>7, <2>8, OneMore
  <2> QED
    BY <2>9 DEF b
<1> HIDE DEF n, o, s
<1>8. heldResults # <<>>
  BY <1>3
<1>9. /\ Cut(heldResults) \in Seq(Seq(Values)) /\ Len(Cut(heldResults)) = n - 1
      /\ \A i \in 1 .. n - 1 : Cut(heldResults)[i] = heldResults[i]
  BY <1>3, <1>8, PopLast
<1>10. heldResults'[n] \in Seq(Values) /\ n = (n - 1) + 1
  BY <1>3, <1>4, <1>6
<1>11. heldResults' = Append(Cut(heldResults), heldResults'[n])
  <2>1. \A i \in 1 .. n - 1 : heldResults'[i] = Cut(heldResults)[i]
    BY <1>5, <1>9
  <2> QED
    BY <1>4, <1>9, <1>10, <2>1, OneMore
<1> QED
  BY <1>3, <1>7, <1>8, <1>11 DEF o

LEMMA InitRefines == Init => Frames!Init
BY EmptySeq DEF Init, Frames!Init, heldRecoveries, heldResults

LEMMA NextRefines == Inv /\ [Next]_vars => [Frames!Next]_(Frames!frameVars)
<1> SUFFICES ASSUME Inv, [Next]_vars PROVE [Frames!Next]_(Frames!frameVars)
  OBVIOUS
<1>0. ScratchInv /\ RecoveryInv
  BY DEF Inv
<1>1. ASSUME NEW normal \in BOOLEAN, EnterRule(normal)
      PROVE  [Frames!Next]_(Frames!frameVars)
  <2>1. heldResults' = heldResults
    BY <1>0, <1>1, ScratchUnchanged DEF EnterRule, heldResults, ResultsOf
  <2>2. \/ \E r \in Recoveries : heldRecoveries' = heldRecoveries \o <<r>>
        \/ heldRecoveries' = heldRecoveries
    BY <1>1, EnterRecoveries DEF EnterRule
  <2>3. CASE \E r \in Recoveries : heldRecoveries' = heldRecoveries \o <<r>>
    <3>1. \E r \in Recoveries : Frames!Enter(<<r>>, FALSE)
      BY <2>1, <2>3 DEF Frames!Enter
    <3> QED
      BY <3>1 DEF Frames!Next
  <2>4. CASE heldRecoveries' = heldRecoveries
    BY <2>1, <2>4 DEF Frames!frameVars
  <2> QED
    BY <2>2, <2>3, <2>4
<1>2. ASSUME NEW normal \in BOOLEAN, NEW size \in 1 .. MaxSize, EnterSequence(normal, size)
      PROVE  [Frames!Next]_(Frames!frameVars)
  <2>1. size \in Nat
    BY <1>2, BuffersAssumption
  <2>2. heldResults' = Append(heldResults, <<>>)
    BY <1>0, <1>2, <2>1, AcquireResults DEF EnterSequence
  <2>3. \/ \E r \in Recoveries : heldRecoveries' = heldRecoveries \o <<r>>
        \/ heldRecoveries' = heldRecoveries
    BY <1>2, EnterRecoveries DEF EnterSequence
  <2>4. CASE \E r \in Recoveries : heldRecoveries' = heldRecoveries \o <<r>>
    <3>1. \E r \in Recoveries : Frames!Enter(<<r>>, TRUE)
      BY <2>2, <2>4 DEF Frames!Enter
    <3> QED
      BY <3>1 DEF Frames!Next
  <2>5. CASE heldRecoveries' = heldRecoveries
    <3>1. heldRecoveries' = heldRecoveries \o <<>>
      BY <1>0, <2>5, HeldRecoveries, ConcatEmptySeq
    <3>2. Frames!Enter(<<>>, TRUE)
      BY <2>2, <3>1 DEF Frames!Enter
    <3> QED
      BY <3>2 DEF Frames!Next
  <2> QED
    BY <2>3, <2>4, <2>5
<1>3. ASSUME NEW v \in Results, StoreResult(v)
      PROVE  [Frames!Next]_(Frames!frameVars)
  <2>1. slices # <<>>
    BY <1>3, RuleHasBuffers DEF StoreResult
  <2>2. /\ heldResults # <<>>
        /\ heldResults' = Append(Cut(heldResults), Append(heldResults[Len(heldResults)], v))
    BY <1>0, <1>3, <2>1, StoreResults
  <2>3. heldRecoveries' = heldRecoveries
    BY <1>0, <1>3, RecoveryUnchanged DEF StoreResult, heldRecoveries
  <2>4. Frames!Store(v)
    BY <2>2, <2>3 DEF Frames!Store, Frames!Cut, Cut
  <2> QED
    BY <2>4 DEF Frames!Next
<1>4. ASSUME LeaveRule
      PROVE  [Frames!Next]_(Frames!frameVars)
  <2>1. /\ rules # <<>> /\ Last(rules) \in Rule
        /\ Last(rules).sequence \in BOOLEAN /\ Last(rules).normal \in BOOLEAN
    BY <1>4, RuleHasBuffers DEF LeaveRule, Rule
  <2>2. heldResults' = IF Last(rules).sequence THEN Cut(heldResults) ELSE heldResults
    <3>1. CASE Last(rules).sequence
      BY <1>0, <1>4, <2>1, <3>1, RuleHasBuffers, ReleaseResults DEF LeaveRule
    <3>2. CASE ~Last(rules).sequence
      BY <1>0, <1>4, <3>2, ScratchUnchanged DEF LeaveRule, heldResults, ResultsOf
    <3> QED
      BY <3>1, <3>2
  <2>3. heldRecoveries' = IF Last(rules).normal THEN Cut(heldRecoveries) ELSE heldRecoveries
    <3>1. CASE Last(rules).normal
      BY <1>0, <1>4, <2>1, <3>1, RuleHasBuffers, PopRecoveries DEF LeaveRule
    <3>2. CASE ~Last(rules).normal
      BY <1>0, <1>4, <3>2, RecoveryUnchanged DEF LeaveRule, heldRecoveries
    <3> QED
      BY <3>1, <3>2
  <2>4. Frames!Leave(Last(rules).normal, Last(rules).sequence)
    BY <2>2, <2>3 DEF Frames!Leave, Frames!Cut, Cut
  <2> QED
    BY <2>1, <2>4 DEF Frames!Next
<1>5. CASE UNCHANGED vars
  <2>1. UNCHANGED scratchVars /\ UNCHANGED recoveryVars
    BY <1>5 DEF vars, scratchVars, recoveryVars
  <2>2. heldRecoveries' = heldRecoveries /\ heldResults' = heldResults
    BY <1>0, <2>1, ScratchUnchanged, RecoveryUnchanged DEF heldRecoveries, heldResults, ResultsOf
  <2> QED
    BY <2>2 DEF Frames!frameVars
<1> QED
  BY <1>1, <1>2, <1>3, <1>4, <1>5 DEF Next

(* The flat buffers behave as a stack of frames, one per running rule: no  *)
(* callee changes the recovery tokens or the results that a rule below it  *)
(* holds, however often the arrays are replaced                            *)
(* (rule_context.go:137-166, 526-571).                                     *)
THEOREM FramesImplemented == Spec => ImplementsFrames
BY InitInv, NextInv, InitRefines, NextRefines, PTL DEF Spec, ImplementsFrames, Frames!Spec
=============================================================================
