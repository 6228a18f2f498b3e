----------------------------- MODULE PrattProofs -----------------------------
(***************************************************************************)
(* Proofs about PrattRules: what an expression rule returns is a tree, and *)
(* its operators nest by their binding powers.  The invariant says what an *)
(* unfinished expression is: pending operators, each waiting for the       *)
(* operand that the runs above it build, and finished nodes, which         *)
(* together cover what the rule has consumed.                              *)
(*                                                                         *)
(* Everything about the lexemes from s on that the finished nodes ns and   *)
(* the pending runs p say is stated, for the operators os and the          *)
(* operators T[i] that may follow a left operand which ends at i, with f   *)
(* and b, where the run on top began and its minimum, and e, the end of    *)
(* what they cover.                                                        *)
(***************************************************************************)
EXTENDS RuleFactoryProofs

Left(os, o) == o # 0 /\ os[o].fix # "prefix"

Right(os, o) == o # 0 /\ os[o].fix # "postfix"

Spans(ns, i, j) == \E n \in ns : n.from = i /\ n.to = j

(* An operator that has the left operand it needs. *)
Fits(os, T, ns, q) ==
  /\ q.op \in DOMAIN os
  /\ IF Left(os, q.op) THEN Spans(ns, q.from, q.mid) /\ q.op \in T[q.mid] ELSE q.from = q.mid

(* The places of a pending run, and of the runs one after the other. *)
Placed(q, s, f) ==
  /\ q.from \in Nat /\ q.mid \in Nat /\ q.right \in Nat
  /\ s <= q.from /\ q.from <= q.mid /\ q.mid <= q.right /\ q.right <= f

Ordered(p, s, f) ==
  /\ \A k \in DOMAIN p : Placed(p[k], s, f)
  /\ \A k, l \in DOMAIN p : k < l => p[k].right <= p[l].from

(* A run begins where the operator below it ends, with that operator's     *)
(* right binding power as its minimum.                                     *)
Chained(os, p, s, f, b) ==
  /\ p = <<>> => f = s
  /\ p # <<>> => /\ p[1].from = s
                 /\ f = p[Len(p)].right /\ b = os[p[Len(p)].op].rightBP
  /\ \A k \in DOMAIN p : k + 1 \in DOMAIN p =>
       p[k + 1].from = p[k].right /\ p[k + 1].minBP = os[p[k].op].rightBP

(* A pending operator was taken by a run whose minimum it reaches. *)
Pending(os, T, ns, q) ==
  /\ Fits(os, T, ns, q) /\ Right(os, q.op)
  /\ Left(os, q.op) => os[q.op].leftBP >= q.minBP

(* A finished node; no operator after its right operand reached the        *)
(* minimum of that operand's run.                                          *)
Finished(os, T, ns, n, s, e) ==
  /\ n.from \in Nat /\ n.mid \in Nat /\ n.right \in Nat /\ n.to \in Nat
  /\ s <= n.from /\ n.from <= n.mid /\ n.mid <= n.right /\ n.right <= n.to /\ n.to <= e
  /\ n.op = 0 => n.from = n.mid
  /\ n.op # 0 => Fits(os, T, ns, n)
  /\ Right(os, n.op) => /\ Spans(ns, n.right, n.to)
                        /\ \A i \in T[n.to] : ~(os[i].leftBP >= os[n.op].rightBP)
  /\ ~Right(os, n.op) => n.right = n.to

Disjoint(ns) == \A n, m \in ns : n = m \/ n.right <= m.mid \/ m.right <= n.mid

Clear(ns, p) == \A n \in ns : \A k \in DOMAIN p : n.to <= p[k].mid \/ n.from >= p[k].right

Owns(x, i) == x.mid <= i /\ i < x.right

Covered(ns, p, s, e) ==
  \A i \in s .. e - 1 : (\E n \in ns : Owns(n, i)) \/ (\E k \in DOMAIN p : Owns(p[k], i))

(* Operators and primaries that consume, but for implicit operators. *)
Solid(os, x) == x.mid < x.right \/ (x.op # 0 /\ os[x.op].fix = "implicit")

Solids(os, ns, p) == (\A n \in ns : Solid(os, n)) /\ (\A k \in DOMAIN p : Solid(os, p[k]))

(* m is at the left edge of an operand that began at i with the minimum c. *)
Reaches(os, m, i, c) == Left(os, m.op) /\ m.from = i => os[m.op].leftBP >= c

Nested(os, ns, p, f, b) ==
  /\ \A n \in ns : n.from < n.to
  /\ \A n, m \in ns : Right(os, n.op) /\ m.to <= n.to => Reaches(os, m, n.right, os[n.op].rightBP)
  /\ \A m \in ns : Reaches(os, m, f, b)
  /\ \A m \in ns : \A k \in DOMAIN p : Reaches(os, m, p[k].from, p[k].minBP)

Grown(os, T, s, ns, p, f, b, e) ==
  /\ 0 \notin DOMAIN os /\ s \in Nat /\ f \in Nat /\ e \in Nat /\ s <= f /\ f <= e
  /\ OfRuns(p) /\ Ordered(p, s, f) /\ Chained(os, p, s, f, b)
  /\ \A k \in DOMAIN p : Pending(os, T, ns, p[k])
  /\ \A n \in ns : Finished(os, T, ns, n, s, e)
  /\ Disjoint(ns) /\ Clear(ns, p) /\ Covered(ns, p, s, e)
  /\ Solids(os, ns, p) => Nested(os, ns, p, f, b)

-----------------------------------------------------------------------------
(* What the run r, on top of the pending runs p, adds. *)
Standing(os, T, s, ns, p, r, e) ==
  /\ Grown(os, T, s, ns, p, r.from, r.minBP, e)
  /\ r.stage \in {"operand", "primary"} => r.from = e
  /\ r.stage = "left" => Spans(ns, r.from, e)
  /\ r.stage = "operator" => /\ r.mid = e /\ Fits(os, T, ns, r)
                             /\ Left(os, r.op) => os[r.op].leftBP >= r.minBP

(* The operators that may follow a left operand, by the place it ends.     *)
OwnTriggerOf(r, o) == IF o.kid = 0 THEN {o.token} ELSE parser.First[r.kids[o.kid]]

PredictOf(r) ==
  parser.First[r.kids[1]]
    \cup UNION {OwnTriggerOf(r, r.ops[i]) : i \in {i \in DOMAIN r.ops : r.ops[i].fix = "prefix"}}

TriggerOf(r, o) == IF o.fix = "implicit" THEN PredictOf(r) ELSE OwnTriggerOf(r, o)

FollowersOf(r, i) ==
  {o \in DOMAIN r.ops : r.ops[o].fix # "prefix" /\ Peek(i, 0).Token \in TriggerOf(r, r.ops[o])}

Followers == [k \in DOMAIN Rule |-> [i \in Nat |-> FollowersOf(Rule[k], i)]]

(* The expression a stands at e, or waits for a rule it called there.      *)
Stands(a, e) ==
  /\ AreRuns(a.runs)
  /\ Standing(Rule[a.rule].ops, Followers[a.rule], a.start, a.nodes,
              Pop(a.runs), LastRun(a), e)

Waits(a, e) == Stands(a, e) /\ LastRun(a).stage \in {"primary", "operator"}

Goes(a, e) == Stands(a, e) /\ LastRun(a).stage \in {"operand", "left"}

Ends(a, e) == Stands(a, e) /\ LastRun(a).stage = "left" /\ Len(a.runs) = 1

Awaited(cs) ==
  \A i \in DOMAIN cs : i > 1 /\ KindOf(cs[i - 1]) = "Pratt" => Waits(cs[i - 1], cs[i].start)

Grows ==
  /\ Awaited(calls)
  /\ control = "begin" => top.nodes = {}
  /\ control = "loop" /\ KindOf(top) = "Pratt" => Goes(top, cursor)
  /\ control = "resume" /\ KindOf(top) = "Pratt" => \E e \in 0 .. cursor : Waits(top, e)
  /\ control = "leave" /\ KindOf(top) = "Pratt" /\ ret.Succeeded => Ends(top, cursor)

-----------------------------------------------------------------------------
(* Sequences of runs. *)

LEMMA OneMore ==
  ASSUME NEW p, OfRuns(p), NEW q, DOMAIN q = RunFields
  PROVE  LET n == Len(p)
             u == Append(p, q)
         IN  /\ OfRuns(u) /\ u # <<>> /\ Pop(u) = p /\ n \in Nat /\ Len(u) = n + 1
             /\ DOMAIN p = 1 .. n /\ DOMAIN u = DOMAIN p \cup {n + 1} /\ u[n + 1] = q
             /\ \A k \in DOMAIN p : u[k] = p[k] /\ k \in Nat /\ k <= n /\ k < n + 1
             /\ p = <<>> => n = 0
             /\ p # <<>> => 1 \in DOMAIN p /\ n \in DOMAIN p
<1> DEFINE n == Len(p)
           u == Append(p, q)
<1>1. n \in Nat /\ DOMAIN p = 1 .. n /\ (p = <<>> <=> n = 0)
  BY SeqHas DEF OfRuns
<1>2. OfRuns(u) /\ Pop(u) = p
  BY RunsMore
<1>3. Len(u) = n + 1 /\ DOMAIN u = 1 .. n + 1 /\ u[n + 1] = q /\ u # <<>> /\ \A k \in 1 .. n : u[k] = p[k]
  BY SeqAppend DEF OfRuns
<1> HIDE DEF u, n
<1>4. 1 .. n + 1 = (1 .. n) \cup {n + 1}
  BY <1>1
<1>5. \A k \in 1 .. n : k \in Nat /\ k <= n /\ k < n + 1
  BY <1>1
<1>6. n # 0 => 1 \in 1 .. n /\ n \in 1 .. n
  BY <1>1
<1> QED
  BY <1>1, <1>2, <1>3, <1>4, <1>5, <1>6 DEF n, u

LEMMA OneLess ==
  ASSUME NEW u, OfRuns(u), u # <<>>
  PROVE  LET m == Len(u)
             p == Pop(u)
         IN  /\ OfRuns(p) /\ m \in Nat \ {0} /\ Len(p) = m - 1
             /\ DOMAIN p = 1 .. m - 1 /\ DOMAIN u = DOMAIN p \cup {m} /\ DOMAIN u[m] = RunFields
             /\ \A k \in DOMAIN p : u[k] = p[k] /\ k \in Nat /\ k < m
             /\ p = <<>> => m = 1
             /\ p # <<>> => 1 \in DOMAIN p /\ m - 1 \in DOMAIN p /\ (m - 1) + 1 = m
<1> DEFINE m == Len(u)
           p == Pop(u)
<1>1. m \in Nat \ {0} /\ DOMAIN u = 1 .. m
  BY SeqHas DEF OfRuns
<1>2. IsSeq(p) /\ Len(p) = m - 1 /\ DOMAIN p = 1 .. m - 1 /\ \A k \in 1 .. m - 1 : p[k] = u[k]
  BY SeqPop, SeqHas DEF OfRuns
<1>3. p = <<>> <=> Len(p) = 0
  BY <1>2, SeqHas
<1> HIDE DEF p, m
<1>4. /\ 1 .. m = (1 .. m - 1) \cup {m} /\ m - 1 \in Nat /\ (m - 1) + 1 = m /\ (m - 1 = 0 <=> m = 1)
      /\ \A k \in 1 .. m - 1 : k \in Nat /\ k < m
      /\ m # 1 => 1 \in 1 .. m - 1 /\ m - 1 \in 1 .. m - 1
  BY <1>1
<1>5. DOMAIN u = DOMAIN p \cup {m}
  BY <1>1, <1>2, <1>4
<1>6. \A k \in DOMAIN u : DOMAIN u[k] = RunFields
  BY DEF OfRuns
<1>7. OfRuns(p)
  BY <1>2, <1>5, <1>6 DEF OfRuns
<1> QED
  BY <1>1, <1>2, <1>3, <1>4, <1>5, <1>6, <1>7 DEF m, p

(* More nodes do no harm to an operand. *)

LEMMA SpansMore ==
  ASSUME NEW ns, NEW n, NEW i, NEW j, Spans(ns, i, j)
  PROVE  Spans(ns \cup {n}, i, j)
  BY DEF Spans

LEMMA FitsMore ==
  ASSUME NEW os, NEW T, NEW ns, NEW n, NEW q, Fits(os, T, ns, q)
  PROVE  Fits(os, T, ns \cup {n}, q)
  BY SpansMore DEF Fits

LEMMA PendingMore ==
  ASSUME NEW os, NEW T, NEW ns, NEW n, NEW q, Pending(os, T, ns, q)
  PROVE  Pending(os, T, ns \cup {n}, q)
  BY FitsMore DEF Pending

LEMMA FinishedMore ==
  ASSUME NEW os, NEW T, NEW ns, NEW n, NEW m, NEW s, NEW e \in Nat, NEW to \in Nat, e <= to,
         Finished(os, T, ns, m, s, e)
  PROVE  Finished(os, T, ns, m, s, to) /\ Finished(os, T, ns \cup {n}, m, s, to)
<1>1. m.to \in Nat /\ m.to <= to
  BY DEF Finished
<1>2. Finished(os, T, ns, m, s, to)
  BY <1>1 DEF Finished
<1> QED
  BY <1>2, SpansMore, FitsMore DEF Finished

(* An operator is taken: its run waits, and another one begins.            *)

LEMMA PushOrdered ==
  ASSUME NEW p, NEW s \in Nat, NEW f \in Nat, OfRuns(p), Ordered(p, s, f), s <= f,
         NEW q, DOMAIN q = RunFields, NEW cur \in Nat,
         q.from = f, q.mid \in Nat, q.right = cur, f <= q.mid, q.mid <= cur
  PROVE  Ordered(Append(p, q), s, cur)
<1> DEFINE n == Len(p)
           u == Append(p, q)
<1>1. /\ DOMAIN u = DOMAIN p \cup {n + 1} /\ u[n + 1] = q /\ n \in Nat
      /\ \A k \in DOMAIN p : u[k] = p[k] /\ k \in Nat /\ k < n + 1
  BY OneMore
<1> HIDE DEF u
<1>2. \A k \in DOMAIN p : Placed(u[k], s, cur) /\ u[k].right <= f
  BY <1>1 DEF Ordered, Placed
<1>3. Placed(q, s, cur)
  BY DEF Placed
<1>4. \A k \in DOMAIN u : Placed(u[k], s, cur)
  BY <1>1, <1>2, <1>3
<1>5. ASSUME NEW k \in DOMAIN u, NEW l \in DOMAIN u, k < l PROVE u[k].right <= u[l].from
  <2>1. CASE k \in DOMAIN p /\ l \in DOMAIN p
    BY <1>1, <1>5, <2>1 DEF Ordered
  <2>2. CASE k \in DOMAIN p /\ l = n + 1
    BY <1>1, <1>2, <2>2
  <2>3. CASE k = n + 1 /\ l \in DOMAIN p
    <3>1. l < n + 1 /\ l \in Nat
      BY <1>1, <2>3
    <3> QED
      BY <1>1, <1>5, <2>3, <3>1
  <2>4. CASE k = n + 1 /\ l = n + 1
    BY <1>1, <1>5, <2>4
  <2> QED
    BY <1>1, <2>1, <2>2, <2>3, <2>4
<1> QED
  BY <1>4, <1>5 DEF Ordered, u

LEMMA PushChained ==
  ASSUME NEW os, NEW p, NEW s, NEW f, NEW b, OfRuns(p), Chained(os, p, s, f, b),
         NEW q, DOMAIN q = RunFields, q.from = f, q.minBP = b
  PROVE  Chained(os, Append(p, q), s, q.right, os[q.op].rightBP)
<1> DEFINE n == Len(p)
           u == Append(p, q)
<1>1. /\ u # <<>> /\ Len(u) = n + 1 /\ DOMAIN u = DOMAIN p \cup {n + 1} /\ u[n + 1] = q
      /\ n \in Nat /\ (\A k \in DOMAIN p : u[k] = p[k] /\ k \in Nat /\ k <= n /\ k < n + 1)
      /\ p = <<>> => n = 0
      /\ p # <<>> => 1 \in DOMAIN p /\ n \in DOMAIN p
  BY OneMore
<1> HIDE DEF u, n
<1>2. u[1].from = s
  <2>1. CASE p = <<>>
    <3>1. n + 1 = 1
      BY <1>1, <2>1
    <3> QED
      BY <1>1, <2>1, <3>1 DEF Chained
  <2>2. CASE p # <<>>
    BY <1>1, <2>2 DEF Chained
  <2> QED
    BY <2>1, <2>2
<1>3. ASSUME NEW k \in DOMAIN u, k + 1 \in DOMAIN u
      PROVE  u[k + 1].from = u[k].right /\ u[k + 1].minBP = os[u[k].op].rightBP
  <2>1. k \in DOMAIN p
    <3>1. k # n + 1
      <4> SUFFICES ASSUME k = n + 1 PROVE FALSE
        OBVIOUS
      <4>1. n + 2 \in DOMAIN u /\ n + 2 # n + 1
        BY <1>1, <1>3
      <4>2. n + 2 \in DOMAIN p
        BY <1>1, <4>1
      <4>3. n + 2 <= n
        BY <1>1, <4>2
      <4> QED
        BY <1>1, <4>3
    <3> QED
      BY <1>1, <3>1
  <2>2. CASE k + 1 \in DOMAIN p
    BY <1>1, <2>1, <2>2 DEF Chained
  <2>3. CASE k + 1 = n + 1
    <3>1. k = n /\ p # <<>>
      BY <1>1, <2>1, <2>3, NoSeq
    <3>2. f = p[n].right /\ b = os[p[n].op].rightBP
      BY <3>1 DEF Chained, n
    <3> QED
      BY <1>1, <2>1, <2>3, <3>1, <3>2
  <2> QED
    BY <1>1, <1>3, <2>2, <2>3
<1>4. u[Len(u)] = q
  BY <1>1
<1> QED
  BY <1>1, <1>2, <1>3, <1>4 DEF Chained, u

LEMMA PushNested ==
  ASSUME NEW os, NEW T, NEW s, NEW ns, NEW p, NEW f, NEW b, NEW e,
         Grown(os, T, s, ns, p, f, b, e),
         NEW q, DOMAIN q = RunFields, q.from = f, q.minBP = b, NEW cur \in Nat, e <= cur,
         NEW c, Solids(os, ns, Append(p, q))
  PROVE  Nested(os, ns, Append(p, q), cur, c)
<1> DEFINE n == Len(p)
           u == Append(p, q)
<1>1. /\ DOMAIN u = DOMAIN p \cup {n + 1} /\ u[n + 1] = q
      /\ (\A k \in DOMAIN p : u[k] = p[k])
  BY OneMore DEF Grown
<1> HIDE DEF u, n
<1>2. Nested(os, ns, p, f, b)
  <2>1. Solids(os, ns, p)
    BY <1>1 DEF Solids, u
  <2> QED
    BY <2>1 DEF Grown
<1>3. \A m \in ns : m.from # cur
  <2> SUFFICES ASSUME NEW m \in ns PROVE m.from # cur
    OBVIOUS
  <2>1. m.from < m.to
    BY <1>2 DEF Nested
  <2>2. m.from \in Nat /\ m.to \in Nat /\ m.to <= e /\ e \in Nat
    BY DEF Grown, Finished
  <2> QED
    BY <2>1, <2>2
<1>4. \A m \in ns : Reaches(os, m, cur, c)
  BY <1>3 DEF Reaches
<1>5. \A m \in ns : \A k \in DOMAIN u : Reaches(os, m, u[k].from, u[k].minBP)
  BY <1>1, <1>2 DEF Nested
<1> QED
  BY <1>2, <1>4, <1>5 DEF Nested, u

LEMMA Push ==
  ASSUME NEW os, NEW T, NEW s, NEW ns, NEW p, NEW f, NEW b, NEW e,
         Grown(os, T, s, ns, p, f, b, e),
         NEW q, DOMAIN q = RunFields, q.from = f, q.minBP = b, q.mid = e,
         NEW cur \in Nat, e <= cur, q.right = cur, Pending(os, T, ns, q)
  PROVE  Grown(os, T, s, ns, Append(p, q), cur, os[q.op].rightBP, cur)
<1> DEFINE n == Len(p)
           u == Append(p, q)
<1>1. /\ OfRuns(u) /\ DOMAIN u = DOMAIN p \cup {n + 1} /\ u[n + 1] = q
      /\ (\A k \in DOMAIN p : u[k] = p[k])
  BY OneMore DEF Grown
<1>2. /\ 0 \notin DOMAIN os /\ s \in Nat /\ f \in Nat /\ e \in Nat /\ s <= f /\ f <= e
      /\ OfRuns(p) /\ Ordered(p, s, f) /\ Chained(os, p, s, f, b)
  BY DEF Grown
<1>3. s <= cur
  BY <1>2
<1>4. Ordered(u, s, cur)
  BY <1>2, PushOrdered
<1>5. Chained(os, u, s, cur, os[q.op].rightBP)
  BY <1>2, PushChained
<1>6. Solids(os, ns, u) => Nested(os, ns, u, cur, os[q.op].rightBP)
  BY PushNested
<1> HIDE DEF u, n
<1>7. \A k \in DOMAIN u : Pending(os, T, ns, u[k])
  BY <1>1 DEF Grown
<1>8. \A x \in ns : Finished(os, T, ns, x, s, e) /\ Finished(os, T, ns, x, s, cur)
  BY <1>2, FinishedMore DEF Grown
<1>9. Clear(ns, u)
  <2>1. \A x \in ns : x.to <= q.mid
    BY <1>8 DEF Finished
  <2> QED
    BY <1>1, <2>1 DEF Clear, Grown
<1>10. Covered(ns, u, s, cur)
  <2> SUFFICES ASSUME NEW i \in s .. cur - 1
               PROVE  (\E x \in ns : Owns(x, i)) \/ (\E k \in DOMAIN u : Owns(u[k], i))
    BY DEF Covered
  <2>1. i \in s .. e - 1 \/ (e <= i /\ i < cur)
    BY <1>2
  <2>2. CASE i \in s .. e - 1
    BY <1>1, <2>2 DEF Covered, Grown
  <2>3. CASE e <= i /\ i < cur
    BY <1>1, <2>3 DEF Owns
  <2> QED
    BY <2>1, <2>2, <2>3
<1> QED
  BY <1>1, <1>2, <1>3, <1>4, <1>5, <1>6, <1>7, <1>8, <1>9, <1>10 DEF Grown, u

(* What consumes, or has a left operand that does, moves on. *)
LEMMA Advances ==
  ASSUME NEW os, NEW T, NEW ns, NEW x, x.op # 0 => Fits(os, T, ns, x), Solid(os, x),
         x.from \in Nat, x.mid \in Nat, x.right \in Nat, x.from <= x.mid, x.mid <= x.right,
         \A n \in ns : n.from < n.to
  PROVE  x.from < x.right
<1>1. CASE x.mid < x.right
  BY <1>1
<1>2. CASE x.op # 0 /\ os[x.op].fix = "implicit"
  <2>1. Spans(ns, x.from, x.mid)
    BY <1>2 DEF Fits, Left
  <2>2. x.from < x.mid
    BY <2>1 DEF Spans
  <2> QED
    BY <2>2
<1> QED
  BY <1>1, <1>2 DEF Solid

LEMMA RunsAdvance ==
  ASSUME NEW os, NEW T, NEW s, NEW ns, NEW p, NEW f, NEW b, NEW e,
         Grown(os, T, s, ns, p, f, b, e), Solids(os, ns, p), NEW k \in DOMAIN p
  PROVE  p[k].from \in Nat /\ p[k].from < p[k].right /\ p[k].from < f
<1> DEFINE x == p[k]
<1>1. Nested(os, ns, p, f, b) /\ Placed(x, s, f) /\ Pending(os, T, ns, x) /\ Solid(os, x) /\ f \in Nat
  BY DEF Grown, Ordered, Solids
<1> HIDE DEF x
<1>2. \A n \in ns : n.from < n.to
  BY <1>1 DEF Nested
<1>3. x.from < x.right
  BY <1>1, <1>2, Advances DEF Placed, Pending
<1>4. x.from < f /\ x.from \in Nat
  BY <1>1, <1>3 DEF Placed
<1> QED
  BY <1>3, <1>4 DEF x

LEMMA DisjointMore ==
  ASSUME NEW ns, NEW x, Disjoint(ns), \A n \in ns : n.right <= x.mid \/ x.right <= n.mid
  PROVE  Disjoint(ns \cup {x})
  BY DEF Disjoint

(* A primary, or an operator after its operand, ends at `to`.              *)

LEMMA LeafNested ==
  ASSUME NEW os, NEW T, NEW s, NEW ns, NEW p, NEW f, NEW b, NEW e,
         Grown(os, T, s, ns, p, f, b, e),
         NEW x, NEW to \in Nat, e <= to, x.from = f, x.mid = e, x.right = to, x.to = to,
         ~Right(os, x.op), x.op # 0 => Fits(os, T, ns, x),
         Left(os, x.op) => os[x.op].leftBP >= b,
         Solids(os, ns \cup {x}, p)
  PROVE  Nested(os, ns \cup {x}, p, f, b)
<1>1. Solids(os, ns, p) /\ Solid(os, x)
  BY DEF Solids
<1>2. Nested(os, ns, p, f, b) /\ f \in Nat /\ e \in Nat /\ f <= e
  BY <1>1 DEF Grown
<1>3. \A n \in ns : n.from < n.to
  BY <1>2 DEF Nested
<1>4. x.from < x.to
  BY <1>1, <1>2, <1>3, Advances
<1>5. x.mid < x.right
  BY <1>1 DEF Solid, Right
<1>6. ASSUME NEW n \in ns, x.to <= n.to PROVE x.from # n.right
  <2>1. n.to \in Nat /\ n.to <= e
    BY DEF Grown, Finished
  <2> QED
    BY <1>2, <1>5, <1>6, <2>1
<1>7. Reaches(os, x, f, b)
  BY DEF Reaches
<1>8. \A k \in DOMAIN p : Reaches(os, x, p[k].from, p[k].minBP)
  <2> SUFFICES ASSUME NEW k \in DOMAIN p PROVE x.from # p[k].from
    BY DEF Reaches
  <2>1. p[k].from \in Nat /\ p[k].from < f
    BY <1>1, RunsAdvance
  <2> QED
    BY <1>2, <2>1
<1>9. \A n \in ns : x.to <= n.to => Reaches(os, x, n.right, os[n.op].rightBP)
  BY <1>6 DEF Reaches
<1> QED
  BY <1>2, <1>4, <1>7, <1>8, <1>9 DEF Nested

LEMMA Leaf ==
  ASSUME NEW os, NEW T, NEW s, NEW ns, NEW p, NEW f, NEW b, NEW e,
         Grown(os, T, s, ns, p, f, b, e),
         NEW x, NEW to \in Nat, e <= to, x.from = f, x.mid = e, x.right = to, x.to = to,
         ~Right(os, x.op), x.op = 0 => f = e, x.op # 0 => Fits(os, T, ns, x),
         Left(os, x.op) => os[x.op].leftBP >= b
  PROVE  Grown(os, T, s, ns \cup {x}, p, f, b, to) /\ Spans(ns \cup {x}, f, to)
<1> DEFINE ms == ns \cup {x}
<1>1. /\ 0 \notin DOMAIN os /\ s \in Nat /\ f \in Nat /\ e \in Nat /\ s <= f /\ f <= e
      /\ OfRuns(p) /\ Ordered(p, s, f) /\ Chained(os, p, s, f, b)
  BY DEF Grown
<1>2. \A k \in DOMAIN p : Pending(os, T, ms, p[k])
  BY PendingMore DEF Grown
<1>3. x \in ms /\ (x.op # 0 => Fits(os, T, ms, x)) /\ \A n \in ms : n \in ns \/ n = x
  BY FitsMore
<1>4. \A n \in ns : Finished(os, T, ns, n, s, e) /\ Finished(os, T, ms, n, s, to)
  BY <1>1, FinishedMore DEF Grown
<1>5. Solids(os, ms, p) => Nested(os, ms, p, f, b)
  BY LeafNested
<1>6. Disjoint(ms)
  <2>1. \A n \in ns : n.right <= x.mid
    BY <1>1, <1>4 DEF Finished
  <2> QED
    BY <2>1, DisjointMore DEF Grown
<1> HIDE DEF ms
<1>7. Finished(os, T, ms, x, s, to)
  BY <1>1, <1>3 DEF Finished
<1>8. \A n \in ms : Finished(os, T, ms, n, s, to)
  BY <1>3, <1>4, <1>7
<1>9. Clear(ms, p)
  <2>1. \A k \in DOMAIN p : x.from >= p[k].right
    BY <1>1 DEF Ordered, Placed
  <2> QED
    BY <1>3, <2>1 DEF Clear, Grown
<1>10. Covered(ms, p, s, to)
  <2> SUFFICES ASSUME NEW i \in s .. to - 1
               PROVE  (\E n \in ms : Owns(n, i)) \/ (\E k \in DOMAIN p : Owns(p[k], i))
    BY DEF Covered
  <2>1. i \in s .. e - 1 \/ (e <= i /\ i < to)
    BY <1>1
  <2>2. CASE i \in s .. e - 1
    BY <2>2 DEF Covered, Grown, ms
  <2>3. CASE e <= i /\ i < to
    BY <1>3, <2>3 DEF Owns
  <2> QED
    BY <2>1, <2>2, <2>3
<1>11. Spans(ms, f, to)
  BY <1>3 DEF Spans
<1>12. s <= f /\ f <= to
  BY <1>1
<1> QED
  BY <1>1, <1>2, <1>5, <1>6, <1>8, <1>9, <1>10, <1>11, <1>12 DEF Grown, ms

(* The run on top ends at e: it is the right operand of the operator that  *)
(* waits below it.                                                         *)

WaitsBelow(os, T, s, ns, u, f, b, q) ==
  LET p == Pop(u)
  IN  /\ OfRuns(p) /\ Ordered(p, s, q.from) /\ Chained(os, p, s, q.from, q.minBP)
      /\ Placed(q, s, f) /\ Pending(os, T, ns, q) /\ f = q.right /\ b = os[q.op].rightBP
      /\ Len(u) \in DOMAIN u /\ DOMAIN u = DOMAIN p \cup {Len(u)}
      /\ \A k \in DOMAIN p : u[k] = p[k] /\ p[k].right <= q.from

LEMMA CloseHas ==
  ASSUME NEW os, NEW T, NEW s, NEW ns, NEW u, NEW f, NEW b, NEW e,
         Grown(os, T, s, ns, u, f, b, e), u # <<>>
  PROVE  WaitsBelow(os, T, s, ns, u, f, b, u[Len(u)])
<1> DEFINE m == Len(u)
           p == Pop(u)
           q == u[Len(u)]
<1>0. q = u[m]
  OBVIOUS
<1>1. /\ OfRuns(p) /\ m \in Nat /\ Len(p) = m - 1 /\ DOMAIN u = DOMAIN p \cup {m}
      /\ \A k \in DOMAIN p : u[k] = p[k] /\ k \in Nat /\ k < m
      /\ p = <<>> => m = 1
      /\ p # <<>> => 1 \in DOMAIN p /\ m - 1 \in DOMAIN p /\ (m - 1) + 1 = m
  BY OneLess DEF Grown
<1>2. Ordered(u, s, f) /\ Chained(os, u, s, f, b) /\ m \in DOMAIN u
  BY <1>1 DEF Grown
<1>3. f = q.right /\ b = os[q.op].rightBP /\ u[1].from = s
  BY <1>0, <1>2 DEF Chained
<1> HIDE DEF p, m, q
<1>4. Placed(q, s, f) /\ Pending(os, T, ns, q)
  BY <1>0, <1>2 DEF Ordered, Grown
<1>5. \A k \in DOMAIN p : p[k].right <= q.from
  BY <1>0, <1>1, <1>2 DEF Ordered
<1>6. Ordered(p, s, q.from)
  <2>1. \A k \in DOMAIN p : Placed(p[k], s, f)
    BY <1>1, <1>2 DEF Ordered
  <2>2. \A k \in DOMAIN p : Placed(p[k], s, q.from)
    BY <1>5, <2>1 DEF Placed
  <2>3. \A k, l \in DOMAIN p : k < l => p[k].right <= p[l].from
    BY <1>1, <1>2 DEF Ordered
  <2> QED
    BY <2>2, <2>3 DEF Ordered
<1>7. Chained(os, p, s, q.from, q.minBP)
  <2>1. p = <<>> => q.from = s
    BY <1>0, <1>1, <1>3
  <2>2. p # <<>> => /\ p[1].from = s
                    /\ q.from = p[Len(p)].right /\ q.minBP = os[p[Len(p)].op].rightBP
    <3> SUFFICES ASSUME p # <<>>
                 PROVE  /\ p[1].from = s
                        /\ q.from = p[m - 1].right /\ q.minBP = os[p[m - 1].op].rightBP
      BY <1>1
    <3>1. m - 1 \in DOMAIN u /\ (m - 1) + 1 = m /\ u[m - 1] = p[m - 1]
      BY <1>1
    <3>2. u[(m - 1) + 1].from = u[m - 1].right /\ u[(m - 1) + 1].minBP = os[u[m - 1].op].rightBP
      BY <1>2, <3>1 DEF Chained
    <3>3. p[1].from = s
      BY <1>1, <1>3
    <3> QED
      BY <1>0, <3>1, <3>2, <3>3
  <2>3. \A k \in DOMAIN p : k + 1 \in DOMAIN p =>
          p[k + 1].from = p[k].right /\ p[k + 1].minBP = os[p[k].op].rightBP
    BY <1>1, <1>2 DEF Chained
  <2> QED
    BY <2>1, <2>2, <2>3 DEF Chained
<1> QED
  BY <1>1, <1>2, <1>3, <1>4, <1>5, <1>6, <1>7 DEF p, m, q, WaitsBelow

LEMMA CloseNested ==
  ASSUME NEW os, NEW T, NEW s, NEW ns, NEW u, NEW f, NEW b, NEW e,
         Grown(os, T, s, ns, u, f, b, e), u # <<>>, Spans(ns, f, e),
         NEW q, q = u[Len(u)], NEW x, x.op = q.op, x.from = q.from, x.mid = q.mid, x.right = q.right,
         x.to = e, Solids(os, ns \cup {x}, Pop(u))
  PROVE  Nested(os, ns \cup {x}, Pop(u), q.from, q.minBP)
<1> DEFINE m == Len(u)
           p == Pop(u)
<1>1. /\ Placed(q, s, f) /\ Pending(os, T, ns, q) /\ f = q.right /\ b = os[q.op].rightBP
      /\ m \in DOMAIN u /\ DOMAIN u = DOMAIN p \cup {m}
      /\ \A k \in DOMAIN p : u[k] = p[k] /\ p[k].right <= q.from
  <2>1. WaitsBelow(os, T, s, ns, u, f, b, q)
    BY CloseHas
  <2> QED
    BY <2>1 DEF WaitsBelow
<1> HIDE DEF p, m
<1>2. Solids(os, ns, u)
  <2>1. Solid(os, q)
    BY DEF Solids, Solid
  <2> QED
    BY <1>1, <2>1 DEF Solids, p, m
<1>3. Nested(os, ns, u, f, b) /\ f \in Nat /\ e \in Nat /\ f <= e
  BY <1>2 DEF Grown
<1>4. q.from \in Nat /\ q.from < q.right
  BY <1>1, <1>2, RunsAdvance DEF m
<1>5. f < e
  BY <1>3 DEF Nested, Spans
<1>6. x.from < x.to /\ x.from # x.right
  BY <1>1, <1>3, <1>4
<1>7. \A n \in ns : Reaches(os, n, x.right, os[x.op].rightBP)
  BY <1>1, <1>3 DEF Nested
<1>8. ASSUME NEW n \in ns, x.to <= n.to PROVE x.from # n.right
  <2>1. /\ n.from \in Nat /\ n.right \in Nat /\ n.mid \in Nat /\ n.to \in Nat
        /\ n.from <= n.mid /\ n.mid <= n.right /\ n.to <= e
    BY DEF Grown, Finished
  <2>2. n.to <= q.mid \/ n.from >= q.right
    BY <1>1 DEF Grown, Clear, m
  <2>3. CASE n.to <= q.mid
    BY <1>1, <1>3, <1>5, <1>8, <2>1, <2>3, SMTT(60) DEF Placed
  <2>4. CASE n.from >= q.right
    BY <1>1, <1>3, <1>4, <2>1, <2>4, SMTT(60)
  <2> QED
    BY <2>2, <2>3, <2>4
<1>9. \A n \in ns : x.to <= n.to => Reaches(os, x, n.right, os[n.op].rightBP)
  BY <1>8 DEF Reaches
<1>10. Reaches(os, x, q.from, q.minBP)
  BY <1>1 DEF Reaches, Pending
<1>11. \A n \in ns : Reaches(os, n, q.from, q.minBP)
  BY <1>1, <1>3 DEF Nested, m
<1>12. \A k \in DOMAIN p : Reaches(os, x, p[k].from, p[k].minBP)
  <2> SUFFICES ASSUME NEW k \in DOMAIN p PROVE x.from # p[k].from
    BY DEF Reaches
  <2>1. p[k].from \in Nat /\ p[k].from < p[k].right /\ p[k].right <= q.from
    BY <1>1, <1>2, RunsAdvance
  <2>2. p[k].right \in Nat
    BY <1>1 DEF Grown, Ordered, Placed
  <2> QED
    BY <1>4, <2>1, <2>2
<1>13. \A n \in ns : \A k \in DOMAIN p : Reaches(os, n, p[k].from, p[k].minBP)
  BY <1>1, <1>3 DEF Nested
<1>14. Reaches(os, x, x.right, os[x.op].rightBP)
  BY <1>6 DEF Reaches
<1> QED
  BY <1>3, <1>6, <1>7, <1>9, <1>10, <1>11, <1>12, <1>13, <1>14 DEF Nested, p

LEMMA Close ==
  ASSUME NEW os, NEW T, NEW s, NEW ns, NEW u, NEW f, NEW b, NEW e,
         Grown(os, T, s, ns, u, f, b, e), u # <<>>, Spans(ns, f, e),
         \A i \in T[e] : ~(os[i].leftBP >= b),
         NEW q, q = u[Len(u)], NEW x, x.op = q.op, x.from = q.from, x.mid = q.mid, x.right = q.right,
         x.to = e
  PROVE  /\ Grown(os, T, s, ns \cup {x}, Pop(u), q.from, q.minBP, e)
         /\ Spans(ns \cup {x}, q.from, e)
<1> DEFINE m == Len(u)
           p == Pop(u)
           ms == ns \cup {x}
<1>1. /\ OfRuns(p) /\ Ordered(p, s, q.from) /\ Chained(os, p, s, q.from, q.minBP)
      /\ Placed(q, s, f) /\ Pending(os, T, ns, q) /\ f = q.right /\ b = os[q.op].rightBP
      /\ m \in DOMAIN u /\ DOMAIN u = DOMAIN p \cup {m}
      /\ \A k \in DOMAIN p : u[k] = p[k] /\ p[k].right <= q.from
  <2>1. WaitsBelow(os, T, s, ns, u, f, b, q)
    BY CloseHas
  <2> QED
    BY <2>1 DEF WaitsBelow
<1>2. 0 \notin DOMAIN os /\ s \in Nat /\ f \in Nat /\ e \in Nat /\ f <= e /\ e <= e
  BY DEF Grown
<1>3. Solids(os, ms, p) => Nested(os, ms, p, q.from, q.minBP)
  BY CloseNested
<1>4. x \in ms /\ \A n \in ms : n \in ns \/ n = x
  OBVIOUS
<1>5. \A n \in ns : Finished(os, T, ns, n, s, e) /\ Finished(os, T, ms, n, s, e)
  BY <1>2, FinishedMore DEF Grown
<1>6. Fits(os, T, ms, x) /\ Spans(ms, x.right, x.to) /\ Right(os, x.op) /\ x.op # 0
  <2>1. Fits(os, T, ms, q) /\ Spans(ms, f, e)
    BY <1>1, FitsMore, SpansMore DEF Pending
  <2> QED
    BY <1>1, <2>1 DEF Fits, Pending, Right
<1>7. Disjoint(ms)
  <2>1. \A n \in ns : n.to <= q.mid \/ n.from >= q.right
    BY <1>1 DEF Grown, Clear
  <2>2. \A n \in ns : n.right <= x.mid \/ x.right <= n.mid
    BY <1>1, <1>5, <2>1 DEF Finished, Placed
  <2> QED
    BY <2>2, DisjointMore DEF Grown
<1>8. \A k \in DOMAIN p : Pending(os, T, ms, p[k])
  BY <1>1, PendingMore DEF Grown
<1> HIDE DEF ms, p, m
<1>9. Finished(os, T, ms, x, s, e)
  <2>1. /\ x.from \in Nat /\ x.mid \in Nat /\ x.right \in Nat /\ x.to \in Nat
        /\ s <= x.from /\ x.from <= x.mid /\ x.mid <= x.right /\ x.right <= x.to /\ x.to <= e
    BY <1>1, <1>2 DEF Placed
  <2>2. \A i \in T[x.to] : ~(os[i].leftBP >= os[x.op].rightBP)
    BY <1>1
  <2> QED
    BY <1>6, <2>1, <2>2 DEF Finished
<1>10. \A n \in ms : Finished(os, T, ms, n, s, e)
  BY <1>4, <1>5, <1>9
<1>11. Clear(ms, p)
  <2>1. \A k \in DOMAIN p : x.from >= p[k].right
    BY <1>1 DEF Ordered, Placed
  <2>2. Clear(ns, p)
    BY <1>1 DEF Clear, Grown
  <2> QED
    BY <1>4, <2>1, <2>2 DEF Clear
<1>12. Covered(ms, p, s, e)
  <2> SUFFICES ASSUME NEW i \in s .. e - 1
               PROVE  (\E n \in ms : Owns(n, i)) \/ (\E k \in DOMAIN p : Owns(p[k], i))
    BY DEF Covered
  <2>1. (\E n \in ns : Owns(n, i)) \/ (\E k \in DOMAIN u : Owns(u[k], i))
    BY DEF Covered, Grown
  <2>2. CASE \E n \in ns : Owns(n, i)
    BY <2>2 DEF ms
  <2>3. CASE \E k \in DOMAIN u : Owns(u[k], i)
    <3>1. Owns(q, i) => Owns(x, i)
      BY DEF Owns
    <3> QED
      BY <1>1, <1>4, <2>3, <3>1 DEF m
  <2> QED
    BY <2>1, <2>2, <2>3
<1>13. Spans(ms, q.from, e)
  BY <1>4 DEF Spans
<1>14. q.from \in Nat /\ s <= q.from /\ q.from <= e
  BY <1>1, <1>2, SMTT(60) DEF Placed
<1> QED
  BY <1>1, <1>2, <1>3, <1>7, <1>8, <1>10, <1>11, <1>12, <1>13, <1>14 DEF Grown, ms, p

(* Nothing has been consumed yet. *)
LEMMA Starts ==
  ASSUME NEW os, NEW T, NEW s \in Nat, NEW b, 0 \notin DOMAIN os
  PROVE  Grown(os, T, s, {}, <<>>, s, b, s)
<1>1. IsSeq(<<>>) /\ DOMAIN <<>> = {}
  BY NoSeq
<1>2. OfRuns(<<>>) /\ Ordered(<<>>, s, s) /\ Chained(os, <<>>, s, s, b)
  BY <1>1 DEF OfRuns, Ordered, Chained
<1>3. Disjoint({}) /\ Clear({}, <<>>) /\ Nested(os, {}, <<>>, s, b)
  BY DEF Disjoint, Clear, Nested
<1>4. Covered({}, <<>>, s, s)
  BY DEF Covered
<1> QED
  BY <1>1, <1>2, <1>3, <1>4 DEF Grown

-----------------------------------------------------------------------------
(* The parser and its input stay, so what is said of an expression does.   *)

LEMMA FollowersSame == ASSUME parser' = parser, input' = input PROVE Followers' = Followers
<1>1. Rule' = Rule
  BY RuleSame
<1>2. \A i : Lexeme(i)' = Lexeme(i)
  BY DEF Lexeme
<1>3. \A i : VisibleFrom(i)' = VisibleFrom(i)
  BY <1>2 DEF VisibleFrom
<1>4. \A i : VisibleIndex(i, 0)' = VisibleIndex(i, 0)
  <2> SUFFICES ASSUME NEW i PROVE VisibleIndex(i, 0)' = VisibleIndex(i, 0)
    OBVIOUS
  <2> DEFINE V == VisibleFrom(i)
             at == {k \in V : Cardinality({j \in V : j < k}) = 0}
             pick(S) == CHOOSE k \in S : TRUE
  <2>1. V' = V
    BY <1>3
  <2> HIDE DEF V
  <2>2. at' = at
    BY <2>1
  <2>3. VisibleIndex(i, 0) = IF at = {} THEN Len(input) ELSE pick(at)
    BY DEF VisibleIndex, V
  <2>4. VisibleIndex(i, 0)' = IF at' = {} THEN Len(input') ELSE pick(at')
    BY DEF VisibleIndex, V
  <2> HIDE DEF at, pick
  <2> QED
    BY <2>2, <2>3, <2>4
<1>5. \A i : Peek(i, 0)' = Peek(i, 0)
  BY <1>2, <1>4 DEF Peek
<1>6. \A r, o : OwnTriggerOf(r, o)' = OwnTriggerOf(r, o)
  BY DEF OwnTriggerOf
<1>7. \A r : PredictOf(r)' = PredictOf(r)
  BY <1>6 DEF PredictOf
<1>8. \A r, o : TriggerOf(r, o)' = TriggerOf(r, o)
  BY <1>6, <1>7 DEF TriggerOf
<1>9. \A r, i : FollowersOf(r, i)' = FollowersOf(r, i)
  BY <1>5, <1>8 DEF FollowersOf
<1> QED
  BY <1>1, <1>9 DEF Followers

(* The invariant of an expression, where its body runs. *)
LEMMA GrowsNow ==
  ASSUME parser' = parser, input' = input, NEW t, t = calls'[Len(calls')], Awaited(calls'),
         control' = "begin" => t.nodes = {},
         control' = "loop" /\ KindOf(t) = "Pratt" => Goes(t, cursor'),
         control' = "resume" /\ KindOf(t) = "Pratt" => \E e \in 0 .. cursor' : Waits(t, e),
         control' = "leave" /\ KindOf(t) = "Pratt" /\ ret'.Succeeded => Ends(t, cursor')
  PROVE  Grows'
<1>1. Rule' = Rule /\ Followers' = Followers
  BY RuleSame, FollowersSame
<1>2. top' = t
  BY DEF top
<1>3. KindOf(top)' = KindOf(t)
  BY <1>1, <1>2 DEF KindOf
<1>4. \A i : AreRuns(calls[i].runs)' <=> AreRuns(calls'[i].runs)
  BY DEF AreRuns, IsSeq
<1>5. AreRuns(top.runs)' <=> AreRuns(t.runs)
  BY <1>2 DEF AreRuns, IsSeq
<1>6. \A i, j : Stands(calls[i], calls[j].start)' <=> Stands(calls'[i], calls'[j].start)
  BY <1>1, <1>4 DEF Stands, LastRun
<1>7. \A e : Stands(top, e)' <=> Stands(t, e)
  BY <1>1, <1>2, <1>5 DEF Stands, LastRun
<1>8. Stands(top, cursor)' <=> Stands(t, cursor')
  BY <1>1, <1>2, <1>5 DEF Stands, LastRun
<1>9. \A i, j : Waits(calls[i], calls[j].start)' <=> Waits(calls'[i], calls'[j].start)
  BY <1>6 DEF Waits, LastRun
<1>10. \A e : Waits(top, e)' <=> Waits(t, e)
  BY <1>2, <1>7 DEF Waits, LastRun
<1>11. (Goes(top, cursor)' <=> Goes(t, cursor')) /\ (Ends(top, cursor)' <=> Ends(t, cursor'))
  BY <1>2, <1>8 DEF Goes, Ends, LastRun
<1>12. \A i : KindOf(calls[i])' = KindOf(calls'[i])
  BY <1>1 DEF KindOf
<1>13. Awaited(calls)'
  BY <1>9, <1>12 DEF Awaited
<1> QED
  BY <1>2, <1>3, <1>10, <1>11, <1>13 DEF Grows

-----------------------------------------------------------------------------
(* The expressions that wait, as rules begin and end above them.           *)

LEMMA AwaitedPush ==
  ASSUME NEW t, IsSeq(t), Awaited(t), NEW a,
         t # <<>> /\ KindOf(t[Len(t)]) = "Pratt" => Waits(t[Len(t)], a.start)
  PROVE  Awaited(Append(t, a))
<1> DEFINE n == Len(t)
           u == Append(t, a)
<1>1. n \in Nat /\ DOMAIN t = 1 .. n /\ (t = <<>> <=> n = 0)
  BY SeqHas
<1>2. DOMAIN u = 1 .. n + 1 /\ u[n + 1] = a /\ \A i \in 1 .. n : u[i] = t[i]
  BY SeqAppend
<1> HIDE DEF u
<1> SUFFICES ASSUME NEW i \in 1 .. n + 1, i > 1, KindOf(u[i - 1]) = "Pratt"
             PROVE  Waits(u[i - 1], u[i].start)
  BY <1>2 DEF Awaited, u
<1>3. i \in 1 .. n \/ i = n + 1
  BY <1>1
<1>4. CASE i \in 1 .. n
  <2>1. u[i] = t[i] /\ i \in DOMAIN t /\ u[i - 1] = t[i - 1]
    BY <1>1, <1>2, <1>4
  <2> QED
    BY <2>1 DEF Awaited
<1>5. CASE i = n + 1
  <2>1. u[i] = a /\ u[i - 1] = t[n] /\ t # <<>>
    BY <1>1, <1>2, <1>5
  <2> QED
    BY <2>1
<1> QED
  BY <1>3, <1>4, <1>5

LEMMA AwaitedPop ==
  ASSUME NEW t, IsSeq(t), t # <<>>, Awaited(t)
  PROVE  Awaited(Pop(t))
<1> DEFINE n == Len(t)
           u == Pop(t)
<1>1. /\ n \in Nat \ {0} /\ DOMAIN t = 1 .. n /\ DOMAIN u = 1 .. n - 1
      /\ \A i \in 1 .. n - 1 : u[i] = t[i]
  BY SeqPop, SeqHas
<1> HIDE DEF u, n
<1> SUFFICES ASSUME NEW i \in 1 .. n - 1, i > 1, KindOf(u[i - 1]) = "Pratt"
             PROVE  Waits(u[i - 1], u[i].start)
  BY <1>1 DEF Awaited, u
<1>2. u[i] = t[i] /\ i \in DOMAIN t /\ u[i - 1] = t[i - 1]
  BY <1>1
<1> QED
  BY <1>2 DEF Awaited

LEMMA AwaitedTop ==
  ASSUME IInv, Running, Awaited(calls), NEW a, Same(a)
  PROVE  LET u == Append(Pop(calls), a)
         IN  Awaited(u) /\ IsSeq(u) /\ u # <<>> /\ u[Len(u)] = a /\ KindOf(a) = KindOf(top)
<1> DEFINE n == Len(calls)
           p == Pop(calls)
           u == Append(p, a)
           m == Len(p)
<1>1. calls # <<>> /\ IsSeq(calls) /\ n \in Nat \ {0} /\ DOMAIN calls = 1 .. n
  BY TopHas DEF Running
<1>2. /\ IsSeq(p) /\ m = n - 1 /\ \A i \in 1 .. n - 1 : p[i] = calls[i]
      /\ (p = <<>> <=> m = 0)
  BY <1>1, SeqPop, SeqHas
<1>3. Awaited(p)
  BY <1>1, AwaitedPop
<1>4. calls[n] = top /\ a.rule = top.rule /\ a.start = top.start /\ KindOf(a) = KindOf(top)
  BY DEF Same, top, KindOf
<1> HIDE DEF p
<1>5. IsSeq(u) /\ u # <<>> /\ Len(u) = m + 1 /\ u[m + 1] = a
  BY <1>2, SeqAppend
<1> HIDE DEF n, m
<1>6. p # <<>> /\ KindOf(p[m]) = "Pratt" => Waits(p[m], a.start)
  <2> SUFFICES ASSUME p # <<>>, KindOf(p[m]) = "Pratt" PROVE Waits(p[m], a.start)
    OBVIOUS
  <2>1. m \in 1 .. n - 1 /\ m = n - 1 /\ n \in DOMAIN calls /\ n > 1
    BY <1>1, <1>2
  <2>2. p[m] = calls[n - 1]
    BY <1>2, <2>1
  <2>3. Waits(calls[n - 1], calls[n].start)
    BY <2>1, <2>2 DEF Awaited
  <2> QED
    BY <1>4, <2>2, <2>3
<1>7. Awaited(u)
  BY <1>2, <1>3, <1>6, AwaitedPush DEF m
<1> HIDE DEF u
<1>8. u[Len(u)] = a
  BY <1>5
<1> QED
  BY <1>4, <1>5, <1>7, <1>8 DEF u, p

-----------------------------------------------------------------------------
(* What an expression is when its body runs.                               *)

Follow == Followers[top.rule]

LEMMA ExpressionHas ==
  ASSUME IInv, Kept, Grows, control \in {"loop", "resume"}, topRule.kind = "Pratt"
  PROVE  /\ Running /\ OfRuns(Pop(top.runs)) /\ AreRuns(top.runs) /\ DOMAIN run = RunFields
         /\ cursor \in Nat /\ top.start \in Nat
         /\ control = "loop" =>
              Standing(ops, Follow, top.start, top.nodes, Pop(top.runs), run, cursor)
         /\ control = "resume" => \E e \in 0 .. cursor :
              Standing(ops, Follow, top.start, top.nodes, Pop(top.runs), run, e)
<1>1. /\ Running /\ OfRuns(Pop(top.runs)) /\ AreRuns(top.runs) /\ DOMAIN run = RunFields
      /\ LastRun(top) = run
  BY ExpressionStands
<1>2. cursor \in Nat /\ top.start \in Nat
  BY <1>1, TopStands DEF Running
<1>3. KindOf(top) = "Pratt" /\ Rule[top.rule].ops = ops
  BY DEF KindOf, topRule, ops
<1>4. \A e : Stands(top, e) =>
        Standing(ops, Follow, top.start, top.nodes, Pop(top.runs), run, e)
  BY <1>1, <1>3 DEF Stands, Follow
<1>5. control = "loop" => Stands(top, cursor)
  BY <1>3 DEF Grows, Goes
<1>6. control = "resume" => \E e \in 0 .. cursor : Stands(top, e)
  BY <1>3 DEF Grows, Waits
<1> QED
  BY <1>1, <1>2, <1>4, <1>5, <1>6

(* The activation with other runs and nodes. *)
LEMMA OtherRuns ==
  ASSUME IInv, Running
  PROVE  /\ \A runs : LET a == [top EXCEPT !.runs = runs]
                      IN  /\ a.rule = top.rule /\ a.start = top.start
                          /\ a.runs = runs /\ a.nodes = top.nodes
         /\ \A runs, nodes : LET a == [top EXCEPT !.runs = runs, !.nodes = nodes]
                             IN  /\ a.rule = top.rule /\ a.start = top.start
                                 /\ a.runs = runs /\ a.nodes = nodes
<1> DEFINE t == top
<1>1. DOMAIN t = ActivationFields
  BY TopHas DEF Running, IsActivation
<1> HIDE DEF t
<1>2. /\ \A runs : LET a == [t EXCEPT !.runs = runs]
                   IN  /\ a.rule = t.rule /\ a.start = t.start
                       /\ a.runs = runs /\ a.nodes = t.nodes
      /\ \A runs, nodes : LET a == [t EXCEPT !.runs = runs, !.nodes = nodes]
                          IN  /\ a.rule = t.rule /\ a.start = t.start
                              /\ a.runs = runs /\ a.nodes = nodes
  BY <1>1 DEF ActivationFields
<1> QED
  BY <1>2 DEF t

LEMMA StandsNow ==
  ASSUME NEW p, OfRuns(p), NEW r, DOMAIN r = RunFields, NEW e,
         NEW a, a.rule = top.rule, a.start = top.start, a.runs = Append(p, r),
         Standing(ops, Follow, top.start, a.nodes, p, r, e)
  PROVE  Stands(a, e) /\ LastRun(a) = r
<1>1. AreRuns(a.runs) /\ Pop(a.runs) = p /\ LastRun(a) = r
  BY RunsMore DEF LastRun
<1>2. Rule[a.rule].ops = ops /\ Followers[a.rule] = Follow
  BY DEF ops, topRule, Follow
<1> QED
  BY <1>1, <1>2 DEF Stands

(* A run begins for the operand after the operator of the run q.           *)
LEMMA OperandStands ==
  ASSUME NEW p, OfRuns(p), NEW q, DOMAIN q = RunFields, NEW bp, NEW cur,
         Grown(ops, Follow, top.start, top.nodes, Append(p, q), cur, bp, cur),
         NEW a, a.rule = top.rule, a.start = top.start, a.nodes = top.nodes,
         a.runs = p \o <<q, Run(bp, cur)>>
  PROVE  Goes(a, cur)
<1> DEFINE u == Append(p, q)
           r == Run(bp, cur)
<1>1. OfRuns(u) /\ a.runs = Append(u, r)
  BY RunsMore, PairAppends DEF OfRuns
<1>2. DOMAIN r = RunFields /\ r.stage = "operand" /\ r.from = cur /\ r.minBP = bp
  BY DEF Run, RunFields
<1> HIDE DEF u, r
<1>3. Standing(ops, Follow, top.start, a.nodes, u, r, cur)
  BY <1>2 DEF Standing, u
<1>4. Stands(a, cur) /\ LastRun(a) = r
  BY <1>1, <1>2, <1>3, StandsNow
<1> QED
  BY <1>2, <1>4 DEF Goes

(* The run r has a left operand. *)
LEMMA LeftStands ==
  ASSUME IInv, Running, NEW p, OfRuns(p), NEW r, DOMAIN r = RunFields, NEW n, NEW cur,
         Grown(ops, Follow, top.start, top.nodes \cup {n}, p, r.from, r.minBP, cur),
         Spans(top.nodes \cup {n}, r.from, cur)
  PROVE  Goes(WithLeft(p, r, n), cur)
<1> DEFINE q == [r EXCEPT !.op = 0, !.stage = "left"]
           a == [top EXCEPT !.runs = Append(p, q), !.nodes = @ \cup {n}]
<1>1. DOMAIN q = RunFields /\ q.stage = "left" /\ q.from = r.from /\ q.minBP = r.minBP
  BY DEF RunFields
<1>2. /\ a.rule = top.rule /\ a.start = top.start
      /\ a.runs = Append(p, q) /\ a.nodes = top.nodes \cup {n}
  BY OtherRuns
<1>3. WithLeft(p, r, n) = a
  BY DEF WithLeft
<1> HIDE DEF a, q
<1>4. Standing(ops, Follow, top.start, a.nodes, p, q, cur)
  BY <1>1, <1>2 DEF Standing
<1>5. Stands(a, cur) /\ LastRun(a) = q
  BY <1>1, <1>2, <1>4, StandsNow
<1> QED
  BY <1>1, <1>3, <1>5 DEF Goes

(* The operators that a body takes. *)
LEMMA OperatorsAre ==
  ASSUME IInv, Running, topRule.kind = "Pratt"
  PROVE  /\ 0 \notin DOMAIN ops /\ Follow[cursor] \subseteq DOMAIN ops
         /\ Operators = {o \in Follow[cursor] : ops[o].leftBP >= run.minBP}
         /\ PrefixOperators \subseteq {o \in DOMAIN ops : ops[o].fix = "prefix"}
         /\ \A o \in Follow[cursor] : ops[o].fix # "prefix"
<1>1. top.rule \in DOMAIN parser.rules /\ parser \in Parsers /\ cursor \in Nat
  BY TopHas, TopStands DEF IInv, TypeOK, Rule, Running
<1>2. 0 \notin DOMAIN ops
  BY <1>1, RulesAssumption DEF Rule, topRule, ops
<1>3. Follow[cursor] = FollowersOf(topRule, cursor)
  BY <1>1 DEF Follow, Followers, topRule, Rule
<1>4. \A o : OwnTriggerOf(topRule, o) = OwnTrigger(o)
  BY DEF OwnTriggerOf, OwnTrigger, kids
<1>5. PredictOf(topRule) = predictMap
  BY <1>4 DEF PredictOf, predictMap, WithFix, kids, ops
<1>6. \A o : TriggerOf(topRule, o) = Trigger(o)
  BY <1>4, <1>5 DEF TriggerOf, Trigger
<1>7. Follow[cursor] = {o \in DOMAIN ops : ops[o].fix # "prefix" /\ Next0.Token \in Trigger(ops[o])}
  BY <1>3, <1>6 DEF FollowersOf, ops, Next0
<1>8. Operators = {o \in Follow[cursor] : ops[o].leftBP >= run.minBP}
  BY <1>7 DEF Operators, WithFix
<1> QED
  BY <1>2, <1>7, <1>8 DEF PrefixOperators, WithFix

(* An operator that a run may take at e. *)
Takes(r, o, e) ==
  /\ o \in DOMAIN ops
  /\ \/ r.stage = "operand" /\ ops[o].fix = "prefix"
     \/ r.stage = "left" /\ o \in Follow[e] /\ ops[o].leftBP >= r.minBP

LEMMA TakenFits ==
  ASSUME NEW s, NEW ns, NEW p, NEW r, NEW e,
         Standing(ops, Follow, s, ns, p, r, e), NEW o, Takes(r, o, e),
         \A i \in Follow[e] : ops[i].fix # "prefix",
         NEW q, q.op = o, q.from = r.from, q.mid = e
  PROVE  /\ Fits(ops, Follow, ns, q)
         /\ Left(ops, o) => ops[o].leftBP >= r.minBP
<1>1. CASE r.stage = "operand" /\ ops[o].fix = "prefix"
  BY <1>1 DEF Takes, Standing, Fits, Left
<1>2. CASE r.stage = "left" /\ o \in Follow[e] /\ ops[o].leftBP >= r.minBP
  <2>1. Spans(ns, r.from, e)
    BY <1>2 DEF Standing
  <2>2. o \in DOMAIN ops
    BY DEF Takes
  <2>3. 0 \notin DOMAIN ops
    BY DEF Standing, Grown
  <2>4. Left(ops, o)
    BY <1>2, <2>2, <2>3 DEF Left
  <2> QED
    BY <1>2, <2>1, <2>2, <2>4 DEF Fits
<1> QED
  BY <1>1, <1>2 DEF Takes

LEMMA TakesNow ==
  ASSUME IInv, Running, topRule.kind = "Pratt"
  PROVE  /\ run.stage = "operand" => \A o \in PrefixOperators : Takes(run, o, cursor)
         /\ run.stage = "left" /\ Operators # {} => Takes(run, Taken, cursor)
<1>1. ASSUME run.stage = "left", Operators # {} PROVE Takes(run, Taken, cursor)
  BY <1>1, OperatorsAre, TakenIsOperator DEF Takes
<1>2. ASSUME run.stage = "operand" PROVE \A o \in PrefixOperators : Takes(run, o, cursor)
  BY <1>2, OperatorsAre DEF Takes
<1> QED
  BY <1>1, <1>2

-----------------------------------------------------------------------------
(* What a step of a body makes of an expression.                           *)

Flows ==
  \/ \E a, r, mode, cur, s, count :
        Call(a, r, mode, cur, s, count) /\ (KindOf(a) = "Pratt" => Waits(a, cur))
  \/ \E a, cur, s, count :
        Continue(a, cur, s, count) /\ (KindOf(a) = "Pratt" => Goes(a, cur))
  \/ \E result, cur, s, count :
        /\ Return(result, cur, s, count)
        /\ KindOf(top) = "Pratt" /\ result.Succeeded => Ends(top, cur)
  \/ topRule.kind = "Reference" /\ ExecuteReference(topRule.target)
  \/ control' = "panic"

LEMMA FlowsCall ==
  ASSUME NEW a, NEW r, NEW mode, NEW cur, NEW s, NEW count, Call(a, r, mode, cur, s, count),
         KindOf(a) = "Pratt" => Waits(a, cur)
  PROVE  Flows
  BY DEF Flows

LEMMA FlowsContinue ==
  ASSUME NEW a, NEW cur, NEW s, NEW count, Continue(a, cur, s, count),
         KindOf(a) = "Pratt" => Goes(a, cur)
  PROVE  Flows
  BY DEF Flows

LEMMA FlowsReturn ==
  ASSUME NEW result, NEW cur, NEW s, NEW count, Return(result, cur, s, count),
         KindOf(top) = "Pratt" /\ result.Succeeded => Ends(top, cur)
  PROVE  Flows
  BY DEF Flows

(* A rule that is no expression says nothing of one. *)
LEMMA OthersFlow == ASSUME BodyMoves, topRule.kind # "Pratt" PROVE Flows
<1>1. KindOf(top) # "Pratt" /\ \A a : Same(a) => KindOf(a) # "Pratt"
  BY DEF KindOf, topRule, Same
<1>2. ASSUME NEW a, NEW r, NEW mode, NEW cur, NEW s, NEW count, Calls(a, r, mode, cur, s, count)
      PROVE  Flows
  <2>1. Call(a, r, mode, cur, s, count) /\ Same(a)
    BY <1>2 DEF Calls
  <2> QED
    BY <1>1, <2>1, FlowsCall
<1>3. ASSUME NEW a, NEW cur, NEW s, NEW count, Continues(a, cur, s, count)
      PROVE  Flows
  <2>1. Continue(a, cur, s, count) /\ Same(a)
    BY <1>3 DEF Continues
  <2> QED
    BY <1>1, <2>1, FlowsContinue
<1>4. ASSUME NEW result, NEW cur, NEW s, NEW count, Returns(result, cur, s, count)
      PROVE  Flows
  <2>1. Return(result, cur, s, count)
    BY <1>4 DEF Returns
  <2> QED
    BY <1>1, <2>1, FlowsReturn
<1>5. CASE Refers \/ Panics
  BY <1>5 DEF Refers, Panics, Flows
<1> QED
  BY <1>2, <1>3, <1>4, <1>5 DEF BodyMoves

-----------------------------------------------------------------------------
(* The steps of an expression.                                             *)

LEMMA BeginFlows ==
  ASSUME IInv, Kept, Grows, PrattBegin
  PROVE  Flows
<1> DEFINE r == Run(0, cursor)
           a == [top EXCEPT !.runs = Append(<<>>, r)]
<1>1. Running /\ topRule.kind = "Pratt" /\ control = "begin"
  BY AtHas DEF PrattBegin
<1>2. cursor = top.start /\ top.nodes = {} /\ cursor \in Nat
  BY <1>1, TopStands DEF Kept, Grows, Running
<1>3. Continue(a, cursor, errs, created)
  BY DEF PrattBegin
<1>4. /\ a.rule = top.rule /\ a.start = top.start
      /\ a.runs = Append(<<>>, r) /\ a.nodes = top.nodes
  BY <1>1, OtherRuns
<1>5. DOMAIN r = RunFields /\ r.stage = "operand" /\ r.from = cursor /\ r.minBP = 0
  BY DEF Run, RunFields
<1> HIDE DEF a, r
<1>6. 0 \notin DOMAIN ops
  BY <1>1, OperatorsAre
<1>7. Grown(ops, Follow, cursor, {}, <<>>, cursor, 0, cursor)
  BY <1>2, <1>6, Starts
<1>8. Standing(ops, Follow, top.start, a.nodes, <<>>, r, cursor)
  BY <1>2, <1>4, <1>5, <1>7 DEF Standing
<1>9. OfRuns(<<>>)
  BY NoSeq DEF OfRuns
<1>10. Stands(a, cursor) /\ LastRun(a) = r
  BY <1>4, <1>5, <1>8, <1>9, StandsNow
<1> QED
  BY <1>3, <1>5, <1>10, FlowsContinue DEF Goes

(* The rule of an operator is called. *)
LEMMA CallOperatorFlows ==
  ASSUME IInv, Kept, Grows, control = "loop", topRule.kind = "Pratt",
         NEW o, Takes(run, o, cursor), CallOperator(o)
  PROVE  Flows
<1> DEFINE q == [run EXCEPT !.op = o, !.mid = cursor, !.stage = "operator"]
           p == Pop(top.runs)
           a == [top EXCEPT !.runs = Append(p, q)]
<1>1. /\ Running /\ OfRuns(p) /\ DOMAIN run = RunFields
      /\ Standing(ops, Follow, top.start, top.nodes, p, run, cursor)
  BY ExpressionHas
<1>2. Call(a, kids[ops[o].kid], "Normal", cursor, errs, created)
  BY DEF CallOperator, CallKid, WithRun
<1>3. /\ a.rule = top.rule /\ a.start = top.start
      /\ a.runs = Append(p, q) /\ a.nodes = top.nodes
  BY <1>1, OtherRuns
<1>4. /\ DOMAIN q = RunFields /\ q.op = o /\ q.from = run.from /\ q.minBP = run.minBP
      /\ q.mid = cursor /\ q.stage = "operator"
  BY <1>1 DEF RunFields
<1> HIDE DEF a, q, p
<1>5. Fits(ops, Follow, top.nodes, q) /\ (Left(ops, o) => ops[o].leftBP >= run.minBP)
  BY <1>1, <1>4, OperatorsAre, TakenFits
<1>6. Grown(ops, Follow, top.start, top.nodes, p, q.from, q.minBP, cursor)
  BY <1>1, <1>4 DEF Standing
<1>7. Standing(ops, Follow, top.start, a.nodes, p, q, cursor)
  BY <1>3, <1>4, <1>5, <1>6 DEF Standing
<1>8. Stands(a, cursor) /\ LastRun(a) = q
  BY <1>1, <1>3, <1>4, <1>7, StandsNow
<1>9. Waits(a, cursor)
  BY <1>4, <1>8 DEF Waits
<1> QED
  BY <1>2, <1>9, FlowsCall

LEMMA PrimaryFlows ==
  ASSUME IInv, Kept, Grows, ParsePrimary
  PROVE  Flows
<1> DEFINE q == [run EXCEPT !.stage = "primary"]
           p == Pop(top.runs)
           a == [top EXCEPT !.runs = Append(p, q)]
<1>0. control = "loop" /\ topRule.kind = "Pratt" /\ run.stage = "operand"
  BY AtHas DEF ParsePrimary, Operand
<1>1. /\ Running /\ OfRuns(p) /\ DOMAIN run = RunFields
      /\ Standing(ops, Follow, top.start, top.nodes, p, run, cursor)
  BY <1>0, ExpressionHas
<1>2. Call(a, kids[1], "Normal", cursor, errs, created)
  BY DEF ParsePrimary, CallKid, WithRun
<1>3. /\ a.rule = top.rule /\ a.start = top.start
      /\ a.runs = Append(p, q) /\ a.nodes = top.nodes
  BY <1>1, OtherRuns
<1>4. DOMAIN q = RunFields /\ q.from = run.from /\ q.minBP = run.minBP /\ q.stage = "primary"
  BY <1>1 DEF RunFields
<1> HIDE DEF a, q, p
<1>5. Standing(ops, Follow, top.start, a.nodes, p, q, cursor)
  BY <1>0, <1>1, <1>3, <1>4 DEF Standing
<1>6. Stands(a, cursor) /\ LastRun(a) = q
  BY <1>1, <1>3, <1>4, <1>5, StandsNow
<1>7. Waits(a, cursor)
  BY <1>4, <1>6 DEF Waits
<1> QED
  BY <1>2, <1>7, FlowsCall

(* A token or an implicit operator is taken. *)
LEMMA RunForFlows ==
  ASSUME IInv, Kept, Grows, control = "loop", topRule.kind = "Pratt",
         NEW o, Takes(run, o, cursor), ops[o].fix # "postfix",
         NEW cur \in Nat, cursor <= cur, Continue(RunFor(o, cur), cur, errs, created)
  PROVE  Flows
<1> DEFINE q == [run EXCEPT !.op = o, !.mid = cursor, !.right = cur, !.stage = "right"]
           p == Pop(top.runs)
           runs == p \o <<q, Run(ops[o].rightBP, cur)>>
           a == [top EXCEPT !.runs = runs]
<1>1. /\ Running /\ OfRuns(p) /\ DOMAIN run = RunFields
      /\ Standing(ops, Follow, top.start, top.nodes, p, run, cursor)
  BY ExpressionHas
<1>2. Continue(a, cur, errs, created)
  <2>1. RunFor(o, cur) = a
    BY DEF RunFor
  <2> QED
    BY <2>1
<1>3. /\ a.rule = top.rule /\ a.start = top.start
      /\ a.runs = runs /\ a.nodes = top.nodes
  BY <1>1, OtherRuns
<1>4. /\ DOMAIN q = RunFields /\ q.op = o /\ q.from = run.from /\ q.minBP = run.minBP
      /\ q.mid = cursor /\ q.right = cur
  BY <1>1 DEF RunFields
<1> HIDE DEF a, q, p
<1>5. Fits(ops, Follow, top.nodes, q) /\ (Left(ops, o) => ops[o].leftBP >= run.minBP)
  BY <1>1, <1>4, OperatorsAre, TakenFits
<1>6. Grown(ops, Follow, top.start, top.nodes, p, run.from, run.minBP, cursor)
  BY <1>1 DEF Standing
<1>7. Right(ops, o)
  BY <1>6 DEF Takes, Grown, Right
<1>8. Pending(ops, Follow, top.nodes, q)
  BY <1>4, <1>5, <1>7 DEF Pending
<1>9. Grown(ops, Follow, top.start, top.nodes, Append(p, q), cur, ops[o].rightBP, cur)
  BY <1>4, <1>6, <1>8, Push
<1>10. Goes(a, cur)
  BY <1>1, <1>3, <1>4, <1>9, OperandStands
<1> QED
  BY <1>2, <1>10, FlowsContinue

(* An operand is complete that ends with the node n. *)
LEMMA LeafFlows ==
  ASSUME IInv, Kept, Grows, control \in {"loop", "resume"}, topRule.kind = "Pratt", NEW e \in Nat,
         Standing(ops, Follow, top.start, top.nodes, Pop(top.runs), run, e),
         NEW x, NEW to \in Nat, e <= to, x.from = run.from, x.mid = e, x.right = to, x.to = to,
         ~Right(ops, x.op), x.op = 0 => run.from = e, x.op # 0 => Fits(ops, Follow, top.nodes, x),
         Left(ops, x.op) => ops[x.op].leftBP >= run.minBP,
         NEW count, Continue(WithLeft(Pop(top.runs), run, x), to, errs, count)
  PROVE  Flows
<1> DEFINE p == Pop(top.runs)
           ns == top.nodes \cup {x}
<1>1. Running /\ OfRuns(p) /\ DOMAIN run = RunFields
  BY ExpressionHas
<1> HIDE DEF p
<1>2. Grown(ops, Follow, top.start, top.nodes, p, run.from, run.minBP, e)
  BY DEF Standing, p
<1>3. Grown(ops, Follow, top.start, ns, p, run.from, run.minBP, to) /\ Spans(ns, run.from, to)
  BY <1>2, Leaf
<1>4. Goes(WithLeft(p, run, x), to)
  BY <1>1, <1>3, LeftStands
<1> QED
  BY <1>4, FlowsContinue DEF p

LEMMA NodeHas ==
  ASSUME NEW o, NEW from, NEW mid, NEW right, NEW to
  PROVE  LET x == Node(o, from, mid, right, to)
         IN  x.op = o /\ x.from = from /\ x.mid = mid /\ x.right = right /\ x.to = to
  BY DEF Node

LEMMA ConsumesMore ==
  ASSUME IInv, Running
  PROVE  Consume(cursor) \in Nat /\ cursor <= Consume(cursor)
<1> DEFINE end == Consume(cursor)
<1>1. Ahead(end, created) /\ cursor \in Nat
  BY HereIsAhead, TopStands DEF Running
<1>2. Len(input) \in Nat
  BY InputHas DEF IInv
<1> HIDE DEF end
<1> QED
  BY <1>1, <1>2 DEF Ahead, end

LEMMA FailsFlow ==
  ASSUME NEW result, ~result.Succeeded, NEW cur, NEW s, NEW count, Return(result, cur, s, count)
  PROVE  Flows
  BY FlowsReturn

LEMMA PrimaryEndFlows ==
  ASSUME IInv, Kept, Grows, ParsePrimaryEnd
  PROVE  Flows
<1> DEFINE x == Node(0, run.from, run.from, cursor, cursor)
<1>1. control = "resume" /\ topRule.kind = "Pratt" /\ run.stage = "primary"
  BY AtHas DEF ParsePrimaryEnd
<1>2. CASE ~ret.Succeeded
  BY <1>2, FailsFlow DEF ParsePrimaryEnd, Give
<1>3. CASE ret.Succeeded /\ ~ret.Node
  BY <1>3, FailsFlow DEF ParsePrimaryEnd, Failure
<1>4. CASE ret.Succeeded /\ ret.Node
  <2>1. Continue(WithLeft(Pop(top.runs), run, x), cursor, errs, created)
    BY <1>4 DEF ParsePrimaryEnd
  <2>2. PICK e \in 0 .. cursor :
          Standing(ops, Follow, top.start, top.nodes, Pop(top.runs), run, e)
    BY <1>1, ExpressionHas
  <2>3. e \in Nat /\ cursor \in Nat /\ e <= cursor
    BY <1>1, <2>2, ExpressionHas
  <2>4. run.from = e
    BY <1>1, <2>2 DEF Standing
  <2>5. x.op = 0 /\ x.from = run.from /\ x.mid = e /\ x.right = cursor /\ x.to = cursor
    BY <2>4, NodeHas
  <2> HIDE DEF x
  <2>6. ~Right(ops, x.op) /\ ~Left(ops, x.op)
    BY <2>5 DEF Right, Left
  <2> QED
    BY <1>1, <2>1, <2>2, <2>3, <2>4, <2>5, <2>6, LeafFlows
<1> QED
  BY <1>2, <1>3, <1>4

LEMMA PostfixFlows ==
  ASSUME IInv, Kept, Grows, TryPostfixOp
  PROVE  Flows
<1> DEFINE end == Consume(cursor)
           x == Node(Taken, run.from, cursor, end, end)
           o == Taken
<1>1. /\ control = "loop" /\ topRule.kind = "Pratt" /\ run.stage = "left" /\ Operators # {}
      /\ ops[o].fix = "postfix" /\ Continue(WithLeft(Pop(top.runs), run, x), end, errs, NewNodes(1))
  BY AtHas DEF TryPostfixOp, Loop
<1>2. /\ Running /\ cursor \in Nat
      /\ Standing(ops, Follow, top.start, top.nodes, Pop(top.runs), run, cursor)
  BY <1>1, ExpressionHas
<1>3. end \in Nat /\ cursor <= end
  BY <1>2, ConsumesMore
<1>4. x.op = o /\ x.from = run.from /\ x.mid = cursor /\ x.right = end /\ x.to = end
  BY NodeHas
<1>5. Takes(run, o, cursor)
  BY <1>1, <1>2, TakesNow
<1> HIDE DEF x, end, o
<1>6. /\ Fits(ops, Follow, top.nodes, x)
      /\ Left(ops, o) => ops[o].leftBP >= run.minBP
  BY <1>1, <1>2, <1>4, <1>5, OperatorsAre, TakenFits
<1>7. ~Right(ops, x.op) /\ x.op # 0
  BY <1>1, <1>2, <1>4, <1>5, OperatorsAre DEF Right, Takes
<1> QED
  BY <1>1, <1>2, <1>3, <1>4, <1>6, <1>7, LeafFlows

(* The rule of an operator has ended. *)
LEMMA RuleOpEndFlows ==
  ASSUME IInv, Kept, Grows, RuleOpEnd
  PROVE  Flows
<1>1. control = "resume" /\ topRule.kind = "Pratt" /\ run.stage = "operator"
  BY AtHas DEF RuleOpEnd
<1>2. PICK e \in 0 .. cursor :
        Standing(ops, Follow, top.start, top.nodes, Pop(top.runs), run, e)
  BY <1>1, ExpressionHas
<1>3. e \in Nat /\ cursor \in Nat /\ e <= cursor
  BY <1>1, <1>2, ExpressionHas
<1>4. /\ run.mid = e /\ Fits(ops, Follow, top.nodes, run)
      /\ Left(ops, run.op) => ops[run.op].leftBP >= run.minBP
  BY <1>1, <1>2 DEF Standing
<1>5. run.op \in DOMAIN ops /\ run.op # 0
  BY <1>2, <1>4 DEF Fits, Standing, Grown
<1>6. CASE ~ret.Succeeded
  BY <1>6, FailsFlow DEF RuleOpEnd, Give
<1>7. CASE ret.Succeeded /\ op.fix = "postfix"
  <2> DEFINE x == Node(run.op, run.from, run.mid, cursor, cursor)
  <2>1. Continue(WithLeft(Pop(top.runs), run, x), cursor, errs, NewNodes(1))
    BY <1>7 DEF RuleOpEnd
  <2>2. x.op = run.op /\ x.from = run.from /\ x.mid = run.mid /\ x.right = cursor /\ x.to = cursor
    BY NodeHas
  <2> HIDE DEF x
  <2>3. Fits(ops, Follow, top.nodes, x)
    BY <1>4, <2>2 DEF Fits
  <2>4. ~Right(ops, x.op) /\ x.op # 0
    BY <1>5, <1>7, <2>2 DEF Right, op
  <2> QED
    BY <1>1, <1>2, <1>3, <1>4, <2>1, <2>2, <2>3, <2>4, LeafFlows
<1>8. CASE ret.Succeeded /\ op.fix # "postfix"
  <2> DEFINE q == [run EXCEPT !.right = cursor, !.stage = "right"]
             bp == op.rightBP
             p == Pop(top.runs)
             runs == p \o <<q, Run(bp, cursor)>>
             a == [top EXCEPT !.runs = runs]
  <2>1. Continue(a, cursor, errs, created)
    BY <1>8 DEF RuleOpEnd
  <2>2. Running /\ OfRuns(p) /\ DOMAIN run = RunFields
    BY <1>1, ExpressionHas
  <2>3. /\ a.rule = top.rule /\ a.start = top.start
        /\ a.runs = runs /\ a.nodes = top.nodes
    BY <2>2, OtherRuns
  <2>4. /\ DOMAIN q = RunFields /\ q.op = run.op /\ q.from = run.from /\ q.minBP = run.minBP
        /\ q.mid = e /\ q.right = cursor
    BY <1>4, <2>2 DEF RunFields
  <2>5. bp = ops[q.op].rightBP
    BY <2>4 DEF op
  <2> HIDE DEF a, q, p, bp
  <2>6. Fits(ops, Follow, top.nodes, q)
    BY <1>4, <2>4 DEF Fits
  <2>7. Right(ops, q.op)
    BY <1>5, <1>8, <2>4 DEF Right, op
  <2>8. Pending(ops, Follow, top.nodes, q)
    BY <1>4, <2>4, <2>6, <2>7 DEF Pending
  <2>9. Grown(ops, Follow, top.start, top.nodes, p, run.from, run.minBP, e)
    BY <1>2 DEF Standing, p
  <2>10. Grown(ops, Follow, top.start, top.nodes, Append(p, q), cursor, bp, cursor)
    BY <1>3, <2>4, <2>5, <2>8, <2>9, Push
  <2>11. Goes(a, cursor)
    BY <2>2, <2>3, <2>4, <2>10, OperandStands
  <2> QED
    BY <2>1, <2>11, FlowsContinue
<1> QED
  BY <1>6, <1>7, <1>8

(* No operator continues the run on top: it was an operand of the one      *)
(* below.                                                                  *)
LEMMA RunEndFlows ==
  ASSUME IInv, Kept, Grows, RunEnd
  PROVE  Flows
<1> DEFINE u == Pop(top.runs)
           below == top.runs[Len(top.runs) - 1]
           x == Node(below.op, below.from, below.mid, below.right, cursor)
           ns == top.nodes \cup {x}
<1>1. /\ control = "loop" /\ topRule.kind = "Pratt" /\ run.stage = "left" /\ Operators = {}
      /\ Len(top.runs) > 1
      /\ Continue(WithLeft(Pop(u), below, x), cursor, errs, NewNodes(1))
  BY AtHas DEF RunEnd, Loop
<1>2. /\ Running /\ AreRuns(top.runs)
      /\ Standing(ops, Follow, top.start, top.nodes, u, run, cursor)
  BY <1>1, ExpressionHas
<1>3. OfRuns(Pop(u)) /\ DOMAIN below = RunFields
  BY <1>1, <1>2, RunsLess
<1>4. u # <<>> /\ u[Len(u)] = below
  <2> DEFINE m == Len(top.runs)
  <2>1. m \in Nat \ {0} /\ IsSeq(top.runs) /\ top.runs # <<>>
    BY <1>2, SeqHas DEF AreRuns
  <2>2. Len(u) = m - 1 /\ IsSeq(u) /\ \A k \in 1 .. m - 1 : u[k] = top.runs[k]
    BY <2>1, SeqPop
  <2>3. Len(u) = 0 <=> u = <<>>
    BY <2>2, SeqHas
  <2> HIDE DEF m, u
  <2>4. m > 1
    BY <1>1 DEF m
  <2>5. m - 1 \in 1 .. m - 1 /\ m - 1 # 0
    BY <2>1, <2>4
  <2> QED
    BY <2>2, <2>3, <2>5 DEF m
<1>5. \A i \in Follow[cursor] : ~(ops[i].leftBP >= run.minBP)
  BY <1>1, <1>2, OperatorsAre
<1>6. /\ x.op = below.op /\ x.from = below.from /\ x.mid = below.mid /\ x.right = below.right
      /\ x.to = cursor
  BY NodeHas
<1> HIDE DEF u, below, x
<1>7. /\ Grown(ops, Follow, top.start, top.nodes, u, run.from, run.minBP, cursor)
      /\ Spans(top.nodes, run.from, cursor)
  BY <1>1, <1>2 DEF Standing
<1>8. /\ Grown(ops, Follow, top.start, ns, Pop(u), below.from, below.minBP, cursor)
      /\ Spans(ns, below.from, cursor)
  BY <1>4, <1>5, <1>6, <1>7, Close
<1>9. Goes(WithLeft(Pop(u), below, x), cursor)
  BY <1>2, <1>3, <1>8, LeftStands
<1> QED
  BY <1>1, <1>9, FlowsContinue

LEMMA EndFlows ==
  ASSUME IInv, Kept, Grows, PrattEnd
  PROVE  Flows
<1>1. /\ control = "loop" /\ topRule.kind = "Pratt" /\ run.stage = "left"
      /\ Len(top.runs) = 1 /\ Give(Success(TRUE))
  BY AtHas DEF PrattEnd, Loop
<1>2. KindOf(top) = "Pratt" /\ LastRun(top) = run
  BY <1>1 DEF KindOf, topRule, LastRun, run
<1>3. Ends(top, cursor)
  BY <1>1, <1>2 DEF Grows, Goes, Ends
<1> QED
  BY <1>1, <1>3, FlowsReturn DEF Give

LEMMA PrattFlows == ASSUME IInv, Kept, Grows, PrattStep PROVE Flows
<1>1. CASE AmbiguityPanic
  BY <1>1 DEF AmbiguityPanic, Flows
<1>2. CASE TryPrefixOp
  <2>1. control = "loop" /\ topRule.kind = "Pratt" /\ run.stage = "operand"
    BY <1>2, AtHas DEF TryPrefixOp, Operand
  <2>2. PICK o \in PrefixOperators : Continue(RunFor(o, Consume(cursor)), Consume(cursor), errs, created)
    BY <1>2 DEF TryPrefixOp, TakeToken
  <2>3. Running /\ cursor \in Nat
    BY <2>1, ExpressionHas
  <2>4. Takes(run, o, cursor) /\ ops[o].fix # "postfix"
    BY <2>1, <2>3, TakesNow, OperatorsAre
  <2>5. Consume(cursor) \in Nat /\ cursor <= Consume(cursor)
    BY <2>3, ConsumesMore
  <2> QED
    BY <2>1, <2>2, <2>4, <2>5, RunForFlows
<1>3. CASE TryPrefixRuleOp
  <2>1. control = "loop" /\ topRule.kind = "Pratt" /\ run.stage = "operand"
    BY <1>3, AtHas DEF TryPrefixRuleOp, Operand
  <2>2. PICK o \in PrefixOperators : CallOperator(o)
    BY <1>3 DEF TryPrefixRuleOp
  <2>3. Running
    BY <2>1, ExpressionHas
  <2>4. Takes(run, o, cursor)
    BY <2>1, <2>3, TakesNow
  <2> QED
    BY <2>1, <2>2, <2>4, CallOperatorFlows
<1>4. CASE TryInfixOp
  <2> DEFINE o == Taken
  <2>1. /\ control = "loop" /\ topRule.kind = "Pratt" /\ run.stage = "left" /\ Operators # {}
        /\ ops[o].fix = "infix"
        /\ Continue(RunFor(o, Consume(cursor)), Consume(cursor), errs, created)
    BY <1>4, AtHas DEF TryInfixOp, Loop, TakeToken
  <2>2. Running /\ cursor \in Nat
    BY <2>1, ExpressionHas
  <2>3. Takes(run, o, cursor) /\ ops[o].fix # "postfix"
    BY <2>1, <2>2, TakesNow
  <2>4. Consume(cursor) \in Nat /\ cursor <= Consume(cursor)
    BY <2>2, ConsumesMore
  <2> HIDE DEF o
  <2> QED
    BY <2>1, <2>3, <2>4, RunForFlows
<1>5. CASE TryRuleOp
  <2> DEFINE o == Taken
  <2>1. /\ control = "loop" /\ topRule.kind = "Pratt" /\ run.stage = "left" /\ Operators # {}
        /\ CallOperator(o)
    BY <1>5, AtHas DEF TryRuleOp, Loop
  <2>2. Running
    BY <2>1, ExpressionHas
  <2>3. Takes(run, o, cursor)
    BY <2>1, <2>2, TakesNow
  <2> HIDE DEF o
  <2> QED
    BY <2>1, <2>3, CallOperatorFlows
<1>6. CASE TryImplicitInfix
  <2> DEFINE o == Taken
  <2>1. /\ control = "loop" /\ topRule.kind = "Pratt" /\ run.stage = "left" /\ Operators # {}
        /\ ops[o].fix = "implicit" /\ Continue(RunFor(o, cursor), cursor, errs, created)
    BY <1>6, AtHas DEF TryImplicitInfix, Loop
  <2>2. Running /\ cursor \in Nat /\ cursor <= cursor
    BY <2>1, ExpressionHas
  <2>3. Takes(run, o, cursor) /\ ops[o].fix # "postfix"
    BY <2>1, <2>2, TakesNow
  <2> HIDE DEF o
  <2> QED
    BY <2>1, <2>2, <2>3, RunForFlows
<1> QED
  BY <1>1, <1>2, <1>3, <1>4, <1>5, <1>6, BeginFlows, PrimaryFlows, PrimaryEndFlows, PostfixFlows,
     RuleOpEndFlows, RunEndFlows, EndFlows DEF PrattStep

(* The kinds of the other bodies. *)
LEMMA OtherBodies ==
  ASSUME BodyStep, ~PrattStep
  PROVE  topRule.kind # "Pratt"
<1>1. ExpectToken => topRule.kind = "Expect"
  BY AtHas DEF ExpectToken
<1>2. ListOpen \/ ListFirst \/ ListAfterElement \/ ListAfterSeparator
      => topRule.kind = "List"
  BY AtHas DEF ListOpen, ListFirst, ListAfterElement, ListAfterSeparator
<1>3. SequenceBegin \/ SequenceAdvance \/ SequenceFail => topRule.kind = "Sequence"
  BY AtHas DEF SequenceBegin, SequenceAdvance, SequenceFail
<1>4. OptionalBegin \/ OptionalEnd => topRule.kind = "Optional"
  BY AtHas DEF OptionalBegin, OptionalEnd
<1>5. OptionalWhenBegin \/ ReturnKid("OptionalWhen") => topRule.kind = "OptionalWhen"
  BY AtHas DEF OptionalWhenBegin, ReturnKid, Guarded
<1>6. PredictBegin \/ ReturnKid("Predict") => topRule.kind = "Predict"
  BY AtHas DEF PredictBegin, ReturnKid, Guarded
<1>7. RecoverSyncBegin \/ ReturnKid("RecoverSync") => topRule.kind = "RecoverSync"
  BY AtHas DEF RecoverSyncBegin, ReturnKid
<1>8. OptionalSuffixBegin \/ OptionalSuffixEnd => topRule.kind = "OptionalSuffix"
  BY AtHas DEF OptionalSuffixBegin, OptionalSuffixEnd
<1>9. RequiredBegin \/ RequiredEnd => topRule.kind = "Required"
  BY AtHas DEF RequiredBegin, RequiredEnd
<1>10. PrefixedBegin \/ PrefixedEnd => topRule.kind = "Prefixed"
  BY AtHas DEF PrefixedBegin, PrefixedEnd
<1>11. NestBegin \/ NestInnerFails \/ NestCloses \/ NestCloseMissing
       => topRule.kind = "Nest"
  BY AtHas DEF NestBegin, NestInnerFails, NestCloses, NestCloseMissing
<1>12. RootBegin \/ RootAdvance \/ RootFail => topRule.kind = "Root"
  BY AtHas DEF RootBegin, RootAdvance, RootFail
<1>13. \/ RepetitionBegin \/ RepetitionBeginFull \/ RepetitionMatch
       \/ RepetitionStops \/ RepetitionPropagates \/ RepetitionRetries
       => topRule.kind = "Repetition"
  BY AtHas DEF RepetitionBegin, RepetitionBeginFull, RepetitionMatch, RepetitionStops,
               RepetitionPropagates, RepetitionRetries
<1>14. ChoiceBegin \/ ChoiceEnd \/ ChoiceNextArm => topRule.kind = "Choice"
  BY AtHas DEF ChoiceBegin, ChoiceEnd, ChoiceNextArm
<1>15. ReferenceBegin => topRule.kind = "Reference"
  BY AtHas DEF ReferenceBegin
<1>16. topRule.kind \in {"Expect", "List", "Sequence", "Optional", "OptionalWhen", "Predict",
                         "RecoverSync", "OptionalSuffix", "Required", "Prefixed", "Nest", "Root",
                         "Repetition", "Choice", "Reference"}
  BY <1>1, <1>2, <1>3, <1>4, <1>5, <1>6, <1>7, <1>8, <1>9, <1>10, <1>11, <1>12, <1>13, <1>14,
     <1>15
     DEF BodyStep
<1> QED
  BY <1>16

LEMMA BodyFlows == ASSUME IInv, Kept, Grows, BodyStep PROVE Flows
<1>1. CASE PrattStep
  BY <1>1, PrattFlows
<1>2. CASE ~PrattStep
  BY <1>2, OtherBodies, BodyStepMoves, OthersFlow
<1> QED
  BY <1>1, <1>2

-----------------------------------------------------------------------------
(* The steps of bodies keep the invariant. *)

LEMMA GrowsEnter ==
  ASSUME NEW t, IsSeq(t), Awaited(t),
         NEW r, NEW mode, NEW cur, NEW s, NEW count, Enter(t, r, mode, cur, s, count),
         t # <<>> /\ KindOf(t[Len(t)]) = "Pratt" => Waits(t[Len(t)], cur)
  PROVE  Grows'
<1> DEFINE x == Activation(r, mode, TRUE, cur, s, count)
<1>1. calls' = Append(t, x) /\ parser' = parser /\ input' = input /\ control' = "begin"
  BY DEF Enter, Effect
<1>2. x.start = cur /\ x.nodes = {}
  BY DEF Activation
<1> HIDE DEF x
<1>3. Awaited(calls')
  BY <1>1, <1>2, AwaitedPush
<1>4. calls'[Len(calls')] = x
  <2>1. Len(Append(t, x)) = Len(t) + 1 /\ Append(t, x)[Len(t) + 1] = x
    BY SeqAppend
  <2> QED
    BY <1>1, <2>1
<1> QED
  BY <1>1, <1>2, <1>3, <1>4, GrowsNow

LEMMA GrowsCalls ==
  ASSUME IInv, Grows, Running, Flows, NEW a, NEW r, NEW mode, NEW cur, NEW s, NEW count,
         Calls(a, r, mode, cur, s, count)
  PROVE  Grows'
<1> DEFINE t == Append(Pop(calls), a)
<1>1. Same(a) /\ Call(a, r, mode, cur, s, count) /\ topRule.kind # "Reference"
  BY DEF Calls
<1>2. control' = "begin" /\ Enter(t, r, mode, cur, s, count)
  BY <1>1 DEF Call, Enter
<1>3. PICK b, q, how, at, z, k :
        Call(b, q, how, at, z, k) /\ (KindOf(b) = "Pratt" => Waits(b, at))
  BY <1>1, <1>2 DEF Flows, Return, Continue
<1>4. a = b /\ cur = at
  BY <1>1, <1>3, OneCall
<1>5. Awaited(t) /\ IsSeq(t) /\ t # <<>> /\ t[Len(t)] = a
  BY <1>1, AwaitedTop DEF Grows
<1> HIDE DEF t
<1> QED
  BY <1>2, <1>3, <1>4, <1>5, GrowsEnter

LEMMA GrowsContinues ==
  ASSUME IInv, Grows, Running, Flows, NEW a, NEW cur, NEW s, NEW count,
         Continues(a, cur, s, count)
  PROVE  Grows'
<1> DEFINE p == Pop(calls)
           t == Append(p, a)
<1>1. /\ Same(a) /\ calls' = t /\ control' = "loop" /\ cursor' = cur
      /\ parser' = parser /\ input' = input
  BY DEF Continues, Continue, Effect
<1>2. PICK b, at, z, k : Continue(b, at, z, k) /\ (KindOf(b) = "Pratt" => Goes(b, at))
  BY <1>1 DEF Flows, Return, Call, Enter, ExecuteReference
<1>3. calls' = Append(p, b) /\ cursor' = at
  BY <1>2 DEF Continue, Effect
<1>4. IsSeq(p)
  BY TopHas, SeqPop DEF Running
<1>5. a = b
  <2>1. Append(p, a)[Len(p) + 1] = a /\ Append(p, b)[Len(p) + 1] = b
    BY <1>4, SeqAppend
  <2> QED
    BY <1>1, <1>3, <2>1
<1>6. Awaited(t) /\ t[Len(t)] = a
  BY <1>1, AwaitedTop DEF Grows
<1> HIDE DEF t
<1> QED
  BY <1>1, <1>2, <1>3, <1>5, <1>6, GrowsNow

LEMMA GrowsReturns ==
  ASSUME IInv, Grows, Running, Flows, NEW result, NEW cur, NEW s, NEW count,
         Returns(result, cur, s, count)
  PROVE  Grows'
<1>1. /\ ret' = result /\ control' = "leave" /\ calls' = calls /\ cursor' = cur
      /\ parser' = parser /\ input' = input
  BY DEF Returns, Return, Effect
<1>2. KindOf(top) = "Pratt" /\ ret'.Succeeded => Ends(top, cursor')
  BY <1>1 DEF Flows, Call, Enter, Continue, ExecuteReference, Return, Effect
<1>3. Awaited(calls') /\ calls'[Len(calls')] = top
  BY <1>1 DEF top, Grows
<1> QED
  BY <1>1, <1>2, <1>3, GrowsNow

LEMMA GrowsRefers == ASSUME IInv, Grows, Running, Refers PROVE Grows'
<1> DEFINE x == Activation(Registry[topRule.target].rule, "Normal", FALSE, cursor, errs, created)
<1>1. /\ topRule.kind = "Reference" /\ calls' = Append(calls, x) /\ control' = "begin"
      /\ parser' = parser /\ input' = input
  BY DEF Refers, ExecuteReference, Effect
<1>2. x.nodes = {}
  BY DEF Activation
<1> HIDE DEF x
<1>3. IsSeq(calls) /\ KindOf(calls[Len(calls)]) # "Pratt" /\ Awaited(calls)
  BY <1>1, TopHas DEF Running, KindOf, topRule, top, Grows
<1>4. Awaited(calls')
  BY <1>1, <1>3, AwaitedPush
<1>5. calls'[Len(calls')] = x
  <2>1. Len(Append(calls, x)) = Len(calls) + 1 /\ Append(calls, x)[Len(calls) + 1] = x
    BY <1>3, SeqAppend
  <2> QED
    BY <1>1, <2>1
<1> QED
  BY <1>1, <1>2, <1>4, <1>5, GrowsNow

LEMMA GrowsPanics == ASSUME Grows, Panics PROVE Grows'
<1>1. control' = "panic" /\ calls' = calls /\ parser' = parser /\ input' = input
  BY DEF Panics
<1>2. Awaited(calls')
  BY <1>1 DEF Grows
<1> QED
  BY <1>1, <1>2, GrowsNow

LEMMA GrowsBody == ASSUME IInv, Kept, Grows, BodyStep PROVE Grows'
<1>1. BodyMoves /\ Running /\ Flows
  BY BodyStepMoves, BodyFlows DEF BodyMoves
<1>2. CASE \E a, r, mode, cur, s, count : Calls(a, r, mode, cur, s, count)
  BY <1>1, <1>2, GrowsCalls
<1>3. CASE \E a, cur, s, count : Continues(a, cur, s, count)
  BY <1>1, <1>3, GrowsContinues
<1>4. CASE \E result, cur, s, count : Returns(result, cur, s, count)
  BY <1>1, <1>4, GrowsReturns
<1>5. CASE Refers
  BY <1>1, <1>5, GrowsRefers
<1>6. CASE Panics
  BY <1>1, <1>6, GrowsPanics
<1> QED
  BY <1>1, <1>2, <1>3, <1>4, <1>5, <1>6 DEF BodyMoves

-----------------------------------------------------------------------------
(* So do the steps of the engine.                                          *)

(* An expression that called a rule waits where that rule began. *)
LEMMA GrowsLeave ==
  ASSUME IInv, Grows, Leaving, NEW result, NEW cur, NEW q, NEW count,
         Leave(result, cur, q, count), cur \in Nat, top.start <= cur
  PROVE  Grows'
<1> DEFINE n == Len(calls)
           p == Pop(calls)
<1>1. /\ calls' = p /\ cursor' = cur /\ control' = (IF n = 1 THEN "finish" ELSE "resume")
      /\ parser' = parser /\ input' = input
  BY DEF Leave, Effect
<1>2. control = "leave"
  BY DEF Leaving
<1>3. IsSeq(calls) /\ calls # <<>> /\ n \in Nat \ {0} /\ DOMAIN calls = 1 .. n
  BY <1>2, TopHas
<1>4. Awaited(calls')
  BY <1>1, <1>3, AwaitedPop DEF Grows
<1>5. Len(p) = n - 1 /\ \A i \in 1 .. n - 1 : p[i] = calls[i]
  BY <1>3, SeqPop
<1>6. top = calls[n]
  BY DEF top
<1> HIDE DEF p
<1>7. CASE n = 1
  <2>1. control' = "finish"
    BY <1>1, <1>7
  <2> QED
    BY <1>1, <1>4, <2>1, GrowsNow
<1>8. CASE n # 1
  <2>1. control' = "resume"
    BY <1>1, <1>8
  <2> HIDE DEF n
  <2> DEFINE b == calls[n - 1]
  <2>2. n \in DOMAIN calls /\ n > 1 /\ n - 1 \in 1 .. n - 1
    BY <1>3, <1>8
  <2>3. calls'[Len(calls')] = b
    BY <1>1, <1>5, <2>2
  <2>4. KindOf(b) = "Pratt" => Waits(b, top.start)
    BY <1>6, <2>2 DEF Grows, Awaited
  <2>5. top.start \in 0 .. cur
    <3>1. top.start \in Nat
      BY <1>2, TopStands
    <3> QED
      BY <3>1
  <2> HIDE DEF b
  <2> QED
    BY <1>1, <1>4, <2>1, <2>3, <2>4, <2>5, GrowsNow
<1> QED
  BY <1>7, <1>8

LEMMA GrowsLeaves ==
  ASSUME IInv, Grows,
         RuleSucceeds \/ RuleRollsBack \/ RulePassesFailureUp \/ RuleFails
  PROVE  Grows'
<1>1. control = "leave" /\ Leaving
  BY DEF RuleSucceeds, RuleRollsBack, RulePassesFailureUp, RuleFails, Recovering, Leaving
<1>2. /\ cursor \in Nat /\ top.start \in Nat /\ top.start <= cursor /\ top.start <= top.start
  BY <1>1, TopStands
<1>3. PICK result, cur, q, count : Leave(result, cur, q, count) /\ cur \in {cursor, top.start}
  BY DEF RuleSucceeds, RuleRollsBack, RulePassesFailureUp, RuleFails
<1> QED
  BY <1>1, <1>2, <1>3, GrowsLeave

LEMMA GrowsRecovers == ASSUME IInv, Grows, RuleRecovers PROVE Grows'
<1> DEFINE at     == performRecovery(cursor)
           token  == Lexeme(at).Token
           stays  == leftForAncestor(token)
           healed == topRule.isRecoveryBarrier /\ IsSyncToken(topRule, token)
           result == [ret EXCEPT !.ConsumeSyncToken = ~stays, !.Succeeded = healed,
                                 !.Node = healed \/ @]
           cur    == IF stays THEN at ELSE at + 1
           count  == IF healed THEN top.createdAt + 1 ELSE top.createdAt
<1>1. /\ Leaving /\ Recovering /\ Leave(result, cur, AfterRecovery, count) /\ control = "leave"
  BY DEF RuleRecovers, Recovering, Leaving
<1>2. /\ cursor \in Nat /\ top.start \in Nat /\ top.start <= cursor
      /\ at \in Nat /\ cursor <= at
  <2>1. at \in cursor .. Len(input)
    BY <1>1, TopStands, RecoveryAdvances DEF IInv
  <2>2. cursor \in Nat /\ Len(input) \in Nat /\ top.start \in Nat /\ top.start <= cursor
    BY <1>1, TopStands
  <2> HIDE DEF at
  <2> QED
    BY <2>1, <2>2
<1>3. cur \in Nat /\ top.start <= cur
  <2> HIDE DEF at, stays
  <2> QED
    BY <1>2
<1> HIDE DEF cur, count, result
<1> QED
  BY <1>1, <1>3, GrowsLeave

LEMMA GrowsLeavesReference == ASSUME IInv, Grows, LeaveReference PROVE Grows'
<1> DEFINE n == Len(calls)
           p == Pop(calls)
<1>1. /\ control = "leave" /\ ~top.envelope /\ calls' = p /\ control' = control
      /\ parser' = parser /\ input' = input
  BY DEF LeaveReference
<1>2. /\ IsSeq(calls) /\ calls # <<>> /\ n \in Nat \ {0} /\ n \in DOMAIN calls /\ top = calls[n]
  BY <1>1, TopHas DEF top
<1>3. n > 1 /\ KindOf(calls[n - 1]) = "Reference"
  BY <1>1, <1>2 DEF IInv, Shape
<1>4. Len(p) = n - 1 /\ \A i \in 1 .. n - 1 : p[i] = calls[i]
  BY <1>2, SeqPop
<1>5. Awaited(calls')
  BY <1>1, <1>2, AwaitedPop DEF Grows
<1> HIDE DEF p, n
<1>6. n - 1 \in 1 .. n - 1
  BY <1>2, <1>3
<1>7. calls'[Len(calls')] = calls[n - 1]
  BY <1>1, <1>4, <1>6
<1> QED
  BY <1>1, <1>3, <1>5, <1>7, GrowsNow

LEMMA GrowsEngine == ASSUME IInv, Grows, EngineStep PROVE Grows'
<1>1. CASE StartParse
  <2>1. Enter(<<>>, program, "Normal", cursor, errs, created)
    BY <1>1 DEF StartParse
  <2>2. IsSeq(<<>>) /\ Awaited(<<>>)
    BY NoSeq DEF Awaited
  <2> QED
    BY <2>1, <2>2, GrowsEnter
<1>2. CASE ContractPanic
  <2>1. control' = "panic" /\ calls' = calls /\ parser' = parser /\ input' = input
    BY <1>2 DEF ContractPanic
  <2>2. Awaited(calls')
    BY <2>1 DEF Grows
  <2> QED
    BY <2>1, <2>2, GrowsNow
<1>3. CASE FinishParse
  <2>1. control' = "done" /\ calls' = calls /\ parser' = parser /\ input' = input
    BY <1>3 DEF FinishParse
  <2>2. Awaited(calls')
    BY <2>1 DEF Grows
  <2> QED
    BY <2>1, <2>2, GrowsNow
<1> QED
  BY <1>1, <1>2, <1>3, GrowsLeavesReference, GrowsLeaves, GrowsRecovers DEF EngineStep

LEMMA InitGrows == Init => Grows
<1> SUFFICES ASSUME Init PROVE Grows
  OBVIOUS
<1>1. calls = <<>> /\ control = "idle"
  BY DEF Init
<1>2. Awaited(calls)
  BY <1>1, NoSeq DEF Awaited
<1> QED
  BY <1>1, <1>2 DEF Grows

LEMMA NextGrows == IInv /\ Kept /\ Grows /\ [Next]_vars => Grows'
<1> SUFFICES ASSUME IInv, Kept, Grows, [Next]_vars PROVE Grows'
  OBVIOUS
<1>1. CASE EngineStep
  BY <1>1, GrowsEngine
<1>2. CASE BodyStep
  BY <1>2, GrowsBody
<1>3. CASE UNCHANGED vars
  <2>1. /\ parser' = parser /\ input' = input /\ cursor' = cursor /\ calls' = calls
        /\ control' = control /\ ret' = ret
    BY <1>3 DEF vars
  <2>2. calls'[Len(calls')] = top /\ Awaited(calls')
    BY <2>1 DEF top, Grows
  <2>3. /\ control' = "begin" => top.nodes = {}
        /\ control' = "loop" /\ KindOf(top) = "Pratt" => Goes(top, cursor')
        /\ control' = "resume" /\ KindOf(top) = "Pratt" => \E e \in 0 .. cursor' : Waits(top, e)
        /\ control' = "leave" /\ KindOf(top) = "Pratt" /\ ret'.Succeeded => Ends(top, cursor')
    BY <2>1 DEF Grows
  <2> QED
    BY <2>1, <2>2, <2>3, GrowsNow
<1> QED
  BY <1>1, <1>2, <1>3 DEF Next, Stopped

-----------------------------------------------------------------------------
(* What an expression returns.                                             *)

LEMMA Returned ==
  ASSUME IInv, Grows, ReturnsExpression
  PROVE  /\ \E b : Grown(ops, Follow, top.start, top.nodes, <<>>, top.start, b, cursor)
         /\ Spans(top.nodes, top.start, cursor)
<1>1. KindOf(top) = "Pratt" /\ Rule[top.rule].ops = ops
  BY DEF ReturnsExpression, KindOf, topRule, ops
<1>2. Ends(top, cursor)
  BY <1>1 DEF Grows, ReturnsExpression
<1> DEFINE r == LastRun(top)
           p == Pop(top.runs)
<1>3. /\ AreRuns(top.runs) /\ Len(top.runs) = 1 /\ r.stage = "left"
      /\ Standing(ops, Follow, top.start, top.nodes, p, r, cursor)
  BY <1>1, <1>2 DEF Ends, Stands, Follow
<1>4. p = <<>>
  <2>1. IsSeq(p) /\ Len(p) = 1 - 1
    BY <1>3, SeqPop DEF AreRuns
  <2>2. Len(p) = 0
    BY <2>1
  <2> QED
    BY <2>1, <2>2, SeqHas
<1> HIDE DEF p, r
<1>5. /\ Grown(ops, Follow, top.start, top.nodes, <<>>, r.from, r.minBP, cursor)
      /\ Spans(top.nodes, r.from, cursor)
  BY <1>3, <1>4 DEF Standing
<1>6. r.from = top.start
  BY <1>5 DEF Grown, Chained
<1> QED
  BY <1>5, <1>6

LEMMA OperandSides ==
  \A o : (TakesLeft(o) <=> Left(ops, o)) /\ (TakesRight(o) <=> Right(ops, o))
  BY DEF TakesLeft, TakesRight, Left, Right

LEMMA TreeGrown == IInv /\ Grows => ExpressionsAreTrees
<1> SUFFICES ASSUME IInv, Grows, ReturnsExpression
             PROVE  IsTree(top.nodes, top.start, cursor)
  BY DEF ExpressionsAreTrees
<1> DEFINE ns == top.nodes
           s == top.start
           e == cursor
           owners(k) == {n \in ns : n.mid <= k /\ k < n.right}
<1>1. PICK b : Grown(ops, Follow, s, ns, <<>>, s, b, e)
  BY Returned
<1>2. Spans(ns, s, e)
  BY Returned
<1>3. /\ Disjoint(ns) /\ Covered(ns, <<>>, s, e) /\ s \in Nat /\ e \in Nat
      /\ \A n \in ns : Finished(ops, Follow, ns, n, s, e)
  BY <1>1 DEF Grown
<1> HIDE DEF ns, s, e
<1>4. ASSUME NEW k \in s .. e - 1 PROVE Cardinality(owners(k)) = 1
  <2>1. PICK n \in ns : Owns(n, k)
    <3>1. DOMAIN <<>> = {}
      BY NoSeq
    <3> QED
      BY <1>3, <3>1 DEF Covered
  <2>2. ASSUME NEW m \in ns, Owns(m, k) PROVE m = n
    <3>1. /\ n.mid \in Nat /\ n.right \in Nat /\ m.mid \in Nat /\ m.right \in Nat /\ k \in Int
      BY <1>3 DEF Finished
    <3>2. n.mid <= k /\ k < n.right /\ m.mid <= k /\ k < m.right
      BY <2>1, <2>2 DEF Owns
    <3>3. ~(n.right <= m.mid) /\ ~(m.right <= n.mid)
      BY <3>1, <3>2
    <3> QED
      BY <1>3, <2>1, <3>3 DEF Disjoint
  <2>3. owners(k) = {n}
    BY <2>1, <2>2 DEF Owns
  <2> QED
    BY <2>3, FS_Singleton
<1>5. ASSUME NEW n \in ns
      PROVE  /\ s <= n.from /\ n.to <= e
             /\ IF Left(ops, n.op) THEN Spans(ns, n.from, n.mid) ELSE n.from = n.mid
             /\ IF Right(ops, n.op) THEN Spans(ns, n.right, n.to) ELSE n.right = n.to
  <2>1. Finished(ops, Follow, ns, n, s, e)
    BY <1>3
  <2>2. /\ n.from \in Nat /\ n.mid \in Nat /\ n.right \in Nat /\ n.to \in Nat /\ s \in Nat
        /\ s <= n.from /\ n.from <= n.mid /\ n.mid <= n.right /\ n.right <= n.to /\ n.to <= e
    BY <1>3, <2>1 DEF Finished
  <2>3. IF Left(ops, n.op) THEN Spans(ns, n.from, n.mid) ELSE n.from = n.mid
    BY <2>1 DEF Finished, Fits, Left
  <2>4. IF Right(ops, n.op) THEN Spans(ns, n.right, n.to) ELSE n.right = n.to
    BY <2>1 DEF Finished
  <2> QED
    BY <2>2, <2>3, <2>4
<1> QED
  BY <1>2, <1>4, <1>5, OperandSides DEF IsTree, Spans, ns, s, e

LEMMA LeftGrown == IInv /\ Grows => LeftOperandsBindTighter
<1> SUFFICES ASSUME IInv, Grows, ReturnsExpression, NEW n \in top.nodes, NEW m \in top.nodes,
                    Left(ops, n.op), Right(ops, m.op), m.to = n.mid
             PROVE  ops[m.op].rightBP > ops[n.op].leftBP
  BY OperandSides DEF LeftOperandsBindTighter
<1>1. PICK b : Grown(ops, Follow, top.start, top.nodes, <<>>, top.start, b, cursor)
  BY Returned
<1>2. /\ Finished(ops, Follow, top.nodes, n, top.start, cursor)
      /\ Finished(ops, Follow, top.nodes, m, top.start, cursor)
  BY <1>1 DEF Grown
<1>3. /\ n.op \in DOMAIN ops /\ n.op \in Follow[n.mid] /\ m.op \in DOMAIN ops
      /\ \A i \in Follow[m.to] : ~(ops[i].leftBP >= ops[m.op].rightBP)
  BY <1>2 DEF Finished, Fits, Left, Right
<1>4. ~(ops[n.op].leftBP >= ops[m.op].rightBP)
  BY <1>3
<1>5. ops[n.op].leftBP \in Int /\ ops[m.op].rightBP \in Int
  <2>1. control = "leave" /\ topRule.kind = "Pratt"
    BY DEF ReturnsExpression
  <2>2. top.rule \in DOMAIN parser.rules /\ parser \in Parsers
    BY <2>1, TopHas DEF IInv, TypeOK, Rule
  <2> QED
    BY <1>3, <2>1, <2>2, RulesAssumption DEF Rule, topRule, ops
<1> QED
  BY <1>4, <1>5

LEMMA RightGrown == IInv /\ Grows => RightOperandsBindTighter
<1> SUFFICES ASSUME IInv, Grows, ReturnsExpression,
                    \A n \in top.nodes : n.mid < n.right \/ (n.op # 0 /\ ops[n.op].fix = "implicit"),
                    NEW n \in top.nodes, NEW m \in top.nodes,
                    Right(ops, n.op), Left(ops, m.op), m.from = n.right, m.to <= n.to
             PROVE  ops[m.op].leftBP >= ops[n.op].rightBP
  BY OperandSides DEF RightOperandsBindTighter
<1>1. PICK b : Grown(ops, Follow, top.start, top.nodes, <<>>, top.start, b, cursor)
  BY Returned
<1>2. Solids(ops, top.nodes, <<>>)
  BY NoSeq DEF Solids, Solid
<1>3. Nested(ops, top.nodes, <<>>, top.start, b)
  BY <1>1, <1>2 DEF Grown
<1>4. Reaches(ops, m, n.right, ops[n.op].rightBP)
  BY <1>3 DEF Nested
<1> QED
  BY <1>4 DEF Reaches

(* For every expression rule and input, whatever its operators are: what   *)
(* is returned is the one tree over the lexemes that were consumed.  The   *)
(* calls of runPrattExpression follow each other in every way that         *)
(* prefixes, postfixes, implicit operators and rules for operators allow,  *)
(* and no operand gets lost between them (rule/pratt.go:520-808).          *)
THEOREM ExpressionsGrowTrees == Spec => []ExpressionsAreTrees
  BY TreeGrown, InitKept, NextKept, InitGrows, NextGrows, InvAlways, PTL DEF Spec

(* Whatever stands at the right edge of a left operand binds its own right *)
(* operand more tightly: every loop there had seen that operator, through  *)
(* the same triggers, and left it to a run below (rule/pratt.go:618-808).  *)
THEOREM LeftOperandsBind == Spec => []LeftOperandsBindTighter
  BY LeftGrown, InitKept, NextKept, InitGrows, NextGrows, InvAlways, PTL DEF Spec

(* Whatever stands at the left edge of a right operand reaches the right   *)
(* binding power before it, although only the innermost run compared the   *)
(* two: the minimum of every run is the power of the operator before it    *)
(* (rule/pratt.go:520-808).                                                *)
THEOREM RightOperandsBind == Spec => []RightOperandsBindTighter
  BY RightGrown, InitKept, NextKept, InitGrows, NextGrows, InvAlways, PTL DEF Spec
=============================================================================
