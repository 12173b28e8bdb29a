----------------------------- MODULE PaymentProofs -----------------------------
(***************************************************************************)
(* Theorems about the payments and the periods of an organization, for any *)
(* number of payments, collections, requests and grants.                   *)
(***************************************************************************)
EXTENDS Payments, FiniteSetTheorems, WellFoundedInduction, TLAPS

----------------------------------------------------------------------------
(* Periods *)

\* The periods P have the numbers 1, 2, ... and each source has one.
Numbered(P) ==
  /\ P \subseteq PeriodDoc /\ IsFiniteSet(P)
  /\ \A x \in P : x.seq \in 1 .. Cardinality(P)
  /\ \A i \in 1 .. Cardinality(P) : \E x \in P : x.seq = i
  /\ \A x, y \in P : x.seq = y.seq \/ x.source = y.source => x = y

\* Each one follows those before it, without a break unless it was granted
\* when they were over.
Following(P, t) ==
  /\ \A x \in P : x.from < x.to
  /\ \A x, y \in P : x.seq < y.seq => x.to <= y.from
  /\ \A x, y \in P : y.seq = x.seq + 1 => y.from = x.to \/ y.from <= t
  /\ \A x \in P : x.seq = 1 => x.from <= t

LEMMA MaxIs ==
  ASSUME NEW S, NEW m \in S, S \subseteq Nat, \A y \in S : y <= m
  PROVE  Max(S) = m
<1>1. \A y \in S : m >= y
  OBVIOUS
<1>2. ASSUME NEW x \in S, \A y \in S : x >= y
      PROVE  x = m
  BY <1>2
<1> QED
  BY <1>1, <1>2 DEF Max

LEMMA LastSeqIs ==
  ASSUME NEW d, Numbered(d.periods)
  PROVE  Cardinality(d.periods) \in Nat /\ LastSeq(d) = Cardinality(d.periods)
<1> DEFINE n == Cardinality(d.periods)
           S == {0} \cup {x.seq : x \in d.periods}
<1>1. n \in Nat
  BY FS_CardinalityType DEF Numbered
<1>2. S \subseteq Nat /\ \A y \in S : y <= n
  BY <1>1 DEF Numbered
<1>3. n \in S
  BY <1>1 DEF Numbered
<1>4. Max(S) = n
  BY <1>2, <1>3, MaxIs
<1> QED
  BY <1>1, <1>4 DEF LastSeq

\* The end of the last period, 0 before the first.
LEMMA LatestEndIs ==
  ASSUME NEW d, Numbered(d.periods), NEW t, Following(d.periods, t)
  PROVE  /\ LatestEnd(d) \in Nat
         /\ \A y \in d.periods : y.to <= LatestEnd(d)
         /\ d.periods = {} => LatestEnd(d) = 0
         /\ d.periods # {} => \E x \in d.periods : /\ x.seq = Cardinality(d.periods)
                                                   /\ LatestEnd(d) = x.to
<1> DEFINE S == {0} \cup {x.to : x \in d.periods}
<1>1. \A x \in d.periods : x.seq \in Nat /\ x.from \in Nat /\ x.to \in Nat
  BY DEF Numbered, PeriodDoc
<1>2. S \subseteq Nat
  BY <1>1
<1>3. CASE d.periods = {}
  <2>1. Max(S) = 0
    BY <1>2, <1>3, MaxIs
  <2> QED
    BY <1>3, <2>1 DEF LatestEnd
<1>4. CASE d.periods # {}
  <2>1. Cardinality(d.periods) \in Nat
    BY FS_CardinalityType DEF Numbered
  <2>2. PICK x \in d.periods : x.seq = Cardinality(d.periods)
    BY <1>4, <2>1 DEF Numbered
  <2>3. \A y \in d.periods : y.to <= x.to
    <3>1. ASSUME NEW y \in d.periods
          PROVE  y.to <= x.to
      <4>1. CASE y.seq = x.seq
        BY <1>1, <4>1 DEF Numbered
      <4>2. CASE y.seq < x.seq
        <5>1. y.to <= x.from /\ x.from < x.to
          BY <4>2 DEF Following
        <5> QED
          BY <1>1, <5>1
      <4> QED
        BY <1>1, <2>1, <2>2, <4>1, <4>2 DEF Numbered
    <3> QED
      BY <3>1
  <2>4. Max(S) = x.to
    <3>1. x.to \in S /\ \A y \in S : y <= x.to
      BY <1>1, <2>3
    <3> QED
      BY <1>2, <3>1, MaxIs
  <2>5. LatestEnd(d) = x.to
    BY <2>4 DEF LatestEnd
  <2> QED
    BY <1>1, <1>4, <2>2, <2>3, <2>5
<1> QED
  BY <1>3, <1>4

\* The period that a grant adds to those of d.
NextPeriod(d, source, length, at) ==
  [seq |-> LastSeq(d) + 1, from |-> StartsAt(d, at), to |-> StartsAt(d, at) + length,
   source |-> source]

Source == Payment \cup Manual \cup {Trial}

LEMMA StartIs ==
  ASSUME NEW d, Numbered(d.periods), NEW t \in Nat, Following(d.periods, t),
         NEW source \in Source, NEW length \in Length, NEW at \in 0 .. t,
         NEW x, x = NextPeriod(d, source, length, at)
  PROVE  /\ x \in PeriodDoc /\ x.source = source
         /\ x.seq = Cardinality(d.periods) + 1
         /\ x.to = x.from + length /\ x.from < x.to
         /\ \A y \in d.periods : y.to <= x.from
         /\ x.from = LatestEnd(d) \/ x.from <= t
<1>1. LatestEnd(d) \in Nat /\ \A y \in d.periods : y.to <= LatestEnd(d)
  BY LatestEndIs
<1>2. LastSeq(d) = Cardinality(d.periods) /\ Cardinality(d.periods) \in Nat
  BY LastSeqIs
<1>3. length \in Nat /\ length > 0
  BY PaymentConstants
<1>4. PICK start : start = StartsAt(d, at)
  OBVIOUS
<1>5. /\ start \in Nat /\ LatestEnd(d) <= start
      /\ start = LatestEnd(d) \/ start <= t
  BY <1>1, <1>4 DEF StartsAt
<1>6. \A y \in d.periods : y.to \in Nat
  BY DEF Numbered, PeriodDoc
<1>7. \A y \in d.periods : y.to <= start
  BY <1>1, <1>5, <1>6
<1>8. x = [seq |-> Cardinality(d.periods) + 1, from |-> start, to |-> start + length,
           source |-> source]
  BY <1>2, <1>4 DEF NextPeriod
<1>9. Cardinality(d.periods) + 1 \in Nat \ {0} /\ start + length \in Nat
  BY <1>2, <1>3, <1>5
<1>10. x \in PeriodDoc
  BY <1>5, <1>8, <1>9 DEF PeriodDoc, Source
<1> QED
  BY <1>3, <1>5, <1>7, <1>8, <1>10

\* The chain goes on with a period granted when t is not over.
LEMMA ChainGrows ==
  ASSUME NEW d, Numbered(d.periods), NEW t \in Nat, Following(d.periods, t),
         NEW source \in Source, Granted(d, source) = {},
         NEW length \in Length, NEW at \in 0 .. t,
         NEW x, x = NextPeriod(d, source, length, at)
  PROVE  /\ x \notin d.periods
         /\ Cardinality(d.periods \cup {x}) = Cardinality(d.periods) + 1
         /\ Numbered(d.periods \cup {x}) /\ Following(d.periods \cup {x}, t)
<1> DEFINE n == Cardinality(d.periods)
           P == d.periods \cup {x}
<1>1. /\ x \in PeriodDoc /\ x.source = source /\ x.seq = n + 1 /\ x.from < x.to
      /\ \A y \in d.periods : y.to <= x.from
      /\ x.from = LatestEnd(d) \/ x.from <= t
  BY StartIs
<1>2. n \in Nat /\ \A y \in d.periods : y \in PeriodDoc /\ y.seq \in 1 .. n
  BY FS_CardinalityType DEF Numbered
<1>3. x \notin d.periods
  BY <1>1, <1>2
<1>4. IsFiniteSet(P) /\ Cardinality(P) = n + 1
  <2>1. IsFiniteSet(d.periods)
    BY Zenon DEF Numbered
  <2>2. IsFiniteSet(P) /\ Cardinality(P) = Cardinality(d.periods) + 1
    BY <1>3, <2>1, FS_AddElement, Zenon
  <2> QED
    BY <2>2
<1>5. Numbered(P)
  <2>1. P \subseteq PeriodDoc
    BY <1>1, <1>2
  <2>2. \A y \in P : y.seq \in 1 .. n + 1
    BY <1>1, <1>2
  <2>3. \A i \in 1 .. n + 1 : \E y \in P : y.seq = i
    <3>1. ASSUME NEW i \in 1 .. n + 1
          PROVE  \E y \in P : y.seq = i
      <4>1. CASE i = n + 1
        BY <1>1, <4>1
      <4>2. CASE i \in 1 .. n
        BY <4>2 DEF Numbered
      <4> QED
        BY <1>2, <4>1, <4>2
    <3> QED
      BY <3>1
  <2>4. \A y, z \in P : y.seq = z.seq \/ y.source = z.source => y = z
    <3>1. \A y \in d.periods : y.seq # x.seq /\ y.source # x.source
      BY <1>1, <1>2 DEF Granted
    <3> QED
      BY <3>1 DEF Numbered
  <2> QED
    BY <1>4, <2>1, <2>2, <2>3, <2>4 DEF Numbered
<1>6. Following(P, t)
  <2>1. \A y \in P : y.from < y.to
    BY <1>1 DEF Following
  <2>2. \A y, z \in P : y.seq < z.seq => y.to <= z.from
    BY <1>1, <1>2 DEF Following
  <2>3. \A y, z \in P : z.seq = y.seq + 1 => z.from = y.to \/ z.from <= t
    <3>1. ASSUME NEW y \in P, NEW z \in P, z.seq = y.seq + 1
          PROVE  z.from = y.to \/ z.from <= t
      <4>1. CASE y \in d.periods /\ z \in d.periods
        BY <3>1, <4>1 DEF Following
      <4>2. CASE z = x
        <5>1. y \in d.periods /\ y.seq = n
          BY <1>1, <1>2, <3>1, <4>2
        <5>2. PICK last \in d.periods : last.seq = n /\ LatestEnd(d) = last.to
          BY <5>1, LatestEndIs
        <5>3. y = last
          BY <5>1, <5>2 DEF Numbered
        <5> QED
          BY <1>1, <4>2, <5>2, <5>3
      <4>3. ~ (y = x /\ z \in d.periods)
        BY <1>1, <1>2, <3>1
      <4> QED
        BY <3>1, <4>1, <4>2, <4>3
    <3> QED
      BY <3>1
  <2>4. \A y \in P : y.seq = 1 => y.from <= t
    <3>1. ASSUME x.seq = 1
          PROVE  x.from <= t
      <4>1. d.periods = {}
        BY <1>1, <1>2, <3>1
      <4> QED
        BY <1>1, <4>1, LatestEndIs
    <3> QED
      BY <3>1 DEF Following
  <2> QED
    BY <2>1, <2>2, <2>3, <2>4 DEF Following
<1> QED
  BY <1>3, <1>4, <1>5, <1>6

LEMMA FollowingLater ==
  ASSUME NEW P \in SUBSET PeriodDoc, NEW t \in Nat, Following(P, t), NEW u \in Nat, t <= u
  PROVE  Following(P, u)
<1>1. \A x \in P : x.from \in Nat
  BY DEF PeriodDoc
<1> QED
  BY <1>1 DEF Following

----------------------------------------------------------------------------
(* Documents *)

LEMMA DocumentFields ==
  ASSUME NEW d \in Documents
  PROVE  /\ d.pay \in [Payment -> PaymentDoc \cup {Absent}]
         /\ d.periods \in SUBSET PeriodDoc /\ d.records \in SUBSET Record
         /\ d = [pay |-> d.pay, periods |-> d.periods, records |-> d.records]
         /\ \A p \in Payment : Exists(d, p) <=> d.pay[p] \in PaymentDoc
<1>1. Absent \notin PaymentDoc
  BY PaymentSentinels
<1> QED
  BY <1>1 DEF Documents, Exists

\* The documents d in which the payment p is doc.
With(d, p, doc) == [d EXCEPT !.pay[p] = doc]

\* In n the payment p is doc and there are the periods X and the records R
\* more; nothing else differs from d.
Change(d, n, p, doc, X, R) ==
  /\ n \in Documents
  /\ n.pay[p] = doc /\ \A q \in Payment \ {p} : n.pay[q] = d.pay[q]
  /\ n.periods = d.periods \cup X /\ n.records = d.records \cup R

LEMMA WithChange ==
  ASSUME NEW d \in Documents, NEW p \in Payment, NEW doc \in PaymentDoc,
         NEW n, n = With(d, p, doc)
  PROVE  Change(d, n, p, doc, {}, {})
<1>1. d.pay \in [Payment -> PaymentDoc \cup {Absent}]
  BY DocumentFields
<1>2. n = [pay |-> [d.pay EXCEPT ![p] = doc], periods |-> d.periods, records |-> d.records]
  BY DocumentFields DEF With
<1>3. n.pay = [d.pay EXCEPT ![p] = doc] /\ n.periods = d.periods /\ n.records = d.records
  BY <1>2
<1>4. n.pay \in [Payment -> PaymentDoc \cup {Absent}]
  BY <1>1, <1>3
<1>5. n \in Documents
  BY <1>2, <1>4, <1>3, DocumentFields DEF Documents
<1> QED
  BY <1>1, <1>3, <1>5 DEF Change

\* What is kept of a payment, whatever becomes of it.
Becomes(b, a, status, ref) ==
  /\ a \in PaymentDoc
  /\ a.key = b.key /\ a.request = b.request
  /\ a.status = status /\ a.ref = ref

LEMMA PendingChange ==
  ASSUME NEW d \in Documents, NEW p \in Payment, Exists(d, p), NEW ref \in Ref,
         NEW n, n = ToPending(d, p, ref)
  PROVE  \E a : /\ Change(d, n, p, a, {}, {})
                /\ Becomes(d.pay[p], a, "pending", ref)
                /\ a.open = d.pay[p].open /\ a.period = d.pay[p].period
<1>1. PICK b \in PaymentDoc : b = d.pay[p]
  BY DocumentFields
<1>2. PICK a : a = [b EXCEPT !.status = "pending", !.ref = ref]
  OBVIOUS
<1>3. n = With(d, p, a)
  BY <1>1, <1>2, DocumentFields DEF ToPending, With
<1>4. /\ Becomes(b, a, "pending", ref)
      /\ a.open = b.open /\ a.period = b.period
  BY <1>2 DEF Becomes, PaymentDoc, Status, Finalizable, OpenStatus
<1>5. Change(d, n, p, a, {}, {})
  BY <1>3, <1>4, WithChange DEF Becomes
<1> QED
  BY <1>1, <1>4, <1>5

LEMMA FailedChange ==
  ASSUME NEW d \in Documents, NEW p \in Payment, Exists(d, p), NEW ref \in Ref,
         NEW n, n = ToFailed(d, p, ref)
  PROVE  \E a : /\ Change(d, n, p, a, {}, {})
                /\ Becomes(d.pay[p], a, "failed", ref)
                /\ ~ a.open /\ a.period = d.pay[p].period
<1>1. PICK b \in PaymentDoc : b = d.pay[p]
  BY DocumentFields
<1>2. PICK a : a = [b EXCEPT !.status = "failed", !.open = FALSE, !.ref = ref]
  OBVIOUS
<1>3. n = With(d, p, a)
  BY <1>1, <1>2, DocumentFields DEF ToFailed, With
<1>4. /\ Becomes(b, a, "failed", ref)
      /\ ~ a.open /\ a.period = b.period
  BY <1>2 DEF Becomes, PaymentDoc, Status, Finalizable, OpenStatus
<1>5. Change(d, n, p, a, {}, {})
  BY <1>3, <1>4, WithChange DEF Becomes
<1> QED
  BY <1>1, <1>4, <1>5

LEMMA StatusChange ==
  ASSUME NEW d \in Documents, NEW p \in Payment, Exists(d, p),
         NEW status \in Status, NEW n, n = ToStatus(d, p, status)
  PROVE  \E a : /\ Change(d, n, p, a, {}, {})
                /\ Becomes(d.pay[p], a, status, d.pay[p].ref)
                /\ a.open = d.pay[p].open /\ a.period = d.pay[p].period
<1>1. PICK b \in PaymentDoc : b = d.pay[p]
  BY DocumentFields
<1>2. PICK a : a = [b EXCEPT !.status = status]
  OBVIOUS
<1>3. n = With(d, p, a)
  BY <1>1, <1>2, DocumentFields DEF ToStatus, With
<1>4. /\ Becomes(b, a, status, b.ref)
      /\ a.open = b.open /\ a.period = b.period
  BY <1>2 DEF Becomes, PaymentDoc
<1>5. Change(d, n, p, a, {}, {})
  BY <1>3, <1>4, WithChange DEF Becomes
<1> QED
  BY <1>1, <1>4, <1>5

\* An initiation that is refused closes its payment.
LEMMA ClosedChange ==
  ASSUME NEW d \in Documents, NEW p \in Payment, Exists(d, p),
         NEW n, n = [ToStatus(d, p, "failed") EXCEPT !.pay[p].open = FALSE]
  PROVE  \E a : /\ Change(d, n, p, a, {}, {})
                /\ Becomes(d.pay[p], a, "failed", d.pay[p].ref)
                /\ ~ a.open /\ a.period = d.pay[p].period
<1>1. PICK b \in PaymentDoc : b = d.pay[p]
  BY DocumentFields
<1>2. PICK a : a = [b EXCEPT !.status = "failed", !.open = FALSE]
  OBVIOUS
<1>3. n = With(d, p, a)
  BY <1>1, <1>2, DocumentFields DEF ToStatus, With
<1>4. /\ Becomes(b, a, "failed", b.ref)
      /\ ~ a.open /\ a.period = b.period
  BY <1>2 DEF Becomes, PaymentDoc, Status, Finalizable, OpenStatus
<1>5. Change(d, n, p, a, {}, {})
  BY <1>3, <1>4, WithChange DEF Becomes
<1> QED
  BY <1>1, <1>4, <1>5

LEMMA NewChange ==
  ASSUME NEW d \in Documents, NEW p \in Payment, NEW k \in Key, NEW q \in Request,
         NEW n, n = NewPayment(d, p, k, q)
  PROVE  \E a \in PaymentDoc :
           /\ Change(d, n, p, a, {}, {}) /\ a.request = q
           /\ a.status = "initiating" /\ a.open /\ a.ref = Null /\ a.period = 0
<1>1. PICK open \in BOOLEAN : open = TRUE
  OBVIOUS
<1>2. PICK a : a = [key |-> k, request |-> q, ref |-> Null, status |-> "initiating",
                    open |-> open, period |-> 0]
  OBVIOUS
<1>3. a \in PaymentDoc
  BY <1>2 DEF PaymentDoc, Status, Finalizable, OpenStatus
<1>4. n = With(d, p, a)
  BY <1>1, <1>2 DEF NewPayment, With
<1>5. Change(d, n, p, a, {}, {})
  BY <1>3, <1>4, WithChange
<1> QED
  BY <1>1, <1>2, <1>3, <1>5

LEMMA GrantChange ==
  ASSUME NEW d \in Documents, Numbered(d.periods), NEW t \in Nat, Following(d.periods, t),
         NEW source \in Source, Granted(d, source) = {},
         NEW length \in Length, NEW at \in 0 .. t,
         NEW x, x = NextPeriod(d, source, length, at),
         NEW n, n = Grant(d, source, length, at)
  PROVE  /\ n \in Documents /\ n.pay = d.pay /\ n.records = d.records
         /\ n.periods = d.periods \cup {x} /\ x \notin d.periods
         /\ n = [d EXCEPT !.periods = @ \cup {x}]
<1>1. n = [d EXCEPT !.periods = @ \cup {x}]
  BY DEF Grant, NextPeriod
<1>2. n = [pay |-> d.pay, periods |-> d.periods \cup {x}, records |-> d.records]
  BY <1>1, DocumentFields
<1>3. x \in PeriodDoc
  BY StartIs
<1>4. d.periods \cup {x} \in SUBSET PeriodDoc
  BY <1>3, DocumentFields
<1>5. n \in Documents
  BY <1>2, <1>4, DocumentFields DEF Documents
<1> QED
  BY <1>1, <1>2, <1>5, ChainGrows

LEMMA SucceedChange ==
  ASSUME NEW d \in Documents, Numbered(d.periods), NEW t \in Nat, Following(d.periods, t),
         NEW p \in Payment, Exists(d, p), Granted(d, p) = {},
         NEW ref \in Ref, NEW at \in 0 .. t,
         NEW x, x = NextPeriod(d, p, d.pay[p].request.length, at),
         NEW n, n = Succeed(d, p, ref, at)
  PROVE  \E a : /\ Change(d, n, p, a, {x}, {})
                /\ Becomes(d.pay[p], a, "succeeded", ref)
                /\ ~ a.open /\ a.period = x.seq
                /\ x \notin d.periods
<1>1. PICK b \in PaymentDoc : b = d.pay[p]
  BY DocumentFields
<1>2. b.request.length \in Length /\ p \in Source
  BY DEF PaymentDoc, Request, Source
<1>3. PICK g : g = Grant(d, p, d.pay[p].request.length, at)
  OBVIOUS
<1>4. /\ g \in Documents /\ g.pay = d.pay /\ g.records = d.records
      /\ g.periods = d.periods \cup {x} /\ x \notin d.periods
  BY <1>1, <1>2, <1>3, GrantChange
<1>5. x.source = p /\ x.seq \in Nat
  <2>1. x \in PeriodDoc /\ x.source = p
    BY <1>1, <1>2, StartIs
  <2> QED
    BY <2>1 DEF PeriodDoc
<1>6. Granted(g, p) = {x}
  BY <1>4, <1>5 DEF Granted
<1>7. PICK a : a = [b EXCEPT !.status = "succeeded", !.open = FALSE, !.ref = ref,
                             !.period = x.seq]
  OBVIOUS
<1>8. n = With(g, p, a)
  <2>1. (CHOOSE y \in Granted(g, p) : TRUE).seq = x.seq
    BY <1>6
  <2> QED
    BY <1>1, <1>3, <1>4, <1>7, <2>1 DEF Succeed, With
<1>9. /\ Becomes(b, a, "succeeded", ref)
      /\ ~ a.open /\ a.period = x.seq
  BY <1>5, <1>7 DEF Becomes, PaymentDoc, Status
<1>10. Change(g, n, p, a, {}, {})
  BY <1>4, <1>8, <1>9, WithChange DEF Becomes
<1>11. Change(d, n, p, a, {x}, {})
  BY <1>4, <1>10 DEF Change
<1> QED
  BY <1>1, <1>4, <1>9, <1>11

\* With the record of the operator that made the change.
LEMMA NotedChange ==
  ASSUME NEW d \in Documents, NEW p, NEW a, NEW X, NEW rec \in Record,
         NEW m, Change(d, m, p, a, X, {}),
         NEW n, n = [m EXCEPT !.records = @ \cup {rec}]
  PROVE  Change(d, n, p, a, X, {rec})
<1>1. m \in Documents /\ m.records = d.records
  BY DEF Change
<1>2. n = [pay |-> m.pay, periods |-> m.periods, records |-> m.records \cup {rec}]
  <2>1. m = [pay |-> m.pay, periods |-> m.periods, records |-> m.records]
    BY <1>1, DocumentFields
  <2> QED
    BY <2>1
<1>3. m.records \cup {rec} \in SUBSET Record
  BY <1>1, DocumentFields
<1>4. n \in Documents
  BY <1>1, <1>2, <1>3, DocumentFields DEF Documents
<1> QED
  BY <1>2, <1>4 DEF Change

----------------------------------------------------------------------------
(* The first invariant *)

\* The stages at which a task works on a payment.
Paying == {"initiate", "record", "recheck", "review", "fetch", "apply", "answer",
           "finalize", "consult", "settle"}

\* What the stage of a task needs of its work.
Fits(stage, w) ==
  /\ stage \in {"check", "reserve"} => w.key \in Key /\ w.request \in Request
  /\ stage \in Paying => w.pay \in Payment
  /\ stage = "record" => \/ w.outcome \in {"refused", "uncertain"}
                         \/ w.outcome = "accepted" /\ w.ref \in Ref
  /\ stage = "recheck" => w.ref \in Ref
  /\ stage \in {"apply", "finalize", "settle"} => w.answer \in Answer
  /\ stage = "answer" => w.notice \in Ref
  /\ stage \in {"consult", "settle"} =>
       /\ w.ref \in Ref /\ w.op \in Operation
       /\ w.seen \in PaymentDoc /\ w.seen.status \in {"uncertain", "review"}
       /\ w.seen.ref \in {Null, w.ref}
  /\ stage = "grant" => w.source \in Manual /\ w.length \in Length
  /\ stage = "finalize" => w.answer.state = "succeeded"
  /\ stage = "settle" => /\ Concordant(w.pay, w.answer, w.ref)
                         /\ w.answer.state = "pending" => w.seen.open

\* What an answer says is so at the provider P: a collection keeps its
\* merchant reference, and one that was collected does not change.
Heard(a, P) ==
  /\ P[a.ref] # Absent /\ P[a.ref].merchant = a.merchant
  /\ a.state = "succeeded" => P[a.ref].state = "succeeded" /\ P[a.ref].same = a.same

Told(stage, w, P) == stage \in {"apply", "finalize", "settle"} => Heard(w.answer, P)

\* What it needs of the documents.
Names(stage, w, d) == stage \in Paying => Exists(d, w.pay)

\* A snapshot s of what has become d: only the payments of `written` were
\* written since, payments stay, and what was granted or recorded too.
Reads(s, d, written) ==
  /\ s.periods \subseteq d.periods /\ s.records \subseteq d.records
  /\ \A p \in Payment : Exists(s, p) => Exists(d, p)
  /\ \A p \in Payment \ written : s.pay[p] = d.pay[p]

\* Periods in a chain, of which only a paid payment has one.
Bought(d, t) ==
  /\ Numbered(d.periods) /\ Following(d.periods, t)
  /\ \A p \in Payment : Granted(d, p) # {} => Exists(d, p) /\ d.pay[p].status = "succeeded"

TaskOK(r) ==
  /\ task[r] = Absent <=> pc[r] = "idle"
  /\ Fits(pc[r], task[r]) /\ Names(pc[r], task[r], db) /\ Told(pc[r], task[r], prov)

SnapOK(r) ==
  snap[r] # Absent =>
    /\ pc[r] \in TxStage /\ snap[r].at <= now
    /\ Bought(snap[r].db, now) /\ Reads(snap[r].db, db, stale[r])
    /\ Names(pc[r], task[r], snap[r].db)

Base ==
  /\ db \in Documents /\ Bought(db, now)
  /\ prov \in [Ref -> Collection \cup {Absent}]
  /\ notices \subseteq Ref
  /\ now \in 0 .. MaxNow
  /\ pc \in [Task -> Stage]
  /\ task \in [Task -> Work \cup {Absent}]
  /\ snap \in [Task -> Snapshot \cup {Absent}]
  /\ stale \in [Task -> SUBSET Payment]
  /\ \A r \in Task : TaskOK(r) /\ SnapOK(r)

LEMMA BaseIsTyped == Base => TypeOK
  BY DEF Base, TypeOK, TaskOK, SnapOK

LEMMA ReadsSelf ==
  ASSUME NEW d, NEW written
  PROVE  Reads(d, d, written)
  BY DEF Reads

LEMMA ReadsMore ==
  ASSUME NEW c, NEW d, NEW e, NEW former, NEW written,
         Reads(c, d, former), Reads(d, e, written)
  PROVE  Reads(c, e, former \cup written)
  BY DEF Reads

----------------------------------------------------------------------------
(* What a step may do to the documents *)

\* A task has the reference c for the payment p, as the provider gave it.
Holds(q, p, c) ==
  /\ task[q].pay = p /\ task[q].ref = c
  /\ \/ pc[q] = "record" /\ task[q].outcome = "accepted"
     \/ pc[q] = "recheck"

\* The reference is that of a collection made for p, or answered for it.
Mine(p, c) ==
  \/ prov[c] # Absent /\ prov[c].merchant = p
  \/ \E q \in Task : Holds(q, p, c)

\* The payment gets no reference but one that no other has, once.
Links(p, ref) ==
  \/ ref = db.pay[p].ref
  \/ db.pay[p].ref = Null /\ ref \in Ref /\ ~ RefTaken(db, p, ref) /\ Mine(p, ref)

\* The status and the open state that a write may leave in a of b.
Turns(b, a) ==
  \/ a.status = "pending" /\ b.status \in {"initiating", "uncertain"} /\ a.open = b.open
  \/ a.status = "failed" /\ b.status \in OpenStatus /\ ~ a.open
  \/ a.status = "uncertain" /\ b.status = "initiating" /\ a.open = b.open
  \/ a.status = "review" /\ b.status \in Finalizable /\ a.open = b.open /\ a.ref = b.ref

\* An operator settles a payment that waits for it, with a record, as the
\* provider answered to what was seen of it.
Settles(p, b, a, R) ==
  /\ \E q \in Task : /\ pc[q] = "settle" /\ task[q].pay = p
                     /\ task[q].seen.status = b.status
                     /\ task[q].answer.state # "succeeded"
                     /\ ~ RefTaken(db, p, task[q].ref)
  /\ b.status \in {"uncertain", "review"}
  /\ a.status \in {"pending", "failed"}
  /\ a.status = "pending" => b.open /\ a.open
  /\ a.status = "failed" => ~ a.open
  /\ \E rec \in R \ db.records : rec.pay = p

Opens(p) ==
  /\ ~ Exists(db, p) /\ OpenOnes(db) = {}
  /\ \E a \in PaymentDoc :
       /\ Change(db, db', p, a, {}, {})
       /\ a.status = "initiating" /\ a.open /\ a.ref = Null /\ a.period = 0

\* The task that rewrites p, to which alone it leaves a review.
Writes(p, a) ==
  \E q \in Task : /\ pc[q] \in {"record", "review", "apply", "settle"}
                  /\ task[q].pay = p
                  /\ a.status = "review" => pc[q] = "review"

Rewrites(p) ==
  /\ Exists(db, p)
  /\ \E a, R :
       /\ Writes(p, a)
       /\ Change(db, db', p, a, {}, R)
       /\ Becomes(db.pay[p], a, a.status, a.ref) /\ a.period = db.pay[p].period
       /\ Links(p, a.ref)
       /\ Turns(db.pay[p], a) \/ Settles(p, db.pay[p], a, R)

\* At the provider P the amount of p is collected under this reference.
Collected(P, p, ref) ==
  /\ ref \in Ref /\ P[ref] # Absent
  /\ P[ref].merchant = p /\ P[ref].same /\ P[ref].state = "succeeded"

Buys(p) ==
  /\ Exists(db, p) /\ Granted(db, p) = {}
  /\ \E at \in 0 .. now : \E a, x, R :
       /\ Change(db, db', p, a, {x}, R)
       /\ x = NextPeriod(db, p, db.pay[p].request.length, at)
       /\ Becomes(db.pay[p], a, "succeeded", a.ref) /\ ~ a.open /\ a.period = x.seq
       /\ Links(p, a.ref) /\ Collected(prov, p, a.ref)
       /\ \/ db.pay[p].status \in Finalizable
          \/ db.pay[p].status \in {"uncertain", "review"} /\ \E rec \in R \ db.records : rec.pay = p

Grants(m) ==
  /\ Granted(db, m) = {}
  /\ \E length \in Length, at \in 0 .. now : \E x :
       /\ x = NextPeriod(db, m, length, at)
       /\ db' \in Documents /\ db'.pay = db.pay /\ db'.records = db.records
       /\ db'.periods = db.periods \cup {x}

\* The documents change, those of the payments W at most.
DocStep(W) ==
  \/ db' = db
  \/ \E p \in W : Opens(p) \/ Rewrites(p) \/ Buys(p)
  \/ \E m \in Manual : Grants(m)

\* Transactions that go on, and that have seen what was written.
Follow(W) ==
  /\ stale' \in [Task -> SUBSET Payment]
  /\ snap' \in [Task -> Snapshot \cup {Absent}]
  /\ \A r \in Task : snap'[r] # Absent =>
       /\ pc[r] \in TxStage /\ pc'[r] = pc[r] /\ task'[r] = task[r]
       /\ \/ db' = db /\ snap'[r].db = db /\ snap'[r].at = now
          \/ snap[r] # Absent /\ snap'[r] = snap[r] /\ stale[r] \cup W \subseteq stale'[r]

\* The task r goes on, and the others wait.
Steps(r) ==
  /\ pc' \in [Task -> Stage] /\ task' \in [Task -> Work \cup {Absent}]
  /\ \A q \in Task \ {r} : pc'[q] = pc[q] /\ task'[q] = task[q]
  /\ task'[r] = Absent <=> pc'[r] = "idle"
  /\ Fits(pc'[r], task'[r]) /\ Names(pc'[r], task'[r], db') /\ Told(pc'[r], task'[r], prov')

Advances(r) == Steps(r) /\ \E W \in SUBSET Payment : DocStep(W) /\ Follow(W)

Grown(W) ==
  /\ db' \in Documents /\ Bought(db', now)
  /\ Reads(db, db', W)

LEMMA ChangeReads ==
  ASSUME NEW d \in Documents, NEW e, NEW p \in Payment, NEW a \in PaymentDoc,
         NEW X, NEW R, Change(d, e, p, a, X, R)
  PROVE  /\ e \in Documents /\ Reads(d, e, {p}) /\ Exists(e, p)
         /\ \A W : p \in W => Reads(d, e, W)
  BY DocumentFields, PaymentSentinels DEF Change, Reads, Exists

\* Only a paid payment has a period, after a write that pays only with one.
LEMMA ChangeBought ==
  ASSUME NEW t \in Nat, NEW d \in Documents, Bought(d, t), NEW e, NEW p \in Payment,
         NEW a \in PaymentDoc, NEW R, Change(d, e, p, a, {}, R),
         Exists(d, p) => d.pay[p].status # "succeeded" \/ a.status = "succeeded"
  PROVE  Bought(e, t)
<1>1. e.periods = d.periods
  BY DEF Change
<1>2. ASSUME NEW q \in Payment, Granted(e, q) # {}
      PROVE  Exists(e, q) /\ e.pay[q].status = "succeeded"
  <2>1. Granted(d, q) # {}
    BY <1>1, <1>2 DEF Granted
  <2>2. Exists(d, q) /\ d.pay[q].status = "succeeded"
    BY <2>1 DEF Bought
  <2>3. Exists(e, p) /\ e.pay[p] = a
    BY PaymentSentinels DEF Change, Exists
  <2> QED
    BY <2>2, <2>3 DEF Change, Exists
<1> QED
  BY <1>1, <1>2 DEF Bought

LEMMA DocStepGrows ==
  ASSUME Base, NEW W \in SUBSET Payment, DocStep(W)
  PROVE  Grown(W)
<1>1. db \in Documents /\ Bought(db, now) /\ now \in Nat
  BY PaymentTasks DEF Base
<1>2. CASE db' = db
  BY <1>1, <1>2, ReadsSelf DEF Grown
<1>3. ASSUME NEW p \in W, Opens(p)
      PROVE  Grown(W)
  <2>1. PICK a \in PaymentDoc : Change(db, db', p, a, {}, {}) /\ ~ Exists(db, p)
    BY <1>3 DEF Opens
  <2>2. db' \in Documents /\ Reads(db, db', W)
    BY <1>1, <2>1, ChangeReads
  <2>3. Bought(db', now)
    BY <1>1, <2>1, ChangeBought
  <2> QED
    BY <2>2, <2>3 DEF Grown
<1>4. ASSUME NEW p \in W, Rewrites(p)
      PROVE  Grown(W)
  <2>1. PICK a, R : /\ Change(db, db', p, a, {}, R) /\ a \in PaymentDoc
                    /\ Turns(db.pay[p], a) \/ Settles(p, db.pay[p], a, R)
    BY <1>4 DEF Rewrites, Becomes
  <2>2. db' \in Documents /\ Reads(db, db', W)
    BY <1>1, <2>1, ChangeReads
  <2>3. db.pay[p].status # "succeeded"
    BY <2>1 DEF Turns, Settles, Finalizable, OpenStatus
  <2>4. Bought(db', now)
    BY <1>1, <2>1, <2>3, ChangeBought
  <2> QED
    BY <2>2, <2>4 DEF Grown
<1>5. ASSUME NEW p \in W, Buys(p)
      PROVE  Grown(W)
  <2>0. PICK at \in 0 .. now :
          \E a, x, R :
            /\ Change(db, db', p, a, {x}, R) /\ a \in PaymentDoc /\ a.status = "succeeded"
            /\ x = NextPeriod(db, p, db.pay[p].request.length, at)
    BY <1>5 DEF Buys, Becomes
  <2>1. PICK a, x, R :
          /\ Change(db, db', p, a, {x}, R) /\ a \in PaymentDoc /\ a.status = "succeeded"
          /\ x = NextPeriod(db, p, db.pay[p].request.length, at)
    BY <2>0
  <2>2. db' \in Documents /\ Reads(db, db', W) /\ Exists(db', p)
    BY <1>1, <2>1, ChangeReads
  <2>3. db.pay[p].request.length \in Length /\ p \in Source
    BY <1>1, <1>5, DocumentFields DEF Buys, PaymentDoc, Request, Source
  <2>4. Granted(db, p) = {}
    BY <1>5 DEF Buys
  <2>5. /\ Numbered(db.periods \cup {x}) /\ Following(db.periods \cup {x}, now)
        /\ x.source = p
    BY <1>1, <2>1, <2>3, <2>4, ChainGrows, StartIs DEF Bought
  <2>6. db'.periods = db.periods \cup {x}
    BY <2>1 DEF Change
  <2>7. ASSUME NEW q \in Payment, Granted(db', q) # {}
        PROVE  Exists(db', q) /\ db'.pay[q].status = "succeeded"
    <3>1. CASE q = p
      BY <2>1, <2>2, <3>1 DEF Change
    <3>2. CASE q # p
      <4>1. Granted(db, q) # {}
        BY <2>5, <2>6, <2>7, <3>2 DEF Granted
      <4>2. Exists(db, q) /\ db.pay[q].status = "succeeded"
        BY <1>1, <4>1 DEF Bought
      <4> QED
        BY <2>1, <3>2, <4>2 DEF Change, Exists
    <3> QED
      BY <3>1, <3>2
  <2> QED
    BY <2>2, <2>5, <2>6, <2>7 DEF Grown, Bought
<1>6. ASSUME NEW m \in Manual, Grants(m)
      PROVE  Grown(W)
  <2>0. PICK length \in Length, at \in 0 .. now :
          \E x : /\ x = NextPeriod(db, m, length, at)
                 /\ db' \in Documents /\ db'.pay = db.pay /\ db'.records = db.records
                 /\ db'.periods = db.periods \cup {x}
    BY <1>6 DEF Grants
  <2>1. PICK x :
          /\ x = NextPeriod(db, m, length, at)
          /\ db' \in Documents /\ db'.pay = db.pay /\ db'.records = db.records
          /\ db'.periods = db.periods \cup {x}
    BY <2>0
  <2>2. Granted(db, m) = {} /\ m \in Source
    BY <1>6 DEF Grants, Source
  <2>3. /\ Numbered(db.periods \cup {x}) /\ Following(db.periods \cup {x}, now)
        /\ x.source = m
    BY <1>1, <2>1, <2>2, ChainGrows, StartIs DEF Bought
  <2>4. ASSUME NEW q \in Payment, Granted(db', q) # {}
        PROVE  Exists(db', q) /\ db'.pay[q].status = "succeeded"
    <3>1. q # m
      BY PaymentConstants
    <3>2. Granted(db, q) # {}
      BY <2>1, <2>3, <2>4, <3>1 DEF Granted
    <3> QED
      BY <1>1, <2>1, <3>2 DEF Bought, Exists
  <2>5. Reads(db, db', W)
    BY <2>1 DEF Reads, Exists
  <2> QED
    BY <2>1, <2>3, <2>4, <2>5 DEF Grown, Bought
<1> QED
  BY <1>2, <1>3, <1>4, <1>5, <1>6 DEF DocStep

\* What the provider has answered stays so.
ProvKeeps ==
  /\ prov' \in [Ref -> Collection \cup {Absent}]
  /\ \A c \in Ref : prov[c] # Absent =>
       /\ prov'[c] # Absent /\ prov'[c].merchant = prov[c].merchant
       /\ prov[c].state = "succeeded" => /\ prov'[c].state = "succeeded"
                                         /\ prov'[c].same = prov[c].same

LEMMA HeardStays ==
  ASSUME ProvKeeps, NEW a \in Answer, Heard(a, prov)
  PROVE  Heard(a, prov')
<1>1. a.ref \in Ref
  BY DEF Answer
<1> QED
  BY <1>1 DEF Heard, ProvKeeps

LEMMA SnapStays ==
  ASSUME Base, NEW W \in SUBSET Payment, Grown(W), Follow(W), now' = now, NEW r \in Task
  PROVE  SnapOK(r)'
<1> SUFFICES ASSUME snap'[r] # Absent
             PROVE  /\ pc'[r] \in TxStage /\ snap'[r].at <= now'
                    /\ Bought(snap'[r].db, now') /\ Reads(snap'[r].db, db', stale'[r])
                    /\ Names(pc'[r], task'[r], snap'[r].db)
  BY DEF SnapOK
<1>1. /\ pc[r] \in TxStage /\ pc'[r] = pc[r] /\ task'[r] = task[r]
  BY DEF Follow
<1>2. CASE db' = db /\ snap'[r].db = db /\ snap'[r].at = now
  <2>1. Bought(db, now) /\ Names(pc[r], task[r], db) /\ now <= now
    BY PaymentTasks DEF Base, TaskOK
  <2> QED
    BY <1>1, <1>2, <2>1, ReadsSelf
<1>3. CASE snap[r] # Absent /\ snap'[r] = snap[r] /\ stale[r] \cup W \subseteq stale'[r]
  <2>1. /\ snap[r].at <= now /\ Bought(snap[r].db, now) /\ Reads(snap[r].db, db, stale[r])
        /\ Names(pc[r], task[r], snap[r].db)
    BY <1>3 DEF Base, SnapOK
  <2>2. Reads(snap[r].db, db', stale[r] \cup W)
    BY <2>1, ReadsMore DEF Grown
  <2>3. Reads(snap[r].db, db', stale'[r])
    BY <1>3, <2>2 DEF Reads
  <2> QED
    BY <1>1, <1>3, <2>1, <2>3
<1> QED
  BY <1>2, <1>3 DEF Follow

\* The work of the tasks that wait stays right.
LEMMA WaitStays ==
  ASSUME Base, NEW W, Grown(W), ProvKeeps, NEW q \in Task,
         pc'[q] = pc[q], task'[q] = task[q]
  PROVE  TaskOK(q)'
<1>1. /\ task[q] = Absent <=> pc[q] = "idle"
      /\ Fits(pc[q], task[q]) /\ Names(pc[q], task[q], db) /\ Told(pc[q], task[q], prov)
  BY DEF Base, TaskOK
<1>2. Names(pc[q], task[q], db')
  BY <1>1 DEF Names, Grown, Reads, Fits
<1>3. Told(pc[q], task[q], prov')
  BY <1>1, HeardStays DEF Told, Fits
<1> QED
  BY <1>1, <1>2, <1>3 DEF TaskOK

LEMMA AdvanceBase ==
  ASSUME Base, NEW r \in Task, Advances(r), ProvKeeps, notices' \subseteq Ref, now' = now
  PROVE  Base'
<1>1. PICK W \in SUBSET Payment : DocStep(W) /\ Follow(W)
  BY DEF Advances
<1>2. Grown(W) /\ Steps(r)
  BY <1>1, DocStepGrows DEF Advances
<1>3. ASSUME NEW q \in Task
      PROVE  TaskOK(q)'
  <2>1. CASE q = r
    BY <1>2, <2>1 DEF Steps, TaskOK
  <2>2. CASE q # r
    BY <1>2, <2>2, WaitStays DEF Steps
  <2> QED
    BY <2>1, <2>2
<1>4. \A q \in Task : SnapOK(q)'
  BY <1>1, <1>2, SnapStays
<1>5. /\ db' \in Documents /\ Bought(db', now') /\ now' \in 0 .. MaxNow
  BY <1>2 DEF Grown, Base
<1> QED
  BY <1>1, <1>2, <1>3, <1>4, <1>5 DEF Base, Steps, Follow, ProvKeeps

----------------------------------------------------------------------------
(* Steps of a task *)

LEMMA GoIs ==
  ASSUME Base, NEW r \in Task, NEW stage \in Stage, NEW w \in Work \cup {Absent},
         Go(r, stage, w)
  PROVE  /\ pc' \in [Task -> Stage] /\ task' \in [Task -> Work \cup {Absent}]
         /\ pc'[r] = stage /\ task'[r] = w
         /\ \A q \in Task \ {r} : pc'[q] = pc[q] /\ task'[q] = task[q]
  BY DEF Base, Go, Goto

LEMMA GoSteps ==
  ASSUME Base, NEW r \in Task, NEW stage \in Stage \ {"idle"}, NEW w \in Work,
         Go(r, stage, w), Fits(stage, w), Names(stage, w, db'), Told(stage, w, prov')
  PROVE  Steps(r)
<1>1. w # Absent
  BY PaymentSentinels
<1> QED
  BY <1>1, GoIs DEF Steps

LEMMA FinishSteps ==
  ASSUME Base, NEW r \in Task, Finish(r)
  PROVE  Steps(r)
<1>1. Go(r, "idle", Absent) /\ "idle" \in Stage
  BY DEF Finish, Stage
<1>2. /\ pc' \in [Task -> Stage] /\ task' \in [Task -> Work \cup {Absent}]
      /\ pc'[r] = "idle" /\ task'[r] = Absent
      /\ \A q \in Task \ {r} : pc'[q] = pc[q] /\ task'[q] = task[q]
  BY <1>1, GoIs
<1> QED
  BY <1>2 DEF Steps, Fits, Names, Told, Paying

\* A task that works on a payment knows it.
LEMMA PayOf ==
  ASSUME Base, NEW r \in Task, pc[r] # "idle"
  PROVE  /\ task[r] \in Work
         /\ pc[r] \in Paying => task[r].pay \in Payment /\ Exists(db, task[r].pay)
  BY DEF Base, TaskOK, Fits, Names

LEMMA BareWork ==
  ASSUME Base, NEW r \in Task, pc[r] # "idle"
  PROVE  /\ Bare(r) \in Work
         /\ Bare(r).pay = task[r].pay /\ Bare(r).notice = task[r].notice
         /\ Bare(r).kind = task[r].kind
         /\ \A c \in Ref : /\ [Bare(r) EXCEPT !.ref = c] \in Work
                           /\ [Bare(r) EXCEPT !.ref = c].pay = task[r].pay
                           /\ [Bare(r) EXCEPT !.ref = c].notice = task[r].notice
                           /\ [Bare(r) EXCEPT !.ref = c].ref = c
<1>1. task[r] \in Work
  BY PayOf
<1>2. Bare(r) = [kind |-> task[r].kind, key |-> Absent, request |-> Absent,
                 pay |-> task[r].pay, notice |-> task[r].notice, ref |-> Null,
                 seen |-> Absent, outcome |-> "none", answer |-> Absent,
                 op |-> Absent, source |-> Absent, length |-> 0]
  <2>1. PICK kind, pay, notice : kind = task[r].kind /\ pay = task[r].pay
                                 /\ notice = task[r].notice
    OBVIOUS
  <2>2. Bare(r) = [NoWork EXCEPT !.kind = kind, !.pay = pay, !.notice = notice]
    BY <2>1 DEF Bare
  <2>3. Bare(r) = [kind |-> kind, key |-> Absent, request |-> Absent,
                   pay |-> pay, notice |-> notice, ref |-> Null,
                   seen |-> Absent, outcome |-> "none", answer |-> Absent,
                   op |-> Absent, source |-> Absent, length |-> 0]
    BY <2>2, ZenonT(20) DEF NoWork
  <2> QED
    BY <2>1, <2>3, Zenon
<1>3. Bare(r) \in Work
  BY <1>1, <1>2 DEF Work
<1>4. ASSUME NEW c \in Ref
      PROVE  /\ [Bare(r) EXCEPT !.ref = c] \in Work
             /\ [Bare(r) EXCEPT !.ref = c].pay = task[r].pay
             /\ [Bare(r) EXCEPT !.ref = c].notice = task[r].notice
             /\ [Bare(r) EXCEPT !.ref = c].ref = c
  <2>1. PICK w \in Work : w = Bare(r)
    BY <1>3
  <2>2. /\ [w EXCEPT !.ref = c] \in Work /\ [w EXCEPT !.ref = c].pay = w.pay
        /\ [w EXCEPT !.ref = c].notice = w.notice /\ [w EXCEPT !.ref = c].ref = c
    BY DEF Work
  <2> QED
    BY <1>2, <2>1, <2>2
<1> QED
  BY <1>2, <1>3, <1>4

\* The stages that need only their payment.
LEMMA BareSteps ==
  ASSUME Base, NEW r \in Task, pc[r] \in Paying, Exists(db', task[r].pay),
         Go(r, "review", Bare(r))
  PROVE  Steps(r)
<1>1. pc[r] # "idle" /\ "review" \in Stage \ {"idle"}
  BY DEF Paying, Stage
<1>2. Bare(r) \in Work /\ Bare(r).pay = task[r].pay /\ task[r].pay \in Payment
  BY <1>1, BareWork, PayOf
<1>3. Fits("review", Bare(r)) /\ Names("review", Bare(r), db') /\ Told("review", Bare(r), prov')
  BY <1>2 DEF Fits, Names, Told
<1> QED
  BY <1>1, <1>2, <1>3, GoSteps

LEMMA DoneSteps ==
  ASSUME Base, NEW r \in Task, pc[r] \in Paying, Exists(db', task[r].pay), Done(r)
  PROVE  Steps(r)
<1>1. pc[r] # "idle" /\ "answer" \in Stage \ {"idle"}
  BY DEF Paying, Stage
<1>2. CASE task[r].notice = Absent
  BY <1>2, FinishSteps DEF Done
<1>3. CASE task[r].notice # Absent
  <2>1. /\ Bare(r) \in Work /\ Bare(r).pay = task[r].pay /\ task[r].pay \in Payment
        /\ Bare(r).notice = task[r].notice
    BY <1>1, BareWork, PayOf
  <2>2. Bare(r).notice \in Ref
    BY <1>3, <2>1 DEF Work
  <2>3. /\ Fits("answer", Bare(r)) /\ Names("answer", Bare(r), db')
        /\ Told("answer", Bare(r), prov')
    BY <2>1, <2>2 DEF Fits, Names, Told
  <2> QED
    BY <1>1, <1>3, <2>1, <2>3, GoSteps DEF Done
<1> QED
  BY <1>2, <1>3

----------------------------------------------------------------------------
(* What a step does to the snapshots *)

LEMMA QuietFollows ==
  ASSUME Base, NEW r \in Task, Steps(r), snap[r] = Absent \/ pc[r] \notin TxStage,
         UNCHANGED <<db, snap, stale>>
  PROVE  Advances(r)
<1>1. snap[r] = Absent
  BY DEF Base, SnapOK
<1>2. Follow({})
  BY <1>1 DEF Follow, Base, Steps, SnapOK
<1> QED
  BY <1>2 DEF Advances, DocStep

LEMMA WriteFollows ==
  ASSUME Base, NEW r \in Task, Steps(r), pc[r] \notin TxStage,
         NEW n, NEW p \in Payment, Write(n, p), DocStep({p})
  PROVE  Advances(r)
<1>1. snap[r] = Absent
  BY DEF Base, SnapOK
<1>2. stale' \in [Task -> SUBSET Payment]
  BY DEF Write, Base
<1>3. ASSUME NEW q \in Task, snap'[q] # Absent
      PROVE  /\ pc[q] \in TxStage /\ pc'[q] = pc[q] /\ task'[q] = task[q]
             /\ snap[q] # Absent /\ snap'[q] = snap[q]
             /\ stale[q] \cup {p} \subseteq stale'[q]
  <2>1. snap' = snap /\ q # r
    BY <1>1, <1>3 DEF Write
  <2>2. stale'[q] = stale[q] \cup {p}
    BY <1>3, <2>1 DEF Write
  <2> QED
    BY <1>3, <2>1, <2>2 DEF Base, SnapOK, Steps
<1>4. Follow({p})
  BY <1>2, <1>3 DEF Follow, Base, Write
<1> QED
  BY <1>4 DEF Advances

LEMMA LeaveFollows ==
  ASSUME Base, NEW r \in Task, Steps(r), NEW W \in SUBSET Payment,
         LeaveTx(r, W), DocStep(W)
  PROVE  Advances(r)
<1>1. /\ stale' \in [Task -> SUBSET Payment]
      /\ snap' \in [Task -> Snapshot \cup {Absent}]
  BY DEF LeaveTx, Base
<1>2. ASSUME NEW q \in Task, snap'[q] # Absent
      PROVE  /\ pc[q] \in TxStage /\ pc'[q] = pc[q] /\ task'[q] = task[q]
             /\ snap[q] # Absent /\ snap'[q] = snap[q]
             /\ stale[q] \cup W \subseteq stale'[q]
  <2>1. q # r /\ snap'[q] = snap[q]
    BY <1>2 DEF LeaveTx, Base
  <2>2. stale'[q] = stale[q] \cup W
    BY <1>2, <2>1 DEF LeaveTx
  <2> QED
    BY <1>2, <2>1, <2>2 DEF Base, SnapOK, Steps
<1>3. Follow(W)
  BY <1>1, <1>2 DEF Follow
<1> QED
  BY <1>3 DEF Advances

\* A transaction that ends without writing.
LEMMA EndFollows ==
  ASSUME Base, NEW r \in Task, Steps(r), EndTx(r)
  PROVE  Advances(r)
  BY LeaveFollows DEF EndTx, DocStep

LEMMA RetrySteps ==
  ASSUME Base, NEW r \in Task, NEW n, NEW W, RetryTx(r, n, W), prov' = prov
  PROVE  Advances(r)
<1>1. Steps(r)
  BY DEF RetryTx, Steps, Base, TaskOK
<1> QED
  BY <1>1, LeaveFollows DEF RetryTx, DocStep

LEMMA BeginMoves ==
  ASSUME Base, NEW r \in Task, Begin(r)
  PROVE  Advances(r)
<1>1. Steps(r)
  BY DEF Begin, Steps, Base, TaskOK, World
<1>2. snap' \in [Task -> Snapshot \cup {Absent}]
  <2>1. [db |-> db, at |-> now] \in Snapshot
    BY PaymentTasks DEF Base, Snapshot
  <2> QED
    BY <2>1 DEF Begin, Base
<1>3. ASSUME NEW q \in Task, snap'[q] # Absent
      PROVE  /\ pc[q] \in TxStage /\ pc'[q] = pc[q] /\ task'[q] = task[q]
             /\ \/ db' = db /\ snap'[q].db = db /\ snap'[q].at = now
                \/ snap[q] # Absent /\ snap'[q] = snap[q] /\ stale[q] \cup {} \subseteq stale'[q]
  <2>1. CASE q = r
    BY <1>3, <2>1 DEF Begin, Base
  <2>2. CASE q # r
    BY <1>3, <2>2 DEF Begin, Base, SnapOK
  <2> QED
    BY <2>1, <2>2
<1>4. Follow({})
  BY <1>2, <1>3 DEF Follow, Begin, Base
<1> QED
  BY <1>1, <1>4 DEF Advances, DocStep, Begin

----------------------------------------------------------------------------
(* Requests *)

LEMMA StartMoves ==
  ASSUME Base, NEW r \in Task, NEW kind, NEW stage \in Stage \ {"idle"}, NEW work,
         Start(r, kind, stage, work),
         NEW w \in Work, w = [work EXCEPT !.kind = kind],
         Fits(stage, w), Names(stage, w, db), stage \notin {"apply", "finalize", "settle"}
  PROVE  Advances(r) /\ UNCHANGED World
<1>1. Go(r, stage, w) /\ UNCHANGED <<db, snap, stale>> /\ UNCHANGED World /\ pc[r] = "idle"
  BY DEF Start, Quiet
<1>2. Names(stage, w, db')
  BY <1>1 DEF Names
<1>3. Told(stage, w, prov')
  BY DEF Told
<1>4. Steps(r)
  BY <1>1, <1>2, <1>3, GoSteps
<1> QED
  BY <1>1, <1>4, QuietFollows DEF TxStage

LEMMA ReceiveCreateMoves ==
  ASSUME Base, NEW r \in Task, ReceiveCreate(r)
  PROVE  Advances(r) /\ UNCHANGED World
<1>1. PICK k \in Key, q \in Request :
        Start(r, "create", "check", [NoWork EXCEPT !.key = k, !.request = q])
  BY DEF ReceiveCreate
<1>2. PICK w : w = [[NoWork EXCEPT !.key = k, !.request = q] EXCEPT !.kind = "create"]
  OBVIOUS
<1>3. w \in Work /\ w.key = k /\ w.request = q
  BY <1>2 DEF NoWork, Work
<1>4. /\ "check" \in Stage \ {"idle"} /\ "check" \notin {"apply", "finalize", "settle"}
      /\ Fits("check", w) /\ Names("check", w, db)
  BY <1>3 DEF Stage, Fits, Names, Paying
<1> QED
  BY <1>1, <1>2, <1>3, <1>4, StartMoves

LEMMA ReceiveRefreshMoves ==
  ASSUME Base, NEW r \in Task, ReceiveRefresh(r)
  PROVE  Advances(r) /\ UNCHANGED World
<1>1. PICK p \in Payment :
        /\ Exists(db, p)
        /\ Start(r, "confirm", "fetch", [NoWork EXCEPT !.pay = p, !.ref = db.pay[p].ref])
  BY DEF ReceiveRefresh
<1>2. PICK ref : ref = db.pay[p].ref
  OBVIOUS
<1>3. ref \in Ref \cup {Null}
  BY <1>1, <1>2, DocumentFields DEF Base, PaymentDoc
<1>4. PICK w : w = [[NoWork EXCEPT !.pay = p, !.ref = ref] EXCEPT !.kind = "confirm"]
  OBVIOUS
<1>5. w \in Work /\ w.pay = p /\ w.ref = ref
  BY <1>3, <1>4 DEF NoWork, Work
<1>6. /\ "fetch" \in Stage \ {"idle"} /\ "fetch" \notin {"apply", "finalize", "settle"}
      /\ Fits("fetch", w) /\ Names("fetch", w, db)
  BY <1>1, <1>5 DEF Stage, Fits, Names
<1> QED
  BY <1>1, <1>2, <1>4, <1>5, <1>6, StartMoves

LEMMA ReceiveNoticeMoves ==
  ASSUME Base, NEW r \in Task, NEW c \in notices, ReceiveNotice(r, c)
  PROVE  \/ Advances(r) /\ UNCHANGED World
         \/ /\ notices' = notices \ {c}
            /\ UNCHANGED <<db, prov, now, pc, task, snap, stale>>
<1> DEFINE work(p) == [NoWork EXCEPT !.pay = p, !.notice = c]
<1>1. SUFFICES ASSUME NEW p \in Payment, Exists(db, p), db.pay[p].ref = c,
                      \/ Start(r, "confirm", "fetch", [work(p) EXCEPT !.ref = db.pay[p].ref])
                      \/ Start(r, "confirm", "answer", work(p))
               PROVE  Advances(r) /\ UNCHANGED World
  BY DEF ReceiveNotice
<1>2. c \in Ref
  BY DEF Base
<1>3. CASE Start(r, "confirm", "fetch", [work(p) EXCEPT !.ref = db.pay[p].ref])
  <2>1. PICK w : w = [[work(p) EXCEPT !.ref = c] EXCEPT !.kind = "confirm"]
    OBVIOUS
  <2>2. w \in Work /\ w.pay = p
    BY <1>2, <2>1 DEF NoWork, Work
  <2>3. /\ "fetch" \in Stage \ {"idle"} /\ "fetch" \notin {"apply", "finalize", "settle"}
        /\ Fits("fetch", w) /\ Names("fetch", w, db)
    BY <1>1, <2>2 DEF Stage, Fits, Names
  <2>4. Start(r, "confirm", "fetch", [work(p) EXCEPT !.ref = c])
    BY <1>1, <1>3
  <2> HIDE DEF work
  <2> QED
    BY <2>1, <2>2, <2>3, <2>4, StartMoves
<1>4. CASE Start(r, "confirm", "answer", work(p))
  <2>1. PICK w : w = [work(p) EXCEPT !.kind = "confirm"]
    OBVIOUS
  <2>2. w \in Work /\ w.pay = p /\ w.notice = c
    BY <1>2, <2>1 DEF NoWork, Work
  <2>3. /\ "answer" \in Stage \ {"idle"} /\ "answer" \notin {"apply", "finalize", "settle"}
        /\ Fits("answer", w) /\ Names("answer", w, db)
    BY <1>1, <1>2, <2>2 DEF Stage, Fits, Names
  <2> HIDE DEF work
  <2> QED
    BY <1>4, <2>1, <2>2, <2>3, StartMoves
<1> QED
  BY <1>1, <1>3, <1>4

LEMMA ReceiveReconcileMoves ==
  ASSUME Base, NEW r \in Task, ReceiveReconcile(r)
  PROVE  Advances(r) /\ UNCHANGED World
<1>1. PICK p \in Payment, c \in Ref, o \in Operation :
        /\ Exists(db, p) /\ db.pay[p].status \in {"uncertain", "review"}
        /\ db.pay[p].ref = c \/ db.pay[p].ref = Null
        /\ Start(r, "reconcile", "consult",
                 [NoWork EXCEPT !.pay = p, !.ref = c, !.op = o, !.seen = db.pay[p]])
  BY DEF ReceiveReconcile
<1>2. PICK doc \in PaymentDoc : doc = db.pay[p]
  BY <1>1, DocumentFields DEF Base
<1>3. PICK w : w = [[NoWork EXCEPT !.pay = p, !.ref = c, !.op = o, !.seen = doc]
                    EXCEPT !.kind = "reconcile"]
  OBVIOUS
<1>4. w \in Work /\ w.pay = p /\ w.ref = c /\ w.op = o /\ w.seen = doc
  BY <1>3 DEF NoWork, Work
<1>5. /\ "consult" \in Stage \ {"idle"} /\ "consult" \notin {"apply", "finalize", "settle"}
      /\ Fits("consult", w) /\ Names("consult", w, db)
  BY <1>1, <1>2, <1>4 DEF Stage, Fits, Names
<1>6. Start(r, "reconcile", "consult",
            [NoWork EXCEPT !.pay = p, !.ref = c, !.op = o, !.seen = doc])
  BY <1>1, <1>2
<1> QED
  BY <1>3, <1>4, <1>5, <1>6, StartMoves

LEMMA ReceiveGrantMoves ==
  ASSUME Base, NEW r \in Task, ReceiveGrant(r)
  PROVE  Advances(r) /\ UNCHANGED World
<1>1. PICK m \in Manual, length \in Length :
        Start(r, "grant", "grant", [NoWork EXCEPT !.source = m, !.length = length])
  BY DEF ReceiveGrant
<1>2. PICK w : w = [[NoWork EXCEPT !.source = m, !.length = length] EXCEPT !.kind = "grant"]
  OBVIOUS
<1>3. w \in Work /\ w.source = m /\ w.length = length
  BY <1>2 DEF NoWork, Work
<1>4. /\ "grant" \in Stage \ {"idle"} /\ "grant" \notin {"apply", "finalize", "settle"}
      /\ Fits("grant", w) /\ Names("grant", w, db)
  BY <1>3 DEF Stage, TxStage, Fits, Names, Paying
<1> QED
  BY <1>1, <1>2, <1>3, <1>4, StartMoves

----------------------------------------------------------------------------
(* Creation of a payment *)

LEMMA CheckOpenMoves ==
  ASSUME Base, NEW r \in Task, CheckOpen(r)
  PROVE  Advances(r) /\ UNCHANGED World
<1>1. pc[r] = "check" /\ UNCHANGED <<db, snap, stale>> /\ UNCHANGED World
  BY DEF CheckOpen, Quiet
<1>2. CASE Finish(r)
  BY <1>1, <1>2, FinishSteps, QuietFollows DEF TxStage
<1>3. CASE Goto(r, "reserve") /\ UNCHANGED task
  <2>1. task[r] \in Work /\ task[r] # Absent
    BY <1>1, PayOf, PaymentSentinels
  <2>2. Fits("reserve", task[r])
    BY <1>1 DEF Base, TaskOK, Fits, Paying
  <2>3. "reserve" \in Stage
    BY DEF Stage
  <2>4. Steps(r)
    BY <1>3, <2>1, <2>2, <2>3 DEF Goto, Steps, Names, Told, Paying, Base
  <2> QED
    BY <1>1, <2>4, QuietFollows DEF TxStage
<1> QED
  BY <1>2, <1>3 DEF CheckOpen

LEMMA ReserveMoves ==
  ASSUME Base, NEW r \in Task, Reserve(r)
  PROVE  Advances(r) /\ UNCHANGED World
<1>1. pc[r] = "reserve" /\ pc[r] # "idle" /\ pc[r] \notin TxStage
  BY DEF Reserve, TxStage
<1>2. CASE Finish(r) /\ Quiet
  BY <1>1, <1>2, FinishSteps, QuietFollows DEF Quiet
<1>3. ASSUME NEW p \in Payment, ~ Exists(db, p), OpenOnes(db) = {},
             Write(NewPayment(db, p, task[r].key, task[r].request), p),
             Go(r, "initiate", [task[r] EXCEPT !.key = Absent, !.request = Absent, !.pay = p])
      PROVE  Advances(r) /\ UNCHANGED World
  <2>1. PICK t \in Work : t = task[r]
    BY <1>1, PayOf
  <2>2. t.key \in Key /\ t.request \in Request
    BY <1>1, <2>1 DEF Base, TaskOK, Fits
  <2>3. PICK n : n = NewPayment(db, p, t.key, t.request)
    OBVIOUS
  <2>4. db \in Documents
    BY DEF Base
  <2>5. PICK a \in PaymentDoc :
          /\ Change(db, n, p, a, {}, {}) /\ a.request = t.request
          /\ a.status = "initiating" /\ a.open /\ a.ref = Null /\ a.period = 0
    BY <2>2, <2>3, <2>4, NewChange
  <2>6. Write(n, p) /\ db' = n
    BY <1>3, <2>1, <2>3 DEF Write
  <2>7. Opens(p)
    BY <1>3, <2>5, <2>6 DEF Opens
  <2>8. Exists(db', p)
    BY <2>4, <2>5, <2>6, ChangeReads
  <2>9. PICK w : w = [t EXCEPT !.key = Absent, !.request = Absent, !.pay = p]
    OBVIOUS
  <2>10. w \in Work /\ w.pay = p
    BY <2>9 DEF Work
  <2>11. /\ "initiate" \in Stage \ {"idle"}
         /\ Fits("initiate", w) /\ Names("initiate", w, db') /\ Told("initiate", w, prov')
    BY <2>8, <2>10 DEF Stage, Fits, Names, Told
  <2>12. Steps(r)
    BY <1>3, <2>1, <2>9, <2>10, <2>11, GoSteps
  <2>13. DocStep({p})
    BY <2>7 DEF DocStep
  <2> QED
    BY <1>1, <2>6, <2>12, <2>13, WriteFollows DEF Write
<1>4. (Finish(r) /\ Quiet) \/ \E p \in Payment :
        /\ ~ Exists(db, p) /\ OpenOnes(db) = {}
        /\ Write(NewPayment(db, p, task[r].key, task[r].request), p)
        /\ Go(r, "initiate", [task[r] EXCEPT !.key = Absent, !.request = Absent, !.pay = p])
  BY DEF Reserve
<1> QED
  BY <1>2, <1>3, <1>4

LEMMA InitiateMoves ==
  ASSUME Base, NEW r \in Task, Initiate(r)
  PROVE  /\ Advances(r) /\ ProvKeeps
         /\ UNCHANGED <<db, notices, now, snap, stale>>
<1>1. pc[r] = "initiate" /\ pc[r] # "idle" /\ pc[r] \in Paying /\ pc[r] \notin TxStage
  BY DEF Initiate, TxStage, Paying
<1>2. PICK t \in Work : t = task[r] /\ t.pay \in Payment /\ Exists(db, t.pay)
  BY <1>1, PayOf
<1>3. UNCHANGED <<db, notices, now, snap, stale>>
  BY DEF Initiate
<1>4. ASSUME NEW w \in Work, w.pay = t.pay, Go(r, "record", w), Fits("record", w)
      PROVE  Advances(r)
  <2>1. /\ "record" \in Stage \ {"idle"}
        /\ Names("record", w, db') /\ Told("record", w, prov')
    BY <1>2, <1>3, <1>4 DEF Stage, Names, Told
  <2>2. Steps(r)
    BY <1>4, <2>1, GoSteps
  <2> QED
    BY <1>1, <1>3, <2>2, QuietFollows
<1>5. ASSUME NEW word \in {"refused", "uncertain"},
             Go(r, "record", [task[r] EXCEPT !.outcome = word])
      PROVE  Advances(r)
  <2>1. PICK w : w = [t EXCEPT !.outcome = word]
    OBVIOUS
  <2>2. w \in Work /\ w.pay = t.pay /\ w.outcome = word
    BY <2>1 DEF Work
  <2> QED
    BY <1>2, <1>4, <1>5, <2>1, <2>2 DEF Fits
<1>6. ASSUME NEW c \in Ref,
             Go(r, "record", [task[r] EXCEPT !.outcome = "accepted", !.ref = c])
      PROVE  Advances(r)
  <2>1. PICK w : w = [t EXCEPT !.outcome = "accepted", !.ref = c]
    OBVIOUS
  <2>2. w \in Work /\ w.pay = t.pay /\ w.outcome = "accepted" /\ w.ref = c
    BY <2>1 DEF Work
  <2> QED
    BY <1>2, <1>4, <1>6, <2>1, <2>2 DEF Fits
<1>7. Advances(r)
  BY <1>5, <1>6 DEF Initiate
<1>8. ASSUME UNCHANGED prov
      PROVE  ProvKeeps
  BY <1>8 DEF ProvKeeps, Base
<1>9. ASSUME NEW c \in Ref, prov[c] = Absent,
             prov' = [prov EXCEPT ![c] = [merchant |-> t.pay, same |-> TRUE, state |-> "pending"]]
      PROVE  ProvKeeps
  <2>1. PICK same \in BOOLEAN : same = TRUE
    OBVIOUS
  <2>2. [merchant |-> t.pay, same |-> same, state |-> "pending"] \in Collection
    BY <1>2 DEF Collection
  <2> QED
    BY <1>9, <2>1, <2>2 DEF ProvKeeps, Base
<1> QED
  BY <1>2, <1>3, <1>7, <1>8, <1>9 DEF Initiate

\* A reference that is taken neither by another nor against its own.
LEMMA AdoptsLinks ==
  ASSUME NEW p \in Payment, NEW ref \in Ref, NEW from,
         Adopts(db, p, from, ref), ~ RefTaken(db, p, ref), Mine(p, ref)
  PROVE  Links(p, ref) /\ db.pay[p].status \in from
  BY DEF Adopts, Moves, Links

LEMMA RecordPendingMoves ==
  ASSUME Base, NEW r \in Task, pc[r] \in {"record", "apply"},
         NEW ref \in Ref, Mine(task[r].pay, ref), NEW from \in SUBSET {"initiating", "uncertain"},
         RecordPending(r, task[r].pay, ref, from)
  PROVE  Advances(r) /\ UNCHANGED World
<1>1. pc[r] # "idle" /\ pc[r] \in Paying /\ pc[r] \notin TxStage
  BY DEF Paying, TxStage
<1>2. PICK p \in Payment : p = task[r].pay /\ Exists(db, p)
  BY <1>1, PayOf
<1>3. CASE Go(r, "review", Bare(r)) /\ Quiet
  <2>1. Exists(db', p)
    BY <1>2, <1>3 DEF Quiet
  <2> QED
    BY <1>1, <1>2, <1>3, <2>1, BareSteps, QuietFollows DEF Quiet
<1>4. CASE Adopts(db, p, from, ref) /\ ~ RefTaken(db, p, ref)
           /\ Write(ToPending(db, p, ref), p) /\ Done(r)
  <2>1. PICK n : n = ToPending(db, p, ref)
    OBVIOUS
  <2>2. db \in Documents /\ db' = n /\ Write(n, p)
    BY <1>4, <2>1 DEF Base, Write
  <2>3. PICK a : /\ Change(db, n, p, a, {}, {})
                 /\ Becomes(db.pay[p], a, "pending", ref)
                 /\ a.open = db.pay[p].open /\ a.period = db.pay[p].period
    BY <1>2, <2>1, <2>2, PendingChange
  <2>4. a \in PaymentDoc /\ a.status = "pending" /\ a.ref = ref
    BY <2>3 DEF Becomes
  <2>5. Exists(db', p)
    BY <2>2, <2>3, <2>4, ChangeReads
  <2>6. Links(p, ref) /\ db.pay[p].status \in {"initiating", "uncertain"}
    BY <1>2, <1>4, AdoptsLinks
  <2>10. Writes(p, a)
    BY <1>2, <2>4 DEF Writes
  <2>7. Rewrites(p)
    BY <1>2, <2>2, <2>3, <2>4, <2>6, <2>10 DEF Rewrites, Turns
  <2>8. DocStep({p})
    BY <2>7 DEF DocStep
  <2>9. Steps(r)
    BY <1>1, <1>2, <1>4, <2>5, DoneSteps
  <2> QED
    BY <1>1, <2>2, <2>8, <2>9, WriteFollows DEF Write
<1>5. CASE Go(r, "recheck", [Bare(r) EXCEPT !.ref = ref]) /\ Quiet
  <2>1. PICK w : w = [Bare(r) EXCEPT !.ref = ref]
    OBVIOUS
  <2>2. w \in Work /\ w.pay = p /\ w.ref = ref
    BY <1>1, <1>2, <2>1, BareWork
  <2>3. /\ "recheck" \in Stage \ {"idle"}
        /\ Fits("recheck", w) /\ Names("recheck", w, db') /\ Told("recheck", w, prov')
    BY <1>2, <1>5, <2>2 DEF Quiet, Stage, Fits, Names, Told
  <2>4. Steps(r)
    BY <1>5, <2>1, <2>2, <2>3, GoSteps
  <2> QED
    BY <1>1, <1>5, <2>4, QuietFollows DEF Quiet
<1> QED
  BY <1>2, <1>3, <1>4, <1>5 DEF RecordPending

\* A conditional write of the payment of r that changes nothing else of it.
LEMMA TurnMoves ==
  ASSUME Base, NEW r \in Task, pc[r] \in {"record", "review", "apply"},
         NEW p \in Payment, p = task[r].pay, Exists(db, p), NEW n, Write(n, p),
         NEW a, Change(db, n, p, a, {}, {}),
         Becomes(db.pay[p], a, a.status, a.ref), a.period = db.pay[p].period,
         Links(p, a.ref), Turns(db.pay[p], a), a.status = "review" => pc[r] = "review",
         Exists(db', p) => Steps(r)
  PROVE  Advances(r) /\ UNCHANGED World
<1>1. db \in Documents /\ db' = n /\ a \in PaymentDoc /\ pc[r] \notin TxStage
  BY DEF Base, Write, Becomes, TxStage
<1>2. Exists(db', p)
  BY <1>1, ChangeReads
<1>3. Rewrites(p)
  BY <1>1 DEF Rewrites, Writes
<1>4. DocStep({p})
  BY <1>3 DEF DocStep
<1> QED
  BY <1>1, <1>2, <1>4, WriteFollows DEF Write

LEMMA RecordInitiationMoves ==
  ASSUME Base, NEW r \in Task, RecordInitiation(r)
  PROVE  Advances(r) /\ UNCHANGED World
<1>1. pc[r] = "record" /\ pc[r] # "idle" /\ pc[r] \in Paying /\ pc[r] \notin TxStage
  BY DEF RecordInitiation, Paying, TxStage
<1>2. PICK p \in Payment : p = task[r].pay /\ Exists(db, p)
  BY <1>1, PayOf
<1>3. \/ task[r].outcome \in {"refused", "uncertain"}
      \/ task[r].outcome = "accepted" /\ task[r].ref \in Ref
  BY <1>1 DEF Base, TaskOK, Fits
<1>4. CASE Quiet /\ Finish(r)
  BY <1>1, <1>4, FinishSteps, QuietFollows DEF Quiet
<1>5. CASE task[r].outcome = "accepted"
  <2>1. RecordPending(r, task[r].pay, task[r].ref, {"initiating"})
    BY <1>5 DEF RecordInitiation
  <2>2. Mine(task[r].pay, task[r].ref)
    BY <1>1, <1>5 DEF Mine, Holds
  <2> QED
    BY <1>1, <1>3, <1>5, <2>1, <2>2, RecordPendingMoves
<1>6. CASE /\ Moves(db, p, {"initiating"}) /\ Finish(r)
           /\ Write([ToStatus(db, p, "failed") EXCEPT !.pay[p].open = FALSE], p)
  <2>1. PICK n : n = [ToStatus(db, p, "failed") EXCEPT !.pay[p].open = FALSE]
    OBVIOUS
  <2>2. PICK a : /\ Change(db, n, p, a, {}, {})
                 /\ Becomes(db.pay[p], a, "failed", db.pay[p].ref)
                 /\ ~ a.open /\ a.period = db.pay[p].period
    BY <1>2, <2>1, ClosedChange DEF Base
  <2>3. /\ Becomes(db.pay[p], a, a.status, a.ref) /\ Links(p, a.ref)
        /\ Turns(db.pay[p], a) /\ a.status # "review"
    BY <1>6, <2>2 DEF Becomes, Links, Turns, Moves, OpenStatus
  <2> QED
    BY <1>1, <1>2, <1>6, <2>1, <2>2, <2>3, FinishSteps, TurnMoves
<1>7. CASE /\ Moves(db, p, {"initiating"}) /\ Finish(r)
           /\ Write(ToStatus(db, p, "uncertain"), p)
  <2>1. PICK n : n = ToStatus(db, p, "uncertain")
    OBVIOUS
  <2>2. PICK a : /\ Change(db, n, p, a, {}, {})
                 /\ Becomes(db.pay[p], a, "uncertain", db.pay[p].ref)
                 /\ a.open = db.pay[p].open /\ a.period = db.pay[p].period
    BY <1>2, <2>1, StatusChange DEF Base, Status, Finalizable, OpenStatus
  <2>3. /\ Becomes(db.pay[p], a, a.status, a.ref) /\ Links(p, a.ref)
        /\ Turns(db.pay[p], a) /\ a.status # "review"
    BY <1>7, <2>2 DEF Becomes, Links, Turns, Moves
  <2> QED
    BY <1>1, <1>2, <1>7, <2>1, <2>2, <2>3, FinishSteps, TurnMoves
<1> QED
  BY <1>2, <1>3, <1>4, <1>5, <1>6, <1>7 DEF RecordInitiation

LEMMA RecheckMoves ==
  ASSUME Base, NEW r \in Task, Recheck(r)
  PROVE  Advances(r) /\ UNCHANGED World
<1>1. pc[r] # "idle" /\ pc[r] \in Paying /\ pc[r] \notin TxStage /\ Quiet
  BY DEF Recheck, Paying, TxStage
<1>2. Exists(db', task[r].pay)
  BY <1>1, PayOf DEF Quiet
<1>3. Steps(r)
  BY <1>1, <1>2, DoneSteps, BareSteps DEF Recheck
<1> QED
  BY <1>1, <1>3, QuietFollows DEF Quiet

LEMMA ReviewMoves ==
  ASSUME Base, NEW r \in Task, Review(r)
  PROVE  Advances(r) /\ UNCHANGED World
<1>1. pc[r] # "idle" /\ pc[r] = "review" /\ pc[r] \in Paying /\ pc[r] \notin TxStage /\ Done(r)
  BY DEF Review, Paying, TxStage
<1>2. PICK p \in Payment : p = task[r].pay /\ Exists(db, p)
  BY <1>1, PayOf
<1>3. CASE Quiet
  <2>1. Exists(db', p)
    BY <1>2, <1>3 DEF Quiet
  <2> QED
    BY <1>1, <1>2, <1>3, <2>1, DoneSteps, QuietFollows DEF Quiet
<1>4. CASE Moves(db, p, Finalizable) /\ Write(ToStatus(db, p, "review"), p)
  <2>1. PICK n : n = ToStatus(db, p, "review")
    OBVIOUS
  <2>2. PICK a : /\ Change(db, n, p, a, {}, {})
                 /\ Becomes(db.pay[p], a, "review", db.pay[p].ref)
                 /\ a.open = db.pay[p].open /\ a.period = db.pay[p].period
    BY <1>2, <2>1, StatusChange DEF Base, Status
  <2>3. /\ Becomes(db.pay[p], a, a.status, a.ref) /\ Links(p, a.ref)
        /\ Turns(db.pay[p], a)
    BY <1>4, <2>2 DEF Becomes, Links, Turns, Moves
  <2> QED
    BY <1>1, <1>2, <1>4, <2>1, <2>2, <2>3, DoneSteps, TurnMoves
<1> QED
  BY <1>2, <1>3, <1>4 DEF Review

----------------------------------------------------------------------------
(* Confirmation *)

LEMMA AnswerOfType ==
  ASSUME Base, NEW c \in Ref, prov[c] # Absent
  PROVE  /\ AnswerOf(c) \in Answer /\ Heard(AnswerOf(c), prov)
         /\ AnswerOf(c).ref = c /\ AnswerOf(c).merchant = prov[c].merchant
         /\ AnswerOf(c).state = prov[c].state
<1>1. PICK doc \in Collection : doc = prov[c]
  BY DEF Base
<1>2. AnswerOf(c) = [ref |-> c, merchant |-> doc.merchant, same |-> doc.same,
                     state |-> doc.state]
  BY <1>1 DEF AnswerOf
<1>3. AnswerOf(c) \in Answer
  BY <1>2 DEF Answer, Collection
<1> QED
  BY <1>1, <1>2, <1>3 DEF Heard

LEMMA FetchMoves ==
  ASSUME Base, NEW r \in Task, Fetch(r)
  PROVE  Advances(r) /\ UNCHANGED World
<1>1. pc[r] # "idle" /\ pc[r] \in Paying /\ pc[r] \notin TxStage
  BY DEF Fetch, Paying, TxStage
<1>2. PICK p \in Payment : p = task[r].pay /\ Exists(db, p)
  BY <1>1, PayOf
<1>3. Write(db, p) /\ db' = db /\ prov' = prov /\ UNCHANGED World
  BY <1>2 DEF Fetch, Write, World
<1>4. Exists(db', p)
  BY <1>2, <1>3
<1>5. Steps(r)
  <2>1. CASE Done(r)
    BY <1>1, <1>2, <1>4, <2>1, DoneSteps
  <2>2. ASSUME NEW c \in Found(task[r].ref, p),
               Go(r, "apply", [task[r] EXCEPT !.answer = AnswerOf(c)])
        PROVE  Steps(r)
    <3>1. c \in Ref /\ prov[c] # Absent
      BY DEF Found
    <3>2. PICK answer \in Answer : answer = AnswerOf(c) /\ Heard(answer, prov)
      BY <3>1, AnswerOfType
    <3>3. PICK t \in Work : t = task[r]
      BY <1>1, PayOf
    <3>4. PICK w : w = [t EXCEPT !.answer = answer]
      OBVIOUS
    <3>5. w \in Work /\ w.pay = t.pay /\ w.answer = answer
      BY <3>4 DEF Work
    <3>6. Heard(answer, prov')
      BY <1>3, <3>2
    <3>7. /\ "apply" \in Stage \ {"idle"}
          /\ Fits("apply", w) /\ Names("apply", w, db') /\ Told("apply", w, prov')
      BY <1>2, <1>4, <3>3, <3>5, <3>6 DEF Stage, Fits, Names, Told
    <3> QED
      BY <2>2, <3>2, <3>3, <3>4, <3>5, <3>7, GoSteps
  <2> QED
    BY <1>2, <2>1, <2>2 DEF Fetch
<1> QED
  BY <1>1, <1>3, <1>5, WriteFollows DEF DocStep

LEMMA FetchFailsMoves ==
  ASSUME Base, NEW r \in Task, FetchFails(r)
  PROVE  Advances(r) /\ UNCHANGED World
  BY FinishSteps, QuietFollows DEF FetchFails, Quiet, TxStage

LEMMA ApplyMoves ==
  ASSUME Base, NEW r \in Task, Apply(r)
  PROVE  Advances(r) /\ UNCHANGED World
<1>1. pc[r] = "apply" /\ pc[r] # "idle" /\ pc[r] \in Paying /\ pc[r] \notin TxStage
  BY DEF Apply, Paying, TxStage
<1>2. PICK p \in Payment : p = task[r].pay /\ Exists(db, p)
  BY <1>1, PayOf
<1>3. PICK answer \in Answer : answer = task[r].answer /\ Heard(answer, prov)
  BY <1>1 DEF Base, TaskOK, Fits, Told
<1>4. answer.ref \in Ref /\ answer.state \in {"pending", "failed", "succeeded"}
  BY DEF Answer
<1>5. ASSUME Quiet
      PROVE  Exists(db', p) /\ prov' = prov
  BY <1>2, <1>5 DEF Quiet, World
<1>6. CASE Go(r, "review", Bare(r)) /\ Quiet
  BY <1>1, <1>2, <1>5, <1>6, BareSteps, QuietFollows DEF Quiet
<1>11. answer.merchant = p => Mine(p, answer.ref)
  BY <1>3 DEF Heard, Mine
<1>7. CASE RecordPending(r, p, answer.ref, {"initiating", "uncertain"}) /\ answer.merchant = p
  BY <1>1, <1>2, <1>4, <1>7, <1>11, RecordPendingMoves
<1>8. CASE (Finish(r) \/ Done(r)) /\ Quiet
  BY <1>1, <1>2, <1>5, <1>8, FinishSteps, DoneSteps, QuietFollows DEF Quiet
<1>9. CASE /\ answer.merchant = p /\ Adopts(db, p, OpenStatus, answer.ref) /\ ~ RefTaken(db, p, answer.ref)
           /\ Write(ToFailed(db, p, answer.ref), p) /\ Done(r)
  <2>1. PICK n : n = ToFailed(db, p, answer.ref)
    OBVIOUS
  <2>2. PICK a : /\ Change(db, n, p, a, {}, {})
                 /\ Becomes(db.pay[p], a, "failed", answer.ref)
                 /\ ~ a.open /\ a.period = db.pay[p].period
    BY <1>2, <1>4, <2>1, FailedChange DEF Base
  <2>3. /\ Becomes(db.pay[p], a, a.status, a.ref) /\ Links(p, a.ref)
        /\ Turns(db.pay[p], a) /\ a.status # "review"
    BY <1>4, <1>9, <1>11, <2>2, AdoptsLinks DEF Becomes, Turns
  <2> QED
    BY <1>1, <1>2, <1>9, <2>1, <2>2, <2>3, DoneSteps, TurnMoves
<1>10. CASE answer.state = "succeeded" /\ Quiet
            /\ Go(r, "finalize", [task[r] EXCEPT !.ref = Null])
  <2>1. PICK t \in Work : t = task[r]
    BY <1>1, PayOf
  <2>2. PICK w : w = [t EXCEPT !.ref = Null]
    OBVIOUS
  <2>3. w \in Work /\ w.pay = p /\ w.answer = answer
    BY <1>2, <1>3, <2>1, <2>2 DEF Work
  <2>4. Heard(answer, prov')
    BY <1>3, <1>5, <1>10
  <2>5. /\ "finalize" \in Stage \ {"idle"}
        /\ Fits("finalize", w) /\ Names("finalize", w, db') /\ Told("finalize", w, prov')
    BY <1>5, <1>10, <2>3, <2>4 DEF Stage, TxStage, Fits, Names, Told
  <2>6. Steps(r)
    BY <1>10, <2>1, <2>2, <2>3, <2>5, GoSteps
  <2> QED
    BY <1>1, <1>10, <2>6, QuietFollows DEF Quiet
<1> QED
  BY <1>2, <1>3, <1>4, <1>6, <1>7, <1>8, <1>9, <1>10 DEF Apply, RecordFailure, Concordant

----------------------------------------------------------------------------
(* Transactions *)

\* What a transaction reads.
LEMMA SnapIs ==
  ASSUME Base, NEW r \in Task, snap[r] # Absent, NEW s, s = snap[r].db
  PROVE  /\ s \in Documents /\ Bought(s, now) /\ Reads(s, db, stale[r])
         /\ Names(pc[r], task[r], s)
         /\ snap[r].at \in Nat /\ now \in Nat /\ Clock(r) \subseteq 0 .. now
<1>1. snap[r] \in Snapshot /\ now \in Nat
  BY PaymentTasks DEF Base
<1>2. s \in Documents /\ snap[r].at \in Nat
  BY <1>1 DEF Snapshot
<1>3. Clock(r) \subseteq 0 .. now
  BY <1>1, <1>2 DEF Clock
<1> QED
  BY <1>1, <1>2, <1>3 DEF Base, SnapOK

\* The index on the numbers of periods: who adds the next one has read all.
LEMMA NextNumber ==
  ASSUME NEW P, NEW Q, Numbered(P), Numbered(Q), P \subseteq Q,
         \A y \in Q : y.seq # Cardinality(P) + 1
  PROVE  P = Q
<1>1. Cardinality(P) \in Nat /\ Cardinality(Q) \in Nat
  BY FS_CardinalityType DEF Numbered
<1>2. Cardinality(P) <= Cardinality(Q)
  BY FS_Subset DEF Numbered
<1>3. Cardinality(P) = Cardinality(Q)
  <2>1. SUFFICES ASSUME Cardinality(P) < Cardinality(Q)
                 PROVE  FALSE
    BY <1>1, <1>2
  <2>2. Cardinality(P) + 1 \in 1 .. Cardinality(Q)
    BY <1>1, <2>1
  <2> QED
    BY <2>2 DEF Numbered
<1>4. ASSUME NEW y \in Q
      PROVE  y \in P
  <2>1. PICK z \in P : z.seq = y.seq
    BY <1>3 DEF Numbered
  <2> QED
    BY <2>1 DEF Numbered
<1> QED
  BY <1>4

LEMMA SamePeriods ==
  ASSUME NEW c, NEW d, c.periods = d.periods
  PROVE  /\ \A source : Granted(c, source) = Granted(d, source)
         /\ \A source, length, at :
              NextPeriod(c, source, length, at) = NextPeriod(d, source, length, at)
  BY DEF Granted, NextPeriod, LastSeq, StartsAt, LatestEnd

\* The transaction of r commits what its body made of its snapshot s.
Commits(r, s, n, p, a, X, R) ==
  /\ snap[r] # Absent /\ s = snap[r].db
  /\ Change(s, n, p, a, X, R) /\ X \cap s.periods = {} /\ R \cap s.records = {}
  /\ CommitTx(r, n, {p})

\* The documents after it: what it did to its snapshot.
Committed(s, p, a, X, R) ==
  /\ Change(db, db', p, a, X, R) /\ s.pay[p] = db.pay[p]
  /\ \A x \in X : x.seq = Cardinality(s.periods) + 1 => s.periods = db.periods
  /\ \A rec \in R, y \in db.records : rec.op # y.op

\* A commit without a conflict has read what it writes, and does to the
\* current documents what it did to its snapshot.
LEMMA CommitChange ==
  ASSUME Base, NEW r \in Task, NEW s, NEW p \in Payment, NEW n,
         NEW a \in PaymentDoc, NEW X, NEW R, Commits(r, s, n, p, a, X, R)
  PROVE  Committed(s, p, a, X, R)
<1>1. /\ s \in Documents /\ Bought(s, now) /\ Reads(s, db, stale[r])
      /\ db \in Documents /\ Bought(db, now) /\ s = snap[r].db
  BY SnapIs DEF Base, Commits
<1>2. /\ n \in Documents /\ n.pay[p] = a
      /\ n.periods = s.periods \cup X /\ n.records = s.records \cup R
  BY DEF Change, Commits
<1>3. NewPeriods(s, n) = X /\ NewRecords(s, n) = R
  BY <1>2 DEF Commits, NewPeriods, NewRecords
<1>4. /\ {p} \cap stale[r] = {} /\ ~ Collides(db, s, n)
      /\ db' = [pay     |-> [q \in Payment |-> IF q \in {p} THEN n.pay[q] ELSE db.pay[q]],
                periods |-> db.periods \cup X,
                records |-> db.records \cup R]
  BY <1>1, <1>3 DEF Commits, CommitTx, Conflicts
<1>5. s.pay[p] = db.pay[p]
  BY <1>1, <1>4 DEF Reads
<1>6. \A x \in X, y \in db.periods : x.seq # y.seq
  BY <1>3, <1>4 DEF Collides
<1>7. \A rec \in R, y \in db.records : rec.op # y.op
  BY <1>3, <1>4 DEF Collides
<1>8. ASSUME NEW x \in X, x.seq = Cardinality(s.periods) + 1
      PROVE  s.periods = db.periods
  BY <1>1, <1>6, <1>8, NextNumber DEF Bought, Reads
<1>9. /\ db'.pay = [q \in Payment |-> IF q = p THEN a ELSE db.pay[q]]
      /\ db'.periods = db.periods \cup X /\ db'.records = db.records \cup R
  BY <1>2, <1>4
<1>10. /\ db.pay \in [Payment -> PaymentDoc \cup {Absent}]
       /\ db.periods \in SUBSET PeriodDoc /\ db.records \in SUBSET Record
       /\ n.periods \in SUBSET PeriodDoc /\ n.records \in SUBSET Record
  BY <1>1, <1>2, DocumentFields
<1>11. db' \in Documents
  <2>1. db'.pay \in [Payment -> PaymentDoc \cup {Absent}]
    BY <1>9, <1>10
  <2>2. db'.periods \in SUBSET PeriodDoc /\ db'.records \in SUBSET Record
    BY <1>2, <1>9, <1>10
  <2>3. db' = [pay |-> db'.pay, periods |-> db'.periods, records |-> db'.records]
    BY <1>4
  <2> QED
    BY <2>1, <2>2, <2>3 DEF Documents
<1>12. Change(db, db', p, a, X, R)
  BY <1>9, <1>11 DEF Change
<1> QED
  BY <1>5, <1>7, <1>8, <1>12 DEF Committed

\* What a success makes of a payment that was not paid, on any documents.
LEMMA BoughtSucceeds ==
  ASSUME NEW s \in Documents, Bought(s, now), now \in Nat, NEW p \in Payment,
         Exists(s, p), s.pay[p].status # "succeeded", NEW ref \in Ref, NEW at \in 0 .. now,
         NEW x, x = NextPeriod(s, p, s.pay[p].request.length, at),
         NEW m, m = Succeed(s, p, ref, at)
  PROVE  \E a : /\ Change(s, m, p, a, {x}, {})
                /\ Becomes(s.pay[p], a, "succeeded", ref)
                /\ ~ a.open /\ a.period = x.seq
                /\ x \notin s.periods
<1>1. Granted(s, p) = {}
  BY DEF Bought
<1>2. Numbered(s.periods) /\ Following(s.periods, now)
  BY Zenon DEF Bought
<1> QED
  BY <1>1, <1>2, SucceedChange, Zenon

\* A payment is paid by a commit without a conflict.
LEMMA CommitBuys ==
  ASSUME Base, NEW r \in Task, snap[r] # Absent, NEW s, s = snap[r].db,
         NEW p \in Payment, Exists(s, p), NEW at \in Clock(r), NEW ref, Collected(prov, p, ref),
         s.pay[p].status \in Finalizable \cup {"review"},
         s.pay[p].ref \in {Null, ref}, ~ RefTaken(db, p, ref),
         NEW n, NEW R, NEW x, x = NextPeriod(s, p, s.pay[p].request.length, at),
         NEW a, Change(s, n, p, a, {x}, R), Becomes(s.pay[p], a, "succeeded", ref),
         ~ a.open, a.period = x.seq, x \notin s.periods, R \cap s.records = {},
         CommitTx(r, n, {p}),
         \/ s.pay[p].status \in Finalizable
         \/ s.pay[p].status \in {"uncertain", "review"} /\ \E rec \in R : rec.pay = p
  PROVE  Buys(p)
<1>1. /\ s \in Documents /\ Bought(s, now) /\ Reads(s, db, stale[r]) /\ now \in Nat
      /\ at \in 0 .. now
  BY SnapIs
<1>2. a \in PaymentDoc /\ a.status = "succeeded" /\ a.ref = ref /\ ref \in Ref
  BY DEF Becomes, Collected
<1>3. s.pay[p].request.length \in Length /\ p \in Source
  BY <1>1, DocumentFields DEF PaymentDoc, Request, Source
<1>4. x.seq = Cardinality(s.periods) + 1
  <2>1. LastSeq(s) = Cardinality(s.periods)
    BY <1>1, LastSeqIs DEF Bought
  <2> QED
    BY <2>1 DEF NextPeriod
<1>5. PICK X : X = {x} /\ X \cap s.periods = {} /\ Change(s, n, p, a, X, R)
  OBVIOUS
<1>6. /\ Change(db, db', p, a, {x}, R) /\ s.pay[p] = db.pay[p]
      /\ x.seq = Cardinality(s.periods) + 1 => s.periods = db.periods
      /\ \A rec \in R, y \in db.records : rec.op # y.op
  <2>1. Committed(s, p, a, X, R)
    <3>1. Commits(r, s, n, p, a, X, R)
      BY <1>5 DEF Commits
    <3> QED
      BY <1>2, <3>1, CommitChange
  <2> QED
    BY <1>5, <2>1 DEF Committed
<1>7. s.periods = db.periods
  BY <1>4, <1>6
<1>8. x = NextPeriod(db, p, db.pay[p].request.length, at)
  BY <1>6, <1>7, SamePeriods
<1>9. s.pay[p].status # "succeeded"
  BY DEF Finalizable, OpenStatus
<1>10. Granted(s, p) = {}
  BY <1>1, <1>9 DEF Bought
<1>11. Granted(db, p) = {}
  <2>1. Granted(s, p) = Granted(db, p)
    BY <1>7, Zenon DEF Granted
  <2> QED
    BY <1>10, <2>1, Zenon
<1>12. Exists(db, p)
  BY <1>1 DEF Reads
<1>13. Links(p, a.ref) /\ Collected(prov, p, a.ref)
  BY <1>2, <1>6 DEF Links, Mine, Collected
<1>14. \/ db.pay[p].status \in Finalizable
       \/ /\ db.pay[p].status \in {"uncertain", "review"}
          /\ \E rec \in R \ db.records : rec.pay = p
  BY <1>6
<1>15. Becomes(db.pay[p], a, "succeeded", a.ref)
  BY <1>2, <1>6
<1> QED
  BY <1>1, <1>6, <1>8, <1>11, <1>12, <1>13, <1>14, <1>15 DEF Buys

LEMMA FinalizeMoves ==
  ASSUME Base, NEW r \in Task, Finalize(r)
  PROVE  Advances(r) /\ UNCHANGED World
<1>1. /\ pc[r] = "finalize" /\ pc[r] # "idle" /\ pc[r] \in Paying /\ snap[r] # Absent
      /\ UNCHANGED World /\ prov' = prov
  BY DEF Finalize, InBody, Paying, World
<1>2. PICK p \in Payment : p = task[r].pay /\ Exists(db, p)
  BY <1>1, PayOf
<1>3. PICK answer \in Answer : answer = task[r].answer /\ Heard(answer, prov)
                               /\ answer.state = "succeeded"
  BY <1>1 DEF Base, TaskOK, Fits, Told
<1>4. PICK s : s = snap[r].db
  OBVIOUS
<1>5. /\ s \in Documents /\ Bought(s, now) /\ now \in Nat /\ Clock(r) \subseteq 0 .. now
      /\ Exists(s, p)
  BY <1>1, <1>2, <1>4, SnapIs DEF Names
<1>6. CASE EndTx(r) /\ (Done(r) \/ Go(r, "review", Bare(r)))
  <2>1. Exists(db', task[r].pay)
    BY <1>2, <1>6 DEF EndTx
  <2> QED
    BY <1>1, <1>6, <2>1, DoneSteps, BareSteps, EndFollows
<1>7. ASSUME NEW at \in Clock(r), RetryTx(r, Succeed(s, p, answer.ref, at), {p})
      PROVE  Advances(r)
  BY <1>1, <1>7, RetrySteps
<1>8. ASSUME NEW at \in Clock(r), CommitTx(r, Succeed(s, p, answer.ref, at), {p}),
             Done(r) \/ Finish(r),
             Finalizes(s, p, answer), Concordant(p, answer, s.pay[p].ref),
             ~ RefTaken(db, p, answer.ref)
      PROVE  Advances(r)
  <2>1. PICK n, x : /\ n = Succeed(s, p, answer.ref, at)
                    /\ x = NextPeriod(s, p, s.pay[p].request.length, at)
    OBVIOUS
  <2>2. /\ s.pay[p].status \in Finalizable /\ s.pay[p].status # "succeeded"
        /\ s.pay[p].ref \in {Null, answer.ref}
        /\ answer.merchant = p /\ answer.same /\ answer.ref \in Ref
    BY <1>8 DEF Finalizes, Moves, Finalizable, OpenStatus, Concordant, Answer
  <2>4. PICK a : /\ Change(s, n, p, a, {x}, {})
                 /\ Becomes(s.pay[p], a, "succeeded", answer.ref)
                 /\ ~ a.open /\ a.period = x.seq /\ x \notin s.periods
    BY <1>5, <2>1, <2>2, BoughtSucceeds
  <2>5. Collected(prov, p, answer.ref)
    BY <1>3, <2>2 DEF Collected, Heard
  <2>6. {} \cap s.records = {} /\ CommitTx(r, n, {p})
    BY <1>8, <2>1
  <2>7. Buys(p)
    BY <1>1, <1>4, <1>5, <1>8, <2>1, <2>2, <2>4, <2>5, <2>6, CommitBuys
  <2>8. DocStep({p}) /\ LeaveTx(r, {p})
    BY <1>8, <2>7 DEF DocStep, CommitTx
  <2>9. Exists(db', task[r].pay)
    BY <1>2, <2>8, DocStepGrows DEF Grown, Reads
  <2>10. Steps(r)
    BY <1>1, <1>8, <2>9, DoneSteps, FinishSteps
  <2> QED
    BY <2>8, <2>10, LeaveFollows
<1> QED
  BY <1>1, <1>2, <1>3, <1>4, <1>6, <1>7, <1>8 DEF Finalize

\* The body of a reconciliation, on a payment as its plan saw it.
LEMMA SettleMoves ==
  ASSUME Base, NEW r \in Task, pc[r] = "settle", snap[r] # Absent,
         NEW s, s = snap[r].db, NEW p \in Payment, p = task[r].pay,
         Unmoved(s, r), ~ RefTaken(db, p, task[r].ref),
         ~ \E x \in s.records : x.op = task[r].op,
         NEW at \in Clock(r), CommitTx(r, Settle(s, p, task[r].answer, task[r].op, at), {p})
  PROVE  DocStep({p})
<1>1. PICK answer \in Answer : answer = task[r].answer /\ Heard(answer, prov)
  BY DEF Base, TaskOK, Fits, Told
<1>2. PICK ref \in Ref, op \in Operation, seen \in PaymentDoc :
        ref = task[r].ref /\ op = task[r].op /\ seen = task[r].seen
  BY DEF Base, TaskOK, Fits
<1>3. /\ seen.status \in {"uncertain", "review"} /\ seen.ref \in {Null, ref}
      /\ answer.merchant = p /\ answer.same /\ answer.ref = ref
      /\ answer.state = "pending" => seen.open
  <2>1. ref # Null
    BY PaymentConstants
  <2>2. Fits("settle", task[r])
    BY DEF Base, TaskOK
  <2>3. Concordant(p, answer, ref) /\ (answer.state = "pending" => seen.open)
    BY <1>1, <1>2, <2>2 DEF Fits
  <2>4. seen.status \in {"uncertain", "review"} /\ seen.ref \in {Null, ref}
    BY <1>2, <2>2 DEF Fits
  <2> QED
    BY <2>1, <2>3, <2>4 DEF Concordant
<1>4. PICK b : b = s.pay[p]
  OBVIOUS
<1>5. /\ b.status = seen.status /\ b.open = seen.open /\ b.ref = seen.ref
  BY <1>2, <1>4 DEF Unmoved
<1>6. /\ s \in Documents /\ Bought(s, now) /\ now \in Nat /\ Clock(r) \subseteq 0 .. now
      /\ Exists(s, p) /\ Reads(s, db, stale[r])
  BY SnapIs DEF Names, Paying
<1>7. PICK rec : rec = [op |-> op, pay |-> p, action |-> ActionFor(answer)]
  OBVIOUS
<1>8. answer.state \in {"succeeded", "pending", "failed"}
  BY DEF Answer
<1>9. rec \in Record /\ rec.op = op /\ rec.pay = p
  BY <1>7, <1>8 DEF Record, ActionFor, Action
<1>10. {rec} \cap s.records = {}
  BY <1>2, <1>9
<1>11. PICK n : n = Settle(s, p, answer, op, at)
  OBVIOUS
<1>12. CommitTx(r, n, {p})
  BY <1>1, <1>2, <1>11
<1>13. ~ RefTaken(db, p, ref)
  BY <1>2
<1>14. Exists(db, p) /\ db \in Documents
  BY <1>6 DEF Reads, Base
<1>15. CASE answer.state = "succeeded"
  <2>1. PICK m, x : /\ m = Succeed(s, p, ref, at)
                    /\ x = NextPeriod(s, p, s.pay[p].request.length, at)
    OBVIOUS
  <2>2. b.status # "succeeded"
    BY <1>3, <1>5
  <2>4. PICK a : /\ Change(s, m, p, a, {x}, {})
                 /\ Becomes(s.pay[p], a, "succeeded", ref)
                 /\ ~ a.open /\ a.period = x.seq /\ x \notin s.periods
    BY <1>4, <1>6, <2>1, <2>2, BoughtSucceeds
  <2>5. n = [m EXCEPT !.records = @ \cup {rec}]
    BY <1>3, <1>7, <1>11, <1>15, <2>1 DEF Settle
  <2>6. Change(s, n, p, a, {x}, {rec})
    BY <1>6, <1>9, <2>4, <2>5, NotedChange
  <2>7. Collected(prov, p, ref)
    BY <1>1, <1>3, <1>15 DEF Collected, Heard
  <2>8. s.pay[p].status \in {"uncertain", "review"} /\ s.pay[p].ref \in {Null, ref}
    BY <1>3, <1>4, <1>5
  <2>9. s.pay[p].status \in Finalizable \cup {"review"}
    BY <2>8 DEF Finalizable, OpenStatus
  <2>10. \E y \in {rec} : y.pay = p
    BY <1>9
  <2>11. Buys(p)
    <3>1. PICK R : R = {rec}
      OBVIOUS
    <3>2. /\ Change(s, n, p, a, {x}, R) /\ R \cap s.records = {}
          /\ \E y \in R : y.pay = p
      BY <1>10, <2>6, <2>10, <3>1, Zenon
    <3>3. Exists(s, p) /\ x = NextPeriod(s, p, s.pay[p].request.length, at)
      BY <1>6, <2>1, Zenon
    <3> QED
      BY <1>12, <1>13, <2>4, <2>7, <2>8, <2>9, <3>2, <3>3, CommitBuys
  <2> QED
    BY <2>11 DEF DocStep
<1>16. ASSUME NEW m, NEW a, Change(s, m, p, a, {}, {}),
              n = [m EXCEPT !.records = @ \cup {rec}],
              Becomes(b, a, a.status, a.ref), a.period = b.period, a.ref = ref,
              a.status \in {"pending", "failed"}, answer.state # "succeeded",
              a.status = "pending" => b.open /\ a.open,
              a.status = "failed" => ~ a.open
       PROVE  DocStep({p})
  <2>1. PICK X, R : X = {} /\ R = {rec}
    OBVIOUS
  <2>2. Change(s, n, p, a, X, R) /\ a \in PaymentDoc
    BY <1>6, <1>9, <1>16, <2>1, NotedChange DEF Becomes
  <2>3. Commits(r, s, n, p, a, X, R)
    BY <1>10, <1>12, <2>1, <2>2 DEF Commits
  <2>4. Committed(s, p, a, X, R)
    BY <2>2, <2>3, CommitChange
  <2>5. Change(db, db', p, a, {}, {rec}) /\ b = db.pay[p] /\ rec \notin db.records
    BY <1>4, <2>1, <2>4 DEF Committed
  <2>6. Links(p, ref)
    BY <1>1, <1>3, <1>5, <1>13, <2>5 DEF Links, Mine, Heard
  <2>7. Settles(p, b, a, {rec})
    BY <1>1, <1>2, <1>3, <1>5, <1>9, <1>13, <1>16, <2>5 DEF Settles
  <2>9. Writes(p, a)
    BY <1>16 DEF Writes
  <2>8. Rewrites(p)
    BY <1>14, <1>16, <2>5, <2>6, <2>7, <2>9 DEF Rewrites
  <2> QED
    BY <2>8 DEF DocStep
<1>17. CASE answer.state = "pending"
  <2>1. PICK m : m = ToPending(s, p, ref)
    OBVIOUS
  <2>2. PICK a : /\ Change(s, m, p, a, {}, {}) /\ Becomes(b, a, "pending", ref)
                 /\ a.open = b.open /\ a.period = b.period
    <3>1. /\ s \in Documents /\ Exists(s, p) /\ ref \in Ref /\ m = ToPending(s, p, ref)
      BY <1>4, <1>6, <2>1
    <3>2. \E a : /\ Change(s, m, p, a, {}, {}) /\ Becomes(s.pay[p], a, "pending", ref)
                /\ a.open = s.pay[p].open /\ a.period = s.pay[p].period
      BY <3>1, PendingChange
    <3> QED
      BY <1>4, <3>2, Zenon
  <2>3. n = [m EXCEPT !.records = @ \cup {rec}]
    BY <1>3, <1>7, <1>11, <1>17, <2>1 DEF Settle
  <2>4. b.open
    BY <1>3, <1>5, <1>17
  <2>5. /\ Becomes(b, a, a.status, a.ref) /\ a.ref = ref /\ a.status = "pending" /\ a.open
    BY <2>2, <2>4 DEF Becomes
  <2> QED
    BY <1>16, <1>17, <2>2, <2>3, <2>4, <2>5
<1>18. CASE answer.state = "failed"
  <2>1. PICK m : m = ToFailed(s, p, ref)
    OBVIOUS
  <2>2. PICK a : /\ Change(s, m, p, a, {}, {}) /\ Becomes(b, a, "failed", ref)
                 /\ ~ a.open /\ a.period = b.period
    BY <1>4, <1>6, <2>1, FailedChange
  <2>3. n = [m EXCEPT !.records = @ \cup {rec}]
    BY <1>3, <1>7, <1>11, <1>18, <2>1 DEF Settle
  <2>4. Becomes(b, a, a.status, a.ref) /\ a.ref = ref /\ a.status = "failed"
    BY <2>2 DEF Becomes
  <2> QED
    BY <1>16, <1>18, <2>2, <2>3, <2>4
<1> QED
  BY <1>8, <1>15, <1>17, <1>18

LEMMA SettleTxMoves ==
  ASSUME Base, NEW r \in Task, SettleTx(r)
  PROVE  Advances(r) /\ UNCHANGED World
<1>1. /\ pc[r] = "settle" /\ pc[r] # "idle" /\ pc[r] \in Paying /\ snap[r] # Absent
      /\ UNCHANGED World /\ prov' = prov
  BY DEF SettleTx, InBody, Paying, World
<1>2. PICK p \in Payment : p = task[r].pay
  BY <1>1, PayOf
<1>3. PICK s : s = snap[r].db
  OBVIOUS
<1>4. CASE EndTx(r) /\ Finish(r)
  BY <1>1, <1>4, FinishSteps, EndFollows
<1>5. ASSUME NEW at \in Clock(r),
             RetryTx(r, Settle(s, p, task[r].answer, task[r].op, at), {p})
      PROVE  Advances(r)
  BY <1>1, <1>5, RetrySteps
<1>6. ASSUME NEW at \in Clock(r),
             CommitTx(r, Settle(s, p, task[r].answer, task[r].op, at), {p}), Finish(r),
             ~ \E x \in s.records : x.op = task[r].op, Unmoved(s, r),
             ~ RefTaken(db, p, task[r].ref)
      PROVE  Advances(r)
  <2>1. DocStep({p})
    BY <1>1, <1>2, <1>3, <1>6, SettleMoves
  <2>2. LeaveTx(r, {p}) /\ Steps(r)
    BY <1>6, FinishSteps DEF CommitTx
  <2> QED
    BY <2>1, <2>2, LeaveFollows
<1> QED
  BY <1>1, <1>2, <1>3, <1>4, <1>5, <1>6 DEF SettleTx

\* A transaction that writes no payment adds its periods to those of others.
LEMMA CommitNoPayment ==
  ASSUME Base, NEW r \in Task, NEW s \in Documents, NEW n, NEW X,
         s = snap[r].db, CommitTx(r, n, {}),
         n.periods = s.periods \cup X, X \cap s.periods = {}, n.records = s.records
  PROVE  /\ db' = [pay |-> db.pay, periods |-> db.periods \cup X, records |-> db.records]
         /\ \A x \in X, y \in db.periods : x.seq # y.seq
<1>1. NewPeriods(s, n) = X /\ NewRecords(s, n) = {}
  BY DEF NewPeriods, NewRecords
<1>2. /\ ~ Collides(db, s, n)
      /\ db' = [pay     |-> [q \in Payment |-> IF q \in {} THEN n.pay[q] ELSE db.pay[q]],
                periods |-> db.periods \cup X,
                records |-> db.records \cup {}]
  BY <1>1 DEF CommitTx, Conflicts
<1>3. [q \in Payment |-> IF q \in {} THEN n.pay[q] ELSE db.pay[q]] = db.pay
  BY DocumentFields DEF Base
<1>4. \A x \in X, y \in db.periods : x.seq # y.seq
  BY <1>1, <1>2 DEF Collides
<1> QED
  BY <1>2, <1>3, <1>4

LEMMA GrantTxMoves ==
  ASSUME Base, NEW r \in Task, GrantTx(r)
  PROVE  Advances(r) /\ UNCHANGED World
<1>1. pc[r] = "grant" /\ pc[r] # "idle" /\ snap[r] # Absent /\ UNCHANGED World /\ prov' = prov
  BY DEF GrantTx, InBody, World
<1>2. PICK m \in Manual, length \in Length : m = task[r].source /\ length = task[r].length
  BY <1>1 DEF Base, TaskOK, Fits
<1>3. PICK s : s = snap[r].db
  OBVIOUS
<1>4. /\ s \in Documents /\ Bought(s, now) /\ now \in Nat /\ Clock(r) \subseteq 0 .. now
      /\ Reads(s, db, stale[r]) /\ db \in Documents /\ Bought(db, now)
  BY <1>1, <1>3, SnapIs DEF Base
<1>5. ASSUME NEW at \in Clock(r), RetryTx(r, Grant(s, m, length, at), {})
      PROVE  Advances(r)
  BY <1>1, <1>5, RetrySteps
<1>6. ASSUME NEW at \in Clock(r), CommitTx(r, Grant(s, m, length, at), {}), Finish(r)
      PROVE  Advances(r)
  <2>1. PICK n : n = Grant(s, m, length, at)
    OBVIOUS
  <2>2. CommitTx(r, n, {}) /\ LeaveTx(r, {}) /\ Steps(r)
    BY <1>6, <2>1, FinishSteps DEF CommitTx
  <2>3. CASE Granted(s, m) # {}
    <3>1. n = s
      BY <2>1, <2>3 DEF Grant
    <3>2. db' = [pay |-> db.pay, periods |-> db.periods \cup {}, records |-> db.records]
      BY <1>3, <1>4, <2>2, <3>1, CommitNoPayment
    <3>3. db' = db
      BY <1>4, <3>2, DocumentFields
    <3> QED
      BY <2>2, <3>3, LeaveFollows DEF DocStep
  <2>4. CASE Granted(s, m) = {}
    <3>1. PICK x : x = NextPeriod(s, m, length, at)
      OBVIOUS
    <3>2. m \in Source /\ at \in 0 .. now
      BY <1>4 DEF Source
    <3>3. Numbered(s.periods) /\ Following(s.periods, now) /\ Numbered(db.periods)
      BY <1>4 DEF Bought
    <3>4. /\ n.periods = s.periods \cup {x} /\ x \notin s.periods /\ n.records = s.records
      BY <1>4, <2>1, <2>4, <3>1, <3>2, <3>3, GrantChange
    <3>5. x \in PeriodDoc /\ x.seq = Cardinality(s.periods) + 1
      BY <1>4, <3>1, <3>2, <3>3, StartIs
    <3>6. /\ db' = [pay |-> db.pay, periods |-> db.periods \cup {x}, records |-> db.records]
          /\ \A z \in {x}, y \in db.periods : z.seq # y.seq
      <4>1. PICK X : X = {x} /\ X \cap s.periods = {}
        BY <3>4
      <4> QED
        BY <1>3, <1>4, <2>2, <3>4, <4>1, CommitNoPayment
    <3>7. s.periods = db.periods
      BY <1>4, <3>3, <3>5, <3>6, NextNumber DEF Reads
    <3>8. Granted(db, m) = {} /\ x = NextPeriod(db, m, length, at)
      BY <2>4, <3>1, <3>7, SamePeriods
    <3>9. db' \in Documents
      <4>1. db.periods \cup {x} \in SUBSET PeriodDoc
        BY <1>4, <3>5, DocumentFields
      <4> QED
        BY <1>4, <3>6, <4>1, DocumentFields DEF Documents
    <3>10. Grants(m)
      BY <3>2, <3>6, <3>8, <3>9 DEF Grants
    <3> QED
      BY <2>2, <3>10, LeaveFollows DEF DocStep
  <2> QED
    BY <2>3, <2>4
<1> QED
  BY <1>1, <1>2, <1>3, <1>5, <1>6 DEF GrantTx

----------------------------------------------------------------------------
(* Reconciliation and the ends of tasks *)

LEMMA ConsultMoves ==
  ASSUME Base, NEW r \in Task, Consult(r)
  PROVE  Advances(r) /\ UNCHANGED World
<1>1. /\ pc[r] = "consult" /\ pc[r] # "idle" /\ pc[r] \in Paying /\ pc[r] \notin TxStage
      /\ Quiet
  BY DEF Consult, Paying, TxStage
<1>2. PICK t \in Work : t = task[r] /\ t.pay \in Payment /\ Exists(db, t.pay)
  BY <1>1, PayOf
<1>3. /\ t.ref \in Ref /\ t.op \in Operation /\ t.seen \in PaymentDoc
      /\ t.seen.status \in {"uncertain", "review"} /\ t.seen.ref \in {Null, t.ref}
  BY <1>1, <1>2 DEF Base, TaskOK, Fits
<1>4. CASE Finish(r)
  BY <1>1, <1>4, FinishSteps, QuietFollows DEF Quiet
<1>5. CASE /\ prov[t.ref] # Absent
           /\ Concordant(t.pay, AnswerOf(t.ref), t.ref)
           /\ Settleable(t.seen, AnswerOf(t.ref))
           /\ Go(r, "settle", [task[r] EXCEPT !.answer = AnswerOf(t.ref)])
  <2>1. PICK answer \in Answer : answer = AnswerOf(t.ref) /\ Heard(answer, prov)
    BY <1>3, <1>5, AnswerOfType
  <2>2. PICK w : w = [t EXCEPT !.answer = answer]
    OBVIOUS
  <2>3. /\ w \in Work /\ w.pay = t.pay /\ w.answer = answer /\ w.ref = t.ref
        /\ w.op = t.op /\ w.seen = t.seen
    BY <2>2 DEF Work
  <2>4. answer.state = "pending" => w.seen.open
    BY <1>5, <2>1, <2>3 DEF Settleable
  <2>5. Exists(db', t.pay) /\ Heard(answer, prov')
    BY <1>1, <1>2, <2>1 DEF Quiet, World
  <2>6. /\ "settle" \in Stage \ {"idle"}
        /\ Fits("settle", w) /\ Names("settle", w, db') /\ Told("settle", w, prov')
    <3>1. Concordant(w.pay, w.answer, w.ref)
      BY <1>5, <2>1, <2>3
    <3> QED
      BY <1>2, <1>3, <2>3, <2>4, <2>5, <3>1 DEF Stage, TxStage, Fits, Names, Told
  <2>7. Steps(r)
    BY <1>2, <1>5, <2>1, <2>2, <2>3, <2>6, GoSteps
  <2> QED
    BY <1>1, <2>7, QuietFollows DEF Quiet
<1> QED
  BY <1>1, <1>2, <1>4, <1>5 DEF Consult

LEMMA RespondMoves ==
  ASSUME Base, NEW r \in Task, Respond(r)
  PROVE  /\ Advances(r) /\ notices' = notices \ {task[r].notice}
         /\ UNCHANGED <<db, prov, now, snap, stale>>
  BY FinishSteps, QuietFollows DEF Respond, TxStage

LEMMA GiveUpMoves ==
  ASSUME Base, NEW r \in Task, GiveUp(r)
  PROVE  Advances(r) /\ UNCHANGED World /\ db' = db
  BY FinishSteps, EndFollows DEF GiveUp, EndTx

LEMMA CrashMoves ==
  ASSUME Base, NEW r \in Task, Crash(r)
  PROVE  Advances(r) /\ UNCHANGED World /\ db' = db
  BY FinishSteps, EndFollows DEF Crash, EndTx, World

----------------------------------------------------------------------------
(* Every step *)

\* Time passes, or the provider and its notifications go on by themselves.
Rests == UNCHANGED <<db, pc, task, snap, stale>>

\* What every step does to the documents and to the provider.
Goes ==
  /\ Base' /\ ProvKeeps /\ now' >= now
  /\ \E W \in SUBSET Payment : DocStep(W)

LEMMA SameProvider ==
  ASSUME Base, prov' = prov
  PROVE  ProvKeeps
  BY DEF Base, ProvKeeps

LEMMA AdvanceGoes ==
  ASSUME Base, NEW r \in Task, Advances(r), ProvKeeps, notices' \subseteq Ref, now' = now
  PROVE  Goes
<1>1. Base' /\ now' >= now
  BY PaymentTasks, AdvanceBase DEF Base
<1> QED
  BY <1>1 DEF Goes, Advances

LEMMA RestsGoes ==
  ASSUME Base, Rests, ProvKeeps, notices' \subseteq Ref, now' \in 0 .. MaxNow, now <= now'
  PROVE  Goes
<1>1. now \in Nat /\ now' \in Nat /\ db \in Documents /\ Bought(db, now)
  BY PaymentTasks DEF Base
<1>2. ASSUME NEW d \in Documents, Bought(d, now)
      PROVE  Bought(d, now')
  <2>1. Following(d.periods, now')
    BY <1>1, <1>2, DocumentFields, FollowingLater DEF Bought
  <2> QED
    BY <1>2, <2>1 DEF Bought
<1>3. \A q \in Task : TaskOK(q)'
  <2>1. Grown({})
    BY <1>1, ReadsSelf DEF Rests, Grown
  <2> QED
    BY <2>1, WaitStays DEF Rests
<1>4. ASSUME NEW q \in Task, snap[q] # Absent
      PROVE  /\ pc[q] \in TxStage /\ snap[q].at <= now'
             /\ Bought(snap[q].db, now') /\ Reads(snap[q].db, db, stale[q])
             /\ Names(pc[q], task[q], snap[q].db)
  <2>1. /\ pc[q] \in TxStage /\ snap[q].at <= now
        /\ Bought(snap[q].db, now) /\ Reads(snap[q].db, db, stale[q])
        /\ Names(pc[q], task[q], snap[q].db)
    BY <1>4 DEF Base, SnapOK
  <2>2. snap[q].db \in Documents /\ snap[q].at \in Nat
    BY <1>4 DEF Base, Snapshot
  <2> QED
    BY <1>1, <1>2, <2>1, <2>2
<1>5. \A q \in Task : SnapOK(q)'
  BY <1>4 DEF Rests, SnapOK
<1>6. Base'
  BY <1>1, <1>2, <1>3, <1>5 DEF Base, Rests, ProvKeeps
<1>7. DocStep({})
  BY DEF Rests, DocStep
<1> QED
  BY <1>1, <1>6, <1>7 DEF Goes

LEMMA ProviderSettlesGoes ==
  ASSUME Base, NEW c \in Ref, ProviderSettles(c)
  PROVE  Goes
<1>1. PICK state \in {"failed", "succeeded"}, same \in BOOLEAN :
        /\ prov[c] # Absent
        /\ prov[c].state = "pending" \/ prov[c].state = "failed"
        /\ prov' = [prov EXCEPT ![c].state = state, ![c].same = same]
        /\ notices' = IF state = "succeeded" THEN notices \cup {c} ELSE notices
        /\ UNCHANGED <<db, now, pc, task, snap, stale>>
  BY DEF ProviderSettles
<1>2. PICK doc \in Collection : doc = prov[c]
  BY <1>1 DEF Base
<1>3. PICK next : next = [doc EXCEPT !.state = state, !.same = same]
  OBVIOUS
<1>4. next \in Collection /\ next.merchant = doc.merchant
  BY <1>3 DEF Collection
<1>5. prov' = [prov EXCEPT ![c] = next] /\ prov \in [Ref -> Collection \cup {Absent}]
  BY <1>1, <1>2, <1>3 DEF Base
<1>6. ProvKeeps
  <2>1. prov' \in [Ref -> Collection \cup {Absent}] /\ prov'[c] = next
    BY <1>4, <1>5
  <2>2. next # Absent
    BY <1>4, PaymentSentinels
  <2>3. \A d \in Ref : d # c => prov'[d] = prov[d]
    BY <1>5
  <2>4. next.merchant = prov[c].merchant /\ prov[c].state # "succeeded"
    BY <1>1, <1>2, <1>4
  <2> QED
    BY <2>1, <2>2, <2>3, <2>4, Zenon DEF ProvKeeps
<1>7. notices' \subseteq Ref /\ now' \in 0 .. MaxNow /\ now <= now' /\ Rests
  BY <1>1, PaymentTasks DEF Base, Rests
<1> QED
  BY <1>6, <1>7, RestsGoes

LEMMA ReceiveGoes ==
  ASSUME Base, NEW r \in Task, Receive(r)
  PROVE  Goes
<1>1. notices \subseteq Ref /\ now \in 0 .. MaxNow /\ now <= now
  BY PaymentTasks DEF Base
<1>2. CASE Advances(r) /\ UNCHANGED World
  BY <1>1, <1>2, SameProvider, AdvanceGoes DEF World
<1>3. ASSUME NEW c \in notices, notices' = notices \ {c},
             UNCHANGED <<db, prov, now, pc, task, snap, stale>>
      PROVE  Goes
  BY <1>1, <1>3, SameProvider, RestsGoes DEF Rests
<1> QED
  BY <1>2, <1>3, ReceiveCreateMoves, ReceiveRefreshMoves, ReceiveReconcileMoves,
     ReceiveGrantMoves, ReceiveNoticeMoves DEF Receive

LEMMA StepGoes ==
  ASSUME Base, NEW r \in Task, Step(r) \/ FetchFails(r) \/ GiveUp(r) \/ Crash(r)
  PROVE  Goes
<1>1. notices \subseteq Ref
  BY DEF Base
<1>2. CASE Advances(r) /\ UNCHANGED World
  BY <1>1, <1>2, SameProvider, AdvanceGoes DEF World
<1>3. CASE Initiate(r)
  BY <1>1, <1>3, InitiateMoves, AdvanceGoes
<1>4. CASE Respond(r)
  BY <1>1, <1>4, RespondMoves, SameProvider, AdvanceGoes
<1>5. CASE Begin(r)
  BY <1>2, <1>5, BeginMoves DEF Begin
<1> QED
  BY <1>2, <1>3, <1>4, <1>5, CheckOpenMoves, ReserveMoves, RecordInitiationMoves,
     RecheckMoves, ReviewMoves, FetchMoves, ApplyMoves, FinalizeMoves, ConsultMoves,
     SettleTxMoves, GrantTxMoves, FetchFailsMoves, GiveUpMoves, CrashMoves DEF Step

LEMMA NextGoes ==
  ASSUME Base, [Next]_vars
  PROVE  Goes
<1>1. now \in Nat /\ now <= now /\ notices \subseteq Ref /\ now \in 0 .. MaxNow
  BY PaymentTasks DEF Base
<1>2. CASE Tick
  <2>1. Rests /\ prov' = prov /\ notices' = notices /\ now' = now + 1 /\ now < MaxNow
    BY <1>2 DEF Tick, Rests
  <2>2. now' \in 0 .. MaxNow /\ now <= now'
    BY <1>1, <2>1, PaymentTasks
  <2> QED
    BY <1>1, <2>1, <2>2, SameProvider, RestsGoes
<1>3. CASE UNCHANGED vars
  BY <1>1, <1>3, SameProvider, RestsGoes DEF vars, Rests
<1> QED
  BY <1>2, <1>3, ProviderSettlesGoes, ReceiveGoes, StepGoes DEF Next

LEMMA FirstBase == Init => Base
<1> SUFFICES ASSUME Init
             PROVE  Base
  OBVIOUS
<1>1. db = [pay |-> [p \in Payment |-> Absent], periods |-> FirstPeriods, records |-> {}]
  BY DEF Init
<1>2. PICK trial : trial = [seq |-> 1, from |-> 0, to |-> TrialLength, source |-> Trial]
  OBVIOUS
<1>3. FirstPeriods = IF TrialLength > 0 THEN {trial} ELSE {}
  BY <1>2 DEF FirstPeriods
<1>4. trial \in PeriodDoc
  BY <1>2, PaymentConstants DEF PeriodDoc
<1>5. db \in Documents
  BY <1>1, <1>3, <1>4 DEF Documents
<1>6. Bought(db, 0)
  <2>1. CASE TrialLength > 0
    <3>1. IsFiniteSet({trial}) /\ Cardinality({trial}) = 1
      BY FS_Singleton
    <3>2. db.periods = {trial}
      BY <1>1, <1>3, <2>1
    <3>3. Numbered({trial})
      BY <1>2, <1>4, <3>1 DEF Numbered
    <3>4. Following({trial}, 0)
      BY <1>2, <2>1, PaymentConstants DEF Following
    <3>5. \A p \in Payment : Granted(db, p) = {}
      BY <1>2, <3>2, PaymentConstants DEF Granted
    <3> QED
      BY <3>2, <3>3, <3>4, <3>5 DEF Bought
  <2>2. CASE ~ (TrialLength > 0)
    <3>1. db.periods = {} /\ IsFiniteSet({}) /\ Cardinality({}) = 0
      BY <1>1, <1>3, <2>2, FS_EmptySet
    <3>2. Numbered({}) /\ Following({}, 0)
      BY <3>1 DEF Numbered, Following
    <3> QED
      BY <3>1, <3>2 DEF Bought, Granted
  <2> QED
    BY <2>1, <2>2
<1>7. \A r \in Task : TaskOK(r) /\ SnapOK(r)
  <2>1. \A r \in Task : pc[r] = "idle" /\ task[r] = Absent /\ snap[r] = Absent
    BY DEF Init
  <2> QED
    BY <2>1 DEF TaskOK, SnapOK, Fits, Names, Told, Paying
<1>8. "idle" \in Stage /\ 0 \in 0 .. MaxNow
  BY PaymentTasks DEF Stage
<1> QED
  BY <1>5, <1>6, <1>7, <1>8 DEF Init, Base

\* The documents, the snapshots and the tasks are always as the first
\* invariant says: a transaction has read documents that were committed, and
\* what a task works on exists.
THEOREM AlwaysBase == Spec => []Base
<1>1. Base /\ [Next]_vars => Base'
  BY NextGoes DEF Goes
<1> QED
  BY <1>1, FirstBase, PTL DEF Spec

\* Every variable has its type, and only a transaction has a snapshot.
THEOREM PaymentsTyped == Spec => []TypeOK
  BY AlwaysBase, BaseIsTyped, PTL

----------------------------------------------------------------------------
(* Periods follow each other and payments in review wait *)

\* The documents that a step has added to, payment by payment.
LEMMA DocStepPeriods ==
  ASSUME Base, NEW W \in SUBSET Payment, DocStep(W)
  PROVE  \/ db'.periods = db.periods
         \/ \E source \in Payment \cup Manual, length \in Length, at \in 0 .. now :
              /\ Granted(db, source) = {}
              /\ db'.periods = db.periods \cup {NextPeriod(db, source, length, at)}
<1>1. CASE db' = db
  BY <1>1
<1>2. ASSUME NEW p \in W, Opens(p) \/ Rewrites(p)
      PROVE  db'.periods = db.periods
  BY <1>2 DEF Opens, Rewrites, Change
<1>3. ASSUME NEW p \in W, Buys(p)
      PROVE  \E length \in Length, at \in 0 .. now :
               /\ Granted(db, p) = {}
               /\ db'.periods = db.periods \cup {NextPeriod(db, p, length, at)}
  <2>1. PICK length \in Length : length = db.pay[p].request.length
    BY <1>3, DocumentFields DEF Base, Buys, PaymentDoc, Request
  <2>2. PICK at \in 0 .. now :
          \E a, x, R : /\ Change(db, db', p, a, {x}, R)
                       /\ x = NextPeriod(db, p, db.pay[p].request.length, at)
    BY <1>3 DEF Buys
  <2>3. db'.periods = db.periods \cup {NextPeriod(db, p, length, at)}
    BY <2>1, <2>2 DEF Change
  <2> QED
    BY <1>3, <2>3 DEF Buys
<1>4. ASSUME NEW m \in Manual, Grants(m)
      PROVE  \E length \in Length, at \in 0 .. now :
               /\ Granted(db, m) = {}
               /\ db'.periods = db.periods \cup {NextPeriod(db, m, length, at)}
  BY <1>4 DEF Grants
<1> QED
  BY <1>1, <1>2, <1>3, <1>4 DEF DocStep

LEMMA StepPeriodsApart ==
  ASSUME Base, NEW W \in SUBSET Payment, DocStep(W)
  PROVE  \A x \in db'.periods \ db.periods, y \in db.periods : x.from >= y.to
<1>1. SUFFICES ASSUME NEW source \in Payment \cup Manual, NEW length \in Length,
                      NEW at \in 0 .. now, NEW x, x = NextPeriod(db, source, length, at),
                      NEW y \in db.periods
               PROVE  x.from >= y.to
  BY DocStepPeriods
<1>2. Numbered(db.periods) /\ Following(db.periods, now) /\ now \in Nat /\ source \in Source
  BY PaymentTasks DEF Base, Bought, Source
<1>3. y.to <= x.from /\ x \in PeriodDoc /\ y \in PeriodDoc
  BY <1>1, <1>2, StartIs DEF Numbered
<1> QED
  BY <1>3 DEF PeriodDoc

\* No two periods share a moment: `computeRenewalStartsAt` starts a renewal at
\* the end of all the periods, and the index on the sequence makes a grant that
\* read fewer of them start again.
THEOREM AlwaysPeriodsApart == Spec => PeriodsApart
<1>1. ASSUME Base, [Next]_vars
      PROVE  [\A x \in db'.periods \ db.periods, y \in db.periods : x.from >= y.to]_vars
  BY <1>1, NextGoes, StepPeriodsApart DEF Goes
<1> QED
  BY <1>1, AlwaysBase, PTL DEF Spec, PeriodsApart

LEMMA StepReviewWaits ==
  ASSUME Base, NEW W \in SUBSET Payment, DocStep(W),
         NEW p \in Payment, Exists(db, p), db.pay[p].status = "review",
         db'.pay[p].status # "review"
  PROVE  \E x \in db'.records \ db.records : x.pay = p
<1>1. PICK q \in W : Opens(q) \/ Rewrites(q) \/ Buys(q)
  BY DEF DocStep, Grants
<1>2. q = p
  BY <1>1 DEF Opens, Rewrites, Buys, Change
<1>3. CASE Rewrites(p)
  <2>1. PICK a, R : /\ Change(db, db', p, a, {}, R)
                    /\ Turns(db.pay[p], a) \/ Settles(p, db.pay[p], a, R)
    BY <1>3 DEF Rewrites
  <2>2. ~ Turns(db.pay[p], a)
    BY DEF Turns, Finalizable, OpenStatus
  <2> QED
    BY <2>1, <2>2 DEF Settles, Change
<1>4. CASE Buys(p)
  <2>1. PICK at \in 0 .. now :
          \E a, x, R : /\ Change(db, db', p, a, {x}, R)
                       /\ \/ db.pay[p].status \in Finalizable
                          \/ \E rec \in R \ db.records : rec.pay = p
    BY <1>4 DEF Buys
  <2> QED
    BY <2>1 DEF Change, Finalizable, OpenStatus
<1> QED
  BY <1>1, <1>2, <1>3, <1>4 DEF Opens

\* What moves a payment that waits for an operator is the operation of one,
\* recorded with it (`apply` of payment-reconciliation.service.ts): whatever
\* the provider's late answers and notifications.
THEOREM AlwaysReviewWaits == Spec => ReviewWaits
<1>1. ASSUME Base, [Next]_vars
      PROVE  [\A p \in Payment :
                Exists(db, p) /\ db.pay[p].status = "review" /\ db'.pay[p].status # "review" =>
                  \E x \in db'.records \ db.records : x.pay = p]_vars
  BY <1>1, NextGoes, StepReviewWaits DEF Goes
<1> QED
  BY <1>1, AlwaysBase, PTL DEF Spec, ReviewWaits

----------------------------------------------------------------------------
(* Paid payments have their period *)

\* The periods that payments bought, and that the provider was paid for.
PaidIn(d, P) ==
  \A p \in Payment :
    /\ Exists(d, p) /\ d.pay[p].status = "succeeded" => Granted(d, p) # {}
    /\ \A x \in Granted(d, p) : /\ d.pay[p].period = x.seq
                                /\ x.to - x.from = d.pay[p].request.length
                                /\ Collected(P, p, d.pay[p].ref)

Paid == PaidIn(db, prov)

LEMMA PaidIsFor ==
  ASSUME Base, Paid
  PROVE  PaidForPeriods
  BY DEF Base, Bought, Paid, PaidIn, PaidForPeriods, Collected

LEMMA CollectedStays ==
  ASSUME ProvKeeps, NEW p, NEW ref, Collected(prov, p, ref)
  PROVE  Collected(prov', p, ref)
  BY DEF Collected, ProvKeeps

LEMMA NextPaid ==
  ASSUME Base, Paid, [Next]_vars
  PROVE  Paid'
<1>1. PICK W \in SUBSET Payment : DocStep(W)
  BY NextGoes DEF Goes
<1>2. ProvKeeps
  BY NextGoes DEF Goes
<1>3. ASSUME NEW p \in Payment, db'.pay[p] = db.pay[p], Granted(db', p) = Granted(db, p)
      PROVE  /\ Exists(db', p) /\ db'.pay[p].status = "succeeded" => Granted(db', p) # {}
             /\ \A x \in Granted(db', p) : /\ db'.pay[p].period = x.seq
                                           /\ x.to - x.from = db'.pay[p].request.length
                                           /\ Collected(prov', p, db'.pay[p].ref)
  <2>1. PICK ref : ref = db.pay[p].ref
    OBVIOUS
  <2>2. Collected(prov, p, ref) => Collected(prov', p, ref)
    BY <1>2, CollectedStays
  <2> QED
    BY <1>3, <2>1, <2>2 DEF Paid, PaidIn, Exists
<1> DEFINE Good(p) == /\ Exists(db', p) /\ db'.pay[p].status = "succeeded" => Granted(db', p) # {}
                      /\ \A x \in Granted(db', p) : /\ db'.pay[p].period = x.seq
                                                    /\ x.to - x.from = db'.pay[p].request.length
                                                    /\ Collected(prov', p, db'.pay[p].ref)
<1>4. ASSUME db' = db, NEW p \in Payment
      PROVE  Good(p)
  BY <1>3, <1>4
<1>5. ASSUME NEW q \in W, Opens(q) \/ Rewrites(q), NEW p \in Payment
      PROVE  Good(p)
  <2>1. PICK a, R : /\ Change(db, db', q, a, {}, R) /\ a.status # "succeeded"
                    /\ Exists(db, q) => db.pay[q].status # "succeeded"
    BY <1>5 DEF Opens, Rewrites, Turns, Settles, Finalizable, OpenStatus
  <2>2. Granted(db', p) = Granted(db, p)
    BY <2>1 DEF Change, Granted
  <2>3. CASE p # q
    BY <1>3, <2>1, <2>2, <2>3 DEF Change
  <2>4. CASE p = q
    <3>1. Granted(db, p) = {}
      BY <2>1, <2>4 DEF Base, Bought
    <3> QED
      BY <2>1, <2>2, <2>4, <3>1 DEF Change
  <2> QED
    BY <2>3, <2>4
<1>6. ASSUME NEW q \in W, Buys(q), NEW p \in Payment
      PROVE  Good(p)
  <2>0. PICK at \in 0 .. now :
          \E a, x, R :
            /\ Change(db, db', q, a, {x}, R)
            /\ x = NextPeriod(db, q, db.pay[q].request.length, at)
            /\ Becomes(db.pay[q], a, "succeeded", a.ref) /\ a.period = x.seq
            /\ Collected(prov, q, a.ref) /\ Exists(db, q) /\ Granted(db, q) = {}
    BY <1>6 DEF Buys
  <2>1. PICK a, x, R :
            /\ Change(db, db', q, a, {x}, R)
            /\ x = NextPeriod(db, q, db.pay[q].request.length, at)
            /\ Becomes(db.pay[q], a, "succeeded", a.ref) /\ a.period = x.seq
            /\ Collected(prov, q, a.ref) /\ Exists(db, q) /\ Granted(db, q) = {}
    BY <2>0
  <2>2. db.pay[q].request.length \in Length /\ q \in Source
    BY <2>1, DocumentFields DEF Base, PaymentDoc, Request, Source
  <2>3. /\ x.source = q /\ x \in PeriodDoc /\ x.to = x.from + db.pay[q].request.length
    BY <2>1, <2>2, PaymentTasks, StartIs DEF Base, Bought
  <2>4. db'.periods = db.periods \cup {x} /\ db'.pay[q] = a
    BY <2>1 DEF Change
  <2>5. CASE p # q
    <3>1. Granted(db', p) = Granted(db, p)
      BY <2>3, <2>4, <2>5 DEF Granted
    <3> QED
      BY <1>3, <2>1, <2>5, <3>1 DEF Change
  <2>6. CASE p = q
    <3>1. Granted(db', q) = {x}
      BY <2>1, <2>3, <2>4 DEF Granted
    <3>2. Collected(prov', q, a.ref)
      <4>1. PICK ref : ref = a.ref
        OBVIOUS
      <4> QED
        BY <1>2, <2>1, <4>1, CollectedStays
    <3>3. x.to - x.from = a.request.length
      <4>1. a.request = db.pay[q].request /\ db.pay[q].request.length \in Nat
        BY <2>1, <2>2, PaymentConstants DEF Becomes
      <4>2. x.from \in Nat
        BY <2>3 DEF PeriodDoc
      <4> QED
        BY <2>3, <4>1, <4>2
    <3> QED
      BY <2>1, <2>4, <2>6, <3>1, <3>2, <3>3
  <2> QED
    BY <2>5, <2>6
<1>7. ASSUME NEW m \in Manual, Grants(m), NEW p \in Payment
      PROVE  Good(p)
  <2>0. PICK length \in Length, at \in 0 .. now :
          \E x : /\ x = NextPeriod(db, m, length, at)
                 /\ db'.pay = db.pay /\ db'.periods = db.periods \cup {x}
    BY <1>7 DEF Grants
  <2>1. PICK x : /\ x = NextPeriod(db, m, length, at)
                 /\ db'.pay = db.pay /\ db'.periods = db.periods \cup {x}
    BY <2>0
  <2>2. x.source = m /\ m # p
    BY <2>1, PaymentConstants DEF NextPeriod
  <2>3. Granted(db', p) = Granted(db, p)
    BY <2>1, <2>2 DEF Granted
  <2> QED
    BY <1>3, <2>1, <2>3
<1>8. \A p \in Payment : Good(p)
  BY <1>1, <1>3, <1>4, <1>5, <1>6, <1>7 DEF DocStep
<1> QED
  BY <1>8 DEF Paid, PaidIn

\* A payment is paid exactly when it has its period, of the length asked, and
\* only when the provider has collected its amount under its reference.
THEOREM AlwaysPaidForPeriods == Spec => []PaidForPeriods
<1>1. Init => Paid
  <2> SUFFICES ASSUME Init
               PROVE  Paid
    OBVIOUS
  <2>1. \A p \in Payment : ~ Exists(db, p)
    BY DEF Init, Exists
  <2>2. Base
    BY FirstBase
  <2> QED
    BY <2>1, <2>2 DEF Paid, PaidIn, Base, Bought
<1>2. Base /\ Paid /\ [Next]_vars => Paid'
  BY NextPaid
<1>3. Base /\ Paid => PaidForPeriods
  BY PaidIsFor
<1> QED
  BY <1>1, <1>2, <1>3, AlwaysBase, PTL DEF Spec

----------------------------------------------------------------------------
(* The requests keep the ledger *)

\* What the ledger sees of the documents d.
AccountOf(d, p) ==
  IF ~ Exists(d, p) THEN "none"
  ELSE IF d.pay[p].status = "succeeded" THEN "paid"
  ELSE IF d.pay[p].open THEN "open" ELSE "closed"

SourceOf(P, i) == (CHOOSE x \in P : x.seq = i).source

\* The sources of the periods, one for each number.
LEMMA SourceIs ==
  ASSUME NEW P, Numbered(P), NEW x \in P
  PROVE  SourceOf(P, x.seq) = x.source
<1>1. \A y \in P : y.seq = x.seq => y = x
  BY DEF Numbered
<1>2. (CHOOSE y \in P : y.seq = x.seq) = x
  BY <1>1
<1> QED
  BY <1>2 DEF SourceOf

LEMMA AppendIs ==
  ASSUME NEW n \in Nat, NEW S, NEW s \in [1 .. n -> S], NEW e \in S,
         NEW t \in [1 .. n + 1 -> S], t[n + 1] = e, \A i \in 1 .. n : t[i] = s[i]
  PROVE  t = Append(s, e)
<1>1. s \in Seq(S) /\ Len(s) = n
  OBVIOUS
<1>2. Append(s, e) \in Seq(S) /\ Len(Append(s, e)) = n + 1
  BY <1>1
<1>3. t \in Seq(S) /\ Len(t) = n + 1
  OBVIOUS
<1>4. \A i \in 1 .. n + 1 : Append(s, e)[i] = t[i]
  BY <1>1
<1> QED
  BY <1>2, <1>3, <1>4

Sources(P) == [i \in 1 .. Cardinality(P) |-> SourceOf(P, i)]

LEMMA SourcesAre ==
  ASSUME NEW P, Numbered(P), NEW n, n = Cardinality(P)
  PROVE  Sources(P) \in [1 .. n -> Source] /\ \A x \in P : Sources(P)[x.seq] = x.source
<1>1. ASSUME NEW i \in 1 .. n
      PROVE  SourceOf(P, i) \in Source
  <2>1. PICK x \in P : x.seq = i
    BY DEF Numbered
  <2>2. x.source \in Source
    BY <2>1 DEF Numbered, PeriodDoc, Source
  <2> QED
    BY <2>1, <2>2, SourceIs
<1>2. \A x \in P : x.seq \in 1 .. n
  BY DEF Numbered
<1>3. \A x \in P : Sources(P)[x.seq] = x.source
  BY <1>2, SourceIs DEF Sources
<1> QED
  BY <1>1, <1>3 DEF Sources

\* A period more is a source more at the end.
LEMMA ChainAppends ==
  ASSUME NEW P, Numbered(P), NEW x, NEW Q, Q = P \cup {x}, Numbered(Q),
         NEW n \in Nat, n = Cardinality(P), n + 1 = Cardinality(Q), x.seq = n + 1
  PROVE  Sources(Q) = Append(Sources(P), x.source)
<1>1. PICK s : s = Sources(P)
  OBVIOUS
<1>2. PICK t : t = Sources(Q)
  OBVIOUS
<1>3. s \in [1 .. n -> Source] /\ \A y \in P : s[y.seq] = y.source
  BY <1>1, SourcesAre
<1>4. t \in [1 .. n + 1 -> Source] /\ \A y \in Q : t[y.seq] = y.source
  BY <1>2, SourcesAre
<1>5. ASSUME NEW i \in 1 .. n
      PROVE  t[i] = s[i]
  <2>1. PICK y \in P : y.seq = i
    BY DEF Numbered
  <2> QED
    BY <1>3, <1>4, <2>1
<1>6. t[n + 1] = x.source /\ x.source \in Source
  BY <1>4 DEF Numbered, PeriodDoc, Source
<1>7. t = Append(s, x.source)
  BY <1>3, <1>4, <1>5, <1>6, AppendIs
<1> QED
  BY <1>1, <1>2, <1>7

LEMMA LedgerIs ==
  /\ Account = [p \in Payment |-> AccountOf(db, p)]
  /\ Chain = Sources(db.periods)
  BY DEF Account, Chain, AccountOf, SourceOf, Sources

LEMMA LedgerBecomes ==
  /\ Account' = [p \in Payment |-> AccountOf(db', p)]
  /\ Chain' = Sources(db'.periods)
  BY DEF Account, Chain, AccountOf, SourceOf, Sources, Exists

\* A source that was granted nothing is not in the chain.
LEMMA NotGranted ==
  ASSUME Base, NEW source, Granted(db, source) = {}
  PROVE  source \notin Ledger!Granted
<1>1. Numbered(db.periods)
  BY DEF Base, Bought
<1>2. PICK n : n = Cardinality(db.periods)
  OBVIOUS
<1>3. DOMAIN Chain = 1 .. n /\ \A x \in db.periods : Chain[x.seq] = x.source
  BY <1>1, <1>2, LedgerIs, SourcesAre
<1>4. ASSUME NEW i \in 1 .. n
      PROVE  Chain[i] # source
  <2>1. PICK x \in db.periods : x.seq = i
    BY <1>1, <1>2 DEF Numbered
  <2> QED
    BY <1>3, <2>1 DEF Granted
<1> QED
  BY <1>3, <1>4 DEF Ledger!Granted

\* The periods of a grant make the chain one source longer.
LEMMA ChainGoesOn ==
  ASSUME Base, NEW source \in Source, Granted(db, source) = {},
         NEW length \in Length, NEW at \in 0 .. now,
         NEW x, x = NextPeriod(db, source, length, at),
         db'.periods = db.periods \cup {x}
  PROVE  Chain' = Append(Chain, source)
<1>1. Numbered(db.periods) /\ Following(db.periods, now) /\ now \in Nat
  BY PaymentTasks DEF Base, Bought
<1>2. PICK P, Q : P = db.periods /\ Q = P \cup {x}
  OBVIOUS
<1>3. Cardinality(Q) = Cardinality(P) + 1 /\ Numbered(Q)
  BY <1>1, <1>2, ChainGrows
<1>4. x.source = source /\ x.seq = Cardinality(P) + 1
  BY <1>1, <1>2, StartIs
<1>5. PICK n \in Nat : n = Cardinality(P)
  BY <1>1, <1>2, FS_CardinalityType DEF Numbered
<1>6. Sources(Q) = Append(Sources(P), x.source)
  <2>1. /\ Numbered(P) /\ Q = P \cup {x} /\ Numbered(Q)
        /\ n = Cardinality(P) /\ n + 1 = Cardinality(Q) /\ x.seq = n + 1
    BY <1>1, <1>2, <1>3, <1>4, <1>5
  <2> QED
    BY <1>5, <2>1, ChainAppends
<1> QED
  BY <1>2, <1>4, <1>6, LedgerIs, LedgerBecomes

\* One payment changes at most.
LEMMA AccountChanges ==
  ASSUME NEW p \in Payment, NEW a, NEW X, NEW R, Change(db, db', p, a, X, R),
         NEW word, AccountOf(db', p) = word
  PROVE  Account' = [Account EXCEPT ![p] = word]
<1>1. \A q \in Payment \ {p} : AccountOf(db', q) = AccountOf(db, q)
  BY DEF Change, AccountOf, Exists
<1> QED
  BY <1>1, LedgerIs, LedgerBecomes

LEMMA OpensLedger ==
  ASSUME Base, NEW p \in Payment, Opens(p)
  PROVE  Ledger!Open(p)
<1>1. PICK a \in PaymentDoc :
        /\ Change(db, db', p, a, {}, {}) /\ a.status = "initiating" /\ a.open
  BY DEF Opens
<1>2. AccountOf(db', p) = "open"
  BY <1>1, PaymentSentinels DEF AccountOf, Change, Exists
<1>3. Account' = [Account EXCEPT ![p] = "open"]
  BY <1>1, <1>2, AccountChanges
<1>4. Chain' = Chain
  BY <1>1, LedgerIs, LedgerBecomes DEF Change
<1>5. \A q \in Payment : Account[q] # "open"
  <2>1. OpenOnes(db) = {}
    BY DEF Opens
  <2> QED
    BY <2>1, LedgerIs DEF OpenOnes, AccountOf
<1>6. Account[p] = "none"
  BY LedgerIs DEF Opens, AccountOf
<1> QED
  BY <1>3, <1>4, <1>5, <1>6 DEF Ledger!Open

LEMMA RewritesLedger ==
  ASSUME Base, NEW p \in Payment, Rewrites(p)
  PROVE  Ledger!Close(p) \/ UNCHANGED <<Account, Chain>>
<1>1. PICK a, R : /\ Change(db, db', p, a, {}, R) /\ Exists(db, p)
                  /\ Becomes(db.pay[p], a, a.status, a.ref)
                  /\ Turns(db.pay[p], a) \/ Settles(p, db.pay[p], a, R)
  BY DEF Rewrites
<1>2. /\ db.pay[p].status # "succeeded" /\ a.status # "succeeded"
      /\ a.open => db.pay[p].open
  BY <1>1 DEF Turns, Settles, Finalizable, OpenStatus
<1>3. Chain' = Chain
  BY <1>1, LedgerIs, LedgerBecomes DEF Change
<1>4. AccountOf(db, p) = IF db.pay[p].open THEN "open" ELSE "closed"
  BY <1>1, <1>2 DEF AccountOf
<1>5. AccountOf(db', p) = IF a.open THEN "open" ELSE "closed"
  BY <1>1, <1>2, PaymentSentinels DEF AccountOf, Change, Exists, Becomes
<1>6. Account[p] = AccountOf(db, p) /\ Account \in [Payment -> {AccountOf(db, q) : q \in Payment}]
  BY LedgerIs
<1>7. CASE AccountOf(db', p) = AccountOf(db, p)
  <2>1. Account' = [Account EXCEPT ![p] = Account[p]]
    BY <1>1, <1>6, <1>7, AccountChanges
  <2> QED
    BY <1>3, <1>6, <2>1
<1>8. CASE AccountOf(db', p) # AccountOf(db, p)
  <2>1. Account[p] = "open" /\ AccountOf(db', p) = "closed"
    BY <1>2, <1>4, <1>5, <1>6, <1>8
  <2>2. Account' = [Account EXCEPT ![p] = "closed"]
    BY <1>1, <2>1, AccountChanges
  <2> QED
    BY <1>3, <2>1, <2>2 DEF Ledger!Close
<1> QED
  BY <1>7, <1>8

LEMMA BuysLedger ==
  ASSUME Base, NEW p \in Payment, Buys(p)
  PROVE  Ledger!Pay(p)
<1>1. PICK at \in 0 .. now :
        \E a, x, R :
          /\ Change(db, db', p, a, {x}, R)
          /\ x = NextPeriod(db, p, db.pay[p].request.length, at)
          /\ Becomes(db.pay[p], a, "succeeded", a.ref)
  BY DEF Buys
<1>2. PICK a, x, R :
        /\ Change(db, db', p, a, {x}, R)
        /\ x = NextPeriod(db, p, db.pay[p].request.length, at)
        /\ Becomes(db.pay[p], a, "succeeded", a.ref)
  BY <1>1
<1>3. /\ Exists(db, p) /\ Granted(db, p) = {} /\ db.pay[p].status # "succeeded"
  BY DEF Buys, Finalizable, OpenStatus
<1>4. PICK length \in Length : length = db.pay[p].request.length
  BY <1>3, DocumentFields DEF Base, PaymentDoc, Request
<1>5. Chain' = Append(Chain, p)
  <2>1. p \in Source /\ db'.periods = db.periods \cup {x}
    BY <1>2 DEF Source, Change
  <2> QED
    BY <1>2, <1>3, <1>4, <2>1, ChainGoesOn
<1>6. AccountOf(db', p) = "paid"
  BY <1>2, PaymentSentinels DEF AccountOf, Change, Exists, Becomes
<1>7. Account' = [Account EXCEPT ![p] = "paid"]
  BY <1>2, <1>6, AccountChanges
<1>8. Account[p] \in {"open", "closed"}
  BY <1>3, LedgerIs DEF AccountOf
<1>9. p \notin Ledger!Granted
  BY <1>3, NotGranted
<1> QED
  BY <1>5, <1>7, <1>8, <1>9 DEF Ledger!Pay

LEMMA GrantsLedger ==
  ASSUME Base, NEW m \in Manual, Grants(m)
  PROVE  Ledger!Grant(m)
<1>1. PICK length \in Length, at \in 0 .. now :
        \E x : /\ x = NextPeriod(db, m, length, at)
               /\ db'.pay = db.pay /\ db'.periods = db.periods \cup {x}
  BY DEF Grants
<1>2. PICK x : /\ x = NextPeriod(db, m, length, at)
               /\ db'.pay = db.pay /\ db'.periods = db.periods \cup {x}
  BY <1>1
<1>3. m \in Source /\ Granted(db, m) = {}
  BY DEF Source, Grants
<1>4. Chain' = Append(Chain, m)
  BY <1>2, <1>3, ChainGoesOn
<1>5. Account' = Account
  BY <1>2, LedgerIs, LedgerBecomes DEF AccountOf, Exists
<1>6. m \notin Ledger!Granted
  BY <1>3, NotGranted
<1> QED
  BY <1>4, <1>5, <1>6 DEF Ledger!Grant

LEMMA FirstLedger == Init => Ledger!Init
<1> SUFFICES ASSUME Init
             PROVE  Ledger!Init
  OBVIOUS
<1>1. Base /\ \A p \in Payment : AccountOf(db, p) = "none"
  BY FirstBase DEF Init, AccountOf, Exists
<1>2. Account = [p \in Payment |-> "none"]
  BY <1>1, LedgerIs
<1>3. PICK trial : trial = [seq |-> 1, from |-> 0, to |-> TrialLength, source |-> Trial]
  OBVIOUS
<1>4. db.periods = IF TrialLength > 0 THEN {trial} ELSE {}
  BY <1>3 DEF Init, FirstPeriods
<1>5. CASE db.periods = {}
  <2>1. Chain = [i \in 1 .. 0 |-> SourceOf(db.periods, i)]
    BY <1>5, LedgerIs, FS_EmptySet DEF Sources
  <2>2. Chain = <<>>
    BY <2>1
  <2> QED
    BY <1>2, <2>2 DEF Ledger!Init
<1>6. CASE db.periods = {trial}
  <2>1. Chain = [i \in 1 .. 1 |-> SourceOf(db.periods, i)]
    BY <1>6, LedgerIs, FS_Singleton DEF Sources
  <2>2. SourceOf(db.periods, 1) = Trial
    BY <1>1, <1>3, <1>6, SourceIs DEF Base, Bought
  <2>3. Chain = <<Trial>>
    BY <2>1, <2>2
  <2> QED
    BY <1>2, <2>3 DEF Ledger!Init
<1> QED
  BY <1>4, <1>5, <1>6

LEMMA NextLedger ==
  ASSUME Base, [Next]_vars
  PROVE  [Ledger!Next]_(Ledger!ledger)
<1>1. PICK W \in SUBSET Payment : DocStep(W)
  BY NextGoes DEF Goes
<1>2. CASE db' = db
  <2>1. UNCHANGED <<Account, Chain>>
    BY <1>2, LedgerIs, LedgerBecomes
  <2> QED
    BY <2>1 DEF Ledger!ledger
<1>3. ASSUME NEW p \in Payment, Opens(p) \/ Rewrites(p) \/ Buys(p)
      PROVE  [Ledger!Next]_(Ledger!ledger)
  BY <1>3, OpensLedger, RewritesLedger, BuysLedger DEF Ledger!Next, Ledger!ledger
<1>4. ASSUME NEW m \in Manual, Grants(m)
      PROVE  [Ledger!Next]_(Ledger!ledger)
  BY <1>4, GrantsLedger DEF Ledger!Next
<1> QED
  BY <1>1, <1>2, <1>3, <1>4 DEF DocStep

\* The requests keep the ledger, whatever their number and their order: one
\* open payment at a time, none reopened, and each payment and each manual
\* reference buys one period at the end of the chain.
THEOREM PaymentsKeepLedger == Spec => KeepsLedger
<1>1. Base /\ [Next]_vars => [Ledger!Next]_(Ledger!ledger)
  BY NextLedger
<1> QED
  BY <1>1, FirstLedger, AlwaysBase, PTL DEF Spec, KeepsLedger, Ledger!Spec

----------------------------------------------------------------------------
(* Access until the end of the last period *)

\* A set of natural numbers has a least element.
LEMMA LeastOf ==
  ASSUME NEW S, S \subseteq Nat, S # {}
  PROVE  \E m \in S : \A y \in S : m <= y
<1> DEFINE less == {ss \in Nat \X Nat : ss[1] < ss[2]}
<1>1. IsWellFoundedOn(less, Nat)
  BY NatLessThanWellFounded DEF OpToRel
<1>2. PICK x \in S : \A y \in S : ~ (<<y, x>> \in less)
  BY <1>1, WFMin
<1>3. ASSUME NEW y \in S
      PROVE  x <= y
  <2>1. y < x => <<y, x>> \in less
    OBVIOUS
  <2> QED
    BY <1>2, <2>1
<1> QED
  BY <1>2, <1>3

\* How far the period of number i extends what goes on until r.
ReachAt(d, r, i) == Max({r} \cup {x.to : x \in {y \in d.periods : y.seq = i /\ y.from <= r}})

\* What the recursion of `ContinuousEnd` makes of g.
Reach(d, end, g) ==
  [n \in 0 .. LastSeq(d) |-> IF n = 0 THEN end ELSE ReachAt(d, g[n - 1], n)]

\* The recursion has one solution.
LEMMA ReachIs ==
  ASSUME NEW d, LastSeq(d) \in Nat, NEW end, NEW f, f = Reach(d, end, f)
  PROVE  ContinuousEnd(d, end) = f[LastSeq(d)]
<1> DEFINE N == LastSeq(d)
<1>1. ContinuousEnd(d, end) = (CHOOSE g : g = Reach(d, end, g))[N]
  BY Zenon DEF ContinuousEnd, Reach, ReachAt
<1>2. PICK g : g = Reach(d, end, g) /\ ContinuousEnd(d, end) = g[N]
  BY <1>1
<1>3. \A i \in 0 .. N : f[i] = IF i = 0 THEN end ELSE ReachAt(d, f[i - 1], i)
  BY DEF Reach
<1>4. \A i \in 0 .. N : g[i] = IF i = 0 THEN end ELSE ReachAt(d, g[i - 1], i)
  BY <1>2 DEF Reach
<1>5. ASSUME {i \in 0 .. N : g[i] # f[i]} # {}
      PROVE  FALSE
  <2>0. PICK S : S = {i \in 0 .. N : g[i] # f[i]}
    OBVIOUS
  <2>1. PICK m \in S : \A i \in S : m <= i
    <3>1. S \subseteq Nat /\ S # {}
      BY <1>5, <2>0
    <3> QED
      BY <3>1, LeastOf
  <2>2. m # 0
    BY <1>3, <1>4, <2>0, <2>1
  <2>3. m - 1 \in 0 .. N /\ ~ (m <= m - 1)
    BY <2>0, <2>1, <2>2
  <2>4. g[m - 1] = f[m - 1]
    BY <2>0, <2>1, <2>3
  <2> QED
    BY <1>3, <1>4, <2>0, <2>1, <2>2, <2>4
<1>6. N \in 0 .. N
  OBVIOUS
<1> QED
  BY <1>2, <1>5, <1>6

EndOf(d, i) == (CHOOSE y \in d.periods : y.seq = i).to

\* The ends reached from x, the period of number k.
Ends(d, x) ==
  [i \in 0 .. LastSeq(d) |-> IF i <= x.seq THEN x.to ELSE EndOf(d, i)]

LEMMA EndOfIs ==
  ASSUME NEW d, Numbered(d.periods), NEW y \in d.periods
  PROVE  EndOf(d, y.seq) = y.to
<1>1. \A z \in d.periods : z.seq = y.seq => z = y
  BY DEF Numbered
<1>2. (CHOOSE z \in d.periods : z.seq = y.seq) = y
  BY <1>1
<1> QED
  BY <1>2 DEF EndOf

LEMMA ReachAtIs ==
  ASSUME NEW d, Numbered(d.periods), NEW y \in d.periods, NEW r \in Nat
  PROVE  ReachAt(d, r, y.seq) = IF y.from <= r /\ r < y.to THEN y.to ELSE r
<1> DEFINE S == {r} \cup {x.to : x \in {z \in d.periods : z.seq = y.seq /\ z.from <= r}}
<1>1. \A z \in d.periods : z.seq = y.seq => z = y
  BY DEF Numbered
<1>2. y.to \in Nat /\ y.from \in Nat
  BY DEF Numbered, PeriodDoc
<1>3. CASE y.from <= r /\ r < y.to
  <2>1. S = {r, y.to}
    BY <1>1, <1>3
  <2>2. y.to \in S /\ S \subseteq Nat /\ \A e \in S : e <= y.to
    BY <1>2, <1>3, <2>1
  <2>3. Max(S) = y.to
    BY <2>2, MaxIs
  <2> QED
    BY <1>3, <2>3 DEF ReachAt
<1>4. CASE ~ (y.from <= r /\ r < y.to)
  <2>1. r \in S /\ S \subseteq {r, y.to} /\ \A e \in S : e <= r
    BY <1>1, <1>2, <1>4
  <2>2. Max(S) = r
    BY <1>2, <2>1, MaxIs
  <2> QED
    BY <1>4, <2>2 DEF ReachAt
<1> QED
  BY <1>3, <1>4

\* From a period that is not over the periods go on without a break.
LEMMA EndsReach ==
  ASSUME NEW d, Numbered(d.periods), NEW t \in Nat, Following(d.periods, t),
         NEW x \in d.periods, x.to > t,
         NEW f, f = Ends(d, x)
  PROVE  f = Reach(d, x.to, f)
<1>1. PICK n \in Nat : n = Cardinality(d.periods) /\ LastSeq(d) = n
  BY LastSeqIs
<1>2. PICK k \in 1 .. n : k = x.seq
  BY <1>1 DEF Numbered
<1>3. \A i \in 0 .. n : f[i] = IF i <= k THEN x.to ELSE EndOf(d, i)
  BY <1>1, <1>2 DEF Ends
<1>4. \A y \in d.periods : y.to \in Nat /\ y.from \in Nat /\ y.seq \in Nat
  BY DEF Numbered, PeriodDoc
<1>5. ASSUME NEW i \in 1 .. n
      PROVE  f[i] = ReachAt(d, f[i - 1], i)
  <2>1. PICK y \in d.periods : y.seq = i
    BY <1>1 DEF Numbered
  <2>2. CASE i <= k
    <3>1. f[i - 1] = x.to /\ f[i] = x.to
      BY <1>3, <2>2
    <3>2. y.to <= x.to
      <4>1. CASE i = k
        BY <1>2, <1>4, <2>1, <4>1 DEF Numbered
      <4>2. CASE i < k
        <5>1. y.to <= x.from /\ x.from < x.to
          BY <1>2, <2>1, <4>2 DEF Following
        <5> QED
          BY <1>4, <5>1
      <4> QED
        BY <2>2, <4>1, <4>2
    <3>3. ReachAt(d, x.to, i) = x.to
      BY <1>4, <2>1, <3>2, ReachAtIs
    <3> QED
      BY <3>1, <3>3
  <2>3. CASE i > k
    <3>1. i - 1 \in 1 .. n
      BY <2>3
    <3>2. PICK z \in d.periods : z.seq = i - 1
      BY <1>1, <3>1 DEF Numbered
    <3>3. f[i - 1] = z.to
      <4>1. CASE i - 1 = k
        <5>1. z = x
          BY <1>2, <3>2, <4>1 DEF Numbered
        <5> QED
          BY <1>3, <3>1, <4>1, <5>1
      <4>2. CASE i - 1 # k
        BY <1>3, <2>3, <3>1, <3>2, <4>2, EndOfIs
      <4> QED
        BY <4>1, <4>2
    <3>4. z.to > t
      <4>1. CASE i - 1 = k
        BY <1>2, <3>2, <4>1 DEF Numbered
      <4>2. CASE i - 1 > k
        <5>1. x.to <= z.from /\ z.from < z.to
          BY <1>2, <3>2, <4>2 DEF Following
        <5> QED
          BY <1>4, <5>1
      <4> QED
        BY <2>3, <4>1, <4>2
    <3>5. z.to <= y.from /\ (y.from = z.to \/ y.from <= t) /\ y.from < y.to
      BY <1>4, <2>1, <3>2 DEF Following
    <3>6. y.from <= z.to /\ z.to < y.to
      BY <1>4, <3>4, <3>5
    <3>7. ReachAt(d, z.to, i) = y.to
      BY <1>4, <2>1, <3>6, ReachAtIs
    <3>8. f[i] = y.to
      BY <1>3, <2>1, <2>3, EndOfIs
    <3> QED
      BY <3>3, <3>7, <3>8
  <2> QED
    BY <2>2, <2>3
<1>6. f[0] = x.to
  BY <1>2, <1>3
<1>7. f = [i \in 0 .. n |-> f[i]]
  BY <1>1 DEF Ends
<1>8. \A i \in 0 .. n : f[i] = IF i = 0 THEN x.to ELSE ReachAt(d, f[i - 1], i)
  BY <1>5, <1>6
<1> QED
  BY <1>1, <1>7, <1>8 DEF Reach

LEMMA AccessCovers ==
  ASSUME Base
  PROVE  AccessCoversPeriods
<1> SUFFICES ASSUME LatestEnd(db) > now
             PROVE  /\ AccessState(db, now) = "active"
                    /\ \E x \in db.periods :
                         Covers(x, now) /\ ContinuousEnd(db, x.to) = LatestEnd(db)
  BY DEF AccessCoversPeriods
<1>1. now \in Nat /\ Numbered(db.periods) /\ Following(db.periods, now)
  BY PaymentTasks DEF Base, Bought
<1>2. PICK n \in Nat : n = Cardinality(db.periods) /\ LastSeq(db) = n
  BY <1>1, LastSeqIs
<1>3. db.periods # {}
  BY <1>1, LatestEndIs
<1>4. PICK last \in db.periods : last.seq = n /\ LatestEnd(db) = last.to
  BY <1>1, <1>2, <1>3, LatestEndIs
<1>5. \A y \in db.periods : y.to \in Nat /\ y.from \in Nat /\ y.seq \in 1 .. n
  BY <1>1, <1>2 DEF Numbered, PeriodDoc
<1> DEFINE Running == {y.seq : y \in {z \in db.periods : z.to > now}}
<1>6. PICK k \in Running : \A i \in Running : k <= i
  <2>1. Running \subseteq Nat /\ Running # {}
    BY <1>4, <1>5
  <2> HIDE DEF Running
  <2> QED
    BY <2>1, LeastOf
<1>7. PICK x \in db.periods : x.seq = k /\ x.to > now
  BY <1>6
<1>8. x.from <= now
  <2>1. CASE k = 1
    BY <1>1, <1>7, <2>1 DEF Following
  <2>2. CASE k # 1
    <3>1. k \in 1 .. n /\ k - 1 \in 1 .. n
      BY <1>5, <1>7, <2>2
    <3>2. PICK y \in db.periods : y.seq = k - 1
      BY <1>1, <1>2, <3>1 DEF Numbered
    <3>3. y.to <= now
      <4>1. y.to > now => k <= k - 1
        BY <1>6, <3>2
      <4> QED
        BY <1>1, <1>5, <3>1, <4>1
    <3>4. x.from = y.to \/ x.from <= now
      BY <1>1, <1>7, <3>1, <3>2 DEF Following
    <3> QED
      BY <3>3, <3>4
  <2> QED
    BY <2>1, <2>2
<1>9. Covers(x, now)
  BY <1>1, <1>5, <1>7, <1>8 DEF Covers
<1>10. ContinuousEnd(db, x.to) = LatestEnd(db)
  <2>1. PICK f : f = Ends(db, x)
    OBVIOUS
  <2>2. f = Reach(db, x.to, f)
    BY <1>1, <1>7, <2>1, EndsReach
  <2>3. ContinuousEnd(db, x.to) = f[n]
    BY <1>2, <2>2, ReachIs
  <2>4. f[n] = IF n <= x.seq THEN x.to ELSE EndOf(db, n)
    BY <1>2, <2>1 DEF Ends
  <2>5. CASE n <= x.seq
    <3>1. x = last
      BY <1>1, <1>4, <1>5, <2>5 DEF Numbered
    <3> QED
      BY <1>4, <2>3, <2>4, <2>5, <3>1
  <2>6. CASE ~ (n <= x.seq)
    BY <1>1, <1>4, <2>3, <2>4, <2>6, EndOfIs
  <2> QED
    BY <2>5, <2>6
<1> QED
  BY <1>3, <1>9, <1>10 DEF AccessState

\* As long as a period granted is not over the organization has access, up to
\* the end of the last one, without a break: `computeSubscriptionState` says
\* active and `continuousEnd` finds that end from the current period.
THEOREM AlwaysAccess == Spec => []AccessCoversPeriods
  BY AlwaysBase, AccessCovers, PTL

----------------------------------------------------------------------------
(* What becomes of a notification *)

\* The collection c was made for p.
Owns(P, p, c) == P[c] # Absent /\ P[c].merchant = p

\* The provider will not say any more that c is as it was asked and not paid.
Late(P, c) == ~ P[c].same \/ P[c].state = "succeeded"

\* No answer can move p but one that its amount was collected.
Spent(d, P, p) == \A c \in Ref : Owns(P, p, c) => Late(P, c) \/ RefTaken(d, p, c)

Ended(d, p) == d.pay[p].status \in {"succeeded", "review"}

\* A reference that p has, or may get.
Linked(p, c) == Mine(p, c) \/ (Exists(db, p) /\ db.pay[p].ref = c)

\* A task handles a notification that the payment is paid.
Noticed(stage, w, d, P) ==
  /\ stage \in {"fetch", "apply", "review", "finalize", "answer"}
  /\ P[w.notice] # Absent /\ P[w.notice].state = "succeeded"
  /\ d.pay[w.pay].ref = w.notice
  /\ stage \in {"fetch", "apply"} => w.ref = w.notice
  /\ stage = "apply" => w.answer.state = "succeeded"
  /\ stage = "answer" => Ended(d, w.pay)

\* What a task knows is so of the documents d and the provider P.
Right(stage, w, d, P) ==
  /\ stage = "review" => Spent(d, P, w.pay)
  /\ stage = "fetch" => w.ref \in {Null, d.pay[w.pay].ref}
  /\ stage = "apply" =>
       /\ w.ref \in {Null, w.answer.ref}
       /\ w.answer.merchant = w.pay \/ d.pay[w.pay].ref = w.answer.ref
       /\ w.answer.same \/ Late(P, w.answer.ref)
  /\ stage = "finalize" => w.answer.merchant = w.pay
  /\ stage = "consult" /\ w.seen.status = "review" => Spent(d, P, w.pay)
  /\ stage = "settle" /\ w.seen.status = "review" /\ w.answer.state # "succeeded" =>
       RefTaken(d, w.pay, w.ref)
  /\ stage # "idle" /\ w.notice # Absent => Noticed(stage, w, d, P)

\* While the provider is asked for a collection nobody knows of one.
Alone(r) ==
  pc[r] = "initiate" =>
    /\ db.pay[task[r].pay].status = "initiating"
    /\ \A c \in Ref : ~ Linked(task[r].pay, c)
    /\ \A q \in Task \ {r} : pc[q] \in Paying /\ task[q].pay = task[r].pay =>
         pc[q] = "fetch" /\ task[q].ref = Null

RefsApart(d) ==
  \A p, q \in Payment : Exists(d, p) /\ Exists(d, q) /\ d.pay[p].ref = d.pay[q].ref =>
    d.pay[p].ref = Null \/ p = q

OneLink == \A p \in Payment : \A c, e \in Ref : Linked(p, c) /\ Linked(p, e) => c = e

\* A collection is made for a payment, as it was asked; it shows other values
\* only once it is paid or refused.
Made(d, P) ==
  \A c \in Ref : P[c] # Absent =>
    /\ P[c].merchant \in Payment /\ Exists(d, P[c].merchant)
    /\ P[c].state = "pending" => P[c].same

Notified(N, P) == \A c \in N : P[c] # Absent /\ P[c].state = "succeeded"

InReview(d, P) ==
  \A p \in Payment : Exists(d, p) /\ d.pay[p].status = "review" => Spent(d, P, p)

SnapEnded(r) ==
  snap[r] # Absent =>
    \A p \in Payment : Exists(snap[r].db, p) /\ Ended(snap[r].db, p) => Ended(db, p)

Informed ==
  /\ RefsApart(db) /\ OneLink /\ Made(db, prov) /\ Notified(notices, prov)
  /\ InReview(db, prov)
  /\ \A r \in Task : Right(pc[r], task[r], db, prov) /\ Alone(r) /\ SnapEnded(r)

\* What a write leaves of p: its reference, and its end, unless an operator
\* has news of it.
Wrote(p, a) ==
  /\ a \in PaymentDoc /\ db'.pay[p] = a
  /\ \A q \in Payment \ {p} : db'.pay[q] = db.pay[q]
  /\ Exists(db, p) => /\ \A c \in Ref : db.pay[p].ref = c => a.ref = c
                      /\ Ended(db, p) => a.status \in {"succeeded", "review"}
                      /\ a.status = "review" => Spent(db, prov, p)
  /\ ~ Exists(db, p) => a.status = "initiating"
  /\ a.ref \in Ref => Linked(p, a.ref) /\ ~ RefTaken(db, p, a.ref)
  /\ \A r \in Task : pc[r] = "initiate" => task[r].pay # p

\* Who works on a payment is not the one who asks for its collection.
LEMMA NotAlone ==
  ASSUME Base, Informed, NEW q \in Task, pc[q] = "initiate",
         NEW r \in Task, pc[r] \in Paying, task[r].pay = task[q].pay
  PROVE  pc[r] \in {"initiate", "fetch"} /\ (pc[r] = "fetch" => task[r].ref = Null)
  BY DEF Informed, Alone

LEMMA LinkedNotAlone ==
  ASSUME Base, Informed, NEW q \in Task, pc[q] = "initiate",
         NEW c \in Ref
  PROVE  ~ Linked(task[q].pay, c)
  BY DEF Informed, Alone

LEMMA LinkAlone ==
  ASSUME Base, Informed, NEW p \in Payment, Exists(db, p),
         NEW ref \in Ref \cup {Null}, Links(p, ref)
  PROVE  /\ \A c \in Ref : db.pay[p].ref = c => ref = c
         /\ ref \in Ref => Linked(p, ref) /\ ~ RefTaken(db, p, ref)
<1>1. Null \notin Ref
  BY PaymentConstants
<1>2. CASE ref = db.pay[p].ref
  <2>1. ref \in Ref => ~ RefTaken(db, p, ref)
    BY <1>1, <1>2 DEF Informed, RefsApart, RefTaken
  <2> QED
    BY <1>2, <2>1 DEF Linked
<1>3. CASE db.pay[p].ref = Null /\ ref \in Ref /\ ~ RefTaken(db, p, ref) /\ Mine(p, ref)
  BY <1>1, <1>3 DEF Linked
<1> QED
  BY <1>2, <1>3 DEF Links

LEMMA OpensWrote ==
  ASSUME Base, Informed, NEW p \in Payment, Opens(p)
  PROVE  \E a : Wrote(p, a)
<1>1. PICK a \in PaymentDoc :
        /\ ~ Exists(db, p) /\ Change(db, db', p, a, {}, {})
        /\ a.status = "initiating" /\ a.ref = Null
  BY DEF Opens
<1>2. ASSUME NEW r \in Task, pc[r] = "initiate"
      PROVE  task[r].pay # p
  BY <1>1, <1>2, PayOf DEF Paying
<1>3. Null \notin Ref
  BY PaymentConstants
<1>4. Wrote(p, a)
  BY <1>1, <1>2, <1>3 DEF Wrote, Change
<1> QED
  BY <1>4

LEMMA RewritesWrote ==
  ASSUME Base, Informed, NEW p \in Payment, Rewrites(p)
  PROVE  \E a : Wrote(p, a)
<1>1. PICK a, R : /\ Exists(db, p) /\ Writes(p, a) /\ Change(db, db', p, a, {}, R)
                  /\ Becomes(db.pay[p], a, a.status, a.ref) /\ Links(p, a.ref)
                  /\ Turns(db.pay[p], a) \/ Settles(p, db.pay[p], a, R)
  BY DEF Rewrites
<1>2. a \in PaymentDoc /\ a.ref \in Ref \cup {Null}
  BY <1>1 DEF Becomes, PaymentDoc
<1>3. /\ \A c \in Ref : db.pay[p].ref = c => a.ref = c
      /\ a.ref \in Ref => Linked(p, a.ref) /\ ~ RefTaken(db, p, a.ref)
  BY <1>1, <1>2, LinkAlone
<1>4. PICK q \in Task : /\ pc[q] \in {"record", "review", "apply", "settle"}
                        /\ task[q].pay = p /\ (a.status = "review" => pc[q] = "review")
  BY <1>1 DEF Writes
<1>5. ASSUME NEW r \in Task, pc[r] = "initiate"
      PROVE  task[r].pay # p
  <2>1. pc[q] \in Paying
    BY <1>4 DEF Paying
  <2> QED
    BY <1>4, <1>5, <2>1, NotAlone
<1>6. a.status = "review" => Spent(db, prov, p)
  BY <1>4 DEF Informed, Right
<1>7. Ended(db, p) => a.status \in {"succeeded", "review"}
  <2>1. CASE Turns(db.pay[p], a)
    BY <2>1 DEF Turns, Ended, OpenStatus, Finalizable
  <2>2. CASE Settles(p, db.pay[p], a, R)
    <3>1. PICK s \in Task : /\ pc[s] = "settle" /\ task[s].pay = p
                            /\ task[s].seen.status = db.pay[p].status
                            /\ task[s].answer.state # "succeeded"
                            /\ ~ RefTaken(db, p, task[s].ref)
      BY <2>2 DEF Settles
    <3>2. db.pay[p].status # "review"
      BY <3>1 DEF Informed, Right
    <3>3. db.pay[p].status \in {"uncertain", "review"}
      BY <2>2 DEF Settles
    <3> QED
      BY <3>2, <3>3 DEF Ended
  <2> QED
    BY <1>1, <2>1, <2>2
<1>8. Wrote(p, a)
  BY <1>1, <1>2, <1>3, <1>5, <1>6, <1>7 DEF Wrote, Change
<1> QED
  BY <1>8

LEMMA BuysWrote ==
  ASSUME Base, Informed, NEW p \in Payment, Buys(p)
  PROVE  \E a : Wrote(p, a)
<1>1. PICK at \in 0 .. now :
        \E a, x, R :
          /\ Change(db, db', p, a, {x}, R) /\ Becomes(db.pay[p], a, "succeeded", a.ref)
          /\ Links(p, a.ref) /\ Collected(prov, p, a.ref)
  BY DEF Buys
<1>2. PICK a, x, R :
          /\ Change(db, db', p, a, {x}, R) /\ Becomes(db.pay[p], a, "succeeded", a.ref)
          /\ Links(p, a.ref) /\ Collected(prov, p, a.ref)
  BY <1>1
<1>3. Exists(db, p) /\ a \in PaymentDoc /\ a.ref \in Ref /\ a.status = "succeeded"
  BY <1>2 DEF Buys, Becomes, Collected
<1>4. /\ \A c \in Ref : db.pay[p].ref = c => a.ref = c
      /\ a.ref \in Ref => Linked(p, a.ref) /\ ~ RefTaken(db, p, a.ref)
  BY <1>2, <1>3, LinkAlone
<1>5. ASSUME NEW r \in Task, pc[r] = "initiate"
      PROVE  task[r].pay # p
  BY <1>3, <1>4, <1>5, LinkedNotAlone
<1>6. Wrote(p, a)
  BY <1>2, <1>3, <1>4, <1>5 DEF Wrote, Change
<1> QED
  BY <1>6

\* What every step keeps of the payments.
Forth ==
  /\ \A p \in Payment : Exists(db, p) =>
       /\ Exists(db', p)
       /\ \A c \in Ref : db.pay[p].ref = c => db'.pay[p].ref = c
       /\ Ended(db, p) => Ended(db', p)
  /\ \A p \in Payment, c \in Ref : Exists(db', p) /\ db'.pay[p].ref = c => Linked(p, c)
  /\ \A p \in Payment : Exists(db', p) /\ db'.pay[p].status = "review" => Spent(db, prov, p)
  /\ RefsApart(db')
  /\ \A r \in Task : pc[r] = "initiate" => db'.pay[task[r].pay].status = "initiating"

LEMMA WroteForth ==
  ASSUME Base, Informed, NEW p \in Payment, NEW a, Wrote(p, a)
  PROVE  Forth
<1>1. /\ a \in PaymentDoc /\ db'.pay[p] = a
      /\ \A q \in Payment \ {p} : db'.pay[q] = db.pay[q]
  BY DEF Wrote
<1>2. Exists(db', p) /\ \A q \in Payment \ {p} : Exists(db', q) <=> Exists(db, q)
  BY <1>1, PaymentSentinels DEF Exists
<1>3. ASSUME NEW q \in Payment, Exists(db, q)
      PROVE  /\ Exists(db', q)
             /\ \A c \in Ref : db.pay[q].ref = c => db'.pay[q].ref = c
             /\ Ended(db, q) => Ended(db', q)
  BY <1>1, <1>2, <1>3 DEF Wrote, Ended
<1>4. ASSUME NEW q \in Payment, NEW c \in Ref, Exists(db', q), db'.pay[q].ref = c
      PROVE  Linked(q, c)
  <2>1. CASE q = p
    BY <1>1, <1>4, <2>1 DEF Wrote
  <2>2. CASE q # p
    BY <1>1, <1>2, <1>4, <2>2 DEF Linked
  <2> QED
    BY <2>1, <2>2
<1>5. ASSUME NEW q \in Payment, Exists(db', q), db'.pay[q].status = "review"
      PROVE  Spent(db, prov, q)
  <2>1. CASE q = p
    BY <1>1, <1>5, <2>1 DEF Wrote
  <2>2. CASE q # p
    BY <1>1, <1>2, <1>5, <2>2 DEF Informed, InReview
  <2> QED
    BY <2>1, <2>2
<1>6. RefsApart(db')
  <2>1. ASSUME NEW q \in Payment, NEW s \in Payment, Exists(db', q), Exists(db', s),
               db'.pay[q].ref = db'.pay[s].ref, db'.pay[q].ref # Null
        PROVE  q = s
    <3>1. ASSUME NEW t \in Payment, t # p, Exists(db', t), db'.pay[t].ref = a.ref
          PROVE  a.ref = Null
      BY <1>1, <1>2, <3>1 DEF Wrote, RefTaken, PaymentDoc
    <3>2. CASE q # p /\ s # p
      BY <1>1, <1>2, <2>1, <3>2 DEF Informed, RefsApart
    <3>3. CASE q = p /\ s # p
      BY <1>1, <2>1, <3>1, <3>3
    <3>4. CASE q # p /\ s = p
      BY <1>1, <2>1, <3>1, <3>4
    <3> QED
      BY <3>2, <3>3, <3>4
  <2> QED
    BY <2>1 DEF RefsApart
<1>7. ASSUME NEW r \in Task, pc[r] = "initiate"
      PROVE  db'.pay[task[r].pay].status = "initiating"
  <2>1. task[r].pay \in Payment \ {p}
    BY <1>7, PayOf DEF Wrote, Paying
  <2> QED
    BY <1>1, <1>7, <2>1 DEF Informed, Alone
<1> QED
  BY <1>3, <1>4, <1>5, <1>6, <1>7 DEF Forth

LEMMA SameForth ==
  ASSUME Base, Informed, db'.pay = db.pay
  PROVE  Forth
<1>1. \A p \in Payment : Exists(db', p) <=> Exists(db, p)
  BY DEF Exists
<1>2. RefsApart(db')
  BY <1>1 DEF Informed, RefsApart
<1> QED
  BY <1>1, <1>2 DEF Forth, Ended, Linked, Informed, InReview, Alone

LEMMA DocStepForth ==
  ASSUME Base, Informed, NEW W \in SUBSET Payment, DocStep(W)
  PROVE  Forth
<1>1. CASE db' = db
  BY <1>1, SameForth
<1>2. ASSUME NEW p \in W, Opens(p) \/ Rewrites(p) \/ Buys(p)
      PROVE  Forth
  <2>1. PICK a : Wrote(p, a)
    BY <1>2, OpensWrote, RewritesWrote, BuysWrote
  <2> QED
    BY <2>1, WroteForth
<1>3. ASSUME NEW m \in Manual, Grants(m)
      PROVE  Forth
  BY <1>3, SameForth DEF Grants
<1> QED
  BY <1>1, <1>2, <1>3 DEF DocStep

\* What every step keeps of the collections; only for a payment of N one is
\* made.
Widens(N) ==
  /\ prov' \in [Ref -> Collection \cup {Absent}]
  /\ \A c \in Ref : prov[c] # Absent =>
       /\ prov'[c] # Absent /\ prov'[c].merchant = prov[c].merchant
       /\ prov[c].state = "succeeded" => prov'[c].state = "succeeded"
       /\ Late(prov, c) => Late(prov', c)
  /\ \A p \in Payment \ N, c \in Ref : Owns(prov', p, c) => Owns(prov, p, c)

LEMMA SameWidens ==
  ASSUME Base, prov' = prov
  PROVE  Widens({})
  BY DEF Base, Widens, Late, Owns

LEMMA TakenStays ==
  ASSUME Forth, NEW p \in Payment, NEW c \in Ref, RefTaken(db, p, c)
  PROVE  RefTaken(db', p, c)
  BY DEF Forth, RefTaken

LEMMA SpentStays ==
  ASSUME Forth, NEW N, Widens(N), NEW p \in Payment \ N, Spent(db, prov, p)
  PROVE  Spent(db', prov', p)
<1>1. ASSUME NEW c \in Ref, Owns(prov', p, c)
      PROVE  Late(prov', c) \/ RefTaken(db', p, c)
  <2>1. Owns(prov, p, c)
    BY <1>1 DEF Widens
  <2>2. CASE Late(prov, c)
    BY <2>1, <2>2 DEF Widens, Owns
  <2>3. CASE RefTaken(db, p, c)
    BY <2>3, TakenStays
  <2> QED
    BY <2>1, <2>2, <2>3 DEF Spent
<1> QED
  BY <1>1 DEF Spent

\* What a task knows stays so.
LEMMA RightStays ==
  ASSUME Base, Informed, Forth, NEW N, Widens(N), NEW q \in Task,
         pc[q] \in {"review", "consult"} => task[q].pay \notin N
  PROVE  Right(pc[q], task[q], db', prov')
<1> DEFINE w == task[q]
           p == task[q].pay
<1>1. Right(pc[q], w, db, prov)
  BY DEF Informed
<1>2. pc[q] \in Paying => w \in Work /\ p \in Payment /\ Exists(db, p) /\ pc[q] # "idle"
  BY PayOf DEF Paying
<1>3. pc[q] = "review" => Spent(db', prov', p)
  BY <1>1, <1>2, SpentStays DEF Right, Paying
<1>4. pc[q] = "consult" /\ w.seen.status = "review" => Spent(db', prov', p)
  BY <1>1, <1>2, SpentStays DEF Right, Paying
<1>5. ASSUME pc[q] = "apply"
      PROVE  /\ w.ref \in {Null, w.answer.ref}
             /\ w.answer.merchant = p \/ db'.pay[p].ref = w.answer.ref
             /\ w.answer.same \/ Late(prov', w.answer.ref)
  <2>1. w.answer.ref \in Ref /\ prov[w.answer.ref] # Absent
    BY <1>5 DEF Base, TaskOK, Fits, Told, Heard, Answer
  <2>2. /\ w.ref \in {Null, w.answer.ref}
        /\ w.answer.merchant = p \/ db.pay[p].ref = w.answer.ref
        /\ w.answer.same \/ Late(prov, w.answer.ref)
    BY <1>1, <1>5 DEF Right
  <2>3. db.pay[p].ref = w.answer.ref => db'.pay[p].ref = w.answer.ref
    BY <1>2, <1>5, <2>1 DEF Forth, Paying
  <2>4. Late(prov, w.answer.ref) => Late(prov', w.answer.ref)
    BY <2>1 DEF Widens
  <2> QED
    BY <2>2, <2>3, <2>4
<1>6. ASSUME pc[q] = "settle", w.seen.status = "review", w.answer.state # "succeeded"
      PROVE  RefTaken(db', p, w.ref)
  <2>1. w.ref \in Ref
    BY <1>6 DEF Base, TaskOK, Fits
  <2>2. RefTaken(db, p, w.ref)
    BY <1>1, <1>6 DEF Right
  <2> QED
    BY <1>2, <1>6, <2>1, <2>2, TakenStays DEF Paying
<1>7. ASSUME pc[q] # "idle", w.notice # Absent
      PROVE  Noticed(pc[q], w, db', prov')
  <2>1. Noticed(pc[q], w, db, prov)
    BY <1>1, <1>7 DEF Right
  <2>2. pc[q] \in Paying
    BY <2>1 DEF Noticed, Paying
  <2>3. w.notice \in Ref
    BY <1>2, <1>7, <2>2 DEF Work
  <2>4. prov'[w.notice] # Absent /\ prov'[w.notice].state = "succeeded"
    BY <2>1, <2>3 DEF Noticed, Widens
  <2>5. db'.pay[p].ref = w.notice /\ (Ended(db, p) => Ended(db', p))
    BY <1>2, <2>1, <2>2, <2>3 DEF Noticed, Forth
  <2> QED
    BY <2>1, <2>4, <2>5 DEF Noticed
<1>8. pc[q] = "finalize" => w.answer.merchant = p
  BY <1>1 DEF Right
<1>9. ASSUME pc[q] = "fetch"
      PROVE  w.ref \in {Null, db'.pay[p].ref}
  <2>1. w.ref \in Ref \cup {Null}
    BY <1>2, <1>9 DEF Work, Paying
  <2>2. w.ref \in {Null, db.pay[p].ref}
    BY <1>1, <1>9 DEF Right
  <2> QED
    BY <1>2, <1>9, <2>1, <2>2 DEF Forth, Paying
<1> QED
  BY <1>3, <1>4, <1>5, <1>6, <1>7, <1>8, <1>9 DEF Right

\* The task r may go on so while others ask for a collection.
Accords(r, stage, w) ==
  \A q \in Task \ {r} : pc[q] = "initiate" /\ stage \in Paying /\ w.pay = task[q].pay =>
    stage = "fetch" /\ w.ref = Null

\* What the task r comes to know and to hold, in a step that asks the provider
\* for nothing.
Learns(r) ==
  /\ Right(pc'[r], task'[r], db', prov') /\ Alone(r)'
  /\ \A p \in Payment, c \in Ref : Holds(r, p, c)' => Linked(p, c)
  /\ Accords(r, pc'[r], task'[r])

LEMMA LinkedBefore ==
  ASSUME Base, Informed, NEW r \in Task, Advances(r), prov' = prov, Forth, Learns(r),
         NEW p \in Payment, NEW c \in Ref, Linked(p, c)'
  PROVE  Linked(p, c)
<1>1. CASE prov'[c] # Absent /\ prov'[c].merchant = p
  BY <1>1 DEF Linked, Mine
<1>2. ASSUME NEW q \in Task, Holds(q, p, c)'
      PROVE  Linked(p, c)
  <2>1. CASE q = r
    BY <1>2, <2>1 DEF Learns
  <2>2. CASE q # r
    <3>1. pc'[q] = pc[q] /\ task'[q] = task[q]
      BY <2>2 DEF Advances, Steps
    <3>2. Holds(q, p, c)
      BY <1>2, <3>1 DEF Holds
    <3> QED
      BY <3>2 DEF Linked, Mine
  <2> QED
    BY <2>1, <2>2
<1>3. CASE Exists(db', p) /\ db'.pay[p].ref = c
  BY <1>3 DEF Forth
<1> QED
  BY <1>1, <1>2, <1>3 DEF Linked, Mine, Exists

LEMMA SnapEndedStays ==
  ASSUME Base, Informed, Forth, NEW W, Follow(W), NEW q \in Task
  PROVE  SnapEnded(q)'
<1> SUFFICES ASSUME snap'[q] # Absent, NEW p \in Payment,
                    Exists(snap'[q].db, p), Ended(snap'[q].db, p)
             PROVE  Ended(db', p)
  BY DEF SnapEnded, Exists, Ended
<1>1. CASE db' = db /\ snap'[q].db = db
  BY <1>1
<1>2. CASE snap[q] # Absent /\ snap'[q] = snap[q]
  <2>1. Ended(db, p)
    BY <1>2 DEF Informed, SnapEnded
  <2>2. Exists(db, p)
    BY <1>2 DEF Base, SnapOK, Reads
  <2> QED
    BY <2>1, <2>2 DEF Forth
<1> QED
  BY <1>1, <1>2 DEF Follow

LEMMA LearnsInformed ==
  ASSUME Base, Informed, NEW r \in Task, Advances(r), prov' = prov,
         notices' \subseteq notices, Learns(r)
  PROVE  Informed'
<1>1. PICK W \in SUBSET Payment : DocStep(W) /\ Follow(W)
  BY DEF Advances
<1>2. Forth /\ Widens({})
  BY <1>1, DocStepForth, SameWidens
<1>3. RefsApart(db') /\ Notified(notices', prov')
  BY <1>2 DEF Forth, Informed, Notified
<1>4. OneLink'
  <2>1. ASSUME NEW p \in Payment, NEW c \in Ref, NEW e \in Ref, Linked(p, c)', Linked(p, e)'
        PROVE  c = e
    BY <1>2, <2>1, LinkedBefore DEF Informed, OneLink
  <2> QED
    BY <2>1 DEF OneLink
<1>5. Made(db', prov')
  BY <1>2 DEF Informed, Made, Forth
<1>6. InReview(db', prov')
  BY <1>2, SpentStays DEF InReview, Forth
<1>7. ASSUME NEW q \in Task
      PROVE  Right(pc'[q], task'[q], db', prov') /\ Alone(q)'
  <2>1. CASE q = r
    BY <2>1 DEF Learns
  <2>2. CASE q # r
    <3>1. pc'[q] = pc[q] /\ task'[q] = task[q]
      BY <2>2 DEF Advances, Steps
    <3>2. Right(pc'[q], task'[q], db', prov')
      BY <1>2, <3>1, RightStays
    <3>3. ASSUME pc[q] = "initiate"
          PROVE  Alone(q)'
      <4>1. db'.pay[task'[q].pay].status = "initiating"
        BY <1>2, <3>1, <3>3 DEF Forth
      <4>2. PICK p \in Payment : p = task[q].pay
        BY <3>3, PayOf DEF Paying
      <4>3. \A c \in Ref : ~ Linked(p, c)'
        BY <1>2, <3>3, <4>2, LinkedBefore, LinkedNotAlone
      <4>4. ASSUME NEW s \in Task \ {q}, pc'[s] \in Paying, task'[s].pay = p
            PROVE  pc'[s] = "fetch" /\ task'[s].ref = Null
        <5>1. CASE s = r
          BY <2>2, <3>3, <4>2, <4>4, <5>1 DEF Learns, Accords
        <5>2. CASE s # r
          <6>1. pc'[s] = pc[s] /\ task'[s] = task[s]
            BY <5>2 DEF Advances, Steps
          <6> QED
            BY <3>3, <4>2, <4>4, <6>1 DEF Informed, Alone
        <5> QED
          BY <5>1, <5>2
      <4>5. task'[q].pay = p
        BY <3>1, <4>2
      <4> QED
        BY <4>1, <4>3, <4>4, <4>5, Zenon DEF Alone
    <3>4. Alone(q)'
      BY <3>1, <3>3 DEF Alone
    <3> QED
      BY <3>2, <3>4
  <2> QED
    BY <2>1, <2>2
<1>8. \A q \in Task : SnapEnded(q)'
  BY <1>1, <1>2, SnapEndedStays
<1> QED
  BY <1>3, <1>4, <1>5, <1>6, <1>7, <1>8 DEF Informed

LEMMA FinishLearns ==
  ASSUME Base, NEW r \in Task, Finish(r)
  PROVE  Learns(r)
<1>1. "idle" \in Stage /\ pc'[r] = "idle" /\ task'[r] = Absent
  BY GoIs DEF Finish, Stage
<1> QED
  BY <1>1 DEF Learns, Right, Alone, Holds, Accords, Paying

LEMMA GoLearns ==
  ASSUME Base, NEW r \in Task,
         NEW stage \in Stage \ {"idle", "initiate", "record", "recheck"}, NEW w \in Work,
         Go(r, stage, w), Right(stage, w, db', prov'),
         Accords(r, stage, w)
  PROVE  Learns(r)
<1>1. pc'[r] = stage /\ task'[r] = w
  BY GoIs
<1> QED
  BY <1>1 DEF Learns, Alone, Holds

\* What the task of a notification knows after a step.
LEMMA NoticeIs ==
  ASSUME Base, Informed, Forth, prov' = prov, NEW r \in Task, pc[r] # "idle",
         task[r].notice # Absent
  PROVE  /\ pc[r] \in Paying /\ pc[r] # "initiate" /\ task[r].notice \in Ref
         /\ Noticed(pc[r], task[r], db, prov)
         /\ prov'[task[r].notice] # Absent /\ prov'[task[r].notice].state = "succeeded"
         /\ db.pay[task[r].pay].ref = task[r].notice
         /\ db'.pay[task[r].pay].ref = task[r].notice
         /\ \A q \in Task : pc[q] = "initiate" => task[q].pay # task[r].pay
<1>1. Noticed(pc[r], task[r], db, prov)
  BY DEF Informed, Right
<1>2. pc[r] \in Paying /\ pc[r] # "initiate"
  BY <1>1 DEF Noticed, Paying
<1>3. task[r] \in Work /\ task[r].pay \in Payment /\ Exists(db, task[r].pay)
  BY <1>2, PayOf
<1>4. task[r].notice \in Ref
  BY <1>3 DEF Work
<1>5. Linked(task[r].pay, task[r].notice)
  BY <1>1, <1>3 DEF Noticed, Linked
<1>6. db'.pay[task[r].pay].ref = task[r].notice
  BY <1>1, <1>3, <1>4 DEF Noticed, Forth
<1>7. \A q \in Task : pc[q] = "initiate" => task[q].pay # task[r].pay
  BY <1>4, <1>5, LinkedNotAlone
<1> QED
  BY <1>1, <1>2, <1>4, <1>6, <1>7 DEF Noticed

\* A task that answers for a notification leaves its payment at an end.
LEMMA DoneLearns ==
  ASSUME Base, Informed, Forth, prov' = prov, NEW r \in Task, pc[r] \in Paying, Done(r),
         task[r].notice # Absent => Ended(db', task[r].pay)
  PROVE  Learns(r)
<1>1. pc[r] # "idle"
  BY DEF Paying
<1>2. CASE task[r].notice = Absent
  BY <1>2, FinishLearns DEF Done
<1>3. CASE task[r].notice # Absent
  <2>1. PICK w : w = Bare(r)
    OBVIOUS
  <2>2. w \in Work /\ w.pay = task[r].pay /\ w.notice = task[r].notice
    BY <1>1, <2>1, BareWork
  <2>3. Go(r, "answer", w)
    BY <1>3, <2>1 DEF Done
  <2>4. Noticed("answer", w, db', prov')
    BY <1>1, <1>3, <2>2, NoticeIs DEF Noticed
  <2>5. Right("answer", w, db', prov')
    BY <2>4 DEF Right
  <2>6. Accords(r, "answer", w)
    BY <1>1, <1>3, <2>2, NoticeIs DEF Accords
  <2>7. "answer" \in Stage \ {"idle", "initiate", "record", "recheck"}
    BY DEF Stage
  <2> QED
    BY <2>2, <2>3, <2>5, <2>6, <2>7, GoLearns
<1> QED
  BY <1>2, <1>3

LEMMA BareLearns ==
  ASSUME Base, Informed, Forth, prov' = prov, NEW r \in Task,
         pc[r] \in Paying \ {"initiate", "fetch"},
         Go(r, "review", Bare(r)), Spent(db', prov', task[r].pay)
  PROVE  Learns(r)
<1>1. pc[r] # "idle"
  BY DEF Paying
<1>2. PICK w : w = Bare(r)
  OBVIOUS
<1>3. w \in Work /\ w.pay = task[r].pay /\ w.notice = task[r].notice
  BY <1>1, <1>2, BareWork
<1>4. w.notice # Absent => Noticed("review", w, db', prov')
  BY <1>1, <1>3, NoticeIs DEF Noticed
<1>5. Right("review", w, db', prov')
  BY <1>3, <1>4 DEF Right
<1>6. Accords(r, "review", w)
  BY <1>3, NotAlone DEF Accords
<1>7. "review" \in Stage \ {"idle", "initiate", "record", "recheck"}
  BY DEF Stage
<1> QED
  BY <1>2, <1>3, <1>5, <1>6, <1>7, GoLearns

\* A reference that p has, or may get, is the only one.
LEMMA LinkedSpent ==
  ASSUME Base, Informed, NEW p \in Payment, NEW c \in Ref, Linked(p, c),
         Owns(prov, p, c) => Late(prov, c) \/ RefTaken(db, p, c)
  PROVE  Spent(db, prov, p)
<1>1. ASSUME NEW e \in Ref, Owns(prov, p, e)
      PROVE  e = c
  <2>1. Linked(p, e)
    BY <1>1 DEF Owns, Linked, Mine
  <2> QED
    BY <2>1 DEF Informed, OneLink
<1> QED
  BY <1>1 DEF Spent

----------------------------------------------------------------------------
(* The steps of a task, and what it learns *)

LEMMA StartLearns ==
  ASSUME Base, Informed, NEW r \in Task, NEW kind,
         NEW stage \in Stage \ {"idle", "initiate", "record", "recheck"}, NEW work,
         Start(r, kind, stage, work),
         NEW w \in Work, w = [work EXCEPT !.kind = kind],
         Right(stage, w, db, prov),
         Accords(r, stage, w)
  PROVE  Learns(r)
<1>1. Go(r, stage, w) /\ db' = db /\ prov' = prov
  BY DEF Start, Quiet, World
<1> QED
  BY <1>1, GoLearns

LEMMA ReceiveCreateLearns ==
  ASSUME Base, Informed, NEW r \in Task, ReceiveCreate(r)
  PROVE  Learns(r)
<1>1. PICK k \in Key, q \in Request :
        Start(r, "create", "check", [NoWork EXCEPT !.key = k, !.request = q])
  BY DEF ReceiveCreate
<1>2. PICK w : w = [[NoWork EXCEPT !.key = k, !.request = q] EXCEPT !.kind = "create"]
  OBVIOUS
<1>3. w \in Work /\ w.notice = Absent
  BY <1>2 DEF NoWork, Work
<1>4. /\ "check" \in Stage \ {"idle", "initiate", "record", "recheck"}
      /\ Right("check", w, db, prov) /\ Accords(r, "check", w)
  BY <1>3 DEF Stage, Right, Accords, Paying
<1> QED
  BY <1>1, <1>2, <1>3, <1>4, StartLearns

LEMMA ReceiveRefreshLearns ==
  ASSUME Base, Informed, NEW r \in Task, ReceiveRefresh(r)
  PROVE  Learns(r)
<1>1. PICK p \in Payment :
        /\ Exists(db, p)
        /\ Start(r, "confirm", "fetch", [NoWork EXCEPT !.pay = p, !.ref = db.pay[p].ref])
  BY DEF ReceiveRefresh
<1>2. PICK ref : ref = db.pay[p].ref
  OBVIOUS
<1>3. ref \in Ref \cup {Null}
  BY <1>1, <1>2, DocumentFields DEF Base, PaymentDoc
<1>4. PICK w : w = [[NoWork EXCEPT !.pay = p, !.ref = ref] EXCEPT !.kind = "confirm"]
  OBVIOUS
<1>5. w \in Work /\ w.pay = p /\ w.ref = ref /\ w.notice = Absent
  BY <1>3, <1>4 DEF NoWork, Work
<1>6. ASSUME NEW q \in Task \ {r}, pc[q] = "initiate", task[q].pay = p
      PROVE  ref = Null
  <2>1. ref \in Ref => Linked(p, ref)
    BY <1>1, <1>2 DEF Linked
  <2> QED
    BY <1>3, <1>6, <2>1, LinkedNotAlone
<1>7. /\ "fetch" \in Stage \ {"idle", "initiate", "record", "recheck"}
      /\ Right("fetch", w, db, prov) /\ Accords(r, "fetch", w)
  BY <1>2, <1>5, <1>6 DEF Stage, Right, Accords
<1>8. Start(r, "confirm", "fetch", [NoWork EXCEPT !.pay = p, !.ref = ref])
  BY <1>1, <1>2
<1> QED
  BY <1>4, <1>5, <1>7, <1>8, StartLearns

LEMMA ReceiveNoticeLearns ==
  ASSUME Base, Informed, NEW r \in Task, NEW c \in notices, ReceiveNotice(r, c)
  PROVE  \/ Learns(r)
         \/ /\ \A p \in Payment : Exists(db, p) => db.pay[p].ref # c
            /\ notices' = notices \ {c}
            /\ UNCHANGED <<db, prov, now, pc, task, snap, stale>>
<1> DEFINE work(p) == [NoWork EXCEPT !.pay = p, !.notice = c]
<1>1. SUFFICES ASSUME NEW p \in Payment, Exists(db, p), db.pay[p].ref = c,
                      \/ Start(r, "confirm", "fetch", [work(p) EXCEPT !.ref = db.pay[p].ref])
                      \/ ~ Consults(db.pay[p]) /\ Start(r, "confirm", "answer", work(p))
               PROVE  Learns(r)
  BY DEF ReceiveNotice
<1>2. c \in Ref /\ prov[c] # Absent /\ prov[c].state = "succeeded"
  BY DEF Base, Informed, Notified
<1>3. \A q \in Task : pc[q] = "initiate" => task[q].pay # p
  BY <1>1, <1>2, LinkedNotAlone DEF Linked
<1>4. CASE Start(r, "confirm", "fetch", [work(p) EXCEPT !.ref = db.pay[p].ref])
  <2>1. PICK w : w = [[work(p) EXCEPT !.ref = c] EXCEPT !.kind = "confirm"]
    OBVIOUS
  <2>2. w \in Work /\ w.pay = p /\ w.notice = c /\ w.ref = c
    BY <1>2, <2>1 DEF NoWork, Work
  <2>3. /\ "fetch" \in Stage \ {"idle", "initiate", "record", "recheck"}
        /\ Right("fetch", w, db, prov) /\ Accords(r, "fetch", w)
    BY <1>1, <1>2, <1>3, <2>2 DEF Stage, Right, Noticed, Accords
  <2>4. Start(r, "confirm", "fetch", [work(p) EXCEPT !.ref = c])
    BY <1>1, <1>4
  <2> HIDE DEF work
  <2> QED
    BY <2>1, <2>2, <2>3, <2>4, StartLearns
<1>5. CASE ~ Consults(db.pay[p]) /\ Start(r, "confirm", "answer", work(p))
  <2>1. PICK w : w = [work(p) EXCEPT !.kind = "confirm"]
    OBVIOUS
  <2>2. w \in Work /\ w.pay = p /\ w.notice = c
    BY <1>2, <2>1 DEF NoWork, Work
  <2>3. Ended(db, p)
    BY <1>1, <1>2, <1>5, PaymentConstants DEF Consults, Ended
  <2>4. /\ "answer" \in Stage \ {"idle", "initiate", "record", "recheck"}
        /\ Right("answer", w, db, prov) /\ Accords(r, "answer", w)
    BY <1>1, <1>2, <1>3, <2>2, <2>3 DEF Stage, Right, Noticed, Accords
  <2> HIDE DEF work
  <2> QED
    BY <1>5, <2>1, <2>2, <2>4, StartLearns
<1> QED
  BY <1>1, <1>4, <1>5

LEMMA ReceiveReconcileLearns ==
  ASSUME Base, Informed, NEW r \in Task, ReceiveReconcile(r)
  PROVE  Learns(r)
<1>1. PICK p \in Payment, c \in Ref, o \in Operation :
        /\ Exists(db, p) /\ db.pay[p].status \in {"uncertain", "review"}
        /\ Start(r, "reconcile", "consult",
                 [NoWork EXCEPT !.pay = p, !.ref = c, !.op = o, !.seen = db.pay[p]])
  BY DEF ReceiveReconcile
<1>2. PICK doc \in PaymentDoc : doc = db.pay[p]
  BY <1>1, DocumentFields DEF Base
<1>3. PICK w : w = [[NoWork EXCEPT !.pay = p, !.ref = c, !.op = o, !.seen = doc]
                    EXCEPT !.kind = "reconcile"]
  OBVIOUS
<1>4. w \in Work /\ w.pay = p /\ w.seen = doc /\ w.notice = Absent
  BY <1>3 DEF NoWork, Work
<1>5. \A q \in Task : pc[q] = "initiate" => task[q].pay # p
  BY <1>1 DEF Informed, Alone
<1>6. /\ "consult" \in Stage \ {"idle", "initiate", "record", "recheck"}
      /\ Right("consult", w, db, prov) /\ Accords(r, "consult", w)
  BY <1>1, <1>2, <1>4, <1>5 DEF Stage, Right, Informed, InReview, Accords
<1>7. Start(r, "reconcile", "consult",
            [NoWork EXCEPT !.pay = p, !.ref = c, !.op = o, !.seen = doc])
  BY <1>1, <1>2
<1> QED
  BY <1>3, <1>4, <1>6, <1>7, StartLearns

LEMMA ReceiveGrantLearns ==
  ASSUME Base, Informed, NEW r \in Task, ReceiveGrant(r)
  PROVE  Learns(r)
<1>1. PICK m \in Manual, length \in Length :
        Start(r, "grant", "grant", [NoWork EXCEPT !.source = m, !.length = length])
  BY DEF ReceiveGrant
<1>2. PICK w : w = [[NoWork EXCEPT !.source = m, !.length = length] EXCEPT !.kind = "grant"]
  OBVIOUS
<1>3. w \in Work /\ w.notice = Absent
  BY <1>2 DEF NoWork, Work
<1>4. /\ "grant" \in Stage \ {"idle", "initiate", "record", "recheck"}
      /\ Right("grant", w, db, prov) /\ Accords(r, "grant", w)
  BY <1>3 DEF Stage, TxStage, Right, Accords, Paying
<1> QED
  BY <1>1, <1>2, <1>3, <1>4, StartLearns

\* A task that stays where it is.
LEMMA WaitLearns ==
  ASSUME Base, Informed, Forth, prov' = prov, NEW r \in Task, pc[r] \in TxStage,
         pc'[r] = pc[r], task'[r] = task[r]
  PROVE  Learns(r)
<1>1. Right(pc'[r], task'[r], db', prov')
  BY SameWidens, RightStays
<1>2. Accords(r, pc'[r], task'[r])
  BY NotAlone DEF Accords, TxStage
<1> QED
  BY <1>1, <1>2 DEF Learns, Alone, Holds, TxStage

LEMMA CheckOpenLearns ==
  ASSUME Base, Informed, NEW r \in Task, CheckOpen(r)
  PROVE  Learns(r)
<1>1. pc[r] = "check" /\ db' = db /\ prov' = prov
  BY DEF CheckOpen, Quiet, World
<1>2. CASE Finish(r)
  BY <1>2, FinishLearns
<1>3. CASE Goto(r, "reserve") /\ UNCHANGED task
  <2>1. task[r] \in Work
    BY <1>1, PayOf
  <2>2. task[r].notice = Absent
    BY <1>1 DEF Informed, Right, Noticed
  <2>3. pc'[r] = "reserve" /\ task'[r] = task[r]
    BY <1>3 DEF Goto, Base
  <2> QED
    BY <2>2, <2>3 DEF Learns, Right, Alone, Holds, Accords, Paying
<1> QED
  BY <1>2, <1>3 DEF CheckOpen

\* A new payment is known to the task that made it.
LEMMA ReserveLearns ==
  ASSUME Base, Informed, NEW r \in Task, Reserve(r), Forth, Advances(r)
  PROVE  Learns(r)
<1>1. pc[r] = "reserve" /\ pc[r] # "idle"
  BY DEF Reserve
<1>2. CASE Finish(r)
  BY <1>2, FinishLearns
<1>3. ASSUME NEW p \in Payment, ~ Exists(db, p),
             Write(NewPayment(db, p, task[r].key, task[r].request), p),
             Go(r, "initiate", [task[r] EXCEPT !.key = Absent, !.request = Absent, !.pay = p])
      PROVE  Learns(r)
  <2>1. PICK t \in Work : t = task[r]
    BY <1>1, PayOf
  <2>2. t.key \in Key /\ t.request \in Request
    BY <1>1, <2>1 DEF Base, TaskOK, Fits
  <2>3. PICK n : n = NewPayment(db, p, t.key, t.request)
    OBVIOUS
  <2>4. db \in Documents /\ db' = n /\ prov' = prov
    BY <1>3, <2>1, <2>3 DEF Base, Write, World
  <2>5. db'.pay[p].status = "initiating" /\ db'.pay[p].ref = Null
    BY <2>2, <2>3, <2>4, NewChange DEF Change
  <2>6. PICK w : w = [t EXCEPT !.key = Absent, !.request = Absent, !.pay = p]
    OBVIOUS
  <2>7. w.pay = p /\ w.notice = t.notice
    BY <2>6 DEF Work
  <2>8. pc'[r] = "initiate" /\ task'[r] = w
    BY <1>3, <2>1, <2>6 DEF Go, Goto, Base
  <2>9. t.notice = Absent
    BY <1>1, <2>1 DEF Informed, Right, Noticed
  <2>10. Right("initiate", w, db', prov')
    BY <2>7, <2>9 DEF Right
  <2>11. ASSUME NEW q \in Task, pc[q] \in Paying
         PROVE  task[q].pay # p
    BY <1>3, <2>11, PayOf DEF Paying
  <2>12. ASSUME NEW c \in Ref
         PROVE  ~ Linked(p, c)'
    <3>1. ~ (prov'[c] # Absent /\ prov'[c].merchant = p)
      BY <1>3, <2>4 DEF Informed, Made
    <3>2. ASSUME NEW q \in Task, Holds(q, p, c)'
          PROVE  FALSE
      <4>1. q # r
        BY <2>8, <3>2 DEF Holds
      <4>2. pc'[q] = pc[q] /\ task'[q] = task[q]
        BY <4>1 DEF Advances, Steps
      <4> QED
        BY <2>11, <3>2, <4>2 DEF Holds, Paying
    <3>3. db'.pay[p].ref # c
      BY <2>5, PaymentConstants
    <3> QED
      BY <3>1, <3>2, <3>3 DEF Linked, Mine
  <2>13. ASSUME NEW q \in Task \ {r}, pc'[q] \in Paying
         PROVE  task'[q].pay # p
    BY <2>11, <2>13 DEF Advances, Steps
  <2>14. Alone(r)'
    <3>1. task'[r].pay = p
      BY <2>7, <2>8
    <3> QED
      BY <2>5, <2>12, <2>13, <3>1, Zenon DEF Alone
  <2>15. Accords(r, pc'[r], task'[r])
    BY <2>7, <2>8, <2>11 DEF Accords, Paying
  <2>16. \A c \in Ref, q \in Payment : Holds(r, q, c)' => Linked(q, c)
    BY <2>8 DEF Holds
  <2> QED
    BY <2>8, <2>10, <2>14, <2>15, <2>16 DEF Learns
<1>4. Finish(r) \/ \E p \in Payment :
        /\ ~ Exists(db, p)
        /\ Write(NewPayment(db, p, task[r].key, task[r].request), p)
        /\ Go(r, "initiate", [task[r] EXCEPT !.key = Absent, !.request = Absent, !.pay = p])
  BY DEF Reserve
<1> QED
  BY <1>2, <1>3, <1>4

LEMMA RecordPendingLearns ==
  ASSUME Base, Informed, Forth, prov' = prov, NEW r \in Task, pc[r] \in {"record", "apply"},
         NEW ref \in Ref, Linked(task[r].pay, ref), NEW from,
         task[r].notice = Absent,
         RecordPending(r, task[r].pay, ref, from)
  PROVE  Learns(r)
<1>1. pc[r] # "idle" /\ pc[r] \in Paying \ {"initiate", "fetch"}
  BY DEF Paying
<1>2. PICK p \in Payment : p = task[r].pay /\ Exists(db, p)
  BY <1>1, PayOf
<1>3. CASE Go(r, "review", Bare(r)) /\ RefTaken(db, p, ref)
  <2>1. Spent(db, prov, p)
    BY <1>2, <1>3, LinkedSpent
  <2>2. Spent(db', prov', p)
    BY <2>1, SameWidens, SpentStays
  <2> QED
    BY <1>1, <1>2, <1>3, <2>2, BareLearns
<1>4. CASE Done(r)
  BY <1>1, <1>4, DoneLearns
<1>5. CASE Go(r, "recheck", [Bare(r) EXCEPT !.ref = ref])
  <2>1. PICK w : w = [Bare(r) EXCEPT !.ref = ref]
    OBVIOUS
  <2>2. w \in Work /\ w.pay = p /\ w.ref = ref /\ w.notice = Absent
    BY <1>1, <1>2, <2>1, BareWork
  <2>3. pc'[r] = "recheck" /\ task'[r] = w
    BY <1>5, <2>1, <2>2, GoIs DEF Stage
  <2>4. Right("recheck", w, db', prov')
    BY <2>2 DEF Right
  <2>5. Accords(r, "recheck", w)
    BY <1>1, <1>2, <2>2, NotAlone DEF Accords
  <2>6. \A q \in Payment, c \in Ref : Holds(r, q, c)' => Linked(q, c)
    BY <1>2, <2>2, <2>3 DEF Holds
  <2> QED
    BY <2>3, <2>4, <2>5, <2>6 DEF Learns, Alone
<1> QED
  BY <1>2, <1>3, <1>4, <1>5 DEF RecordPending

LEMMA RecordInitiationLearns ==
  ASSUME Base, Informed, NEW r \in Task, RecordInitiation(r), Forth, prov' = prov
  PROVE  Learns(r)
<1>1. pc[r] = "record" /\ pc[r] # "idle" /\ pc[r] \in Paying
  BY DEF RecordInitiation, Paying
<1>2. task[r].notice = Absent
  BY <1>1 DEF Informed, Right, Noticed
<1>3. CASE Finish(r)
  BY <1>3, FinishLearns
<1>4. CASE /\ task[r].outcome = "accepted"
           /\ RecordPending(r, task[r].pay, task[r].ref, {"initiating"})
  <2>1. task[r].ref \in Ref /\ Holds(r, task[r].pay, task[r].ref)
    BY <1>1, <1>4 DEF Base, TaskOK, Fits, Holds
  <2>2. Linked(task[r].pay, task[r].ref)
    BY <2>1 DEF Linked, Mine
  <2> QED
    BY <1>1, <1>2, <1>4, <2>1, <2>2, RecordPendingLearns
<1>5. task[r].outcome \in {"refused", "uncertain", "accepted"}
  BY <1>1 DEF Base, TaskOK, Fits
<1> QED
  BY <1>3, <1>4, <1>5 DEF RecordInitiation

\* A task never has another reference for a payment than the recorded one.
LEMMA RecheckLearns ==
  ASSUME Base, Informed, NEW r \in Task, Recheck(r), Forth, prov' = prov
  PROVE  Learns(r)
<1>1. pc[r] = "recheck" /\ pc[r] # "idle" /\ pc[r] \in Paying
  BY DEF Recheck, Paying
<1>2. task[r].notice = Absent
  BY <1>1 DEF Informed, Right, Noticed
<1>3. PICK p \in Payment : p = task[r].pay /\ Exists(db, p)
  BY <1>1, PayOf
<1>4. db.pay[p].ref \in Ref \cup {Null}
  BY <1>3, DocumentFields DEF Base, PaymentDoc
<1>5. task[r].ref \in Ref /\ Linked(p, task[r].ref)
  BY <1>1, <1>3 DEF Base, TaskOK, Fits, Linked, Mine, Holds
<1>6. db.pay[p].ref \in {Null, task[r].ref}
  <2>1. db.pay[p].ref \in Ref => Linked(p, db.pay[p].ref)
    BY <1>3 DEF Linked
  <2> QED
    BY <1>4, <1>5, <2>1 DEF Informed, OneLink
<1>7. Done(r)
  BY <1>3, <1>6 DEF Recheck
<1> QED
  BY <1>1, <1>2, <1>7, DoneLearns

LEMMA ReviewLearns ==
  ASSUME Base, Informed, NEW r \in Task, Review(r), Forth, prov' = prov
  PROVE  Learns(r)
<1>1. pc[r] = "review" /\ pc[r] # "idle" /\ pc[r] \in Paying
  BY DEF Review, Paying
<1>2. PICK p \in Payment : p = task[r].pay /\ Exists(db, p)
  BY <1>1, PayOf
<1>3. Ended(db', p)
  <2>1. CASE Moves(db, p, Finalizable)
    <3>1. db' = ToStatus(db, p, "review")
      BY <1>2, <2>1 DEF Review, Write
    <3>2. PICK a : Change(db, db', p, a, {}, {}) /\ Becomes(db.pay[p], a, "review", db.pay[p].ref)
      BY <1>2, <3>1, StatusChange DEF Base, Status
    <3> QED
      BY <3>2 DEF Change, Becomes, Ended
  <2>2. CASE ~ Moves(db, p, Finalizable)
    <3>1. db' = db
      BY <1>2, <2>2 DEF Review, Quiet
    <3>2. db.pay[p].status \in Status
      BY <1>2, DocumentFields DEF Base, PaymentDoc
    <3> QED
      BY <2>2, <3>1, <3>2 DEF Moves, Status, Ended
  <2> QED
    BY <2>1, <2>2
<1>4. Done(r)
  BY DEF Review
<1> QED
  BY <1>1, <1>2, <1>3, <1>4, DoneLearns

LEMMA FetchLearns ==
  ASSUME Base, Informed, NEW r \in Task, Fetch(r), Forth, prov' = prov
  PROVE  Learns(r)
<1>1. pc[r] = "fetch" /\ pc[r] # "idle" /\ pc[r] \in Paying /\ db' = db
  BY DEF Fetch, Write, Paying
<1>2. PICK t \in Work : t = task[r] /\ t.pay \in Payment /\ Exists(db, t.pay)
  BY <1>1, PayOf
<1>3. t.notice # Absent => Found(t.ref, t.pay) # {} /\ t.ref = t.notice /\ t.notice \in Ref
                           /\ db.pay[t.pay].ref = t.notice /\ prov[t.notice].state = "succeeded"
  BY <1>1, <1>2, NoticeIs DEF Noticed, Found
<1>4. CASE Found(t.ref, t.pay) = {}
  <2>1. Done(r)
    BY <1>2, <1>4 DEF Fetch
  <2> QED
    BY <1>1, <1>2, <1>3, <1>4, <2>1, DoneLearns
<1>5. ASSUME NEW c \in Found(t.ref, t.pay),
             Go(r, "apply", [task[r] EXCEPT !.answer = AnswerOf(c)])
      PROVE  Learns(r)
  <2>1. /\ c \in Ref /\ prov[c] # Absent
        /\ t.ref = c \/ (t.ref = Null /\ prov[c].merchant = t.pay)
    BY DEF Found
  <2>2. PICK answer \in Answer :
          /\ answer = AnswerOf(c) /\ answer.ref = c /\ answer.merchant = prov[c].merchant
          /\ answer.state = prov[c].state /\ answer.same = prov[c].same
    BY <2>1, AnswerOfType DEF AnswerOf
  <2>3. PICK w : w = [t EXCEPT !.answer = answer]
    OBVIOUS
  <2>4. /\ w \in Work /\ w.pay = t.pay /\ w.notice = t.notice /\ w.ref = t.ref
        /\ w.answer = answer
    BY <2>3 DEF Work
  <2>5. Go(r, "apply", w) /\ "apply" \in Stage \ {"idle", "initiate", "record", "recheck"}
    BY <1>2, <1>5, <2>2, <2>3 DEF Stage
  <2>6. t.ref = c => db.pay[t.pay].ref = c
    <3>1. Right("fetch", t, db, prov)
      BY <1>1, <1>2 DEF Informed
    <3> QED
      BY <2>1, <3>1, PaymentConstants DEF Right
  <2>7. answer.same \/ Late(prov, c)
    BY <2>2 DEF Late
  <2>8. w.notice # Absent => Noticed("apply", w, db, prov)
    BY <1>3, <2>1, <2>2, <2>4, PaymentConstants DEF Noticed
  <2>9. Right("apply", w, db', prov')
    BY <1>1, <2>1, <2>2, <2>4, <2>6, <2>7, <2>8 DEF Right
  <2>10. ASSUME NEW q \in Task \ {r}, pc[q] = "initiate", task[q].pay = t.pay
         PROVE  FALSE
    <3>1. ~ Linked(t.pay, c)
      BY <2>1, <2>10, LinkedNotAlone
    <3>2. t.ref = Null
      BY <1>1, <1>2, <2>10, NotAlone
    <3> QED
      BY <2>1, <3>1, <3>2, PaymentConstants DEF Linked, Mine
  <2>11. Accords(r, "apply", w)
    BY <2>4, <2>10 DEF Accords
  <2> QED
    BY <2>4, <2>5, <2>9, <2>11, GoLearns
<1> QED
  BY <1>2, <1>4, <1>5 DEF Fetch

LEMMA ApplyLearns ==
  ASSUME Base, Informed, NEW r \in Task, Apply(r), Forth, prov' = prov
  PROVE  Learns(r)
<1>1. pc[r] = "apply" /\ pc[r] # "idle" /\ pc[r] \in Paying \ {"initiate", "fetch"}
  BY DEF Apply, Paying
<1>2. PICK t \in Work : t = task[r] /\ t.pay \in Payment /\ Exists(db, t.pay)
  BY <1>1, PayOf
<1>3. PICK answer \in Answer : answer = t.answer /\ Heard(answer, prov)
  BY <1>1, <1>2 DEF Base, TaskOK, Fits, Told
<1>4. answer.ref \in Ref
  BY DEF Answer
<1>5. /\ t.ref \in {Null, answer.ref}
      /\ answer.merchant = t.pay \/ db.pay[t.pay].ref = answer.ref
      /\ answer.same \/ Late(prov, answer.ref)
  BY <1>1, <1>2, <1>3 DEF Informed, Right
<1>6. Linked(t.pay, answer.ref)
  BY <1>2, <1>3, <1>5 DEF Linked, Mine, Heard
<1>7. t.notice # Absent => answer.state = "succeeded"
  BY <1>1, <1>2, <1>3, NoticeIs DEF Noticed
<1>8. CASE ~ Concordant(t.pay, answer, t.ref) /\ Go(r, "review", Bare(r))
  <2>1. Owns(prov, t.pay, answer.ref) => ~ answer.same
    BY <1>3, <1>5, <1>8 DEF Owns, Heard, Concordant
  <2>2. Spent(db, prov, t.pay)
    BY <1>2, <1>4, <1>5, <1>6, <2>1, LinkedSpent
  <2>3. Spent(db', prov', t.pay)
    BY <1>2, <2>2, SameWidens, SpentStays
  <2> QED
    BY <1>1, <1>2, <1>8, <2>3, BareLearns
<1>9. CASE answer.state = "pending" /\ RecordPending(r, t.pay, answer.ref, {"initiating", "uncertain"})
  BY <1>1, <1>2, <1>4, <1>6, <1>7, <1>9, RecordPendingLearns
<1>10. CASE answer.state = "failed" /\ RecordFailure(r, t.pay, answer.ref)
  <2>1. CASE Finish(r)
    BY <2>1, FinishLearns
  <2>2. CASE Done(r)
    BY <1>1, <1>2, <1>7, <1>10, <2>2, DoneLearns
  <2> QED
    BY <1>10, <2>1, <2>2 DEF RecordFailure
<1>11. CASE /\ answer.state = "succeeded" /\ Concordant(t.pay, answer, t.ref)
            /\ Go(r, "finalize", [task[r] EXCEPT !.ref = Null])
  <2>1. PICK w : w = [t EXCEPT !.ref = Null]
    OBVIOUS
  <2>2. w \in Work /\ w.pay = t.pay /\ w.notice = t.notice /\ w.answer = answer
    BY <1>3, <2>1 DEF Work
  <2>3. w.notice # Absent => Noticed("finalize", w, db', prov')
    BY <1>1, <1>2, <2>2, NoticeIs DEF Noticed
  <2>4. Right("finalize", w, db', prov')
    BY <1>11, <2>2, <2>3 DEF Right, Concordant
  <2>5. Accords(r, "finalize", w)
    BY <1>1, <1>2, <2>2, NotAlone DEF Accords
  <2>6. "finalize" \in Stage \ {"idle", "initiate", "record", "recheck"}
    BY DEF Stage, TxStage
  <2> QED
    BY <1>2, <1>11, <2>1, <2>2, <2>4, <2>5, <2>6, GoLearns
<1>12. answer.state \in {"pending", "failed", "succeeded"}
  BY DEF Answer
<1> QED
  BY <1>2, <1>3, <1>8, <1>9, <1>10, <1>11, <1>12 DEF Apply

\* What a transaction reads of a payment that is at an end is so.
LEMMA SnapEndedIs ==
  ASSUME Base, Informed, Forth, NEW r \in Task, snap[r] # Absent, NEW p \in Payment,
         Exists(snap[r].db, p), Ended(snap[r].db, p)
  PROVE  Ended(db', p)
<1>1. Ended(db, p) /\ Exists(db, p)
  BY DEF Informed, SnapEnded, Base, SnapOK, Reads
<1> QED
  BY <1>1 DEF Forth

LEMMA FinalizeLearns ==
  ASSUME Base, Informed, NEW r \in Task, Finalize(r), Forth, prov' = prov
  PROVE  Learns(r)
<1>1. /\ pc[r] = "finalize" /\ pc[r] # "idle" /\ pc[r] \in Paying \ {"initiate", "fetch"}
      /\ snap[r] # Absent /\ pc[r] \in TxStage
  BY DEF Finalize, InBody, Paying, TxStage
<1>2. PICK p \in Payment : p = task[r].pay /\ Exists(db, p)
  BY <1>1, PayOf
<1>3. PICK answer \in Answer : answer = task[r].answer /\ Heard(answer, prov)
  BY <1>1 DEF Base, TaskOK, Fits, Told
<1>4. PICK s \in Documents : s = snap[r].db /\ Exists(s, p)
  BY <1>1, <1>2, SnapIs DEF Names
<1>5. /\ answer.ref \in Ref /\ answer.state = "succeeded" /\ answer.merchant = p
  BY <1>1, <1>2, <1>3 DEF Answer, Base, TaskOK, Fits, Informed, Right
<1>6. CASE ~ Finalizes(s, p, answer) /\ Done(r)
  <2>1. s.pay[p].status \in Status
    BY <1>4, DocumentFields DEF PaymentDoc
  <2>2. Ended(s, p)
    BY <1>6, <2>1 DEF Finalizes, Moves, Status, Ended
  <2>3. Ended(db', p)
    BY <1>1, <1>4, <2>2, SnapEndedIs
  <2> QED
    BY <1>1, <1>2, <1>6, <2>3, DoneLearns
<1>7. CASE Go(r, "review", Bare(r))
  <2>1. Linked(p, answer.ref) /\ Late(prov, answer.ref)
    BY <1>3, <1>5 DEF Linked, Mine, Heard, Late
  <2>2. Spent(db, prov, p)
    BY <1>5, <2>1, LinkedSpent
  <2>3. Spent(db', prov', p)
    BY <2>2, SameWidens, SpentStays
  <2> QED
    BY <1>1, <1>2, <1>7, <2>3, BareLearns
<1>8. ASSUME NEW n, RetryTx(r, n, {p})
      PROVE  Learns(r)
  BY <1>1, <1>8, WaitLearns DEF RetryTx
<1>9. ASSUME NEW at \in Clock(r), CommitTx(r, Succeed(s, p, answer.ref, at), {p}), Done(r)
      PROVE  Learns(r)
  <2>1. db'.pay[p] = Succeed(s, p, answer.ref, at).pay[p]
    BY <1>9 DEF CommitTx
  <2>2. db'.pay[p].status = "succeeded"
    <3>1. PICK g : g = Grant(s, p, s.pay[p].request.length, at)
      OBVIOUS
    <3>2. g.pay = s.pay
      BY <3>1 DEF Grant
    <3>3. PICK b \in PaymentDoc : b = s.pay[p]
      BY <1>4, DocumentFields
    <3>4. PICK bought : bought = (CHOOSE x \in Granted(g, p) : TRUE).seq
      OBVIOUS
    <3>5. Succeed(s, p, answer.ref, at)
            = [g EXCEPT !.pay[p] = [@ EXCEPT !.status = "succeeded", !.open = FALSE,
                                             !.ref = answer.ref, !.period = bought]]
      BY <3>1, <3>4 DEF Succeed
    <3>6. g = [pay |-> g.pay, periods |-> g.periods, records |-> g.records]
      BY <3>1, <1>4, DocumentFields DEF Grant
    <3>7. s.pay \in [Payment -> PaymentDoc \cup {Absent}]
      BY DocumentFields
    <3>8. Succeed(s, p, answer.ref, at).pay[p]
            = [b EXCEPT !.status = "succeeded", !.open = FALSE,
                        !.ref = answer.ref, !.period = bought]
      BY <3>2, <3>3, <3>5, <3>6, <3>7
    <3> QED
      BY <2>1, <3>8 DEF PaymentDoc
  <2> QED
    BY <1>1, <1>2, <1>9, <2>2, DoneLearns DEF Ended
<1>10. CASE Finish(r)
  BY <1>10, FinishLearns
<1> QED
  BY <1>2, <1>3, <1>4, <1>6, <1>7, <1>8, <1>9, <1>10 DEF Finalize

\* An operator approves what the provider says of the reference named.
LEMMA ConsultLearns ==
  ASSUME Base, Informed, NEW r \in Task, Consult(r)
  PROVE  Learns(r)
<1>1. /\ pc[r] = "consult" /\ pc[r] # "idle" /\ pc[r] \in Paying \ {"initiate", "fetch"}
      /\ db' = db /\ prov' = prov
  BY DEF Consult, Quiet, World, Paying
<1>2. PICK t \in Work : t = task[r] /\ t.pay \in Payment /\ Exists(db, t.pay)
  BY <1>1, PayOf
<1>3. PICK c \in Ref : c = t.ref
  BY <1>1, <1>2 DEF Base, TaskOK, Fits
<1>4. t.notice = Absent
  BY <1>1, <1>2 DEF Informed, Right, Noticed
<1>5. CASE Finish(r)
  BY <1>5, FinishLearns
<1>6. CASE /\ prov[c] # Absent /\ Concordant(t.pay, AnswerOf(c), c)
           /\ Go(r, "settle", [task[r] EXCEPT !.answer = AnswerOf(c)])
  <2>1. PICK answer \in Answer :
          /\ answer = AnswerOf(c) /\ answer.ref = c /\ answer.merchant = prov[c].merchant
          /\ answer.state = prov[c].state /\ answer.same = prov[c].same
    BY <1>6, AnswerOfType DEF AnswerOf
  <2>2. PICK w : w = [t EXCEPT !.answer = answer]
    OBVIOUS
  <2>3. /\ w \in Work /\ w.pay = t.pay /\ w.notice = Absent /\ w.answer = answer
        /\ w.ref = c /\ w.seen = t.seen
    BY <1>3, <1>4, <2>2 DEF Work
  <2>4. ASSUME w.seen.status = "review", answer.state # "succeeded"
        PROVE  RefTaken(db, t.pay, c)
    <3>1. Spent(db, prov, t.pay)
      BY <1>1, <1>2, <2>3, <2>4 DEF Informed, Right
    <3>2. Owns(prov, t.pay, c) /\ ~ Late(prov, c)
      BY <1>6, <2>1, <2>4 DEF Owns, Late, Concordant
    <3> QED
      BY <3>1, <3>2 DEF Spent
  <2>5. Right("settle", w, db', prov')
    BY <1>1, <2>3, <2>4 DEF Right
  <2>6. Accords(r, "settle", w)
    BY <1>1, <1>2, <2>3, NotAlone DEF Accords
  <2>7. /\ "settle" \in Stage \ {"idle", "initiate", "record", "recheck"}
        /\ Go(r, "settle", w)
    BY <1>2, <1>6, <2>1, <2>2 DEF Stage, TxStage
  <2> QED
    BY <2>3, <2>5, <2>6, <2>7, GoLearns
<1> QED
  BY <1>2, <1>3, <1>5, <1>6 DEF Consult

LEMMA SettleTxLearns ==
  ASSUME Base, Informed, NEW r \in Task, SettleTx(r), Forth, prov' = prov
  PROVE  Learns(r)
<1>1. pc[r] \in TxStage
  BY DEF SettleTx, InBody, TxStage
<1>2. ASSUME NEW n, NEW W, RetryTx(r, n, W)
      PROVE  Learns(r)
  BY <1>1, <1>2, WaitLearns DEF RetryTx
<1>3. CASE Finish(r)
  BY <1>3, FinishLearns
<1> QED
  BY <1>2, <1>3 DEF SettleTx

LEMMA GrantTxLearns ==
  ASSUME Base, Informed, NEW r \in Task, GrantTx(r), Forth, prov' = prov
  PROVE  Learns(r)
<1>1. pc[r] \in TxStage
  BY DEF GrantTx, InBody, TxStage
<1>2. ASSUME NEW n, NEW W, RetryTx(r, n, W)
      PROVE  Learns(r)
  BY <1>1, <1>2, WaitLearns DEF RetryTx
<1>3. CASE Finish(r)
  BY <1>3, FinishLearns
<1> QED
  BY <1>2, <1>3 DEF GrantTx

\* The provider has a collection more, made by the task r, or none.
Asked(r, p, c, w) ==
  /\ pc'[r] = "record" /\ task'[r] = w /\ w \in Work
  /\ \A q \in Task \ {r} : pc'[q] = pc[q] /\ task'[q] = task[q]
  /\ w.pay = p /\ w.notice = task[r].notice
  /\ w.outcome = "accepted" => w.ref = c
  /\ \/ prov' = prov
     \/ /\ c \in Ref /\ prov[c] = Absent
        /\ prov' = [prov EXCEPT ![c] = [merchant |-> p, same |-> TRUE, state |-> "pending"]]

LEMMA InitiateAsks ==
  ASSUME Base, NEW r \in Task, Initiate(r), NEW p, p = task[r].pay
  PROVE  \E c, w : Asked(r, p, c, w)
<1>1. pc[r] # "idle"
  BY DEF Initiate
<1>2. PICK t \in Work : t = task[r] /\ t.pay = p
  BY <1>1, PayOf
<1>3. ASSUME NEW word \in {"refused", "uncertain"}, NEW c,
             Go(r, "record", [task[r] EXCEPT !.outcome = word]),
             \/ prov' = prov
             \/ /\ c \in Ref /\ prov[c] = Absent
                /\ prov' = [prov EXCEPT ![c] = [merchant |-> p, same |-> TRUE, state |-> "pending"]]
      PROVE  \E d, w : Asked(r, p, d, w)
  <2>1. PICK w : w = [t EXCEPT !.outcome = word]
    OBVIOUS
  <2>2. w \in Work /\ w.pay = p /\ w.notice = t.notice /\ w.outcome = word
    BY <1>2, <2>1 DEF Work
  <2>3. Go(r, "record", w) /\ "record" \in Stage
    BY <1>2, <1>3, <2>1 DEF Stage
  <2>4. Asked(r, p, c, w)
    BY <1>2, <1>3, <2>2, <2>3, GoIs DEF Asked
  <2> QED
    BY <2>4
<1>4. ASSUME NEW c \in Ref,
             Go(r, "record", [task[r] EXCEPT !.outcome = "accepted", !.ref = c]),
             \/ prov' = prov
             \/ /\ prov[c] = Absent
                /\ prov' = [prov EXCEPT ![c] = [merchant |-> p, same |-> TRUE, state |-> "pending"]]
      PROVE  \E d, w : Asked(r, p, d, w)
  <2>1. PICK w : w = [t EXCEPT !.outcome = "accepted", !.ref = c]
    OBVIOUS
  <2>2. w \in Work /\ w.pay = p /\ w.notice = t.notice /\ w.ref = c
    <3>1. w \in Work
      BY <2>1 DEF Work
    <3>2. w.pay = t.pay /\ w.notice = t.notice /\ w.ref = c
      BY <2>1 DEF Work
    <3> QED
      BY <1>2, <3>1, <3>2, Zenon
  <2>3. Go(r, "record", w) /\ "record" \in Stage
    BY <1>2, <1>4, <2>1 DEF Stage
  <2>4. Asked(r, p, c, w)
    BY <1>2, <1>4, <2>2, <2>3, GoIs DEF Asked
  <2> QED
    BY <2>4
<1> QED
  BY <1>3, <1>4 DEF Initiate

LEMMA InitiateInformed ==
  ASSUME Base, Informed, NEW r \in Task, Initiate(r)
  PROVE  Informed'
<1>1. /\ pc[r] = "initiate" /\ pc[r] # "idle" /\ pc[r] \in Paying
      /\ UNCHANGED <<db, notices, now, snap, stale>>
  BY DEF Initiate, Paying
<1>2. PICK p \in Payment : p = task[r].pay /\ Exists(db, p)
  BY <1>1, PayOf
<1>3. PICK new, w : Asked(r, p, new, w)
  BY <1>2, InitiateAsks
<1>4. /\ pc'[r] = "record" /\ task'[r] = w
      /\ \A q \in Task \ {r} : pc'[q] = pc[q] /\ task'[q] = task[q]
      /\ w.pay = p /\ (w.outcome = "accepted" => w.ref = new)
  BY <1>3 DEF Asked
<1>5. w.notice = Absent
  BY <1>1, <1>3 DEF Asked, Informed, Right, Noticed
<1>6. \A c \in Ref : ~ Linked(p, c)
  BY <1>1, <1>2, LinkedNotAlone
<1>7. \A q \in Task \ {r} : pc[q] \in Paying /\ task[q].pay = p =>
        pc[q] = "fetch" /\ task[q].ref = Null
  BY <1>1, <1>2 DEF Informed, Alone
<1>8. Forth
  BY <1>1, SameForth
<1>9. /\ prov' \in [Ref -> Collection \cup {Absent}]
      /\ \A c \in Ref : c # new => prov'[c] = prov[c]
      /\ \A c \in Ref : prov[c] # Absent => prov'[c] = prov[c]
      /\ \A c \in Ref : prov'[c] # Absent /\ prov[c] = Absent =>
           prov'[c].merchant = p /\ prov'[c].same /\ prov'[c].state = "pending"
  <2>1. CASE prov' = prov
    BY <2>1 DEF Base
  <2>2. CASE /\ new \in Ref /\ prov[new] = Absent
             /\ prov' = [prov EXCEPT ![new] = [merchant |-> p, same |-> TRUE, state |-> "pending"]]
    <3>1. PICK same \in BOOLEAN : same = TRUE
      OBVIOUS
    <3>2. PICK e \in Collection : e = [merchant |-> p, same |-> same, state |-> "pending"]
      BY DEF Collection
    <3>3. prov' = [prov EXCEPT ![new] = e]
      BY <2>2, <3>1, <3>2
    <3>4. e.merchant = p /\ e.same /\ e.state = "pending"
      BY <3>1, <3>2
    <3> QED
      BY <2>2, <3>3, <3>4 DEF Base
  <2> QED
    BY <1>3, <2>1, <2>2 DEF Asked
<1>10. Widens({p})
  BY <1>9 DEF Widens, Late, Owns
<1>11. ASSUME NEW q \in Payment, NEW c \in Ref, Linked(q, c)'
       PROVE  Linked(q, c) \/ (q = p /\ c = new)
  <2>1. CASE prov'[c] # Absent /\ prov'[c].merchant = q
    BY <1>9, <2>1 DEF Linked, Mine
  <2>2. ASSUME NEW s \in Task, Holds(s, q, c)'
        PROVE  Linked(q, c) \/ (q = p /\ c = new)
    <3>1. CASE s = r
      BY <1>4, <2>2, <3>1 DEF Holds
    <3>2. CASE s # r
      <4>1. Holds(s, q, c)
        BY <1>4, <2>2, <3>2 DEF Holds
      <4> QED
        BY <4>1 DEF Linked, Mine
    <3> QED
      BY <3>1, <3>2
  <2>3. CASE Exists(db', q) /\ db'.pay[q].ref = c
    BY <1>1, <2>3 DEF Linked
  <2> QED
    BY <1>11, <2>1, <2>2, <2>3 DEF Linked, Mine, Exists
<1>12. OneLink'
  <2>1. ASSUME NEW q \in Payment, NEW c \in Ref, NEW e \in Ref, Linked(q, c)', Linked(q, e)'
        PROVE  c = e
    BY <1>6, <1>11, <2>1 DEF Informed, OneLink
  <2> QED
    BY <2>1 DEF OneLink
<1>13. Made(db', prov')
  BY <1>1, <1>2, <1>9 DEF Informed, Made
<1>14. RefsApart(db') /\ Notified(notices', prov')
  BY <1>1, <1>9 DEF Base, Informed, Notified
<1>15. InReview(db', prov')
  <2>1. ASSUME NEW q \in Payment, Exists(db', q), db'.pay[q].status = "review"
        PROVE  Spent(db', prov', q)
    <3>1. db.pay[p].status = "initiating"
      BY <1>1, <1>2 DEF Informed, Alone
    <3>2. q # p /\ Spent(db, prov, q)
      BY <1>1, <2>1, <3>1 DEF Informed, InReview
    <3> QED
      BY <1>8, <1>10, <3>2, SpentStays
  <2> QED
    BY <2>1 DEF InReview
<1>16. ASSUME NEW q \in Task
       PROVE  Right(pc'[q], task'[q], db', prov') /\ Alone(q)'
  <2>1. CASE q = r
    BY <1>4, <1>5, <2>1 DEF Right, Alone
  <2>2. CASE q # r
    <3>1. pc'[q] = pc[q] /\ task'[q] = task[q]
      BY <1>4, <2>2
    <3>2. pc[q] \in {"review", "consult"} => task[q].pay \notin {p}
      BY <1>7, <2>2 DEF Paying
    <3>3. Right(pc'[q], task'[q], db', prov')
      BY <1>8, <1>10, <3>1, <3>2, RightStays
    <3>4. ASSUME pc[q] = "initiate"
          PROVE  Alone(q)'
      <4>1. PICK o \in Payment : o = task[q].pay
        BY <3>4, PayOf DEF Paying
      <4>2. o # p
        BY <1>7, <2>2, <3>4, <4>1 DEF Paying
      <4>3. ASSUME NEW c \in Ref
            PROVE  ~ Linked(o, c)'
        BY <1>11, <3>4, <4>1, <4>2, LinkedNotAlone
      <4>4. ASSUME NEW s \in Task \ {q}, pc'[s] \in Paying, task'[s].pay = o
            PROVE  pc'[s] = "fetch" /\ task'[s].ref = Null
        <5>1. s # r
          BY <1>4, <4>2, <4>4
        <5> QED
          BY <1>4, <3>4, <4>1, <4>4, <5>1 DEF Informed, Alone
      <4>5. db'.pay[o].status = "initiating" /\ task'[q].pay = o
        BY <1>1, <3>1, <3>4, <4>1 DEF Informed, Alone
      <4> QED
        BY <4>3, <4>4, <4>5, Zenon DEF Alone
    <3> QED
      BY <3>1, <3>3, <3>4 DEF Alone
  <2> QED
    BY <2>1, <2>2
<1>17. \A q \in Task : SnapEnded(q)'
  BY <1>1 DEF Informed, SnapEnded, Exists, Ended
<1> QED
  BY <1>12, <1>13, <1>14, <1>15, <1>16, <1>17 DEF Informed

\* A step that moves no task and writes no document.
LEMMA IdleInformed ==
  ASSUME Base, Informed, UNCHANGED <<db, pc, task, snap>>, Widens({}),
         Made(db', prov'), Notified(notices', prov')
  PROVE  Informed'
<1>1. Forth
  BY SameForth
<1>2. ASSUME NEW p \in Payment, NEW c \in Ref, Linked(p, c)'
      PROVE  Linked(p, c)
  BY <1>2 DEF Linked, Mine, Holds, Widens, Owns, Exists
<1>3. OneLink'
  <2>1. ASSUME NEW p \in Payment, NEW c \in Ref, NEW e \in Ref, Linked(p, c)', Linked(p, e)'
        PROVE  c = e
    BY <1>2, <2>1 DEF Informed, OneLink
  <2> QED
    BY <2>1 DEF OneLink
<1>4. InReview(db', prov')
  BY <1>1, SpentStays DEF Informed, InReview
<1>5. \A q \in Task : Right(pc'[q], task'[q], db', prov')
  BY <1>1, RightStays
<1>6. ASSUME NEW q \in Task, pc[q] = "initiate"
      PROVE  Alone(q)'
  <2>1. PICK o \in Payment : o = task[q].pay
    BY <1>6, PayOf DEF Paying
  <2>2. ASSUME NEW c \in Ref
        PROVE  ~ Linked(o, c)'
    BY <1>2, <1>6, <2>1, LinkedNotAlone
  <2>3. ASSUME NEW s \in Task \ {q}, pc'[s] \in Paying, task'[s].pay = o
        PROVE  pc'[s] = "fetch" /\ task'[s].ref = Null
    BY <1>6, <2>1, <2>3 DEF Informed, Alone
  <2>4. db'.pay[o].status = "initiating" /\ task'[q].pay = o
    BY <1>6, <2>1 DEF Informed, Alone
  <2> QED
    BY <2>2, <2>3, <2>4, Zenon DEF Alone
<1>7. \A q \in Task : Alone(q)'
  BY <1>6 DEF Alone
<1>8. \A q \in Task : SnapEnded(q)'
  BY DEF Informed, SnapEnded, Exists, Ended
<1> QED
  BY <1>1, <1>3, <1>4, <1>5, <1>7, <1>8 DEF Informed, Forth

LEMMA ProviderSettlesInformed ==
  ASSUME Base, Informed, NEW c \in Ref, ProviderSettles(c)
  PROVE  Informed'
<1>1. PICK state \in {"failed", "succeeded"}, same \in BOOLEAN :
        /\ prov[c].state = "pending" \/ (prov[c].state = "failed" /\ state = "succeeded")
        /\ prov' = [prov EXCEPT ![c].state = state, ![c].same = same]
        /\ notices' = IF state = "succeeded" THEN notices \cup {c} ELSE notices
  BY DEF ProviderSettles
<1>2. UNCHANGED <<db, pc, task, snap>> /\ prov[c] # Absent
  BY DEF ProviderSettles
<1>3. PICK b \in Collection : b = prov[c]
  BY <1>2 DEF Base
<1>4. PICK e : e = [b EXCEPT !.state = state, !.same = same]
  OBVIOUS
<1>5. /\ e \in Collection /\ e.merchant = b.merchant /\ e.state = state /\ e.same = same
      /\ e # Absent
  <2>1. e \in Collection /\ e.merchant = b.merchant /\ e.state = state /\ e.same = same
    BY <1>4 DEF Collection
  <2> QED
    BY <2>1, PaymentSentinels
<1>6. prov' = [prov EXCEPT ![c] = e] /\ prov' \in [Ref -> Collection \cup {Absent}]
  BY <1>1, <1>3, <1>4, <1>5 DEF Base
<1>7. Late(prov, c) => Late(prov', c)
  <2>1. b.state = "pending" => b.same
    BY <1>2, <1>3 DEF Informed, Made
  <2> QED
    BY <1>1, <1>3, <1>5, <1>6, <2>1 DEF Late, Base
<1>8. Widens({})
  <2>1. /\ prov'[c] = e /\ prov[c] = b /\ e.merchant = b.merchant
        /\ b.state = "succeeded" => e.state = "succeeded"
    BY <1>1, <1>3, <1>5, <1>6 DEF Base
  <2>2. \A d \in Ref \ {c} : prov'[d] = prov[d]
    BY <1>6 DEF Base
  <2>3. \A d \in Ref : Late(prov, d) => Late(prov', d)
    BY <1>7, <2>2 DEF Late
  <2>4. \A p \in Payment, d \in Ref : Owns(prov', p, d) => Owns(prov, p, d)
    BY <1>2, <2>1, <2>2 DEF Owns
  <2> QED
    BY <1>5, <1>6, <2>1, <2>2, <2>3, <2>4 DEF Widens
<1>9. Made(db', prov')
  BY <1>1, <1>2, <1>3, <1>5, <1>6 DEF Informed, Made, Base
<1>10. Notified(notices', prov')
  BY <1>1, <1>3, <1>5, <1>6 DEF Informed, Notified, Base
<1> QED
  BY <1>2, <1>8, <1>9, <1>10, IdleInformed

LEMMA FirstInformed == Init => Informed
<1> SUFFICES ASSUME Init
             PROVE  Informed
  OBVIOUS
<1>1. \A p \in Payment : ~ Exists(db, p)
  BY DEF Init, Exists
<1>2. /\ \A c \in Ref : prov[c] = Absent
      /\ notices = {}
      /\ \A r \in Task : pc[r] = "idle" /\ task[r] = Absent /\ snap[r] = Absent
  BY DEF Init
<1>3. \A p \in Payment, c \in Ref : ~ Linked(p, c)
  <2>1. \A r \in Task : pc[r] \notin Paying
    BY <1>2 DEF Paying
  <2> QED
    BY <1>1, <1>2, <2>1, Zenon DEF Linked, Mine, Holds, Owns
<1>4. OneLink
  BY <1>3 DEF OneLink
<1>5. RefsApart(db) /\ Made(db, prov) /\ Notified(notices, prov) /\ InReview(db, prov)
  BY <1>1, <1>2 DEF RefsApart, Made, Notified, InReview
<1>6. \A r \in Task : Right(pc[r], task[r], db, prov) /\ Alone(r) /\ SnapEnded(r)
  BY <1>2 DEF Right, Alone, SnapEnded
<1> QED
  BY <1>4, <1>5, <1>6 DEF Informed

LEMMA AdvancesForth ==
  ASSUME Base, Informed, NEW r \in Task, Advances(r)
  PROVE  Forth
  BY DocStepForth DEF Advances

LEMMA ReceiveInformed ==
  ASSUME Base, Informed, NEW r \in Task, Receive(r)
  PROVE  Informed'
<1>1. ASSUME Advances(r), UNCHANGED World, Learns(r)
      PROVE  Informed'
  BY <1>1, LearnsInformed DEF World
<1>2. ASSUME NEW c \in notices, ReceiveNotice(r, c)
      PROVE  Informed'
  <2>1. ASSUME notices' = notices \ {c}, UNCHANGED <<db, prov, now, pc, task, snap, stale>>
        PROVE  Informed'
    <3>1. Widens({})
      BY <2>1, SameWidens
    <3>2. Made(db', prov') /\ Notified(notices', prov')
      BY <2>1 DEF Informed, Notified
    <3> QED
      BY <2>1, <3>1, <3>2, IdleInformed
  <2> QED
    BY <1>1, <1>2, <2>1, ReceiveNoticeMoves, ReceiveNoticeLearns
<1> QED
  BY <1>1, <1>2, ReceiveCreateMoves, ReceiveCreateLearns, ReceiveRefreshMoves,
     ReceiveRefreshLearns, ReceiveReconcileMoves, ReceiveReconcileLearns,
     ReceiveGrantMoves, ReceiveGrantLearns DEF Receive

LEMMA StepInformed ==
  ASSUME Base, Informed, NEW r \in Task, Step(r) \/ FetchFails(r) \/ GiveUp(r) \/ Crash(r)
  PROVE  Informed'
<1>1. ASSUME Advances(r), UNCHANGED World, Forth /\ prov' = prov => Learns(r)
      PROVE  Informed'
  BY <1>1, AdvancesForth, LearnsInformed DEF World
<1>2. CASE Initiate(r)
  BY <1>2, InitiateInformed
<1>3. CASE Begin(r)
  <2>1. Advances(r) /\ UNCHANGED World
    BY <1>3, BeginMoves DEF Begin
  <2>2. pc[r] \in TxStage /\ pc'[r] = pc[r] /\ task'[r] = task[r]
    BY <1>3 DEF Begin
  <2> QED
    BY <1>1, <2>1, <2>2, WaitLearns
<1>4. CASE Respond(r)
  <2>1. Advances(r) /\ notices' \subseteq notices /\ prov' = prov
    BY <1>4, RespondMoves
  <2>2. Learns(r)
    BY <1>4, FinishLearns DEF Respond
  <2> QED
    BY <2>1, <2>2, LearnsInformed
<1>5. CASE FetchFails(r) \/ GiveUp(r) \/ Crash(r)
  <2>1. Learns(r)
    BY <1>5, FinishLearns DEF FetchFails, GiveUp, Crash
  <2> QED
    BY <1>1, <1>5, <2>1, FetchFailsMoves, GiveUpMoves, CrashMoves
<1>6. CASE CheckOpen(r) \/ Reserve(r) \/ RecordInitiation(r) \/ Recheck(r) \/ Review(r)
  <2>1. CASE Reserve(r)
    BY <1>1, <2>1, ReserveMoves, ReserveLearns
  <2> QED
    BY <1>1, <1>6, <2>1, CheckOpenMoves, CheckOpenLearns, RecordInitiationMoves,
       RecordInitiationLearns, RecheckMoves, RecheckLearns, ReviewMoves, ReviewLearns
<1>7. CASE Fetch(r) \/ Apply(r) \/ Finalize(r) \/ Consult(r) \/ SettleTx(r) \/ GrantTx(r)
  BY <1>1, <1>7, FetchMoves, FetchLearns, ApplyMoves, ApplyLearns, FinalizeMoves,
     FinalizeLearns, ConsultMoves, ConsultLearns, SettleTxMoves, SettleTxLearns,
     GrantTxMoves, GrantTxLearns
<1> QED
  BY <1>2, <1>3, <1>4, <1>5, <1>6, <1>7 DEF Step

LEMMA NextInformed ==
  ASSUME Base, Informed, [Next]_vars
  PROVE  Informed'
<1>1. ASSUME UNCHANGED <<db, prov, notices, pc, task, snap>>
      PROVE  Informed'
  <2>1. Widens({}) /\ Made(db', prov') /\ Notified(notices', prov')
    BY <1>1, SameWidens DEF Informed
  <2> QED
    BY <1>1, <2>1, IdleInformed
<1>2. CASE Tick
  BY <1>1, <1>2 DEF Tick
<1>3. CASE UNCHANGED vars
  BY <1>1, <1>3 DEF vars
<1> QED
  BY <1>2, <1>3, ProviderSettlesInformed, ReceiveInformed, StepInformed DEF Next

\* What the requests know of a payment while they wait stays so, whatever the
\* others do: the reference that a notification named is still its own, and a
\* payment in review has no collection left that could go on by itself.
THEOREM AlwaysInformed == Spec => []Informed
<1>1. Base /\ Informed /\ [Next]_vars => Informed'
  BY NextInformed
<1> QED
  BY <1>1, AlwaysBase, FirstInformed, PTL DEF Spec

\* Only these two acknowledge a notification.
Forgets(c) ==
  \/ \A p \in Payment : Exists(db, p) => db.pay[p].ref # c
  \/ \E r \in Task : pc[r] = "answer" /\ task[r].notice = c

LEMMA NextForgets ==
  ASSUME Base, Informed, [Next]_vars, NEW c \in notices \ notices'
  PROVE  Forgets(c)
<1>1. ASSUME UNCHANGED World
      PROVE  FALSE
  BY <1>1 DEF World
<1>2. CASE Tick \/ UNCHANGED vars
  BY <1>2 DEF Tick, vars
<1>3. ASSUME NEW e \in Ref, ProviderSettles(e)
      PROVE  FALSE
  BY <1>3 DEF ProviderSettles
<1>4. ASSUME NEW r \in Task, Receive(r)
      PROVE  Forgets(c)
  <2>1. ASSUME NEW e \in notices, ReceiveNotice(r, e)
        PROVE  Forgets(c)
    <3>1. (\A p \in Payment : Exists(db, p) => db.pay[p].ref # e) /\ notices' = notices \ {e}
      BY <1>1, <2>1, Zenon DEF ReceiveNotice, Start, Quiet
    <3> QED
      BY <3>1 DEF Forgets
  <2> QED
    BY <1>1, <1>4, <2>1, ReceiveCreateMoves, ReceiveRefreshMoves, ReceiveReconcileMoves,
       ReceiveGrantMoves DEF Receive
<1>5. ASSUME NEW r \in Task, Step(r) \/ FetchFails(r) \/ GiveUp(r) \/ Crash(r)
      PROVE  Forgets(c)
  <2>1. CASE Respond(r)
    BY <2>1, RespondMoves DEF Respond, Forgets
  <2>2. CASE Initiate(r)
    BY <2>2, InitiateMoves
  <2>3. CASE Begin(r)
    BY <1>1, <2>3 DEF Begin
  <2> QED
    BY <1>1, <1>5, <2>1, <2>2, <2>3, CheckOpenMoves, ReserveMoves, RecordInitiationMoves,
       RecheckMoves, ReviewMoves, FetchMoves, ApplyMoves, FinalizeMoves, ConsultMoves,
       SettleTxMoves, GrantTxMoves, FetchFailsMoves, GiveUpMoves, CrashMoves DEF Step
<1> QED
  BY <1>2, <1>3, <1>4, <1>5 DEF Next

LEMMA ForgetsEnded ==
  ASSUME Base, Informed, NEW c \in notices, Forgets(c),
         NEW p \in Payment, Exists(db, p), db.pay[p].ref = c
  PROVE  db.pay[p].status \in {"succeeded", "review"}
<1>1. PICK r \in Task : pc[r] = "answer" /\ task[r].notice = c
  BY DEF Forgets
<1>2. c \in Ref /\ c # Absent /\ c # Null
  BY PaymentSentinels, PaymentConstants DEF Base
<1>3. task[r].pay \in Payment /\ Exists(db, task[r].pay)
  BY <1>1, PayOf DEF Paying
<1>4. Noticed("answer", task[r], db, prov)
  BY <1>1, <1>2 DEF Informed, Right
<1>5. p = task[r].pay
  BY <1>1, <1>2, <1>3, <1>4 DEF Noticed, Informed, RefsApart
<1> QED
  BY <1>4, <1>5 DEF Noticed, Ended

\* What the endpoint answers 200 to the provider does not send again
\* (`handle` of campay-webhook.service.ts): by then the payment is
\* paid or waits for an operator, or no payment has that reference.
THEOREM AlwaysNoNoticeLost == Spec => NoNoticeLost
<1>1. ASSUME Base, Informed, [Next]_vars
      PROVE  [\A c \in notices \ notices', p \in Payment :
                Exists(db, p) /\ db.pay[p].ref = c =>
                  db.pay[p].status \in {"succeeded", "review"}]_vars
  BY <1>1, NextForgets, ForgetsEnded
<1> QED
  BY <1>1, AlwaysBase, AlwaysInformed, PTL DEF Spec, NoNoticeLost

=============================================================================
