------------------------------- MODULE Payments -------------------------------
(***************************************************************************)
(* Concurrent requests about the payments of one organization: creation,   *)
(* confirmation by the owner or by a notification of the provider,         *)
(* reconciliation by an operator and manual grants                         *)
(* (subscription-payments.service.ts, payment-reconciliation.service.ts,   *)
(* campay-webhook.service.ts, subscriptions.service.ts).                   *)
(*                                                                         *)
(* A task stops at every await.  Single writes are conditional updates;    *)
(* grants are transactions: a snapshot, conflicts on the payments written, *)
(* unique indexes on the sequence and the source of a period.  The         *)
(* provider is outside: its answer may be old when it is applied.          *)
(***************************************************************************)
EXTENDS PaymentDocs, Sequences

CONSTANTS
  Task,            \* requests handled at the same time
  Kinds,           \* bound: kinds of tasks, and faults, that happen
  MerchantLookup,  \* whether the provider finds a collection by its merchant reference
  MaxNow           \* bound: units of time that pass

ASSUME PaymentTasks ==
  Task # {} /\ MerchantLookup \in BOOLEAN /\ MaxNow \in Nat

VARIABLES
  db,       \* the committed documents
  prov,     \* prov[c]: the collection c at the provider
  notices,  \* collections paid whose notification is not acknowledged yet
  now,      \* the clock of the server
  pc,       \* pc[r]: what task r does next
  task,     \* task[r]: what it works on, Absent when idle
  snap,     \* snap[r]: what its transaction reads and since when, Absent outside of one
  stale     \* stale[r]: payments written by others since that snapshot

vars == <<db, prov, notices, now, pc, task, snap, stale>>

TxStage == {"finalize", "settle", "grant"}
Stage == TxStage \cup {"idle", "check", "reserve", "initiate", "record", "recheck",
                       "review", "fetch", "apply", "answer", "consult"}

Collection == [merchant : Payment, same : BOOLEAN,
               state : {"pending", "failed", "succeeded"}]
Answer == [ref : Ref, merchant : Payment, same : BOOLEAN,
           state : {"pending", "failed", "succeeded"}]

\* pay: the payment; ref: the reference to ask about, or to record;
\* seen: the payment as the operator's plan read it; outcome: how the initiation went;
\* answer: what the provider said of a collection.
Work == [kind : {"create", "confirm", "reconcile", "grant"},
         key : Key \cup {Absent}, request : Request \cup {Absent},
         pay : Payment \cup {Absent}, notice : Ref \cup {Absent},
         ref : Ref \cup {Null}, seen : PaymentDoc \cup {Absent},
         outcome : {"none", "accepted", "refused", "uncertain"},
         answer : Answer \cup {Absent},
         op : Operation \cup {Absent},
         source : Manual \cup {Absent}, length : Length \cup {0}]

NoWork == [kind |-> "confirm", key |-> Absent, request |-> Absent, pay |-> Absent,
           notice |-> Absent, ref |-> Null, seen |-> Absent,
           outcome |-> "none", answer |-> Absent, op |-> Absent, source |-> Absent, length |-> 0]

\* What a transaction reads, and since when.
Snapshot == [db : Documents, at : Nat]

ASSUME PaymentSentinels ==
  /\ Absent \notin PaymentDoc \cup Collection \cup Work \cup Snapshot
  /\ Absent \notin Answer \cup Payment \cup Ref \cup Key \cup Request
  /\ Null # Absent

\* An organization has its trial, unless it is older than trials.
FirstPeriods ==
  {x \in {[seq |-> 1, from |-> 0, to |-> TrialLength, source |-> Trial]} : TrialLength > 0}

Init ==
  /\ db = [pay |-> [p \in Payment |-> Absent], periods |-> FirstPeriods, records |-> {}]
  /\ prov = [c \in Ref |-> Absent]
  /\ notices = {}
  /\ now = 0
  /\ pc = [r \in Task |-> "idle"]
  /\ task = [r \in Task |-> Absent]
  /\ snap = [r \in Task |-> Absent]
  /\ stale = [r \in Task |-> {}]

----------------------------------------------------------------------------
(* Tasks and their writes *)

Goto(r, stage) == pc' = [pc EXCEPT ![r] = stage]

Go(r, stage, work) == Goto(r, stage) /\ task' = [task EXCEPT ![r] = work]

Finish(r) == Go(r, "idle", Absent)

\* What a task remembers once it has applied an answer.
Bare(r) == [NoWork EXCEPT !.kind = task[r].kind, !.pay = task[r].pay, !.notice = task[r].notice]

\* A handler that succeeds answers; only a notification waits for that.
Done(r) == IF task[r].notice = Absent THEN Finish(r)
           ELSE Go(r, "answer", Bare(r))

World == <<prov, notices, now>>

\* What a step that writes no document leaves alone.
Quiet == UNCHANGED <<db, snap, stale>> /\ UNCHANGED World

\* A write of one document, seen as a conflict by the transactions that read it.
Write(n, p) ==
  /\ db' = n
  /\ stale' = [q \in Task |-> IF snap[q] = Absent THEN {} ELSE stale[q] \cup {p}]
  /\ UNCHANGED snap /\ UNCHANGED World

Begin(r) ==
  /\ pc[r] \in TxStage /\ snap[r] = Absent
  /\ snap' = [snap EXCEPT ![r] = [db |-> db, at |-> now]]
  /\ UNCHANGED <<db, pc, task, stale>> /\ UNCHANGED World

InBody(r, stage) == pc[r] = stage /\ snap[r] # Absent

\* Mutant of LeaveTx: the snapshot outlives the transaction.
LeaveTxOpen(r, written) ==
  /\ snap' = snap
  /\ stale' = [q \in Task |-> IF q = r \/ snap[q] = Absent THEN {}
                              ELSE stale[q] \cup written]

LeaveTx(r, written) ==
  /\ snap' = [snap EXCEPT ![r] = Absent]
  /\ stale' = [q \in Task |-> IF q = r \/ snap[q] = Absent THEN {}
                              ELSE stale[q] \cup written]

NewPeriods(s, n) == n.periods \ s.periods
NewRecords(s, n) == n.records \ s.records

\* Mutant of Collides: no unique index on the periods.
CollidesNever(c, s, n) == FALSE

\* An index of the periods or of the reconciliations refuses what n adds to s.
Collides(c, s, n) ==
  \/ \E x \in NewPeriods(s, n), y \in c.periods : x.seq = y.seq \/ x.source = y.source
  \/ \E x \in NewRecords(s, n), y \in c.records : x.op = y.op

Conflicts(r, n, written) == written \cap stale[r] # {} \/ Collides(db, snap[r].db, n)

\* The transaction of r, whose body led from its snapshot to n, commits.
CommitTx(r, n, written) ==
  /\ ~ Conflicts(r, n, written)
  /\ db' = [pay     |-> [p \in Payment |-> IF p \in written THEN n.pay[p] ELSE db.pay[p]],
            periods |-> db.periods \cup NewPeriods(snap[r].db, n),
            records |-> db.records \cup NewRecords(snap[r].db, n)]
  /\ LeaveTx(r, written)

\* A conflict or a collision: the body runs again on a new snapshot.
RetryTx(r, n, written) ==
  /\ Conflicts(r, n, written)
  /\ LeaveTx(r, {})
  /\ UNCHANGED <<db, pc, task>>

EndTx(r) == LeaveTx(r, {}) /\ UNCHANGED db

\* Too many attempts, or no time left: the caller answers 503 and a
\* notification will come again.
GiveUp(r) ==
  /\ snap[r] # Absent
  /\ Finish(r) /\ EndTx(r)
  /\ UNCHANGED World

----------------------------------------------------------------------------
(* Creation *)

Start(r, kind, stage, work) ==
  /\ kind \in Kinds /\ pc[r] = "idle"
  /\ Go(r, stage, [work EXCEPT !.kind = kind])
  /\ Quiet

\* A request starts with its first read: a key that was used is answered with
\* its payment, or refused for another request, and nothing else happens.
ReceiveCreate(r) ==
  \E k \in Key, q \in Request :
    /\ WithKey(db, k) = {}
    /\ Start(r, "create", "check", [NoWork EXCEPT !.key = k, !.request = q])

CheckOpen(r) ==
  /\ pc[r] = "check"
  /\ IF OpenOnes(db) # {} THEN Finish(r) ELSE Goto(r, "reserve") /\ UNCHANGED task
  /\ Quiet

\* The insert is the reservation: its indexes refuse a second use of the key
\* and a second open payment.
Reserve(r) ==
  /\ pc[r] = "reserve"
  /\ IF WithKey(db, task[r].key) # {} \/ OpenOnes(db) # {}
     THEN Finish(r) /\ Quiet
     ELSE \E p \in {p \in Payment : ~ Exists(db, p)} :
            /\ Write(NewPayment(db, p, task[r].key, task[r].request), p)
            /\ Go(r, "initiate", [task[r] EXCEPT !.key = Absent, !.request = Absent, !.pay = p])

\* The one call to the provider.  The request may not leave; once sent, its
\* answer may be lost, whether or not a collection exists.
Initiate(r) ==
  LET p == task[r].pay
      heard(c) == Go(r, "record", [task[r] EXCEPT !.outcome = "accepted", !.ref = c])
      said(word) == Go(r, "record", [task[r] EXCEPT !.outcome = word])
  IN  /\ pc[r] = "initiate"
      /\ \/ said("refused") /\ UNCHANGED prov
         \/ "lost" \in Kinds /\ said("uncertain") /\ UNCHANGED prov
         \/ \E c \in {c \in Ref : prov[c] = Absent} :
              /\ prov' = [prov EXCEPT ![c] = [merchant |-> p, same |-> TRUE, state |-> "pending"]]
              /\ heard(c) \/ ("lost" \in Kinds /\ said("uncertain"))
         \/ "reused" \in Kinds /\ UNCHANGED prov
              /\ \E c \in {c \in Ref : prov[c] # Absent} : heard(c)
      /\ UNCHANGED <<db, notices, now, snap, stale>>

\* `recordPending`: the index on the reference, then the filter, decide.
RecordPending(r, p, ref, from) ==
  IF Adopts(db, p, from, ref)
  THEN IF RefTaken(db, p, ref)
       THEN Go(r, "review", Bare(r)) /\ Quiet
       ELSE Write(ToPending(db, p, ref), p) /\ Done(r)
  ELSE Go(r, "recheck", [Bare(r) EXCEPT !.ref = ref]) /\ Quiet

\* What became of the initiation is recorded.
RecordInitiation(r) ==
  LET p == task[r].pay
      closes == [ToStatus(db, p, "failed") EXCEPT !.pay[p].open = FALSE]
      to(n) == IF Moves(db, p, {"initiating"}) THEN Write(n, p) ELSE Quiet
  IN  /\ pc[r] = "record"
      /\ CASE task[r].outcome = "refused"   -> to(closes) /\ Finish(r)
           [] task[r].outcome = "uncertain" -> to(ToStatus(db, p, "uncertain")) /\ Finish(r)
           [] task[r].outcome = "accepted"  -> RecordPending(r, p, task[r].ref, {"initiating"})

\* A reference that differs from the recorded one is an anomaly.
Recheck(r) ==
  /\ pc[r] = "recheck"
  /\ IF db.pay[task[r].pay].ref \in {Null, task[r].ref}
     THEN Done(r)
     ELSE Go(r, "review", Bare(r))
  /\ Quiet

\* `markReview`
Review(r) ==
  LET p == task[r].pay
  IN  /\ pc[r] = "review"
      /\ IF Moves(db, p, Finalizable)
         THEN Write(ToStatus(db, p, "review"), p) ELSE Quiet
      /\ Done(r)

----------------------------------------------------------------------------
(* Confirmation *)

\* Collections that the provider finds by the reference read in the payment,
\* or by the merchant reference.
Found(ref, p) ==
  {c \in Ref : prov[c] # Absent /\ (ref = c \/ (ref = Null /\ prov[c].merchant = p))}

\* Whether a confirmation asks the provider about the payment it read.
Consults(doc) ==
  /\ doc.status \notin {"succeeded", "review"}
  /\ doc.ref # Null \/ MerchantLookup

\* The owner asks to verify a payment.
ReceiveRefresh(r) ==
  \E p \in Payment :
    /\ Exists(db, p) /\ Consults(db.pay[p])
    /\ Start(r, "confirm", "fetch", [NoWork EXCEPT !.pay = p, !.ref = db.pay[p].ref])

\* Whether a notification of c may come before its reference is recorded.
NotReady(c) ==
  \E p \in Payment : /\ Exists(db, p) /\ prov[c].merchant = p
                     /\ db.pay[p].status = "initiating" /\ db.pay[p].ref = Null

\* A notification leads to the payment that has its reference.  One of no
\* payment is acknowledged; one that comes too early will come again.  What
\* it says is not used: that of a refusal does what a refresh does.
ReceiveNotice(r, c) ==
  LET known == {p \in Payment : Exists(db, p) /\ db.pay[p].ref = c}
  IN  \/ \E p \in known :
           LET work == [NoWork EXCEPT !.pay = p, !.notice = c]
           IN  IF Consults(db.pay[p])
               THEN Start(r, "confirm", "fetch", [work EXCEPT !.ref = db.pay[p].ref])
               ELSE Start(r, "confirm", "answer", work)
      \/ /\ known = {} /\ ~ NotReady(c)
         /\ notices' = notices \ {c}
         /\ UNCHANGED <<db, prov, now, pc, task, snap, stale>>

AnswerOf(c) == [ref |-> c, merchant |-> prov[c].merchant,
                same |-> prov[c].same, state |-> prov[c].state]

\* The provider answers; the date of that is written to the payment.
Fetch(r) ==
  LET p == task[r].pay
  IN  /\ pc[r] = "fetch"
      /\ Write(db, p)
      /\ IF Found(task[r].ref, p) = {} THEN Done(r)
         ELSE \E c \in Found(task[r].ref, p) :
                Go(r, "apply", [task[r] EXCEPT !.answer = AnswerOf(c)])

\* Mutant of FetchFails: a status that cannot be had is acknowledged.
FetchFailsAnswered(r) == pc[r] = "fetch" /\ Done(r) /\ Quiet

\* The provider cannot be reached: 503.
FetchFails(r) == pc[r] = "fetch" /\ Finish(r) /\ Quiet

\* `recordFailure`: only an open payment fails.
RecordFailure(r, p, ref) ==
  IF Adopts(db, p, OpenStatus, ref)
  THEN IF RefTaken(db, p, ref) THEN Finish(r) /\ Quiet
       ELSE Write(ToFailed(db, p, ref), p) /\ Done(r)
  ELSE Done(r) /\ Quiet

\* The answer is applied, however old it is.
Apply(r) ==
  LET p == task[r].pay
      answer == task[r].answer
  IN  /\ pc[r] = "apply"
      /\ IF ~ Concordant(p, answer, task[r].ref)
         THEN Go(r, "review", Bare(r)) /\ Quiet
         ELSE CASE answer.state = "pending" ->
                     RecordPending(r, p, answer.ref, {"initiating", "uncertain"})
                [] answer.state = "failed" -> RecordFailure(r, p, answer.ref)
                [] answer.state = "succeeded" ->
                     Go(r, "finalize", [task[r] EXCEPT !.ref = Null]) /\ Quiet

\* When the body of the transaction of r may have read the clock.
Clock(r) == snap[r].at .. now

\* A commit may be reported as a timeout.
Finalize(r) ==
  LET p == task[r].pay
      answer == task[r].answer
      s == snap[r].db
      paid(at) == Succeed(s, p, answer.ref, at)
  IN  /\ InBody(r, "finalize")
      /\ IF ~ Finalizes(s, p, answer)
         THEN EndTx(r) /\ Done(r)
         ELSE IF ~ Concordant(p, answer, s.pay[p].ref) \/ RefTaken(db, p, answer.ref)
         THEN EndTx(r) /\ Go(r, "review", Bare(r))
         ELSE \E at \in Clock(r) :
                \/ RetryTx(r, paid(at), {p})
                \/ CommitTx(r, paid(at), {p}) /\ (Done(r) \/ Finish(r))
      /\ UNCHANGED World

\* The answer to a notification reaches the provider, which stops sending it.
Respond(r) ==
  /\ pc[r] = "answer"
  /\ notices' = notices \ {task[r].notice}
  /\ Finish(r)
  /\ UNCHANGED <<db, prov, now, snap, stale>>

----------------------------------------------------------------------------
(* Reconciliation by an operator *)

\* The operator names a payment and a reference, a candidate if none is
\* recorded; an operation already applied is replayed.
ReceiveReconcile(r) ==
  \E p \in Payment, c \in Ref, o \in Operation :
    /\ Exists(db, p) /\ db.pay[p].status \in {"uncertain", "review"}
    /\ \A x \in db.records : x.op # o
    /\ db.pay[p].ref = c \/ (db.pay[p].ref = Null /\ ~ RefTaken(db, p, c))
    /\ Start(r, "reconcile", "consult",
             [NoWork EXCEPT !.pay = p, !.ref = c, !.op = o, !.seen = db.pay[p]])

\* The provider is asked, and the operator approved what follows; or not.
Consult(r) ==
  LET c == task[r].ref
  IN  /\ pc[r] = "consult"
      /\ \/ Finish(r)
         \/ /\ prov[c] # Absent
            /\ Concordant(task[r].pay, AnswerOf(c), c)
            /\ Settleable(task[r].seen, AnswerOf(c))
            /\ Go(r, "settle", [task[r] EXCEPT !.answer = AnswerOf(c)])
      /\ Quiet

\* The payment is as the plan of r saw it.
Unmoved(s, r) ==
  LET doc == s.pay[task[r].pay]
  IN  /\ doc.status = task[r].seen.status /\ doc.open = task[r].seen.open
      /\ doc.ref = task[r].seen.ref /\ doc.period = 0

SettleTx(r) ==
  LET p == task[r].pay
      s == snap[r].db
      settled(at) == Settle(s, p, task[r].answer, task[r].op, at)
      replay == \E x \in s.records : x.op = task[r].op
  IN  /\ InBody(r, "settle")
      /\ IF replay \/ ~ Unmoved(s, r) \/ RefTaken(db, p, task[r].ref)
         THEN EndTx(r) /\ Finish(r)
         ELSE \E at \in Clock(r) :
                \/ RetryTx(r, settled(at), {p})
                \/ CommitTx(r, settled(at), {p}) /\ Finish(r)
      /\ UNCHANGED World

----------------------------------------------------------------------------
(* Manual grants, time and the provider *)

ReceiveGrant(r) ==
  \E m \in Manual, length \in Length :
    Start(r, "grant", "grant", [NoWork EXCEPT !.source = m, !.length = length])

\* A reference that was served for another term is refused by the caller.
GrantTx(r) ==
  LET granted(at) == Grant(snap[r].db, task[r].source, task[r].length, at)
  IN  /\ InBody(r, "grant")
      /\ \E at \in Clock(r) :
           \/ RetryTx(r, granted(at), {})
           \/ CommitTx(r, granted(at), {}) /\ Finish(r)
      /\ UNCHANGED World

Tick ==
  /\ now < MaxNow
  /\ now' = now + 1
  /\ UNCHANGED <<db, prov, notices, pc, task, snap, stale>>

\* A collection is paid or refused, a refusal may be reversed; the provider
\* may show other values than those asked.  It notifies.
ProviderSettles(c) ==
  /\ prov[c] # Absent
  /\ \E state \in {"failed", "succeeded"}, same \in BOOLEAN :
       /\ prov[c].state = "pending"
            \/ ("reversal" \in Kinds /\ prov[c].state = "failed" /\ state = "succeeded")
       /\ same \/ "mismatch" \in Kinds
       /\ prov' = [prov EXCEPT ![c].state = state, ![c].same = same]
       /\ notices' = IF state = "succeeded" THEN notices \cup {c} ELSE notices
  /\ UNCHANGED <<db, now, pc, task, snap, stale>>

\* The process dies: what is committed or at the provider stays.
Crash(r) ==
  /\ "crash" \in Kinds /\ pc[r] # "idle"
  /\ Finish(r) /\ EndTx(r)
  /\ UNCHANGED <<prov, notices, now>>

----------------------------------------------------------------------------

Receive(r) ==
  \/ ReceiveCreate(r) \/ ReceiveRefresh(r) \/ ReceiveReconcile(r) \/ ReceiveGrant(r)
  \/ \E c \in notices : ReceiveNotice(r, c)

Step(r) ==
  \/ Begin(r)
  \/ CheckOpen(r) \/ Reserve(r) \/ Initiate(r) \/ RecordInitiation(r)
  \/ Recheck(r) \/ Review(r) \/ Fetch(r) \/ Apply(r)
  \/ Finalize(r) \/ Respond(r)
  \/ Consult(r) \/ SettleTx(r) \/ GrantTx(r)

Next ==
  \/ \E r \in Task : Receive(r) \/ Step(r) \/ FetchFails(r) \/ GiveUp(r) \/ Crash(r)
  \/ \E c \in Ref : ProviderSettles(c)
  \/ Tick

Spec == Init /\ [][Next]_vars

----------------------------------------------------------------------------
(* Properties *)

\* Every variable has its type, and only a transaction has a snapshot.
TypeOK ==
  /\ db \in Documents
  /\ prov \in [Ref -> Collection \cup {Absent}]
  /\ notices \subseteq Ref
  /\ now \in 0 .. MaxNow
  /\ pc \in [Task -> Stage]
  /\ task \in [Task -> Work \cup {Absent}]
  /\ snap \in [Task -> Snapshot \cup {Absent}]
  /\ \A r \in Task : /\ task[r] = Absent <=> pc[r] = "idle"
                     /\ snap[r] # Absent => snap[r].at <= now /\ pc[r] \in TxStage
  /\ stale \in [Task -> SUBSET Payment]

\* Refinement: what the ledger sees of the documents.
Account == [p \in Payment |->
  IF ~ Exists(db, p) THEN "none"
  ELSE IF db.pay[p].status = "succeeded" THEN "paid"
  ELSE IF db.pay[p].open THEN "open" ELSE "closed"]

Chain == [i \in 1 .. Cardinality(db.periods) |->
            (CHOOSE x \in db.periods : x.seq = i).source]

Ledger == INSTANCE PaymentLedger WITH account <- Account, chain <- Chain

\* The requests together keep the ledger: one open payment at a time, none
\* reopened, one period for each payment and each manual reference, in a chain.
KeepsLedger == Ledger!Spec

\* A paid payment has its period and the provider collected its amount;
\* no other payment has a period ("aucune periode sans paiement marque").
PaidForPeriods ==
  \A p \in Payment :
    /\ Granted(db, p) # {} <=> Exists(db, p) /\ db.pay[p].status = "succeeded"
    /\ \A x \in Granted(db, p) :
         LET c == db.pay[p].ref
         IN  /\ db.pay[p].period = x.seq
             /\ x.to - x.from = db.pay[p].request.length
             /\ c \in Ref /\ prov[c].merchant = p
             /\ prov[c].same /\ prov[c].state = "succeeded"

\* A payment in review waits for an operator: no answer that was under way
\* moves it, and what does is recorded in the same step.
ReviewWaits ==
  [][\A p \in Payment :
       Exists(db, p) /\ db.pay[p].status = "review" /\ db'.pay[p].status # "review" =>
         \E x \in db'.records \ db.records : x.pay = p]_vars

\* As long as a period granted is not over the organization has access, up to
\* the end of the last one ("le temps deja accorde n'est jamais perdu").
AccessCoversPeriods ==
  LatestEnd(db) > now =>
    /\ AccessState(db, now) = "active"
    /\ \E x \in db.periods : Covers(x, now) /\ ContinuousEnd(db, x.to) = LatestEnd(db)

\* No two periods share a moment, however many grants compute the next one
\* at once: each starts after the end of all that were committed before it.
PeriodsApart ==
  [][\A x \in db'.periods \ db.periods, y \in db.periods : x.from >= y.to]_vars

\* A notification that the amount was collected is acknowledged only once the
\* payment that has its reference is paid, or waits for an operator.
NoNoticeLost ==
  [][\A c \in notices \ notices', p \in Payment :
       Exists(db, p) /\ db.pay[p].ref = c =>
         db.pay[p].status \in {"succeeded", "review"}]_vars

=============================================================================
