----------------------------- MODULE PaymentDocs -----------------------------
(***************************************************************************)
(* The payments and the subscription periods of one organization, and the  *)
(* writes that the API makes to them (src/api/src/subscriptions).          *)
(*                                                                         *)
(* A payment is named by its merchant reference.  Amount and currency are  *)
(* reduced to whether the provider shows the frozen ones; dates to units   *)
(* of time in which a term has a length; incident codes are left out.      *)
(***************************************************************************)
EXTENDS Integers, FiniteSets, FiniteSetsExt

CONSTANTS
  Payment,     \* merchant references
  Ref,         \* references of collections at the provider
  Key,         \* clientOperationId of the requests to pay
  User,        \* members who pay
  Length,      \* lengths of the terms
  TrialLength, \* of the first period; 0 if the organization has none
  Manual,      \* sourceReference of the grants of an operator
  Operation,   \* operationId of the operator's reconciliations
  Null,        \* no provider reference
  Trial, Absent

ASSUME PaymentConstants ==
  /\ Length \subseteq Nat \ {0} /\ TrialLength \in Nat
  /\ Null \notin Ref
  /\ Payment \cap Manual = {} /\ Trial \notin Payment \cup Manual

OpenStatus  == {"initiating", "pending", "uncertain"}
Finalizable == OpenStatus \cup {"failed"}
Status      == Finalizable \cup {"review", "succeeded"}

\* The fingerprint of a request: who pays for which term.
Request == [user : User, length : Length]

\* period: the sequence of the period it bought, 0 for none.
PaymentDoc == [key : Key, request : Request, ref : Ref \cup {Null},
               status : Status, open : BOOLEAN, period : Nat]

PeriodDoc == [seq : Nat \ {0}, from : Nat, to : Nat,
              source : Payment \cup Manual \cup {Trial}]

Action == {"SUCCEED", "MARK_PENDING", "FAIL"}
Record == [op : Operation, pay : Payment, action : Action]

Documents == [pay : [Payment -> PaymentDoc \cup {Absent}],
              periods : SUBSET PeriodDoc, records : SUBSET Record]

Exists(d, p) == d.pay[p] # Absent

----------------------------------------------------------------------------
(* Unique indexes *)

WithKey(d, k) == {p \in Payment : Exists(d, p) /\ d.pay[p].key = k}

\* Mutant of OpenOnes: a payment in review is not taken for open.
OpenOnesByStatus(d) == {p \in Payment : Exists(d, p) /\ d.pay[p].status \in OpenStatus}

OpenOnes(d) == {p \in Payment : Exists(d, p) /\ d.pay[p].open}

RefTaken(d, p, ref) ==
  \E q \in Payment \ {p} : Exists(d, q) /\ d.pay[q].ref = ref

----------------------------------------------------------------------------
(* Periods *)

LastSeq(d)   == Max({0} \cup {x.seq : x \in d.periods})
LatestEnd(d) == Max({0} \cup {x.to : x \in d.periods})

Granted(d, source) == {x \in d.periods : x.source = source}

\* Mutant of StartsAt: a renewal starts the day after.
StartsAfter(d, now) == IF LatestEnd(d) > now THEN LatestEnd(d) + 1 ELSE now

\* `computeRenewalStartsAt`
StartsAt(d, now) == IF LatestEnd(d) > now THEN LatestEnd(d) ELSE now

\* `applyGrant`: a reference that was served gives the period it has.
Grant(d, source, length, now) ==
  IF Granted(d, source) # {} THEN d
  ELSE [d EXCEPT !.periods = @ \cup
          {[seq |-> LastSeq(d) + 1, from |-> StartsAt(d, now),
            to |-> StartsAt(d, now) + length, source |-> source]}]

Covers(x, now) == x.from <= now /\ now < x.to

\* `computeSubscriptionState`
AccessState(d, now) ==
  IF d.periods = {} THEN "none"
  ELSE IF \E x \in d.periods : Covers(x, now) THEN "active"
  ELSE IF \E x \in d.periods : x.from > now THEN "scheduled"
  ELSE "expired"

\* `continuousEnd`: how far the periods go on without a break from end.
ContinuousEnd(d, end) ==
  LET reach[n \in 0 .. LastSeq(d)] ==
        IF n = 0 THEN end
        ELSE Max({reach[n - 1]} \cup
                 {x.to : x \in {y \in d.periods : y.seq = n /\ y.from <= reach[n - 1]}})
  IN  reach[LastSeq(d)]

----------------------------------------------------------------------------
(* Payments *)

NewPayment(d, p, k, request) ==
  [d EXCEPT !.pay[p] = [key |-> k, request |-> request, ref |-> Null,
                        status |-> "initiating", open |-> TRUE, period |-> 0]]

\* `transition`, when the payment has one of the statuses in from.
Moves(d, p, from) == d.pay[p].status \in from

\* Whether an answer about ref applies to the payment, whatever it says.
Adopts(d, p, from, ref) == Moves(d, p, from) /\ d.pay[p].ref \in {Null, ref}

ToPending(d, p, ref) ==
  [d EXCEPT !.pay[p].status = "pending", !.pay[p].ref = ref]

ToFailed(d, p, ref) ==
  [d EXCEPT !.pay[p].status = "failed", !.pay[p].open = FALSE, !.pay[p].ref = ref]

ToStatus(d, p, status) == [d EXCEPT !.pay[p].status = status]

\* Mutant of Concordant: the values frozen in the payment are not compared.
ConcordantState(p, answer, expected) == TRUE

\* `paymentConcordanceMismatches` is empty.
Concordant(p, answer, expected) ==
  /\ answer.merchant = p
  /\ expected \in {Null, answer.ref}
  /\ answer.same

\* `grantAndMarkSucceededInSession`
Succeed(d, p, ref, now) ==
  LET g == Grant(d, p, d.pay[p].request.length, now)
      bought == (CHOOSE x \in Granted(g, p) : TRUE).seq
  IN  [g EXCEPT !.pay[p] = [@ EXCEPT !.status = "succeeded", !.open = FALSE,
                                     !.ref = ref, !.period = bought]]

\* Mutant of Finalizes: the status is not read again in the transaction.
FinalizesAny(d, p, answer) == d.pay[p].status # "succeeded"

\* What `finalize` finds in its transaction.
Finalizes(d, p, answer) == Moves(d, p, Finalizable)

ActionFor(answer) ==
  CASE answer.state = "succeeded" -> "SUCCEED"
    [] answer.state = "pending"   -> "MARK_PENDING"
    [] answer.state = "failed"    -> "FAIL"

\* The decision of `buildPlan`, for a concordant answer.
Settleable(doc, answer) ==
  /\ doc.status \in {"uncertain", "review"}
  /\ answer.state = "pending" => doc.open

\* `apply`: the effect of the operator's plan, with its record.
Settle(d, p, answer, op, now) ==
  LET done == CASE answer.state = "succeeded" -> Succeed(d, p, answer.ref, now)
                [] answer.state = "pending"   -> ToPending(d, p, answer.ref)
                [] answer.state = "failed"    -> ToFailed(d, p, answer.ref)
  IN  [done EXCEPT !.records = @ \cup
         {[op |-> op, pay |-> p, action |-> ActionFor(answer)]}]

=============================================================================
