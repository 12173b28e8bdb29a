----------------------------- MODULE PushDispatch -----------------------------
(***************************************************************************)
(* The dispatcher of one organization's notifications                      *)
(* (push-dispatcher.service.ts) and the devices of its members             *)
(* (push-subscriptions.service.ts).  A job recorded with an event is       *)
(* announced in the center, turned into one delivery per device, and each  *)
(* delivery is claimed for sixty seconds, verified and sent.               *)
(*                                                                         *)
(* Workers are passes of the dispatcher in different processes: the one    *)
(* that is stopping and the one that starts, or the one that comes after a *)
(* crash.  A worker stops at every await.  Dates are reduced to whether    *)
(* they have come; preferences of devices stay on; push is configured.     *)
(***************************************************************************)
EXTENDS Integers, FiniteSets

CONSTANTS
  Job,          \* events recorded in the outbox
  Group,        \* windows in which sales or activities are grouped
  Device,       \* records of devices, each of one browser until it is removed
  User,
  Worker,
  GroupOf,      \* GroupOf[j]: the window of the push of job j, or j itself
  Audience,     \* Audience[t]: members whose role gives them the category of t
  Reminder,     \* jobs that remind of the end of the subscription
  MaxAttempts,  \* sends of a delivery (PUSH_MAX_ATTEMPTS)
  MaxFaults,    \* bound: crashes, suspended workers and lost answers
  Events,       \* bound: what happens to members and devices
  Removed, Absent

Target == Job \cup Group

ASSUME PushConstants ==
  /\ Job \cap Group = {}
  /\ GroupOf \in [Job -> Target] /\ \A j \in Job : GroupOf[j] \in {j} \cup Group
  /\ Audience \in [Target -> SUBSET User]
  /\ Reminder \subseteq Job
  /\ MaxAttempts \in Nat \ {0} /\ MaxFaults \in Nat
  /\ IsFiniteSet(Worker)

VARIABLES
  job,       \* job[j]: its status, Absent before its event
  relevant,  \* jobs whose subject is still worth an announcement
  aged,      \* targets that are too old for a push
  ended,     \* windows that have ended
  center,    \* pairs of a job and a user who has its notification
  device,    \* device[d]: who registered it, Absent before, Removed after
  session,   \* session[u]: version of the sessions of u
  members,   \* active members
  delivery,  \* delivery[t, d]: the delivery of target t to device d
  shown,     \* shown[t, d]: how often the browser received it
  faults,    \* how many faults happened
  pc,        \* pc[w]: what worker w does next
  task       \* task[w]: what it works on, Absent when idle

events == <<job, relevant, aged, ended>>
people == <<device, session, members>>
vars == <<events, center, people, delivery, shown, faults, pc, task>>

Pair == Target \X Device

\* older: targets whose event is earlier than the registration.
DeviceDoc == [user : User, active : BOOLEAN, session : Nat, older : SUBSET Target]

Final == {"sent", "skipped", "failed"}

\* come: whether nextAttemptAt (pending) or lockedUntil (sending) is reached.
DeliveryDoc == [user : User, status : {"pending", "sending"} \cup Final,
                come : BOOLEAN, attempts : Nat]

Dispatching == {"assess", "cancel", "notify", "plan", "revoke", "deliver", "close"}
Sending == {"verify", "disable", "skip", "send", "sent", "gone", "later", "fail"}

\* todo: users still to notify; planned: devices still to plan, with their
\* owners; revoked: devices found with an old session; attempt: the number of
\* the send; right: whether the delivery was justified when it was claimed.
Work == [target : Target, device : Device \cup {Absent}, todo : SUBSET User,
         planned : SUBSET (Device \X User), revoked : SUBSET Device,
         attempt : Nat, right : BOOLEAN]

On(t) == [target |-> t, device |-> Absent, todo |-> {}, planned |-> {},
          revoked |-> {}, attempt |-> 0, right |-> FALSE]

ASSUME PushSentinels ==
  /\ Absent # Removed
  /\ {Absent, Removed} \cap DeviceDoc = {}
  /\ Absent \notin Device \cup DeliveryDoc \cup Work
  /\ Absent \notin {"pending", "dispatched", "cancelled"}

Registered(u, s, older) == [user |-> u, active |-> TRUE, session |-> s, older |-> older]

\* Devices are registered before the events, or not yet.
Init ==
  /\ job = [j \in Job |-> Absent]
  /\ relevant = Job /\ aged = {} /\ ended = {}
  /\ center = {}
  /\ device \in [Device -> {Registered(u, 0, {}) : u \in User} \cup {Absent}]
  /\ session = [u \in User |-> 0]
  /\ members = User
  /\ delivery = [x \in Pair |-> Absent]
  /\ shown = [x \in Pair |-> 0]
  /\ faults = 0
  /\ pc = [w \in Worker |-> "idle"]
  /\ task = [w \in Worker |-> Absent]

----------------------------------------------------------------------------
(* Checks and writes *)

\* `irrelevance`: a group of sales or activities is a fact.
Irrelevant(t) == t \in Job \ relevant

Known(d) == device[d] \notin {Absent, Removed}

\* `deviceIssue`, the session left aside.
Holds(t, d) ==
  /\ Known(d) /\ device[d].active
  /\ t \in Reminder \/ t \notin device[d].older
  /\ device[d].user \in members \cap Audience[t]

SessionRevoked(d) == device[d].session # session[device[d].user]

\* The delivery goes to whom it was planned for, and is worth sending.
Justified(x) ==
  /\ ~ Irrelevant(x[1]) /\ x[1] \notin aged
  /\ Holds(x[1], x[2]) /\ device[x[2]].user = delivery[x].user

\* Mutant of Verified: only the first attempt is verified.
VerifiedFirst(x, attempt) == Justified(x) \/ (attempt > 1 /\ Known(x[2]))

\* What a worker finds when it verifies a delivery that it claimed.
Verified(x, attempt) == Justified(x)

Exists(x) == delivery[x] # Absent

\* Mutant of Claimable: the lease is not looked at.
ClaimableAlways(x) ==
  Exists(x) /\ (delivery[x].status = "sending" \/ (delivery[x].status = "pending" /\ delivery[x].come))

\* Mutant of Claimable: an interrupted send is not taken up again.
ClaimablePending(x) == Exists(x) /\ delivery[x].status = "pending" /\ delivery[x].come

Claimable(x) == Exists(x) /\ delivery[x].status \in {"pending", "sending"} /\ delivery[x].come

\* Mutant of Upsert: the delivery is written again.
UpsertAnew(t, d, u) ==
  [delivery EXCEPT ![<<t, d>>] =
     [user |-> u, status |-> "pending", come |-> t \in Job \cup ended, attempts |-> 0]]

\* `upsertDelivery`: unique for a target and a device.
Upsert(t, d, u) == IF Exists(<<t, d>>) THEN delivery ELSE
  [delivery EXCEPT ![<<t, d>>] =
     [user |-> u, status |-> "pending", come |-> t \in Job \cup ended, attempts |-> 0]]

\* `finish` and the retry: conditional on the status, not on who claimed it.
Ended(x, status) ==
  IF delivery[x].status = "sending" THEN [delivery EXCEPT ![x].status = status, ![x].come = FALSE]
  ELSE delivery

\* `closeJob`
Closed(j, status) == IF job[j] = "pending" THEN [job EXCEPT ![j] = status] ELSE job

\* `disableSubscription`: conditional on the device being active.
Disabled(ds) ==
  [d \in Device |-> IF d \in ds /\ Known(d)
                    THEN [device[d] EXCEPT !.active = FALSE] ELSE device[d]]

Go(w, stage, work) == pc' = [pc EXCEPT ![w] = stage] /\ task' = [task EXCEPT ![w] = work]

\* Mutant of Finish: the work is not put away.
FinishKeeping(w) == pc' = [pc EXCEPT ![w] = "idle"] /\ UNCHANGED task

Finish(w) == Go(w, "idle", Absent)

----------------------------------------------------------------------------
(* Dispatching a job *)

\* The job was pending when the batch was read.
Select(w, j) ==
  /\ pc[w] = "idle" /\ job[j] = "pending"
  /\ Go(w, "assess", On(j))
  /\ UNCHANGED <<events, center, people, delivery, shown, faults>>

\* `catchUpReminders`: a reminder is dispatched again, for newer devices.
CatchUp(w, j) ==
  /\ pc[w] = "idle" /\ j \in Reminder \cap relevant /\ job[j] = "dispatched"
  /\ \E d \in Device : Holds(j, d) /\ ~ Exists(<<j, d>>)
  /\ Go(w, "assess", On(j))
  /\ UNCHANGED <<events, center, people, delivery, shown, faults>>

\* A loop that has nothing left to do goes on to the next one.
GoNotify(w, j, todo) ==
  Go(w, IF todo = {} THEN "plan" ELSE "notify", [On(j) EXCEPT !.todo = todo])

GoDeliver(w, j, revoked, planned) ==
  Go(w, IF revoked # {} THEN "revoke" ELSE IF planned # {} THEN "deliver" ELSE "close",
     [On(j) EXCEPT !.revoked = revoked, !.planned = planned])

Assess(w) ==
  LET j == task[w].target
  IN  /\ pc[w] = "assess"
      /\ IF Irrelevant(j) THEN Go(w, "cancel", On(j))
         ELSE GoNotify(w, j, Audience[j] \cap members)
      /\ UNCHANGED <<events, center, people, delivery, shown, faults>>

Cancel(w) ==
  /\ pc[w] = "cancel"
  /\ job' = Closed(task[w].target, "cancelled")
  /\ Finish(w)
  /\ UNCHANGED <<relevant, aged, ended, center, people, delivery, shown, faults>>

\* One notification per member and event, whatever the attempts.
Notify(w) ==
  LET j == task[w].target
  IN  /\ pc[w] = "notify"
      /\ \E u \in task[w].todo :
           /\ center' = center \cup {<<j, u>>}
           /\ GoNotify(w, j, task[w].todo \ {u})
      /\ UNCHANGED <<events, people, delivery, shown, faults>>

\* `eligibleDevices`
Spread(w, j) ==
  LET reached == {d \in Device : Holds(j, d)}
      revoked == {d \in reached : SessionRevoked(d)}
  IN  GoDeliver(w, j, revoked, {<<d, device[d].user>> : d \in reached \ revoked})

\* Mutant of Plan: the job is closed before its deliveries are there.
PlanClosed(w) ==
  /\ pc[w] = "plan"
  /\ job' = Closed(task[w].target, "dispatched")
  /\ Spread(w, task[w].target)
  /\ UNCHANGED <<relevant, aged, ended, center, people, delivery, shown, faults>>

\* What is too old for a push (`pushExpired`) is only in the center.
Plan(w) ==
  LET j == task[w].target
  IN  /\ pc[w] = "plan"
      /\ IF j \in aged THEN Go(w, "close", On(j)) ELSE Spread(w, j)
      /\ UNCHANGED <<events, center, people, delivery, shown, faults>>

\* Devices found with an old session are disabled, whatever they became.
Revoke(w) ==
  /\ pc[w] = "revoke"
  /\ device' = Disabled(task[w].revoked)
  /\ GoDeliver(w, task[w].target, {}, task[w].planned)
  /\ UNCHANGED <<events, center, session, members, delivery, shown, faults>>

\* A sale or an activity joins the delivery of its window (`saleDigest`,
\* `activityGroup`), sent at the end of it; if it was sent, nothing is added.
Deliver(w) ==
  LET j == task[w].target
  IN  /\ pc[w] = "deliver"
      /\ \E p \in task[w].planned :
           /\ delivery' = Upsert(GroupOf[j], p[1], p[2])
           /\ GoDeliver(w, j, {}, task[w].planned \ {p})
      /\ UNCHANGED <<events, center, people, shown, faults>>

Close(w) ==
  /\ pc[w] = "close"
  /\ job' = Closed(task[w].target, "dispatched")
  /\ Finish(w)
  /\ UNCHANGED <<relevant, aged, ended, center, people, delivery, shown, faults>>

----------------------------------------------------------------------------
(* Sending a delivery *)

Holding(w, x) == pc[w] \in Sending /\ <<task[w].target, task[w].device>> = x

Held(w) == <<task[w].target, task[w].device>>

\* A due delivery, or one whose lease is over, is claimed in one update.
Claim(w, x) ==
  /\ pc[w] = "idle" /\ Claimable(x)
  /\ delivery' = [delivery EXCEPT ![x].status = "sending", ![x].come = FALSE,
                                  ![x].attempts = IF @ < MaxAttempts THEN @ + 1 ELSE @]
  /\ Go(w, "verify", [On(x[1]) EXCEPT !.device = x[2], !.right = Justified(x),
                                      !.attempt = delivery'[x].attempts])
  /\ UNCHANGED <<events, center, people, shown, faults>>

\* Everything is read again before each send.
Verify(w) ==
  /\ pc[w] = "verify"
  /\ LET next == IF ~ Verified(Held(w), task[w].attempt) THEN "skip"
                 ELSE IF SessionRevoked(task[w].device) THEN "disable" ELSE "send"
     IN  Go(w, next, task[w])
  /\ UNCHANGED <<events, center, people, delivery, shown, faults>>

\* The session was revoked, or the endpoint is gone: the device is disabled.
Disable(w) ==
  /\ pc[w] \in {"disable", "gone"}
  /\ device' = Disabled({task[w].device})
  /\ Go(w, IF pc[w] = "disable" THEN "skip" ELSE "fail", task[w])
  /\ UNCHANGED <<events, center, session, members, delivery, shown, faults>>

\* The push service accepts, refuses, or does not answer; an answer that is
\* lost leaves a notification that the server believes was not delivered.
Send(w) ==
  LET arrives == shown' = [shown EXCEPT ![Held(w)] = @ + 1]
  IN  /\ pc[w] = "send"
      /\ \/ Go(w, "sent", task[w]) /\ arrives /\ UNCHANGED faults
         \/ \E answer \in {"gone", "later", "fail"} :
              Go(w, answer, task[w]) /\ UNCHANGED <<shown, faults>>
         \/ /\ faults < MaxFaults /\ faults' = faults + 1
            /\ Go(w, "later", task[w]) /\ arrives
      /\ UNCHANGED <<events, center, people, delivery>>

\* A transient failure is tried again later, as long as attempts remain.
Record(w) ==
  /\ delivery' =
       CASE pc[w] = "sent" -> Ended(Held(w), "sent")
         [] pc[w] = "skip" -> Ended(Held(w), "skipped")
         [] pc[w] = "fail" -> Ended(Held(w), "failed")
         [] pc[w] = "later" -> Ended(Held(w), IF task[w].attempt < MaxAttempts
                                              THEN "pending" ELSE "failed")
         [] OTHER -> delivery
  /\ pc[w] \in {"sent", "skip", "fail", "later"}
  /\ Finish(w)
  /\ UNCHANGED <<events, center, people, shown, faults>>

----------------------------------------------------------------------------
(* Events, members, devices and time *)

Still == UNCHANGED <<center, delivery, shown, faults, pc, task>>

\* An event commits with its job, while its window is open.
Happen(j) ==
  /\ job[j] = Absent /\ GroupOf[j] \notin ended
  /\ job' = [job EXCEPT ![j] = "pending"]
  /\ UNCHANGED <<relevant, aged, ended, people>> /\ Still

\* The sale is cancelled, the product restocked, the subscription renewed.
Lapse(j) ==
  /\ "lapse" \in Events /\ job[j] # Absent /\ j \in relevant
  /\ relevant' = relevant \ {j}
  /\ UNCHANGED <<job, aged, ended, people>> /\ Still

Past == {j \in Job : job[j] # Absent} \cup ended

Age(t) ==
  /\ "age" \in Events /\ t \in (Past \ Reminder) \ aged
  /\ aged' = aged \cup {t}
  /\ UNCHANGED <<job, relevant, ended, people>> /\ Still

WindowEnds(g) ==
  /\ g \notin ended
  /\ ended' = ended \cup {g}
  /\ UNCHANGED <<job, relevant, aged, people>> /\ Still

\* `register`: the same holder keeps the date of the registration.
Register(d, u) ==
  LET same == Known(d) /\ device[d].active /\ device[d].user = u
  IN  /\ "register" \in Events /\ u \in members /\ device[d] # Removed
      /\ device' = [device EXCEPT ![d] =
                      Registered(u, session[u], IF same THEN device[d].older ELSE Past)]
      /\ UNCHANGED <<events, session, members>> /\ Still

Unregister(d) ==
  /\ "unregister" \in Events /\ Known(d)
  /\ device' = [device EXCEPT ![d] = Removed]
  /\ UNCHANGED <<events, session, members>> /\ Still

\* A password changes: the sessions opened before are over.
RevokeSessions(u) ==
  /\ "session" \in Events /\ session[u] = 0
  /\ session' = [session EXCEPT ![u] = 1]
  /\ UNCHANGED <<events, device, members>> /\ Still

RemoveMember(u) ==
  /\ "member" \in Events /\ u \in members
  /\ members' = members \ {u}
  /\ UNCHANGED <<events, device, session>> /\ Still

\* A date is reached: that of an attempt, or the end of a lease.  A live worker
\* is faster than its lease (15 of 60 seconds), unless its process is suspended.
Comes(x) ==
  /\ Exists(x) /\ ~ delivery[x].come
  /\ \/ delivery[x].status = "pending" /\ (x[1] \in Job \/ x[1] \in ended) /\ UNCHANGED faults
     \/ /\ delivery[x].status = "sending"
        /\ IF \E w \in Worker : Holding(w, x)
           THEN faults < MaxFaults /\ faults' = faults + 1 ELSE UNCHANGED faults
  /\ delivery' = [delivery EXCEPT ![x].come = TRUE]
  /\ UNCHANGED <<events, center, people, shown, pc, task>>

Crash(w) ==
  /\ pc[w] # "idle" /\ faults < MaxFaults
  /\ faults' = faults + 1
  /\ Finish(w)
  /\ UNCHANGED <<events, center, people, delivery, shown>>

----------------------------------------------------------------------------

Dispatch(w) ==
  \/ Assess(w) \/ Cancel(w) \/ Notify(w) \/ Plan(w) \/ Revoke(w) \/ Deliver(w) \/ Close(w)

Push(w) == Verify(w) \/ Disable(w) \/ Send(w) \/ Record(w)

Environment ==
  \/ \E j \in Job : Happen(j) \/ Lapse(j)
  \/ \E t \in Target : Age(t)
  \/ \E g \in Group : WindowEnds(g)
  \/ \E d \in Device : Unregister(d) \/ \E u \in User : Register(d, u)
  \/ \E u \in User : RevokeSessions(u) \/ RemoveMember(u)

Next ==
  \/ \E w \in Worker : \/ Dispatch(w) \/ Push(w) \/ Crash(w)
                       \/ \E j \in Job : Select(w, j) \/ CatchUp(w, j)
                       \/ \E x \in Pair : Claim(w, x)
  \/ \E x \in Pair : Comes(x)
  \/ Environment

\* The loop of the dispatcher goes on (`setTimeout`) and time passes.  A pass
\* takes the pending jobs and the due deliveries oldest first, whatever else it
\* has to do: what is due again and again is taken (strong fairness).
Fairness ==
  /\ \A w \in Worker : WF_vars(Dispatch(w) \/ Push(w))
  /\ \A j \in Job : SF_vars(\E w \in Worker : Select(w, j))
  /\ \A x \in Pair : SF_vars(\E w \in Worker : Claim(w, x)) /\ WF_vars(Comes(x) /\ UNCHANGED faults)
  /\ \A g \in Group : WF_vars(WindowEnds(g))

Spec == Init /\ [][Next]_vars /\ Fairness

----------------------------------------------------------------------------
(* Properties *)

\* Every variable has its type, and a worker has work exactly when it is busy.
TypeOK ==
  /\ job \in [Job -> {Absent, "pending", "dispatched", "cancelled"}]
  /\ relevant \subseteq Job /\ aged \subseteq Target /\ ended \subseteq Group
  /\ center \subseteq Job \X User
  /\ device \in [Device -> DeviceDoc \cup {Absent, Removed}]
  /\ session \in [User -> Nat] /\ members \subseteq User
  /\ delivery \in [Pair -> DeliveryDoc \cup {Absent}]
  /\ shown \in [Pair -> Nat] /\ faults \in 0 .. MaxFaults
  /\ pc \in [Worker -> {"idle"} \cup Dispatching \cup Sending]
  /\ \A w \in Worker : IF pc[w] = "idle" THEN task[w] = Absent ELSE task[w] \in Work

\* A browser receives a notification once, and once more at most for each
\* crash, suspended worker or lost answer ("au moins une fois", never twice
\* without a fault), whatever the retries, the digests and the catch-ups.
ShownOnce == \A x \in Pair : shown[x] <= 1 + faults

\* A job that is closed and a delivery that ended stay so: planning again
\* after a crash, or the answer of a worker that lost its lease, opens none.
OutcomeStays ==
  [][/\ \A j \in Job : job[j] \in {"dispatched", "cancelled"} => job'[j] = job[j]
     /\ \A x \in Pair : Exists(x) /\ delivery[x].status \in Final =>
          delivery'[x] = delivery[x]]_vars

\* What was lost before a delivery is claimed, for a retry as for a first send,
\* stops it: the subject, the membership, the device ("ecarte les anciens
\* destinataires meme pour une reprise").  A reminder may still reach a device
\* that is enabled again.
NothingAfterRevocation ==
  [][\A w \in Worker :
       pc[w] = "send" /\ pc'[w] # "send" /\ shown'[Held(w)] # shown[Held(w)] =>
         task[w].right \/ task[w].target \in Reminder]_vars

\* A dispatched job is in the center of every member it is for, and its push
\* planned for each device that could get it all along, even when the process
\* died while planning.
NobodyForgotten ==
  \A j \in Job : job[j] = "dispatched" =>
    /\ \A u \in Audience[j] \cap members : <<j, u>> \in center
    /\ \A d \in Device : Holds(j, d) /\ ~ SessionRevoked(d) /\ j \notin aged \cup Reminder =>
         Exists(<<GroupOf[j], d>>)

\* Every job is closed and every delivery ends: a crash delays them, and no
\* state of the devices or the members leaves one behind.
EverythingSettles ==
  /\ \A j \in Job : job[j] = "pending" ~> job[j] \in {"dispatched", "cancelled"}
  /\ \A x \in Pair : Exists(x) ~> (Exists(x) /\ delivery[x].status \in Final)

=============================================================================
