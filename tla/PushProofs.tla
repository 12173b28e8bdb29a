------------------------------ MODULE PushProofs ------------------------------
(***************************************************************************)
(* Theorems about the dispatcher, for any number of jobs, windows, devices *)
(* users and processes, and any number of faults.                          *)
(***************************************************************************)
EXTENDS PushDispatch, FiniteSetTheorems, TLAPS

JobStatus == {"pending", "dispatched", "cancelled"}
Stages    == {"idle"} \cup Dispatching \cup Sending

\* What the work of w is about.
WorkOK(w) ==
  /\ pc[w] = "idle" <=> task[w] = Absent
  /\ pc[w] \in Dispatching => task[w].target \in Job
  /\ pc[w] \in Sending => task[w].device \in Device /\ Exists(Held(w))

Typed ==
  /\ job \in [Job -> JobStatus \cup {Absent}]
  /\ relevant \subseteq Job /\ aged \subseteq Target /\ ended \subseteq Group
  /\ center \subseteq Job \X User
  /\ device \in [Device -> DeviceDoc \cup {Absent, Removed}]
  /\ session \in [User -> Nat] /\ members \subseteq User
  /\ delivery \in [Pair -> DeliveryDoc \cup {Absent}]
  /\ shown \in [Pair -> Nat] /\ faults \in 0 .. MaxFaults
  /\ pc \in [Worker -> Stages]
  /\ task \in [Worker -> Work \cup {Absent}]
  /\ \A w \in Worker : WorkOK(w)

----------------------------------------------------------------------------
(* Types *)

LEMMA OnType ==
  ASSUME NEW t \in Target
  PROVE  On(t) \in Work /\ On(t).target = t
  BY DEF On, Work

LEMMA InitTyped == Init => Typed
<1> SUFFICES ASSUME Init PROVE Typed
  OBVIOUS
<1>1. device \in [Device -> DeviceDoc \cup {Absent, Removed}]
  <2>1. \A u \in User : Registered(u, 0, {}) \in DeviceDoc
    BY DEF Registered, DeviceDoc
  <2> QED
    BY <2>1 DEF Init
<1>2. \A w \in Worker : WorkOK(w)
  BY DEF Init, WorkOK, Dispatching, Sending
<1> QED
  BY <1>1, <1>2, PushConstants DEF Init, Typed, JobStatus, Stages

\* No delivery is deleted.
DeliveriesKept == \A x \in Pair : Exists(x) => Exists(x)'

\* Devices marked as inactive are still devices.
LEMMA DisabledTyped ==
  ASSUME Typed, NEW ds
  PROVE  Disabled(ds) \in [Device -> DeviceDoc \cup {Absent, Removed}]
<1>1. device \in [Device -> DeviceDoc \cup {Absent, Removed}]
  BY DEF Typed
<1>2. ASSUME NEW d \in Device, Known(d)
      PROVE  [device[d] EXCEPT !.active = FALSE] \in DeviceDoc
  <2>1. device[d] \in DeviceDoc
    BY <1>1, <1>2 DEF Known
  <2> QED
    BY <2>1 DEF DeviceDoc
<1> QED
  BY <1>1, <1>2 DEF Disabled

\* A step of w that goes on to a stage with work keeps the types of both.
LEMMA GoTyped ==
  ASSUME Typed, NEW w \in Worker, NEW stage \in Stages \ {"idle"}, NEW work \in Work,
         stage \in Dispatching => work.target \in Job,
         stage \in Sending => /\ work.device \in Device
                              /\ delivery'[<<work.target, work.device>>] # Absent,
         DeliveriesKept, Go(w, stage, work)
  PROVE  /\ pc' \in [Worker -> Stages]
         /\ task' \in [Worker -> Work \cup {Absent}]
         /\ \A v \in Worker : WorkOK(v)'
<1>1. work # Absent
  BY PushSentinels
<1>2. /\ pc' \in [Worker -> Stages] /\ pc'[w] = stage
      /\ task' \in [Worker -> Work \cup {Absent}] /\ task'[w] = work
      /\ \A v \in Worker \ {w} : pc'[v] = pc[v] /\ task'[v] = task[v]
  BY DEF Typed, Go
<1>3. WorkOK(w)'
  BY <1>1, <1>2 DEF WorkOK, Held, Exists
<1>4. ASSUME NEW v \in Worker \ {w}
      PROVE  WorkOK(v)'
  <2>1. WorkOK(v) /\ pc'[v] = pc[v] /\ task'[v] = task[v]
    BY <1>2 DEF Typed
  <2>2. ASSUME pc[v] \in Sending
        PROVE  Exists(Held(v))'
    <3>1. task[v] \in Work /\ task[v].device \in Device
      BY <2>1, <2>2 DEF Typed, WorkOK, Sending
    <3>2. Held(v) \in Pair /\ Held(v)' = Held(v) /\ Exists(Held(v))
      BY <2>1, <2>2, <3>1 DEF WorkOK, Held, Pair, Work
    <3> QED
      BY <3>2 DEF DeliveriesKept, Exists
  <2> QED
    BY <2>1, <2>2 DEF WorkOK
<1> QED
  BY <1>2, <1>3, <1>4

LEMMA FinishTyped ==
  ASSUME Typed, NEW w \in Worker, DeliveriesKept, Finish(w)
  PROVE  /\ pc' \in [Worker -> Stages]
         /\ task' \in [Worker -> Work \cup {Absent}]
         /\ \A v \in Worker : WorkOK(v)'
<1>1. /\ pc' \in [Worker -> Stages] /\ pc'[w] = "idle"
      /\ task' \in [Worker -> Work \cup {Absent}] /\ task'[w] = Absent
      /\ \A v \in Worker \ {w} : pc'[v] = pc[v] /\ task'[v] = task[v]
  BY DEF Typed, Go, Finish, Stages
<1>2. WorkOK(w)'
  BY <1>1 DEF WorkOK, Dispatching, Sending
<1>3. ASSUME NEW v \in Worker \ {w}
      PROVE  WorkOK(v)'
  <2>1. WorkOK(v) /\ pc'[v] = pc[v] /\ task'[v] = task[v]
    BY <1>1 DEF Typed
  <2>2. ASSUME pc[v] \in Sending
        PROVE  Exists(Held(v))'
    <3>1. task[v] \in Work /\ task[v].device \in Device
      BY <2>1, <2>2 DEF Typed, WorkOK, Sending
    <3>2. Held(v) \in Pair /\ Held(v)' = Held(v) /\ Exists(Held(v))
      BY <2>1, <2>2, <3>1 DEF WorkOK, Held, Pair, Work
    <3> QED
      BY <3>2 DEF DeliveriesKept, Exists
  <2> QED
    BY <2>1, <2>2 DEF WorkOK
<1> QED
  BY <1>1, <1>2, <1>3

\* The work that w has, when it has some.
LEMMA HasWork ==
  ASSUME Typed, NEW w \in Worker, pc[w] # "idle"
  PROVE  /\ task[w] \in Work
         /\ pc[w] \in Dispatching => task[w].target \in Job
         /\ pc[w] \in Sending => /\ task[w].device \in Device /\ Held(w) \in Pair
                                /\ delivery[Held(w)] \in DeliveryDoc
  BY DEF Typed, WorkOK, Held, Pair, Work, Exists

\* An upsert keeps what is there.
LEMMA UpsertOK ==
  ASSUME Typed, NEW t, NEW d, NEW u,
         delivery' = Upsert(t, d, u)
  PROVE  /\ DeliveriesKept
         /\ u \in User /\ <<t, d>> \in Pair => delivery' \in [Pair -> DeliveryDoc \cup {Absent}]
<1> DEFINE doc == [user |-> u, status |-> "pending", come |-> t \in Job \cup ended,
                   attempts |-> 0]
<1>1. \/ delivery' = delivery
      \/ ~ Exists(<<t, d>>) /\ delivery' = [delivery EXCEPT ![<<t, d>>] = doc]
  BY DEF Upsert
<1>2. u \in User => doc \in DeliveryDoc
  BY DEF DeliveryDoc
<1> HIDE DEF doc
<1> QED
  BY <1>1, <1>2 DEF Typed, DeliveriesKept, Exists

\* The end of an attempt keeps what is there.
LEMMA EndedOK ==
  ASSUME Typed, NEW x \in Pair, delivery[x] \in DeliveryDoc,
         NEW status \in {"pending"} \cup Final, delivery' = Ended(x, status)
  PROVE  DeliveriesKept /\ delivery' \in [Pair -> DeliveryDoc \cup {Absent}]
<1> DEFINE doc == [delivery[x] EXCEPT !.status = status, !.come = FALSE]
<1>1. doc \in DeliveryDoc
  BY DEF DeliveryDoc, Final
<1>2. delivery' = delivery \/ delivery' = [delivery EXCEPT ![x] = doc]
  BY DEF Ended, Typed
<1>3. doc # Absent
  BY <1>1, PushSentinels
<1> HIDE DEF doc
<1> QED
  BY <1>1, <1>2, <1>3 DEF Typed, DeliveriesKept, Exists

\* Every step keeps the types.
LEMMA DispatchTyped ==
  ASSUME Typed, NEW w \in Worker, Dispatch(w)
  PROVE  Typed'
<1> DEFINE j == task[w].target
<1>1. pc[w] # "idle" /\ pc[w] \in Dispatching
  BY DEF Dispatch, Assess, Cancel, Notify, Plan, Revoke, Deliver, Close, Dispatching
<1>2. task[w] \in Work /\ j \in Job /\ j \in Target
  BY <1>1, HasWork DEF Target
<1>20. DeliveriesKept
  <2>1. CASE Deliver(w)
    <3>1. PICK p \in task[w].planned : delivery' = Upsert(GroupOf[j], p[1], p[2])
      BY <2>1 DEF Deliver
    <3> QED
      BY <3>1, UpsertOK
  <2>2. CASE ~ Deliver(w)
    BY <2>2 DEF Dispatch, Assess, Cancel, Notify, Plan, Revoke, Close, DeliveriesKept, Exists
  <2> QED
    BY <2>1, <2>2
<1>3. ASSUME NEW todo \in SUBSET User
      PROVE  [On(j) EXCEPT !.todo = todo] \in Work /\ [On(j) EXCEPT !.todo = todo].target = j
  BY <1>2 DEF On, Work
<1>4. ASSUME NEW revoked \in SUBSET Device, NEW planned \in SUBSET (Device \X User)
      PROVE  /\ [On(j) EXCEPT !.revoked = revoked, !.planned = planned] \in Work
             /\ [On(j) EXCEPT !.revoked = revoked, !.planned = planned].target = j
  BY <1>2 DEF On, Work
<1>5. ASSUME NEW todo \in SUBSET User, GoNotify(w, j, todo)
      PROVE  /\ pc' \in [Worker -> Stages]
             /\ task' \in [Worker -> Work \cup {Absent}]
             /\ \A v \in Worker : WorkOK(v)'
  BY <1>2, <1>3, <1>5, <1>20, GoTyped DEF GoNotify, Stages, Dispatching, Sending
<1>6. ASSUME NEW revoked \in SUBSET Device, NEW planned \in SUBSET (Device \X User),
             GoDeliver(w, j, revoked, planned)
      PROVE  /\ pc' \in [Worker -> Stages]
             /\ task' \in [Worker -> Work \cup {Absent}]
             /\ \A v \in Worker : WorkOK(v)'
  BY <1>2, <1>4, <1>6, <1>20, GoTyped DEF GoDeliver, Stages, Dispatching, Sending
<1>7. ASSUME NEW status \in JobStatus
      PROVE  Closed(j, status) \in [Job -> JobStatus \cup {Absent}]
  BY <1>2 DEF Typed, Closed
<1>8. ASSUME Spread(w, j)
      PROVE  /\ pc' \in [Worker -> Stages]
             /\ task' \in [Worker -> Work \cup {Absent}]
             /\ \A v \in Worker : WorkOK(v)'
  <2> DEFINE reached == {d \in Device : Holds(j, d)}
             revoked == {d \in reached : SessionRevoked(d)}
             planned == {<<d, device[d].user>> : d \in reached \ revoked}
  <2>1. revoked \in SUBSET Device
    OBVIOUS
  <2>2. planned \in SUBSET (Device \X User)
    <3>1. \A d \in Device : Holds(j, d) => device[d].user \in User
      BY DEF Typed, Holds
    <3> QED
      BY <3>1
  <2>3. GoDeliver(w, j, revoked, planned)
    BY <1>8 DEF Spread
  <2> QED
    BY <1>6, <2>1, <2>2, <2>3
<1>9. CASE Assess(w)
  <2>1. CASE Irrelevant(j)
    BY <1>9, <2>1, <1>2, <1>20, OnType, GoTyped
       DEF Assess, Typed, Stages, Dispatching, Sending, events, people
  <2>2. CASE ~ Irrelevant(j)
    <3>1. GoNotify(w, j, Audience[j] \cap members)
      BY <1>9, <2>2 DEF Assess
    <3>2. Audience[j] \cap members \in SUBSET User
      BY DEF Typed
    <3> QED
      BY <1>9, <1>5, <3>1, <3>2 DEF Assess, Typed, events, people
  <2> QED
    BY <2>1, <2>2
<1>10. CASE Cancel(w)
  BY <1>10, <1>7, <1>20, FinishTyped DEF Cancel, Typed, JobStatus, people
<1>11. CASE Notify(w)
  <2>1. PICK u \in task[w].todo : center' = center \cup {<<j, u>>}
                                 /\ GoNotify(w, j, task[w].todo \ {u})
    BY <1>11 DEF Notify
  <2>2. task[w].todo \in SUBSET User
    BY <1>2 DEF Work
  <2> QED
    BY <1>11, <2>1, <2>2, <1>2, <1>5 DEF Notify, Typed, events, people
<1>12. CASE Plan(w)
  <2>1. CASE j \in aged
    BY <1>12, <2>1, <1>2, <1>20, OnType, GoTyped
       DEF Plan, Typed, Stages, Dispatching, Sending, events, people
  <2>2. CASE j \notin aged
    BY <1>12, <2>2, <1>8 DEF Plan, Typed, events, people
  <2> QED
    BY <2>1, <2>2
<1>13. CASE Revoke(w)
  <2>1. Disabled(task[w].revoked) \in [Device -> DeviceDoc \cup {Absent, Removed}]
    BY DisabledTyped
  <2>2. GoDeliver(w, j, {}, task[w].planned) /\ task[w].planned \in SUBSET (Device \X User)
    BY <1>13, <1>2 DEF Revoke, Work
  <2> QED
    BY <1>13, <1>6, <2>1, <2>2 DEF Revoke, Typed, events
<1>14. CASE Deliver(w)
  <2>1. PICK p \in task[w].planned : /\ delivery' = Upsert(GroupOf[j], p[1], p[2])
                                    /\ GoDeliver(w, j, {}, task[w].planned \ {p})
    BY <1>14 DEF Deliver
  <2>2. task[w].planned \in SUBSET (Device \X User) /\ p \in Device \X User
    BY <1>2, <2>1 DEF Work
  <2>3. GroupOf[j] \in Target /\ <<GroupOf[j], p[1]>> \in Pair
    BY <1>2, <2>2, PushConstants DEF Pair
  <2>4. delivery' \in [Pair -> DeliveryDoc \cup {Absent}]
    BY <2>1, <2>2, <2>3, UpsertOK
  <2>5. /\ pc' \in [Worker -> Stages]
        /\ task' \in [Worker -> Work \cup {Absent}]
        /\ \A v \in Worker : WorkOK(v)'
    <3>1. {} \in SUBSET Device /\ task[w].planned \ {p} \in SUBSET (Device \X User)
      BY <2>2
    <3> QED
      BY <1>6, <2>1, <3>1
  <2> QED
    BY <1>14, <2>4, <2>5 DEF Deliver, Typed, events, people
<1>15. CASE Close(w)
  BY <1>15, <1>7, <1>20, FinishTyped DEF Close, Typed, JobStatus, people
<1> QED
  BY <1>9, <1>10, <1>11, <1>12, <1>13, <1>14, <1>15 DEF Dispatch

LEMMA PushTyped ==
  ASSUME Typed, NEW w \in Worker, Push(w)
  PROVE  Typed'
<1>1. pc[w] # "idle" /\ pc[w] \in Sending
  BY DEF Push, Verify, Disable, Send, Record, Sending
<1>2. task[w] \in Work /\ task[w].device \in Device /\ Held(w) \in Pair
  BY <1>1, HasWork
<1>3. ASSUME NEW stage \in Sending, Go(w, stage, task[w]), UNCHANGED delivery
      PROVE  /\ pc' \in [Worker -> Stages]
             /\ task' \in [Worker -> Work \cup {Absent}]
             /\ \A v \in Worker : WorkOK(v)'
  <2>1. DeliveriesKept /\ Exists(Held(w))
    BY <1>1, <1>3 DEF DeliveriesKept, Exists, Typed, WorkOK
  <2>2. delivery'[<<task[w].target, task[w].device>>] # Absent
    BY <1>2, <1>3, <2>1 DEF Exists, Held
  <2>3. stage \in Stages \ {"idle"} /\ stage \notin Dispatching
    BY DEF Stages, Dispatching, Sending
  <2> QED
    BY <1>2, <1>3, <2>1, <2>2, <2>3, GoTyped, Zenon
<1>4. CASE Verify(w)
  BY <1>3, <1>4 DEF Verify, Typed, Sending, events, people
<1>5. CASE Disable(w)
  <2>1. Disabled({task[w].device}) \in [Device -> DeviceDoc \cup {Absent, Removed}]
    BY DisabledTyped
  <2> QED
    BY <1>3, <1>5, <2>1 DEF Disable, Typed, Sending, events
<1>6. CASE Send(w)
  <2>1. [shown EXCEPT ![Held(w)] = @ + 1] \in [Pair -> Nat]
    BY <1>2 DEF Typed
  <2>2. faults < MaxFaults => faults + 1 \in 0 .. MaxFaults
    BY PushConstants DEF Typed
  <2>3. PICK stage \in Sending : Go(w, stage, task[w])
    BY <1>6 DEF Send, Sending
  <2> QED
    BY <1>3, <1>6, <2>1, <2>2, <2>3 DEF Send, Typed, events, people
<1>7. CASE Record(w)
  <2>1. PICK status \in {"pending"} \cup Final : delivery' = Ended(Held(w), status)
    BY <1>7 DEF Record, Final
  <2>2. delivery[Held(w)] \in DeliveryDoc
    BY <1>1, HasWork
  <2>3. DeliveriesKept /\ delivery' \in [Pair -> DeliveryDoc \cup {Absent}]
    BY <1>2, <2>1, <2>2, EndedOK
  <2> QED
    BY <1>7, <2>3, FinishTyped DEF Record, Typed, events, people
<1> QED
  BY <1>4, <1>5, <1>6, <1>7 DEF Push

\* A claim writes the delivery it reads.
Claimed(x) == [delivery EXCEPT ![x].status = "sending", ![x].come = FALSE,
                               ![x].attempts = IF @ < MaxAttempts THEN @ + 1 ELSE @]

LEMMA ClaimOK ==
  ASSUME Typed, NEW x \in Pair, Exists(x), delivery' = Claimed(x)
  PROVE  /\ DeliveriesKept /\ delivery' \in [Pair -> DeliveryDoc \cup {Absent}]
         /\ delivery'[x] \in DeliveryDoc
         /\ delivery'[x].status = "sending" /\ ~ delivery'[x].come
         /\ delivery'[x].user = delivery[x].user
         /\ \A y \in Pair \ {x} : delivery'[y] = delivery[y]
<1> DEFINE doc == [delivery[x] EXCEPT !.status = "sending", !.come = FALSE,
                     !.attempts = IF @ < MaxAttempts THEN @ + 1 ELSE @]
<1>1. delivery[x] \in DeliveryDoc
  BY DEF Exists, Typed
<1>2. doc \in DeliveryDoc /\ doc.status = "sending" /\ ~ doc.come /\ doc.user = delivery[x].user
  <2>1. /\ delivery[x].attempts \in Nat
        /\ (IF delivery[x].attempts < MaxAttempts THEN delivery[x].attempts + 1
            ELSE delivery[x].attempts) \in Nat
    BY <1>1, PushConstants DEF DeliveryDoc
  <2> QED
    BY <1>1, <2>1 DEF DeliveryDoc
<1>3. delivery' = [delivery EXCEPT ![x] = doc]
  BY DEF Claimed, Typed
<1>4. doc # Absent
  BY <1>2, PushSentinels
<1> HIDE DEF doc
<1> QED
  BY <1>2, <1>3, <1>4 DEF Typed, DeliveriesKept, Exists

LEMMA ChooseTyped ==
  ASSUME Typed, NEW w \in Worker,
         \/ \E j \in Job : Select(w, j) \/ CatchUp(w, j)
         \/ \E x \in Pair : Claim(w, x)
         \/ Crash(w)
  PROVE  Typed'
<1>1. ASSUME NEW j \in Job, Select(w, j) \/ CatchUp(w, j)
      PROVE  Typed'
  <2>1. Go(w, "assess", On(j)) /\ UNCHANGED <<events, center, people, delivery, shown, faults>>
    BY <1>1 DEF Select, CatchUp
  <2>2. DeliveriesKept
    BY <2>1 DEF DeliveriesKept, Exists
  <2>3. On(j) \in Work /\ On(j).target = j
    BY OnType DEF Target
  <2> QED
    BY <2>1, <2>2, <2>3, GoTyped DEF Typed, Stages, Dispatching, Sending, events, people
<1>2. ASSUME NEW x \in Pair, Claim(w, x)
      PROVE  Typed'
  <2> DEFINE work == [On(x[1]) EXCEPT !.device = x[2], !.right = Justified(x),
                                      !.attempt = delivery'[x].attempts]
  <2>1. Exists(x) /\ delivery' = Claimed(x) /\ Go(w, "verify", work)
    BY <1>2 DEF Claim, Claimable, Claimed
  <2>2. x[1] \in Target /\ x[2] \in Device /\ x = <<x[1], x[2]>>
    BY DEF Pair
  <2>3. work \in Work /\ work.target = x[1] /\ work.device = x[2]
    <3>1. delivery'[x].attempts \in Nat /\ Justified(x) \in BOOLEAN
      BY <2>1, ClaimOK DEF DeliveryDoc, Justified
    <3> QED
      BY <2>2, <3>1 DEF On, Work
  <2>4. delivery'[<<work.target, work.device>>] # Absent
    BY <2>1, <2>2, <2>3, ClaimOK, PushSentinels
  <2> HIDE DEF work
  <2>5. /\ pc' \in [Worker -> Stages]
        /\ task' \in [Worker -> Work \cup {Absent}]
        /\ \A v \in Worker : WorkOK(v)'
    BY <2>1, <2>2, <2>3, <2>4, ClaimOK, GoTyped DEF Stages, Dispatching, Sending
  <2> QED
    BY <1>2, <2>1, <2>5, ClaimOK DEF Claim, Typed, events, people
<1>3. CASE Crash(w)
  <2>1. faults' \in 0 .. MaxFaults
    BY <1>3, PushConstants DEF Crash, Typed
  <2>2. DeliveriesKept
    BY <1>3 DEF Crash, DeliveriesKept, Exists
  <2> QED
    BY <1>3, <2>1, <2>2, FinishTyped DEF Crash, Typed, events, people
<1> QED
  BY <1>1, <1>2, <1>3

\* A date that is reached.
LEMMA ComesOK ==
  ASSUME Typed, NEW x \in Pair, Comes(x)
  PROVE  /\ DeliveriesKept /\ delivery' \in [Pair -> DeliveryDoc \cup {Absent}]
         /\ delivery'[x] \in DeliveryDoc /\ delivery'[x].come
         /\ delivery'[x].status = delivery[x].status
         /\ delivery'[x].user = delivery[x].user
         /\ \A y \in Pair \ {x} : delivery'[y] = delivery[y]
<1>1. delivery[x] \in DeliveryDoc /\ delivery' = [delivery EXCEPT ![x].come = TRUE]
  BY DEF Comes, Exists, Typed
<1> DEFINE doc == [delivery[x] EXCEPT !.come = TRUE]
<1>2. /\ doc \in DeliveryDoc /\ doc.come /\ doc.status = delivery[x].status
      /\ doc.user = delivery[x].user
  BY <1>1 DEF DeliveryDoc
<1>3. delivery' = [delivery EXCEPT ![x] = doc]
  BY <1>1
<1>4. doc # Absent
  BY <1>2, PushSentinels
<1> HIDE DEF doc
<1> QED
  BY <1>2, <1>3, <1>4 DEF Typed, DeliveriesKept, Exists

\* Workers go on with the same work when no delivery is deleted.
LEMMA OthersTyped ==
  ASSUME Typed, DeliveriesKept, UNCHANGED <<pc, task>>
  PROVE  \A v \in Worker : WorkOK(v)'
<1> SUFFICES ASSUME NEW v \in Worker PROVE WorkOK(v)'
  OBVIOUS
<1>1. WorkOK(v)
  BY DEF Typed
<1>2. ASSUME pc[v] \in Sending
      PROVE  Exists(Held(v))'
  <2>1. Held(v) \in Pair /\ Exists(Held(v))
    BY <1>1, <1>2, HasWork DEF WorkOK, Sending
  <2> QED
    BY <2>1 DEF DeliveriesKept, Exists, Held
<1> QED
  BY <1>1, <1>2 DEF WorkOK

LEMMA EnvironmentTyped ==
  ASSUME Typed, Environment \/ \E x \in Pair : Comes(x)
  PROVE  Typed'
<1>1. ASSUME NEW x \in Pair, Comes(x)
      PROVE  Typed'
  <2>1. UNCHANGED <<events, center, people, shown, pc, task>> /\ faults' \in 0 .. MaxFaults
    BY <1>1, PushConstants DEF Comes, Typed
  <2> QED
    BY <1>1, <2>1, ComesOK, OthersTyped DEF Typed, events, people
<1>2. ASSUME Environment
      PROVE  Typed'
  <2>1. UNCHANGED <<center, delivery, shown, faults, pc, task>>
    BY <1>2 DEF Environment, Happen, Lapse, Age, WindowEnds, Register, Unregister,
         RevokeSessions, RemoveMember, Still
  <2>2. \A v \in Worker : WorkOK(v)'
    BY <2>1, OthersTyped DEF DeliveriesKept, Exists
  <2>3. /\ job' \in [Job -> JobStatus \cup {Absent}]
        /\ relevant' \subseteq Job /\ aged' \subseteq Target /\ ended' \subseteq Group
    BY <1>2 DEF Environment, Happen, Lapse, Age, WindowEnds, Register, Unregister,
         RevokeSessions, RemoveMember, Typed, JobStatus, events
  <2>4. session' \in [User -> Nat] /\ members' \subseteq User
    BY <1>2 DEF Environment, Happen, Lapse, Age, WindowEnds, Register, Unregister,
         RevokeSessions, RemoveMember, Typed, people
  <2>5. device' \in [Device -> DeviceDoc \cup {Absent, Removed}]
    <3>1. CASE device' = device
      BY <3>1 DEF Typed
    <3>2. ASSUME NEW d \in Device, Unregister(d)
          PROVE  device' \in [Device -> DeviceDoc \cup {Absent, Removed}]
      BY <3>2 DEF Unregister, Typed
    <3>3. ASSUME NEW d \in Device, NEW u \in User, Register(d, u)
          PROVE  device' \in [Device -> DeviceDoc \cup {Absent, Removed}]
      <4>1. Past \in SUBSET Target
        BY DEF Past, Typed, Target
      <4>2. PICK older \in SUBSET Target :
              device' = [device EXCEPT ![d] = Registered(u, session[u], older)]
        BY <3>3, <4>1 DEF Register, Known, Typed, DeviceDoc
      <4>3. Registered(u, session[u], older) \in DeviceDoc
        BY DEF Registered, DeviceDoc, Typed
      <4> QED
        BY <4>2, <4>3 DEF Typed
    <3> QED
      BY <1>2, <3>1, <3>2, <3>3 DEF Environment, Happen, Lapse, Age, WindowEnds,
         RevokeSessions, RemoveMember, people
  <2> QED
    BY <2>1, <2>2, <2>3, <2>4, <2>5 DEF Typed
<1> QED
  BY <1>1, <1>2

LEMMA StepTyped ==
  ASSUME Typed, [Next]_vars
  PROVE  Typed'
<1>1. CASE UNCHANGED vars
  BY <1>1, OthersTyped DEF vars, events, people, Typed, DeliveriesKept, Exists
<1>2. CASE Next
  BY <1>2, DispatchTyped, PushTyped, ChooseTyped, EnvironmentTyped DEF Next
<1> QED
  BY <1>1, <1>2

LEMMA AlwaysTyped == Spec => []Typed
<1>1. Typed /\ [Next]_vars => Typed'
  BY StepTyped
<1> QED
  BY InitTyped, <1>1, PTL DEF Spec

\* Every variable has its type, for any number of processes and faults.
THEOREM PushIsTyped == Spec => []TypeOK
<1>1. Typed => TypeOK
  <2> SUFFICES ASSUME Typed PROVE TypeOK
    OBVIOUS
  <2>1. \A w \in Worker : IF pc[w] = "idle" THEN task[w] = Absent ELSE task[w] \in Work
    BY DEF Typed, WorkOK
  <2> QED
    BY <2>1 DEF Typed, TypeOK, JobStatus, Stages
<1> QED
  BY AlwaysTyped, <1>1, PTL

----------------------------------------------------------------------------
(* What ended stays so *)

\* How a step changes one delivery, if it does.
DeliveryStep(x) ==
  \/ UNCHANGED delivery
  \/ \E w \in Worker : Claim(w, x)
  \/ Comes(x)
  \/ \E w \in Worker, status \in {"pending"} \cup Final :
       pc[w] \in Sending /\ Held(w) = x /\ delivery' = Ended(x, status)
  \/ \E w \in Worker, j \in Job, d \in Device, u \in User :
       /\ pc[w] = "deliver" /\ task[w].target = j /\ x = <<GroupOf[j], d>>
       /\ delivery' = Upsert(GroupOf[j], d, u)

LEMMA DeliverySteps ==
  ASSUME Typed, Next, delivery' # delivery
  PROVE  \E x \in Pair : DeliveryStep(x)
<1>1. ASSUME NEW w \in Worker, Record(w)
      PROVE  \E x \in Pair : DeliveryStep(x)
  <2>1. pc[w] \in Sending /\ pc[w] # "idle"
    BY <1>1 DEF Record, Sending
  <2>2. Held(w) \in Pair
    BY <2>1, HasWork
  <2>3. PICK status \in {"pending"} \cup Final : delivery' = Ended(Held(w), status)
    BY <1>1 DEF Record, Final
  <2> QED
    BY <2>1, <2>2, <2>3 DEF DeliveryStep
<1>2. ASSUME NEW w \in Worker, Deliver(w)
      PROVE  \E x \in Pair : DeliveryStep(x)
  <2> DEFINE j == task[w].target
  <2>1. pc[w] = "deliver" /\ j \in Job /\ task[w] \in Work
    BY <1>2, HasWork DEF Deliver, Dispatching
  <2>2. PICK p \in task[w].planned : delivery' = Upsert(GroupOf[j], p[1], p[2])
    BY <1>2 DEF Deliver
  <2>3. p[1] \in Device /\ p[2] \in User /\ <<GroupOf[j], p[1]>> \in Pair
    <3>1. p \in Device \X User
      BY <2>1, <2>2 DEF Work
    <3> QED
      BY <2>1, <3>1, PushConstants DEF Pair
  <2> QED
    BY <2>1, <2>2, <2>3 DEF DeliveryStep
<1>3. ASSUME NEW w \in Worker, Dispatch(w) \/ Push(w), ~ Record(w), ~ Deliver(w)
      PROVE  FALSE
  BY <1>3 DEF Dispatch, Push, Assess, Cancel, Notify, Plan, Revoke, Close, Verify, Disable, Send
<1>4. ~ Environment
  BY DEF Environment, Happen, Lapse, Age, WindowEnds, Register, Unregister,
     RevokeSessions, RemoveMember, Still
<1>5. ASSUME NEW w \in Worker,
             Crash(w) \/ \E j \in Job : Select(w, j) \/ CatchUp(w, j)
      PROVE  FALSE
  BY <1>5 DEF Crash, Select, CatchUp
<1> QED
  BY <1>1, <1>2, <1>3, <1>4, <1>5 DEF Next, DeliveryStep

\* What a step does of the delivery it changes, and of the others.
LEMMA DeliveryChange ==
  ASSUME Typed, NEW x \in Pair, DeliveryStep(x), NEW y \in Pair
  PROVE  \/ delivery'[y] = delivery[y]
         \/ /\ y = x /\ Exists(y)
            /\ delivery[y].status \notin Final
            /\ delivery'[y] # Absent /\ delivery'[y].user = delivery[y].user
         \/ y = x /\ ~ Exists(y)
<1>1. ASSUME NEW w \in Worker, Claim(w, x)
      PROVE  /\ Exists(x) /\ delivery[x].status \notin Final
             /\ delivery'[x] # Absent /\ delivery'[x].user = delivery[x].user
             /\ y # x => delivery'[y] = delivery[y]
  BY <1>1, ClaimOK, PushSentinels DEF Claim, Claimable, Claimed, Final
<1>2. ASSUME Comes(x)
      PROVE  /\ Exists(x) /\ delivery[x].status \notin Final
             /\ delivery'[x] # Absent /\ delivery'[x].user = delivery[x].user
             /\ y # x => delivery'[y] = delivery[y]
  BY <1>2, ComesOK, PushSentinels DEF Comes, Final
<1>3. ASSUME NEW w \in Worker, NEW status \in {"pending"} \cup Final,
             pc[w] \in Sending, Held(w) = x, delivery' = Ended(x, status), y = x,
             delivery' # delivery
      PROVE  /\ Exists(x) /\ delivery[x].status \notin Final
             /\ delivery'[x] # Absent /\ delivery'[x].user = delivery[x].user
  <2>1. delivery[x] \in DeliveryDoc /\ delivery[x] # Absent
    BY <1>3, HasWork, PushSentinels DEF Sending
  <2>2. DeliveriesKept
    BY <1>3, <2>1, EndedOK
  <2>3. delivery[x].status = "sending"
    BY <1>3 DEF Ended
  <2>4. delivery'[x].user = delivery[x].user
    BY <1>3, <2>1 DEF Ended, Typed, DeliveryDoc
  <2> QED
    BY <2>1, <2>2, <2>3, <2>4 DEF DeliveriesKept, Exists, Final
<1>4. ASSUME NEW status \in {"pending"} \cup Final, delivery' = Ended(x, status), y # x
      PROVE  delivery'[y] = delivery[y]
  BY <1>4 DEF Ended, Typed
<1>5. ASSUME NEW t, NEW d, NEW u, x = <<t, d>>, delivery' = Upsert(t, d, u)
      PROVE  /\ y # x => delivery'[y] = delivery[y]
             /\ Exists(x) => delivery' = delivery
  BY <1>5 DEF Upsert, Typed
<1> QED
  BY <1>1, <1>2, <1>3, <1>4, <1>5 DEF DeliveryStep

\* A job that is closed and a delivery that ended stay so, whoever comes late.
THEOREM OutcomesStay == Spec => OutcomeStays
<1>1. ASSUME Typed, Next, NEW j \in Job, job[j] \in {"dispatched", "cancelled"}
      PROVE  job'[j] = job[j]
  <2>1. ASSUME NEW k, NEW status, job' = Closed(k, status)
        PROVE  job'[j] = job[j]
    BY <1>1, <2>1 DEF Closed, Typed
  <2>2. ASSUME NEW k \in Job, Happen(k)
        PROVE  job'[j] = job[j]
    BY <1>1, <2>2, PushSentinels DEF Happen, Typed
  <2>3. \/ UNCHANGED job
        \/ \E k, status : job' = Closed(k, status)
        \/ \E k \in Job : Happen(k)
    BY <1>1 DEF Next, Dispatch, Push, Environment, Assess, Cancel, Notify, Plan, Revoke,
       Deliver, Close, Verify, Disable, Send, Record, Crash, Select, CatchUp, Claim, Comes,
       Lapse, Age, WindowEnds, Register, Unregister, RevokeSessions, RemoveMember, events
  <2> QED
    BY <2>1, <2>2, <2>3
<1>2. ASSUME Typed, Next, NEW x \in Pair, Exists(x), delivery[x].status \in Final
      PROVE  delivery'[x] = delivery[x]
  BY <1>2, DeliverySteps, DeliveryChange
<1>3. Typed /\ [Next]_vars =>
        [/\ \A j \in Job : job[j] \in {"dispatched", "cancelled"} => job'[j] = job[j]
         /\ \A x \in Pair : Exists(x) /\ delivery[x].status \in Final =>
              delivery'[x] = delivery[x]]_vars
  BY <1>1, <1>2
<1> QED
  BY AlwaysTyped, <1>3, PTL DEF Spec, OutcomeStays

----------------------------------------------------------------------------
(* Nothing is sent after what justified it is lost *)

\* How a step moves worker v.
WorkerStep(v) ==
  \/ pc'[v] = pc[v] /\ task'[v] = task[v]
  \/ pc'[v] = "idle"
  \/ /\ pc[v] \in Dispatching /\ pc'[v] \in Dispatching
     /\ task'[v].target = task[v].target
  \/ /\ pc'[v] = "assess" /\ task'[v].target \in Job /\ job[task'[v].target] # Absent
  \/ /\ pc[v] \in Sending /\ pc'[v] \in Sending /\ task'[v] = task[v]
     /\ \/ pc'[v] # "send"
        \/ pc[v] = "verify" /\ Justified(Held(v))
  \/ /\ pc'[v] = "verify" /\ task'[v].right \in BOOLEAN
     /\ \E x \in Pair :
          /\ Claim(v, x)
          /\ task'[v].target = x[1] /\ task'[v].device = x[2] /\ task'[v].right = Justified(x)

LEMMA WorkerSteps ==
  ASSUME Typed, Next, NEW v \in Worker
  PROVE  WorkerStep(v)
<1>1. ASSUME NEW w \in Worker, NEW stage, NEW work, Go(w, stage, work)
      PROVE  /\ v # w => pc'[v] = pc[v] /\ task'[v] = task[v]
             /\ v = w => pc'[v] = stage /\ task'[v] = work
  BY <1>1 DEF Go, Typed
<1>2. ASSUME NEW w \in Worker, NEW stage, NEW work, Go(w, stage, work), v # w
      PROVE  WorkerStep(v)
  BY <1>1, <1>2 DEF WorkerStep
<1>3. ASSUME NEW w \in Worker, Finish(w)
      PROVE  WorkerStep(v)
  BY <1>1, <1>3 DEF Finish, WorkerStep
<1>4. ASSUME Dispatch(v), ~ Finish(v)
      PROVE  WorkerStep(v)
  <2> DEFINE j == task[v].target
  <2>1. pc[v] \in Dispatching /\ j \in Job
    BY <1>4, HasWork
       DEF Dispatch, Assess, Cancel, Notify, Plan, Revoke, Deliver, Close, Dispatching
  <2>2. ASSUME NEW todo, GoNotify(v, j, todo)
        PROVE  pc'[v] \in Dispatching /\ task'[v].target = j
    BY <2>1, <2>2, <1>1 DEF GoNotify, On, Dispatching
  <2>3. ASSUME NEW revoked, NEW planned, GoDeliver(v, j, revoked, planned)
        PROVE  pc'[v] \in Dispatching /\ task'[v].target = j
    <3> DEFINE work == [On(j) EXCEPT !.revoked = revoked, !.planned = planned]
    <3>1. work.target = j
      BY DEF On
    <3>2. PICK stage \in Dispatching : Go(v, stage, work)
      BY <2>3, Zenon DEF GoDeliver, Dispatching
    <3> HIDE DEF work
    <3> QED
      BY <3>1, <3>2, <1>1
  <2>4. ASSUME NEW stage \in Dispatching, Go(v, stage, On(j))
        PROVE  pc'[v] \in Dispatching /\ task'[v].target = j
    BY <2>4, <1>1 DEF On
  <2>5. pc'[v] \in Dispatching /\ task'[v].target = j
    BY <1>4, <2>2, <2>3, <2>4
       DEF Dispatch, Assess, Cancel, Notify, Plan, Revoke, Deliver, Close, Spread, Dispatching
  <2> QED
    BY <2>1, <2>5 DEF WorkerStep
<1>5. ASSUME Push(v), ~ Finish(v)
      PROVE  WorkerStep(v)
  <2>1. pc[v] \in Sending
    BY <1>5 DEF Push, Verify, Disable, Send, Record, Sending
  <2>2. \E stage \in Sending : /\ Go(v, stage, task[v])
                               /\ stage = "send" => pc[v] = "verify" /\ Justified(Held(v))
    <3>1. CASE Verify(v)
      BY <3>1 DEF Verify, Sending, Verified
    <3>2. CASE Disable(v)
      BY <3>2 DEF Disable, Sending
    <3>3. CASE Send(v)
      BY <3>3 DEF Send, Sending
    <3> QED
      BY <1>5, <3>1, <3>2, <3>3 DEF Push, Record
  <2> QED
    BY <2>1, <2>2, <1>1 DEF WorkerStep
<1>6. ASSUME NEW j \in Job, Select(v, j) \/ CatchUp(v, j)
      PROVE  WorkerStep(v)
  <2>1. Go(v, "assess", On(j)) /\ job[j] # Absent
    BY <1>6, PushSentinels DEF Select, CatchUp
  <2> QED
    BY <2>1, <1>1 DEF WorkerStep, On
<1>7. ASSUME NEW x \in Pair, Claim(v, x)
      PROVE  WorkerStep(v)
  <2> DEFINE work == [On(x[1]) EXCEPT !.device = x[2], !.right = Justified(x),
                                      !.attempt = delivery'[x].attempts]
  <2>1. work.target = x[1] /\ work.device = x[2] /\ work.right = Justified(x)
    BY DEF On
  <2>2. Go(v, "verify", work)
    BY <1>7 DEF Claim
  <2> HIDE DEF work
  <2>3. Justified(x) \in BOOLEAN
    BY DEF Justified
  <2> QED
    BY <1>7, <2>1, <2>2, <2>3, <1>1 DEF WorkerStep
<1>8. ASSUME NEW w \in Worker, Dispatch(w) \/ Push(w), ~ Finish(w)
      PROVE  WorkerStep(v)
  <2>1. CASE v = w
    BY <1>4, <1>5, <1>8, <2>1
  <2>2. CASE v # w
    <3>1. \E stage, work : Go(w, stage, work)
      BY <1>8 DEF Dispatch, Push, Assess, Cancel, Notify, Plan, Revoke, Deliver, Close, Verify,
         Disable, Send, Record, Spread, GoNotify, GoDeliver
    <3> QED
      BY <3>1, <2>2, <1>2
  <2> QED
    BY <2>1, <2>2
<1>9. ASSUME NEW w \in Worker,
             \/ \E j \in Job : Select(w, j) \/ CatchUp(w, j)
             \/ \E x \in Pair : Claim(w, x)
      PROVE  WorkerStep(v)
  <2>1. CASE v = w
    BY <1>6, <1>7, <1>9, <2>1
  <2>2. CASE v # w
    BY <1>2, <1>9, <2>2 DEF Select, CatchUp, Claim
  <2> QED
    BY <2>1, <2>2
<1>10. ASSUME UNCHANGED <<pc, task>>
       PROVE  WorkerStep(v)
  BY <1>10 DEF WorkerStep
<1>11. Environment \/ (\E x \in Pair : Comes(x)) => UNCHANGED <<pc, task>>
  BY DEF Environment, Happen, Lapse, Age, WindowEnds, Register, Unregister,
     RevokeSessions, RemoveMember, Still, Comes
<1> QED
  BY <1>3, <1>8, <1>9, <1>10, <1>11 DEF Next, Crash

\* What has a delivery has happened, but for a window that is still open.
Dated(x) ==
  Exists(x) => \/ x[1] \in Past
               \/ x[1] \in Group /\ delivery[x].status = "pending" /\ ~ delivery[x].come

History ==
  /\ \A x \in Pair : Dated(x)
  /\ \A w \in Worker : /\ pc[w] \in Dispatching => job[task[w].target] # Absent
                       /\ pc[w] \in Sending => task[w].target \in Past

LEMMA PastGrows ==
  ASSUME Typed, Next
  PROVE  /\ Past \subseteq Past' /\ ended \subseteq ended'
         /\ \A j \in Job : job[j] # Absent => job'[j] # Absent
<1>1. ASSUME NEW j \in Job, job[j] # Absent
      PROVE  job'[j] # Absent
  <2>1. ASSUME NEW k, NEW status \in {"dispatched", "cancelled"}, job' = Closed(k, status)
        PROVE  job'[j] # Absent
    BY <1>1, <2>1, PushSentinels DEF Closed, Typed
  <2>2. ASSUME NEW k \in Job, Happen(k)
        PROVE  job'[j] # Absent
    BY <1>1, <2>2, PushSentinels DEF Happen, Typed
  <2>3. ASSUME NEW w \in Worker, Cancel(w) \/ Close(w)
        PROVE  job'[j] # Absent
    BY <2>1, <2>3 DEF Cancel, Close
  <2>4. \/ UNCHANGED job
        \/ \E w \in Worker : Cancel(w) \/ Close(w)
        \/ \E k \in Job : Happen(k)
    BY Zenon DEF Next, Dispatch, Push, Environment, Assess, Cancel, Notify, Plan, Revoke,
       Deliver, Close, Verify, Disable, Send, Record, Crash, Select, CatchUp, Claim, Comes,
       Lapse, Age, WindowEnds, Register, Unregister, RevokeSessions, RemoveMember, events
  <2> QED
    BY <1>1, <2>2, <2>3, <2>4
<1>2. ended \subseteq ended'
  BY DEF Next, Dispatch, Push, Environment, Assess, Cancel, Notify, Plan, Revoke,
       Deliver, Close, Verify, Disable, Send, Record, Crash, Select, CatchUp, Claim, Comes,
       Happen, Lapse, Age, WindowEnds, Register, Unregister, RevokeSessions, RemoveMember, events
<1> QED
  BY <1>1, <1>2 DEF Past

LEMMA HistoryStep ==
  ASSUME Typed, Typed', History, Next
  PROVE  History'
<1>1. ASSUME NEW x \in Pair
      PROVE  Dated(x)'
  <2>1. Dated(x) /\ Past \subseteq Past' /\ ended \subseteq Past
    BY PastGrows DEF History, Past
  <2>2. CASE delivery'[x] = delivery[x]
    BY <2>1, <2>2 DEF Dated, Exists
  <2>3. CASE delivery'[x] # delivery[x]
    <3>1. DeliveryStep(x)
      BY <2>3, DeliverySteps, DeliveryChange
    <3>2. ASSUME NEW w \in Worker, Claim(w, x)
          PROVE  x[1] \in Past
      BY <2>1, <3>2 DEF Claim, Claimable, Dated
    <3>3. ASSUME Comes(x)
          PROVE  x[1] \in Past
      BY <2>1, <3>3, PushConstants DEF Comes, Dated
    <3>4. ASSUME NEW w \in Worker, pc[w] \in Sending, Held(w) = x
          PROVE  x[1] \in Past
      BY <3>4 DEF History, Held
    <3>5. ASSUME NEW w \in Worker, NEW j \in Job, NEW d \in Device, NEW u \in User,
                 pc[w] = "deliver", task[w].target = j, x = <<GroupOf[j], d>>,
                 delivery' = Upsert(GroupOf[j], d, u)
          PROVE  Dated(x)'
      <4>1. job[j] # Absent /\ j \in Past
        BY <3>5 DEF History, Dispatching, Past
      <4>2. x[1] = GroupOf[j] /\ GroupOf[j] \in {j} \cup Group
        BY <3>5, PushConstants
      <4>3. delivery'[x] = [user |-> u, status |-> "pending",
                            come |-> GroupOf[j] \in Job \cup ended, attempts |-> 0]
        BY <2>3, <3>5 DEF Upsert, Typed
      <4>4. /\ delivery'[x].status = "pending"
            /\ delivery'[x].come = (GroupOf[j] \in Job \cup ended)
        BY <4>3
      <4> QED
        BY <2>1, <4>1, <4>2, <4>4, PushConstants DEF Dated
    <3> QED
      BY <2>1, <2>3, <3>1, <3>2, <3>3, <3>4, <3>5 DEF DeliveryStep, Dated
  <2> QED
    BY <2>2, <2>3
<1>2. ASSUME NEW v \in Worker
      PROVE  /\ pc'[v] \in Dispatching => job'[task'[v].target] # Absent
             /\ pc'[v] \in Sending => task'[v].target \in Past'
  <2>1. WorkerStep(v)
    BY WorkerSteps
  <2>2. /\ pc[v] \in Dispatching => task[v].target \in Job /\ job[task[v].target] # Absent
        /\ pc[v] \in Sending => task[v].target \in Past
    BY DEF History, Typed, WorkOK
  <2>3. /\ Past \subseteq Past'
        /\ \A j \in Job : job[j] # Absent => job'[j] # Absent
    BY PastGrows
  <2>4. ASSUME NEW x \in Pair, Claim(v, x)
        PROVE  x[1] \in Past
    BY <2>4 DEF Claim, Claimable, History, Dated
  <2> QED
    BY <2>1, <2>2, <2>3, <2>4 DEF WorkerStep, Dispatching, Sending
<1> QED
  BY <1>1, <1>2 DEF History

LEMMA AlwaysHistory == Spec => []History
<1>1. Init => History
  BY DEF Init, History, Dated, Exists, Dispatching, Sending
<1>2. History /\ UNCHANGED vars => History'
  BY DEF History, Dated, Exists, Past, vars, events, people
<1>3. Typed /\ Typed' /\ History /\ [Next]_vars => History'
  BY <1>2, HistoryStep
<1> QED
  BY AlwaysTyped, <1>1, <1>3, PTL DEF Spec

\* A device is not entitled again to what has happened.
LEMMA HoldsLost ==
  ASSUME Typed, Next, NEW t \in Past, t \notin Reminder, NEW d \in Device,
         Holds(t, d)'
  PROVE  Holds(t, d) /\ device'[d].user = device[d].user
<1>1. members' \subseteq members
  BY DEF Next, Dispatch, Push, Environment, Assess, Cancel, Notify, Plan, Revoke,
       Deliver, Close, Verify, Disable, Send, Record, Crash, Select, CatchUp, Claim, Comes,
       Happen, Lapse, Age, WindowEnds, Register, Unregister, RevokeSessions, RemoveMember,
       people
<1>2. CASE device'[d] = device[d]
  BY <1>1, <1>2 DEF Holds, Known
<1>3. ASSUME NEW ds, device' = Disabled(ds)
      PROVE  Holds(t, d) /\ device'[d].user = device[d].user
  BY <1>1, <1>3 DEF Holds, Known, Disabled, Typed, DeviceDoc
<1>4. ASSUME NEW e \in Device, NEW u \in User, Register(e, u), device'[d] # device[d]
      PROVE  Holds(t, d) /\ device'[d].user = device[d].user
  <2> DEFINE same == Known(d) /\ device[d].active /\ device[d].user = u
             older == IF same THEN device[d].older ELSE Past
  <2>1. device'[d] = Registered(u, session[u], older)
    BY <1>4 DEF Register, Typed
  <2>2. device'[d].user = u /\ device'[d].older = older
    BY <2>1 DEF Registered
  <2>3. t \notin older
    BY <2>2 DEF Holds
  <2>4. same /\ t \notin device[d].older
    BY <2>3
  <2> QED
    BY <1>1, <2>2, <2>4 DEF Holds
<1>5. ASSUME NEW e \in Device, Unregister(e), device'[d] # device[d]
      PROVE  FALSE
  BY <1>5 DEF Unregister, Typed, Holds, Known
<1>6. \/ UNCHANGED device
      \/ \E ds : device' = Disabled(ds)
      \/ \E e \in Device, u \in User : Register(e, u)
      \/ \E e \in Device : Unregister(e)
  BY Zenon DEF Next, Dispatch, Push, Environment, Assess, Cancel, Notify, Plan, Revoke,
       Deliver, Close, Verify, Disable, Send, Record, Crash, Select, CatchUp, Claim, Comes,
       Happen, Lapse, Age, WindowEnds, RevokeSessions, RemoveMember, people
<1> QED
  BY <1>2, <1>3, <1>4, <1>5, <1>6

\* A delivery that is not justified any more is not justified again.
LEMMA JustifiedLost ==
  ASSUME Typed, Next, NEW x \in Pair, Exists(x), x[1] \in Past \ Reminder, Justified(x)'
  PROVE  Justified(x)
<1>1. x[1] \in Target /\ x[2] \in Device
  BY DEF Pair
<1>2. Holds(x[1], x[2]) /\ device'[x[2]].user = device[x[2]].user
  BY <1>1, HoldsLost DEF Justified
<1>3. delivery'[x].user = delivery[x].user
  BY DeliverySteps, DeliveryChange
<1>4. relevant' \subseteq relevant /\ aged \subseteq aged'
  BY DEF Next, Dispatch, Push, Environment, Assess, Cancel, Notify, Plan, Revoke,
       Deliver, Close, Verify, Disable, Send, Record, Crash, Select, CatchUp, Claim, Comes,
       Happen, Lapse, Age, WindowEnds, Register, Unregister, RevokeSessions, RemoveMember,
       events
<1> QED
  BY <1>2, <1>3, <1>4 DEF Justified, Irrelevant

\* What was claimed without being justified is not justified, and is not sent.
Rightful ==
  \A w \in Worker :
    pc[w] \in Sending /\ task[w].target \notin Reminder /\ ~ task[w].right =>
      ~ Justified(Held(w)) /\ pc[w] # "send"

LEMMA RightfulStep ==
  ASSUME Typed, Typed', History, Rightful, Next
  PROVE  Rightful'
<1> SUFFICES ASSUME NEW v \in Worker,
                    pc'[v] \in Sending, task'[v].target \notin Reminder, ~ task'[v].right
             PROVE  ~ Justified(Held(v))' /\ pc'[v] # "send"
  BY DEF Rightful
<1>1. WorkerStep(v)
  BY WorkerSteps
<1>2. ASSUME pc[v] \in Sending, task'[v] = task[v]
      PROVE  ~ Justified(Held(v))' /\ ~ Justified(Held(v)) /\ pc[v] # "send"
  <2>1. ~ Justified(Held(v)) /\ pc[v] # "send" /\ Exists(Held(v)) /\ Held(v) \in Pair
    BY <1>2, HasWork DEF Rightful, Typed, WorkOK, Sending
  <2>2. Held(v)' = Held(v) /\ Held(v)[1] = task[v].target /\ task[v].target \in Past
    BY <1>2 DEF Held, History
  <2>3. ASSUME NEW x \in Pair, x = Held(v)
        PROVE  ~ Justified(x)'
    BY <1>2, <2>1, <2>2, <2>3, JustifiedLost
  <2>4. ~ Justified(Held(v))'
    BY <2>1, <2>2, <2>3 DEF Justified
  <2> QED
    BY <2>1, <2>4
<1>3. ASSUME NEW x \in Pair, Claim(v, x), pc'[v] = "verify",
             task'[v].target = x[1], task'[v].device = x[2], task'[v].right = Justified(x)
      PROVE  ~ Justified(Held(v))'
  <2>1. ~ Justified(x) /\ Exists(x) /\ x[1] \in Past \ Reminder
    BY <1>3 DEF Claim, Claimable, History, Dated
  <2>2. ~ Justified(x)'
    BY <2>1, JustifiedLost
  <2>3. Held(v)' = x
    BY <1>3 DEF Held, Pair
  <2> QED
    BY <2>2, <2>3 DEF Justified
<1> QED
  BY <1>1, <1>2, <1>3 DEF WorkerStep, Dispatching, Sending

\* Nothing is sent, in a first attempt or in a retry, that was not justified
\* when it was claimed.
THEOREM NothingUnjustified == Spec => NothingAfterRevocation
<1>1. Init => Rightful
  BY DEF Init, Rightful, Sending
<1>2. Rightful /\ UNCHANGED vars => Rightful'
  BY DEF Rightful, Justified, Irrelevant, Holds, Known, Held, vars, events, people
<1>3. Typed /\ Typed' /\ History /\ Rightful /\ [Next]_vars => Rightful'
  BY <1>2, RightfulStep
<1>4. Rightful =>
        \A w \in Worker : pc[w] = "send" => task[w].right \/ task[w].target \in Reminder
  BY DEF Rightful, Sending
<1>5. Rightful /\ [Next]_vars =>
        [\A w \in Worker :
           pc[w] = "send" /\ pc'[w] # "send" /\ shown'[Held(w)] # shown[Held(w)] =>
             task[w].right \/ task[w].target \in Reminder]_vars
  BY <1>4
<1> QED
  BY AlwaysTyped, AlwaysHistory, <1>1, <1>3, <1>5, PTL DEF Spec, NothingAfterRevocation

----------------------------------------------------------------------------
(* Nobody is forgotten *)

Announcing == {"plan", "revoke", "deliver", "close"}

\* The members of the audience have the notification of j, but for todo.
Notified(j, todo) ==
  \A u \in Audience[j] \cap members : <<j, u>> \in center \/ u \in todo

\* The devices of job j have their delivery, but for those that are left.
Planned(j, left) ==
  j \notin aged \cup Reminder =>
    \A d \in Device : Holds(j, d) => Exists(<<GroupOf[j], d>>) \/ d \in left

Left(work) == work.revoked \cup {p[1] : p \in work.planned}

Tells(w) ==
  /\ pc[w] = "notify" => Notified(task[w].target, task[w].todo)
  /\ pc[w] \in Announcing => Notified(task[w].target, {})
  /\ pc[w] \in Announcing \ {"plan"} => Planned(task[w].target, Left(task[w]))
  /\ pc[w] \in {"deliver", "close"} => task[w].revoked = {}
  /\ pc[w] = "close" => task[w].planned = {}

Told ==
  /\ \A w \in Worker : Tells(w)
  /\ \A j \in Job : job[j] = "dispatched" => Notified(j, {}) /\ Planned(j, {})

LEMMA NotifiedKept ==
  ASSUME Next, NEW j, NEW todo, Notified(j, todo)
  PROVE  Notified(j, todo)'
<1>1. members' \subseteq members
  BY Zenon DEF Next, Dispatch, Push, Environment, Assess, Cancel, Notify, Plan, Revoke,
       Deliver, Close, Verify, Disable, Send, Record, Crash, Select, CatchUp, Claim, Comes,
       Happen, Lapse, Age, WindowEnds, Register, Unregister, RevokeSessions, RemoveMember,
       people
<1>2. center \subseteq center'
  BY DEF Next, Dispatch, Push, Environment, Assess, Cancel, Notify, Plan, Revoke,
       Deliver, Close, Verify, Disable, Send, Record, Crash, Select, CatchUp, Claim, Comes,
       Happen, Lapse, Age, WindowEnds, Register, Unregister, RevokeSessions, RemoveMember,
       Still
<1> QED
  BY <1>1, <1>2 DEF Notified

\* No step deletes a delivery.
LEMMA NextKeeps ==
  ASSUME Typed, Typed', Next
  PROVE  DeliveriesKept
<1> SUFFICES ASSUME NEW x \in Pair, Exists(x) PROVE Exists(x)'
  BY DEF DeliveriesKept
<1> QED
  BY DeliverySteps, DeliveryChange DEF Exists

LEMMA PlannedKept ==
  ASSUME Typed, Typed', Next, NEW j \in Job, job[j] # Absent, NEW left, Planned(j, left)
  PROVE  Planned(j, left)'
<1>1. aged \subseteq aged'
  BY DEF Next, Dispatch, Push, Environment, Assess, Cancel, Notify, Plan, Revoke,
       Deliver, Close, Verify, Disable, Send, Record, Crash, Select, CatchUp, Claim, Comes,
       Happen, Lapse, Age, WindowEnds, Register, Unregister, RevokeSessions, RemoveMember,
       events
<1>2. ASSUME NEW d \in Device, j \notin aged' \cup Reminder, Holds(j, d)'
      PROVE  Exists(<<GroupOf[j], d>>)' \/ d \in left
  <2>1. Holds(j, d)
    BY <1>2, HoldsLost DEF Past
  <2>2. Exists(<<GroupOf[j], d>>) \/ d \in left
    BY <1>1, <1>2, <2>1 DEF Planned
  <2>3. <<GroupOf[j], d>> \in Pair
    BY PushConstants DEF Pair
  <2> QED
    BY <2>2, <2>3, NextKeeps DEF DeliveriesKept
<1> QED
  BY <1>2 DEF Planned

\* A worker comes to a stage that announces only by dispatching.
LEMMA Movers ==
  ASSUME Typed, Next, NEW v \in Worker
  PROVE  \/ pc'[v] = pc[v] /\ task'[v] = task[v]
         \/ Dispatch(v)
         \/ pc'[v] \in {"idle", "assess"} \cup Sending
<1>1. ASSUME NEW w \in Worker, NEW stage, NEW work, Go(w, stage, work), v # w
      PROVE  pc'[v] = pc[v] /\ task'[v] = task[v]
  BY <1>1 DEF Go, Typed
<1>2. ASSUME NEW w \in Worker, Dispatch(w), v # w
      PROVE  \E stage, work : Go(w, stage, work)
  BY <1>2 DEF Dispatch, Assess, Cancel, Notify, Plan, Revoke, Deliver, Close,
     Spread, GoNotify, GoDeliver, Finish
<1>3. CASE ~ Dispatch(v)
  <2>1. CASE pc[v] \in Dispatching /\ pc'[v] \in Dispatching
    <3>1. ASSUME NEW w \in Worker, Push(w) \/ Crash(w)
          PROVE  (pc'[v] = pc[v] /\ task'[v] = task[v]) \/ pc'[v] = "idle"
      <4>1. CASE v # w
        <5>1. \E stage, work : Go(w, stage, work)
          BY <3>1 DEF Push, Verify, Disable, Send, Record, Finish, Crash
        <5> QED
          BY <5>1, <4>1, <1>1
      <4>2. CASE v = w
        BY <2>1, <3>1, <4>2
           DEF Push, Verify, Disable, Send, Record, Crash, Finish, Go, Dispatching, Typed
      <4> QED
        BY <4>1, <4>2
    <3>2. ASSUME NEW w \in Worker,
                 \/ \E j \in Job : Select(w, j) \/ CatchUp(w, j)
                 \/ \E x \in Pair : Claim(w, x)
          PROVE  pc'[v] = pc[v] /\ task'[v] = task[v]
      <4>1. pc[w] = "idle" /\ w # v
        BY <2>1, <3>2 DEF Select, CatchUp, Claim, Dispatching
      <4> QED
        BY <3>2, <4>1, <1>1 DEF Select, CatchUp, Claim
    <3>3. Environment \/ (\E x \in Pair : Comes(x)) => UNCHANGED <<pc, task>>
      BY DEF Environment, Happen, Lapse, Age, WindowEnds, Register, Unregister,
         RevokeSessions, RemoveMember, Still, Comes
    <3> QED
      BY <1>1, <1>2, <1>3, <3>1, <3>2, <3>3 DEF Next
  <2>2. CASE ~ (pc[v] \in Dispatching /\ pc'[v] \in Dispatching)
    BY <2>2, WorkerSteps DEF WorkerStep, Sending
  <2> QED
    BY <2>1, <2>2
<1> QED
  BY <1>3

\* What is told is still told when the worker does not move.
LEMMA TellsKept ==
  ASSUME Typed, Typed', History, Next, NEW v \in Worker, Tells(v),
         pc'[v] = pc[v], task'[v] = task[v]
  PROVE  Tells(v)'
<1> DEFINE j == task[v].target
<1>1. CASE pc[v] \in {"notify"} \cup Announcing
  <2>1. j \in Job /\ job[j] # Absent
    BY <1>1, HasWork DEF Announcing, Dispatching, History
  <2>2. \A todo : Notified(j, todo) => Notified(j, todo)'
    BY NotifiedKept
  <2>3. \A left : Planned(j, left) => Planned(j, left)'
    BY <2>1, PlannedKept
  <2> QED
    BY <2>2, <2>3 DEF Tells, Notified, Planned, Left, Announcing
<1>2. CASE pc[v] \notin {"notify"} \cup Announcing
  BY <1>2 DEF Tells, Announcing
<1> QED
  BY <1>1, <1>2

\* A worker that goes on to deliver tells what it has found.
LEMMA GoDeliverTells ==
  ASSUME Typed, Typed', Next, NEW v \in Worker, NEW j \in Job, job[j] # Absent,
         NEW revoked \in SUBSET Device, NEW planned \in SUBSET (Device \X User),
         GoDeliver(v, j, revoked, planned), Notified(j, {}),
         Planned(j, revoked \cup {p[1] : p \in planned})'
  PROVE  Tells(v)'
<1> DEFINE work == [On(j) EXCEPT !.revoked = revoked, !.planned = planned]
<1>1. work.target = j /\ work.revoked = revoked /\ work.planned = planned
  BY DEF On
<1>2. /\ pc'[v] = IF revoked # {} THEN "revoke" ELSE IF planned # {} THEN "deliver" ELSE "close"
      /\ task'[v] = work
  BY DEF GoDeliver, Go, Typed
<1>3. Notified(j, {})'
  BY NotifiedKept
<1> HIDE DEF work
<1>4. task'[v].target = j /\ Left(task[v])' = revoked \cup {p[1] : p \in planned}
  BY <1>1, <1>2 DEF Left
<1>5. Notified(task[v].target, {})'
  BY <1>3, <1>4 DEF Notified
<1>6. Planned(task[v].target, Left(task[v]))'
  BY <1>4 DEF Planned
<1> QED
  BY <1>1, <1>2, <1>5, <1>6 DEF Tells

\* The same when it goes on to notify.
LEMMA GoNotifyTells ==
  ASSUME Typed, Typed', Next, NEW v \in Worker, NEW j \in Job, NEW todo,
         GoNotify(v, j, todo), Notified(j, todo)'
  PROVE  Tells(v)'
<1> DEFINE work == [On(j) EXCEPT !.todo = todo]
<1>1. work.target = j /\ work.todo = todo
  BY DEF On
<1>2. pc'[v] = (IF todo = {} THEN "plan" ELSE "notify") /\ task'[v] = work
  BY DEF GoNotify, Go, Typed
<1> HIDE DEF work
<1>3. Notified(task[v].target, task[v].todo)'
  BY <1>1, <1>2 DEF Notified
<1>4. todo = {} => Notified(task[v].target, {})'
  BY <1>1, <1>2 DEF Notified
<1> QED
  BY <1>2, <1>3, <1>4 DEF Tells, Announcing

LEMMA DispatchTells ==
  ASSUME Typed, Typed', History, Next, NEW v \in Worker, Tells(v), Dispatch(v)
  PROVE  Tells(v)'
<1>1. PICK j \in Job : j = task[v].target /\ job[j] # Absent
  <2>1. pc[v] \in Dispatching
    BY DEF Dispatch, Assess, Cancel, Notify, Plan, Revoke, Deliver, Close, Dispatching
  <2> QED
    BY <2>1, HasWork DEF History, Dispatching
<1>2. task[v] \in Work
  <2>1. pc[v] # "idle"
    BY DEF Dispatch, Assess, Cancel, Notify, Plan, Revoke, Deliver, Close
  <2> QED
    BY <2>1, HasWork
<1>3. CASE pc'[v] \in {"idle", "cancel"}
  BY <1>3 DEF Tells, Announcing
<1>4. CASE Assess(v) /\ ~ Irrelevant(j)
  <2>1. PICK todo : todo = Audience[j] \cap members
    OBVIOUS
  <2>2. GoNotify(v, j, todo) /\ members' = members
    BY <1>1, <1>4, <2>1 DEF Assess, people
  <2>3. Notified(j, todo)'
    BY <2>1, <2>2 DEF Notified
  <2> QED
    BY <1>1, <2>2, <2>3, GoNotifyTells
<1>5. CASE Notify(v)
  <2>1. PICK u \in task[v].todo : /\ center' = center \cup {<<j, u>>}
                                 /\ GoNotify(v, j, task[v].todo \ {u})
    BY <1>1, <1>5 DEF Notify
  <2>2. Notified(j, task[v].todo) /\ members' = members
    BY <1>1, <1>5 DEF Tells, Notify, people
  <2>3. PICK todo : todo = task[v].todo \ {u}
    OBVIOUS
  <2>4. Notified(j, todo)'
    BY <2>1, <2>2, <2>3 DEF Notified
  <2> QED
    BY <1>1, <2>1, <2>3, <2>4, GoNotifyTells
<1>6. CASE Plan(v) /\ j \in aged
  <2>1. Notified(j, {})
    BY <1>1, <1>6 DEF Tells, Plan, Announcing
  <2>2. Go(v, "close", On(j)) /\ aged' = aged
    BY <1>1, <1>6 DEF Plan, events
  <2>3. pc'[v] = "close" /\ task'[v] = On(j)
    BY <2>2 DEF Go, Typed
  <2>4. task'[v].target = j /\ task'[v].revoked = {} /\ task'[v].planned = {}
    BY <2>3 DEF On
  <2>5. Notified(j, {})'
    BY <2>1, NotifiedKept
  <2>6. Notified(task[v].target, {})' /\ Planned(task[v].target, Left(task[v]))'
    BY <1>6, <2>2, <2>4, <2>5 DEF Notified, Planned
  <2> QED
    BY <2>3, <2>4, <2>6 DEF Tells
<1>7. CASE Plan(v) /\ j \notin aged
  <2>1. Notified(j, {})
    BY <1>1, <1>7 DEF Tells, Plan, Announcing
  <2>2. PICK reached : reached = {d \in Device : Holds(j, d)}
    OBVIOUS
  <2>3. PICK revoked : revoked = {d \in reached : SessionRevoked(d)}
    OBVIOUS
  <2>4. PICK planned : planned = {<<d, device[d].user>> : d \in reached \ revoked}
    OBVIOUS
  <2>5. GoDeliver(v, j, revoked, planned)
    BY <1>1, <1>7, <2>2, <2>3, <2>4, Zenon DEF Plan, Spread
  <2>6. revoked \in SUBSET Device /\ planned \in SUBSET (Device \X User)
    <3>1. \A d \in Device : Holds(j, d) => device[d].user \in User
      BY DEF Typed, Holds
    <3> QED
      BY <3>1, <2>2, <2>3, <2>4
  <2>7. PICK left : left = revoked \cup {p[1] : p \in planned}
    OBVIOUS
  <2>8. Planned(j, left)
    <3>1. \A d \in reached \ revoked : <<d, device[d].user>>[1] = d
      OBVIOUS
    <3>2. reached \subseteq left
      BY <2>4, <2>7, <3>1
    <3> QED
      BY <2>2, <3>2 DEF Planned
  <2>9. Planned(j, left)'
    BY <1>1, <2>8, PlannedKept
  <2> QED
    BY <1>1, <2>1, <2>5, <2>6, <2>7, <2>9, GoDeliverTells
<1>8. CASE Revoke(v)
  <2>1. PICK planned : planned = task[v].planned
    OBVIOUS
  <2>2. PICK revoked : revoked = task[v].revoked
    OBVIOUS
  <2>3. /\ Notified(j, {}) /\ Planned(j, revoked \cup {p[1] : p \in planned})
        /\ device' = Disabled(revoked) /\ GoDeliver(v, j, {}, planned)
        /\ planned \in SUBSET (Device \X User)
    BY <1>1, <1>2, <1>8, <2>1, <2>2 DEF Tells, Revoke, Announcing, Left, Work
  <2>4. PICK both : both = revoked \cup {p[1] : p \in planned}
    OBVIOUS
  <2>5. PICK left : left = {} \cup {p[1] : p \in planned}
    OBVIOUS
  <2>6. Planned(j, both)'
    BY <1>1, <2>3, <2>4, PlannedKept
  <2>7. \A d \in Device : d \in revoked => ~ Holds(j, d)'
    BY <2>3 DEF Holds, Known, Disabled, Typed, DeviceDoc
  <2>8. Planned(j, left)'
    BY <2>4, <2>5, <2>6, <2>7 DEF Planned
  <2> QED
    BY <1>1, <2>3, <2>5, <2>8, GoDeliverTells
<1>9. CASE Deliver(v)
  <2>1. PICK p \in task[v].planned : /\ delivery' = Upsert(GroupOf[j], p[1], p[2])
                                    /\ GoDeliver(v, j, {}, task[v].planned \ {p})
    BY <1>1, <1>9 DEF Deliver
  <2>2. PICK planned : planned = task[v].planned
    OBVIOUS
  <2>3. /\ Notified(j, {}) /\ planned \in SUBSET (Device \X User)
        /\ Planned(j, {} \cup {q[1] : q \in planned})
    BY <1>1, <1>2, <1>9, <2>2 DEF Tells, Deliver, Announcing, Left, Work
  <2>4. PICK both : both = {} \cup {q[1] : q \in planned}
    OBVIOUS
  <2>5. PICK left : left = {} \cup {q[1] : q \in planned \ {p}}
    OBVIOUS
  <2>6. Planned(j, both)'
    BY <1>1, <2>3, <2>4, PlannedKept
  <2>7. p \in Device \X User /\ <<GroupOf[j], p[1]>> \in Pair
    <3>1. p \in Device \X User
      BY <2>1, <2>2, <2>3
    <3> QED
      BY <3>1, PushConstants DEF Pair
  <2>8. Exists(<<GroupOf[j], p[1]>>)'
    <3>1. [user |-> p[2], status |-> "pending", come |-> GroupOf[j] \in Job \cup ended,
           attempts |-> 0] # Absent
      <4>1. [user |-> p[2], status |-> "pending", come |-> GroupOf[j] \in Job \cup ended,
             attempts |-> 0] \in DeliveryDoc
        BY <2>7 DEF DeliveryDoc
      <4> QED
        BY <4>1, PushSentinels
    <3> QED
      BY <2>1, <2>7, <3>1 DEF Upsert, Exists, Typed
  <2>9. both \subseteq left \cup {p[1]}
    BY <2>4, <2>5
  <2>10. Planned(j, left)'
    BY <2>6, <2>8, <2>9 DEF Planned
  <2>11. planned \ {p} \in SUBSET (Device \X User)
    BY <2>3
  <2> QED
    BY <1>1, <2>1, <2>2, <2>3, <2>5, <2>10, <2>11, GoDeliverTells
<1>10. \/ Notify(v) \/ Revoke(v) \/ Deliver(v) \/ pc'[v] \in {"idle", "cancel"}
       \/ Assess(v) /\ ~ Irrelevant(j)
       \/ Plan(v)
  <2>1. Assess(v) /\ Irrelevant(j) => pc'[v] = "cancel"
    BY <1>1 DEF Assess, Go, Typed
  <2>2. Cancel(v) \/ Close(v) => pc'[v] = "idle"
    BY DEF Cancel, Close, Finish, Go, Typed
  <2> QED
    BY <2>1, <2>2 DEF Dispatch
<1> QED
  BY <1>3, <1>4, <1>5, <1>6, <1>7, <1>8, <1>9, <1>10

\* A job becomes dispatched only when a worker that has told everybody closes it.
LEMMA ToldStep ==
  ASSUME Typed, Typed', History, Told, Next
  PROVE  Told'
<1>1. ASSUME NEW v \in Worker
      PROVE  Tells(v)'
  <2>1. Tells(v)
    BY DEF Told
  <2>2. CASE pc'[v] = pc[v] /\ task'[v] = task[v]
    BY <2>1, <2>2, TellsKept
  <2>3. CASE Dispatch(v)
    BY <2>1, <2>3, DispatchTells
  <2>4. CASE pc'[v] \in {"idle", "assess"} \cup Sending
    BY <2>4 DEF Tells, Sending, Announcing
  <2> QED
    BY <2>2, <2>3, <2>4, Movers
<1>2. ASSUME NEW j \in Job, job'[j] = "dispatched"
      PROVE  Notified(j, {})' /\ Planned(j, {})'
  <2>1. ASSUME NEW w \in Worker, Close(w), job[j] # "dispatched"
        PROVE  Notified(j, {}) /\ Planned(j, {}) /\ job[j] # Absent
    <3>1. job' = Closed(task[w].target, "dispatched") /\ pc[w] = "close"
      BY <2>1 DEF Close
    <3>2. job[j] = "pending" /\ task[w].target = j
      BY <1>2, <2>1, <3>1 DEF Closed, Typed
    <3>3. Tells(w) /\ Left(task[w]) = {}
      BY <3>1 DEF Told, Tells, Left
    <3> QED
      BY <3>1, <3>2, <3>3, PushSentinels DEF Tells, Announcing
  <2>2. ASSUME NEW w \in Worker, Cancel(w)
        PROVE  job[j] = "dispatched"
    BY <1>2, <2>2 DEF Cancel, Closed, Typed
  <2>3. ASSUME NEW k \in Job, Happen(k)
        PROVE  job[j] = "dispatched"
    BY <1>2, <2>3 DEF Happen, Typed
  <2>4. \/ UNCHANGED job
        \/ \E w \in Worker : Cancel(w) \/ Close(w)
        \/ \E k \in Job : Happen(k)
    BY Zenon DEF Next, Dispatch, Push, Environment, Assess, Cancel, Notify, Plan, Revoke,
       Deliver, Close, Verify, Disable, Send, Record, Crash, Select, CatchUp, Claim, Comes,
       Lapse, Age, WindowEnds, Register, Unregister, RevokeSessions, RemoveMember, events
  <2>5. job[j] = "dispatched" => Notified(j, {}) /\ Planned(j, {}) /\ job[j] # Absent
    BY PushSentinels DEF Told
  <2>6. Notified(j, {}) /\ Planned(j, {}) /\ job[j] # Absent
    BY <1>2, <2>1, <2>2, <2>3, <2>4, <2>5
  <2> QED
    BY <2>6, NotifiedKept, PlannedKept
<1> QED
  BY <1>1, <1>2 DEF Told

\* A dispatched job is in the center of all it is for and has its deliveries,
\* whatever workers planned it, died or were slow.
THEOREM NobodyIsForgotten == Spec => []NobodyForgotten
<1>1. Init => Told
  BY PushSentinels DEF Init, Told, Tells, Announcing
<1>2. Told /\ UNCHANGED vars => Told'
  BY DEF Told, Tells, Notified, Planned, Left, Holds, Known, Exists, vars, events, people
<1>3. Typed /\ Typed' /\ History /\ Told /\ [Next]_vars => Told'
  BY <1>2, ToldStep
<1>4. Told => NobodyForgotten
  BY DEF Told, NobodyForgotten, Notified, Planned
<1> QED
  BY AlwaysTyped, AlwaysHistory, <1>1, <1>3, <1>4, PTL DEF Spec

----------------------------------------------------------------------------
(* Shown once, and once more for each fault *)

\* Workers that may still show x, or set it free to be claimed.
Pushers(x) == {w \in Worker : Holding(w, x) /\ pc[w] \in {"verify", "send", "later"}}

\* x may be claimed without any further fault.
Chance(x) ==
  \/ ~ Exists(x)
  \/ delivery[x].status = "pending"
  \/ delivery[x].status = "sending" /\ (delivery[x].come \/ \A w \in Worker : ~ Holding(w, x))

Budget(x) ==
  shown[x] + Cardinality(Pushers(x)) + (IF Chance(x) THEN 1 ELSE 0) <= 1 + faults

Budgeted == \A x \in Pair : Budget(x)

\* What one element more or less does to the size of a set.
LEMMA OneElement ==
  ASSUME NEW S, IsFiniteSet(S), NEW T, NEW w, T \ {w} = S \ {w}
  PROVE  /\ IsFiniteSet(T) /\ Cardinality(S) \in Nat /\ Cardinality(T) \in Nat
         /\ w \in S <=> w \in T => Cardinality(T) = Cardinality(S)
         /\ w \notin S /\ w \in T => Cardinality(T) = Cardinality(S) + 1
         /\ w \in S /\ w \notin T => Cardinality(T) = Cardinality(S) - 1
<1>1. Cardinality(S) \in Nat
  BY FS_CardinalityType
<1>2. CASE w \in S <=> w \in T
  <2>1. T = S
    BY <1>2
  <2> QED
    BY <1>1, <1>2, <2>1
<1>3. CASE w \notin S /\ w \in T
  <2>1. T = S \cup {w}
    BY <1>3
  <2> QED
    BY <1>1, <1>3, <2>1, FS_AddElement
<1>4. CASE w \in S /\ w \notin T
  <2>1. T = S \ {w}
    BY <1>4
  <2>2. IsFiniteSet(T) /\ Cardinality(T) = Cardinality(S) - 1
    BY <1>4, <2>1, FS_RemoveElement
  <2> QED
    BY <1>1, <1>4, <2>2, FS_CardinalityType
<1> QED
  BY <1>2, <1>3, <1>4

LEMMA PushersFinite ==
  ASSUME NEW x
  PROVE  IsFiniteSet(Pushers(x)) /\ IsFiniteSet(Pushers(x)')
<1>1. Pushers(x) \subseteq Worker /\ Pushers(x)' \subseteq Worker
  BY DEF Pushers
<1> QED
  BY <1>1, PushConstants, FS_Subset

\* A step of w changes nothing of what the others hold.
LEMMA OneWorker ==
  ASSUME Typed, NEW w \in Worker, NEW stage, NEW work, Go(w, stage, work), NEW x
  PROVE  /\ pc'[w] = stage /\ task'[w] = work
         /\ \A v \in Worker \ {w} : Holding(v, x)' = Holding(v, x)
         /\ Pushers(x)' \ {w} = Pushers(x) \ {w}
         /\ w \in Pushers(x)' <=> Holding(w, x)' /\ stage \in {"verify", "send", "later"}
<1>1. pc'[w] = stage /\ task'[w] = work
  BY DEF Go, Typed
<1>2. \A v \in Worker \ {w} : pc'[v] = pc[v] /\ task'[v] = task[v]
  BY DEF Go, Typed
<1>3. \A v \in Worker \ {w} : Holding(v, x)' = Holding(v, x)
  BY <1>2 DEF Holding
<1> QED
  BY <1>1, <1>2, <1>3 DEF Pushers

\* How many may still show x, after a step of w.
LEMMA PushersCount ==
  ASSUME Typed, NEW w \in Worker, NEW stage, NEW work, Go(w, stage, work), NEW x
  PROVE  LET n == Cardinality(Pushers(x))
             m == Cardinality(Pushers(x)')
         IN  /\ n \in Nat /\ m \in Nat
             /\ w \in Pushers(x) <=> w \in Pushers(x)' => m = n
             /\ w \notin Pushers(x) /\ w \in Pushers(x)' => m = n + 1
             /\ w \in Pushers(x) /\ w \notin Pushers(x)' => m = n - 1
  BY OneWorker, PushersFinite, OneElement

LEMMA ClaimBudget ==
  ASSUME Typed, Typed', Budgeted, NEW w \in Worker, NEW y \in Pair, Claim(w, y),
         NEW x \in Pair
  PROVE  Budget(x)'
<1> DEFINE work == [On(y[1]) EXCEPT !.device = y[2], !.right = Justified(y),
                                    !.attempt = delivery'[y].attempts]
<1>1. Go(w, "verify", work) /\ pc[w] = "idle" /\ UNCHANGED <<shown, faults>>
  BY DEF Claim
<1>2. work.target = y[1] /\ work.device = y[2]
  BY DEF On
<1> HIDE DEF work
<1>3. Holding(w, x)' <=> x = y
  BY <1>1, <1>2, OneWorker DEF Holding, Sending, Pair
<1>4. ~ Holding(w, x) /\ w \notin Pushers(x)
  BY <1>1 DEF Holding, Pushers, Sending
<1>5. w \in Pushers(x)' <=> x = y
  BY <1>1, <1>3, OneWorker
<1>6. Budget(x) /\ shown[x] \in Nat /\ faults \in Nat
  BY DEF Budgeted, Typed
<1>7. CASE x = y
  <2>1. Exists(x) /\ delivery' = Claimed(x)
    BY <1>7 DEF Claim, Claimable, Claimed
  <2>2. Chance(x)
    BY <1>7 DEF Claim, Claimable, Chance
  <2>3. ~ Chance(x)'
    <3>1. /\ delivery'[x] # Absent /\ delivery'[x].status = "sending"
          /\ ~ delivery'[x].come
      BY <2>1, ClaimOK, PushSentinels
    <3>2. Holding(w, x)'
      BY <1>3, <1>7
    <3> QED
      BY <3>1, <3>2 DEF Chance, Exists
  <2>4. /\ Cardinality(Pushers(x)) \in Nat
        /\ Cardinality(Pushers(x)') = Cardinality(Pushers(x)) + 1
    BY <1>1, <1>4, <1>5, <1>7, PushersCount
  <2> QED
    BY <1>1, <1>6, <2>2, <2>3, <2>4 DEF Budget
<1>8. CASE x # y
  <2>1. delivery'[x] = delivery[x]
    BY <1>8, ClaimOK DEF Claim, Claimable, Claimed
  <2>2. \A v \in Worker : Holding(v, x)' <=> Holding(v, x)
    BY <1>1, <1>3, <1>4, <1>8, OneWorker
  <2>3. Chance(x)' <=> Chance(x)
    BY <2>1, <2>2 DEF Chance, Exists
  <2>4. Cardinality(Pushers(x)') = Cardinality(Pushers(x))
    BY <1>1, <1>4, <1>5, <1>8, PushersCount
  <2> QED
    BY <1>1, <1>6, <2>3, <2>4 DEF Budget
<1> QED
  BY <1>7, <1>8

\* Workers that dispatch hold no delivery.
LEMMA DispatchBudget ==
  ASSUME Typed, Typed', Budgeted, NEW w \in Worker,
         Dispatch(w) \/ \E j \in Job : Select(w, j) \/ CatchUp(w, j),
         NEW x \in Pair
  PROVE  Budget(x)'
<1>1. pc[w] \in {"idle"} \cup Dispatching
  BY DEF Dispatch, Assess, Cancel, Notify, Plan, Revoke, Deliver, Close, Select, CatchUp,
     Dispatching
<1>2. PICK stage \in {"idle"} \cup Dispatching : \E work : Go(w, stage, work)
  BY DEF Dispatch, Assess, Cancel, Notify, Plan, Revoke, Deliver, Close, Select, CatchUp,
     Spread, GoNotify, GoDeliver, Finish, Dispatching
<1>3. PICK work : Go(w, stage, work)
  BY <1>2
<1>4. \A v \in Worker : Holding(v, x)' <=> Holding(v, x)
  <2>1. ~ Holding(w, x) /\ ~ Holding(w, x)'
    BY <1>1, <1>3, OneWorker DEF Holding, Dispatching, Sending
  <2> QED
    BY <1>3, <2>1, OneWorker
<1>5. /\ Cardinality(Pushers(x)) \in Nat
      /\ Cardinality(Pushers(x)') = Cardinality(Pushers(x))
  <2>1. w \notin Pushers(x) /\ w \notin Pushers(x)'
    BY <1>1, <1>3, OneWorker DEF Pushers, Dispatching
  <2> QED
    BY <1>3, <2>1, PushersCount
<1>6. Budget(x) /\ shown[x] \in Nat /\ faults \in Nat
  BY DEF Budgeted, Typed
<1>7. UNCHANGED <<shown, faults>>
  BY DEF Dispatch, Assess, Cancel, Notify, Plan, Revoke, Deliver, Close, Select, CatchUp
<1>8. Chance(x)' => Chance(x)
  <2>1. CASE delivery'[x] = delivery[x]
    BY <1>4, <2>1 DEF Chance, Exists
  <2>2. CASE delivery'[x] # delivery[x]
    <3>1. PICK t, d, u : delivery' = Upsert(t, d, u)
      BY <2>2 DEF Dispatch, Assess, Cancel, Notify, Plan, Revoke, Deliver, Close, Select, CatchUp
    <3>2. ~ Exists(x)
      BY <2>2, <3>1 DEF Upsert, Typed
    <3> QED
      BY <3>2 DEF Chance
  <2> QED
    BY <2>1, <2>2
<1> QED
  BY <1>5, <1>6, <1>7, <1>8 DEF Budget

\* A sending worker that goes on holds what it held.
LEMMA SendingBudget ==
  ASSUME Typed, Typed', Budgeted, NEW w \in Worker, Verify(w) \/ Disable(w) \/ Send(w),
         NEW x \in Pair
  PROVE  Budget(x)'
<1>1. pc[w] \in Sending /\ UNCHANGED delivery
  BY DEF Verify, Disable, Send, Sending
<1>2. PICK stage \in Sending : Go(w, stage, task[w])
  BY DEF Verify, Disable, Send, Sending
<1>3. Holding(w, x)' <=> Holding(w, x)
  BY <1>1, <1>2, OneWorker DEF Holding
<1>4. Chance(x)' <=> Chance(x)
  BY <1>1, <1>2, <1>3, OneWorker DEF Chance, Exists
<1>5. Budget(x) /\ shown[x] \in Nat /\ faults \in Nat
  BY DEF Budgeted, Typed
<1>6. /\ w \in Pushers(x) <=> Holding(w, x) /\ pc[w] \in {"verify", "send", "later"}
      /\ w \in Pushers(x)' <=> Holding(w, x) /\ stage \in {"verify", "send", "later"}
  BY <1>2, <1>3, OneWorker DEF Pushers
<1>7. /\ Cardinality(Pushers(x)) \in Nat /\ Cardinality(Pushers(x)') \in Nat
      /\ w \in Pushers(x) <=> w \in Pushers(x)' =>
           Cardinality(Pushers(x)') = Cardinality(Pushers(x))
      /\ w \in Pushers(x) /\ w \notin Pushers(x)' =>
           Cardinality(Pushers(x)') = Cardinality(Pushers(x)) - 1
  BY <1>2, PushersCount
<1>8. CASE ~ Send(w)
  <2>1. UNCHANGED <<shown, faults>>
    BY <1>8 DEF Verify, Disable
  <2>2. w \in Pushers(x)' => w \in Pushers(x)
    <3>1. pc'[w] = stage
      BY <1>2, OneWorker
    <3>2. pc'[w] \in {"verify", "send", "later"} => pc[w] \in {"verify", "send", "later"}
      BY <1>8 DEF Verify, Disable, Go, Typed
    <3> QED
      BY <1>6, <3>1, <3>2
  <2> QED
    BY <1>4, <1>5, <1>7, <2>1, <2>2 DEF Budget
<1>9. CASE Send(w)
  <2>1. /\ pc[w] = "send" /\ pc'[w] = stage
    BY <1>2, <1>9, OneWorker DEF Send
  <2>2. CASE ~ Holding(w, x)
    <3>1. Held(w) # x
      BY <1>1, <2>2 DEF Holding, Held
    <3>2. shown'[x] = shown[x] /\ faults' >= faults /\ faults' \in Nat
      BY <1>5, <1>9, <3>1 DEF Send, Typed
    <3> QED
      BY <1>4, <1>5, <1>6, <1>7, <2>2, <3>2 DEF Budget
  <2>3. CASE Holding(w, x)
    <3>1. Held(w) = x
      BY <2>3 DEF Holding, Held
    <3>2. \/ stage = "sent" /\ shown'[x] = shown[x] + 1 /\ faults' = faults
          \/ stage \in {"gone", "later", "fail"} /\ shown'[x] = shown[x] /\ faults' = faults
          \/ stage = "later" /\ shown'[x] = shown[x] + 1 /\ faults' = faults + 1
      BY <1>9, <2>1, <3>1 DEF Send, Go, Typed
    <3>3. stage = "later" =>
            Cardinality(Pushers(x)') = Cardinality(Pushers(x))
      BY <1>6, <1>7, <2>1, <2>3
    <3>4. stage # "later" /\ stage \in {"sent", "gone", "fail"} =>
            Cardinality(Pushers(x)') = Cardinality(Pushers(x)) - 1
      BY <1>6, <1>7, <2>1, <2>3
    <3> QED
      BY <1>4, <1>5, <1>7, <3>2, <3>3, <3>4 DEF Budget
  <2> QED
    BY <2>2, <2>3
<1> QED
  BY <1>8, <1>9

\* A worker that records lets go; one that crashes too, for a fault.
LEMMA RecordBudget ==
  ASSUME Typed, Typed', Budgeted, NEW w \in Worker, Record(w) \/ Crash(w), NEW x \in Pair
  PROVE  Budget(x)'
<1>1. Go(w, "idle", Absent)
  BY DEF Record, Crash, Finish
<1>2. ~ Holding(w, x)' /\ w \notin Pushers(x)'
  BY <1>1, OneWorker DEF Holding, Sending
<1>3. /\ Cardinality(Pushers(x)) \in Nat /\ Cardinality(Pushers(x)') \in Nat
      /\ w \in Pushers(x) => Cardinality(Pushers(x)') = Cardinality(Pushers(x)) - 1
      /\ w \notin Pushers(x) => Cardinality(Pushers(x)') = Cardinality(Pushers(x))
  BY <1>1, <1>2, PushersCount
<1>4. Budget(x) /\ shown[x] \in Nat /\ faults \in Nat
  BY DEF Budgeted, Typed
<1>5. CASE Crash(w)
  BY <1>3, <1>4, <1>5 DEF Budget, Crash
<1>6. CASE Record(w)
  <2>1. UNCHANGED <<shown, faults>> /\ pc[w] \in Sending
    BY <1>6 DEF Record, Sending
  <2>2. CASE w \in Pushers(x)
    BY <1>3, <1>4, <2>1, <2>2 DEF Budget
  <2>3. CASE Holding(w, x) /\ w \notin Pushers(x)
    <3>1. Held(w) = x /\ pc[w] # "later"
      BY <2>3 DEF Pushers, Holding, Held
    <3>2. PICK status \in Final : delivery' = Ended(x, status)
      BY <1>6, <3>1 DEF Record, Final
    <3>3. Chance(x)' => Chance(x)
      <4>1. CASE delivery[x].status = "sending"
        <5>1. delivery[x] \in DeliveryDoc /\ delivery'[x].status = status
          BY <2>1, <3>1, <3>2, <4>1, HasWork DEF Ended, Typed, Sending, DeliveryDoc
        <5>2. Exists(x)'
          BY <3>2, <5>1, EndedOK, PushSentinels DEF DeliveriesKept, Exists
        <5> QED
          BY <5>1, <5>2 DEF Chance, Final
      <4>2. CASE delivery[x].status # "sending"
        BY <3>2, <4>2 DEF Ended, Chance, Exists
      <4> QED
        BY <4>1, <4>2
    <3> QED
      BY <1>3, <1>4, <2>1, <2>3, <3>3 DEF Budget
  <2>4. CASE ~ Holding(w, x)
    <3>1. Held(w) # x
      BY <2>1, <2>4 DEF Holding, Held
    <3>2. delivery'[x] = delivery[x]
      BY <1>6, <3>1 DEF Record, Ended, Typed
    <3>3. Chance(x)' <=> Chance(x)
      BY <1>1, <1>2, <2>4, <3>2, OneWorker DEF Chance, Exists
    <3>4. w \notin Pushers(x)
      BY <2>4 DEF Pushers
    <3> QED
      BY <1>3, <1>4, <2>1, <3>3, <3>4 DEF Budget
  <2> QED
    BY <2>2, <2>3, <2>4 DEF Pushers
<1> QED
  BY <1>5, <1>6

LEMMA ComesBudget ==
  ASSUME Typed, Typed', Budgeted, NEW y \in Pair, Comes(y), NEW x \in Pair
  PROVE  Budget(x)'
<1>1. UNCHANGED <<shown, pc, task>> /\ faults' \in Nat /\ faults' >= faults
  BY DEF Comes, Typed
<1>2. Pushers(x)' = Pushers(x) /\ \A w \in Worker : Holding(w, x)' <=> Holding(w, x)
  BY <1>1 DEF Pushers, Holding
<1>3. Budget(x) /\ shown[x] \in Nat /\ faults \in Nat
  BY DEF Budgeted, Typed
<1>4. Cardinality(Pushers(x)) \in Nat
  BY PushersFinite, FS_CardinalityType
<1>5. CASE x # y
  <2>1. Chance(x)' <=> Chance(x)
    BY <1>2, <1>5, ComesOK DEF Chance, Exists
  <2> QED
    BY <1>1, <1>2, <1>3, <1>4, <2>1 DEF Budget
<1>6. CASE x = y
  <2>1. CASE Chance(x)
    BY <1>1, <1>2, <1>3, <1>4, <2>1 DEF Budget
  <2>2. CASE ~ Chance(x)
    <3>1. faults' = faults + 1
      BY <1>6, <2>2 DEF Chance, Comes
    <3> QED
      BY <1>1, <1>2, <1>3, <1>4, <3>1 DEF Budget
  <2> QED
    BY <2>1, <2>2
<1> QED
  BY <1>5, <1>6

\* A browser receives a notification once, and once more at most for each fault,
\* whatever the number of processes and attempts.
THEOREM NotificationsShownOnce == Spec => []ShownOnce
<1>1. Init => Budgeted
  <2> SUFFICES ASSUME Init, NEW x \in Pair PROVE Budget(x)
    BY DEF Budgeted
  <2>1. Pushers(x) = {}
    BY DEF Init, Pushers, Holding, Sending
  <2> QED
    BY <2>1, FS_EmptySet DEF Init, Budget
<1>2. Budgeted /\ UNCHANGED <<delivery, shown, faults, pc, task>> => Budgeted'
  BY DEF Budgeted, Budget, Pushers, Chance, Exists, Holding
<1>3. Environment => UNCHANGED <<delivery, shown, faults, pc, task>>
  BY DEF Environment, Happen, Lapse, Age, WindowEnds, Register, Unregister,
     RevokeSessions, RemoveMember, Still
<1>4. Typed /\ Typed' /\ Budgeted /\ [Next]_vars => Budgeted'
  <2> SUFFICES ASSUME Typed, Typed', Budgeted, Next, NEW x \in Pair,
                      ~ Environment
               PROVE  Budget(x)'
    BY <1>2, <1>3 DEF Budgeted, vars
  <2> QED
    BY ClaimBudget, DispatchBudget, SendingBudget, RecordBudget, ComesBudget DEF Next, Push
<1>5. Typed /\ Budgeted => ShownOnce
  <2> SUFFICES ASSUME Typed, Budgeted, NEW x \in Pair PROVE shown[x] <= 1 + faults
    BY DEF ShownOnce
  <2>1. Cardinality(Pushers(x)) \in Nat /\ shown[x] \in Nat /\ faults \in Nat
    BY PushersFinite, FS_CardinalityType DEF Typed
  <2> QED
    BY <2>1 DEF Budgeted, Budget
<1> QED
  BY AlwaysTyped, <1>1, <1>4, <1>5, PTL DEF Spec

----------------------------------------------------------------------------
(* A pass comes to its end *)

\* How far a worker is from its end.
StagesLeft ==
  [stage \in Stages |->
     CASE stage = "assess" -> 6
       [] stage = "notify" -> 5
       [] stage \in {"plan", "verify"} -> 4
       [] stage \in {"revoke", "send", "disable"} -> 3
       [] stage \in {"deliver", "gone"} -> 2
       [] stage = "idle" -> 0
       [] OTHER -> 1]

\* A loop has one element less to do.
OneLess(w) ==
  \/ pc[w] = "notify" /\ \E u \in task[w].todo : task'[w].todo = task[w].todo \ {u}
  \/ pc[w] = "deliver" /\ \E p \in task[w].planned : task'[w].planned = task[w].planned \ {p}

Shorter(w) == StagesLeft[pc'[w]] < StagesLeft[pc[w]] \/ (pc'[w] = pc[w] /\ OneLess(w))

\* What a worker still has to do gets less with every step of its own, down to
\* idle, and no step of another worker, of a member or of time adds to it.
PassesShorten ==
  [][\A w \in Worker : pc[w] # "idle" =>
       (pc'[w] = pc[w] /\ task'[w] = task[w]) \/ Shorter(w)]_vars

LEMMA DispatchShorter ==
  ASSUME Typed, NEW w \in Worker, Dispatch(w)
  PROVE  Shorter(w)
<1> DEFINE j == task[w].target
<1>1. ASSUME NEW stage, NEW work, Go(w, stage, work)
      PROVE  pc'[w] = stage /\ task'[w] = work
  BY <1>1 DEF Go, Typed
<1>2. ASSUME NEW todo, GoNotify(w, j, todo)
      PROVE  pc'[w] \in {"plan", "notify"} /\ task'[w].todo = todo
  <2> DEFINE work == [On(j) EXCEPT !.todo = todo]
  <2>1. work.todo = todo
    BY DEF On
  <2>2. Go(w, IF todo = {} THEN "plan" ELSE "notify", work)
    BY <1>2 DEF GoNotify
  <2> HIDE DEF work
  <2> QED
    BY <2>1, <2>2, <1>1
<1>3. ASSUME NEW revoked, NEW planned, GoDeliver(w, j, revoked, planned)
      PROVE  /\ pc'[w] \in {"revoke", "deliver", "close"}
             /\ revoked = {} => pc'[w] \in {"deliver", "close"}
             /\ task'[w].planned = planned
  <2> DEFINE work == [On(j) EXCEPT !.revoked = revoked, !.planned = planned]
  <2>1. work.planned = planned
    BY DEF On
  <2>2. PICK stage \in {"revoke", "deliver", "close"} :
          Go(w, stage, work) /\ (revoked = {} => stage # "revoke")
    BY <1>3, Zenon DEF GoDeliver
  <2> HIDE DEF work
  <2> QED
    BY <2>1, <2>2, <1>1
<1>4. CASE Assess(w)
  <2>1. pc[w] = "assess" /\ pc'[w] \in {"cancel", "plan", "notify"}
    BY <1>1, <1>2, <1>4 DEF Assess
  <2> QED
    BY <2>1 DEF Shorter, StagesLeft, Stages, Dispatching
<1>5. CASE Cancel(w) \/ Close(w)
  <2>1. pc[w] \in {"cancel", "close"} /\ pc'[w] = "idle"
    BY <1>1, <1>5 DEF Cancel, Close, Finish
  <2> QED
    BY <2>1 DEF Shorter, StagesLeft, Stages, Dispatching
<1>6. CASE Notify(w)
  <2>1. PICK u \in task[w].todo : GoNotify(w, j, task[w].todo \ {u})
    BY <1>6 DEF Notify
  <2>2. pc[w] = "notify" /\ pc'[w] \in {"plan", "notify"} /\ OneLess(w)
    BY <1>2, <1>6, <2>1 DEF Notify, OneLess
  <2> QED
    BY <2>2 DEF Shorter, StagesLeft, Stages, Dispatching
<1>7. CASE Plan(w)
  <2>1. pc[w] = "plan" /\ pc'[w] \in {"revoke", "deliver", "close"}
    BY <1>1, <1>3, <1>7 DEF Plan, Spread
  <2> QED
    BY <2>1 DEF Shorter, StagesLeft, Stages, Dispatching
<1>8. CASE Revoke(w)
  <2>1. pc[w] = "revoke" /\ pc'[w] \in {"deliver", "close"}
    BY <1>3, <1>8 DEF Revoke
  <2> QED
    BY <2>1 DEF Shorter, StagesLeft, Stages, Dispatching
<1>9. CASE Deliver(w)
  <2>1. PICK p \in task[w].planned : GoDeliver(w, j, {}, task[w].planned \ {p})
    BY <1>9 DEF Deliver
  <2>2. pc[w] = "deliver" /\ pc'[w] \in {"deliver", "close"} /\ OneLess(w)
    BY <1>3, <1>9, <2>1 DEF Deliver, OneLess
  <2> QED
    BY <2>2 DEF Shorter, StagesLeft, Stages, Dispatching
<1> QED
  BY <1>4, <1>5, <1>6, <1>7, <1>8, <1>9 DEF Dispatch

LEMMA PushShorter ==
  ASSUME Typed, NEW w \in Worker, Push(w) \/ Crash(w)
  PROVE  Shorter(w)
<1>1. ASSUME NEW stage, NEW work, Go(w, stage, work)
      PROVE  pc'[w] = stage
  BY <1>1 DEF Go, Typed
<1>2. CASE Verify(w)
  <2>1. pc[w] = "verify" /\ pc'[w] \in {"skip", "disable", "send"}
    BY <1>1, <1>2 DEF Verify
  <2> QED
    BY <2>1 DEF Shorter, StagesLeft, Stages, Sending
<1>3. CASE Disable(w)
  <2>1. pc[w] \in {"disable", "gone"} /\ pc'[w] \in {"skip", "fail"}
    BY <1>1, <1>3 DEF Disable
  <2> QED
    BY <2>1 DEF Shorter, StagesLeft, Stages, Sending
<1>4. CASE Send(w)
  <2>1. pc[w] = "send" /\ pc'[w] \in {"sent", "gone", "later", "fail"}
    BY <1>1, <1>4 DEF Send
  <2> QED
    BY <2>1 DEF Shorter, StagesLeft, Stages, Sending
<1>5. CASE Record(w) \/ Crash(w)
  <2>1. pc[w] \in Stages \ {"idle"} /\ pc'[w] = "idle"
    BY <1>1, <1>5 DEF Record, Crash, Finish, Typed
  <2>2. StagesLeft["idle"] = 0 /\ StagesLeft[pc[w]] \in 1 .. 6
    BY <2>1 DEF StagesLeft, Stages, Dispatching, Sending
  <2> QED
    BY <2>1, <2>2 DEF Shorter
<1> QED
  BY <1>2, <1>3, <1>4, <1>5 DEF Push

\* A pass of the dispatcher comes to its end: each step leaves it less to do,
\* whatever devices, members and the other passes become meanwhile.
THEOREM PassesEnd == Spec => PassesShorten
<1>1. ASSUME Typed, Next, NEW v \in Worker, pc[v] # "idle"
      PROVE  (pc'[v] = pc[v] /\ task'[v] = task[v]) \/ Shorter(v)
  <2>1. ASSUME NEW w \in Worker, NEW stage, NEW work, Go(w, stage, work), v # w
        PROVE  pc'[v] = pc[v] /\ task'[v] = task[v]
    BY <1>1, <2>1 DEF Go, Typed
  <2>2. ASSUME NEW w \in Worker, Dispatch(w) \/ Push(w) \/ Crash(w)
        PROVE  (pc'[v] = pc[v] /\ task'[v] = task[v]) \/ Shorter(v)
    <3>1. CASE v = w
      <4>1. Shorter(w)
        BY <1>1, <2>2, DispatchShorter, PushShorter
      <4> QED
        BY <3>1, <4>1
    <3>2. CASE v # w
      <4>1. \E stage, work : Go(w, stage, work)
        BY <2>2 DEF Dispatch, Push, Assess, Cancel, Notify, Plan, Revoke, Deliver, Close, Verify,
           Disable, Send, Record, Crash, Spread, GoNotify, GoDeliver, Finish
      <4>2. PICK stage, work : Go(w, stage, work)
        BY <4>1, Zenon
      <4>3. pc'[v] = pc[v] /\ task'[v] = task[v]
        BY <4>2, <3>2, <2>1
      <4> QED
        BY <4>3
    <3> QED
      BY <3>1, <3>2
  <2>3. ASSUME NEW w \in Worker,
               \/ \E j \in Job : Select(w, j) \/ CatchUp(w, j)
               \/ \E x \in Pair : Claim(w, x)
        PROVE  pc'[v] = pc[v] /\ task'[v] = task[v]
    <3>1. pc[w] = "idle" /\ \E stage, work : Go(w, stage, work)
      BY <2>3 DEF Select, CatchUp, Claim
    <3> QED
      BY <1>1, <3>1, <2>1
  <2>4. Environment \/ (\E x \in Pair : Comes(x)) => UNCHANGED <<pc, task>>
    BY DEF Environment, Happen, Lapse, Age, WindowEnds, Register, Unregister,
       RevokeSessions, RemoveMember, Still, Comes
  <2> QED
    BY <1>1, <2>2, <2>3, <2>4 DEF Next
<1>2. Typed /\ [Next]_vars =>
        [\A w \in Worker : pc[w] # "idle" =>
           (pc'[w] = pc[w] /\ task'[w] = task[w]) \/ Shorter(w)]_vars
  BY <1>1
<1> QED
  BY AlwaysTyped, <1>2, PTL DEF Spec, PassesShorten

----------------------------------------------------------------------------
(* Without faults, retries come to their end *)

\* The delivery that is sent is in one hand, which knows the number of the
\* attempt; one that waits is in none, and has attempts left.
OneSender(x) ==
  /\ delivery[x].status = "sending" =>
       /\ ~ delivery[x].come
       /\ \E w \in Worker : /\ Holding(w, x) /\ task[w].attempt = delivery[x].attempts
                            /\ \A v \in Worker : Holding(v, x) => v = w
  /\ delivery[x].status # "sending" => \A w \in Worker : ~ Holding(w, x)
  /\ delivery[x].status = "pending" => delivery[x].attempts < MaxAttempts

\* Before the first crash, suspension or lost answer, each send has an attempt
\* of its own, and the last attempt leaves nothing that waits for another:
\* a retry that the service refuses for ever ends.
RetriesEnd == faults = 0 => \A x \in Pair : Exists(x) => OneSender(x)

\* Who holds x and what x is do not change.
LEMMA SameSender ==
  ASSUME Typed, NEW x \in Pair, Exists(x) => OneSender(x), delivery'[x] = delivery[x],
         \A v \in Worker : Holding(v, x)' = Holding(v, x),
         \A v \in Worker : Holding(v, x) => task'[v].attempt = task[v].attempt
  PROVE  (Exists(x) => OneSender(x))'
<1> SUFFICES ASSUME Exists(x)' PROVE OneSender(x)'
  OBVIOUS
<1>1. Exists(x) /\ OneSender(x)
  BY DEF Exists
<1>2. delivery[x].status = "sending" =>
        /\ ~ delivery'[x].come
        /\ \E w \in Worker : /\ Holding(w, x)' /\ task'[w].attempt = delivery'[x].attempts
                             /\ \A v \in Worker : Holding(v, x)' => v = w
  <2> SUFFICES ASSUME delivery[x].status = "sending"
               PROVE  /\ ~ delivery'[x].come
                      /\ \E w \in Worker :
                           /\ Holding(w, x)' /\ task'[w].attempt = delivery'[x].attempts
                           /\ \A v \in Worker : Holding(v, x)' => v = w
    OBVIOUS
  <2>1. PICK w \in Worker : /\ Holding(w, x) /\ task[w].attempt = delivery[x].attempts
                            /\ \A v \in Worker : Holding(v, x) => v = w
    BY <1>1 DEF OneSender
  <2>2. ~ delivery[x].come
    BY <1>1 DEF OneSender
  <2>3. Holding(w, x)' /\ task'[w].attempt = delivery'[x].attempts
    BY <2>1
  <2>4. \A v \in Worker : Holding(v, x)' => v = w
    BY <2>1
  <2> QED
    BY <2>2, <2>3, <2>4
<1>3. delivery[x].status # "sending" => \A w \in Worker : ~ Holding(w, x)'
  BY <1>1 DEF OneSender
<1>4. delivery[x].status = "pending" => delivery'[x].attempts < MaxAttempts
  BY <1>1 DEF OneSender
<1> QED
  BY <1>2, <1>3, <1>4 DEF OneSender

LEMMA ClaimOneSender ==
  ASSUME Typed, NEW w \in Worker, NEW y \in Pair, Claim(w, y),
         NEW x \in Pair, Exists(x) => OneSender(x)
  PROVE  (Exists(x) => OneSender(x))'
<1> DEFINE work == [On(y[1]) EXCEPT !.device = y[2], !.right = Justified(y),
                                    !.attempt = delivery'[y].attempts]
<1>1. Go(w, "verify", work) /\ pc[w] = "idle"
  BY DEF Claim
<1>2. work.target = y[1] /\ work.device = y[2] /\ work.attempt = delivery'[y].attempts
  BY DEF On
<1> HIDE DEF work
<1>3. Holding(w, x)' <=> x = y
  BY <1>1, <1>2, OneWorker DEF Holding, Sending, Pair
<1>4. ~ Holding(w, x)
  BY <1>1 DEF Holding, Sending
<1>5. Exists(y) /\ delivery' = Claimed(y) /\ Claimable(y)
  BY DEF Claim, Claimable, Claimed
<1>6. \A v \in Worker \ {w} : Holding(v, x)' = Holding(v, x) /\ task'[v] = task[v]
  <2>1. \A v \in Worker \ {w} : Holding(v, x)' = Holding(v, x)
    BY <1>1, OneWorker
  <2>2. \A v \in Worker \ {w} : task'[v] = task[v]
    BY <1>1 DEF Go, Typed
  <2> QED
    BY <2>1, <2>2
<1>7. CASE x = y
  <2>1. \A v \in Worker : ~ Holding(v, x)
    BY <1>5, <1>7 DEF Claimable, OneSender
  <2>2. delivery'[x].status = "sending" /\ ~ delivery'[x].come
    BY <1>5, <1>7, ClaimOK
  <2>3. Holding(w, x)' /\ task'[w].attempt = delivery'[x].attempts
    BY <1>1, <1>2, <1>3, <1>7, OneWorker
  <2>4. \A v \in Worker : Holding(v, x)' => v = w
    BY <1>6, <2>1
  <2> QED
    BY <2>2, <2>3, <2>4 DEF OneSender
<1>8. CASE x # y
  <2>1. delivery'[x] = delivery[x]
    BY <1>5, <1>8, ClaimOK
  <2>2. \A v \in Worker : Holding(v, x)' = Holding(v, x)
    <3>1. Holding(w, x)' \in BOOLEAN /\ Holding(w, x) \in BOOLEAN
      BY DEF Holding
    <3> QED
      BY <1>3, <1>4, <1>6, <1>8, <3>1
  <2>3. \A v \in Worker : Holding(v, x) => task'[v].attempt = task[v].attempt
    BY <1>4, <1>6
  <2> QED
    BY <2>1, <2>2, <2>3, SameSender
<1> QED
  BY <1>7, <1>8

LEMMA DispatchOneSender ==
  ASSUME Typed, Typed', NEW w \in Worker,
         Dispatch(w) \/ \E j \in Job : Select(w, j) \/ CatchUp(w, j),
         NEW x \in Pair, Exists(x) => OneSender(x)
  PROVE  (Exists(x) => OneSender(x))'
<1>1. pc[w] \in {"idle"} \cup Dispatching
  BY DEF Dispatch, Assess, Cancel, Notify, Plan, Revoke, Deliver, Close, Select, CatchUp,
     Dispatching
<1>2. PICK stage \in {"idle"} \cup Dispatching : \E work : Go(w, stage, work)
  BY DEF Dispatch, Assess, Cancel, Notify, Plan, Revoke, Deliver, Close, Select, CatchUp,
     Spread, GoNotify, GoDeliver, Finish, Dispatching
<1>3. PICK work : Go(w, stage, work)
  BY <1>2
<1>4. ~ Holding(w, x) /\ ~ Holding(w, x)'
  BY <1>1, <1>3, OneWorker DEF Holding, Dispatching, Sending
<1>5. \A v \in Worker : Holding(v, x)' = Holding(v, x)
  <2>1. Holding(w, x)' = Holding(w, x)
    BY <1>4 DEF Holding
  <2> QED
    BY <1>3, <2>1, OneWorker
<1>6. \A v \in Worker : Holding(v, x) => task'[v].attempt = task[v].attempt
  BY <1>3, <1>4 DEF Go, Typed
<1>7. CASE delivery'[x] = delivery[x]
  BY <1>5, <1>6, <1>7, SameSender
<1>8. CASE delivery'[x] # delivery[x]
  <2>1. PICK t, d, u : delivery' = Upsert(t, d, u)
    BY <1>8 DEF Dispatch, Assess, Cancel, Notify, Plan, Revoke, Deliver, Close, Select, CatchUp
  <2>2. ~ Exists(x)
    BY <1>8, <2>1 DEF Upsert, Typed
  <2>3. \A v \in Worker : ~ Holding(v, x)
    BY <2>2 DEF Typed, WorkOK, Holding, Held
  <2>4. delivery'[x].status = "pending" /\ delivery'[x].attempts = 0
    BY <1>8, <2>1 DEF Upsert, Typed
  <2>5. \A v \in Worker : ~ Holding(v, x)'
    BY <1>5, <2>3
  <2> QED
    BY <2>4, <2>5, PushConstants DEF OneSender
<1> QED
  BY <1>7, <1>8

LEMMA SendingOneSender ==
  ASSUME Typed, NEW w \in Worker, Verify(w) \/ Disable(w) \/ Send(w),
         NEW x \in Pair, Exists(x) => OneSender(x)
  PROVE  (Exists(x) => OneSender(x))'
<1>1. pc[w] \in Sending /\ UNCHANGED delivery
  BY DEF Verify, Disable, Send, Sending
<1>2. PICK stage \in Sending : Go(w, stage, task[w])
  BY DEF Verify, Disable, Send, Sending
<1>3. Holding(w, x)' = Holding(w, x)
  BY <1>1, <1>2, OneWorker DEF Holding
<1>4. \A v \in Worker : Holding(v, x)' = Holding(v, x)
  BY <1>2, <1>3, OneWorker
<1>5. \A v \in Worker : task'[v] = task[v]
  BY <1>2 DEF Go, Typed
<1> QED
  BY <1>1, <1>4, <1>5, SameSender

LEMMA RecordOneSender ==
  ASSUME Typed, NEW w \in Worker, Record(w),
         NEW x \in Pair, Exists(x) => OneSender(x)
  PROVE  (Exists(x) => OneSender(x))'
<1>1. Go(w, "idle", Absent) /\ pc[w] \in Sending
  BY DEF Record, Finish, Sending
<1>2. ~ Holding(w, x)'
  BY <1>1, OneWorker DEF Holding, Sending
<1>3. \A v \in Worker \ {w} : Holding(v, x)' = Holding(v, x) /\ task'[v] = task[v]
  <2>1. \A v \in Worker \ {w} : Holding(v, x)' = Holding(v, x)
    BY <1>1, OneWorker
  <2>2. \A v \in Worker \ {w} : task'[v] = task[v]
    BY <1>1 DEF Go, Typed
  <2> QED
    BY <2>1, <2>2
<1>4. CASE Holding(w, x)
  <2>1. Held(w) = x /\ delivery[x] \in DeliveryDoc /\ Exists(x)
    BY <1>1, <1>4, HasWork, PushSentinels DEF Holding, Held, Exists, Sending
  <2>2. delivery[x].status = "sending"
    BY <1>4, <2>1 DEF OneSender
  <2>3. /\ task[w].attempt = delivery[x].attempts
        /\ \A v \in Worker : Holding(v, x) => v = w
    BY <1>4, <2>1, <2>2 DEF OneSender
  <2>4. \E status \in {"pending"} \cup Final :
          /\ delivery' = Ended(x, status)
          /\ status = "pending" => task[w].attempt < MaxAttempts
    BY <2>1 DEF Record, Final
  <2>5. PICK status \in {"pending"} \cup Final :
          /\ delivery' = Ended(x, status)
          /\ status = "pending" => task[w].attempt < MaxAttempts
    BY <2>4
  <2>6. delivery'[x].status = status /\ delivery'[x].attempts = delivery[x].attempts
    BY <2>1, <2>2, <2>5 DEF Ended, Typed, DeliveryDoc
  <2>7. \A v \in Worker : ~ Holding(v, x)'
    BY <1>2, <1>3, <2>3
  <2>8. status # "sending"
    BY DEF Final
  <2> QED
    BY <2>3, <2>5, <2>6, <2>7, <2>8 DEF OneSender
<1>5. CASE ~ Holding(w, x)
  <2>1. Held(w) # x
    BY <1>1, <1>5 DEF Holding, Held
  <2>2. delivery'[x] = delivery[x]
    BY <2>1 DEF Record, Ended, Typed
  <2>3. \A v \in Worker : Holding(v, x)' = Holding(v, x)
    <3>1. Holding(w, x)' = Holding(w, x)
      BY <1>2, <1>5 DEF Holding
    <3> QED
      BY <1>3, <3>1
  <2>4. \A v \in Worker : Holding(v, x) => task'[v].attempt = task[v].attempt
    BY <1>3, <1>5
  <2> QED
    BY <2>2, <2>3, <2>4, SameSender
<1> QED
  BY <1>4, <1>5

\* A lease that ends in the hand of a worker is a fault.
LEMMA ComesOneSender ==
  ASSUME Typed, NEW y \in Pair, Comes(y), faults' = faults,
         NEW x \in Pair, Exists(x) => OneSender(x)
  PROVE  (Exists(x) => OneSender(x))'
<1>1. UNCHANGED <<pc, task>> /\ Exists(y)
  BY DEF Comes
<1>2. \A v \in Worker : Holding(v, x)' = Holding(v, x) /\ task'[v] = task[v]
  BY <1>1 DEF Holding
<1>3. CASE x # y
  <2>1. delivery'[x] = delivery[x]
    BY <1>3 DEF Comes, Typed
  <2> QED
    BY <1>2, <2>1, SameSender
<1>4. CASE x = y
  <2>1. OneSender(x)
    BY <1>1, <1>4
  <2>2. delivery[x].status = "pending"
    <3>1. delivery[x].status = "pending" \/
          (delivery[x].status = "sending" /\ \A w \in Worker : ~ Holding(w, x))
      <4>1. faults + 1 # faults
        BY DEF Typed
      <4> QED
        BY <1>4, <4>1 DEF Comes
    <3> QED
      BY <2>1, <3>1 DEF OneSender
  <2>3. delivery[x] \in DeliveryDoc /\ delivery' = [delivery EXCEPT ![x].come = TRUE]
    BY <1>1, <1>4 DEF Comes, Typed, Exists
  <2>4. delivery'[x].status = "pending" /\ delivery'[x].attempts = delivery[x].attempts
    BY <2>2, <2>3 DEF Typed, DeliveryDoc
  <2>5. \A v \in Worker : ~ Holding(v, x)'
    BY <1>2, <2>1, <2>2 DEF OneSender
  <2>6. delivery[x].attempts < MaxAttempts
    BY <2>1, <2>2 DEF OneSender
  <2> QED
    BY <2>4, <2>5, <2>6 DEF OneSender
<1> QED
  BY <1>3, <1>4

\* As long as nothing crashed, was suspended or lost an answer: a delivery is in
\* one hand at a time, whatever the number of processes, and the refusal of its
\* last attempt is not followed by another.
THEOREM FaultlessRetriesEnd == Spec => []RetriesEnd
<1>1. Init => RetriesEnd
  BY DEF Init, RetriesEnd, Exists
<1>2. Typed /\ Typed' /\ RetriesEnd /\ [Next]_vars => RetriesEnd'
  <2> SUFFICES ASSUME Typed, Typed', RetriesEnd, [Next]_vars, faults' = 0, NEW x \in Pair
               PROVE  (Exists(x) => OneSender(x))'
    BY DEF RetriesEnd
  <2>1. CASE UNCHANGED <<delivery, faults, pc, task>>
    BY <2>1 DEF RetriesEnd, Exists, OneSender, Holding
  <2>2. Environment \/ UNCHANGED vars => UNCHANGED <<delivery, faults, pc, task>>
    BY DEF vars, Environment, Happen, Lapse, Age, WindowEnds, Register, Unregister,
       RevokeSessions, RemoveMember, Still
  <2>3. ASSUME Next, ~ Environment
        PROVE  (Exists(x) => OneSender(x))'
    <3>1. faults \in Nat
      BY DEF Typed
    <3>2. ASSUME faults = 0
          PROVE  Exists(x) => OneSender(x)
      BY <3>2 DEF RetriesEnd
    <3>3. ASSUME NEW w \in Worker, NEW y \in Pair, Claim(w, y)
          PROVE  (Exists(x) => OneSender(x))'
      <4>1. faults = 0
        BY <3>3 DEF Claim
      <4> QED
        BY <3>2, <3>3, <4>1, ClaimOneSender
    <3>4. ASSUME NEW w \in Worker,
                 Dispatch(w) \/ \E j \in Job : Select(w, j) \/ CatchUp(w, j)
          PROVE  (Exists(x) => OneSender(x))'
      <4>1. faults = 0
        BY <3>4 DEF Dispatch, Assess, Cancel, Notify, Plan, Revoke, Deliver, Close, Select,
                    CatchUp
      <4> QED
        BY <3>2, <3>4, <4>1, DispatchOneSender
    <3>5. ASSUME NEW w \in Worker, Push(w)
          PROVE  (Exists(x) => OneSender(x))'
      <4>1. faults = 0
        BY <3>1, <3>5 DEF Push, Verify, Disable, Send, Record
      <4> QED
        BY <3>2, <3>5, <4>1, SendingOneSender, RecordOneSender DEF Push
    <3>6. ASSUME NEW w \in Worker, Crash(w)
          PROVE  FALSE
      BY <3>1, <3>6 DEF Crash
    <3>7. ASSUME NEW y \in Pair, Comes(y)
          PROVE  (Exists(x) => OneSender(x))'
      <4>1. faults = 0
        BY <3>1, <3>7 DEF Comes
      <4> QED
        BY <3>2, <3>7, <4>1, ComesOneSender
    <3> QED
      BY <2>3, <3>3, <3>4, <3>5, <3>6, <3>7 DEF Next
  <2> QED
    BY <2>1, <2>2, <2>3
<1> QED
  BY AlwaysTyped, <1>1, <1>2, PTL DEF Spec

=============================================================================
