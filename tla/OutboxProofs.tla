----------------------------- MODULE OutboxProofs -----------------------------
(***************************************************************************)
(* Theorems about the offline sales of a partition, for any number of      *)
(* operations and tabs, any limits and any number of faults.               *)
(***************************************************************************)
EXTENDS OfflineOutbox, WellFoundedInduction, TLAPS

\* The stages at which a pass holds an operation, has marked it, waits to
\* know whether its sale is recorded.
InHand == {"mark", "send", "undo", "wait", "apply", "block"}
Marked == {"send", "undo", "wait", "apply"}
Asking == {"send", "undo", "wait"}

\* What the pass of t holds.
PassOK(t) ==
  /\ pass[t] # Absent => pass[t].tok \in 1 .. token
  /\ pc[t] \in InHand => pass[t].op \in Op /\ pass[t].op < next
  /\ pc[t] \in {"apply", "block"} => pass[t].answer \in Answer

Typed ==
  /\ TypeOK
  /\ \A o \in late \cup sales : o < next
  /\ \A t \in Tab : PassOK(t)

----------------------------------------------------------------------------
(* Operators of the model *)

\* A set of natural numbers has a least element.
LEMMA MinOf ==
  ASSUME NEW S, S \subseteq Nat, S # {}
  PROVE  Min(S) \in S /\ \A y \in S : Min(S) <= y
<1> DEFINE less == {ss \in Nat \X Nat : ss[1] < ss[2]}
<1>1. IsWellFoundedOn(less, Nat)
  BY NatLessThanWellFounded DEF OpToRel
<1>2. PICK x \in S : \A y \in S : ~ (<<y, x>> \in less)
  BY <1>1, WFMin
<1>3. ASSUME NEW y \in S
      PROVE  x <= y
  <2>1. y < x => <<y, x>> \in less
    OBVIOUS
  <2> QED
    BY <1>2, <2>1
<1> QED
  BY <1>2, <1>3 DEF Min

\* What the server may answer: that it has recorded the sale, that it has not
\* and had not, or something that tells nothing.
LEMMA OutcomeOf ==
  ASSUME NEW o, NEW out \in Outcomes(o)
  PROVE  /\ out[1] = sales \/ out[1] = sales \cup {o}
         /\ out[2] \in Answer \ {"network", "aborted"}
         /\ out[2] = "ok" => o \in out[1]
         /\ out[2] = "refused" => o \notin out[1]
         /\ out[2] \in {"auth", "inactive", "denied"} => out[1] = sales
  BY DEF Outcomes, Answer

\* The record written over r, when only its status is given.
StatusGiven(u, r, status) ==
  /\ u \in Operation
  /\ u.status = status
  /\ u.attempts = r.attempts /\ u.error = r.error

LEMMA UpdatedStatus ==
  ASSUME NEW r \in Operation, NEW status \in Status,
         NEW u, u = Updated(r, [status |-> status])
  PROVE  StatusGiven(u, r, status)
<1>1. DOMAIN r = {"status", "attempts", "error", "due", "old"}
  BY DEF Operation
<1>2. u = [x \in DOMAIN r |-> IF x \in {"status"} THEN status ELSE r[x]]
  BY DEF Updated
<1>3. u = [status |-> status, attempts |-> r.attempts, error |-> r.error,
           due |-> r.due, old |-> r.old]
  BY <1>1, <1>2
<1> QED
  BY <1>3 DEF StatusGiven, Operation

\* The record u that the outcome of the attempt p leaves of r: recorded when
\* the server said so, correctable when it refused, pending otherwise, and
\* then either counted or an attempt that has recorded nothing or is unknown.
Given(u, r, p) ==
  /\ u \in Operation
  /\ u.status \in {"synced", "conflict", "pending"}
  /\ u.status = "synced" => p.answer = "ok"
  /\ u.status = "conflict" => \/ u.error = "SERVER_UNAVAILABLE"
                              \/ u.error = "refused" /\ p.answer = "refused"
  /\ u.status = "pending" => \/ u.attempts > 0
                             \/ /\ u.attempts = r.attempts
                                /\ p.answer \in {"auth", "inactive", "denied", "aborted"}

LEMMA OutcomeGiven ==
  ASSUME NEW r \in Operation, NEW p \in Pass, p.answer \in Answer,
         NEW d, d = Decision(p), NEW u, u = Updated(r, d.fields)
  PROVE  /\ Given(u, r, p)
         /\ d.stage \in {"head", "release", "block"}
<1>1. DOMAIN r = {"status", "attempts", "error", "due", "old"}
  BY DEF Operation
<1>2. p.attempts \in 0 .. MaxServer
  BY DEF Pass
<1>3. PICK tried : tried = IF p.attempts < MaxServer THEN p.attempts + 1 ELSE MaxServer
  OBVIOUS
<1>4. tried \in 0 .. MaxServer /\ tried > 0
  BY <1>2, <1>3, OutboxAssumption
<1>5. CASE p.answer = "ok"
  <2>1. d.fields = [status |-> "synced", error |-> "none"] /\ d.stage = "head"
    BY <1>5 DEF Decision, Classified
  <2>2. u = [status |-> "synced", attempts |-> r.attempts, error |-> "none",
             due |-> r.due, old |-> r.old]
    BY <1>1, <2>1 DEF Updated
  <2> QED
    BY <1>5, <2>1, <2>2 DEF Given, Operation, Status, Reason
<1>6. CASE p.answer = "refused"
  <2>1. d.fields = [status |-> "conflict", error |-> "refused"] /\ d.stage = "head"
    BY <1>6 DEF Decision, Classified
  <2>2. u = [status |-> "conflict", attempts |-> r.attempts, error |-> "refused",
             due |-> r.due, old |-> r.old]
    BY <1>1, <2>1 DEF Updated
  <2> QED
    BY <1>6, <2>1, <2>2 DEF Given, Operation, Status, Reason
<1>7. CASE p.answer \in {"server", "network"}
  <2>1. CASE p.answer = "server" /\ tried >= MaxServer
    <3>1. d.fields = [status |-> "conflict", error |-> "SERVER_UNAVAILABLE",
                      attempts |-> tried] /\ d.stage = "head"
      BY <1>3, <2>1 DEF Decision, Classified
    <3>2. u = [status |-> "conflict", attempts |-> tried, error |-> "SERVER_UNAVAILABLE",
               due |-> r.due, old |-> r.old]
      BY <1>1, <3>1 DEF Updated
    <3> QED
      BY <1>4, <3>1, <3>2 DEF Given, Operation, Status, Reason
  <2>2. CASE ~ (p.answer = "server" /\ tried >= MaxServer)
    <3>1. PICK due \in BOOLEAN :
            /\ d.fields = [status |-> "pending", attempts |-> tried, due |-> due]
            /\ d.stage = "release"
      BY <1>3, <1>7, <2>2 DEF Decision, Classified
    <3>2. u = [status |-> "pending", attempts |-> tried, error |-> r.error,
               due |-> due, old |-> r.old]
      BY <1>1, <3>1 DEF Updated
    <3> QED
      BY <1>4, <3>1, <3>2 DEF Given, Operation, Status, Reason
  <2> QED
    BY <2>1, <2>2
<1>8. CASE p.answer \in {"auth", "inactive", "denied", "aborted"}
  <2>1. d.fields = [status |-> "pending"] /\ d.stage \in {"release", "block"}
    BY <1>8 DEF Decision, Classified
  <2>2. u = [status |-> "pending", attempts |-> r.attempts, error |-> r.error,
             due |-> r.due, old |-> r.old]
    BY <1>1, <2>1 DEF Updated
  <2> QED
    BY <1>8, <2>1, <2>2 DEF Given, Operation, Status, Reason
<1> QED
  BY <1>5, <1>6, <1>7, <1>8 DEF Answer

----------------------------------------------------------------------------
(* What a step does to the passes *)

\* The step is one of tab t, and what t holds after it has its type.
TabStep(t) ==
  /\ pc' \in [Tab -> Stage] /\ pass' \in [Tab -> Pass \cup {Absent}]
  /\ \A q \in Tab \ {t} : pc'[q] = pc[q] /\ pass'[q] = pass[q]
  /\ pass'[t] = Absent <=> pc'[t] = "idle"
  /\ pass'[t] # Absent => pass'[t].tok \in 1 .. token
  /\ pc'[t] \in InHand => pass'[t].op \in Op /\ pass'[t].op < next
  /\ pc'[t] \in {"apply", "block"} => pass'[t].answer \in Answer

PassesTyped ==
  /\ pc \in [Tab -> Stage] /\ pass \in [Tab -> Pass \cup {Absent}]
  /\ \A t \in Tab : pass[t] = Absent <=> pc[t] = "idle"
  /\ \A t \in Tab : PassOK(t)

LEMMA TabStepTyped ==
  ASSUME Typed, NEW t \in Tab, TabStep(t), token' = token, next' = next
  PROVE  PassesTyped'
  BY DEF Typed, TypeOK, PassOK, TabStep, PassesTyped

\* A step of nobody: the passes hold what they held.
LEMMA OtherStepTyped ==
  ASSUME Typed, pc' = pc, pass' = pass,
         token' \in Nat, token <= token', next' \in Nat, next <= next'
  PROVE  PassesTyped'
<1>1. token \in Nat /\ next \in Nat
  BY OutboxAssumption DEF Typed, TypeOK
<1>2. ASSUME NEW t \in Tab
      PROVE  PassOK(t)'
  <2>1. PassOK(t)
    BY DEF Typed
  <2>2. pc[t] \in InHand => pass[t].op \in Nat
    BY <2>1 DEF PassOK, Op
  <2> QED
    BY <1>1, <2>1, <2>2 DEF PassOK
<1> QED
  BY <1>2 DEF Typed, TypeOK, PassesTyped

\* A step that only moves tab t to a stage where it holds what it held.
LEMMA GotoStep ==
  ASSUME Typed, NEW t \in Tab, NEW stage \in Stage, Goto(t, stage), pass' = pass,
         pc[t] # "idle", stage # "idle",
         stage \in InHand => pc[t] \in InHand,
         stage \in {"apply", "block"} => pc[t] \in {"apply", "block"}
  PROVE  TabStep(t) /\ pc'[t] = stage
  BY DEF Typed, TypeOK, PassOK, TabStep, Goto

\* What a pass has captured when it has no operation in hand.
LEMMA CapturedPass ==
  ASSUME NEW tok \in Nat, NEW aborted \in BOOLEAN
  PROVE  /\ Captured(tok, aborted) \in Pass
         /\ Captured(tok, aborted).tok = tok
         /\ Captured(tok, aborted) # Absent
<1>1. Captured(tok, aborted) \in Pass
  BY OutboxAssumption DEF Captured, Pass
<1> QED
  BY <1>1, OutboxSentinels DEF Captured

\* A step that leaves t with the pass p at a stage.
LEMMA PassStep ==
  ASSUME Typed, NEW t \in Tab, NEW stage \in Stage, NEW p \in Pass,
         pc' = [pc EXCEPT ![t] = stage], pass' = [pass EXCEPT ![t] = p],
         stage # "idle", p.tok \in 1 .. token,
         stage \in InHand => p.op \in Op /\ p.op < next,
         stage \in {"apply", "block"} => p.answer \in Answer
  PROVE  TabStep(t) /\ pc'[t] = stage /\ pass'[t] = p
  BY OutboxSentinels DEF Typed, TypeOK, TabStep

\* A pass ends an iteration, or goes to its end.
LEMMA PutDownStep ==
  ASSUME Typed, NEW t \in Tab, NEW stage \in Stage \ (InHand \cup {"idle"}),
         PutDown(t), Goto(t, stage), pc[t] # "idle"
  PROVE  TabStep(t) /\ pc'[t] = stage
<1>1. pass[t] \in Pass /\ pass[t].tok \in 1 .. token
  BY DEF Typed, TypeOK, PassOK
<1>2. pass[t].tok \in Nat /\ pass[t].aborted \in BOOLEAN
  BY <1>1 DEF Pass
<1>3. PICK p : p = Captured(pass[t].tok, pass[t].aborted)
  OBVIOUS
<1>4. p \in Pass /\ p.tok = pass[t].tok
  BY <1>2, <1>3, CapturedPass
<1>5. pass' = [pass EXCEPT ![t] = p] /\ pc' = [pc EXCEPT ![t] = stage]
  BY <1>3 DEF PutDown, Goto
<1> QED
  BY <1>1, <1>4, <1>5, PassStep DEF InHand

\* A request has its answer.
LEMMA AnsweredStep ==
  ASSUME Typed, NEW t \in Tab, NEW a \in Answer, Answered(t, a), pc[t] = "wait"
  PROVE  /\ TabStep(t) /\ pc'[t] = "apply"
         /\ pass'[t].answer = a /\ pass'[t].op = pass[t].op
<1>1. /\ pass[t] \in Pass /\ pass[t].tok \in 1 .. token
      /\ pass[t].op \in Op /\ pass[t].op < next
  BY DEF Typed, TypeOK, PassOK, InHand
<1>2. PICK p : p = [pass[t] EXCEPT !.answer = a]
  OBVIOUS
<1>3. p \in Pass /\ p.tok = pass[t].tok /\ p.op = pass[t].op /\ p.answer = a
  BY <1>1, <1>2 DEF Pass
<1>4. pass' = [pass EXCEPT ![t] = p] /\ pc' = [pc EXCEPT ![t] = "apply"]
  BY <1>2 DEF Answered, Goto
<1>5. TabStep(t) /\ pc'[t] = "apply" /\ pass'[t] = p
  BY <1>1, <1>3, <1>4, PassStep DEF Stage
<1> QED
  BY <1>3, <1>5

\* The pass of t ends, or its tab.
LEMMA EndStep ==
  ASSUME Typed, NEW t \in Tab, pass' = [pass EXCEPT ![t] = Absent], Goto(t, "idle")
  PROVE  TabStep(t) /\ pc'[t] = "idle" /\ pass'[t] = Absent
  BY OutboxSentinels DEF Typed, TypeOK, TabStep, Goto, Stage, InHand

\* The pass of t is to stop: the lease was lost, or someone asked for it.
LEMMA AbortStep ==
  ASSUME Typed, NEW t \in Tab, pass[t] # Absent, pc' = pc,
         pass' = [pass EXCEPT ![t].aborted = TRUE]
  PROVE  /\ TabStep(t) /\ pc'[t] = pc[t]
         /\ pass'[t].answer = pass[t].answer /\ pass'[t].op = pass[t].op
<1>1. pass[t] \in Pass /\ PassOK(t) /\ pc[t] \in Stage /\ pc[t] # "idle"
  BY DEF Typed, TypeOK
<1>2. PICK p : p = [pass[t] EXCEPT !.aborted = TRUE]
  OBVIOUS
<1>3. p \in Pass /\ p.tok = pass[t].tok /\ p.op = pass[t].op /\ p.answer = pass[t].answer
  BY <1>1, <1>2 DEF Pass
<1>4. PICK stage \in Stage \ {"idle"} : stage = pc[t]
  BY <1>1
<1>5. /\ stage \in InHand => p.op \in Op /\ p.op < next
      /\ stage \in {"apply", "block"} => p.answer \in Answer
      /\ p.tok \in 1 .. token
  BY <1>1, <1>3, <1>4 DEF PassOK
<1>6. pass' = [pass EXCEPT ![t] = p] /\ pc' = [pc EXCEPT ![t] = stage]
  BY <1>2, <1>4 DEF Typed, TypeOK
<1>7. stage \in Stage /\ stage # "idle" /\ p \in Pass
  BY <1>3, <1>4
<1>8. TabStep(t) /\ pc'[t] = stage /\ pass'[t] = p
  BY <1>5, <1>6, <1>7, PassStep
<1> QED
  BY <1>3, <1>4, <1>8

LEMMA StartStep ==
  ASSUME Typed, NEW t \in Tab, StartPass(t)
  PROVE  TabStep(t) /\ pc'[t] = "meta"
<1>1. token \in Nat /\ token \in 1 .. token
  BY DEF Typed, TypeOK
<1>2. PICK p : p = Captured(token, FALSE)
  OBVIOUS
<1>3. p \in Pass /\ p.tok = token
  BY <1>1, <1>2, CapturedPass
<1>4. pass' = [pass EXCEPT ![t] = p] /\ pc' = [pc EXCEPT ![t] = "meta"]
  BY <1>2 DEF StartPass, Goto
<1> QED
  BY <1>1, <1>3, <1>4, PassStep DEF Stage, InHand

LEMMA HeadOf ==
  ASSUME Typed, Pending # {}
  PROVE  /\ Head \in Op /\ Head < next /\ Is(Head, "pending")
         /\ ops[Head] \in Operation
         /\ \A n \in Op : Is(n, "pending") => Head <= n
<1>1. Pending \subseteq Nat
  BY DEF Pending, Op
<1>2. Head \in Pending /\ \A n \in Pending : Head <= n
  BY <1>1, MinOf DEF Head
<1> QED
  BY <1>2 DEF Pending, Typed, TypeOK, Is

\* A pass takes the head in hand, or goes to its end.
LEMMA ReadHeadStep ==
  ASSUME Typed, NEW t \in Tab, ReadHead(t)
  PROVE  /\ TabStep(t)
         /\ \/ pc'[t] = "release"
            \/ /\ pc'[t] = "mark" /\ Pending # {} /\ pass'[t].op = Head
<1>1. CASE Guard(t) /\ Pending # {} /\ ops[Head].due
  <2>1. Head \in Op /\ Head < next /\ ops[Head] \in Operation
    BY <1>1, HeadOf
  <2>2. PICK n : n = ops[Head].attempts
    OBVIOUS
  <2>3. n \in 0 .. MaxServer
    BY <2>1, <2>2 DEF Operation
  <2>4. pass[t] \in Pass /\ pass[t].tok \in 1 .. token
    BY DEF ReadHead, At, Typed, TypeOK, PassOK
  <2>5. PICK h : h = Head
    OBVIOUS
  <2>6. PICK p : p = [pass[t] EXCEPT !.op = h, !.attempts = n]
    OBVIOUS
  <2>7. p \in Pass /\ p.tok = pass[t].tok /\ p.op = h
    BY <2>1, <2>3, <2>4, <2>5, <2>6 DEF Pass
  <2>8. pass' = [pass EXCEPT ![t] = p] /\ pc' = [pc EXCEPT ![t] = "mark"]
    BY <1>1, <2>2, <2>5, <2>6 DEF ReadHead, Goto
  <2>9. p.op \in Op /\ p.op < next /\ p.tok \in 1 .. token
    BY <2>1, <2>4, <2>5, <2>7
  <2>10. TabStep(t) /\ pc'[t] = "mark" /\ pass'[t] = p
    BY <2>7, <2>8, <2>9, PassStep DEF Stage
  <2> QED
    BY <1>1, <2>5, <2>7, <2>10
<1>2. CASE ~ (Guard(t) /\ Pending # {} /\ ops[Head].due)
  <2>1. Goto(t, "release") /\ pass' = pass /\ pc[t] # "idle"
    BY <1>2 DEF ReadHead, At
  <2> QED
    BY <2>1, GotoStep DEF Stage, InHand
<1> QED
  BY <1>1, <1>2

----------------------------------------------------------------------------
(* What a step does to the operations *)

OpsTyped ==
  /\ ops \in [Op -> Operation \cup {Absent}]
  /\ next \in 1 .. MaxOps + 1
  /\ \A o \in Op : ops[o] # Absent => o < next

\* The operations of `some`, and no other, are as they were with a status.
OnlyAt(o) ==
  /\ \A n \in Op \ {o} : ops'[n] = ops[n]
  /\ ops[o] = Absent <=> ops'[o] = Absent

LEMMA UpdateStep ==
  ASSUME Typed, NEW o \in Op, NEW fields, Update(o, fields), next' = next,
         \A u : u = Updated(ops[o], fields) /\ ops[o] \in Operation => u \in Operation
  PROVE  /\ OpsTyped' /\ OnlyAt(o)
         /\ ops[o] # Absent => ops[o] \in Operation /\ ops'[o] = Updated(ops[o], fields)
<1>1. CASE ops[o] = Absent
  BY <1>1 DEF Typed, TypeOK, OpsTyped, OnlyAt, Update
<1>2. CASE ops[o] # Absent
  <2>1. ops[o] \in Operation
    BY <1>2 DEF Typed, TypeOK
  <2>2. PICK u : u = Updated(ops[o], fields)
    OBVIOUS
  <2>3. u \in Operation /\ u # Absent
    BY <2>1, <2>2, OutboxSentinels
  <2>4. ops' = [ops EXCEPT ![o] = u]
    BY <1>2, <2>2 DEF Update
  <2>5. ops'[o] = u
    BY <2>4 DEF Typed, TypeOK
  <2>6. OpsTyped' /\ OnlyAt(o)
    BY <1>2, <2>3, <2>4 DEF Typed, TypeOK, OpsTyped, OnlyAt
  <2> QED
    BY <2>1, <2>2, <2>5, <2>6
<1> QED
  BY <1>1, <1>2

\* A step that writes a status over the operation o, if it is still there.
LEMMA StatusStep ==
  ASSUME Typed, NEW o \in Op, NEW status \in Status, next' = next,
         Update(o, [status |-> status])
  PROVE  /\ OpsTyped' /\ OnlyAt(o)
         /\ ops[o] # Absent => ops[o] \in Operation /\ StatusGiven(ops'[o], ops[o], status)
<1>1. PICK fields : fields = [status |-> status]
  OBVIOUS
<1>2. ASSUME NEW u, u = Updated(ops[o], fields), ops[o] \in Operation
      PROVE  StatusGiven(u, ops[o], status)
  BY <1>1, <1>2, UpdatedStatus
<1>3. \A u : u = Updated(ops[o], fields) /\ ops[o] \in Operation => u \in Operation
  BY <1>2 DEF StatusGiven
<1>4. /\ OpsTyped' /\ OnlyAt(o)
      /\ ops[o] # Absent => ops[o] \in Operation /\ ops'[o] = Updated(ops[o], fields)
  BY <1>1, <1>3, UpdateStep
<1> QED
  BY <1>2, <1>4

----------------------------------------------------------------------------
(* Types *)

DoubtsTyped == interrupted \subseteq Op /\ resent \subseteq Op /\ overtaken \subseteq Op

RestTyped ==
  /\ blocked \in Refusal \cup {Absent}
  /\ blocked # Absent => blocked.tok \in 1 .. token
  /\ locks \in BOOLEAN
  /\ lease \in Lease \cup {Absent}
  /\ token \in 1 .. faults + 1
  /\ frozen \subseteq Tab /\ late \subseteq Op /\ sales \subseteq Op
  /\ DoubtsTyped /\ overlap \in BOOLEAN /\ faults \in 0 .. MaxFaults
  /\ \A o \in late \cup sales : o < next

LEMMA Parts == Typed <=> OpsTyped /\ PassesTyped /\ RestTyped
  BY DEF Typed, TypeOK, OpsTyped, PassesTyped, RestTyped, DoubtsTyped

LEMMA PartsAfter == OpsTyped' /\ PassesTyped' /\ RestTyped' => Typed'
  BY DEF Typed, TypeOK, OpsTyped, PassesTyped, RestTyped, DoubtsTyped

LEMMA DoubtsKept == Typed /\ Doubts' = Doubts => DoubtsTyped'
  BY DEF Typed, TypeOK, DoubtsTyped, Doubts

LEMMA InitTyped == Init => Typed
<1> SUFFICES ASSUME Init PROVE Typed
  OBVIOUS
<1>1. OpsTyped
  BY OutboxAssumption DEF Init, OpsTyped
<1>2. PassesTyped
  BY DEF Init, PassesTyped, PassOK, InHand, Stage
<1>3. RestTyped
  <2>1. overlap \in BOOLEAN /\ locks \in BOOLEAN
    BY DEF Init
  <2>2. /\ blocked = Absent /\ lease = Absent /\ token = 1 /\ frozen = {} /\ late = {}
        /\ sales = {} /\ DoubtsTyped /\ faults = 0
    BY DEF Init, DoubtsTyped
  <2> QED
    BY <2>1, <2>2, OutboxAssumption DEF RestTyped
<1> QED
  BY <1>1, <1>2, <1>3, Parts

\* The requests of the user.
LEMMA EnqueueTyped ==
  ASSUME Typed, NEW replaced \in Op \cup {Absent}, Enqueue(replaced)
  PROVE  Typed'
<1>1. Fresh \in Operation
  BY OutboxAssumption DEF Fresh, Operation, Status, Reason
<1>2. ASSUME NEW o \in Op, o = replaced
      PROVE  /\ ops[o] \in Operation
             /\ [ops[o] EXCEPT !.status = "abandoned"] \in Operation
  <2>1. ops[o] \in Operation
    BY <1>2, OutboxAssumption DEF Enqueue, MayCorrect, Is, Typed, TypeOK, Op
  <2> QED
    BY <2>1 DEF Operation, Status
<1>3. next \in Nat /\ next \in Op
  BY DEF Enqueue, Op
<1>4. ops' \in [Op -> Operation \cup {Absent}]
  <2>1. ASSUME NEW o \in Op
        PROVE  ops'[o] \in Operation \cup {Absent}
    <3>1. CASE o = next
      BY <1>1, <3>1 DEF Enqueue
    <3>2. CASE o # next /\ o = replaced
      BY <1>2, <3>2 DEF Enqueue
    <3>3. CASE o # next /\ o # replaced
      BY <3>3 DEF Enqueue, Typed, TypeOK
    <3> QED
      BY <3>1, <3>2, <3>3
  <2> QED
    BY <2>1 DEF Enqueue
<1>5. ASSUME NEW o \in Op, ops'[o] # Absent
      PROVE  o < next'
  <2>1. CASE o = next
    BY <1>3, <2>1 DEF Enqueue
  <2>2. CASE o # next /\ o = replaced
    BY <1>2, <1>3, <2>2, OutboxSentinels DEF Enqueue, Typed, TypeOK, Op
  <2>3. CASE o # next /\ o # replaced
    BY <1>3, <1>5, <2>3 DEF Enqueue, Typed, TypeOK, Op
  <2> QED
    BY <2>1, <2>2, <2>3
<1>6. OpsTyped'
  BY <1>3, <1>4, <1>5, OutboxAssumption DEF OpsTyped, Enqueue, Op
<1>7. PassesTyped'
  <2>1. token \in Nat
    BY OutboxAssumption DEF Typed, TypeOK
  <2> QED
    BY <1>3, <2>1, OtherStepTyped DEF Enqueue, Passes, World
<1>8. RestTyped'
  <2>1. \A o \in late \cup sales : o \in Nat /\ o < next + 1
    BY <1>3 DEF Typed, TypeOK, Op
  <2> QED
    BY <2>1, DoubtsKept DEF RestTyped, Typed, TypeOK, Enqueue, Passes, World, History
<1> QED
  BY <1>6, <1>7, <1>8, PartsAfter

\* A step that writes the operation o only, if it is there.
LEMMA WriteTyped ==
  ASSUME Typed, NEW o \in Op, ops[o] # Absent, NEW r \in Operation,
         ops' = [ops EXCEPT ![o] = r], next' = next
  PROVE  OpsTyped' /\ OnlyAt(o) /\ ops'[o] = r
  BY OutboxSentinels DEF Typed, TypeOK, OpsTyped, OnlyAt

\* At most one more fault, and the session as it was.
LEMMA FaultsTyped ==
  ASSUME Typed, token' = token, faults' \in {faults, faults + 1}, faults' <= MaxFaults
  PROVE  token' \in 1 .. faults' + 1 /\ faults' \in 0 .. MaxFaults
<1>1. /\ faults \in Nat /\ MaxFaults \in Nat /\ token \in Nat
      /\ 1 <= token /\ token <= faults + 1 /\ token' = token
  BY OutboxAssumption DEF Typed, TypeOK
<1>2. PICK f : f = faults'
  OBVIOUS
<1>3. f \in Nat /\ f <= MaxFaults /\ faults <= f
  BY <1>1, <1>2
<1>4. token \in 1 .. f + 1 /\ f \in 0 .. MaxFaults
  BY <1>1, <1>3
<1> QED
  BY <1>1, <1>2, <1>4

\* A step that leaves the passes and what the server and the network hold.
LEMMA DatabaseStepTyped ==
  ASSUME Typed, OpsTyped', next' = next,
         blocked' \in {blocked, Absent}, lease' \in {lease, Absent},
         faults' \in {faults, faults + 1}, faults' <= MaxFaults,
         DoubtsTyped', UNCHANGED <<locks, pc, pass, frozen, overlap, World>>
  PROVE  Typed'
<1>1. token \in Nat /\ next \in Nat
  BY OutboxAssumption DEF Typed, TypeOK
<1>2. PassesTyped'
  BY <1>1, OtherStepTyped DEF World
<1>3. RestTyped'
  <2>1. locks' \in BOOLEAN /\ overlap' \in BOOLEAN
    BY DEF Typed, TypeOK
  <2>2. token' \in 1 .. faults' + 1 /\ faults' \in 0 .. MaxFaults
    BY FaultsTyped DEF World
  <2>3. blocked' # Absent => blocked'.tok \in 1 .. token'
    BY DEF Typed, TypeOK, World
  <2> QED
    BY <2>1, <2>2, <2>3 DEF RestTyped, Typed, TypeOK, World
<1> QED
  BY <1>2, <1>3, PartsAfter

LEMMA ExpediteStep ==
  ASSUME Typed, NEW some \in SUBSET Op, Expedite(some)
  PROVE  /\ OpsTyped'
         /\ \A o \in Op : \/ ops'[o] = ops[o]
                          \/ /\ Is(o, "pending")
                             /\ ops'[o] # Absent /\ ops[o] \in Operation
                             /\ StatusGiven(ops'[o], ops[o], "pending")
<1>1. ASSUME NEW o \in some, NEW r, r = [ops[o] EXCEPT !.due = TRUE]
      PROVE  /\ Is(o, "pending") /\ ops[o] \in Operation
             /\ StatusGiven(r, ops[o], "pending")
  <2>1. Is(o, "pending") /\ ops[o] \in Operation
    BY DEF Expedite, Is, Typed, TypeOK
  <2>2. r \in Operation
    BY <1>1, <2>1 DEF Operation
  <2>3. r.status = ops[o].status /\ r.attempts = ops[o].attempts /\ r.error = ops[o].error
    BY <1>1, <2>1 DEF Operation
  <2> QED
    BY <2>1, <2>2, <2>3 DEF StatusGiven, Is
<1>2. ASSUME NEW o \in Op
      PROVE  \/ ops'[o] = ops[o]
             \/ /\ Is(o, "pending")
                /\ ops'[o] \in Operation /\ ops[o] \in Operation
                /\ StatusGiven(ops'[o], ops[o], "pending")
  <2>1. PICK r : r = [ops[o] EXCEPT !.due = TRUE]
    OBVIOUS
  <2>2. ops'[o] = IF o \in some THEN r ELSE ops[o]
    BY <2>1 DEF Expedite
  <2>3. CASE o \in some
    BY <1>1, <2>1, <2>2, <2>3 DEF StatusGiven
  <2> QED
    BY <2>2, <2>3
<1>3. DOMAIN ops' = Op /\ ops' = [o \in Op |-> ops'[o]]
  BY DEF Expedite
<1>4. \A o \in Op : ops'[o] \in Operation \cup {Absent}
  BY <1>2 DEF Typed, TypeOK
<1>5. \A o \in Op : ops'[o] # Absent => o < next
  BY <1>2 DEF Is, Typed, TypeOK
<1>6. OpsTyped'
  BY <1>3, <1>4, <1>5 DEF OpsTyped, Expedite, Typed, TypeOK
<1> QED
  BY <1>2, <1>6, OutboxSentinels

\* The record that the user has sent again.
LEMMA ResendStep ==
  ASSUME Typed, NEW o \in Op, Resend(o)
  PROVE  /\ OpsTyped' /\ OnlyAt(o)
         /\ Is(o, "conflict") /\ ops'[o].status = "pending"
<1>1. ops[o] \in Operation /\ Is(o, "conflict")
  BY DEF Resend, Is, Typed, TypeOK
<1>2. PICK due \in BOOLEAN : due = TRUE
  OBVIOUS
<1>3. PICK r : r = [ops[o] EXCEPT !.status = "pending", !.attempts = 0, !.error = "none",
                                  !.due = due]
  OBVIOUS
<1>4. r = [status |-> "pending", attempts |-> 0, error |-> "none", due |-> due,
           old |-> ops[o].old]
  BY <1>1, <1>3 DEF Operation
<1>5. r \in Operation /\ r.status = "pending"
  BY <1>1, <1>2, <1>4, OutboxAssumption DEF Operation, Status, Reason
<1>6. ops' = [ops EXCEPT ![o] = r] /\ next' = next
  BY <1>2, <1>3 DEF Resend
<1> QED
  BY <1>1, <1>5, <1>6, WriteTyped DEF Is

LEMMA AbandonStep ==
  ASSUME Typed, NEW o \in Op, Abandon(o)
  PROVE  /\ OpsTyped' /\ OnlyAt(o)
         /\ Is(o, "conflict") /\ ops'[o].status = "abandoned"
<1>1. ops[o] \in Operation /\ Is(o, "conflict")
  BY DEF Abandon, MayAbandon, Is, Typed, TypeOK
<1>2. PICK r : r = [ops[o] EXCEPT !.status = "abandoned"]
  OBVIOUS
<1>3. r \in Operation /\ r.status = "abandoned"
  BY <1>1, <1>2 DEF Operation, Status
<1>4. ops' = [ops EXCEPT ![o] = r] /\ next' = next
  BY <1>2 DEF Abandon
<1> QED
  BY <1>1, <1>3, <1>4, WriteTyped DEF Is

LEMMA DueStep ==
  ASSUME Typed, NEW o \in Op, Due(o)
  PROVE  /\ OpsTyped' /\ OnlyAt(o)
         /\ Is(o, "pending") /\ StatusGiven(ops'[o], ops[o], "pending")
<1>1. ops[o] \in Operation /\ Is(o, "pending")
  BY DEF Due, Is, Typed, TypeOK
<1>2. PICK r : r = [ops[o] EXCEPT !.due = TRUE]
  OBVIOUS
<1>3. r \in Operation /\ r.status = ops[o].status /\ r.attempts = ops[o].attempts
      /\ r.error = ops[o].error
  BY <1>1, <1>2 DEF Operation
<1>4. ops' = [ops EXCEPT ![o] = r] /\ next' = next
  BY <1>2 DEF Due
<1> QED
  BY <1>1, <1>3, <1>4, WriteTyped DEF Is, StatusGiven

LEMMA AgeStep ==
  ASSUME Typed, NEW o \in Op, Age(o)
  PROVE  /\ OpsTyped' /\ OnlyAt(o) /\ ops[o] # Absent
         /\ StatusGiven(ops'[o], ops[o], ops[o].status)
<1>1. ops[o] \in Operation /\ ops[o] # Absent
  BY DEF Age, Unfinalized, Waiting, Is, Typed, TypeOK
<1>2. PICK r : r = [ops[o] EXCEPT !.old = TRUE]
  OBVIOUS
<1>3. r \in Operation /\ r.status = ops[o].status /\ r.attempts = ops[o].attempts
      /\ r.error = ops[o].error
  BY <1>1, <1>2 DEF Operation
<1>4. ops' = [ops EXCEPT ![o] = r] /\ next' = next
  BY <1>2 DEF Age
<1> QED
  BY <1>1, <1>3, <1>4, WriteTyped DEF StatusGiven

\* What preparePartition leaves of an operation.
LEMMA PreparedRecord ==
  ASSUME NEW r \in Operation
  PROVE  /\ Prepared(r) \in Operation
         /\ Prepared(r).attempts = r.attempts
         /\ Prepared(r).status # "syncing"
         /\ r.status \notin {"pending", "syncing"} => Prepared(r) = r
         /\ r.status \in {"pending", "syncing"} =>
              \/ Prepared(r).status = "pending"
              \/ Prepared(r).status = "conflict" /\ Prepared(r).error = "EXPIRED"
<1>1. CASE r.status \notin {"pending", "syncing"}
  BY <1>1 DEF Prepared
<1>2. CASE r.status \in {"pending", "syncing"} /\ r.old
  <2>1. Prepared(r) = [status |-> "conflict", attempts |-> r.attempts,
                       error |-> "EXPIRED", due |-> r.due, old |-> r.old]
    BY <1>2 DEF Prepared, Operation
  <2>2. [status |-> "conflict", attempts |-> r.attempts, error |-> "EXPIRED",
         due |-> r.due, old |-> r.old] \in Operation
    BY DEF Operation, Status, Reason
  <2> QED
    BY <1>2, <2>1, <2>2
<1>3. CASE r.status \in {"pending", "syncing"} /\ ~ r.old
  <2>1. Prepared(r) = [status |-> "pending", attempts |-> r.attempts,
                       error |-> r.error, due |-> r.due, old |-> r.old]
    BY <1>3 DEF Prepared, Operation
  <2>2. [status |-> "pending", attempts |-> r.attempts, error |-> r.error,
         due |-> r.due, old |-> r.old] \in Operation
    BY DEF Operation, Status
  <2> QED
    BY <1>3, <2>1, <2>2
<1> QED
  BY <1>1, <1>2, <1>3

LEMMA PrepareStep ==
  ASSUME Typed, NEW t \in Tab, Prepare(t)
  PROVE  /\ OpsTyped' /\ TabStep(t) /\ pc'[t] = "head"
         /\ \A o \in Op : \/ ops'[o] = Absent /\ (ops[o] = Absent \/ Is(o, "synced"))
                          \/ /\ ops[o] # Absent /\ ops[o] \in Operation
                             /\ ops'[o] # Absent /\ ops'[o] = Prepared(ops[o])
<1>1. ASSUME NEW o \in Op
      PROVE  \/ ops'[o] = Absent /\ (ops[o] = Absent \/ Is(o, "synced"))
             \/ /\ ops[o] # Absent /\ ops[o] \in Operation
                /\ ops'[o] \in Operation /\ ops'[o] = Prepared(ops[o])
  <2>1. PICK gone \in SUBSET {n \in Op : Is(n, "synced")} :
          ops' = [n \in Op |-> IF ops[n] = Absent \/ n \in gone THEN Absent
                               ELSE Prepared(ops[n])]
    BY DEF Prepare
  <2>2. CASE ops[o] = Absent \/ o \in gone
    BY <2>1, <2>2
  <2>3. CASE ops[o] # Absent /\ o \notin gone
    <3>1. ops[o] \in Operation /\ ops'[o] = Prepared(ops[o])
      BY <2>1, <2>3 DEF Typed, TypeOK
    <3> QED
      BY <2>3, <3>1, PreparedRecord
  <2> QED
    BY <2>2, <2>3
<1>2. ops' = [o \in Op |-> ops'[o]]
  BY DEF Prepare
<1>3. \A o \in Op : ops'[o] \in Operation \cup {Absent}
  BY <1>1
<1>4. \A o \in Op : ops'[o] # Absent => o < next
  BY <1>1 DEF Typed, TypeOK
<1>5. OpsTyped'
  BY <1>2, <1>3, <1>4 DEF OpsTyped, Prepare, Typed, TypeOK
<1>6. TabStep(t) /\ pc'[t] = "head"
  BY GotoStep DEF Prepare, At, Holding, Stage, InHand
<1> QED
  BY <1>1, <1>5, <1>6, OutboxSentinels

LEMMA MarkStep ==
  ASSUME Typed, NEW t \in Tab, Mark(t)
  PROVE  /\ OpsTyped' /\ TabStep(t) /\ pc'[t] = "send" /\ pass' = pass
         /\ pass[t].op \in Op /\ OnlyAt(pass[t].op)
         /\ ops[pass[t].op] # Absent =>
              StatusGiven(ops'[pass[t].op], ops[pass[t].op], "syncing")
<1>1. PICK o : o = pass[t].op
  OBVIOUS
<1>2. o \in Op
  BY <1>1 DEF Mark, At, Typed, PassOK, InHand
<1>3. /\ OpsTyped' /\ OnlyAt(o)
      /\ ops[o] # Absent => ops[o] \in Operation /\ StatusGiven(ops'[o], ops[o], "syncing")
  BY <1>1, <1>2, StatusStep DEF Mark, Status
<1>4. TabStep(t) /\ pc'[t] = "send" /\ pass' = pass
  BY GotoStep DEF Mark, At, Holding, Stage, InHand
<1> QED
  BY <1>1, <1>2, <1>3, <1>4

LEMMA UndoStep ==
  ASSUME Typed, NEW t \in Tab, Undo(t)
  PROVE  /\ OpsTyped' /\ TabStep(t) /\ pc'[t] = "release"
         /\ pass[t].op \in Op /\ OnlyAt(pass[t].op)
         /\ ops[pass[t].op] # Absent =>
              StatusGiven(ops'[pass[t].op], ops[pass[t].op], "pending")
<1>1. PICK o : o = pass[t].op
  OBVIOUS
<1>2. o \in Op
  BY <1>1 DEF Undo, At, Typed, PassOK, InHand
<1>3. /\ OpsTyped' /\ OnlyAt(o)
      /\ ops[o] # Absent => ops[o] \in Operation /\ StatusGiven(ops'[o], ops[o], "pending")
  BY <1>1, <1>2, StatusStep DEF Undo, Status
<1>4. TabStep(t) /\ pc'[t] = "release"
  BY PutDownStep DEF Undo, At, Stage, InHand
<1> QED
  BY <1>1, <1>2, <1>3, <1>4

LEMMA ApplyStep ==
  ASSUME Typed, NEW t \in Tab, Apply(t)
  PROVE  /\ OpsTyped' /\ TabStep(t) /\ pc'[t] \in {"head", "release", "block"}
         /\ pass[t].op \in Op /\ OnlyAt(pass[t].op)
         /\ ops[pass[t].op] # Absent => Given(ops'[pass[t].op], ops[pass[t].op], pass[t])
<1>1. PICK o : o = pass[t].op
  OBVIOUS
<1>2. o \in Op /\ pass[t] \in Pass /\ pass[t].answer \in Answer
  BY <1>1 DEF Apply, At, Typed, TypeOK, PassOK, InHand
<1>3. PICK d : d = Decision(pass[t])
  OBVIOUS
<1>4. PICK p : p = pass[t]
  OBVIOUS
<1>5. \A u : u = Updated(ops[o], d.fields) /\ ops[o] \in Operation
        => Given(u, ops[o], p) /\ d.stage \in {"head", "release", "block"}
  BY <1>2, <1>3, <1>4, OutcomeGiven
<1>6. d.stage \in {"head", "release", "block"}
  <2>1. PICK r : r \in Operation
    <3>1. Fresh \in Operation
      BY OutboxAssumption DEF Fresh, Operation, Status, Reason
    <3> QED
      BY <3>1
  <2> QED
    BY <1>2, <1>3, <1>4, <2>1, OutcomeGiven
<1>7. Update(o, d.fields) /\ next' = next
  BY <1>1, <1>3 DEF Apply
<1>8. \A u : u = Updated(ops[o], d.fields) /\ ops[o] \in Operation => u \in Operation
  BY <1>5 DEF Given
<1>9. PICK fields : fields = d.fields
  OBVIOUS
<1>10. /\ OpsTyped' /\ OnlyAt(o)
       /\ ops[o] # Absent => ops[o] \in Operation /\ ops'[o] = Updated(ops[o], fields)
  BY <1>2, <1>7, <1>8, <1>9, UpdateStep
<1>11. TabStep(t) /\ pc'[t] = d.stage
  <2>1. CASE d.stage = "block"
    <3>1. Goto(t, "block") /\ pass' = pass /\ pc[t] = "apply"
      BY <1>3, <2>1 DEF Apply, At
    <3> QED
      BY <2>1, <3>1, GotoStep DEF Stage, InHand
  <2>2. CASE d.stage # "block"
    <3>1. Goto(t, d.stage) /\ PutDown(t) /\ pc[t] = "apply"
      BY <1>3, <2>2 DEF Apply, At
    <3>2. PICK stage : stage = d.stage
      OBVIOUS
    <3> QED
      BY <1>6, <2>2, <3>1, <3>2, PutDownStep DEF Stage, InHand
  <2> QED
    BY <2>1, <2>2
<1> QED
  BY <1>1, <1>2, <1>4, <1>5, <1>6, <1>9, <1>10, <1>11

LEMMA UserTyped ==
  ASSUME Typed, User
  PROVE  Typed'
<1>1. ASSUME NEW replaced \in Op \cup {Absent}, Enqueue(replaced)
      PROVE  Typed'
  BY <1>1, EnqueueTyped
<1>2. ASSUME NEW some \in SUBSET Op, Expedite(some)
      PROVE  Typed'
  <2>1. OpsTyped'
    BY <1>2, ExpediteStep
  <2> QED
    BY <1>2, <2>1, DatabaseStepTyped, DoubtsKept DEF Expedite, Passes, World, History, Typed, TypeOK
<1>3. ASSUME NEW o \in Op, Resend(o)
      PROVE  Typed'
  <2>1. OpsTyped'
    BY <1>3, ResendStep
  <2>2. DoubtsTyped'
    BY <1>3 DEF Resend, DoubtsTyped, Typed, TypeOK
  <2> QED
    BY <1>3, <2>1, <2>2, DatabaseStepTyped DEF Resend, Passes, World, Typed, TypeOK
<1>4. ASSUME NEW o \in Op, Abandon(o)
      PROVE  Typed'
  <2>1. OpsTyped'
    BY <1>4, AbandonStep
  <2> QED
    BY <1>4, <2>1, DatabaseStepTyped, DoubtsKept DEF Abandon, Passes, World, History, Typed, TypeOK
<1>5. CASE DeleteAll
  <2>1. OpsTyped'
    BY <1>5 DEF DeleteAll, OpsTyped, Typed, TypeOK
  <2>2. faults' \in 0 .. MaxFaults
    BY <1>5, OutboxAssumption DEF DeleteAll, Typed, TypeOK
  <2> QED
    BY <1>5, <2>1, <2>2, DatabaseStepTyped, DoubtsKept DEF DeleteAll, World, Typed, TypeOK
<1>6. CASE ClearSubscriptionBlock
  <2>1. OpsTyped'
    BY <1>6 DEF ClearSubscriptionBlock, OpsTyped, Typed, TypeOK
  <2> QED
    BY <1>6, <2>1, DatabaseStepTyped, DoubtsKept
       DEF ClearSubscriptionBlock, Passes, World, History, Typed, TypeOK
<1>7. CASE Relogin
  <2>1. OpsTyped'
    BY <1>7 DEF Relogin, Database, OpsTyped, Typed, TypeOK
  <2>2. PassesTyped'
    BY <1>7, OtherStepTyped, OutboxAssumption DEF Relogin, Database, Passes, Typed, TypeOK
  <2>3. /\ token' \in 1 .. faults' + 1 /\ faults' \in 0 .. MaxFaults
        /\ token \in Nat /\ token' = token + 1
    BY <1>7, OutboxAssumption DEF Relogin, Fault, Typed, TypeOK
  <2>4. locks' \in BOOLEAN /\ overlap' \in BOOLEAN
    BY <1>7 DEF Relogin, Passes, Typed, TypeOK
  <2>5. blocked' # Absent => blocked'.tok \in 1 .. token'
    BY <1>7, <2>3 DEF Relogin, Database, Typed, TypeOK
  <2>6. RestTyped'
    BY <1>7, <2>3, <2>4, <2>5, DoubtsKept DEF RestTyped, Relogin, Database, Passes, Typed, TypeOK
  <2> QED
    BY <2>1, <2>2, <2>6, PartsAfter
<1> QED
  BY <1>1, <1>2, <1>3, <1>4, <1>5, <1>6, <1>7 DEF User, Pending

\* Time, and the network.
LEMMA WorldTyped ==
  ASSUME Typed,
         \/ \E o \in Op : ServeLate(o) \/ Due(o) \/ Age(o)
         \/ LeaseEnds
  PROVE  Typed'
<1>1. ASSUME NEW o \in Op, ServeLate(o)
      PROVE  Typed'
  <2>1. OpsTyped' /\ next' = next /\ token' = token
    BY <1>1 DEF ServeLate, Database, OpsTyped, Typed, TypeOK
  <2>2. PassesTyped'
    BY <1>1, OtherStepTyped, OutboxAssumption DEF ServeLate, Database, Passes, Typed, TypeOK
  <2>3. late' \subseteq late /\ sales' \subseteq sales \cup late /\ DoubtsTyped'
    BY <1>1, OutcomeOf DEF ServeLate, Typed, TypeOK, DoubtsTyped
  <2>4. RestTyped'
    BY <1>1, <2>3 DEF RestTyped, ServeLate, Database, Passes, Typed, TypeOK
  <2> QED
    BY <2>1, <2>2, <2>4, PartsAfter
<1>2. ASSUME NEW o \in Op, Due(o)
      PROVE  Typed'
  <2>1. OpsTyped'
    BY <1>2, DueStep
  <2> QED
    BY <1>2, <2>1, DatabaseStepTyped, DoubtsKept DEF Due, Passes, World, History, Typed, TypeOK
<1>3. ASSUME NEW o \in Op, Age(o)
      PROVE  Typed'
  <2>1. OpsTyped'
    BY <1>3, AgeStep
  <2> QED
    BY <1>3, <2>1, DatabaseStepTyped, DoubtsKept DEF Age, Passes, World, History, Typed, TypeOK
<1>4. CASE LeaseEnds
  <2>1. OpsTyped' /\ next' = next /\ token' = token
    BY <1>4 DEF LeaseEnds, Database, World, OpsTyped, Typed, TypeOK
  <2>2. PassesTyped'
    BY <1>4, OtherStepTyped, OutboxAssumption DEF LeaseEnds, Database, World, Typed, TypeOK
  <2>3. lease' \in Lease
    BY <1>4 DEF LeaseEnds, Lease, Typed, TypeOK
  <2>4. RestTyped'
    BY <1>4, <2>3, DoubtsKept DEF RestTyped, LeaseEnds, Database, World, History, Typed, TypeOK
  <2> QED
    BY <2>1, <2>2, <2>4, PartsAfter
<1> QED
  BY <1>1, <1>2, <1>3, <1>4

\* A step of tab t that leaves the session and the server alone.
LEMMA TabStepRest ==
  ASSUME Typed, NEW t \in Tab, TabStep(t), OpsTyped',
         locks' = locks, World' = World, next' = next,
         blocked' \in Refusal \cup {Absent},
         blocked' # Absent => blocked'.tok \in 1 .. token,
         lease' \in Lease \cup {Absent}, frozen' \subseteq Tab, DoubtsTyped',
         overlap' \in BOOLEAN, faults' \in {faults, faults + 1}, faults' <= MaxFaults
  PROVE  Typed'
<1>1. PassesTyped'
  BY TabStepTyped DEF World
<1>2. RestTyped'
  <2>1. locks' \in BOOLEAN
    BY DEF Typed, TypeOK
  <2>2. token' \in 1 .. faults' + 1 /\ faults' \in 0 .. MaxFaults
    BY FaultsTyped DEF World
  <2>3. blocked' # Absent => blocked'.tok \in 1 .. token'
    BY DEF World
  <2> QED
    BY <2>1, <2>2, <2>3 DEF RestTyped, Typed, TypeOK, World
<1> QED
  BY <1>1, <1>2, PartsAfter

\* The same, when what the browser stores besides the operations is untouched.
LEMMA QuietStepTyped ==
  ASSUME Typed, NEW t \in Tab, TabStep(t), OpsTyped', DoubtsTyped',
         UNCHANGED <<next, blocked, locks, lease, frozen, overlap, World, faults>>
  PROVE  Typed'
<1>1. overlap' \in BOOLEAN
  BY DEF Typed, TypeOK
<1>2. /\ blocked' \in Refusal \cup {Absent} /\ lease' \in Lease \cup {Absent}
      /\ blocked' # Absent => blocked'.tok \in 1 .. token
      /\ frozen' \subseteq Tab
  BY DEF Typed, TypeOK
<1>3. faults' \in {faults, faults + 1} /\ faults' <= MaxFaults
  BY OutboxAssumption DEF Typed, TypeOK
<1> QED
  BY <1>1, <1>2, <1>3, TabStepRest

\* The same, when the server and the network may have changed.
LEMMA RequestStepTyped ==
  ASSUME Typed, NEW t \in Tab, TabStep(t), NEW o \in Op, o < next,
         late' \subseteq late \cup {o}, sales' \subseteq sales \cup {o}, frozen' \subseteq Tab,
         lease' \in Lease \cup {Absent},
         faults' \in {faults, faults + 1}, faults' <= MaxFaults,
         UNCHANGED <<Database, locks, overlap, token, Doubts>>
  PROVE  Typed'
<1>1. PassesTyped' /\ OpsTyped'
  BY TabStepTyped DEF Database, OpsTyped, Typed, TypeOK
<1>2. RestTyped'
  <2>1. locks' \in BOOLEAN /\ overlap' \in BOOLEAN
    BY DEF Typed, TypeOK
  <2>2. token' \in 1 .. faults' + 1 /\ faults' \in 0 .. MaxFaults
    BY FaultsTyped
  <2>3. blocked' # Absent => blocked'.tok \in 1 .. token'
    BY DEF Typed, TypeOK, Database
  <2>4. \A n \in late' \cup sales' : n < next'
    BY DEF Typed, TypeOK, Database
  <2> QED
    BY <2>1, <2>2, <2>3, <2>4, DoubtsKept DEF RestTyped, Typed, TypeOK, Database
<1> QED
  BY <1>1, <1>2, PartsAfter

\* What a request that is given up leaves on the server and the network.
LEMMA GivenUpRest ==
  ASSUME Typed, NEW o \in Op, GivenUp(o)
  PROVE  /\ late' \subseteq late \cup {o} /\ sales' \subseteq sales \cup {o}
         /\ sales \subseteq sales'
         /\ faults' \in {faults, faults + 1} /\ faults' <= MaxFaults
<1>1. faults \in Nat /\ MaxFaults \in Nat /\ faults <= MaxFaults
  BY OutboxAssumption DEF Typed, TypeOK
<1>2. CASE UNCHANGED <<late, sales, faults>>
  BY <1>1, <1>2
<1>3. CASE \E out \in Outcomes(o) : sales' = out[1] /\ UNCHANGED <<late, faults>>
  BY <1>1, <1>3, OutcomeOf
<1>4. CASE /\ faults < MaxFaults /\ faults' = faults + 1
           /\ late' = late \cup {o} /\ UNCHANGED sales
  BY <1>1, <1>4
<1> QED
  BY <1>2, <1>3, <1>4 DEF GivenUp

LEMMA StepTyped ==
  ASSUME Typed, NEW t \in Tab, Step(t)
  PROVE  Typed'
<1>1. /\ OpsTyped /\ frozen \subseteq Tab /\ lease \in Lease \cup {Absent}
      /\ Doubts' = Doubts => DoubtsTyped'
  BY DoubtsKept DEF Typed, TypeOK, OpsTyped
<1>2. UNCHANGED Database => OpsTyped'
  BY <1>1 DEF Database, OpsTyped
<1>3. CASE ReadBlock(t)
  <2>1. PICK stage \in {"prepare", "unblock", "release"} : Goto(t, stage)
    BY <1>3 DEF ReadBlock
  <2>2. TabStep(t)
    BY <1>3, <2>1, GotoStep DEF ReadBlock, At, Holding, Stage, InHand
  <2> QED
    BY <1>1, <1>2, <1>3, <2>2, QuietStepTyped DEF ReadBlock, Database, Holding, World, History
<1>4. CASE Unblock(t)
  <2>1. TabStep(t)
    BY <1>4, GotoStep DEF Unblock, At, Holding, Stage, InHand
  <2>2. OpsTyped'
    BY <1>1, <1>4 DEF Unblock, OpsTyped
  <2>3. overlap' \in BOOLEAN
    BY <1>4 DEF Unblock, Holding, Typed, TypeOK
  <2>4. faults' \in {faults, faults + 1} /\ faults' <= MaxFaults
    BY <1>4, OutboxAssumption DEF Unblock, History, Typed, TypeOK
  <2> QED
    BY <1>1, <1>4, <2>1, <2>2, <2>3, <2>4, TabStepRest DEF Unblock, Holding, World, History
<1>5. CASE Prepare(t)
  <2>1. DoubtsTyped'
    BY <1>5 DEF Prepare, DoubtsTyped, Typed, TypeOK
  <2> QED
    BY <1>5, <2>1, PrepareStep, QuietStepTyped DEF Prepare, Holding
<1>6. CASE ReadHead(t)
  BY <1>1, <1>2, <1>6, ReadHeadStep, QuietStepTyped DEF ReadHead, Database, History
<1>7. CASE Mark(t)
  BY <1>1, <1>7, MarkStep, QuietStepTyped DEF Mark, Holding, History
<1>8. CASE Send(t)
  <2>1. PICK stage \in {"wait", "undo"} : Goto(t, stage)
    BY <1>8 DEF Send
  <2>2. TabStep(t)
    BY <1>8, <2>1, GotoStep DEF Send, At, Holding, Stage, InHand
  <2> QED
    BY <1>1, <1>2, <1>8, <2>2, QuietStepTyped DEF Send, Database, Holding, World, History
<1>9. CASE Undo(t)
  BY <1>1, <1>9, UndoStep, QuietStepTyped DEF Undo, History
<1>10. CASE Serve(t)
  <2>1. PICK o : o = pass[t].op
    OBVIOUS
  <2>2. o \in Op /\ o < next
    BY <1>10, <2>1 DEF Serve, Typed, PassOK, InHand
  <2>3. PICK out \in Outcomes(o) : sales' = out[1] /\ Answered(t, out[2])
    BY <1>10, <2>1 DEF Serve
  <2>4. TabStep(t)
    <3>1. PICK a : a = out[2]
      OBVIOUS
    <3>2. a \in Answer
      BY <2>3, <3>1, OutcomeOf
    <3> QED
      BY <1>10, <2>3, <3>1, <3>2, AnsweredStep DEF Serve
  <2>5. late' = late /\ sales' \subseteq sales \cup {o}
    BY <1>10, <2>3, OutcomeOf DEF Serve
  <2>6. faults' \in {faults, faults + 1} /\ faults' <= MaxFaults
    BY <1>10, OutboxAssumption DEF Serve, History, Typed, TypeOK
  <2> QED
    BY <1>1, <1>10, <2>2, <2>4, <2>5, <2>6, RequestStepTyped DEF Serve, History
<1>11. ASSUME LoseAnswer(t) \/ Cancel(t)
       PROVE  Typed'
  <2>1. PICK o : o = pass[t].op
    OBVIOUS
  <2>2. o \in Op /\ o < next /\ pc[t] = "wait"
    BY <1>11, <2>1 DEF LoseAnswer, Cancel, At, Typed, PassOK, InHand
  <2>3. TabStep(t)
    <3>1. PICK a \in {"network", "aborted"} : Answered(t, a)
      BY <1>11 DEF LoseAnswer, Cancel
    <3> QED
      BY <2>2, <3>1, AnsweredStep DEF Answer
  <2>4. GivenUp(o)
    BY <1>11, <2>1 DEF LoseAnswer, Cancel
  <2>5. /\ late' \subseteq late \cup {o} /\ sales' \subseteq sales \cup {o}
        /\ faults' \in {faults, faults + 1} /\ faults' <= MaxFaults
    BY <2>2, <2>4, GivenUpRest
  <2>6. UNCHANGED <<Database, locks, lease, frozen, overlap, token, Doubts>>
    BY <1>11 DEF LoseAnswer, Cancel
  <2> QED
    BY <1>1, <2>2, <2>3, <2>5, <2>6, RequestStepTyped
<1>12. CASE Apply(t)
  <2>1. DoubtsTyped'
    BY <1>12, ApplyStep DEF Apply, DoubtsTyped, Typed, TypeOK
  <2> QED
    BY <1>12, <2>1, ApplyStep, QuietStepTyped DEF Apply
<1>13. CASE Block(t)
  <2>1. TabStep(t)
    BY <1>13, PutDownStep DEF Block, At, Stage, InHand
  <2>2. OpsTyped'
    BY <1>1, <1>13 DEF Block, OpsTyped
  <2>3. overlap' \in BOOLEAN
    BY <1>13 DEF Block, Typed, TypeOK
  <2>4. faults' \in {faults, faults + 1} /\ faults' <= MaxFaults
    BY <1>13, OutboxAssumption DEF Block, History, Typed, TypeOK
  <2>5. pass[t].tok \in 1 .. token /\ token \in Nat
    BY <1>13, OutboxAssumption DEF Block, At, Typed, TypeOK, PassOK
  <2>6. blocked' \in Refusal /\ blocked'.tok \in 1 .. token
    BY <1>13, <2>5 DEF Block, Refusal
  <2> QED
    BY <1>1, <1>13, <2>1, <2>2, <2>3, <2>4, <2>6, TabStepRest DEF Block, World, History
<1>14. CASE Release(t)
  <2>1. TabStep(t)
    BY <1>14, EndStep DEF Release
  <2>2. OpsTyped' /\ UNCHANGED <<next, blocked>>
    BY <1>2, <1>14 DEF Release, Database
  <2>3. overlap' \in BOOLEAN
    BY <1>14 DEF Release, Typed, TypeOK
  <2>4. faults' \in {faults, faults + 1} /\ faults' <= MaxFaults
    BY <1>14, OutboxAssumption DEF Release, History, Typed, TypeOK
  <2>5. /\ blocked' \in Refusal \cup {Absent}
        /\ blocked' # Absent => blocked'.tok \in 1 .. token
    BY <2>2 DEF Typed, TypeOK
  <2>6. lease' \in Lease \cup {Absent}
    BY <1>1, <1>14 DEF Release
  <2> QED
    BY <1>1, <1>14, <2>1, <2>2, <2>3, <2>4, <2>5, <2>6, TabStepRest DEF Release, World, History
<1> QED
  BY <1>3, <1>4, <1>5, <1>6, <1>7, <1>8, <1>9, <1>10, <1>11, <1>12, <1>13, <1>14 DEF Step

\* What the browser and the user do to a tab.
LEMMA TabTyped ==
  ASSUME Typed, NEW t \in Tab,
         StartPass(t) \/ Renew(t) \/ Freeze(t) \/ Thaw(t) \/ Stop(t) \/ Close(t)
  PROVE  Typed'
<1>1. /\ Doubts' = Doubts => DoubtsTyped'
      /\ frozen \subseteq Tab /\ lease \in Lease \cup {Absent}
      /\ overlap \in BOOLEAN
      /\ blocked \in Refusal \cup {Absent}
      /\ blocked # Absent => blocked.tok \in 1 .. token
  BY DoubtsKept DEF Typed, TypeOK
<1>2. UNCHANGED Database => OpsTyped' /\ next' = next /\ blocked' = blocked
  BY DEF Database, OpsTyped, Typed, TypeOK
<1>3. faults' = faults => faults' \in {faults, faults + 1} /\ faults' <= MaxFaults
  BY OutboxAssumption DEF Typed, TypeOK
<1>4. Fault => faults' \in {faults, faults + 1} /\ faults' <= MaxFaults
  BY OutboxAssumption DEF Typed, TypeOK, Fault
<1>5. Take(t) => lease' \in Lease /\ overlap' \in BOOLEAN
  BY DEF Take, Lease
<1>6. CASE StartPass(t)
  BY <1>1, <1>2, <1>3, <1>5, <1>6, StartStep, TabStepRest DEF StartPass, World, History
<1>7. CASE Renew(t)
  <2>1. lease' \in Lease \cup {Absent} /\ overlap' \in BOOLEAN
    BY <1>1, <1>5, <1>7 DEF Renew
  <2>2. TabStep(t)
    <3>1. CASE UNCHANGED pass
      <4>1. pass[t] # Absent /\ pc' = pc
        BY <1>7 DEF Renew, Running
      <4> QED
        BY <3>1, <4>1 DEF TabStep, Typed, TypeOK, PassOK
    <3>2. CASE pass' = [pass EXCEPT ![t].aborted = TRUE]
      BY <1>7, <3>2, AbortStep DEF Renew, Running
    <3> QED
      BY <1>7, <3>1, <3>2 DEF Renew
  <2> QED
    BY <1>1, <1>2, <1>3, <1>7, <2>1, <2>2, TabStepRest DEF Renew, World, History
<1>8. ASSUME Freeze(t) \/ Thaw(t)
      PROVE  Typed'
  <2>1. TabStep(t)
    BY <1>8 DEF Freeze, Thaw, TabStep, Typed, TypeOK, PassOK
  <2>2. faults' \in {faults, faults + 1} /\ faults' <= MaxFaults
    BY <1>3, <1>4, <1>8 DEF Freeze, Thaw, History
  <2> QED
    BY <1>1, <1>2, <1>8, <2>1, <2>2, TabStepRest DEF Freeze, Thaw, World, History
<1>9. CASE Stop(t)
  BY <1>1, <1>2, <1>4, <1>9, AbortStep, TabStepRest DEF Stop, Running, World
<1>10. CASE Close(t)
  <2>1. TabStep(t)
    BY <1>10, EndStep DEF Close
  <2>2. faults' \in {faults, faults + 1} /\ faults' <= MaxFaults
    BY <1>10, OutboxAssumption DEF Close, Typed, TypeOK
  <2>3. CASE pc[t] = "wait"
    <3>1. PICK o : o = pass[t].op
      OBVIOUS
    <3>2. o \in Op /\ o < next
      BY <2>3, <3>1 DEF Typed, PassOK, InHand
    <3>3. late' \subseteq late \cup {o} /\ sales' = sales
      BY <1>10, <2>3, <3>1 DEF Close
    <3> QED
      BY <1>1, <1>10, <2>1, <2>2, <3>2, <3>3, RequestStepTyped DEF Close
  <2>4. CASE pc[t] # "wait"
    BY <1>1, <1>2, <1>10, <2>1, <2>2, <2>4, TabStepRest DEF Close, World
  <2> QED
    BY <2>3, <2>4
<1> QED
  BY <1>6, <1>7, <1>8, <1>9, <1>10

LEMMA NextTyped == Typed /\ [Next]_vars => Typed'
<1>1. ASSUME Typed, Next
      PROVE  Typed'
  BY <1>1, UserTyped, StepTyped, TabTyped, WorldTyped DEF Next
<1>2. Typed /\ UNCHANGED vars => Typed'
  BY DEF vars, Typed, TypeOK, PassOK
<1> QED
  BY <1>1, <1>2

\* The inductive invariant of types: what a pass holds at each of its stages,
\* and that no request is under way for an operation that was never entered.
THEOREM AlwaysTyped == Spec => []Typed
<1> QED
  BY InitTyped, NextTyped, PTL DEF Spec

\* TypeOK: every variable of the outbox has its type in every state, and a
\* tab has captured something exactly when it is in a pass.
THEOREM OutboxIsTyped == Spec => []TypeOK
<1>1. Typed => TypeOK
  BY DEF Typed
<1> QED
  BY <1>1, AlwaysTyped, PTL

----------------------------------------------------------------------------
(* What may become of an operation in a step, whoever takes it *)

Gone(o) == ops'[o] = Absent
Kept(o) ==
  /\ ops[o] # Absent /\ ops'[o] # Absent
  /\ StatusGiven(ops'[o], ops[o], ops[o].status)
Entered(o) == ops[o] = Absent /\ o = next /\ ops'[o] = Fresh
\* The user abandons it, corrects it, or has it sent again.
Left(o) ==
  /\ Is(o, "conflict") /\ ops'[o] # Absent
  /\ \/ ops'[o].status = "abandoned"
     \/ ops'[o].status = "pending" /\ o \in resent'
PreparedBy(o, t) ==
  /\ pc[t] = "prepare" /\ pc'[t] = "head"
  /\ ops[o] \in Operation /\ ops[o] # Absent
  /\ ops'[o] = Prepared(ops[o])
  /\ Is(o, "syncing") => o \in interrupted'
MarkedBy(o, t) ==
  /\ pc[t] = "mark" /\ pc'[t] = "send" /\ pass[t].op = o /\ ops[o] # Absent
  /\ StatusGiven(ops'[o], ops[o], "syncing")
UndoneBy(o, t) ==
  /\ pc[t] = "undo" /\ pc'[t] = "release" /\ pass[t].op = o /\ ops[o] # Absent
  /\ StatusGiven(ops'[o], ops[o], "pending")
AppliedBy(o, t) ==
  /\ pc[t] = "apply" /\ pc'[t] \in {"head", "release", "block"}
  /\ pass[t].op = o /\ ops[o] # Absent
  /\ Given(ops'[o], ops[o], pass[t])
  /\ pass[t].answer = "aborted" => o \in interrupted'

Change(o) ==
  \/ Gone(o) \/ Kept(o) \/ Entered(o) \/ Left(o)
  \/ \E t \in Tab : PreparedBy(o, t) \/ MarkedBy(o, t) \/ UndoneBy(o, t) \/ AppliedBy(o, t)

LEMMA Unchanged ==
  ASSUME Typed, NEW o \in Op, ops'[o] = ops[o]
  PROVE  Change(o)
<1>1. CASE ops[o] = Absent
  BY <1>1 DEF Change, Gone
<1>2. CASE ops[o] # Absent
  <2>1. ops[o] \in Operation
    BY <1>2 DEF Typed, TypeOK
  <2> QED
    BY <1>2, <2>1 DEF Change, Kept, StatusGiven
<1> QED
  BY <1>1, <1>2

LEMMA UserChanges ==
  ASSUME Typed, User, NEW o \in Op
  PROVE  Change(o)
<1>1. ASSUME NEW replaced \in Op \cup {Absent}, Enqueue(replaced)
      PROVE  Change(o)
  <2>1. CASE o = next
    BY <1>1, <2>1 DEF Enqueue, Change, Entered, Typed, TypeOK, Op
  <2>2. CASE o # next /\ o = replaced
    <3>1. ops[o] \in Operation /\ Is(o, "conflict")
      BY <1>1, <2>2, OutboxAssumption DEF Enqueue, MayCorrect, Is, Typed, TypeOK, Op
    <3>2. PICK r : r = [ops[o] EXCEPT !.status = "abandoned"]
      OBVIOUS
    <3>3. r \in Operation /\ r.status = "abandoned"
      BY <3>1, <3>2 DEF Operation, Status
    <3>4. ops'[o] = r
      BY <1>1, <2>2, <3>2 DEF Enqueue
    <3> QED
      BY <3>1, <3>3, <3>4, OutboxSentinels DEF Change, Left
  <2>3. CASE o # next /\ o # replaced
    <3>1. ops'[o] = ops[o]
      BY <1>1, <2>3 DEF Enqueue
    <3> QED
      BY <3>1, Unchanged
  <2> QED
    BY <2>1, <2>2, <2>3
<1>2. ASSUME NEW some \in SUBSET Op, Expedite(some)
      PROVE  Change(o)
  <2>1. \/ ops'[o] = ops[o]
        \/ Is(o, "pending") /\ ops'[o] # Absent /\ StatusGiven(ops'[o], ops[o], "pending")
    BY <1>2, ExpediteStep
  <2> QED
    BY <2>1, Unchanged DEF Change, Kept, Is
<1>3. ASSUME NEW n \in Op, Resend(n)
      PROVE  Change(o)
  <2>1. /\ OnlyAt(n) /\ Is(n, "conflict") /\ ops'[n].status = "pending"
        /\ n \in resent'
    BY <1>3, ResendStep DEF Resend
  <2> QED
    BY <2>1, Unchanged DEF Change, Left, OnlyAt, Is
<1>4. ASSUME NEW n \in Op, Abandon(n)
      PROVE  Change(o)
  <2>1. OnlyAt(n) /\ Is(n, "conflict") /\ ops'[n].status = "abandoned"
    BY <1>4, AbandonStep
  <2> QED
    BY <2>1, Unchanged DEF Change, Left, OnlyAt, Is
<1>5. CASE DeleteAll
  BY <1>5 DEF DeleteAll, Change, Gone
<1>6. CASE ClearSubscriptionBlock \/ Relogin
  <2>1. ops'[o] = ops[o]
    BY <1>6 DEF ClearSubscriptionBlock, Relogin, Database
  <2> QED
    BY <2>1, Unchanged
<1> QED
  BY <1>1, <1>2, <1>3, <1>4, <1>5, <1>6 DEF User, Pending

LEMMA StepChanges ==
  ASSUME Typed, NEW t \in Tab, Step(t), NEW o \in Op
  PROVE  Change(o)
<1>1. CASE Prepare(t)
  <2>1. /\ pc'[t] = "head"
        /\ \/ ops'[o] = Absent
           \/ /\ ops[o] # Absent /\ ops[o] \in Operation
              /\ ops'[o] = Prepared(ops[o])
    BY <1>1, PrepareStep
  <2>2. pc[t] = "prepare" /\ (Is(o, "syncing") => o \in interrupted')
    BY <1>1 DEF Prepare, At
  <2> QED
    BY <2>1, <2>2 DEF Change, Gone, PreparedBy
<1>2. CASE Mark(t)
  <2>1. /\ pc'[t] = "send" /\ pass[t].op \in Op /\ OnlyAt(pass[t].op)
        /\ ops[pass[t].op] # Absent => StatusGiven(ops'[pass[t].op], ops[pass[t].op], "syncing")
    BY <1>2, MarkStep
  <2>2. pc[t] = "mark"
    BY <1>2 DEF Mark, At
  <2>3. CASE o = pass[t].op /\ ops[o] # Absent
    BY <2>1, <2>2, <2>3 DEF Change, MarkedBy
  <2>4. CASE o # pass[t].op \/ ops[o] = Absent
    BY <2>1, <2>4, Unchanged DEF OnlyAt
  <2> QED
    BY <2>3, <2>4
<1>3. CASE Undo(t)
  <2>1. /\ pc'[t] = "release" /\ pass[t].op \in Op /\ OnlyAt(pass[t].op)
        /\ ops[pass[t].op] # Absent => StatusGiven(ops'[pass[t].op], ops[pass[t].op], "pending")
    BY <1>3, UndoStep
  <2>2. pc[t] = "undo"
    BY <1>3 DEF Undo, At
  <2>3. CASE o = pass[t].op /\ ops[o] # Absent
    BY <2>1, <2>2, <2>3 DEF Change, UndoneBy
  <2>4. CASE o # pass[t].op \/ ops[o] = Absent
    BY <2>1, <2>4, Unchanged DEF OnlyAt
  <2> QED
    BY <2>3, <2>4
<1>4. CASE Apply(t)
  <2>1. /\ pc'[t] \in {"head", "release", "block"}
        /\ pass[t].op \in Op /\ OnlyAt(pass[t].op)
        /\ ops[pass[t].op] # Absent => Given(ops'[pass[t].op], ops[pass[t].op], pass[t])
    BY <1>4, ApplyStep
  <2>2. pc[t] = "apply" /\ (pass[t].answer = "aborted" => pass[t].op \in interrupted')
    BY <1>4 DEF Apply, At
  <2>3. CASE o = pass[t].op /\ ops[o] # Absent
    BY <2>1, <2>2, <2>3 DEF Change, AppliedBy
  <2>4. CASE o # pass[t].op \/ ops[o] = Absent
    BY <2>1, <2>4, Unchanged DEF OnlyAt
  <2> QED
    BY <2>3, <2>4
<1>5. CASE \/ ReadBlock(t) \/ Unblock(t) \/ ReadHead(t) \/ Send(t) \/ Serve(t)
           \/ LoseAnswer(t) \/ Cancel(t) \/ Block(t) \/ Release(t)
  <2>1. ops'[o] = ops[o]
    BY <1>5 DEF ReadBlock, Unblock, ReadHead, Send, Serve, LoseAnswer, Cancel, Block,
                Release, Database
  <2> QED
    BY <2>1, Unchanged
<1> QED
  BY <1>1, <1>2, <1>3, <1>4, <1>5 DEF Step

LEMMA Changes ==
  ASSUME Typed, Next, NEW o \in Op
  PROVE  Change(o)
<1>1. CASE User
  BY <1>1, UserChanges
<1>2. ASSUME NEW t \in Tab, Step(t)
      PROVE  Change(o)
  BY <1>2, StepChanges
<1>3. ASSUME NEW t \in Tab,
             StartPass(t) \/ Renew(t) \/ Freeze(t) \/ Thaw(t) \/ Stop(t) \/ Close(t)
      PROVE  Change(o)
  <2>1. ops'[o] = ops[o]
    BY <1>3 DEF StartPass, Renew, Freeze, Thaw, Stop, Close, Database
  <2> QED
    BY <2>1, Unchanged
<1>4. ASSUME NEW n \in Op, Due(n)
      PROVE  Change(o)
  <2>1. OnlyAt(n) /\ Is(n, "pending") /\ StatusGiven(ops'[n], ops[n], "pending")
    BY <1>4, DueStep
  <2> QED
    BY <2>1, Unchanged DEF Change, Kept, OnlyAt, Is
<1>5. ASSUME NEW n \in Op, Age(n)
      PROVE  Change(o)
  <2>1. OnlyAt(n) /\ ops[n] # Absent /\ StatusGiven(ops'[n], ops[n], ops[n].status)
    BY <1>5, AgeStep
  <2> QED
    BY <2>1, Unchanged DEF Change, Kept, OnlyAt
<1>6. ASSUME (\E n \in Op : ServeLate(n)) \/ LeaseEnds
      PROVE  Change(o)
  <2>1. ops'[o] = ops[o]
    BY <1>6 DEF ServeLate, LeaseEnds, Database
  <2> QED
    BY <2>1, Unchanged
<1> QED
  BY <1>1, <1>2, <1>3, <1>4, <1>5, <1>6 DEF Next

----------------------------------------------------------------------------
(* What may become of a pass, of the sales recorded and of what is late *)

Same(q) ==
  /\ pc'[q] = pc[q]
  /\ pass'[q].op = pass[q].op /\ pass'[q].answer = pass[q].answer

\* The pass has nothing in hand, or nothing more to write to the operation.
Aside(q) == pc'[q] \in {"idle", "meta", "unblock", "prepare", "release", "block"}

\* What was being sent is not any more.
ToHead(q) ==
  /\ pc'[q] = "head"
  /\ \/ pc[q] = "prepare" /\ \A o \in Op : ~ Is(o, "syncing")'
     \/ pc[q] = "apply" /\ (ops'[pass[q].op] = Absent \/ ops'[pass[q].op].status # "syncing")

TakesHead(q) ==
  /\ pc[q] = "head" /\ pc'[q] = "mark"
  /\ Pending # {} /\ pass'[q].op = Head
  /\ UNCHANGED <<ops, Doubts, late, sales>>

Marks(q) ==
  /\ pc[q] = "mark" /\ pc'[q] = "send" /\ pass'[q].op = pass[q].op
  /\ OnlyAt(pass[q].op)
  /\ \/ ops'[pass[q].op] = Absent
     \/ StatusGiven(ops'[pass[q].op], ops[pass[q].op], "syncing")
  /\ UNCHANGED <<Doubts, late, sales>>

Asks(q) ==
  /\ pc[q] = "send" /\ pc'[q] \in {"wait", "undo"} /\ pass'[q].op = pass[q].op
  /\ UNCHANGED <<ops, Doubts, late, sales>>

\* It has its answer: the operations are as they were.
Hears(q) ==
  /\ pc[q] = "wait" /\ pc'[q] = "apply" /\ pass'[q].op = pass[q].op
  /\ pass'[q].answer = "ok" => pass[q].op \in sales'
  /\ pass'[q].answer = "refused" => pass[q].op \notin sales'
  /\ pass'[q].answer \in {"auth", "inactive", "denied"} => UNCHANGED <<late, sales>>
  /\ UNCHANGED <<ops, Doubts>>

Move(q) ==
  \/ Same(q) \/ Aside(q) \/ ToHead(q) \/ TakesHead(q) \/ Marks(q) \/ Asks(q) \/ Hears(q)

\* A tab that begins a pass runs beside another only once overlap says so.
Begins(q) ==
  pass[q] = Absent /\ pass'[q] # Absent /\ ~ overlap' =>
    \A t \in Tab \ {q} : pass'[t] = Absent

\* A request comes late only for an operation whose pass waited for its answer;
\* sales are recorded of such an operation, or of a late request, which has
\* overtaken nothing unless it was refused meanwhile.
Recording(o) ==
  /\ o \in late' \ late =>
       \E t \in Tab : pc[t] = "wait" /\ pc'[t] \in {"apply", "idle"} /\ pass[t].op = o
  /\ o \in sales' \ sales =>
       \/ \E t \in Tab : pc[t] = "wait" /\ pc'[t] = "apply" /\ pass[t].op = o
       \/ o \in late /\ (Refused(o) => o \in overtaken')

DoubtsGrow ==
  /\ interrupted \subseteq interrupted' /\ resent \subseteq resent'
  /\ overtaken \subseteq overtaken'

Grows ==
  /\ sales \subseteq sales' /\ DoubtsGrow
  /\ overlap => overlap'
  /\ \A o \in Op : Recording(o)

LEMMA OthersMove ==
  ASSUME Typed, NEW t \in Tab, TabStep(t), NEW q \in Tab \ {t}
  PROVE  Move(q) /\ Begins(q)
  BY DEF TabStep, Move, Same, Begins

LEMMA StepMoves ==
  ASSUME Typed, NEW t \in Tab, Step(t)
  PROVE  /\ TabStep(t) /\ Move(t) /\ pass[t] # Absent
         /\ Grows
<1>1. /\ pc[t] # "idle" => pass[t] # Absent
      /\ pc[t] \in InHand => pass[t].op \in Op
  BY DEF Typed, TypeOK, PassOK
<1>2. /\ UNCHANGED <<late, sales>> => \A o \in Op : Recording(o)
      /\ overlap' = overlap => (overlap => overlap')
      /\ Doubts' = Doubts => DoubtsGrow
  BY DEF Recording, Doubts, DoubtsGrow
<1>3. CASE ReadBlock(t)
  <2>1. PICK stage \in {"prepare", "unblock", "release"} : Goto(t, stage)
    BY <1>3 DEF ReadBlock
  <2>2. TabStep(t) /\ pc'[t] = stage
    BY <1>3, <2>1, GotoStep DEF ReadBlock, At, Holding, Stage, InHand
  <2> QED
    BY <1>1, <1>2, <1>3, <2>1, <2>2
       DEF ReadBlock, At, Holding, World, History, Move, Aside, Grows
<1>4. CASE Unblock(t)
  <2>1. TabStep(t) /\ pc'[t] = "prepare"
    BY <1>4, GotoStep DEF Unblock, At, Holding, Stage, InHand
  <2> QED
    BY <1>1, <1>2, <1>4, <2>1 DEF Unblock, At, Holding, World, History, Move, Aside, Grows
<1>5. CASE Prepare(t)
  <2>1. \A o \in Op : ~ Is(o, "syncing")'
    BY <1>5, PrepareStep, PreparedRecord DEF Is
  <2>2. DoubtsGrow
    BY <1>5 DEF Prepare, DoubtsGrow
  <2> QED
    BY <1>1, <1>2, <1>5, <2>1, <2>2, PrepareStep
       DEF Prepare, At, Holding, World, Move, ToHead, Grows
<1>6. CASE ReadHead(t)
  <2>1. /\ TabStep(t)
        /\ \/ pc'[t] = "release"
           \/ pc'[t] = "mark" /\ Pending # {} /\ pass'[t].op = Head
    BY <1>6, ReadHeadStep
  <2> QED
    BY <1>1, <1>2, <1>6, <2>1
       DEF ReadHead, At, Database, World, History, Move, Aside, TakesHead, Grows
<1>7. CASE Mark(t)
  <2>1. /\ TabStep(t) /\ pc'[t] = "send" /\ pass' = pass
        /\ pass[t].op \in Op /\ OnlyAt(pass[t].op)
        /\ ops[pass[t].op] # Absent =>
             StatusGiven(ops'[pass[t].op], ops[pass[t].op], "syncing")
    BY <1>7, MarkStep
  <2>2. \/ ops'[pass[t].op] = Absent
        \/ StatusGiven(ops'[pass[t].op], ops[pass[t].op], "syncing")
    BY <2>1 DEF OnlyAt
  <2> QED
    BY <1>1, <1>2, <1>7, <2>1, <2>2
       DEF Mark, At, Holding, World, History, Move, Marks, Grows
<1>8. CASE Send(t)
  <2>1. PICK stage \in {"wait", "undo"} : Goto(t, stage)
    BY <1>8 DEF Send
  <2>2. TabStep(t) /\ pc'[t] = stage
    BY <1>8, <2>1, GotoStep DEF Send, At, Holding, Stage, InHand
  <2> QED
    BY <1>1, <1>2, <1>8, <2>1, <2>2
       DEF Send, At, Database, Holding, World, History, Move, Asks, Grows
<1>9. CASE Undo(t)
  BY <1>1, <1>2, <1>9, UndoStep DEF Undo, At, World, History, Move, Aside, Grows
<1>10. CASE Serve(t)
  <2>1. PICK o : o = pass[t].op
    OBVIOUS
  <2>2. PICK out \in Outcomes(o) : sales' = out[1] /\ Answered(t, out[2])
    BY <1>10, <2>1 DEF Serve
  <2>3. PICK a \in Answer : a = out[2]
    BY <2>2, OutcomeOf
  <2>4. /\ TabStep(t) /\ pc'[t] = "apply" /\ pc[t] = "wait"
        /\ pass'[t].answer = a /\ pass'[t].op = o
    BY <1>10, <2>1, <2>2, <2>3, AnsweredStep DEF Serve
  <2>5. /\ sales' = sales \/ sales' = sales \cup {o}
        /\ a = "ok" => o \in sales'
        /\ a = "refused" => o \notin sales'
        /\ a \in {"auth", "inactive", "denied"} => sales' = sales
        /\ late' = late
    BY <1>10, <2>2, <2>3, OutcomeOf DEF Serve
  <2>6. Move(t)
    BY <1>10, <2>1, <2>4, <2>5 DEF Serve, Database, History, Move, Hears
  <2>7. \A n \in Op : Recording(n)
    BY <2>1, <2>4, <2>5 DEF Recording
  <2> QED
    BY <1>1, <1>2, <1>10, <2>4, <2>5, <2>6, <2>7 DEF Serve, History, Grows
<1>11. ASSUME LoseAnswer(t) \/ Cancel(t)
       PROVE  TabStep(t) /\ Move(t) /\ pass[t] # Absent /\ Grows
  <2>1. PICK o : o = pass[t].op
    OBVIOUS
  <2>2. o \in Op /\ pc[t] = "wait"
    BY <1>1, <1>11, <2>1 DEF LoseAnswer, Cancel, At, InHand
  <2>3. PICK a \in {"network", "aborted"} : Answered(t, a)
    BY <1>11 DEF LoseAnswer, Cancel
  <2>4. TabStep(t) /\ pc'[t] = "apply" /\ pass'[t].answer = a /\ pass'[t].op = o
    BY <2>1, <2>2, <2>3, AnsweredStep DEF Answer
  <2>5. GivenUp(o)
    BY <1>11, <2>1 DEF LoseAnswer, Cancel
  <2>6. /\ sales' \subseteq sales \cup {o} /\ sales \subseteq sales'
        /\ late' \subseteq late \cup {o}
    BY <2>2, <2>5, GivenUpRest
  <2>7. Move(t)
    BY <1>11, <2>1, <2>2, <2>3, <2>4 DEF LoseAnswer, Cancel, Database, Move, Hears
  <2>8. \A n \in Op : Recording(n)
    BY <2>1, <2>2, <2>4, <2>6 DEF Recording
  <2> QED
    BY <1>1, <1>2, <1>11, <2>2, <2>4, <2>6, <2>7, <2>8 DEF LoseAnswer, Cancel, Grows
<1>12. CASE Apply(t)
  <2>1. /\ TabStep(t) /\ pc'[t] \in {"head", "release", "block"}
        /\ pass[t].op \in Op /\ OnlyAt(pass[t].op)
        /\ ops[pass[t].op] # Absent => Given(ops'[pass[t].op], ops[pass[t].op], pass[t])
    BY <1>12, ApplyStep
  <2>2. ops'[pass[t].op] = Absent \/ ops'[pass[t].op].status # "syncing"
    BY <2>1 DEF OnlyAt, Given
  <2>3. DoubtsGrow
    BY <1>12 DEF Apply, DoubtsGrow
  <2> QED
    BY <1>1, <1>2, <1>12, <2>1, <2>2, <2>3 DEF Apply, At, World, Move, Aside, ToHead, Grows
<1>13. CASE Block(t)
  <2>1. TabStep(t) /\ pc'[t] = "release"
    BY <1>13, PutDownStep DEF Block, At, Stage, InHand
  <2> QED
    BY <1>1, <1>2, <1>13, <2>1 DEF Block, At, World, History, Move, Aside, Grows
<1>14. CASE Release(t)
  <2>1. TabStep(t) /\ pc'[t] = "idle"
    BY <1>14, EndStep DEF Release
  <2> QED
    BY <1>1, <1>2, <1>14, <2>1 DEF Release, At, World, History, Move, Aside, Grows
<1> QED
  BY <1>3, <1>4, <1>5, <1>6, <1>7, <1>8, <1>9, <1>10, <1>11, <1>12, <1>13, <1>14 DEF Step

LEMMA TabMoves ==
  ASSUME Typed, NEW t \in Tab,
         StartPass(t) \/ Renew(t) \/ Freeze(t) \/ Thaw(t) \/ Stop(t) \/ Close(t)
  PROVE  TabStep(t) /\ Move(t) /\ Begins(t) /\ Grows
<1>1. /\ UNCHANGED <<late, sales>> => \A o \in Op : Recording(o)
      /\ overlap' = overlap => (overlap => overlap')
      /\ Take(t) => (overlap => overlap')
      /\ Doubts' = Doubts => DoubtsGrow
  BY DEF Recording, Take, Doubts, DoubtsGrow
<1>2. CASE StartPass(t)
  <2>1. Begins(t)
    BY <1>2, StartStep DEF StartPass, Take, Begins, TabStep
  <2> QED
    BY <1>1, <1>2, <2>1, StartStep DEF StartPass, World, History, Move, Aside, Grows
<1>3. CASE Renew(t)
  <2>1. pass[t] # Absent /\ pc' = pc
    BY <1>3 DEF Renew, Running
  <2>2. CASE UNCHANGED pass
    <3>1. TabStep(t) /\ Move(t)
      BY <2>1, <2>2 DEF TabStep, Typed, TypeOK, PassOK, Move, Same
    <3> QED
      BY <1>1, <1>3, <2>1, <3>1 DEF Renew, World, History, Begins, Grows
  <2>3. CASE pass' = [pass EXCEPT ![t].aborted = TRUE]
    <3>1. TabStep(t) /\ Move(t)
      BY <2>1, <2>3, AbortStep DEF Move, Same
    <3> QED
      BY <1>1, <1>3, <2>1, <3>1 DEF Renew, World, History, Begins, Grows
  <2> QED
    BY <1>3, <2>2, <2>3 DEF Renew
<1>4. ASSUME Freeze(t) \/ Thaw(t)
      PROVE  TabStep(t) /\ Move(t) /\ Begins(t) /\ Grows
  <2>1. TabStep(t) /\ Move(t) /\ Begins(t)
    BY <1>4 DEF Freeze, Thaw, TabStep, Typed, TypeOK, PassOK, Move, Same, Begins
  <2> QED
    BY <1>1, <1>4, <2>1 DEF Freeze, Thaw, World, History, Grows
<1>5. CASE Stop(t)
  <2>1. TabStep(t) /\ Move(t) /\ pass[t] # Absent
    BY <1>5, AbortStep DEF Stop, Running, Move, Same
  <2> QED
    BY <1>1, <1>5, <2>1 DEF Stop, World, Begins, Grows
<1>6. CASE Close(t)
  <2>1. TabStep(t) /\ Move(t) /\ pass'[t] = Absent
    BY <1>6, EndStep DEF Close, Move, Aside
  <2>2. /\ sales' = sales /\ pc'[t] = "idle"
        /\ late' = late \/ (pc[t] = "wait" /\ late' = late \cup {pass[t].op})
    BY <1>6, EndStep DEF Close
  <2>3. \A o \in Op : Recording(o)
    BY <2>2 DEF Recording
  <2> QED
    BY <1>1, <1>6, <2>1, <2>2, <2>3 DEF Close, Begins, Grows
<1> QED
  BY <1>2, <1>3, <1>4, <1>5, <1>6

LEMMA Moves ==
  ASSUME Typed, Next
  PROVE  Grows /\ \A q \in Tab : Move(q) /\ Begins(q)
<1>1. ASSUME NEW t \in Tab, Step(t)
      PROVE  Grows /\ \A q \in Tab : Move(q) /\ Begins(q)
  BY <1>1, StepMoves, OthersMove DEF Begins
<1>2. ASSUME NEW t \in Tab,
             StartPass(t) \/ Renew(t) \/ Freeze(t) \/ Thaw(t) \/ Stop(t) \/ Close(t)
      PROVE  Grows /\ \A q \in Tab : Move(q) /\ Begins(q)
  BY <1>2, TabMoves, OthersMove
<1>3. UNCHANGED <<pc, pass>> => \A q \in Tab : Move(q) /\ Begins(q)
  BY DEF Move, Same, Begins
<1>4. CASE User
  <2>1. UNCHANGED <<pc, pass, late, sales, overlap>> /\ DoubtsGrow
    BY <1>4 DEF User, Enqueue, Expedite, Resend, Abandon, DeleteAll,
                ClearSubscriptionBlock, Relogin, Passes, World, History, Doubts, DoubtsGrow
  <2> QED
    BY <1>3, <2>1 DEF Grows, Recording
<1>5. ASSUME NEW o \in Op, ServeLate(o)
      PROVE  Grows /\ \A q \in Tab : Move(q) /\ Begins(q)
  <2>1. UNCHANGED <<pc, pass, overlap>> /\ o \in late
    BY <1>5 DEF ServeLate, Passes
  <2>2. sales' = sales \/ sales' = sales \cup {o}
    BY <1>5, OutcomeOf DEF ServeLate
  <2>3. /\ DoubtsGrow /\ late' \subseteq late
        /\ sales' # sales /\ Refused(o) => o \in overtaken'
    BY <1>5 DEF ServeLate, DoubtsGrow
  <2>4. \A n \in Op : Recording(n)
    BY <2>1, <2>2, <2>3 DEF Recording
  <2> QED
    BY <1>3, <2>1, <2>2, <2>3, <2>4 DEF Grows
<1>6. ASSUME (\E o \in Op : Due(o) \/ Age(o)) \/ LeaseEnds
      PROVE  Grows /\ \A q \in Tab : Move(q) /\ Begins(q)
  <2>1. UNCHANGED <<pc, pass, late, sales, overlap, Doubts>>
    BY <1>6 DEF Due, Age, LeaseEnds, Passes, World, History
  <2>2. DoubtsGrow
    BY <2>1 DEF Doubts, DoubtsGrow
  <2> QED
    BY <1>3, <2>1, <2>2 DEF Grows, Recording
<1> QED
  BY <1>1, <1>2, <1>4, <1>5, <1>6 DEF Next

----------------------------------------------------------------------------
(* What is shown as recorded is *)

Honest ==
  /\ SyncedIsRecorded
  /\ \A t \in Tab : pc[t] = "apply" /\ pass[t].answer = "ok" => pass[t].op \in sales

LEMMA NextHonest == Typed /\ Honest /\ [Next]_vars => Honest'
<1>1. ASSUME Typed, Honest, Next
      PROVE  Honest'
  <2>1. sales \subseteq sales' /\ \A q \in Tab : Move(q)
    BY <1>1, Moves DEF Grows
  <2>2. ASSUME NEW o \in Op, Is(o, "synced")'
        PROVE  o \in sales'
    <3>1. ops'[o] # Absent /\ ops'[o].status = "synced"
      BY <2>2 DEF Is
    <3>2. CASE Kept(o) \/ Gone(o)
      BY <1>1, <2>1, <3>1, <3>2 DEF Kept, Gone, StatusGiven, Honest, SyncedIsRecorded, Is
    <3>3. CASE Entered(o) \/ Left(o)
      BY <3>1, <3>3 DEF Entered, Left, Fresh
    <3>4. ASSUME NEW t \in Tab, PreparedBy(o, t)
          PROVE  o \in sales'
      <4>1. /\ ops[o] # Absent /\ ops'[o] = Prepared(ops[o]) /\ ops[o] \in Operation
        BY <3>4 DEF PreparedBy
      <4>2. ops[o].status = "synced"
        BY <3>1, <4>1, PreparedRecord
      <4> QED
        BY <1>1, <2>1, <4>1, <4>2 DEF Honest, SyncedIsRecorded, Is
    <3>5. ASSUME NEW t \in Tab, MarkedBy(o, t) \/ UndoneBy(o, t)
          PROVE  o \in sales'
      BY <3>1, <3>5 DEF MarkedBy, UndoneBy, StatusGiven
    <3>6. ASSUME NEW t \in Tab, AppliedBy(o, t)
          PROVE  o \in sales'
      BY <1>1, <2>1, <3>1, <3>6 DEF AppliedBy, Given, Honest
    <3> QED
      BY <1>1, <3>2, <3>3, <3>4, <3>5, <3>6, Changes DEF Change
  <2>3. ASSUME NEW t \in Tab, pc'[t] = "apply", pass'[t].answer = "ok"
        PROVE  pass'[t].op \in sales'
    <3>1. Same(t) \/ Hears(t)
      BY <2>1, <2>3 DEF Move, Aside, ToHead, TakesHead, Marks, Asks
    <3> QED
      BY <1>1, <2>1, <2>3, <3>1 DEF Same, Hears, Honest
  <2> QED
    BY <2>2, <2>3 DEF Honest, SyncedIsRecorded
<1>2. Honest /\ UNCHANGED vars => Honest'
  BY DEF vars, Honest, SyncedIsRecorded, Is
<1> QED
  BY <1>1, <1>2

\* SyncedIsRecorded: a sale that the application shows as recorded is recorded
\* on the server, whatever was lost, repeated or written by another tab.
THEOREM ShownIsRecorded == Spec => []SyncedIsRecorded
<1>1. Init => Honest
  BY DEF Init, Honest, SyncedIsRecorded, Is
<1>2. Honest => SyncedIsRecorded
  BY DEF Honest
<1> QED
  BY <1>1, <1>2, NextHonest, AlwaysTyped, PTL DEF Spec

----------------------------------------------------------------------------
(* One tab at a time *)

Alone == \A t, q \in Tab : pass[t] # Absent /\ pass[q] # Absent => t = q

Untried(o) == ops[o] # Absent /\ ops[o].attempts = 0

\* A request for it has been served or may be; its attempts are not all counted.
Reached   == sales \cup late
Uncounted == interrupted \cup resent

\* It waits, or has expired, without a counted attempt; it was refused.
Blank(o) ==
  /\ Untried(o)
  /\ Is(o, "pending") \/ (Is(o, "conflict") /\ ops[o].error = "EXPIRED")
Denied(o) == Is(o, "conflict") /\ ops[o].error = "refused"

\* What a request has reached does not wait or expire uncounted; what was
\* refused has no sale.
Sure(o) ==
  /\ o \in Reached \ Uncounted => ~ Blank(o)
  /\ o \in sales \ overtaken => ~ Denied(o)

\* The operation in hand is as the pass left it, unless it was deleted.
InHandAsLeft(t) ==
  /\ pc[t] = "mark" => ops[pass[t].op] = Absent \/ Is(pass[t].op, "pending")
  /\ pc[t] \in Marked => ops[pass[t].op] = Absent \/ Is(pass[t].op, "syncing")

\* No other is being sent, and none entered before it waits.
InTurn(t) ==
  /\ pc[t] = "head" => \A n \in Op : ~ Is(n, "syncing")
  /\ pc[t] \in {"mark"} \cup Marked =>
       \A n \in Op : Is(n, "syncing") => n = pass[t].op
  /\ pc[t] \in {"mark"} \cup Asking =>
       \A n \in Op : n < pass[t].op /\ Waiting(n) => n \in resent

\* Nor does one entered before an operation whose request comes late.
LateInTurn(o) ==
  o \in late => \A n \in Op : n < o /\ Waiting(n) => n \in resent

\* What the pass may conclude about its sale.
Known(t) ==
  /\ pc[t] \in Asking /\ pass[t].op \in Reached \ Uncounted => ~ Untried(pass[t].op)
  /\ pc[t] = "apply" /\ pass[t].answer = "refused" => pass[t].op \notin sales \ overtaken
  /\ pc[t] = "apply" /\ pass[t].answer \in {"auth", "inactive", "denied"} =>
       (pass[t].op \in Reached \ Uncounted => ~ Untried(pass[t].op))

Careful ==
  ~ overlap => /\ Alone
               /\ \A o \in Op : Sure(o) /\ LateInTurn(o)
               /\ \A t \in Tab : InHandAsLeft(t) /\ InTurn(t) /\ Known(t)

\* Everything holds before the step, and the step lets no two passes run.
CarefulStep == Typed /\ Next /\ Careful /\ ~ overlap'

LEMMA CarefulBefore ==
  ASSUME CarefulStep
  PROVE  /\ ~ overlap /\ Alone
         /\ \A o \in Op : Sure(o) /\ LateInTurn(o) /\ Change(o) /\ Recording(o)
         /\ \A t \in Tab : InHandAsLeft(t) /\ InTurn(t) /\ Known(t) /\ Move(t) /\ Begins(t)
         /\ sales \subseteq sales' /\ DoubtsGrow
  BY Moves, Changes DEF CarefulStep, Careful, Grows

\* Two tabs in a pass are one.
LEMMA OneTab ==
  ASSUME Typed, Alone, NEW t \in Tab, NEW q \in Tab, pc[t] # "idle", pc[q] # "idle"
  PROVE  t = q
  BY DEF Typed, TypeOK, Alone

LEMMA StillAlone ==
  ASSUME CarefulStep
  PROVE  Alone'
<1>1. ASSUME NEW t \in Tab, NEW q \in Tab, pass'[t] # Absent, pass'[q] # Absent, t # q
      PROVE  FALSE
  <2>1. pass[t] # Absent /\ pass[q] # Absent
    BY <1>1, CarefulBefore DEF Begins, CarefulStep
  <2> QED
    BY <1>1, <2>1, CarefulBefore DEF Alone
<1> QED
  BY <1>1 DEF Alone

\* What a request reaches anew is in the hand of a pass.
LEMMA ReachedAnew ==
  ASSUME CarefulStep, NEW o \in Op, o \in Reached' \ Reached
  PROVE  \E t \in Tab : pc[t] = "wait" /\ pc'[t] \in {"apply", "idle"} /\ pass[t].op = o
  BY CarefulBefore DEF Recording, Reached

\* What a request has reached does not become blank.
LEMMA StillCounted ==
  ASSUME CarefulStep, NEW o \in Op, o \in Reached' \ Uncounted', ops'[o] # Absent
  PROVE  ~ Blank(o)'
<1>1. /\ o \in Reached => ~ Blank(o)
      /\ o \notin Uncounted /\ Alone /\ Typed /\ Change(o)
      /\ \A t \in Tab : InHandAsLeft(t) /\ Known(t)
  BY CarefulBefore DEF CarefulStep, Sure, Uncounted, DoubtsGrow
<1>2. ASSUME o \notin Reached
      PROVE  \E t \in Tab : pc[t] = "wait" /\ pass[t].op = o
  BY <1>2, ReachedAnew
<1>3. ops[o] # Absent /\ o \notin Reached => Is(o, "syncing")
  BY <1>1, <1>2 DEF InHandAsLeft, Marked
<1>4. CASE Kept(o)
  BY <1>1, <1>3, <1>4 DEF Kept, StatusGiven, Blank, Untried, Is
<1>5. CASE Entered(o)
  <2>1. o \notin Reached
    BY <1>1, <1>5 DEF Entered, Typed, Op, Reached
  <2>2. PICK t \in Tab : pc[t] = "wait" /\ pass[t].op = o
    BY <1>2, <2>1
  <2>3. o < next
    BY <1>1, <2>2 DEF Typed, PassOK, InHand
  <2> QED
    BY <1>5, <2>3 DEF Entered, Op
<1>6. CASE Left(o)
  BY <1>6 DEF Left, Is, Blank, Uncounted
<1>7. ASSUME NEW t \in Tab, PreparedBy(o, t)
      PROVE  ~ Blank(o)'
  <2>1. /\ ops[o] # Absent /\ ops[o] \in Operation /\ ops'[o] = Prepared(ops[o])
        /\ ~ Is(o, "syncing")
    BY <1>7 DEF PreparedBy, Uncounted
  <2>2. ~ Blank(o)
    BY <1>1, <1>3, <2>1
  <2>3. /\ ops'[o].attempts = ops[o].attempts
        /\ ops[o].status # "pending" => ops'[o] = ops[o]
    BY <2>1, PreparedRecord DEF Is
  <2> QED
    BY <2>1, <2>2, <2>3 DEF Blank, Untried, Is
<1>8. ASSUME NEW t \in Tab, MarkedBy(o, t)
      PROVE  ~ Blank(o)'
  BY <1>8 DEF MarkedBy, StatusGiven, Is, Blank
<1>9. ASSUME NEW t \in Tab, UndoneBy(o, t)
      PROVE  ~ Blank(o)'
  <2>1. /\ pc[t] = "undo" /\ pass[t].op = o
        /\ ops[o] # Absent /\ ops'[o].attempts = ops[o].attempts
    BY <1>9 DEF UndoneBy, StatusGiven
  <2>2. o \in Reached
    BY <1>1, <1>2, <2>1, OneTab
  <2> QED
    BY <1>1, <2>1, <2>2 DEF Known, Asking, Blank, Untried
<1>10. ASSUME NEW t \in Tab, AppliedBy(o, t)
       PROVE  ~ Blank(o)'
  <2>1. /\ pc[t] = "apply" /\ pass[t].op = o /\ ops[o] # Absent
        /\ Given(ops'[o], ops[o], pass[t]) /\ pass[t].answer # "aborted"
    BY <1>10 DEF AppliedBy, Uncounted
  <2>2. o \in Reached
    BY <1>1, <1>2, <2>1, OneTab
  <2>3. pass[t].answer \in {"auth", "inactive", "denied"} => ops[o].attempts # 0
    BY <1>1, <2>1, <2>2 DEF Known, Untried
  <2>4. /\ ops'[o].status = "conflict" => ops'[o].error # "EXPIRED"
        /\ ops'[o].status = "pending" => ops'[o].attempts # 0
    BY <2>1, <2>3, OutboxAssumption DEF Given, Operation
  <2> QED
    BY <2>4 DEF Is, Blank, Untried
<1> QED
  BY <1>1, <1>4, <1>5, <1>6, <1>7, <1>8, <1>9, <1>10 DEF Change, Gone

\* What has a sale that has overtaken nothing does not become refused.
LEMMA StillAnswered ==
  ASSUME CarefulStep, NEW o \in Op, o \in sales' \ overtaken', ops'[o] # Absent
  PROVE  ~ Denied(o)'
<1>1. /\ o \in sales => ~ Denied(o)
      /\ o \notin overtaken /\ Alone /\ Typed /\ Change(o)
      /\ \A t \in Tab : InHandAsLeft(t) /\ Known(t)
  BY CarefulBefore DEF CarefulStep, Sure, DoubtsGrow
<1>2. ASSUME o \notin sales
      PROVE  (\E t \in Tab : pc[t] = "wait" /\ pass[t].op = o) \/ ~ Refused(o)
  BY <1>2, CarefulBefore DEF Recording
<1>3. ~ Denied(o)
  <2>1. ASSUME NEW t \in Tab, pc[t] = "wait", pass[t].op = o
        PROVE  ~ Denied(o)
    BY <1>1, <2>1 DEF InHandAsLeft, Marked, Denied, Is
  <2> QED
    BY <1>1, <1>2, <2>1 DEF Refused, Denied
<1>4. CASE Kept(o)
  BY <1>3, <1>4 DEF Kept, StatusGiven, Denied, Is
<1>5. CASE Entered(o) \/ Left(o)
  BY <1>5 DEF Entered, Left, Fresh, Denied, Is
<1>6. ASSUME NEW t \in Tab, PreparedBy(o, t)
      PROVE  ~ Denied(o)'
  <2>1. ops[o] # Absent /\ ops[o] \in Operation /\ ops'[o] = Prepared(ops[o])
    BY <1>6 DEF PreparedBy
  <2> QED
    BY <1>3, <2>1, PreparedRecord DEF Denied, Is
<1>7. ASSUME NEW t \in Tab, MarkedBy(o, t) \/ UndoneBy(o, t)
      PROVE  ~ Denied(o)'
  BY <1>7 DEF MarkedBy, UndoneBy, StatusGiven, Is, Denied
<1>8. ASSUME NEW t \in Tab, AppliedBy(o, t), Denied(o)'
      PROVE  FALSE
  <2>1. pc[t] = "apply" /\ pass[t].op = o /\ Given(ops'[o], ops[o], pass[t])
    BY <1>8 DEF AppliedBy
  <2>2. pass[t].answer = "refused"
    BY <1>8, <2>1 DEF Given, Denied, Is
  <2>3. o \notin sales
    BY <1>1, <2>1, <2>2 DEF Known
  <2>4. pass[t] # Absent
    BY <1>1, <2>1 DEF Typed, TypeOK
  <2>5. Refused(o)
    BY <2>1, <2>2, <2>4 DEF Refused
  <2> QED
    BY <1>1, <1>2, <2>1, <2>3, <2>5, OneTab
<1> QED
  BY <1>1, <1>4, <1>5, <1>6, <1>7, <1>8 DEF Change, Gone

LEMMA StillSure ==
  ASSUME CarefulStep, NEW o \in Op
  PROVE  Sure(o)'
<1>1. ops'[o] = Absent => ~ Blank(o)' /\ ~ Denied(o)'
  BY DEF Blank, Denied, Untried, Is
<1> QED
  BY <1>1, StillCounted, StillAnswered DEF Sure

\* While t is in a pass the other tabs change no operation and record nothing.
ByItself(t) ==
  /\ \A o \in Op, q \in Tab :
       PreparedBy(o, q) \/ MarkedBy(o, q) \/ UndoneBy(o, q) \/ AppliedBy(o, q) => q = t
  /\ \A o \in Op : o \in Reached' \ Reached =>
       pc[t] = "wait" /\ pc'[t] \in {"apply", "idle"} /\ pass[t].op = o
  /\ \A o \in Op : o \in sales' \ sales =>
       \/ pc[t] = "wait" /\ pc'[t] = "apply" /\ pass[t].op = o
       \/ Refused(o) => o \in overtaken'

LEMMA OnlyOneActs ==
  ASSUME CarefulStep, NEW t \in Tab, pc[t] # "idle"
  PROVE  ByItself(t)
<1>1. Typed /\ Alone /\ \A o \in Op : Recording(o)
  BY CarefulBefore DEF CarefulStep
<1>2. \A q \in Tab : pc[q] # "idle" => q = t
  BY <1>1, OneTab
<1> QED
  BY <1>1, <1>2, ReachedAnew
     DEF ByItself, PreparedBy, MarkedBy, UndoneBy, AppliedBy, Recording

\* While t is past its preparation, what becomes of an operation that t does
\* not write is little.
LEMMA Elsewhere ==
  ASSUME CarefulStep, NEW t \in Tab, NEW o \in Op,
         \/ pc[t] \in {"head", "send", "wait"}
         \/ pc[t] \in {"mark", "undo", "apply"} /\ (pc'[t] = pc[t] \/ o # pass[t].op)
  PROVE  Gone(o) \/ Kept(o) \/ Entered(o) \/ Left(o)
<1>1. ByItself(t) /\ Change(o)
  BY OnlyOneActs, CarefulBefore
<1> QED
  BY <1>1 DEF ByItself, Change, PreparedBy, MarkedBy, UndoneBy, AppliedBy

\* The operation in hand goes on as it is, or is deleted.
LEMMA InHandKept ==
  ASSUME CarefulStep, NEW t \in Tab, NEW status \in {"pending", "syncing"},
         pc[t] \in {"mark"} \cup Marked, pass'[t].op = pass[t].op,
         pc'[t] = pc[t] \/ pc[t] \in {"send", "wait"},
         ops[pass[t].op] = Absent \/ Is(pass[t].op, status)
  PROVE  /\ pass[t].op \in Op
         /\ Gone(pass[t].op) \/ Kept(pass[t].op)
         /\ ops'[pass[t].op] = Absent \/ Is(pass[t].op, status)'
<1>1. PICK o : o = pass[t].op
  OBVIOUS
<1>2. o \in Op /\ o < next /\ o # next
  BY <1>1 DEF CarefulStep, Typed, PassOK, InHand, Marked, Op
<1>3. Gone(o) \/ Kept(o) \/ Left(o)
  BY <1>1, <1>2, Elsewhere DEF Entered, Marked
<1>4. Gone(o) \/ Kept(o)
  BY <1>1, <1>3 DEF Left, Is
<1> QED
  BY <1>1, <1>2, <1>4 DEF Gone, Kept, StatusGiven, Is

LEMMA StillAsLeft ==
  ASSUME CarefulStep, NEW t \in Tab
  PROVE  InHandAsLeft(t)'
<1>1. Typed /\ Move(t) /\ InHandAsLeft(t)
  BY CarefulBefore DEF CarefulStep
<1>2. CASE Same(t)
  <2>1. ASSUME pc[t] = "mark"
        PROVE  ops'[pass[t].op] = Absent \/ Is(pass[t].op, "pending")'
    BY <1>1, <1>2, <2>1, InHandKept DEF Same, InHandAsLeft
  <2>2. ASSUME pc[t] \in Marked
        PROVE  ops'[pass[t].op] = Absent \/ Is(pass[t].op, "syncing")'
    BY <1>1, <1>2, <2>2, InHandKept DEF Same, InHandAsLeft
  <2> QED
    BY <1>2, <2>1, <2>2 DEF Same, InHandAsLeft, Is
<1>3. CASE Aside(t) \/ ToHead(t)
  BY <1>3 DEF Aside, ToHead, InHandAsLeft, Marked
<1>4. CASE TakesHead(t)
  <2>1. Is(Head, "pending")
    BY <1>1, <1>4, HeadOf DEF TakesHead
  <2> QED
    BY <1>4, <2>1 DEF TakesHead, InHandAsLeft, Marked, Is
<1>5. CASE Marks(t)
  BY <1>5 DEF Marks, StatusGiven, InHandAsLeft, Marked, Is
<1>6. CASE Asks(t) \/ Hears(t)
  BY <1>1, <1>6 DEF Asks, Hears, InHandAsLeft, Marked, Is
<1> QED
  BY <1>1, <1>2, <1>3, <1>4, <1>5, <1>6 DEF Move

\* An operation that t does not write is sent or waits only if it did, or if
\* it has just been entered, or if the user has it sent again.
LEMMA OthersInTurn ==
  ASSUME CarefulStep, NEW t \in Tab, NEW o \in Op,
         \/ pc[t] \in {"head", "send", "wait"}
         \/ pc[t] \in {"mark", "undo", "apply"} /\ (pc'[t] = pc[t] \/ o # pass[t].op)
  PROVE  /\ Is(o, "syncing")' => Is(o, "syncing")
         /\ Waiting(o)' => Waiting(o) \/ o = next \/ o \in resent'
<1>1. Gone(o) \/ Kept(o) \/ Entered(o) \/ Left(o)
  BY Elsewhere
<1> QED
  BY <1>1 DEF Gone, Kept, Entered, Left, StatusGiven, Fresh, Waiting, Is

LEMMA StillInTurn ==
  ASSUME CarefulStep, NEW t \in Tab
  PROVE  InTurn(t)'
<1>1. Typed /\ Move(t) /\ InTurn(t) /\ resent \subseteq resent' /\ InHandAsLeft(t)
  BY CarefulBefore DEF CarefulStep, DoubtsGrow
<1>2. pc[t] \in InHand => pass[t].op \in Op /\ pass[t].op < next
  BY <1>1 DEF Typed, PassOK
<1>3. \A o \in Op : o < pass[t].op /\ pc[t] \in InHand => o # next
  BY <1>2 DEF Op
<1>4. CASE Same(t)
  <2>1. ASSUME pc[t] = "head", NEW o \in Op
        PROVE  ~ Is(o, "syncing")'
    BY <1>1, <2>1, OthersInTurn DEF InTurn
  <2>2. ASSUME pc[t] \in {"mark"} \cup Marked, NEW o \in Op, Is(o, "syncing")'
        PROVE  o = pass[t].op
    BY <1>1, <1>4, <2>2, OthersInTurn DEF InTurn, Same, Marked
  <2>3. ASSUME pc[t] \in {"mark"} \cup Asking, NEW o \in Op, o < pass[t].op, Waiting(o)'
        PROVE  o \in resent'
    <3>1. Waiting(o) \/ o = next \/ o \in resent'
      BY <1>4, <2>3, OthersInTurn DEF Same, Asking
    <3> QED
      BY <1>1, <1>3, <2>3, <3>1 DEF InTurn, Asking, InHand
  <2> QED
    BY <1>4, <2>1, <2>2, <2>3 DEF InTurn, Same
<1>5. CASE Aside(t)
  BY <1>5 DEF Aside, InTurn, Marked, Asking
<1>6. CASE ToHead(t)
  <2>1. ASSUME NEW o \in Op, pc[t] = "apply", ops'[pass[t].op] = Absent
                                  \/ ops'[pass[t].op].status # "syncing"
        PROVE  ~ Is(o, "syncing")'
    BY <1>1, <2>1, OthersInTurn DEF InTurn, Marked, Is
  <2>2. \A o \in Op : ~ Is(o, "syncing")'
    BY <1>6, <2>1 DEF ToHead
  <2> QED
    BY <1>6, <2>2 DEF ToHead, InTurn, Marked, Asking
<1>7. CASE TakesHead(t)
  <2>1. \A o \in Op : ~ Is(o, "syncing") /\ ~ Is(o, "syncing")'
    BY <1>1, <1>7 DEF TakesHead, InTurn, Is
  <2>2. Head \in Op /\ \A o \in Op : Is(o, "pending") => Head <= o
    BY <1>1, <1>7, HeadOf DEF TakesHead
  <2>3. \A o \in Op : o < Head => ~ Waiting(o)
    BY <2>1, <2>2 DEF Waiting, Op
  <2>4. \A o \in Op : o < Head => ~ Waiting(o)'
    BY <1>7, <2>3 DEF TakesHead, Waiting, Is
  <2> QED
    BY <1>7, <2>1, <2>4 DEF TakesHead, InTurn
<1>8. CASE Marks(t)
  <2>1. ASSUME NEW o \in Op, o # pass[t].op
        PROVE  (Is(o, "syncing")' <=> Is(o, "syncing")) /\ (Waiting(o)' <=> Waiting(o))
    BY <1>8, <2>1 DEF Marks, OnlyAt, Is, Waiting
  <2>2. \A o \in Op : o < pass[t].op => o # pass[t].op
    BY <1>2, <1>8 DEF Marks, InHand, Op
  <2> QED
    BY <1>1, <1>8, <2>1, <2>2 DEF Marks, InTurn, Marked, Asking
<1>9. CASE Asks(t) \/ Hears(t)
  BY <1>1, <1>9 DEF Asks, Hears, InTurn, Marked, Asking, Is, Waiting
<1> QED
  BY <1>1, <1>4, <1>5, <1>6, <1>7, <1>8, <1>9 DEF Move

\* An operation waits only if it did, or if it has just been entered, or if the
\* user has it sent again.
LEMMA WaitsAnew ==
  ASSUME CarefulStep, NEW n \in Op, Waiting(n)'
  PROVE  Waiting(n) \/ n = next \/ n \in resent'
<1>1. Change(n) /\ \A t \in Tab : InHandAsLeft(t)
  BY CarefulBefore
<1>2. CASE Gone(n) \/ Kept(n) \/ Entered(n) \/ Left(n)
  BY <1>2 DEF Gone, Kept, Entered, Left, StatusGiven, Fresh, Waiting, Is
<1>3. ASSUME NEW t \in Tab, PreparedBy(n, t)
      PROVE  Waiting(n)
  BY <1>3, PreparedRecord DEF PreparedBy, Waiting, Is
<1>4. ASSUME NEW t \in Tab, MarkedBy(n, t) \/ UndoneBy(n, t) \/ AppliedBy(n, t)
      PROVE  Waiting(n)
  BY <1>1, <1>4 DEF MarkedBy, UndoneBy, AppliedBy, InHandAsLeft, Marked, Waiting
<1> QED
  BY <1>1, <1>2, <1>3, <1>4 DEF Change

LEMMA StillLateInTurn ==
  ASSUME CarefulStep, NEW o \in Op
  PROVE  LateInTurn(o)'
<1> SUFFICES ASSUME o \in late', NEW n \in Op, n < o, Waiting(n)'
             PROVE  n \in resent'
  BY DEF LateInTurn
<1>1. Typed /\ LateInTurn(o) /\ Recording(o) /\ resent \subseteq resent'
  BY CarefulBefore DEF CarefulStep, DoubtsGrow
<1>2. Waiting(n) \/ n = next \/ n \in resent'
  BY WaitsAnew
<1>3. CASE o \in late
  <2>1. n # next
    BY <1>1, <1>3 DEF Typed, Op
  <2> QED
    BY <1>1, <1>2, <1>3, <2>1 DEF LateInTurn
<1>4. CASE o \notin late
  <2>1. PICK t \in Tab : pc[t] = "wait" /\ pass[t].op = o
    BY <1>1, <1>4 DEF Recording
  <2>2. n # next
    BY <1>1, <2>1 DEF Typed, PassOK, InHand, Op
  <2>3. InTurn(t)
    BY CarefulBefore
  <2> QED
    BY <1>1, <1>2, <2>1, <2>2, <2>3 DEF InTurn, Asking
<1> QED
  BY <1>3, <1>4

LEMMA StillKnown ==
  ASSUME CarefulStep, NEW t \in Tab
  PROVE  Known(t)'
<1>1. Typed /\ Move(t) /\ Known(t) /\ InHandAsLeft(t)
  BY CarefulBefore DEF CarefulStep
<1>2. pc[t] # "idle" => ByItself(t)
  BY OnlyOneActs
<1>3. pc[t] \in InHand => pass[t].op \in Op
  BY <1>1 DEF Typed, PassOK
<1>4. Uncounted \subseteq Uncounted' /\ overtaken \subseteq overtaken'
  BY CarefulBefore DEF DoubtsGrow, Uncounted
<1>5. CASE Same(t)
  <2>1. ASSUME pc[t] \in Marked
        PROVE  Gone(pass[t].op) \/ Kept(pass[t].op)
    BY <1>1, <1>5, <2>1, InHandKept DEF Same, InHandAsLeft
  <2>2. ASSUME pc[t] \in Marked, Untried(pass[t].op)'
        PROVE  Untried(pass[t].op)
    BY <1>5, <2>1, <2>2 DEF Same, Gone, Kept, StatusGiven, Untried
  <2>3. ASSUME pc[t] \in Marked, pass[t].op \in Reached' \ Uncounted'
        PROVE  pass[t].op \in Reached \ Uncounted
    BY <1>2, <1>3, <1>4, <1>5, <2>3 DEF Same, ByItself, Marked, InHand
  <2>4. ASSUME pc[t] = "apply", pass[t].answer = "refused"
        PROVE  pass[t].op \notin sales' \ overtaken'
    <3>1. pass[t].op \in sales => pass[t].op \in overtaken'
      BY <1>1, <1>4, <2>4 DEF Known
    <3>2. pass[t] # Absent
      BY <1>1, <2>4 DEF Typed, TypeOK
    <3>3. Refused(pass[t].op)
      BY <2>4, <3>2 DEF Refused
    <3> QED
      BY <1>2, <1>3, <2>4, <3>1, <3>3 DEF ByItself, InHand
  <2> QED
    BY <1>1, <1>5, <2>2, <2>3, <2>4 DEF Known, Same, Asking, Marked, Untried
<1>6. CASE Aside(t) \/ ToHead(t) \/ TakesHead(t)
  BY <1>6 DEF Aside, ToHead, TakesHead, Known, Asking
<1>7. CASE Marks(t)
  <2>1. Reached' = Reached /\ Uncounted' = Uncounted
    BY <1>7 DEF Marks, Reached, Uncounted, Doubts
  <2>2. SUFFICES ASSUME pass[t].op \in Reached \ Uncounted, ops'[pass[t].op] # Absent
                 PROVE  ops'[pass[t].op].attempts # 0
    BY <1>7, <2>1 DEF Marks, Known, Asking, Untried
  <2>3. Is(pass[t].op, "pending") /\ Sure(pass[t].op)
    BY <1>1, <1>3, <1>7, <2>2, CarefulBefore DEF Marks, OnlyAt, InHandAsLeft, InHand
  <2>4. ops'[pass[t].op].attempts = ops[pass[t].op].attempts
    BY <1>7, <2>2 DEF Marks, StatusGiven
  <2> QED
    BY <2>2, <2>3, <2>4 DEF Sure, Blank, Untried, Is
<1>8. CASE Asks(t)
  <2>1. Reached' = Reached /\ Uncounted' = Uncounted
    BY <1>8 DEF Asks, Reached, Uncounted, Doubts
  <2> QED
    BY <1>1, <1>8, <2>1 DEF Asks, Known, Asking, Untried
<1>9. CASE Hears(t)
  <2>1. /\ Uncounted' = Uncounted
        /\ UNCHANGED <<late, sales>> => Reached' = Reached
    BY <1>9 DEF Hears, Reached, Uncounted, Doubts
  <2> QED
    BY <1>1, <1>9, <2>1 DEF Hears, Known, Asking, Untried
<1> QED
  BY <1>1, <1>5, <1>6, <1>7, <1>8, <1>9 DEF Move

LEMMA NextCareful == Typed /\ Careful /\ [Next]_vars => Careful'
<1>1. ASSUME Typed, Careful, Next
      PROVE  Careful'
  <2>1. CASE overlap'
    BY <2>1 DEF Careful
  <2>2. CASE ~ overlap'
    <3>1. CarefulStep
      BY <1>1, <2>2 DEF CarefulStep
    <3> QED
      BY <3>1, StillAlone, StillSure, StillLateInTurn, StillAsLeft, StillInTurn, StillKnown
         DEF Careful
  <2> QED
    BY <2>1, <2>2
<1>2. ASSUME Careful, UNCHANGED vars
      PROVE  Careful'
  <2>1. UNCHANGED <<ops, pc, pass, late, sales, interrupted, resent, overtaken, overlap>>
    BY <1>2 DEF vars
  <2>2. Alone' <=> Alone
    BY <2>1 DEF Alone
  <2>3. \A o \in Op : (Sure(o)' <=> Sure(o)) /\ (LateInTurn(o)' <=> LateInTurn(o))
    BY <2>1 DEF Sure, LateInTurn, Reached, Uncounted, Blank, Denied, Is, Untried, Waiting
  <2>4. \A t \in Tab : (InHandAsLeft(t)' <=> InHandAsLeft(t)) /\ (InTurn(t)' <=> InTurn(t))
                       /\ (Known(t)' <=> Known(t))
    BY <2>1 DEF InHandAsLeft, InTurn, Known, Reached, Uncounted, Is, Waiting, Untried
  <2> QED
    BY <1>2, <2>1, <2>2, <2>3, <2>4 DEF Careful
<1> QED
  BY <1>1, <1>2

\* The inductive invariant of a partition whose tabs take turns: what a pass
\* has in hand is as it left it, no sale entered before it or before a late
\* request waits, no operation that a request has reached waits or expires
\* uncounted unless an attempt was cut short or the user had it sent again,
\* and none that was refused has a sale unless a late request overtook the
\* refusal.
THEOREM AlwaysCareful == Spec => []Careful
<1>1. Init => Careful
  BY DEF Init, Careful, Alone, Sure, LateInTurn, Reached, InHandAsLeft, InTurn, Known,
         Marked, Asking
<1> QED
  BY <1>1, NextCareful, AlwaysTyped, PTL DEF Spec

\* CorrectionsAreSafe: while no two passes have run at once, an operation that
\* the application lets the user correct has a sale only when it was refused
\* before an earlier request came late, or when it expired uncounted after an
\* attempt was cut short or the user had it sent again.
THEOREM SafeToCorrect == Spec => []CorrectionsAreSafe
<1>1. ASSUME Typed, Careful, ~ overlap, NEW o \in sales, MayCorrect(o)
      PROVE  /\ ops[o].error = "refused" => o \in overtaken
             /\ ops[o].error = "EXPIRED" => o \in interrupted \cup resent
  <2>1. o \in Op /\ o \in Reached /\ Sure(o)
    BY <1>1 DEF Typed, TypeOK, Reached, Careful
  <2> QED
    BY <1>1, <2>1 DEF Sure, MayCorrect, Is, Blank, Denied, Untried, Uncounted
<1>2. Typed /\ Careful => CorrectionsAreSafe
  BY <1>1 DEF CorrectionsAreSafe
<1> QED
  BY <1>2, AlwaysTyped, AlwaysCareful, PTL

\* FinalStays: while no two passes have run at once, no step takes back that an
\* operation is recorded or abandoned, the late writes of a pass included.
THEOREM FinalIsFinal == Spec => FinalStays
<1>1. ASSUME Typed, Careful, Next, ~ overlap, NEW o \in Op,
             Is(o, "synced") \/ Is(o, "abandoned"), ops'[o] # Absent
      PROVE  ops'[o].status = ops[o].status
  <2>1. Change(o) /\ \A t \in Tab : InHandAsLeft(t)
    BY <1>1, Changes DEF Careful
  <2>2. CASE Gone(o) \/ Kept(o) \/ Entered(o) \/ Left(o)
    BY <1>1, <2>2 DEF Gone, Kept, Entered, Left, StatusGiven, Is
  <2>3. ASSUME NEW t \in Tab, PreparedBy(o, t)
        PROVE  ops'[o].status = ops[o].status
    BY <1>1, <2>3, PreparedRecord DEF PreparedBy, Is
  <2>4. ASSUME NEW t \in Tab, MarkedBy(o, t) \/ UndoneBy(o, t) \/ AppliedBy(o, t)
        PROVE  ops'[o].status = ops[o].status
    BY <1>1, <2>1, <2>4 DEF MarkedBy, UndoneBy, AppliedBy, InHandAsLeft, Marked, Is
  <2> QED
    BY <2>1, <2>2, <2>3, <2>4 DEF Change
<1>2. Typed /\ Careful /\ [Next]_vars =>
        [~ overlap => \A o \in Op :
           (Is(o, "synced") \/ Is(o, "abandoned")) /\ ops'[o] # Absent
             => ops'[o].status = ops[o].status]_vars
  BY <1>1
<1> QED
  BY <1>2, AlwaysTyped, AlwaysCareful, PTL DEF Spec, FinalStays

\* SalesInOrder: while no two passes have run at once, a sale is recorded, by a
\* late request too, only when none entered before it waits, those aside that
\* the user has had sent again.
THEOREM RecordedInOrder == Spec => SalesInOrder
<1>1. ASSUME Typed, Careful, Next, ~ overlap,
             NEW o \in sales' \ sales, NEW n \in 1 .. o - 1, Waiting(n)
      PROVE  n \in resent
  <2>1. o \in Op
    <3>1. sales' \subseteq Op
      BY <1>1, NextTyped DEF Typed, TypeOK
    <3> QED
      BY <3>1
  <2>2. n \in Op /\ n < o
    BY <2>1, OutboxAssumption DEF Op
  <2>3. (\E t \in Tab : pc[t] = "wait" /\ pass[t].op = o) \/ o \in late
    BY <1>1, <2>1, Moves DEF Grows, Recording
  <2> QED
    BY <1>1, <2>1, <2>2, <2>3 DEF Careful, InTurn, LateInTurn, Asking
<1>2. Typed /\ Careful /\ [Next]_vars =>
        [~ overlap => \A o \in sales' \ sales : \A n \in 1 .. o - 1 :
           Waiting(n) => n \in resent]_vars
  BY <1>1
<1> QED
  BY <1>2, AlwaysTyped, AlwaysCareful, PTL DEF Spec, SalesInOrder

=============================================================================
