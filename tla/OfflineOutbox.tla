---------------------------- MODULE OfflineOutbox ----------------------------
(***************************************************************************)
(* The sales a user enters while offline wait in a database of the         *)
(* browser; every open tab may send them, one tab at a time.  One          *)
(* partition (a user in an organization) with its tabs, the requests under *)
(* way and what the server has recorded for each key (that a key records   *)
(* one sale is Sales' OneSalePerKey).  An operation is named by its seq.   *)
(***************************************************************************)
EXTENDS Naturals, FiniteSets, FiniteSetsExt

CONSTANTS
  MaxOps,     \* bound: operations entered
  Tab,        \* tabs of the application
  MaxServer,  \* OUTBOX_MAX_SERVER_ATTEMPTS
  Limit,      \* OUTBOX_MAX_UNFINALIZED_PER_PARTITION
  MaxFaults,  \* bound: crashes, suspensions, interruptions and late requests
  Absent      \* no operation, block, lease, pass or answer

ASSUME OutboxAssumption ==
  /\ MaxOps \in Nat \ {0} /\ MaxServer \in Nat \ {0} /\ Limit \in Nat \ {0}
  /\ MaxFaults \in Nat
  /\ Absent \notin Tab /\ Absent \notin Nat

VARIABLES
  ops,      \* the operations of the partition
  next,     \* nextSeq
  blocked,  \* why no pass may send, and under which token it was found
  locks,    \* the browser has Web Locks (else a lease)
  lease,    \* who holds the lock or the lease, and is the lease over
  token,    \* the session in the local storage
  pc,       \* pc[t]: what the pass of tab t does next
  pass,     \* pass[t]: what that pass has captured
  frozen,   \* the suspended tabs
  late,     \* operations with a request under way that nobody waits for
  sales,    \* the server: operations a sale is recorded for
  interrupted,  \* history: operations an attempt of which was cut short, uncounted
  resent,       \* history: operations whose count the user has started again
  overtaken,    \* history: operations refused before an earlier request came
  overlap,      \* history: two passes have run at once
  faults

vars == <<ops, next, blocked, locks, lease, token, pc, pass, frozen, late,
          sales, interrupted, resent, overtaken, overlap, faults>>

Op == 1 .. MaxOps

Status == {"pending", "syncing", "synced", "conflict", "abandoned"}

\* Why an operation is in conflict.
Reason == {"none", "refused", "EXPIRED", "SERVER_UNAVAILABLE"}

\* due: nextAttemptAt has come; old: entered more than 14 days ago.
Operation == [status : Status, attempts : 0 .. MaxServer, error : Reason,
              due : BOOLEAN, old : BOOLEAN]

Answer == {"ok", "refused", "server", "network", "auth", "inactive", "denied", "aborted"}

Stage == {"idle", "meta", "unblock", "prepare", "head", "mark", "send", "undo",
          "wait", "apply", "block", "release"}

\* op, attempts: the operation as the pass read it; no longer kept once its
\* outcome is written.
Pass == [tok : Nat, op : Op \cup {Absent}, attempts : 0 .. MaxServer,
         aborted : BOOLEAN, answer : Answer \cup {Absent}]

Lease == [owner : Tab, over : BOOLEAN]

\* Why nothing may be sent, and the session that was told.
Refusal == [reason : {"subscription", "access_denied"}, tok : Nat]

ASSUME OutboxSentinels ==
  Absent \notin Operation \cup Answer \cup Pass \cup Lease \cup Refusal

Init ==
  /\ ops = [o \in Op |-> Absent]
  /\ next = 1
  /\ blocked = Absent
  /\ locks \in BOOLEAN
  /\ lease = Absent
  /\ token = 1
  /\ pc = [t \in Tab |-> "idle"]
  /\ pass = [t \in Tab |-> Absent]
  /\ frozen = {}
  /\ late = {}
  /\ sales = {}
  /\ interrupted = {}
  /\ resent = {}
  /\ overtaken = {}
  /\ overlap = FALSE
  /\ faults = 0

----------------------------------------------------------------------------
(* Operations of the database; each is one transaction *)

Is(o, status) == ops[o] # Absent /\ ops[o].status = status
Waiting(o) == Is(o, "pending") \/ Is(o, "syncing")
Unfinalized == {o \in Op : Waiting(o) \/ Is(o, "conflict")}

\* Mutant of MayCorrect: whatever has expired may be corrected.
MayCorrectExpired(o) ==
  Is(o, "conflict") /\ ops[o].error \in {"refused", "EXPIRED"}

\* allowedOperationActions(...).edit, which is also where mayBeRecorded is
\* false and the stock is no longer reserved.
MayCorrect(o) ==
  /\ Is(o, "conflict")
  /\ \/ ops[o].error = "refused"
     \/ ops[o].error = "EXPIRED" /\ ops[o].attempts = 0

\* Mutant of MayAbandon: what waits to be sent may be abandoned.
MayAbandonPending(o) == Is(o, "conflict") \/ Is(o, "pending")

\* allowedOperationActions(...).abandon
MayAbandon(o) == Is(o, "conflict")

\* Mutant of Updated: the record is replaced.
UpdatedWhole(r, fields) == fields

\* What is left of r after the partial update `fields`.
Updated(r, fields) ==
  [x \in DOMAIN r |-> IF x \in DOMAIN fields THEN fields[x] ELSE r[x]]

\* updateOperation: whatever the operation has become since it was read.
Update(o, fields) ==
  ops' = IF ops[o] = Absent THEN ops
         ELSE [ops EXCEPT ![o] = Updated(@, fields)]

Fresh == [status |-> "pending", attempts |-> 0, error |-> "none",
          due |-> TRUE, old |-> FALSE]

Database == <<ops, next, blocked>>
Passes   == <<locks, lease, pc, pass, frozen, overlap>>
Holding  == <<locks, lease, pass, frozen, overlap>>
World    == <<token, late, sales>>
Doubts   == <<interrupted, resent, overtaken>>
History  == <<Doubts, faults>>

\* A sale is entered, or one is corrected: the new operation replaces it.
Enqueue(replaced) ==
  /\ next \in Op
  /\ replaced # Absent => MayCorrect(replaced)
  /\ Cardinality(Unfinalized \ {replaced}) < Limit
  /\ ops' = [o \in Op |-> IF o = next THEN Fresh
                          ELSE IF o = replaced THEN [ops[o] EXCEPT !.status = "abandoned"]
                          ELSE ops[o]]
  /\ next' = next + 1
  /\ UNCHANGED <<blocked, Passes, World, History>>

\* "sync-now" of a pending operation, or of all of them.
Expedite(some) ==
  /\ \A o \in some : Is(o, "pending")
  /\ \E o \in some : ~ ops[o].due
  /\ ops' = [o \in Op |-> IF o \in some THEN [ops[o] EXCEPT !.due = TRUE] ELSE ops[o]]
  /\ UNCHANGED <<next, blocked, Passes, World, History>>

\* The user has an operation sent again under its key.
Resend(o) ==
  /\ Is(o, "conflict") /\ ops[o].error = "SERVER_UNAVAILABLE"
  /\ ops' = [ops EXCEPT ![o] = [@ EXCEPT !.status = "pending", !.attempts = 0,
                                         !.error = "none", !.due = TRUE]]
  /\ resent' = resent \cup {o}
  /\ UNCHANGED <<next, blocked, Passes, World, interrupted, overtaken, faults>>

Abandon(o) ==
  /\ MayAbandon(o)
  /\ ops' = [ops EXCEPT ![o].status = "abandoned"]
  /\ UNCHANGED <<next, blocked, Passes, World, History>>

\* The user logs out of some tab and has everything deleted.
DeleteAll ==
  /\ faults < MaxFaults
  /\ \E o \in Op : ops[o] # Absent
  /\ ops' = [o \in Op |-> Absent]
  /\ blocked' = Absent
  /\ lease' = IF locks THEN lease ELSE Absent
  /\ faults' = faults + 1
  /\ UNCHANGED <<next, locks, pc, pass, frozen, overlap, World, Doubts>>

\* The server says that the subscription is active again.
ClearSubscriptionBlock ==
  /\ blocked # Absent /\ blocked.reason = "subscription"
  /\ blocked' = Absent
  /\ UNCHANGED <<ops, next, Passes, World, History>>

----------------------------------------------------------------------------
(* The pass of tab t *)

Running(t) == pass[t] # Absent /\ t \notin frozen
At(t, stage) == pc[t] = stage /\ t \notin frozen

Goto(t, stage) == pc' = [pc EXCEPT ![t] = stage]

\* What a pass has captured when it has no operation in hand.
Captured(tok, aborted) ==
  [tok |-> tok, op |-> Absent, attempts |-> 0, aborted |-> aborted, answer |-> Absent]

\* The iteration ends, or the pass.
PutDown(t) == pass' = [pass EXCEPT ![t] = Captured(@.tok, @.aborted)]

\* The guard of the session: the same token, and nobody stopped the pass.
Guard(t) == pass[t].tok = token /\ ~ pass[t].aborted

\* The lock is free; the lease is free, over, or t's own.
Available(t) ==
  lease # Absent => ~ locks /\ (lease.owner = t \/ lease.over)

\* Tab t takes the lock or the lease.
Take(t) ==
  /\ lease' = [owner |-> t, over |-> FALSE]
  /\ overlap' = (overlap \/ \E q \in Tab \ {t} : pass[q] # Absent)

\* Something may be sent: the pass captures the token and takes the lock.
StartPass(t) ==
  /\ At(t, "idle")
  /\ \E o \in Op : Waiting(o)
  /\ Available(t)
  /\ Take(t)
  /\ pass' = [pass EXCEPT ![t] = Captured(token, FALSE)]
  /\ Goto(t, "meta")
  /\ UNCHANGED <<Database, locks, frozen, World, History>>

\* A refusal of access is over with a new session, one of the subscription
\* only when the server says so.
ReadBlock(t) ==
  /\ At(t, "meta")
  /\ Goto(t, CASE blocked = Absent -> "prepare"
               [] blocked # Absent /\ blocked.reason = "access_denied"
                    /\ blocked.tok # pass[t].tok -> "unblock"
               [] OTHER -> "release")
  /\ UNCHANGED <<Database, Holding, World, History>>

Unblock(t) ==
  /\ At(t, "unblock")
  /\ blocked' = Absent
  /\ Goto(t, "prepare")
  /\ UNCHANGED <<ops, next, Holding, World, History>>

\* What was being sent is pending again; what has waited too long is not.
Prepared(r) ==
  IF r.status \notin {"pending", "syncing"} THEN r
  ELSE IF r.old THEN [r EXCEPT !.status = "conflict", !.error = "EXPIRED"]
  ELSE [r EXCEPT !.status = "pending"]

\* preparePartition; sales synced more than seven days ago are forgotten.
Prepare(t) ==
  /\ At(t, "prepare")
  /\ \E gone \in SUBSET {o \in Op : Is(o, "synced")} :
       ops' = [o \in Op |-> IF ops[o] = Absent \/ o \in gone THEN Absent
                            ELSE Prepared(ops[o])]
  /\ interrupted' = interrupted \cup {o \in Op : Is(o, "syncing")}
  /\ Goto(t, "head")
  /\ UNCHANGED <<next, blocked, Holding, World, resent, overtaken, faults>>

Pending == {o \in Op : Is(o, "pending")}

\* Mutant of Head: those that are not due yet do not keep the others waiting.
HeadDue ==
  LET ready == {o \in Pending : ops[o].due}
  IN  IF ready = {} THEN Min(Pending) ELSE Min(ready)

\* getHeadPending.
Head == Min(Pending)

\* The oldest pending operation is the one to send, if it is due.
ReadHead(t) ==
  /\ At(t, "head")
  /\ IF Guard(t) /\ Pending # {} /\ ops[Head].due
     THEN /\ pass' = [pass EXCEPT ![t] = [@ EXCEPT !.op = Head, !.attempts = ops[Head].attempts]]
          /\ Goto(t, "mark")
     ELSE Goto(t, "release") /\ UNCHANGED pass
  /\ UNCHANGED <<Database, locks, lease, frozen, overlap, World, History>>

Mark(t) ==
  /\ At(t, "mark")
  /\ Update(pass[t].op, [status |-> "syncing"])
  /\ Goto(t, "send")
  /\ UNCHANGED <<next, blocked, Holding, World, History>>

Send(t) ==
  /\ At(t, "send")
  /\ Goto(t, IF Guard(t) THEN "wait" ELSE "undo")
  /\ UNCHANGED <<Database, Holding, World, History>>

Undo(t) ==
  /\ At(t, "undo")
  /\ Update(pass[t].op, [status |-> "pending"])
  /\ PutDown(t) /\ Goto(t, "release")
  /\ UNCHANGED <<next, blocked, locks, lease, frozen, overlap, World, History>>

----------------------------------------------------------------------------
(* The server and the network *)

\* The sales recorded once the server has served a request for o, and what
\* it answers: a key already applied is replayed and never refused.
Outcomes(o) ==
  {<<sales \cup {o}, a>> : a \in {"ok", "server"}}
    \cup {<<sales, a>> : a \in {"server", "auth", "inactive", "denied"}}
    \cup (IF o \in sales THEN {} ELSE {<<sales, "refused">>})

Answered(t, a) == Goto(t, "apply") /\ pass' = [pass EXCEPT ![t].answer = a]

\* The request of t is served and answered.
Serve(t) ==
  /\ pc[t] = "wait" /\ ~ pass[t].aborted
  /\ \E out \in Outcomes(pass[t].op) : sales' = out[1] /\ Answered(t, out[2])
  /\ UNCHANGED <<Database, locks, lease, frozen, overlap, token, late, History>>

\* The request whose client gives up never reached the server, has been
\* served, or arrives later.
GivenUp(o) ==
  \/ UNCHANGED <<late, sales, faults>>
  \/ \E out \in Outcomes(o) : sales' = out[1] /\ UNCHANGED <<late, faults>>
  \/ /\ faults < MaxFaults /\ faults' = faults + 1
     /\ late' = late \cup {o} /\ UNCHANGED sales

\* The connection breaks, or no answer came within 30 s.
LoseAnswer(t) ==
  /\ At(t, "wait") /\ ~ pass[t].aborted
  /\ GivenUp(pass[t].op)
  /\ Answered(t, "network")
  /\ UNCHANGED <<Database, locks, lease, frozen, overlap, token, Doubts>>

\* The pass was stopped while it waited.
Cancel(t) ==
  /\ At(t, "wait") /\ pass[t].aborted
  /\ GivenUp(pass[t].op)
  /\ Answered(t, "aborted")
  /\ UNCHANGED <<Database, locks, lease, frozen, overlap, token, Doubts>>

\* The server has refused an attempt of o, and the pass has heard it.
Refused(o) ==
  \/ Is(o, "conflict") /\ ops[o].error = "refused"
  \/ \E t \in Tab : pass[t] # Absent /\ pass[t].op = o /\ pass[t].answer = "refused"

ServeLate(o) ==
  /\ o \in late
  /\ late' = late \ {o}
  /\ \E out \in Outcomes(o) : sales' = out[1]
  /\ overtaken' = IF sales' # sales /\ Refused(o) THEN overtaken \cup {o} ELSE overtaken
  /\ UNCHANGED <<Database, Passes, token, interrupted, resent, faults>>

----------------------------------------------------------------------------
(* The outcome of an attempt *)

\* Mutant of Classified: every answer 409 means that the key was applied.
ClassifiedApplied(a) ==
  CASE a \in {"ok", "refused"}      -> "synced"
    [] a \in {"server", "network"}  -> "retry"
    [] a = "auth"                   -> "stop-auth"
    [] a \in {"inactive", "denied"} -> "stop-block"
    [] a = "aborted"                -> "aborted"

\* classifySaleSyncOutcome.
Classified(a) ==
  CASE a = "ok"                     -> "synced"
    [] a = "refused"                -> "conflict"
    [] a \in {"server", "network"}  -> "retry"
    [] a = "auth"                   -> "stop-auth"
    [] a \in {"inactive", "denied"} -> "stop-block"
    [] a = "aborted"                -> "aborted"

\* applyDecision: what is written, and where the pass goes.
Decision(p) ==
  LET tried  == IF p.attempts < MaxServer THEN p.attempts + 1 ELSE MaxServer
      action == Classified(p.answer)
  IN  CASE action = "synced" ->
             [fields |-> [status |-> "synced", error |-> "none"], stage |-> "head"]
        [] action = "conflict" ->
             [fields |-> [status |-> "conflict", error |-> "refused"], stage |-> "head"]
        [] action = "retry" /\ p.answer = "server" /\ tried >= MaxServer ->
             [fields |-> [status |-> "conflict", error |-> "SERVER_UNAVAILABLE",
                          attempts |-> tried], stage |-> "head"]
        [] action = "retry" /\ ~ (p.answer = "server" /\ tried >= MaxServer) ->
             [fields |-> [status |-> "pending", attempts |-> tried, due |-> FALSE],
              stage |-> "release"]
        [] action = "stop-block" -> [fields |-> [status |-> "pending"], stage |-> "block"]
        [] OTHER -> [fields |-> [status |-> "pending"], stage |-> "release"]

Apply(t) ==
  LET d == Decision(pass[t])
  IN  /\ At(t, "apply")
      /\ Update(pass[t].op, d.fields)
      /\ interrupted' = IF pass[t].answer = "aborted" THEN interrupted \cup {pass[t].op}
                        ELSE interrupted
      /\ IF d.stage = "block" THEN UNCHANGED pass ELSE PutDown(t)
      /\ Goto(t, d.stage)
      /\ UNCHANGED <<next, blocked, locks, lease, frozen, overlap, World,
                     resent, overtaken, faults>>

Block(t) ==
  /\ At(t, "block")
  /\ blocked' = [reason |-> IF pass[t].answer = "inactive" THEN "subscription"
                            ELSE "access_denied",
                 tok |-> pass[t].tok]
  /\ PutDown(t) /\ Goto(t, "release")
  /\ UNCHANGED <<ops, next, locks, lease, frozen, overlap, World, History>>

Release(t) ==
  /\ At(t, "release")
  /\ lease' = IF lease # Absent /\ lease.owner = t THEN Absent ELSE lease
  /\ pass' = [pass EXCEPT ![t] = Absent]
  /\ Goto(t, "idle")
  /\ UNCHANGED <<Database, locks, frozen, overlap, World, History>>

----------------------------------------------------------------------------
(* Leases, time and failures *)

\* The timer of the lease: lost when another tab has it, taken otherwise.
Renew(t) ==
  /\ ~ locks /\ Running(t)
  /\ lease # Absent => lease.owner # t \/ lease.over
  /\ IF Available(t) THEN Take(t) /\ UNCHANGED pass
     ELSE /\ ~ pass[t].aborted /\ pass' = [pass EXCEPT ![t].aborted = TRUE]
          /\ UNCHANGED <<lease, overlap>>
  /\ UNCHANGED <<Database, locks, pc, frozen, World, History>>

\* Nobody renewed the lease for 30 s.
LeaseEnds ==
  /\ ~ locks /\ lease # Absent /\ ~ lease.over
  /\ ~ Running(lease.owner)
  /\ lease' = [lease EXCEPT !.over = TRUE]
  /\ UNCHANGED <<Database, locks, pc, pass, frozen, overlap, World, History>>

Due(o) ==
  /\ Is(o, "pending") /\ ~ ops[o].due
  /\ ops' = [ops EXCEPT ![o].due = TRUE]
  /\ UNCHANGED <<next, blocked, Passes, World, History>>

\* Fourteen days have passed since a sale was entered; what is settled keeps
\* no age.
Age(o) ==
  /\ o \in Unfinalized /\ ~ ops[o].old
  /\ \A n \in Unfinalized : n < o => ops[n].old
  /\ ops' = [ops EXCEPT ![o].old = TRUE]
  /\ UNCHANGED <<next, blocked, Passes, World, History>>

Fault == faults < MaxFaults /\ faults' = faults + 1

\* The tab is suspended, and resumes.
Freeze(t) ==
  /\ Fault /\ Running(t)
  /\ frozen' = frozen \cup {t}
  /\ UNCHANGED <<Database, locks, lease, pc, pass, overlap, World, Doubts>>

Thaw(t) ==
  /\ t \in frozen
  /\ frozen' = frozen \ {t}
  /\ UNCHANGED <<Database, locks, lease, pc, pass, overlap, World, History>>

\* The pass is stopped: logout, switch of organization, other session.
Stop(t) ==
  /\ Fault /\ Running(t) /\ ~ pass[t].aborted
  /\ pass' = [pass EXCEPT ![t].aborted = TRUE]
  /\ UNCHANGED <<Database, locks, lease, pc, frozen, overlap, World, Doubts>>

\* The user logs in again.
Relogin ==
  /\ Fault
  /\ token' = token + 1
  /\ UNCHANGED <<Database, Passes, late, sales, Doubts>>

\* The tab is closed: a Web Lock is given back, a lease is not.
Close(t) ==
  /\ pass[t] # Absent
  /\ faults < MaxFaults /\ faults' = faults + 1
  /\ IF pc[t] = "wait"
     THEN \/ UNCHANGED <<late, sales>>
          \/ late' = late \cup {pass[t].op} /\ UNCHANGED sales
     ELSE UNCHANGED <<late, sales>>
  /\ lease' = IF locks /\ lease # Absent /\ lease.owner = t THEN Absent ELSE lease
  /\ pass' = [pass EXCEPT ![t] = Absent]
  /\ Goto(t, "idle")
  /\ frozen' = frozen \ {t}
  /\ UNCHANGED <<Database, locks, overlap, token, Doubts>>

----------------------------------------------------------------------------

User ==
  \/ \E replaced \in Op \cup {Absent} : Enqueue(replaced)
  \/ \E o \in Op : Expedite({o}) \/ Resend(o) \/ Abandon(o)
  \/ Expedite(Pending)
  \/ DeleteAll \/ ClearSubscriptionBlock \/ Relogin

Step(t) ==
  \/ ReadBlock(t) \/ Unblock(t) \/ Prepare(t) \/ ReadHead(t) \/ Mark(t)
  \/ Send(t) \/ Undo(t) \/ Serve(t) \/ LoseAnswer(t) \/ Cancel(t)
  \/ Apply(t) \/ Block(t) \/ Release(t)

Next ==
  \/ User
  \/ \E t \in Tab : StartPass(t) \/ Step(t) \/ Renew(t)
                    \/ Freeze(t) \/ Thaw(t) \/ Stop(t) \/ Close(t)
  \/ \E o \in Op : ServeLate(o) \/ Due(o) \/ Age(o)
  \/ LeaseEnds

Spec == Init /\ [][Next]_vars

----------------------------------------------------------------------------
(* Properties *)

\* Every variable has its type; only a tab in a pass has captured one.
TypeOK ==
  /\ ops \in [Op -> Operation \cup {Absent}]
  /\ next \in 1 .. MaxOps + 1
  /\ \A o \in Op : ops[o] # Absent => o < next
  /\ blocked \in Refusal \cup {Absent}
  /\ blocked # Absent => blocked.tok \in 1 .. token
  /\ locks \in BOOLEAN
  /\ lease \in Lease \cup {Absent}
  /\ token \in 1 .. faults + 1
  /\ pc \in [Tab -> Stage]
  /\ pass \in [Tab -> Pass \cup {Absent}]
  /\ \A t \in Tab : pass[t] = Absent <=> pc[t] = "idle"
  /\ frozen \subseteq Tab /\ late \subseteq Op /\ sales \subseteq Op
  /\ interrupted \subseteq Op /\ resent \subseteq Op /\ overtaken \subseteq Op
  /\ overlap \in BOOLEAN /\ faults \in 0 .. MaxFaults

\* A sale shown as recorded is: whichever tab wrote it, after however many
\* lost answers ("une vente en attente = argent encaisse").
SyncedIsRecorded == \A o \in Op : Is(o, "synced") => o \in sales

\* A correction sends the sale under a new key.  While no two passes have run
\* at once, one is offered for a sale that is recorded only in three cases: it
\* was refused before an earlier request for it came late; or it expired with
\* no attempt counted, because an attempt was cut short or because the user
\* had it sent again.  In the first case every attempt may have been counted.
CorrectionsAreSafe ==
  ~ overlap => \A o \in sales : MayCorrect(o) =>
    /\ ops[o].error = "refused" => o \in overtaken
    /\ ops[o].error = "EXPIRED" => o \in interrupted \cup resent

\* The policy makes no exception ("une correction (nouvel UUID) n'est permise
\* que si la cle actuelle n'a CERTAINEMENT pas cree de vente").
CorrectionNeverDoubles == \A o \in Op : MayCorrect(o) => o \notin sales

\* What is recorded or abandoned stays so until it is forgotten, unless two
\* passes have run at once: the outcome of an attempt never lands on an
\* operation that was settled since it was read.
FinalStays ==
  [][~ overlap => \A o \in Op :
       (Is(o, "synced") \/ Is(o, "abandoned")) /\ ops'[o] # Absent
         => ops'[o].status = ops[o].status]_vars

\* The server records the sales in the order they were entered: while an
\* operation waits, be it for the end of a backoff or after an attempt whose
\* answer was lost, none entered later is recorded, by a late request either;
\* unless the user had the waiting one sent again (others may have passed it
\* while it was in conflict), or two passes have run at once.
SalesInOrder ==
  [][~ overlap => \A o \in sales' \ sales : \A n \in 1 .. o - 1 :
       Waiting(n) => n \in resent]_vars

=============================================================================
