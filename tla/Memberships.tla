------------------------------ MODULE Memberships ------------------------------
(***************************************************************************)
(* Concurrent requests about the members of one organization: invitations  *)
(* and their acceptance, changes of members, transfer of ownership,        *)
(* password resets, and the sockets that these close                       *)
(* (organizations.service.ts, invitation-acceptance.service.ts,            *)
(* password-reset.service.ts, socket-auth.middleware.ts,                   *)
(* socket-registry.service.ts).                                            *)
(*                                                                         *)
(* A task stops at every await.  Changes of members are transactions: a    *)
(* snapshot, conflicts on the documents written, unique indexes.  The      *)
(* sockets live in the memory of the one process.                          *)
(***************************************************************************)
EXTENDS MemberDocs

CONSTANTS
  Task,       \* requests and handshakes handled at the same time
  Scenes,     \* bound: members when a run starts, kinds of tasks that come in it, and
              \* what they ask of members
  Manage,     \* the permissions 'members.manage' and
  Inviting,   \* 'members.invite'
  Invited,    \* bound: who is invited
  Offers,     \* bound: what is offered to them
  MaxResets,  \* MaxResets[u]: bound: reset links of the account u
  MaxSockets  \* bound: sockets registered at the same time

\* A team that the API may have built: one owner, who is active.
OneOwner(team) ==
  /\ team \in [User -> MemberDoc \cup {Absent}]
  /\ \E o \in User : /\ {u \in User : team[u] # Absent /\ team[u].role = "owner"} = {o}
                    /\ team[o].status = "active"

ASSUME MembershipTasks ==
  /\ Task # {} /\ MaxResets \in [User -> Nat] /\ MaxSockets \in Nat
  /\ {Manage, Inviting} \subseteq Right
  /\ \A x \in Scenes : OneOwner(x.team) /\ x.changes \subseteq Change
  /\ Invited \subseteq User
  /\ Offers \subseteq [role : {"admin", "seller"}, rights : SUBSET Right]

VARIABLES
  scene,    \* which of the scenes this run is
  db,       \* the committed documents
  over,     \* invitations whose date has passed
  sockets,  \* the sockets of the registry
  pc,       \* pc[r]: what task r does next
  task,     \* task[r]: what it works on, Absent when idle
  snap,     \* snap[r]: what its transaction reads, Absent outside of one
  stale     \* stale[r]: documents written by others since that snapshot

vars == <<scene, db, over, sockets, pc, task, snap, stale>>

TxStage == {"accept", "create", "update", "transfer"}
Stage == TxStage \cup {"idle", "invited", "expire", "insert",
                       "link", "confirm", "close", "context", "register"}

\* seen: its membership as the handshake read it; fresh: whether that was
\* still so when the socket was registered.
Socket == [user : User, version : Nat, seen : MemberDoc, fresh : BOOLEAN]

\* user: who acts, joins or connects; target: the member concerned; number: of
\* a link, or a session version; past: the invitations over when it came;
\* closes: members whose sockets it must close, all those of an earlier session
\* than before if that is not 0.
Work == [user : User, target : User \cup {Absent}, change : Change \cup {Absent},
         known : SUBSET Right, offer : Offers \cup {Absent},
         invite : Invite \cup {Absent}, number : Nat, past : SUBSET Invite,
         seen : MemberDoc \cup {Absent}, closes : SUBSET User, before : Nat]

ASSUME WorkSentinel == Absent \notin Work

Of(u) == [user |-> u, target |-> Absent, change |-> Absent, known |-> {},
          offer |-> Absent, invite |-> Absent, number |-> 0, past |-> {},
          seen |-> Absent, closes |-> {}, before |-> 0]

Init ==
  /\ scene \in Scenes
  /\ db = [member  |-> scene.team,
           invite  |-> [i \in Invite |-> Absent],
           account |-> [u \in User |-> IF scene.team[u] = Absent THEN Absent ELSE NewAccount]]
  /\ over = {} /\ sockets = {}
  /\ pc = [r \in Task |-> "idle"]
  /\ task = [r \in Task |-> Absent]
  /\ snap = [r \in Task |-> Absent]
  /\ stale = [r \in Task |-> {}]

----------------------------------------------------------------------------
(* Tasks and their writes *)

Goto(r, stage) == pc' = [pc EXCEPT ![r] = stage] /\ UNCHANGED task

Go(r, stage, work) ==
  /\ pc' = [pc EXCEPT ![r] = stage]
  /\ task' = [task EXCEPT ![r] = work]

Finish(r) == Go(r, "idle", Absent)

\* The task goes on to close the sockets of members.
Close(r, users, before) ==
  Go(r, "close", [Of(task[r].user) EXCEPT !.closes = users, !.before = before])

Quiet == UNCHANGED <<db, over, sockets, snap, stale>>

\* A write outside of transactions, seen by those that read the document.
Write(n, written) ==
  /\ db' = n
  /\ stale' = [q \in Task |-> IF snap[q] = Absent THEN {} ELSE stale[q] \cup written]
  /\ UNCHANGED <<over, sockets, snap>>

Begin(r) ==
  /\ pc[r] \in TxStage /\ snap[r] = Absent
  /\ snap' = [snap EXCEPT ![r] = db]
  /\ UNCHANGED <<db, over, sockets, pc, task, stale>>

InBody(r, stage) == pc[r] = stage /\ snap[r] # Absent

\* Mutant of LeaveTx: the snapshot outlives the transaction.
LeaveTxOpen(r, written) ==
  /\ snap' = snap
  /\ stale' = [q \in Task |-> IF q = r \/ snap[q] = Absent THEN {}
                              ELSE stale[q] \cup written]

LeaveTx(r, written) ==
  /\ snap' = [snap EXCEPT ![r] = Absent]
  /\ stale' = [q \in Task |-> IF q = r \/ snap[q] = Absent THEN {}
                              ELSE stale[q] \cup written]

\* The documents once the transaction of r, whose body led to n, is committed.
After(r, n, written) ==
  [member  |-> [u \in User |-> IF u \in written THEN n.member[u] ELSE db.member[u]],
   invite  |-> [i \in Invite |-> IF i \in written THEN n.invite[i] ELSE db.invite[i]],
   account |-> [u \in User |-> IF snap[r].account[u] = Absent /\ n.account[u] # Absent
                               THEN n.account[u] ELSE db.account[u]]]

\* The unique indexes: one membership of a user, one account of an address,
\* one active owner.
Collides(r, n, written) ==
  \/ \E u \in User \cap written : snap[r].member[u] = Absent /\ db.member[u] # Absent
  \/ \E u \in User : snap[r].account[u] = Absent /\ n.account[u] # Absent
                                                 /\ db.account[u] # Absent
  \/ Cardinality(ActiveOwners(After(r, n, written))) > 1

\* Mutant of Conflicts: only the indexes refuse a commit.
ConflictsByIndex(r, n, written) == Collides(r, n, written)

Conflicts(r, n, written) == written \cap stale[r] # {} \/ Collides(r, n, written)

Commit(r, n, written) ==
  /\ ~ Conflicts(r, n, written)
  /\ db' = After(r, n, written)
  /\ LeaveTx(r, written)
  /\ UNCHANGED <<over, sockets>>

\* A conflict or a collision: the body runs again on a new snapshot.
Retry(r, n, written) ==
  /\ Conflicts(r, n, written)
  /\ LeaveTx(r, {})
  /\ UNCHANGED <<db, over, sockets, pc, task>>

\* The body throws: the request is refused and nothing was written.
Refuse(r) == Finish(r) /\ LeaveTx(r, {}) /\ UNCHANGED <<db, over, sockets>>

----------------------------------------------------------------------------
(* Invitations *)

\* The guards of a request read its author's membership.
Admitted(u, right) == Active(db, u) /\ right \in Rights(db, u)

Start(r, kind, stage, work) ==
  /\ kind \in scene.kinds /\ pc[r] = "idle"
  /\ Go(r, stage, work)
  /\ Quiet

\* A read that can only refuse is taken with the next: here the guards and the
\* author's rights, then the invited person's membership and invitation.
ReceiveInvite(r) ==
  \E a \in User, u \in Invited, offer \in Offers :
    /\ Admitted(a, Inviting) /\ MayInvite(db, a, offer, Inviting)
    /\ Start(r, "invite", "invited",
             [Of(a) EXCEPT !.target = u, !.offer = offer, !.past = over])

\* An invitation that is open refuses another, unless its date has passed.
CheckInvited(r) ==
  LET open == PendingFor(db, task[r].target)
  IN  /\ pc[r] = "invited"
      /\ IF Active(db, task[r].target) \/ ~ open \subseteq task[r].past THEN Finish(r)
         ELSE IF open = {} THEN Goto(r, "insert")
         ELSE \E i \in open : Go(r, "expire", [task[r] EXCEPT !.invite = i])
      /\ Quiet

\* The save of an invitation that is gone fails.
ExpireInvite(r) ==
  LET i == task[r].invite
  IN  /\ pc[r] = "expire"
      /\ IF db.invite[i] = Gone THEN Finish(r) /\ Quiet
         ELSE /\ Write([db EXCEPT !.invite[i].status = "expired"], {i})
              /\ Goto(r, "insert")

\* The index on open invitations decides between two; the insert may fail.
InsertInvite(r) ==
  LET u == task[r].target
  IN  /\ pc[r] = "insert"
      /\ \/ Quiet
         \/ /\ PendingFor(db, u) = {}
            /\ \E i \in {i \in Invite : db.invite[i] = Absent} :
                 Write([db EXCEPT !.invite[i] =
                          [email |-> u, role |-> task[r].offer.role,
                           rights |-> task[r].offer.rights,
                           status |-> "pending", link |-> 0]], {i})
      /\ Finish(r)

\* `revokeInvitation`: one conditional deletion.
RevokeInvite(i) ==
  /\ "revoke" \in scene.kinds
  /\ Pending(db, i)
  /\ Write([db EXCEPT !.invite[i] = Gone], {i})
  /\ UNCHANGED <<pc, task>>

\* The date of an invitation passes.
PassDate(i) ==
  /\ Pending(db, i) /\ i \notin over
  /\ over' = over \cup {i}
  /\ UNCHANGED <<db, sockets, pc, task, snap, stale>>

Usable(i) == Pending(db, i) /\ i \notin over

\* Somebody with the link of an invitation accepts it as the account u.
ReceiveAccept(r) ==
  \E u \in User, i \in Invite :
    /\ db.account[u] # Absent /\ Usable(i)
    /\ Start(r, "accept", "accept", [Of(u) EXCEPT !.invite = i])

\* What the deletion of an accepted invitation requires.
Consumes(s, i, u) == Pending(s, i) /\ s.invite[i].email = u

AcceptTx(r) ==
  LET s == snap[r]
      u == task[r].user
      i == task[r].invite
  IN  /\ InBody(r, "accept")
      /\ IF ~ Consumes(s, i, u) \/ IsMember(s, u) THEN Refuse(r)
         ELSE \/ Retry(r, Joined(s, i), {i, u})
              \/ Commit(r, Joined(s, i), {i, u}) /\ Finish(r)

\* An invited person without an account asks for a link; the claim is read.
ReceiveLink(r) ==
  \E i \in Invite :
    /\ Usable(i)
    /\ db.account[db.invite[i].email] = Absent
    /\ db.invite[i].link < MaxLinks
    /\ Start(r, "link", "link",
             [Of(db.invite[i].email) EXCEPT !.invite = i, !.number = db.invite[i].link])

\* `claimAccountLink`: the date of the last one must be that read; the new
\* link replaces the others.
ClaimLink(r) ==
  LET i == task[r].invite
  IN  /\ pc[r] = "link"
      /\ IF Pending(db, i) /\ db.invite[i].link = task[r].number
         THEN Write([db EXCEPT !.invite[i].link = @ + 1], {i}) ELSE Quiet
      /\ Finish(r)

ReceiveCreateAccount(r) ==
  \E i \in Invite :
    /\ Usable(i) /\ db.invite[i].link > 0
    /\ Start(r, "create", "create",
             [Of(db.invite[i].email) EXCEPT !.invite = i, !.number = db.invite[i].link])

CreateAccountTx(r) ==
  LET s == snap[r]
      u == task[r].user
      i == task[r].invite
  IN  /\ InBody(r, "create")
      /\ IF ~ Consumes(s, i, u) \/ s.invite[i].link # task[r].number
               \/ s.account[u] # Absent \/ IsMember(s, u)
         THEN Refuse(r)
         ELSE \/ Retry(r, JoinedAnew(s, i), {i, u})
              \/ Commit(r, JoinedAnew(s, i), {i, u}) /\ Finish(r)

\* A person registers an organization of their own.
Register(u) ==
  /\ "register" \in scene.kinds
  /\ db.account[u] = Absent
  /\ Write([db EXCEPT !.account[u] = NewAccount], {})
  /\ UNCHANGED <<pc, task>>

----------------------------------------------------------------------------
(* Members *)

ReceiveUpdate(r) ==
  \E a, u \in User, change \in scene.changes, known \in Catalogs :
    /\ Admitted(a, Manage)
    /\ Start(r, "update", "update",
             [Of(a) EXCEPT !.target = u, !.change = change, !.known = known])

\* A save without modification writes nothing; the sockets are closed all the same.
UpdateTx(r) ==
  LET s == snap[r]
      u == task[r].target
      after == Changed(s.member[u], task[r].change, task[r].known)
      n == [s EXCEPT !.member[u] = after]
      written == IF after = s.member[u] THEN {} ELSE {u}
  IN  /\ InBody(r, "update")
      /\ IF ~ IsMember(s, u) \/ ~ Manages(s, task[r].user, u, after) THEN Refuse(r)
         ELSE \/ Retry(r, n, written)
              \/ Commit(r, n, written) /\ Close(r, {u}, 0)

ReceiveTransfer(r) ==
  \E a, u \in User :
    /\ Active(db, a) /\ db.member[a].role = "owner"
    /\ Start(r, "transfer", "transfer", [Of(a) EXCEPT !.target = u])

TransferTx(r) ==
  LET s == snap[r]
      a == task[r].user
      u == task[r].target
      n == Transferred(s, a, u)
  IN  /\ InBody(r, "transfer")
      /\ IF ~ MayTransfer(s, a, u) \/ Cardinality(ActiveOwners(n)) # 1 THEN Refuse(r)
         ELSE \/ Retry(r, n, {a, u})
              \/ Commit(r, n, {a, u}) /\ Close(r, {a, u}, 0)

\* Mutant of Closed: a change of the member leaves its sockets open.
ClosedNone(work) == {s \in sockets : s.user \in work.closes /\ s.version < work.before}

\* `disconnectMember`, and `disconnectUserSessionsBefore` after a reset.
Closed(work) ==
  {s \in sockets : s.user \in work.closes /\ (work.before = 0 \/ s.version < work.before)}

CloseSockets(r) ==
  /\ pc[r] = "close"
  /\ sockets' = sockets \ Closed(task[r])
  /\ Finish(r)
  /\ UNCHANGED <<db, over, snap, stale>>

----------------------------------------------------------------------------
(* Password resets *)

\* `claim`: a new link replaces the others.
SendReset(u) ==
  /\ "reset" \in scene.kinds
  /\ db.account[u] # Absent /\ db.account[u].resets < MaxResets[u]
  /\ Write([db EXCEPT !.account[u].reset = db.account[u].resets + 1,
                      !.account[u].resets = @ + 1], {})
  /\ UNCHANGED <<pc, task>>

\* The link read is that stored, and with it the version of the sessions.
ReceiveReset(r) ==
  \E u \in User :
    /\ db.account[u] # Absent /\ db.account[u].reset # 0
    /\ Start(r, "reset", "confirm",
             [Of(u) EXCEPT !.number = db.account[u].reset,
                           !.before = db.account[u].version + 1])

\* `confirm`: once the password is hashed, neither the link nor the version may
\* have changed.
ConfirmReset(r) ==
  LET u == task[r].user
      next == task[r].before
  IN  /\ pc[r] = "confirm"
      /\ IF db.account[u].reset = task[r].number /\ db.account[u].version + 1 = next
         THEN /\ Write([db EXCEPT !.account[u].version = next, !.account[u].reset = 0], {})
              /\ Close(r, {u}, next)
         ELSE Finish(r) /\ Quiet

----------------------------------------------------------------------------
(* Sockets *)

\* A handshake with a token of the current session; the account is read.
ReceiveConnect(r) ==
  \E u \in User :
    /\ db.account[u] # Absent
    /\ Start(r, "connect", "context", [Of(u) EXCEPT !.number = db.account[u].version])

\* `resolveActiveContext`
ReadContext(r) ==
  LET u == task[r].user
  IN  /\ pc[r] = "context"
      /\ IF Active(db, u)
         THEN Go(r, "register", [task[r] EXCEPT !.seen = db.member[u]])
         ELSE Finish(r)
      /\ Quiet

\* The subscription was read meanwhile, and covers the organization or not.
RegisterSocket(r) ==
  LET u == task[r].user
      socket == [user |-> u, version |-> task[r].number, seen |-> task[r].seen,
                 fresh |-> /\ db.member[u] = task[r].seen
                           /\ db.account[u].version = task[r].number]
  IN  /\ pc[r] = "register"
      /\ \/ UNCHANGED sockets
         \/ Cardinality(sockets) < MaxSockets /\ sockets' = sockets \cup {socket}
      /\ Finish(r)
      /\ UNCHANGED <<db, over, snap, stale>>

\* The client leaves, the token expires, or the subscription ends.
Disconnect(s) ==
  /\ sockets' = sockets \ {s}
  /\ UNCHANGED <<db, over, pc, task, snap, stale>>

\* The process dies, and its tasks and sockets with it.
Crash ==
  /\ "crash" \in scene.kinds
  /\ \E r \in Task : pc[r] # "idle"
  /\ sockets' = {}
  /\ pc' = [r \in Task |-> "idle"] /\ task' = [r \in Task |-> Absent]
  /\ snap' = [r \in Task |-> Absent] /\ stale' = [r \in Task |-> {}]
  /\ UNCHANGED <<db, over>>

----------------------------------------------------------------------------

Receive(r) ==
  \/ ReceiveInvite(r) \/ ReceiveAccept(r) \/ ReceiveLink(r) \/ ReceiveCreateAccount(r)
  \/ ReceiveUpdate(r) \/ ReceiveTransfer(r) \/ ReceiveReset(r) \/ ReceiveConnect(r)

Step(r) ==
  \/ Begin(r)
  \/ CheckInvited(r) \/ ExpireInvite(r) \/ InsertInvite(r)
  \/ AcceptTx(r) \/ ClaimLink(r) \/ CreateAccountTx(r)
  \/ UpdateTx(r) \/ TransferTx(r) \/ CloseSockets(r)
  \/ ConfirmReset(r) \/ ReadContext(r) \/ RegisterSocket(r)

Next ==
  /\ UNCHANGED scene
  /\ \/ \E r \in Task : Receive(r) \/ Step(r)
     \/ \E i \in Invite : RevokeInvite(i) \/ PassDate(i)
     \/ \E u \in User : Register(u) \/ SendReset(u)
     \/ \E s \in sockets : Disconnect(s)
     \/ Crash

Spec == Init /\ [][Next]_vars

----------------------------------------------------------------------------
(* Properties *)

\* Every variable has its type, and only a transaction has a snapshot.
TypeOK ==
  /\ db \in Documents
  /\ over \subseteq Invite
  /\ sockets \subseteq Socket
  /\ pc \in [Task -> Stage]
  /\ \A r \in Task : /\ task[r] = Absent \/ task[r] \in Work
                     /\ task[r] = Absent <=> pc[r] = "idle"
                     /\ snap[r] = Absent \/ (snap[r] \in Documents /\ pc[r] \in TxStage)
  /\ stale \in [Task -> SUBSET (User \cup Invite)]

OpenOffers == [i \in Invite |->
  IF Pending(db, i) THEN [email |-> db.invite[i].email, role |-> db.invite[i].role,
                          rights |-> db.invite[i].rights]
  ELSE Absent]

Book == INSTANCE Roster WITH roster <- db.member, offers <- OpenOffers

\* The requests together keep the roster: always one active owner, whatever
\* transfers and changes run at once; nobody joins but by an invitation that is
\* still open, once, and as it offered; one open invitation of an address.
KeepsRoster == Book!Spec

\* There is always exactly one owner who is active: a transfer beside a change of
\* either member leaves neither none nor two.
OneActiveOwner == \E u \in User : ActiveOwners(db) = {u}

\* A socket that was registered with the rights of its member and the version
\* of its session shows them for good, unless the request that has changed
\* them is about to close it ("apres le commit uniquement").
SocketsFollowRights ==
  \A s \in sockets : s.fresh =>
    /\ db.member[s.user] # s.seen =>
         \E r \in Task : pc[r] = "close" /\ s \in Closed(task[r]) /\ task[r].before = 0
    /\ db.account[s.user].version # s.version =>
         \E r \in Task : pc[r] = "close" /\ s \in Closed(task[r])

=============================================================================
