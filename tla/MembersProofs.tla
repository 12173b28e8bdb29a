----------------------------- MODULE MembersProofs -----------------------------
(***************************************************************************)
(* Theorems about the members of an organization, for any number of users, *)
(* invitations, permissions, requests and sockets.                         *)
(***************************************************************************)
EXTENDS Memberships, TLAPS

\* What the stage of a task needs of its work.
Fits(stage, w) ==
  /\ stage \in {"accept", "create", "expire", "link"} => w.invite \in Invite
  /\ stage \in {"invited", "expire", "insert", "update", "transfer"} => w.target \in User
  /\ stage \in {"invited", "expire", "insert"} => w.offer \in Offers
  /\ stage = "update" => w.change \in Change
  /\ stage = "link" => w.number < MaxLinks
  /\ stage = "register" => w.seen \in MemberDoc

Authenticated == {"confirm", "context", "register"}

\* What it needs of the documents.
Finds(stage, w, d) ==
  /\ stage = "expire" => d.invite[w.invite] # Absent
  /\ stage \in Authenticated => d.account[w.user] # Absent

WorkOK(r) ==
  /\ task[r] = Absent <=> pc[r] = "idle"
  /\ Fits(pc[r], task[r]) /\ Finds(pc[r], task[r], db)
  /\ snap[r] # Absent => pc[r] \in TxStage

Typed ==
  /\ scene \in Scenes
  /\ db \in Documents
  /\ over \subseteq Invite
  /\ sockets \subseteq Socket
  /\ \A s \in sockets : db.account[s.user] # Absent
  /\ pc \in [Task -> Stage]
  /\ task \in [Task -> Work \cup {Absent}]
  /\ snap \in [Task -> Documents \cup {Absent}]
  /\ stale \in [Task -> SUBSET (User \cup Invite)]
  /\ \A r \in Task : WorkOK(r)

\* The documents of e are those of d but for `written`; invitations leave a
\* trace, and accounts stay.
Differ(d, e, written) ==
  /\ \A u \in User \ written : e.member[u] = d.member[u]
  /\ \A i \in Invite \ written : e.invite[i] = d.invite[i]
  /\ \A i \in Invite : d.invite[i] # Absent => e.invite[i] # Absent
  /\ \A u \in User : d.account[u] # Absent => e.account[u] # Absent

----------------------------------------------------------------------------
(* Documents *)

LEMMA DifferSelf ==
  ASSUME NEW d, NEW written
  PROVE  Differ(d, d, written)
  BY DEF Differ

LEMMA DifferMore ==
  ASSUME NEW c, NEW d, NEW e, NEW former, NEW written,
         Differ(c, d, former), Differ(d, e, written)
  PROVE  Differ(c, e, former \cup written)
  BY DEF Differ

LEMMA DocumentFields ==
  ASSUME NEW d \in Documents
  PROVE  /\ d.member \in [User -> MemberDoc \cup {Absent}]
         /\ d.invite \in [Invite -> InviteDoc \cup {Absent, Gone}]
         /\ d.account \in [User -> AccountDoc \cup {Absent}]
         /\ d = [member |-> d.member, invite |-> d.invite, account |-> d.account]
  BY DEF Documents

LEMMA PendingDoc ==
  ASSUME NEW d \in Documents, NEW i \in Invite, Pending(d, i)
  PROVE  d.invite[i] \in InviteDoc /\ d.invite[i].email \in User
  BY DEF Documents, Pending, InviteDoc

\* A join writes a member and closes an invitation.
LEMMA JoinedFields ==
  ASSUME NEW d \in Documents, NEW i \in Invite, Pending(d, i)
  PROVE  LET u == d.invite[i].email
             doc == [role |-> d.invite[i].role, rights |-> d.invite[i].rights,
                     status |-> "active"]
         IN  /\ doc \in MemberDoc
             /\ Joined(d, i) = [member |-> [d.member EXCEPT ![u] = doc],
                                invite |-> [d.invite EXCEPT ![i] = Gone],
                                account |-> d.account]
             /\ JoinedAnew(d, i) = [member |-> [d.member EXCEPT ![u] = doc],
                                    invite |-> [d.invite EXCEPT ![i] = Gone],
                                    account |-> [d.account EXCEPT ![u] = NewAccount]]
<1> DEFINE u == d.invite[i].email
           doc == [role |-> d.invite[i].role, rights |-> d.invite[i].rights,
                   status |-> "active"]
<1>1. doc \in MemberDoc
  BY PendingDoc DEF MemberDoc, InviteDoc, Role, Status
<1>2. Joined(d, i) = [member |-> [d.member EXCEPT ![u] = doc],
                      invite |-> [d.invite EXCEPT ![i] = Gone],
                      account |-> d.account]
  <2>1. Joined(d, i) = [d EXCEPT !.invite[i] = Gone, !.member[u] = doc]
    BY DEF Joined
  <2> HIDE DEF doc
  <2>2. PICK n : n = [d EXCEPT !.invite[i] = Gone, !.member[u] = doc]
    OBVIOUS
  <2>3. n.member = [d.member EXCEPT ![u] = doc] /\ n.invite = [d.invite EXCEPT ![i] = Gone]
    BY <2>2 DEF Documents
  <2>4. /\ n.account = d.account
        /\ n = [member |-> n.member, invite |-> n.invite, account |-> n.account]
    BY <2>2 DEF Documents
  <2> QED
    BY <2>1, <2>2, <2>3, <2>4
<1>3. JoinedAnew(d, i) = [member |-> [d.member EXCEPT ![u] = doc],
                          invite |-> [d.invite EXCEPT ![i] = Gone],
                          account |-> [d.account EXCEPT ![u] = NewAccount]]
  BY <1>2 DEF JoinedAnew
<1> QED
  BY <1>1, <1>2, <1>3

LEMMA NewAccountType == NewAccount \in AccountDoc /\ NewAccount # Absent
  BY MemberSentinels DEF NewAccount, AccountDoc

\* The same, document by document: n is d once u has joined by i.
JoinedBy(d, n, i, u) ==
  /\ d.invite[i].email = u => n.member[u] =
       [role |-> d.invite[i].role, rights |-> d.invite[i].rights, status |-> "active"]
  /\ n.invite[i] = Gone
  /\ \A v \in User : n.account[v] = d.account[v] \/ n.account[v] = NewAccount

LEMMA JoinedDocs ==
  ASSUME NEW d \in Documents, NEW i \in Invite, NEW u \in User, Pending(d, i),
         NEW n \in {Joined(d, i), JoinedAnew(d, i)}
  PROVE  n \in Documents /\ JoinedBy(d, n, i, u)
<1> DEFINE to == d.invite[i].email
           doc == [role |-> d.invite[i].role, rights |-> d.invite[i].rights,
                   status |-> "active"]
           member == [d.member EXCEPT ![to] = doc]
           invite == [d.invite EXCEPT ![i] = Gone]
           account == [d.account EXCEPT ![to] = NewAccount]
<1>1. /\ Joined(d, i) = [member |-> member, invite |-> invite, account |-> d.account]
      /\ JoinedAnew(d, i) = [member |-> member, invite |-> invite, account |-> account]
      /\ doc \in MemberDoc /\ to \in User
  BY JoinedFields, PendingDoc
<1> HIDE DEF doc
<1>2. /\ member \in [User -> MemberDoc \cup {Absent}]
      /\ invite \in [Invite -> InviteDoc \cup {Absent, Gone}]
      /\ account \in [User -> AccountDoc \cup {Absent}]
  BY <1>1, NewAccountType, DocumentFields
<1>3. /\ member[to] = doc /\ invite[i] = Gone
      /\ \A x \in User : account[x] = d.account[x] \/ account[x] = NewAccount
  BY <1>1, DocumentFields
<1> HIDE DEF member, invite, account
<1>4. n \in Documents
  BY <1>1, <1>2, DocumentFields DEF Documents
<1>5. n.member = member /\ n.invite = invite /\ n.account \in {d.account, account}
  BY <1>1
<1> QED
  BY <1>1, <1>3, <1>4, <1>5 DEF doc, JoinedBy

\* The member concerned by a change, once it is made.
LEMMA ChangedType ==
  ASSUME NEW doc \in MemberDoc, NEW change \in Change, NEW known \in SUBSET Right
  PROVE  Changed(doc, change, known) \in MemberDoc
<1>1. change.rights # Absent => Merged(change.rights, doc.rights, known) \in SUBSET Right
  BY DEF Change, Merged, MemberDoc
<1>2. doc = [role |-> doc.role, rights |-> doc.rights, status |-> doc.status]
  BY DEF MemberDoc
<1> QED
  BY <1>1 DEF Changed, MemberDoc, Change, Role, Status

LEMMA InviteWritten ==
  ASSUME NEW d \in Documents, NEW i \in Invite, NEW doc \in InviteDoc \cup {Gone},
         NEW n, n = [d EXCEPT !.invite[i] = doc]
  PROVE  /\ n \in Documents
         /\ n.invite = [d.invite EXCEPT ![i] = doc]
         /\ n.member = d.member /\ n.account = d.account
         /\ Differ(d, n, {i})
<1>1. doc # Absent
  BY MemberSentinels
<1> QED
  BY <1>1 DEF Documents, Differ

LEMMA AccountWritten ==
  ASSUME NEW d \in Documents, NEW u \in User, NEW doc \in AccountDoc,
         NEW n, n = [d EXCEPT !.account[u] = doc]
  PROVE  /\ n \in Documents
         /\ n.account = [d.account EXCEPT ![u] = doc]
         /\ n.member = d.member /\ n.invite = d.invite
         /\ Differ(d, n, {})
<1>1. doc # Absent
  BY MemberSentinels
<1> QED
  BY <1>1 DEF Documents, Differ

\* n is d once a has given the organization to u.
Given(d, n, a, u) ==
  /\ n.member[a] = [d.member[a] EXCEPT !.role = "admin"]
  /\ n.member[u] = [d.member[u] EXCEPT !.role = "owner"]
  /\ n.account = d.account

LEMMA TransferDocs ==
  ASSUME NEW d \in Documents, NEW a \in User, NEW u \in User, MayTransfer(d, a, u),
         NEW n, n = Transferred(d, a, u)
  PROVE  n \in Documents /\ Given(d, n, a, u)
<1> DEFINE left == [d.member[a] EXCEPT !.role = "admin"]
           right == [d.member[u] EXCEPT !.role = "owner"]
<1>1. a # u /\ left \in MemberDoc /\ right \in MemberDoc
  <2>1. a # u /\ d.member[a] \in MemberDoc /\ d.member[u] \in MemberDoc
    BY DocumentFields DEF MayTransfer, Active, IsMember
  <2> QED
    BY <2>1 DEF MemberDoc, Role
<1>2. n.member = [d.member EXCEPT ![a].role = "admin", ![u].role = "owner"]
      /\ n.invite = d.invite /\ n.account = d.account
      /\ n = [member |-> n.member, invite |-> n.invite, account |-> n.account]
  BY DEF Transferred, Documents
<1>3. n.member = [d.member EXCEPT ![a] = left, ![u] = right]
  BY <1>1, <1>2 DEF Documents
<1> QED
  BY <1>1, <1>2, <1>3 DEF Documents, Given

----------------------------------------------------------------------------
(* Writes and snapshots *)

\* The open transactions, when documents were written or one began or ended.
Follow(written) ==
  \A q \in Task :
    \/ snap'[q] = Absent
    \/ snap[q] = Absent /\ snap'[q] = db /\ db' = db
    \/ snap[q] # Absent /\ snap'[q] = snap[q] /\ stale'[q] = stale[q] \cup written

Moves(written) ==
  /\ db' \in Documents /\ Differ(db, db', written)
  /\ snap' \in [Task -> Documents \cup {Absent}]
  /\ stale' \in [Task -> SUBSET (User \cup Invite)]
  /\ Follow(written)

LEMMA StillMoves ==
  ASSUME Typed, UNCHANGED <<db, snap, stale>>
  PROVE  Moves({})
<1>1. Differ(db, db', {})
  BY DifferSelf
<1> QED
  BY <1>1 DEF Typed, Moves, Follow

LEMMA WriteMoves ==
  ASSUME Typed, NEW n \in Documents, NEW written \in SUBSET (User \cup Invite),
         Write(n, written), Differ(db, n, written)
  PROVE  Moves(written)
  BY DEF Typed, Moves, Follow, Write

LEMMA LeaveMoves ==
  ASSUME Typed, NEW r \in Task, LeaveTx(r, {}), UNCHANGED db
  PROVE  Moves({})
<1>1. Differ(db, db', {})
  BY DifferSelf
<1> QED
  BY <1>1 DEF Typed, Moves, Follow, LeaveTx

LEMMA BeginMoves ==
  ASSUME Typed, NEW r \in Task, Begin(r)
  PROVE  Moves({})
<1>1. Differ(db, db', {})
  BY DifferSelf DEF Begin
<1> QED
  BY <1>1 DEF Typed, Moves, Follow, Begin

LEMMA CrashMoves ==
  ASSUME Typed, Crash
  PROVE  Moves({})
<1>1. Differ(db, db', {})
  BY DifferSelf DEF Crash
<1> QED
  BY <1>1 DEF Typed, Moves, Follow, Crash

\* A commit writes what its body wrote, and creates an account if it made one.
LEMMA CommitFields ==
  ASSUME Typed, NEW r \in Task, snap[r] \in Documents, NEW n \in Documents,
         NEW written \in SUBSET (User \cup Invite), Commit(r, n, written)
  PROVE  /\ db'.member = [u \in User |-> IF u \in written THEN n.member[u] ELSE db.member[u]]
         /\ db'.invite = [i \in Invite |-> IF i \in written THEN n.invite[i] ELSE db.invite[i]]
         /\ db'.account = [u \in User |->
              IF snap[r].account[u] = Absent /\ n.account[u] # Absent
              THEN n.account[u] ELSE db.account[u]]
         /\ db' = [member |-> db'.member, invite |-> db'.invite, account |-> db'.account]
  BY DEF Commit, After

LEMMA CommitMoves ==
  ASSUME Typed, NEW r \in Task, snap[r] \in Documents, NEW n \in Documents,
         NEW written \in SUBSET (User \cup Invite), Commit(r, n, written),
         \A i \in Invite \cap written : n.invite[i] # Absent
  PROVE  Moves(written)
<1>1. /\ db'.member = [u \in User |-> IF u \in written THEN n.member[u] ELSE db.member[u]]
      /\ db'.invite = [i \in Invite |-> IF i \in written THEN n.invite[i] ELSE db.invite[i]]
      /\ db'.account = [u \in User |->
           IF snap[r].account[u] = Absent /\ n.account[u] # Absent
           THEN n.account[u] ELSE db.account[u]]
      /\ db' = [member |-> db'.member, invite |-> db'.invite, account |-> db'.account]
  BY CommitFields
<1>2. db \in Documents
  BY DEF Typed
<1>3. db' \in Documents
  <2>1. db'.member \in [User -> MemberDoc \cup {Absent}]
    BY <1>1, <1>2, DocumentFields
  <2>2. db'.invite \in [Invite -> InviteDoc \cup {Absent, Gone}]
    BY <1>1, <1>2, DocumentFields
  <2>3. db'.account \in [User -> AccountDoc \cup {Absent}]
    BY <1>1, <1>2, DocumentFields
  <2> QED
    BY <1>1, <2>1, <2>2, <2>3 DEF Documents
<1>4. Differ(db, db', written)
  BY <1>1 DEF Differ
<1> QED
  BY <1>3, <1>4 DEF Typed, Moves, Follow, Commit, LeaveTx

\* What a task holds.
LEMMA WorkOf ==
  ASSUME Typed, NEW r \in Task, pc[r] # "idle"
  PROVE  /\ task[r] \in Work /\ task[r].user \in User
         /\ Fits(pc[r], task[r]) /\ Finds(pc[r], task[r], db)
  BY DEF Typed, WorkOK, Work

LEMMA BodyOf ==
  ASSUME Typed, NEW r \in Task, NEW stage \in TxStage, InBody(r, stage)
  PROVE  /\ pc[r] = stage /\ snap[r] \in Documents
         /\ task[r] \in Work /\ task[r].user \in User /\ Fits(stage, task[r])
<1>1. pc[r] # "idle"
  BY DEF InBody, TxStage
<1> QED
  BY <1>1, WorkOf DEF InBody, Typed

\* The body of a transaction that refuses or runs again writes nothing.
LEMMA RefuseMoves ==
  ASSUME Typed, NEW r \in Task, Refuse(r)
  PROVE  Moves({})
  BY LeaveMoves DEF Refuse

LEMMA RetryMoves ==
  ASSUME Typed, NEW r \in Task, NEW n, NEW written, Retry(r, n, written)
  PROVE  Moves({})
  BY LeaveMoves DEF Retry

\* The transactions that make a member.
LEMMA JoinMoves ==
  ASSUME Typed, NEW r \in Task, AcceptTx(r) \/ CreateAccountTx(r)
  PROVE  \E written \in SUBSET (User \cup Invite) : Moves(written)
<1> DEFINE s == snap[r]
           i == task[r].invite
           u == task[r].user
<1>1. s \in Documents /\ i \in Invite /\ u \in User
  BY BodyOf DEF AcceptTx, CreateAccountTx, TxStage, Fits
<1>2. CASE Refuse(r)
  BY <1>2, RefuseMoves
<1>3. ASSUME NEW n \in {Joined(s, i), JoinedAnew(s, i)}, Retry(r, n, {i, u})
      PROVE  Moves({})
  BY <1>3, RetryMoves
<1>4. ASSUME Pending(s, i), NEW n \in {Joined(s, i), JoinedAnew(s, i)}, Commit(r, n, {i, u})
      PROVE  Moves({i, u})
  <2>1. n \in Documents /\ n.invite[i] = Gone
    <3>1. n \in Documents /\ JoinedBy(s, n, i, u)
      BY <1>1, <1>4, JoinedDocs, Zenon
    <3> QED
      BY <3>1 DEF JoinedBy
  <2>2. \A j \in Invite \cap {i, u} : n.invite[j] # Absent
    BY <1>1, <2>1, MemberConstants, MemberSentinels
  <2> QED
    BY <1>1, <1>4, <2>1, <2>2, CommitMoves
<1>5. \/ Refuse(r)
      \/ \E n \in {Joined(s, i), JoinedAnew(s, i)} :
           Retry(r, n, {i, u}) \/ (Pending(s, i) /\ Commit(r, n, {i, u}))
  BY DEF AcceptTx, CreateAccountTx, Consumes
<1>6. {} \in SUBSET (User \cup Invite) /\ {i, u} \in SUBSET (User \cup Invite)
  BY <1>1
<1> QED
  BY <1>2, <1>3, <1>4, <1>5, <1>6

\* d with another document of the member u.
Updated(d, u, doc) == [d EXCEPT !.member[u] = doc]

\* The member of an update, in the snapshot and once it is changed.
LEMMA UpdateBody ==
  ASSUME Typed, NEW r \in Task, InBody(r, "update"), IsMember(snap[r], task[r].target),
         NEW after, after = Changed(snap[r].member[task[r].target], task[r].change,
                                    task[r].known),
         NEW n, n = Updated(snap[r], task[r].target, after)
  PROVE  /\ snap[r] \in Documents /\ task[r].target \in User /\ task[r].user \in User
         /\ snap[r].member[task[r].target] \in MemberDoc
         /\ task[r].change \in Change
         /\ after \in MemberDoc /\ n \in Documents
         /\ n.member = [snap[r].member EXCEPT ![task[r].target] = after]
         /\ n.invite = snap[r].invite /\ n.account = snap[r].account
<1>1. /\ snap[r] \in Documents /\ task[r].target \in User /\ task[r].user \in User
      /\ task[r].change \in Change /\ task[r].known \in SUBSET Right
  BY BodyOf DEF Fits, TxStage, Work
<1>2. snap[r].member[task[r].target] \in MemberDoc
  BY <1>1, DocumentFields DEF IsMember
<1>3. after \in MemberDoc
  BY <1>1, <1>2, ChangedType
<1>4. /\ n \in Documents
      /\ n.member = [snap[r].member EXCEPT ![task[r].target] = after]
      /\ n.invite = snap[r].invite /\ n.account = snap[r].account
  BY <1>1, <1>3 DEF Documents, Updated
<1> QED
  BY <1>1, <1>2, <1>3, <1>4

LEMMA UpdateMoves ==
  ASSUME Typed, NEW r \in Task, UpdateTx(r)
  PROVE  \E written \in SUBSET (User \cup Invite) : Moves(written)
<1> DEFINE s == snap[r]
           u == task[r].target
<1>1. PICK after : after = Changed(s.member[u], task[r].change, task[r].known)
  OBVIOUS
<1>2. PICK n : n = Updated(s, u, after)
  OBVIOUS
<1>3. PICK written : written = IF after = s.member[u] THEN {} ELSE {u}
  OBVIOUS
<1>4. CASE Refuse(r)
  BY <1>4, RefuseMoves
<1>5. CASE Retry(r, n, written)
  BY <1>5, RetryMoves
<1>6. CASE IsMember(s, u) /\ Commit(r, n, written)
  <2>1. s \in Documents /\ u \in User /\ n \in Documents
    BY <1>1, <1>2, <1>6, UpdateBody DEF UpdateTx
  <2>2. written \in SUBSET (User \cup Invite) /\ Invite \cap written = {}
    BY <1>3, <2>1, MemberConstants
  <2> QED
    BY <1>6, <2>1, <2>2, CommitMoves
<1>7. Refuse(r) \/ Retry(r, n, written) \/ (IsMember(s, u) /\ Commit(r, n, written))
  BY <1>1, <1>2, <1>3 DEF UpdateTx, Updated
<1> QED
  BY <1>4, <1>5, <1>6, <1>7

\* The two members of a transfer.
LEMMA TransferBody ==
  ASSUME Typed, NEW r \in Task, InBody(r, "transfer"),
         MayTransfer(snap[r], task[r].user, task[r].target),
         NEW n, n = Transferred(snap[r], task[r].user, task[r].target)
  PROVE  /\ snap[r] \in Documents /\ task[r].target \in User /\ task[r].user \in User
         /\ n \in Documents /\ Given(snap[r], n, task[r].user, task[r].target)
<1>1. snap[r] \in Documents /\ task[r].target \in User /\ task[r].user \in User
  BY BodyOf DEF Fits, TxStage
<1> QED
  BY <1>1, TransferDocs

LEMMA TransferMoves ==
  ASSUME Typed, NEW r \in Task, TransferTx(r)
  PROVE  \E written \in SUBSET (User \cup Invite) : Moves(written)
<1> DEFINE s == snap[r]
           a == task[r].user
           u == task[r].target
<1>1. PICK n : n = Transferred(s, a, u)
  OBVIOUS
<1>2. CASE Refuse(r)
  BY <1>2, RefuseMoves
<1>3. CASE Retry(r, n, {a, u})
  BY <1>3, RetryMoves
<1>4. CASE MayTransfer(s, a, u) /\ Commit(r, n, {a, u})
  <2>1. s \in Documents /\ a \in User /\ u \in User /\ n \in Documents
    BY <1>1, <1>4, TransferBody DEF TransferTx
  <2>2. {a, u} \in SUBSET (User \cup Invite) /\ Invite \cap {a, u} = {}
    BY <2>1, MemberConstants
  <2> QED
    BY <1>4, <2>1, <2>2, CommitMoves
<1>5. Refuse(r) \/ Retry(r, n, {a, u}) \/ (MayTransfer(s, a, u) /\ Commit(r, n, {a, u}))
  BY <1>1 DEF TransferTx
<1> QED
  BY <1>2, <1>3, <1>4, <1>5

----------------------------------------------------------------------------
(* Every step writes documents in one of these ways *)

\* The writes outside of transactions, with what they make of the documents.
LEMMA InviteMoves ==
  ASSUME Typed, NEW i \in Invite, NEW doc \in InviteDoc \cup {Gone},
         Write([db EXCEPT !.invite[i] = doc], {i})
  PROVE  Moves({i})
<1>1. PICK n : n = [db EXCEPT !.invite[i] = doc]
  OBVIOUS
<1>2. db \in Documents
  BY DEF Typed
<1>3. n \in Documents /\ Differ(db, n, {i})
  BY <1>1, <1>2, InviteWritten
<1> QED
  BY <1>1, <1>3, WriteMoves

LEMMA AccountMoves ==
  ASSUME Typed, NEW u \in User, NEW doc \in AccountDoc,
         Write([db EXCEPT !.account[u] = doc], {})
  PROVE  Moves({})
<1>1. PICK n : n = [db EXCEPT !.account[u] = doc]
  OBVIOUS
<1>2. db \in Documents
  BY DEF Typed
<1>3. n \in Documents /\ Differ(db, n, {})
  BY <1>1, <1>2, AccountWritten
<1> QED
  BY <1>1, <1>3, WriteMoves

\* The document that each of them writes.
LEMMA ExpireWrite ==
  ASSUME Typed, NEW r \in Task, ExpireInvite(r), db.invite[task[r].invite] # Gone
  PROVE  \E i \in Invite, doc \in InviteDoc :
           /\ i = task[r].invite /\ db.invite[i] \in InviteDoc
           /\ doc = [db.invite[i] EXCEPT !.status = "expired"]
           /\ Write([db EXCEPT !.invite[i] = doc], {i})
<1>1. PICK i : i = task[r].invite
  OBVIOUS
<1>2. i \in Invite /\ db.invite[i] # Absent
  BY <1>1, WorkOf DEF ExpireInvite, Fits, Finds
<1>3. db.invite[i] \in InviteDoc
  BY <1>1, <1>2, DocumentFields DEF Typed
<1>4. PICK doc : doc = [db.invite[i] EXCEPT !.status = "expired"]
  OBVIOUS
<1>5. doc \in InviteDoc
  BY <1>3, <1>4 DEF InviteDoc
<1>6. Write([db EXCEPT !.invite[i] = doc], {i})
  BY <1>1, <1>4 DEF ExpireInvite
<1> QED
  BY <1>1, <1>2, <1>3, <1>4, <1>5, <1>6

LEMMA ClaimWrite ==
  ASSUME Typed, NEW r \in Task, ClaimLink(r), Pending(db, task[r].invite),
         db.invite[task[r].invite].link = task[r].number
  PROVE  \E i \in Invite, doc \in InviteDoc :
           /\ i = task[r].invite /\ db.invite[i] \in InviteDoc
           /\ doc = [db.invite[i] EXCEPT !.link = @ + 1]
           /\ Write([db EXCEPT !.invite[i] = doc], {i})
<1>1. PICK i : i = task[r].invite
  OBVIOUS
<1>2. i \in Invite /\ task[r].number < MaxLinks
  BY <1>1, WorkOf DEF ClaimLink, Fits
<1>3. db.invite[i] \in InviteDoc
  BY <1>1, <1>2, PendingDoc DEF Typed
<1>4. PICK doc : doc = [db.invite[i] EXCEPT !.link = @ + 1]
  OBVIOUS
<1>5. doc \in InviteDoc
  BY <1>1, <1>2, <1>3, <1>4, MemberConstants DEF InviteDoc
<1>6. Write([db EXCEPT !.invite[i] = doc], {i})
  BY <1>1, <1>4 DEF ClaimLink
<1> QED
  BY <1>1, <1>2, <1>3, <1>4, <1>5, <1>6

LEMMA InsertWrite ==
  ASSUME Typed, NEW r \in Task, InsertInvite(r), ~ Quiet
  PROVE  \E i \in Invite, u \in User, doc \in InviteDoc :
           /\ u = task[r].target /\ PendingFor(db, u) = {} /\ db.invite[i] = Absent
           /\ doc = [email |-> u, role |-> task[r].offer.role,
                     rights |-> task[r].offer.rights, status |-> "pending", link |-> 0]
           /\ Write([db EXCEPT !.invite[i] = doc], {i})
<1>1. PICK u : u = task[r].target
  OBVIOUS
<1>2. u \in User /\ task[r].offer \in Offers
  BY <1>1, WorkOf DEF InsertInvite, Fits
<1>3. PICK doc : doc = [email |-> u, role |-> task[r].offer.role,
                        rights |-> task[r].offer.rights, status |-> "pending", link |-> 0]
  OBVIOUS
<1>4. doc \in InviteDoc
  BY <1>2, <1>3, MemberConstants, MembershipTasks DEF InviteDoc
<1>5. PICK i \in Invite : db.invite[i] = Absent /\ Write([db EXCEPT !.invite[i] = doc], {i})
  BY <1>1, <1>3 DEF InsertInvite
<1>6. PendingFor(db, u) = {}
  BY <1>1 DEF InsertInvite
<1> QED
  BY <1>1, <1>2, <1>3, <1>4, <1>5, <1>6

LEMMA SendWrite ==
  ASSUME Typed, NEW u \in User, SendReset(u)
  PROVE  \E doc \in AccountDoc :
           /\ db.account[u] \in AccountDoc /\ doc.version = db.account[u].version
           /\ Write([db EXCEPT !.account[u] = doc], {})
<1>1. db.account[u] \in AccountDoc
  BY DocumentFields DEF SendReset, Typed
<1>2. PICK doc : doc = [db.account[u] EXCEPT !.reset = db.account[u].resets + 1,
                                             !.resets = @ + 1]
  OBVIOUS
<1>3. doc \in AccountDoc /\ doc.version = db.account[u].version
  <2>1. db.account[u].version \in Nat /\ db.account[u].resets + 1 \in Nat
    BY <1>1 DEF AccountDoc
  <2>2. doc = [version |-> db.account[u].version, reset |-> db.account[u].resets + 1,
               resets |-> db.account[u].resets + 1]
    BY <1>1, <1>2 DEF AccountDoc
  <2> QED
    BY <2>1, <2>2 DEF AccountDoc
<1>4. Write([db EXCEPT !.account[u] = doc], {})
  BY <1>2 DEF SendReset
<1> QED
  BY <1>1, <1>3, <1>4

LEMMA ConfirmWrite ==
  ASSUME Typed, NEW r \in Task, ConfirmReset(r),
         db.account[task[r].user].reset = task[r].number,
         db.account[task[r].user].version + 1 = task[r].before
  PROVE  \E u \in User, doc \in AccountDoc :
           /\ u = task[r].user /\ db.account[u] \in AccountDoc
           /\ doc.version = task[r].before
           /\ Write([db EXCEPT !.account[u] = doc], {})
           /\ Close(r, {u}, task[r].before)
<1>1. PICK u : u = task[r].user
  OBVIOUS
<1>2. u \in User /\ task[r].before \in Nat /\ db.account[u] # Absent
  BY <1>1, WorkOf DEF ConfirmReset, Finds, Authenticated, Work
<1>3. db.account[u] \in AccountDoc
  BY <1>2, DocumentFields DEF Typed
<1>4. PICK doc : doc = [db.account[u] EXCEPT !.version = task[r].before, !.reset = 0]
  OBVIOUS
<1>5. doc \in AccountDoc /\ doc.version = task[r].before
  BY <1>2, <1>3, <1>4 DEF AccountDoc
<1>6. Write([db EXCEPT !.account[u] = doc], {}) /\ Close(r, {u}, task[r].before)
  BY <1>1, <1>4 DEF ConfirmReset
<1> QED
  BY <1>1, <1>2, <1>3, <1>5, <1>6

LEMMA ReceiveQuiet ==
  ASSUME NEW r \in Task, Receive(r)
  PROVE  Quiet
  BY DEF Receive, ReceiveInvite, ReceiveAccept, ReceiveLink, ReceiveCreateAccount,
         ReceiveUpdate, ReceiveTransfer, ReceiveReset, ReceiveConnect, Start

LEMMA StepMoves ==
  ASSUME Typed, NEW r \in Task, Step(r)
  PROVE  \E written \in SUBSET (User \cup Invite) : Moves(written)
<1>1. ASSUME Moves({})
      PROVE  \E written \in SUBSET (User \cup Invite) : Moves(written)
  BY <1>1
<1>2. ASSUME Quiet
      PROVE  Moves({})
  BY <1>2, StillMoves DEF Quiet
<1>3. ASSUME NEW i \in Invite, NEW doc \in InviteDoc,
             Write([db EXCEPT !.invite[i] = doc], {i})
      PROVE  \E written \in SUBSET (User \cup Invite) : Moves(written)
  <2>1. Moves({i})
    BY <1>3, InviteMoves
  <2> QED
    BY <2>1
<1>4. CASE Begin(r)
  BY <1>1, <1>4, BeginMoves
<1>5. CASE CheckInvited(r) \/ ReadContext(r)
  BY <1>1, <1>2, <1>5 DEF CheckInvited, ReadContext
<1>6. CASE ExpireInvite(r)
  <2>1. CASE db.invite[task[r].invite] = Gone
    BY <1>1, <1>2, <1>6, <2>1 DEF ExpireInvite
  <2>2. CASE db.invite[task[r].invite] # Gone
    BY <1>3, <1>6, <2>2, ExpireWrite
  <2> QED
    BY <2>1, <2>2
<1>7. CASE InsertInvite(r)
  <2>1. CASE Quiet
    BY <1>1, <1>2, <2>1
  <2>2. CASE ~ Quiet
    BY <1>3, <1>7, <2>2, InsertWrite
  <2> QED
    BY <2>1, <2>2
<1>8. CASE AcceptTx(r) \/ CreateAccountTx(r)
  BY <1>8, JoinMoves
<1>9. CASE ClaimLink(r)
  <2>1. CASE Pending(db, task[r].invite) /\ db.invite[task[r].invite].link = task[r].number
    BY <1>3, <1>9, <2>1, ClaimWrite
  <2>2. CASE ~ (Pending(db, task[r].invite)
                  /\ db.invite[task[r].invite].link = task[r].number)
    BY <1>1, <1>2, <1>9, <2>2 DEF ClaimLink
  <2> QED
    BY <2>1, <2>2
<1>10. CASE UpdateTx(r)
  BY <1>10, UpdateMoves
<1>11. CASE TransferTx(r)
  BY <1>11, TransferMoves
<1>12. CASE CloseSockets(r) \/ RegisterSocket(r)
  BY <1>1, <1>12, StillMoves DEF CloseSockets, RegisterSocket
<1>13. CASE ConfirmReset(r)
  <2>1. CASE /\ db.account[task[r].user].reset = task[r].number
             /\ db.account[task[r].user].version + 1 = task[r].before
    BY <1>1, <1>13, <2>1, ConfirmWrite, AccountMoves
  <2>2. CASE ~ (/\ db.account[task[r].user].reset = task[r].number
                /\ db.account[task[r].user].version + 1 = task[r].before)
    BY <1>1, <1>2, <1>13, <2>2 DEF ConfirmReset
  <2> QED
    BY <2>1, <2>2
<1> QED
  BY <1>4, <1>5, <1>6, <1>7, <1>8, <1>9, <1>10, <1>11, <1>12, <1>13 DEF Step

LEMMA NextMoves ==
  ASSUME Typed, Next
  PROVE  \E written \in SUBSET (User \cup Invite) : Moves(written)
<1>1. ASSUME Moves({})
      PROVE  \E written \in SUBSET (User \cup Invite) : Moves(written)
  BY <1>1
<1>2. ASSUME NEW r \in Task, Receive(r)
      PROVE  Moves({})
  BY <1>2, ReceiveQuiet, StillMoves DEF Quiet
<1>3. ASSUME NEW r \in Task, Step(r)
      PROVE  \E written \in SUBSET (User \cup Invite) : Moves(written)
  BY <1>3, StepMoves
<1>4. ASSUME NEW i \in Invite, RevokeInvite(i)
      PROVE  Moves({i})
  BY <1>4, InviteMoves DEF RevokeInvite
<1>5. ASSUME NEW i \in Invite, PassDate(i)
      PROVE  Moves({})
  BY <1>5, StillMoves DEF PassDate
<1>6. ASSUME NEW u \in User, Register(u)
      PROVE  Moves({})
  BY <1>6, NewAccountType, AccountMoves DEF Register
<1>7. ASSUME NEW u \in User, SendReset(u)
      PROVE  Moves({})
  BY <1>7, SendWrite, AccountMoves
<1>8. ASSUME NEW s \in sockets, Disconnect(s)
      PROVE  Moves({})
  BY <1>8, StillMoves DEF Disconnect
<1>9. CASE Crash
  BY <1>9, CrashMoves
<1>10. \A i \in Invite : {i} \in SUBSET (User \cup Invite)
  OBVIOUS
<1> QED
  BY <1>1, <1>2, <1>3, <1>4, <1>5, <1>6, <1>7, <1>8, <1>9, <1>10 DEF Next

----------------------------------------------------------------------------
(* Types *)

Tasks ==
  /\ pc \in [Task -> Stage]
  /\ task \in [Task -> Work \cup {Absent}]
  /\ \A r \in Task : WorkOK(r)

\* Accounts and invitations do not vanish, and only r begins or ends a transaction.
Kept(r) ==
  /\ \A i \in Invite : db.invite[i] # Absent => db'.invite[i] # Absent
  /\ \A u \in User : db.account[u] # Absent => db'.account[u] # Absent
  /\ \A q \in Task \ {r} : snap'[q] = snap[q]

\* The other tasks stay as they are.
LEMMA OthersFit ==
  ASSUME Typed, NEW r \in Task, Kept(r), NEW q \in Task \ {r},
         pc'[q] = pc[q], task'[q] = task[q]
  PROVE  WorkOK(q)'
<1>1. WorkOK(q) /\ snap'[q] = snap[q] /\ pc[q] \in Stage /\ task[q] \in Work \cup {Absent}
  BY DEF Typed, Kept
<1>2. Fits(pc[q], task[q])'
  BY <1>1 DEF WorkOK, Fits
<1>3. Finds(pc[q], task[q], db)'
  <2>1. pc[q] = "expire" => /\ task[q].invite \in Invite
                           /\ db.invite[task[q].invite] # Absent
    BY <1>1 DEF WorkOK, Fits, Finds
  <2>2. pc[q] \in Authenticated => /\ task[q].user \in User
                                  /\ db.account[task[q].user] # Absent
    <3>1. pc[q] \in Authenticated => task[q] \in Work
      BY <1>1 DEF WorkOK, Authenticated
    <3> QED
      BY <1>1, <3>1 DEF WorkOK, Finds, Work
  <2> QED
    BY <1>1, <2>1, <2>2 DEF Finds, Kept
<1> QED
  BY <1>1, <1>2, <1>3 DEF WorkOK

LEMMA GoTyped ==
  ASSUME Typed, NEW r \in Task, Kept(r),
         NEW stage \in Stage \ {"idle"}, NEW work \in Work, Go(r, stage, work),
         Fits(stage, work),
         stage = "expire" => db'.invite[work.invite] # Absent,
         stage \in Authenticated => db'.account[work.user] # Absent,
         snap'[r] # Absent => stage \in TxStage
  PROVE  Tasks'
<1>1. /\ pc' \in [Task -> Stage] /\ pc'[r] = stage
      /\ task' \in [Task -> Work \cup {Absent}] /\ task'[r] = work
      /\ \A q \in Task \ {r} : pc'[q] = pc[q] /\ task'[q] = task[q]
  BY DEF Typed, Go
<1>2. WorkOK(r)'
  <2>1. Fits(pc[r], task[r])'
    BY <1>1 DEF Fits
  <2>2. Finds(pc[r], task[r], db)'
    BY <1>1 DEF Finds
  <2> QED
    BY <1>1, <2>1, <2>2, WorkSentinel DEF WorkOK
<1> QED
  BY <1>1, <1>2, OthersFit DEF Tasks

LEMMA FinishTyped ==
  ASSUME Typed, NEW r \in Task, Kept(r), Finish(r), snap'[r] = Absent
  PROVE  Tasks'
<1>1. /\ pc' \in [Task -> Stage] /\ pc'[r] = "idle"
      /\ task' \in [Task -> Work \cup {Absent}] /\ task'[r] = Absent
      /\ \A q \in Task \ {r} : pc'[q] = pc[q] /\ task'[q] = task[q]
  BY DEF Typed, Finish, Go, Stage
<1>2. WorkOK(r)'
  BY <1>1 DEF WorkOK, Fits, Finds, Authenticated
<1> QED
  BY <1>1, <1>2, OthersFit DEF Tasks

\* The task r stays where it is.
LEMMA StayTyped ==
  ASSUME Typed, NEW r \in Task, Kept(r), UNCHANGED <<pc, task>>,
         snap'[r] # Absent => pc[r] \in TxStage, Moves({})
  PROVE  Tasks'
<1>1. WorkOK(r) /\ pc[r] \in Stage /\ task[r] \in Work \cup {Absent}
  BY DEF Typed
<1>2. Finds(pc[r], task[r], db)'
  <2>1. pc[r] = "expire" => task[r].invite \in Invite
    BY <1>1 DEF WorkOK, Fits
  <2>2. pc[r] \in Authenticated => task[r].user \in User
    BY <1>1 DEF WorkOK, Authenticated, Work
  <2> QED
    BY <1>1, <2>1, <2>2 DEF Finds, Kept, WorkOK
<1>3. WorkOK(r)'
  BY <1>1, <1>2 DEF WorkOK, Fits
<1> QED
  BY <1>3, OthersFit DEF Tasks, Typed

\* When no task moves and no transaction begins or ends.
LEMMA WorldTyped ==
  ASSUME Typed, UNCHANGED <<pc, task, snap>>,
         NEW written \in SUBSET (User \cup Invite), Moves(written)
  PROVE  Tasks'
<1>1. ASSUME NEW r \in Task
      PROVE  WorkOK(r)'
  <2>1. WorkOK(r) /\ pc[r] \in Stage /\ task[r] \in Work \cup {Absent}
    BY DEF Typed
  <2>2. pc[r] = "expire" => task[r].invite \in Invite
    BY <2>1 DEF WorkOK, Fits
  <2>3. pc[r] \in Authenticated => task[r].user \in User
    BY <2>1 DEF WorkOK, Authenticated, Work
  <2>4. Finds(pc[r], task[r], db)'
    BY <2>1, <2>2, <2>3 DEF Finds, Moves, Differ, WorkOK
  <2> QED
    BY <2>1, <2>4 DEF WorkOK, Fits
<1> QED
  BY <1>1 DEF Tasks, Typed

\* The work of a task that starts.
LEMMA OfType ==
  ASSUME NEW u \in User
  PROVE  Of(u) \in Work /\ Of(u).user = u
  BY DEF Of, Work

LEMMA ReceiveTyped ==
  ASSUME Typed, NEW r \in Task, Receive(r)
  PROVE  Tasks'
<1>1. Quiet
  BY ReceiveQuiet
<1>2. pc[r] = "idle"
  BY DEF Receive, ReceiveInvite, ReceiveAccept, ReceiveLink, ReceiveCreateAccount,
         ReceiveUpdate, ReceiveTransfer, ReceiveReset, ReceiveConnect, Start
<1>3. Kept(r) /\ snap'[r] = Absent /\ db' = db
  BY <1>1, <1>2 DEF Quiet, Kept, Typed, WorkOK, TxStage
<1>4. ASSUME NEW kind, NEW stage \in Stage \ {"idle"}, NEW work \in Work,
             Start(r, kind, stage, work), Fits(stage, work), stage # "expire",
             stage \in Authenticated => db.account[work.user] # Absent
      PROVE  Tasks'
  BY <1>3, <1>4, GoTyped DEF Start
<1>5. db \in Documents
  BY DEF Typed
<1>6. CASE ReceiveInvite(r)
  <2>1. PICK a \in User, u \in Invited, offer \in Offers :
          Start(r, "invite", "invited",
                [Of(a) EXCEPT !.target = u, !.offer = offer, !.past = over])
    BY <1>6 DEF ReceiveInvite
  <2>2. PICK work : work = [Of(a) EXCEPT !.target = u, !.offer = offer, !.past = over]
    OBVIOUS
  <2>3. work \in Work /\ work.target \in User /\ work.offer \in Offers
    BY <2>2, MembershipTasks DEF Of, Work, Typed
  <2> QED
    BY <2>1, <2>2, <2>3, <1>4 DEF Fits, Stage, TxStage, Authenticated
<1>7. CASE ReceiveAccept(r)
  <2>1. PICK u \in User, i \in Invite :
          Start(r, "accept", "accept", [Of(u) EXCEPT !.invite = i])
    BY <1>7 DEF ReceiveAccept
  <2>2. PICK work : work = [Of(u) EXCEPT !.invite = i]
    OBVIOUS
  <2>3. work \in Work /\ work.invite \in Invite
    BY <2>2 DEF Of, Work
  <2> QED
    BY <2>1, <2>2, <2>3, <1>4 DEF Fits, Stage, TxStage, Authenticated
<1>8. CASE ReceiveLink(r)
  <2>1. PICK i \in Invite :
          /\ Usable(i) /\ db.invite[i].link < MaxLinks
          /\ Start(r, "link", "link",
               [Of(db.invite[i].email) EXCEPT !.invite = i, !.number = db.invite[i].link])
    BY <1>8 DEF ReceiveLink
  <2>2. PICK work :
          work = [Of(db.invite[i].email) EXCEPT !.invite = i, !.number = db.invite[i].link]
    OBVIOUS
  <2>3. db.invite[i].email \in User /\ db.invite[i].link \in Nat
    BY <1>5, <2>1, PendingDoc, MemberConstants DEF Usable, InviteDoc
  <2>4. work \in Work /\ work.invite \in Invite /\ work.number = db.invite[i].link
    BY <2>2, <2>3 DEF Of, Work
  <2> QED
    BY <2>1, <2>2, <2>4, <1>4 DEF Fits, Stage, TxStage, Authenticated
<1>9. CASE ReceiveCreateAccount(r)
  <2>1. PICK i \in Invite :
          /\ Usable(i)
          /\ Start(r, "create", "create",
               [Of(db.invite[i].email) EXCEPT !.invite = i, !.number = db.invite[i].link])
    BY <1>9 DEF ReceiveCreateAccount
  <2>2. PICK work :
          work = [Of(db.invite[i].email) EXCEPT !.invite = i, !.number = db.invite[i].link]
    OBVIOUS
  <2>3. db.invite[i].email \in User /\ db.invite[i].link \in Nat
    BY <1>5, <2>1, PendingDoc, MemberConstants DEF Usable, InviteDoc
  <2>4. work \in Work /\ work.invite \in Invite
    BY <2>2, <2>3 DEF Of, Work
  <2> QED
    BY <2>1, <2>2, <2>4, <1>4 DEF Fits, Stage, TxStage, Authenticated
<1>10. CASE ReceiveUpdate(r)
  <2>1. PICK a \in User, u \in User, change \in scene.changes, known \in Catalogs :
          Start(r, "update", "update",
                [Of(a) EXCEPT !.target = u, !.change = change, !.known = known])
    BY <1>10 DEF ReceiveUpdate
  <2>2. PICK work : work = [Of(a) EXCEPT !.target = u, !.change = change, !.known = known]
    OBVIOUS
  <2>3. change \in Change /\ known \in SUBSET Right
    BY MembershipTasks, MemberConstants DEF Typed
  <2>4. work \in Work /\ work.target \in User /\ work.change \in Change
    BY <2>2, <2>3 DEF Of, Work
  <2> QED
    BY <2>1, <2>2, <2>4, <1>4 DEF Fits, Stage, TxStage, Authenticated
<1>11. CASE ReceiveTransfer(r)
  <2>1. PICK a \in User, u \in User :
          Start(r, "transfer", "transfer", [Of(a) EXCEPT !.target = u])
    BY <1>11 DEF ReceiveTransfer
  <2>2. PICK work : work = [Of(a) EXCEPT !.target = u]
    OBVIOUS
  <2>3. work \in Work /\ work.target \in User
    BY <2>2 DEF Of, Work
  <2> QED
    BY <2>1, <2>2, <2>3, <1>4 DEF Fits, Stage, TxStage, Authenticated
<1>12. CASE ReceiveReset(r)
  <2>1. PICK u \in User :
          /\ db.account[u] # Absent
          /\ Start(r, "reset", "confirm",
                   [Of(u) EXCEPT !.number = db.account[u].reset,
                                 !.before = db.account[u].version + 1])
    BY <1>12 DEF ReceiveReset
  <2>2. PICK work : work = [Of(u) EXCEPT !.number = db.account[u].reset,
                                         !.before = db.account[u].version + 1]
    OBVIOUS
  <2>3. db.account[u].reset \in Nat /\ db.account[u].version + 1 \in Nat
    BY <1>5, <2>1, DocumentFields DEF AccountDoc
  <2>4. work \in Work /\ work.user = u
    BY <2>2, <2>3 DEF Of, Work
  <2> QED
    BY <2>1, <2>2, <2>4, <1>4 DEF Fits, Stage, TxStage, Authenticated
<1>13. CASE ReceiveConnect(r)
  <2>1. PICK u \in User :
          /\ db.account[u] # Absent
          /\ Start(r, "connect", "context", [Of(u) EXCEPT !.number = db.account[u].version])
    BY <1>13 DEF ReceiveConnect
  <2>2. PICK work : work = [Of(u) EXCEPT !.number = db.account[u].version]
    OBVIOUS
  <2>3. db.account[u].version \in Nat
    BY <1>5, <2>1, DocumentFields DEF AccountDoc
  <2>4. work \in Work /\ work.user = u
    BY <2>2, <2>3 DEF Of, Work
  <2> QED
    BY <2>1, <2>2, <2>4, <1>4 DEF Fits, Stage, TxStage, Authenticated
<1> QED
  BY <1>6, <1>7, <1>8, <1>9, <1>10, <1>11, <1>12, <1>13 DEF Receive

LEMMA StepKept ==
  ASSUME Typed, NEW r \in Task, Step(r)
  PROVE  Kept(r)
<1>1. PICK written \in SUBSET (User \cup Invite) : Moves(written)
  BY StepMoves
<1>2. \A q \in Task \ {r} : snap'[q] = snap[q]
  <2>1. CASE Begin(r) \/ CheckInvited(r) \/ ExpireInvite(r) \/ InsertInvite(r)
    BY <2>1 DEF Begin, CheckInvited, ExpireInvite, InsertInvite, Quiet, Write, Typed
  <2>2. CASE AcceptTx(r) \/ CreateAccountTx(r) \/ UpdateTx(r) \/ TransferTx(r)
    <3>1. LeaveTx(r, {}) \/ \E x : LeaveTx(r, x)
      BY <2>2 DEF AcceptTx, CreateAccountTx, UpdateTx, TransferTx, Refuse, Retry, Commit
    <3> QED
      BY <3>1 DEF LeaveTx, Typed
  <2>3. CASE ClaimLink(r) \/ CloseSockets(r) \/ ConfirmReset(r) \/ ReadContext(r)
               \/ RegisterSocket(r)
    BY <2>3 DEF ClaimLink, CloseSockets, ConfirmReset, ReadContext, RegisterSocket, Quiet,
                Write
  <2> QED
    BY <2>1, <2>2, <2>3 DEF Step
<1> QED
  BY <1>1, <1>2 DEF Kept, Moves, Differ

LEMMA GotoTyped ==
  ASSUME Typed, NEW r \in Task, Kept(r), pc[r] # "idle", UNCHANGED snap,
         pc[r] \notin TxStage,
         NEW stage \in Stage \ {"idle"}, Goto(r, stage),
         Fits(stage, task[r]), stage # "expire", stage \notin Authenticated
  PROVE  Tasks'
<1>1. task[r] \in Work /\ snap[r] = Absent
  BY WorkOf DEF Typed, WorkOK
<1>2. Go(r, stage, task[r])
  BY DEF Goto, Go, Typed
<1> QED
  BY <1>1, <1>2, GoTyped

\* The work of a task that closes sockets.
LEMMA CloseWork ==
  ASSUME Typed, NEW r \in Task, pc[r] # "idle", NEW users \in SUBSET User,
         NEW before \in Nat, Close(r, users, before)
  PROVE  /\ task'[r].closes = users /\ task'[r].before = before /\ pc'[r] = "close"
         /\ \A q \in Task \ {r} : task'[q] = task[q] /\ pc'[q] = pc[q]
         /\ Kept(r) /\ snap'[r] = Absent => Tasks'
<1>1. PICK work : work = [Of(task[r].user) EXCEPT !.closes = users, !.before = before]
  OBVIOUS
<1>2. task[r].user \in User
  BY WorkOf
<1>3. work \in Work /\ work.closes = users /\ work.before = before
  BY <1>1, <1>2 DEF Of, Work
<1>4. Go(r, "close", work)
  BY <1>1 DEF Close
<1>5. Kept(r) /\ snap'[r] = Absent => Tasks'
  BY <1>3, <1>4, GoTyped DEF Fits, Stage, TxStage, Authenticated
<1> QED
  BY <1>3, <1>4, <1>5 DEF Go, Typed

\* The four transactions.
LEMMA TxTyped ==
  ASSUME Typed, NEW r \in Task,
         AcceptTx(r) \/ CreateAccountTx(r) \/ UpdateTx(r) \/ TransferTx(r)
  PROVE  Tasks'
<1>1. Kept(r)
  BY StepKept DEF Step
<1>2. /\ pc[r] \in TxStage \ {"idle"} /\ task[r].user \in User
      /\ pc[r] \in {"update", "transfer"} => task[r].target \in User
  BY BodyOf DEF AcceptTx, CreateAccountTx, UpdateTx, TransferTx, InBody, TxStage, Fits
<1>3. CASE Refuse(r)
  BY <1>1, <1>3, FinishTyped DEF Refuse, LeaveTx, Typed
<1>4. ASSUME NEW n, NEW written, Retry(r, n, written)
      PROVE  Tasks'
  BY <1>1, <1>2, <1>4, StayTyped, RetryMoves DEF Retry
<1>5. ASSUME NEW n, NEW written, Commit(r, n, written)
      PROVE  snap'[r] = Absent
  BY <1>5 DEF Commit, LeaveTx, Typed
<1>6. CASE Finish(r) /\ snap'[r] = Absent
  BY <1>1, <1>6, FinishTyped
<1>7. ASSUME NEW users \in SUBSET User, Close(r, users, 0), snap'[r] = Absent
      PROVE  Tasks'
  <2>1. pc[r] # "idle"
    BY <1>2
  <2> QED
    BY <1>1, <1>7, <2>1, CloseWork
<1>8. CASE AcceptTx(r) \/ CreateAccountTx(r)
  BY <1>3, <1>4, <1>5, <1>6, <1>8 DEF AcceptTx, CreateAccountTx
<1>9. CASE UpdateTx(r)
  <2>1. {task[r].target} \in SUBSET User
    BY <1>2, <1>9 DEF UpdateTx, InBody
  <2> QED
    BY <1>3, <1>4, <1>5, <1>7, <1>9, <2>1 DEF UpdateTx
<1>10. CASE TransferTx(r)
  <2>1. {task[r].user, task[r].target} \in SUBSET User
    BY <1>2, <1>10 DEF TransferTx, InBody
  <2> QED
    BY <1>3, <1>4, <1>5, <1>7, <1>10, <2>1 DEF TransferTx
<1> QED
  BY <1>8, <1>9, <1>10

LEMMA StepTyped ==
  ASSUME Typed, NEW r \in Task, Step(r)
  PROVE  Tasks'
<1>1. Kept(r)
  BY StepKept
<1>2. CASE Begin(r)
  BY <1>1, <1>2, StayTyped, BeginMoves DEF Begin
<1>3. CASE AcceptTx(r) \/ CreateAccountTx(r) \/ UpdateTx(r) \/ TransferTx(r)
  BY <1>3, TxTyped
<1>4. CASE pc[r] \notin TxStage /\ pc[r] # "idle" /\ UNCHANGED snap
  <2>1. snap'[r] = Absent
    BY <1>4 DEF Typed, WorkOK
  <2>2. CASE Finish(r)
    BY <1>1, <2>1, <2>2, FinishTyped
  <2>3. task[r] \in Work /\ Fits(pc[r], task[r]) /\ Finds(pc[r], task[r], db)
    BY <1>4, WorkOf
  <2>4. CASE CheckInvited(r)
    <3>1. CASE Goto(r, "insert")
      BY <1>1, <1>4, <2>3, <2>4, <3>1, GotoTyped
         DEF CheckInvited, Quiet, Fits, Stage, Authenticated
    <3>2. CASE \E i \in PendingFor(db, task[r].target) :
                 Go(r, "expire", [task[r] EXCEPT !.invite = i])
      <4>1. PICK i \in PendingFor(db, task[r].target) :
              Go(r, "expire", [task[r] EXCEPT !.invite = i])
        BY <3>2
      <4>2. PICK work : work = [task[r] EXCEPT !.invite = i]
        OBVIOUS
      <4>3. i \in Invite /\ db'.invite[i] # Absent
        BY <2>4 DEF PendingFor, Pending, CheckInvited, Quiet
      <4>4. task[r].target \in User /\ task[r].offer \in Offers
        BY <2>3, <2>4 DEF CheckInvited, Fits
      <4>5. /\ work \in Work /\ work.invite = i
            /\ work.target = task[r].target /\ work.offer = task[r].offer
        BY <2>3, <4>2, <4>3 DEF Work
      <4> QED
        BY <1>1, <2>1, <4>1, <4>2, <4>3, <4>4, <4>5, GoTyped
           DEF Fits, Stage, TxStage, Authenticated
    <3> QED
      BY <2>2, <2>4, <3>1, <3>2 DEF CheckInvited
  <2>5. CASE ExpireInvite(r)
    <3>1. CASE Goto(r, "insert")
      BY <1>1, <1>4, <2>3, <2>5, <3>1, GotoTyped
         DEF ExpireInvite, Fits, Stage, Authenticated
    <3> QED
      BY <2>2, <2>5, <3>1 DEF ExpireInvite
  <2>6. CASE ReadContext(r)
    <3>1. CASE Finish(r)
      BY <2>2, <3>1
    <3>2. CASE Active(db, task[r].user)
                 /\ Go(r, "register", [task[r] EXCEPT !.seen = db.member[task[r].user]])
      <4>1. PICK work : work = [task[r] EXCEPT !.seen = db.member[task[r].user]]
        OBVIOUS
      <4>2. task[r].user \in User /\ db.account[task[r].user] # Absent
        BY <2>3, <2>6 DEF ReadContext, Finds, Authenticated, Work
      <4>3. db.member[task[r].user] \in MemberDoc
        BY <3>2, <4>2, DocumentFields DEF Typed, Active, IsMember
      <4>4. work \in Work /\ work.user = task[r].user /\ work.seen \in MemberDoc
        BY <2>3, <4>1, <4>3 DEF Work
      <4>5. db'.account[work.user] # Absent
        BY <1>1, <4>2, <4>4 DEF Kept
      <4>6. Go(r, "register", work)
        BY <3>2, <4>1
      <4> QED
        BY <1>1, <2>1, <4>4, <4>5, <4>6, GoTyped DEF Fits, Stage, TxStage, Authenticated
    <3> QED
      BY <2>6, <3>1, <3>2 DEF ReadContext
  <2>7. CASE ConfirmReset(r)
    <3>1. CASE Close(r, {task[r].user}, task[r].before)
      <4>1. {task[r].user} \in SUBSET User /\ task[r].before \in Nat
        BY <2>3 DEF Work
      <4> QED
        BY <1>1, <1>4, <2>1, <3>1, <4>1, CloseWork
    <3> QED
      BY <2>2, <2>7, <3>1 DEF ConfirmReset
  <2>8. CASE InsertInvite(r) \/ ClaimLink(r) \/ CloseSockets(r) \/ RegisterSocket(r)
    BY <2>2, <2>8 DEF InsertInvite, ClaimLink, CloseSockets, RegisterSocket
  <2> QED
    BY <1>4, <2>4, <2>5, <2>6, <2>7, <2>8
       DEF Step, Begin, AcceptTx, CreateAccountTx, UpdateTx, TransferTx, InBody, TxStage
<1>5. \/ Begin(r)
      \/ AcceptTx(r) \/ CreateAccountTx(r) \/ UpdateTx(r) \/ TransferTx(r)
      \/ pc[r] \notin TxStage /\ pc[r] # "idle" /\ UNCHANGED snap
  BY DEF Step, CheckInvited, ExpireInvite, InsertInvite, ClaimLink, CloseSockets,
         ConfirmReset, ReadContext, RegisterSocket, TxStage, Quiet, Write
<1> QED
  BY <1>2, <1>3, <1>4, <1>5

\* A socket that is registered has an account, as read by its handshake.
LEMMA RegisterFields ==
  ASSUME Typed, NEW r \in Task, RegisterSocket(r)
  PROVE  \/ sockets' = sockets
         \/ \E socket \in Socket :
              /\ sockets' = sockets \cup {socket}
              /\ db.account[socket.user] # Absent
              /\ socket.fresh => /\ db.member[socket.user] = socket.seen
                                 /\ db.account[socket.user].version = socket.version
<1>1. task[r] \in Work /\ Fits("register", task[r]) /\ Finds("register", task[r], db)
  BY WorkOf DEF RegisterSocket
<1>2. PICK socket : socket =
        [user |-> task[r].user, version |-> task[r].number, seen |-> task[r].seen,
         fresh |-> /\ db.member[task[r].user] = task[r].seen
                   /\ db.account[task[r].user].version = task[r].number]
  OBVIOUS
<1>3. /\ socket.user = task[r].user /\ socket.version = task[r].number
      /\ socket.seen = task[r].seen
      /\ socket.fresh = (/\ db.member[task[r].user] = task[r].seen
                         /\ db.account[task[r].user].version = task[r].number)
  BY <1>2
<1>4. socket \in Socket
  BY <1>1, <1>2 DEF Socket, Work, Fits
<1>5. sockets' = sockets \/ sockets' = sockets \cup {socket}
  BY <1>2 DEF RegisterSocket
<1> QED
  BY <1>1, <1>3, <1>4, <1>5 DEF Finds, Authenticated

\* The sockets after a step: fewer, or one more, of which the above holds.
LEMMA SocketStep ==
  ASSUME Typed, Next
  PROVE  \/ sockets' \subseteq sockets
         \/ \E r \in Task : RegisterSocket(r)
<1>1. ASSUME NEW r \in Task, Receive(r) \/ Step(r)
      PROVE  sockets' \subseteq sockets \/ RegisterSocket(r)
  <2>1. CASE Receive(r)
    BY <2>1, ReceiveQuiet DEF Quiet
  <2>2. CASE Begin(r) \/ CheckInvited(r) \/ ExpireInvite(r) \/ InsertInvite(r)
    BY <2>2 DEF Begin, CheckInvited, ExpireInvite, InsertInvite, Quiet, Write
  <2>3. CASE AcceptTx(r) \/ CreateAccountTx(r) \/ UpdateTx(r) \/ TransferTx(r)
    BY <2>3 DEF AcceptTx, CreateAccountTx, UpdateTx, TransferTx, Refuse, Retry, Commit
  <2>4. CASE ClaimLink(r) \/ CloseSockets(r) \/ ConfirmReset(r) \/ ReadContext(r)
    BY <2>4 DEF ClaimLink, CloseSockets, ConfirmReset, ReadContext, Quiet, Write
  <2> QED
    BY <1>1, <2>1, <2>2, <2>3, <2>4 DEF Step
<1>2. ASSUME NEW i \in Invite, RevokeInvite(i) \/ PassDate(i)
      PROVE  sockets' \subseteq sockets
  BY <1>2 DEF RevokeInvite, PassDate, Write
<1>3. ASSUME NEW u \in User, Register(u) \/ SendReset(u)
      PROVE  sockets' \subseteq sockets
  BY <1>3 DEF Register, SendReset, Write
<1>4. ASSUME NEW s \in sockets, Disconnect(s)
      PROVE  sockets' \subseteq sockets
  BY <1>4 DEF Disconnect
<1>5. CASE Crash
  BY <1>5 DEF Crash
<1> QED
  BY <1>1, <1>2, <1>3, <1>4, <1>5 DEF Next

LEMMA OverStep ==
  ASSUME Typed, Next
  PROVE  over' \subseteq Invite
<1>1. ASSUME NEW r \in Task, Receive(r) \/ Step(r)
      PROVE  over' = over
  <2>1. CASE Receive(r)
    BY <2>1, ReceiveQuiet DEF Quiet
  <2>2. CASE Begin(r) \/ CheckInvited(r) \/ ExpireInvite(r) \/ InsertInvite(r)
    BY <2>2 DEF Begin, CheckInvited, ExpireInvite, InsertInvite, Quiet, Write
  <2>3. CASE AcceptTx(r) \/ CreateAccountTx(r) \/ UpdateTx(r) \/ TransferTx(r)
    BY <2>3 DEF AcceptTx, CreateAccountTx, UpdateTx, TransferTx, Refuse, Retry, Commit
  <2>4. CASE ClaimLink(r) \/ CloseSockets(r) \/ ConfirmReset(r) \/ ReadContext(r)
               \/ RegisterSocket(r)
    BY <2>4 DEF ClaimLink, CloseSockets, ConfirmReset, ReadContext, RegisterSocket, Quiet,
                Write
  <2> QED
    BY <1>1, <2>1, <2>2, <2>3, <2>4 DEF Step
<1>2. ASSUME NEW i \in Invite, RevokeInvite(i) \/ PassDate(i)
      PROVE  over' \subseteq Invite
  BY <1>2 DEF RevokeInvite, PassDate, Write, Typed
<1>3. ASSUME NEW u \in User, Register(u) \/ SendReset(u)
      PROVE  over' = over
  BY <1>3 DEF Register, SendReset, Write
<1>4. CASE Crash \/ \E s \in sockets : Disconnect(s)
  BY <1>4 DEF Crash, Disconnect, Typed
<1> QED
  BY <1>1, <1>2, <1>3, <1>4 DEF Next, Typed

LEMMA NextTyped ==
  ASSUME Typed, Next
  PROVE  Typed'
<1>1. PICK written \in SUBSET (User \cup Invite) : Moves(written)
  BY NextMoves
<1>2. Tasks'
  <2>1. ASSUME NEW r \in Task, Receive(r) \/ Step(r)
        PROVE  Tasks'
    BY <2>1, ReceiveTyped, StepTyped
  <2>2. ASSUME NEW i \in Invite, RevokeInvite(i) \/ PassDate(i)
        PROVE  Tasks'
    BY <1>1, <2>2, WorldTyped DEF RevokeInvite, PassDate, Write
  <2>3. ASSUME NEW u \in User, Register(u) \/ SendReset(u)
        PROVE  Tasks'
    BY <1>1, <2>3, WorldTyped DEF Register, SendReset, Write
  <2>4. ASSUME NEW s \in sockets, Disconnect(s)
        PROVE  Tasks'
    BY <1>1, <2>4, WorldTyped DEF Disconnect
  <2>5. CASE Crash
    BY <2>5 DEF Crash, Tasks, WorkOK, Fits, Finds, Authenticated, Stage
  <2> QED
    BY <2>1, <2>2, <2>3, <2>4, <2>5 DEF Next
<1>3. sockets' \subseteq Socket /\ \A s \in sockets' : db'.account[s.user] # Absent
  <2>1. \A s \in sockets : s.user \in User /\ db'.account[s.user] # Absent
    BY <1>1 DEF Typed, Moves, Differ, Socket
  <2>2. CASE sockets' \subseteq sockets
    BY <2>1, <2>2 DEF Typed
  <2>3. CASE \E r \in Task : RegisterSocket(r)
    <3>1. PICK r \in Task : RegisterSocket(r)
      BY <2>3
    <3>2. db' = db
      BY <3>1 DEF RegisterSocket
    <3> QED
      BY <2>1, <3>1, <3>2, RegisterFields DEF Typed
  <2> QED
    BY <2>2, <2>3, SocketStep
<1> QED
  BY <1>1, <1>2, <1>3, OverStep DEF Typed, Tasks, Moves, Next

LEMMA InitTyped == Init => Typed
<1> SUFFICES ASSUME Init PROVE Typed
  OBVIOUS
<1>1. scene.team \in [User -> MemberDoc \cup {Absent}]
  BY MembershipTasks DEF Init, OneOwner
<1>2. db \in Documents
  BY <1>1, NewAccountType DEF Init, Documents
<1>3. \A r \in Task : WorkOK(r)
  BY DEF Init, WorkOK, Fits, Finds, Authenticated
<1> QED
  BY <1>2, <1>3 DEF Init, Typed, Stage

\* Every task holds, at each stage, work of the kind that the stage needs (Typed).
THEOREM AlwaysTyped == Spec => []Typed
<1>1. Typed /\ [Next]_vars => Typed'
  <2>1. Typed /\ Next => Typed'
    BY NextTyped
  <2>2. Typed /\ UNCHANGED vars => Typed'
    BY DEF vars, Typed, WorkOK
  <2> QED
    BY <2>1, <2>2
<1> QED
  BY <1>1, InitTyped, PTL DEF Spec

\* Members, invitations and accounts keep their types in any interleaving, and
\* only an open transaction has a snapshot.
THEOREM MembersAreTyped == Spec => []TypeOK
<1>1. Typed => TypeOK
  BY DEF Typed, WorkOK, TypeOK
<1> QED
  BY <1>1, AlwaysTyped, PTL

----------------------------------------------------------------------------
(* Snapshots *)

\* What a transaction reads is still so, but for the documents it will find
\* written by others.
Seen == \A r \in Task : snap[r] # Absent => Differ(snap[r], db, stale[r])

LEMMA SeenStep ==
  ASSUME Typed, Seen, Next
  PROVE  Seen'
<1>1. PICK written \in SUBSET (User \cup Invite) : Moves(written)
  BY NextMoves
<1>2. ASSUME NEW r \in Task, snap'[r] # Absent
      PROVE  Differ(snap'[r], db', stale'[r])
  <2>1. CASE snap'[r] = db /\ db' = db
    BY <2>1, DifferSelf
  <2>2. CASE snap[r] # Absent /\ snap'[r] = snap[r] /\ stale'[r] = stale[r] \cup written
    <3>1. Differ(snap[r], db, stale[r])
      BY <2>2 DEF Seen
    <3>2. Differ(snap[r], db', stale[r] \cup written)
      BY <1>1, <3>1, DifferMore DEF Moves
    <3> QED
      BY <2>2, <3>2
  <2> QED
    BY <1>1, <1>2, <2>1, <2>2 DEF Moves, Follow
<1> QED
  BY <1>2 DEF Seen

\* What a commit without a conflict has read of the documents it writes.
LEMMA CommitSeen ==
  ASSUME Typed, Seen, NEW r \in Task, snap[r] # Absent, NEW n, NEW written,
         Commit(r, n, written)
  PROVE  /\ \A u \in User \cap written : db.member[u] = snap[r].member[u]
         /\ \A i \in Invite \cap written : db.invite[i] = snap[r].invite[i]
  BY DEF Seen, Differ, Commit, Conflicts

\* What a transaction read and the database differ in is written since (Seen).
THEOREM AlwaysSeen == Spec => []Seen
<1>1. Init => Seen
  BY DEF Init, Seen
<1>2. Typed /\ Seen /\ [Next]_vars => Seen'
  <2>1. Typed /\ Seen /\ Next => Seen'
    BY SeenStep
  <2>2. Seen /\ UNCHANGED vars => Seen'
    BY DEF vars, Seen
  <2> QED
    BY <2>1, <2>2
<1> QED
  BY <1>1, <1>2, AlwaysTyped, PTL DEF Spec

----------------------------------------------------------------------------
(* The roster: each step is one of its steps, or changes nothing of it *)

\* What an invitation offers while it is open.
OfferOf(doc) ==
  IF doc \notin {Absent, Gone} /\ doc.status = "pending"
  THEN [email |-> doc.email, role |-> doc.role, rights |-> doc.rights]
  ELSE Absent

LEMMA OpenOffersAre == OpenOffers = [i \in Invite |-> OfferOf(db.invite[i])]
  BY DEF OpenOffers, OfferOf, Pending

LEMMA OfferIs ==
  ASSUME NEW d \in Documents, NEW i \in Invite, Pending(d, i)
  PROVE  /\ OfferOf(d.invite[i]) # Absent
         /\ OfferOf(d.invite[i]) \in Book!Offer
         /\ OfferOf(d.invite[i]).email = d.invite[i].email
         /\ OfferOf(d.invite[i]).role = d.invite[i].role
         /\ OfferOf(d.invite[i]).rights = d.invite[i].rights
<1>1. OfferOf(d.invite[i]) = [email |-> d.invite[i].email, role |-> d.invite[i].role,
                              rights |-> d.invite[i].rights]
  BY DEF OfferOf, Pending
<1>2. OfferOf(d.invite[i]) \in [email : User, role : {"admin", "seller"}, rights : SUBSET Right]
  BY <1>1, PendingDoc DEF InviteDoc
<1> QED
  BY <1>1, <1>2, MemberSentinels DEF Book!Offer

\* Nothing of the roster changes.
Still == db'.member = db.member /\ OpenOffers' = OpenOffers

LEMMA StillRoster ==
  ASSUME Still
  PROVE  UNCHANGED Book!vars
  BY DEF Still, Book!vars

LEMMA SameDocs ==
  ASSUME db' = db
  PROVE  Still
  BY DEF Still, OpenOffers, Pending

\* A write of one invitation.
LEMMA InviteOffers ==
  ASSUME Typed, NEW i \in Invite, NEW doc \in InviteDoc \cup {Gone},
         Write([db EXCEPT !.invite[i] = doc], {i})
  PROVE  /\ db'.member = db.member
         /\ OpenOffers' = [OpenOffers EXCEPT ![i] = OfferOf(doc)]
<1>1. PICK n : n = [db EXCEPT !.invite[i] = doc]
  OBVIOUS
<1>2. db \in Documents
  BY DEF Typed
<1>3. n.member = db.member /\ n.invite = [db.invite EXCEPT ![i] = doc]
  BY <1>1, <1>2 DEF Documents
<1>4. db' = n
  BY <1>1 DEF Write
<1>5. \A j \in Invite : db'.invite[j] = IF j = i THEN doc ELSE db.invite[j]
  BY <1>2, <1>3, <1>4, DocumentFields
<1>6. OpenOffers' = [j \in Invite |-> OfferOf(db'.invite[j])]
  BY OpenOffersAre DEF OpenOffers, OfferOf, Pending
<1>7. OpenOffers' = [j \in Invite |-> IF j = i THEN OfferOf(doc) ELSE OfferOf(db.invite[j])]
  BY <1>5, <1>6
<1> QED
  BY <1>3, <1>4, <1>7, OpenOffersAre

LEMMA AccountOffers ==
  ASSUME Typed, NEW u \in User, NEW doc \in AccountDoc,
         Write([db EXCEPT !.account[u] = doc], {})
  PROVE  Still
<1>1. PICK n : n = [db EXCEPT !.account[u] = doc]
  OBVIOUS
<1>2. n.member = db.member /\ n.invite = db.invite
  BY <1>1 DEF Typed, Documents
<1> QED
  BY <1>1, <1>2 DEF Write, Still, OpenOffers, Pending

\* Closing an invitation that may be closed already.
LEMMA ClosesOrNot ==
  ASSUME NEW i \in Invite, db'.member = db.member,
         OpenOffers' = [OpenOffers EXCEPT ![i] = Absent]
  PROVE  Book!Closes(i) \/ Still
<1>1. CASE OpenOffers[i] = Absent
  <2>1. [OpenOffers EXCEPT ![i] = Absent] = OpenOffers
    BY <1>1, OpenOffersAre
  <2> QED
    BY <2>1 DEF Still
<1>2. CASE OpenOffers[i] # Absent
  BY <1>2 DEF Book!Closes
<1> QED
  BY <1>1, <1>2

LEMMA ExpireRoster ==
  ASSUME Typed, NEW r \in Task, ExpireInvite(r)
  PROVE  (\E i \in Invite : Book!Closes(i)) \/ Still
<1>1. CASE db.invite[task[r].invite] = Gone
  BY <1>1, SameDocs DEF ExpireInvite, Quiet
<1>2. CASE db.invite[task[r].invite] # Gone
  <2>1. PICK i \in Invite, doc \in InviteDoc :
           /\ i = task[r].invite /\ db.invite[i] \in InviteDoc
           /\ doc = [db.invite[i] EXCEPT !.status = "expired"]
           /\ Write([db EXCEPT !.invite[i] = doc], {i})
    BY <1>2, ExpireWrite
  <2>2. OfferOf(doc) = Absent
    BY <2>1 DEF OfferOf, InviteDoc
  <2>3. db'.member = db.member /\ OpenOffers' = [OpenOffers EXCEPT ![i] = Absent]
    BY <2>1, <2>2, InviteOffers
  <2> QED
    BY <2>3, ClosesOrNot
<1> QED
  BY <1>1, <1>2

LEMMA RevokeRoster ==
  ASSUME Typed, NEW i \in Invite, RevokeInvite(i)
  PROVE  Book!Closes(i) \/ Still
<1>1. OfferOf(Gone) = Absent
  BY DEF OfferOf
<1>2. db'.member = db.member /\ OpenOffers' = [OpenOffers EXCEPT ![i] = Absent]
  BY <1>1, InviteOffers DEF RevokeInvite
<1> QED
  BY <1>2, ClosesOrNot

LEMMA ClaimRoster ==
  ASSUME Typed, NEW r \in Task, ClaimLink(r)
  PROVE  Still
<1>1. CASE Pending(db, task[r].invite) /\ db.invite[task[r].invite].link = task[r].number
  <2>1. PICK i \in Invite, doc \in InviteDoc :
           /\ i = task[r].invite /\ db.invite[i] \in InviteDoc
           /\ doc = [db.invite[i] EXCEPT !.link = @ + 1]
           /\ Write([db EXCEPT !.invite[i] = doc], {i})
    BY <1>1, ClaimWrite
  <2>2. /\ doc.status = db.invite[i].status /\ doc.email = db.invite[i].email
        /\ doc.role = db.invite[i].role /\ doc.rights = db.invite[i].rights
    BY <2>1 DEF InviteDoc
  <2>3. OfferOf(doc) = OfferOf(db.invite[i])
    BY <2>1, <2>2, MemberSentinels DEF OfferOf
  <2>4. db'.member = db.member /\ OpenOffers' = [OpenOffers EXCEPT ![i] = OfferOf(doc)]
    BY <2>1, InviteOffers
  <2>5. [OpenOffers EXCEPT ![i] = OfferOf(doc)] = OpenOffers
    BY <2>3, OpenOffersAre
  <2> QED
    BY <2>4, <2>5 DEF Still
<1>2. CASE ~ (Pending(db, task[r].invite)
                /\ db.invite[task[r].invite].link = task[r].number)
  BY <1>2, SameDocs DEF ClaimLink, Quiet
<1> QED
  BY <1>1, <1>2

LEMMA InsertRoster ==
  ASSUME Typed, NEW r \in Task, InsertInvite(r)
  PROVE  (\E i \in Invite : Book!Invites(i)) \/ Still
<1>1. CASE Quiet
  BY <1>1, SameDocs DEF Quiet
<1>2. CASE ~ Quiet
  <2>1. PICK i \in Invite, u \in User, doc \in InviteDoc :
           /\ u = task[r].target /\ PendingFor(db, u) = {} /\ db.invite[i] = Absent
           /\ doc = [email |-> u, role |-> task[r].offer.role,
                     rights |-> task[r].offer.rights, status |-> "pending", link |-> 0]
           /\ Write([db EXCEPT !.invite[i] = doc], {i})
    BY <1>2, InsertWrite
  <2>2. doc.email = u /\ doc.status = "pending" /\ doc \notin {Absent, Gone}
    BY <2>1, MemberSentinels
  <2>3. OfferOf(doc) = [email |-> u, role |-> doc.role, rights |-> doc.rights]
    BY <2>2 DEF OfferOf
  <2>4. OfferOf(doc) \in Book!Offer /\ OfferOf(doc).email = u
    BY <2>3 DEF InviteDoc, Book!Offer
  <2>5. db'.member = db.member /\ OpenOffers' = [OpenOffers EXCEPT ![i] = OfferOf(doc)]
    BY <2>1, InviteOffers
  <2>6. OpenOffers[i] = Absent
    BY <2>1, OpenOffersAre DEF OfferOf
  <2>7. ASSUME NEW j \in Invite, OpenOffers[j] # Absent
        PROVE  OpenOffers[j].email # u
    <3>1. OpenOffers[j] = OfferOf(db.invite[j])
      BY OpenOffersAre
    <3>2. Pending(db, j)
      BY <2>7, <3>1 DEF OfferOf, Pending
    <3>3. OpenOffers[j].email = db.invite[j].email
      BY <3>1, <3>2, OfferIs DEF Typed
    <3> QED
      BY <2>1, <3>2, <3>3 DEF PendingFor
  <2> QED
    BY <2>4, <2>5, <2>6, <2>7 DEF Book!Invites
<1> QED
  BY <1>1, <1>2

\* The roster after a commit.
LEMMA CommitRoster ==
  ASSUME Typed, NEW r \in Task, snap[r] \in Documents, NEW n \in Documents,
         NEW written \in SUBSET (User \cup Invite), Commit(r, n, written)
  PROVE  /\ db'.member = [u \in User |-> IF u \in written THEN n.member[u] ELSE db.member[u]]
         /\ OpenOffers' = [i \in Invite |-> IF i \in written THEN OfferOf(n.invite[i])
                                           ELSE OfferOf(db.invite[i])]
<1>1. /\ db'.member = [u \in User |-> IF u \in written THEN n.member[u] ELSE db.member[u]]
      /\ db'.invite = [i \in Invite |-> IF i \in written THEN n.invite[i] ELSE db.invite[i]]
      /\ db'.account = [u \in User |->
           IF snap[r].account[u] = Absent /\ n.account[u] # Absent
           THEN n.account[u] ELSE db.account[u]]
      /\ db' = [member |-> db'.member, invite |-> db'.invite, account |-> db'.account]
  BY CommitFields
<1>2. OpenOffers' = [i \in Invite |-> OfferOf(db'.invite[i])]
  BY DEF OpenOffers, OfferOf, Pending
<1> QED
  BY <1>1, <1>2

\* When only members are written, the offers stay.
LEMMA MembersOnly ==
  ASSUME Typed, NEW r \in Task, snap[r] \in Documents, NEW n \in Documents,
         NEW written \in SUBSET User, Commit(r, n, written)
  PROVE  /\ db'.member = [u \in User |-> IF u \in written THEN n.member[u] ELSE db.member[u]]
         /\ OpenOffers' = OpenOffers
<1>1. written \in SUBSET (User \cup Invite) /\ Invite \cap written = {}
  BY MemberConstants
<1>2. /\ db'.member = [u \in User |-> IF u \in written THEN n.member[u] ELSE db.member[u]]
      /\ OpenOffers' = [i \in Invite |-> IF i \in written THEN OfferOf(n.invite[i])
                                         ELSE OfferOf(db.invite[i])]
  BY <1>1, CommitRoster
<1>3. OpenOffers' = [i \in Invite |-> OfferOf(db.invite[i])]
  BY <1>1, <1>2
<1> QED
  BY <1>2, <1>3, OpenOffersAre

LEMMA JoinRoster ==
  ASSUME Typed, Seen, NEW r \in Task, AcceptTx(r) \/ CreateAccountTx(r)
  PROVE  (\E i \in Invite : Book!Joins(i)) \/ Still
<1>1. PICK s : s = snap[r]
  OBVIOUS
<1>2. PICK i : i = task[r].invite
  OBVIOUS
<1>3. PICK u : u = task[r].user
  OBVIOUS
<1>4. s \in Documents /\ i \in Invite /\ u \in User
  BY <1>1, <1>2, <1>3, BodyOf DEF AcceptTx, CreateAccountTx, TxStage, Fits
<1>5. CASE db' = db
  BY <1>5, SameDocs
<1>6. CASE /\ snap[r] # Absent /\ Consumes(s, i, u) /\ ~ IsMember(s, u)
           /\ \E n \in {Joined(s, i), JoinedAnew(s, i)} : Commit(r, n, {i, u})
  <2>1. PICK n \in {Joined(s, i), JoinedAnew(s, i)} : Commit(r, n, {i, u})
    BY <1>6
  <2>2. Pending(s, i) /\ s.invite[i].email = u /\ s.member[u] = Absent /\ snap[r] # Absent
    BY <1>6 DEF Consumes, IsMember
  <2>3. /\ n \in Documents /\ n.invite[i] = Gone
        /\ n.member[u] = [role |-> s.invite[i].role, rights |-> s.invite[i].rights,
                          status |-> "active"]
    BY <1>4, <2>2, JoinedDocs DEF JoinedBy
  <2>4. db.member[u] = Absent /\ db.invite[i] = s.invite[i]
    BY <1>1, <1>4, <2>1, <2>2, CommitSeen
  <2>5. Pending(db, i) /\ db.invite[i].email = u
    BY <2>2, <2>4 DEF Pending
  <2>6. {i, u} \in SUBSET (User \cup Invite) /\ i \notin User /\ u \notin Invite
    BY <1>4, MemberConstants
  <2>7. /\ db'.member = [v \in User |-> IF v \in {i, u} THEN n.member[v] ELSE db.member[v]]
        /\ OpenOffers' = [j \in Invite |-> IF j \in {i, u} THEN OfferOf(n.invite[j])
                                           ELSE OfferOf(db.invite[j])]
    BY <1>1, <1>4, <2>1, <2>3, <2>6, CommitRoster
  <2>8. db'.member = [db.member EXCEPT ![u] =
          [role |-> db.invite[i].role, rights |-> db.invite[i].rights, status |-> "active"]]
    <3>1. db.member \in [User -> MemberDoc \cup {Absent}]
      BY DocumentFields DEF Typed
    <3> QED
      BY <2>3, <2>4, <2>6, <2>7, <3>1
  <2>9. OpenOffers' = [OpenOffers EXCEPT ![i] = Absent]
    <3>1. OfferOf(n.invite[i]) = Absent
      BY <2>3 DEF OfferOf
    <3> QED
      BY <2>6, <2>7, <3>1, OpenOffersAre
  <2>10. /\ OpenOffers[i] # Absent /\ OpenOffers[i].email = u
         /\ OpenOffers[i].role = db.invite[i].role
         /\ OpenOffers[i].rights = db.invite[i].rights
    BY <1>4, <2>5, OfferIs, OpenOffersAre DEF Typed
  <2>11. Book!Joins(i)
    BY <2>4, <2>8, <2>9, <2>10 DEF Book!Joins
  <2> QED
    BY <1>4, <2>11
<1> QED
  BY <1>1, <1>2, <1>3, <1>5, <1>6 DEF AcceptTx, CreateAccountTx, Refuse, Retry, InBody

LEMMA UpdateRoster ==
  ASSUME Typed, Seen, NEW r \in Task, UpdateTx(r)
  PROVE  (\E u \in User : Book!Changes(u)) \/ Still
<1>1. PICK s : s = snap[r]
  OBVIOUS
<1>2. PICK u : u = task[r].target
  OBVIOUS
<1>3. PICK after : after = Changed(s.member[u], task[r].change, task[r].known)
  OBVIOUS
<1>4. PICK n : n = Updated(s, u, after)
  OBVIOUS
<1>5. PICK written : written = IF after = s.member[u] THEN {} ELSE {u}
  OBVIOUS
<1>6. CASE db' = db
  BY <1>6, SameDocs
<1>7. CASE /\ InBody(r, "update") /\ IsMember(s, u) /\ Manages(s, task[r].user, u, after)
           /\ Commit(r, n, written)
  <2>1. /\ s \in Documents /\ u \in User /\ s.member[u] \in MemberDoc
        /\ task[r].change \in Change /\ after \in MemberDoc /\ n \in Documents
        /\ n.member = [s.member EXCEPT ![u] = after]
    <3>1. /\ InBody(r, "update") /\ IsMember(snap[r], task[r].target)
          /\ after = Changed(snap[r].member[task[r].target], task[r].change, task[r].known)
          /\ n = Updated(snap[r], task[r].target, after)
      BY <1>1, <1>2, <1>3, <1>4, <1>7, Zenon
    <3>2. /\ snap[r] \in Documents /\ task[r].target \in User
          /\ snap[r].member[task[r].target] \in MemberDoc
          /\ task[r].change \in Change /\ after \in MemberDoc /\ n \in Documents
          /\ n.member = [snap[r].member EXCEPT ![task[r].target] = after]
      BY <3>1, UpdateBody
    <3> QED
      BY <1>1, <1>2, <3>2, Zenon
  <2>2. written \in SUBSET User
    BY <1>5, <2>1
  <2>3. /\ db'.member = [v \in User |-> IF v \in written THEN n.member[v] ELSE db.member[v]]
        /\ OpenOffers' = OpenOffers
    BY <1>1, <1>7, <2>1, <2>2, MembersOnly
  <2>4. db.member \in [User -> MemberDoc \cup {Absent}]
    BY DocumentFields DEF Typed
  <2>5. CASE written = {}
    BY <2>3, <2>4, <2>5 DEF Still
  <2>6. CASE written = {u}
    <3>1. db.member[u] = s.member[u]
      BY <1>1, <1>7, <2>1, <2>6, CommitSeen DEF InBody
    <3>2. db.member[u] # Absent /\ db.member[u].role # "owner"
      BY <1>7, <3>1 DEF IsMember, Manages
    <3>3. after.role \in {"admin", "seller"}
      BY <1>3, <2>1, <3>1, <3>2 DEF Changed, Change, MemberDoc, Role
    <3>4. after \in Book!Fields
      BY <2>1, <3>3 DEF Book!Fields, MemberDoc, Status
    <3>5. n.member[u] = after
      BY <2>1, DocumentFields
    <3>6. db'.member = [db.member EXCEPT ![u] = after]
      BY <2>3, <2>4, <2>6, <3>5
    <3>7. Book!Changes(u)
      BY <2>3, <3>2, <3>4, <3>6 DEF Book!Changes
    <3> QED
      BY <2>1, <3>7
  <2> QED
    BY <1>5, <2>5, <2>6
<1> QED
  BY <1>1, <1>2, <1>3, <1>4, <1>5, <1>6, <1>7 DEF UpdateTx, Updated, Refuse, Retry

LEMMA TransferRoster ==
  ASSUME Typed, Seen, NEW r \in Task, TransferTx(r)
  PROVE  (\E u \in User : Book!Transfers(u)) \/ Still
<1>1. PICK s : s = snap[r]
  OBVIOUS
<1>2. PICK a : a = task[r].user
  OBVIOUS
<1>3. PICK u : u = task[r].target
  OBVIOUS
<1>4. PICK n : n = Transferred(s, a, u)
  OBVIOUS
<1>5. CASE db' = db
  BY <1>5, SameDocs
<1>6. CASE InBody(r, "transfer") /\ MayTransfer(s, a, u) /\ Commit(r, n, {a, u})
  <2>1. s \in Documents /\ u \in User /\ a \in User /\ n \in Documents /\ Given(s, n, a, u)
    BY <1>1, <1>2, <1>3, <1>4, <1>6, TransferBody
  <2>2. /\ db'.member = [v \in User |-> IF v \in {a, u} THEN n.member[v] ELSE db.member[v]]
        /\ OpenOffers' = OpenOffers
    BY <1>1, <1>6, <2>1, MembersOnly
  <2>3. db.member[a] = s.member[a] /\ db.member[u] = s.member[u]
    BY <1>1, <1>6, <2>1, CommitSeen DEF InBody
  <2>4. /\ a # u /\ a \in Book!Owners
        /\ db.member[u] # Absent /\ db.member[u].status = "active"
    BY <1>6, <2>1, <2>3 DEF MayTransfer, Active, IsMember, Book!Owners
  <2>5. db'.member = [db.member EXCEPT ![a].role = "admin", ![u].role = "owner"]
    <3>1. /\ n.member[a] = [db.member[a] EXCEPT !.role = "admin"]
          /\ n.member[u] = [db.member[u] EXCEPT !.role = "owner"]
      BY <2>1, <2>3 DEF Given
    <3>2. PICK left, right : /\ left = [db.member[a] EXCEPT !.role = "admin"]
                             /\ right = [db.member[u] EXCEPT !.role = "owner"]
      OBVIOUS
    <3>3. db.member \in [User -> MemberDoc \cup {Absent}]
      BY DocumentFields DEF Typed
    <3>4. [db.member EXCEPT ![a].role = "admin", ![u].role = "owner"]
            = [db.member EXCEPT ![a] = left, ![u] = right]
      BY <2>1, <2>4, <3>2, <3>3
    <3>5. db'.member = [db.member EXCEPT ![a] = left, ![u] = right]
      BY <2>1, <2>2, <2>4, <3>1, <3>2, <3>3
    <3> QED
      BY <3>4, <3>5
  <2>6. Book!Transfers(u)
    BY <2>2, <2>4, <2>5 DEF Book!Transfers
  <2> QED
    BY <2>1, <2>6
<1> QED
  BY <1>1, <1>2, <1>3, <1>4, <1>5, <1>6 DEF TransferTx, Refuse, Retry

LEMMA RosterStep ==
  ASSUME Typed, Seen, Next
  PROVE  Book!Next \/ Still
<1>1. ASSUME NEW r \in Task, Step(r)
      PROVE  Book!Next \/ Still
  <2>1. CASE Begin(r) \/ CheckInvited(r) \/ CloseSockets(r) \/ ReadContext(r)
               \/ RegisterSocket(r)
    BY <2>1, SameDocs DEF Begin, CheckInvited, CloseSockets, ReadContext, RegisterSocket,
                          Quiet
  <2>2. CASE ExpireInvite(r)
    BY <2>2, ExpireRoster DEF Book!Next
  <2>3. CASE InsertInvite(r)
    BY <2>3, InsertRoster DEF Book!Next
  <2>4. CASE AcceptTx(r) \/ CreateAccountTx(r)
    BY <2>4, JoinRoster DEF Book!Next
  <2>5. CASE ClaimLink(r)
    BY <2>5, ClaimRoster
  <2>6. CASE UpdateTx(r)
    BY <2>6, UpdateRoster DEF Book!Next
  <2>7. CASE TransferTx(r)
    BY <2>7, TransferRoster DEF Book!Next
  <2>8. CASE ConfirmReset(r)
    <3>1. CASE /\ db.account[task[r].user].reset = task[r].number
               /\ db.account[task[r].user].version + 1 = task[r].before
      BY <2>8, <3>1, ConfirmWrite, AccountOffers
    <3>2. CASE ~ (/\ db.account[task[r].user].reset = task[r].number
                  /\ db.account[task[r].user].version + 1 = task[r].before)
      BY <2>8, <3>2, SameDocs DEF ConfirmReset, Quiet
    <3> QED
      BY <3>1, <3>2
  <2> QED
    BY <1>1, <2>1, <2>2, <2>3, <2>4, <2>5, <2>6, <2>7, <2>8 DEF Step
<1>2. ASSUME NEW r \in Task, Receive(r)
      PROVE  Still
  BY <1>2, ReceiveQuiet, SameDocs DEF Quiet
<1>3. ASSUME NEW i \in Invite, RevokeInvite(i)
      PROVE  Book!Next \/ Still
  BY <1>3, RevokeRoster DEF Book!Next
<1>4. ASSUME NEW u \in User, Register(u)
      PROVE  Still
  BY <1>4, NewAccountType, AccountOffers DEF Register
<1>5. ASSUME NEW u \in User, SendReset(u)
      PROVE  Still
  BY <1>5, SendWrite, AccountOffers
<1>6. ASSUME db' = db
      PROVE  Still
  BY <1>6, SameDocs
<1> QED
  BY <1>1, <1>2, <1>3, <1>4, <1>5, <1>6 DEF Next, PassDate, Disconnect, Crash

LEMMA OwnersAre == ActiveOwners(db) = Book!Owners
  BY DEF ActiveOwners, Book!Owners, Active, IsMember

LEMMA InitOwner == Init => OneActiveOwner
<1> SUFFICES ASSUME Init PROVE OneActiveOwner
  OBVIOUS
<1>1. PICK o \in User :
        /\ {u \in User : scene.team[u] # Absent /\ scene.team[u].role = "owner"} = {o}
        /\ scene.team[o].status = "active"
  BY MembershipTasks DEF Init, OneOwner
<1>2. db.member = scene.team
  BY DEF Init
<1>3. ActiveOwners(db) = {o}
  BY <1>1, <1>2 DEF ActiveOwners, Active, IsMember
<1> QED
  BY <1>3 DEF OneActiveOwner

LEMMA InitRoster == Init => Book!Init
<1> SUFFICES ASSUME Init PROVE Book!Init
  OBVIOUS
<1>1. \E o \in User : Book!Owners = {o}
  BY InitOwner, OwnersAre DEF OneActiveOwner
<1>2. OpenOffers \in [Invite -> {Absent}]
  BY DEF Init, OpenOffers, Pending
<1> QED
  BY <1>1, <1>2 DEF Book!Init

\* The requests together implement the roster, whatever runs at once: nobody
\* joins but by an invitation that is open, which the same commit closes; an
\* address has one open invitation; a transfer moves the ownership in one step.
THEOREM RosterIsKept == Spec => KeepsRoster
<1>1. Typed /\ Seen /\ [Next]_vars => [Book!Next]_(Book!vars)
  <2>1. ASSUME Typed, Seen, Next
        PROVE  [Book!Next]_(Book!vars)
    BY <2>1, RosterStep, StillRoster
  <2>2. UNCHANGED vars => UNCHANGED Book!vars
    BY SameDocs, StillRoster DEF vars
  <2> QED
    BY <2>1, <2>2
<1> QED
  BY <1>1, InitRoster, AlwaysTyped, AlwaysSeen, PTL DEF Spec, KeepsRoster, Book!Spec

\* Each step of the roster leaves exactly one active owner.
LEMMA OwnerStep ==
  ASSUME Typed, OneActiveOwner, Book!Next
  PROVE  OneActiveOwner'
<1>1. PICK o \in User : ActiveOwners(db) = {o}
  BY DEF OneActiveOwner
<1>2. db.member \in [User -> MemberDoc \cup {Absent}]
  BY DocumentFields DEF Typed
<1>3. \A u \in User : u \in ActiveOwners(db)' <=>
        /\ db'.member[u] # Absent /\ db'.member[u].status = "active"
        /\ db'.member[u].role = "owner"
  BY DEF ActiveOwners, Active, IsMember
<1>4. \A u \in User : u = o <=>
        /\ db.member[u] # Absent /\ db.member[u].status = "active"
        /\ db.member[u].role = "owner"
  BY <1>1 DEF ActiveOwners, Active, IsMember
<1>5. ASSUME db'.member = db.member
      PROVE  ActiveOwners(db)' = {o}
  BY <1>1, <1>5 DEF ActiveOwners, Active, IsMember
<1>6. ASSUME NEW u \in User, NEW doc, doc.role # "owner",
             db'.member = [db.member EXCEPT ![u] = doc], u # o
      PROVE  ActiveOwners(db)' = {o}
  <2>1. \A v \in User : v \in ActiveOwners(db)' <=> v = o
    BY <1>2, <1>3, <1>4, <1>6
  <2> QED
    BY <2>1 DEF ActiveOwners
<1>7. ASSUME NEW i \in Invite, Book!Invites(i) \/ Book!Closes(i)
      PROVE  OneActiveOwner'
  BY <1>5, <1>7 DEF Book!Invites, Book!Closes, OneActiveOwner
<1>8. ASSUME NEW i \in Invite, Book!Joins(i)
      PROVE  OneActiveOwner'
  <2>1. PICK u : u = OpenOffers[i].email
    OBVIOUS
  <2>2. PICK doc : doc = [role |-> OpenOffers[i].role, rights |-> OpenOffers[i].rights,
                          status |-> "active"]
    OBVIOUS
  <2>3. Pending(db, i)
    BY <1>8, OpenOffersAre DEF Book!Joins, OfferOf, Pending
  <2>4. OpenOffers[i] \in Book!Offer
    BY <2>3, OpenOffersAre, OfferIs DEF Typed
  <2>5. u \in User /\ doc.role # "owner"
    BY <2>1, <2>2, <2>4 DEF Book!Offer
  <2>6. db.member[u] = Absent /\ db'.member = [db.member EXCEPT ![u] = doc]
    BY <1>8, <2>1, <2>2 DEF Book!Joins
  <2>7. u # o
    BY <1>4, <2>6
  <2> QED
    BY <1>6, <2>5, <2>6, <2>7 DEF OneActiveOwner
<1>9. ASSUME NEW u \in User, Book!Changes(u)
      PROVE  OneActiveOwner'
  <2>1. PICK fields \in Book!Fields : db'.member = [db.member EXCEPT ![u] = fields]
    BY <1>9 DEF Book!Changes
  <2>2. fields.role # "owner" /\ u # o
    BY <1>4, <1>9 DEF Book!Changes, Book!Fields
  <2> QED
    BY <1>6, <2>1, <2>2 DEF OneActiveOwner
<1>10. ASSUME NEW u \in User, Book!Transfers(u)
       PROVE  OneActiveOwner'
  <2>1. Book!Owners = {o}
    BY <1>1, OwnersAre
  <2>2. u # o /\ db'.member = [db.member EXCEPT ![o].role = "admin", ![u].role = "owner"]
    BY <1>10, <2>1 DEF Book!Transfers
  <2>3. PICK left, right : /\ left = [db.member[o] EXCEPT !.role = "admin"]
                           /\ right = [db.member[u] EXCEPT !.role = "owner"]
    OBVIOUS
  <2>4. db.member[u] \in MemberDoc /\ db.member[o] \in MemberDoc
    BY <1>2, <1>4, <1>10 DEF Book!Transfers
  <2>5. /\ left.role = "admin" /\ right.role = "owner"
        /\ right.status = db.member[u].status /\ right \in MemberDoc
    BY <2>3, <2>4 DEF MemberDoc, Role
  <2>6. right # Absent /\ right.status = "active"
    BY <1>10, <2>5, MemberSentinels DEF Book!Transfers
  <2>7. db'.member = [db.member EXCEPT ![o] = left, ![u] = right]
    BY <1>2, <2>2, <2>3
  <2>8. \A v \in User : v \in ActiveOwners(db)' <=> v = u
    <3>1. db'.member[u] = right /\ db'.member[o] = left
      BY <1>2, <2>2, <2>7
    <3>2. \A v \in User \ {o, u} : db'.member[v] = db.member[v]
      BY <1>2, <2>7
    <3>3. u \in ActiveOwners(db)' /\ o \notin ActiveOwners(db)'
      BY <1>3, <2>5, <2>6, <3>1
    <3>4. \A v \in User \ {o, u} : v \notin ActiveOwners(db)'
      BY <1>3, <1>4, <3>2
    <3> QED
      BY <3>3, <3>4
  <2>9. ActiveOwners(db)' = {u}
    BY <2>8 DEF ActiveOwners
  <2> QED
    BY <2>9 DEF OneActiveOwner
<1> QED
  BY <1>7, <1>8, <1>9, <1>10 DEF Book!Next

\* There is exactly one active owner at any time, without any help of the unique
\* index: the conflicts of transactions suffice.
THEOREM AlwaysOneOwner == Spec => []OneActiveOwner
<1>1. Typed /\ Seen /\ OneActiveOwner /\ [Next]_vars => OneActiveOwner'
  <2>1. ASSUME Still, OneActiveOwner
        PROVE  OneActiveOwner'
    BY <2>1 DEF Still, OneActiveOwner, ActiveOwners, Active, IsMember
  <2>2. UNCHANGED vars => Still
    BY SameDocs DEF vars
  <2> QED
    BY <2>1, <2>2, RosterStep, OwnerStep
<1> QED
  BY <1>1, InitOwner, AlwaysTyped, AlwaysSeen, PTL DEF Spec

----------------------------------------------------------------------------
(* Sockets *)

\* The task r is about to close the sockets of u, those of sessions before a
\* given one (all of them if that is 0).
Closes(r, u, before) ==
  pc[r] = "close" /\ u \in task[r].closes /\ task[r].before = before

LEMMA ClosedIs ==
  ASSUME NEW r \in Task, NEW s \in sockets
  PROVE  s \in Closed(task[r]) <=>
           s.user \in task[r].closes /\ (task[r].before = 0 \/ s.version < task[r].before)
  BY DEF Closed

\* A step of r leaves the others alone.
LEMMA OnlyOwn ==
  ASSUME Typed, NEW r \in Task, Receive(r) \/ Step(r), NEW q \in Task \ {r}
  PROVE  pc'[q] = pc[q] /\ task'[q] = task[q]
<1>1. ASSUME NEW stage, NEW work, Go(r, stage, work)
      PROVE  pc'[q] = pc[q] /\ task'[q] = task[q]
  BY <1>1 DEF Go, Typed
<1>2. ASSUME NEW stage, Goto(r, stage)
      PROVE  pc'[q] = pc[q] /\ task'[q] = task[q]
  BY <1>2 DEF Goto, Typed
<1>3. CASE Finish(r) \/ \E users, before : Close(r, users, before)
  BY <1>1, <1>3 DEF Finish, Close
<1>4. CASE Receive(r)
  BY <1>1, <1>4 DEF Receive, ReceiveInvite, ReceiveAccept, ReceiveLink,
         ReceiveCreateAccount, ReceiveUpdate, ReceiveTransfer, ReceiveReset,
         ReceiveConnect, Start
<1>5. CASE UNCHANGED <<pc, task>>
  BY <1>5
<1>6. CASE Begin(r) \/ CheckInvited(r) \/ ExpireInvite(r) \/ InsertInvite(r)
  BY <1>1, <1>2, <1>3, <1>5, <1>6 DEF Begin, CheckInvited, ExpireInvite, InsertInvite
<1>7. CASE AcceptTx(r) \/ CreateAccountTx(r) \/ UpdateTx(r) \/ TransferTx(r)
  BY <1>3, <1>5, <1>7 DEF AcceptTx, CreateAccountTx, UpdateTx, TransferTx, Refuse, Retry
<1>8. CASE ClaimLink(r) \/ CloseSockets(r) \/ ConfirmReset(r) \/ ReadContext(r)
             \/ RegisterSocket(r)
  BY <1>1, <1>3, <1>8 DEF ClaimLink, CloseSockets, ConfirmReset, ReadContext, RegisterSocket
<1> QED
  BY <1>4, <1>6, <1>7, <1>8 DEF Step

\* Who is about to close a socket that is still open has not done so yet.
LEMMA ClosesStays ==
  ASSUME Typed, Next, NEW r \in Task, pc[r] = "close",
         NEW s \in sockets \cap sockets', s \in Closed(task[r])
  PROVE  pc'[r] = "close" /\ task'[r] = task[r]
<1>1. ASSUME NEW q \in Task, Receive(q) \/ Step(q)
      PROVE  pc'[r] = "close" /\ task'[r] = task[r]
  <2>1. CASE q # r
    BY <1>1, <2>1, OnlyOwn
  <2>2. CASE q = r
    <3>1. CloseSockets(r)
      BY <1>1, <2>2
         DEF Receive, ReceiveInvite, ReceiveAccept, ReceiveLink, ReceiveCreateAccount,
             ReceiveUpdate, ReceiveTransfer, ReceiveReset, ReceiveConnect, Start, Step,
             Begin, CheckInvited, ExpireInvite, InsertInvite, AcceptTx, CreateAccountTx,
             UpdateTx, TransferTx, InBody, ClaimLink, ConfirmReset, ReadContext,
             RegisterSocket, TxStage
    <3> QED
      BY <3>1 DEF CloseSockets
  <2> QED
    BY <2>1, <2>2
<1>2. ASSUME UNCHANGED <<pc, task>>
      PROVE  pc'[r] = "close" /\ task'[r] = task[r]
  BY <1>2
<1>3. CASE Crash
  BY <1>3 DEF Crash
<1> QED
  BY <1>1, <1>2, <1>3 DEF Next, RevokeInvite, PassDate, Register, SendReset, Disconnect

\* The document of a member changes in a transaction that goes on to close the
\* sockets of that member.
MemberFollowed ==
  \A u \in User : db.member[u] # Absent /\ db'.member[u] # db.member[u] =>
    \E r \in Task : Closes(r, u, 0)'

\* So does the version of the sessions of an account.
VersionFollowed ==
  \A u \in User, before \in Nat :
    /\ db.account[u] # Absent /\ db'.account[u].version # db.account[u].version
    /\ before = db.account[u].version + 1
    => \E r \in Task : Closes(r, u, before)'

LEMMA CommitAccounts ==
  ASSUME Typed, NEW r \in Task, snap[r] \in Documents, NEW n \in Documents,
         NEW written \in SUBSET (User \cup Invite), Commit(r, n, written)
  PROVE  VersionFollowed
<1>1. /\ db'.member = [u \in User |-> IF u \in written THEN n.member[u] ELSE db.member[u]]
      /\ db'.invite = [i \in Invite |-> IF i \in written THEN n.invite[i] ELSE db.invite[i]]
      /\ db'.account = [u \in User |->
           IF snap[r].account[u] = Absent /\ n.account[u] # Absent
           THEN n.account[u] ELSE db.account[u]]
      /\ db' = [member |-> db'.member, invite |-> db'.invite, account |-> db'.account]
  BY CommitFields
<1>2. ASSUME NEW u \in User, db.account[u] # Absent
      PROVE  db'.account[u] = db.account[u]
  <2>1. ~ (snap[r].account[u] = Absent /\ n.account[u] # Absent)
    BY <1>2 DEF Commit, Conflicts, Collides
  <2> QED
    BY <1>1, <2>1
<1> QED
  BY <1>2 DEF VersionFollowed

LEMMA SameFollowed ==
  ASSUME db' = db
  PROVE  MemberFollowed /\ VersionFollowed
  BY DEF MemberFollowed, VersionFollowed

\* A write of an invitation changes neither.
LEMMA InviteFollowed ==
  ASSUME Typed, NEW i \in Invite, NEW doc \in InviteDoc \cup {Gone},
         Write([db EXCEPT !.invite[i] = doc], {i})
  PROVE  MemberFollowed /\ VersionFollowed
<1>1. PICK n : n = [db EXCEPT !.invite[i] = doc]
  OBVIOUS
<1>2. n.member = db.member /\ n.account = db.account
  BY <1>1 DEF Typed, Documents
<1>3. db' = n
  BY <1>1 DEF Write
<1> QED
  BY <1>2, <1>3 DEF MemberFollowed, VersionFollowed

\* A write of an account changes one version at most.
LEMMA AccountFollowed ==
  ASSUME Typed, NEW u \in User, NEW doc \in AccountDoc,
         Write([db EXCEPT !.account[u] = doc], {})
  PROVE  /\ MemberFollowed
         /\ db.account[u] = Absent \/ doc.version = db.account[u].version => VersionFollowed
         /\ \A v \in User \ {u} : db'.account[v] = db.account[v]
         /\ db'.account[u] = doc
<1>1. PICK n : n = [db EXCEPT !.account[u] = doc]
  OBVIOUS
<1>2. /\ n.member = db.member
      /\ \A v \in User \ {u} : n.account[v] = db.account[v]
      /\ n.account[u] = doc
  BY <1>1 DEF Typed, Documents
<1>3. db' = n
  BY <1>1 DEF Write
<1> QED
  BY <1>2, <1>3 DEF MemberFollowed, VersionFollowed

LEMMA TxFollowed ==
  ASSUME Typed, Seen, NEW r \in Task,
         AcceptTx(r) \/ CreateAccountTx(r) \/ UpdateTx(r) \/ TransferTx(r)
  PROVE  MemberFollowed /\ VersionFollowed
<1>1. PICK s : s = snap[r]
  OBVIOUS
<1>2. PICK a : a = task[r].user
  OBVIOUS
<1>3. CASE db' = db
  BY <1>3, SameFollowed
<1>4. CASE AcceptTx(r) \/ CreateAccountTx(r)
  <2>1. PICK i : i = task[r].invite
    OBVIOUS
  <2>2. s \in Documents /\ i \in Invite /\ a \in User
    BY <1>1, <1>2, <1>4, <2>1, BodyOf DEF AcceptTx, CreateAccountTx, TxStage, Fits
  <2>3. CASE /\ snap[r] # Absent /\ Consumes(s, i, a) /\ ~ IsMember(s, a)
             /\ \E n \in {Joined(s, i), JoinedAnew(s, i)} : Commit(r, n, {i, a})
    <3>1. PICK n \in {Joined(s, i), JoinedAnew(s, i)} : Commit(r, n, {i, a})
      BY <2>3
    <3>2. n \in Documents
      BY <2>2, <2>3, JoinedDocs DEF Consumes
    <3>3. {i, a} \in SUBSET (User \cup Invite) /\ i \notin User
      BY <2>2, MemberConstants
    <3>4. VersionFollowed
      BY <1>1, <2>2, <3>1, <3>2, <3>3, CommitAccounts
    <3>5. db.member[a] = Absent
      BY <1>1, <2>2, <2>3, <3>1, CommitSeen DEF IsMember
    <3>6. db'.member = [u \in User |-> IF u \in {i, a} THEN n.member[u] ELSE db.member[u]]
      BY <1>1, <2>2, <3>1, <3>2, <3>3, CommitRoster
    <3>7. MemberFollowed
      BY <3>3, <3>5, <3>6 DEF MemberFollowed
    <3> QED
      BY <3>4, <3>7
  <2> QED
    BY <1>1, <1>2, <1>3, <1>4, <2>1, <2>3
       DEF AcceptTx, CreateAccountTx, Refuse, Retry, InBody
<1>5. PICK u : u = task[r].target
  OBVIOUS
<1>6. CASE UpdateTx(r)
  <2>1. PICK after : after = Changed(s.member[u], task[r].change, task[r].known)
    OBVIOUS
  <2>2. PICK n : n = Updated(s, u, after)
    OBVIOUS
  <2>3. PICK written : written = IF after = s.member[u] THEN {} ELSE {u}
    OBVIOUS
  <2>4. CASE InBody(r, "update") /\ IsMember(s, u) /\ Commit(r, n, written) /\ Close(r, {u}, 0)
    <3>1. s \in Documents /\ u \in User /\ n \in Documents
      BY <1>1, <1>5, <2>1, <2>2, <2>4, UpdateBody
    <3>2. written \in SUBSET (User \cup Invite) /\ written \in SUBSET {u}
      BY <2>3, <3>1
    <3>3. VersionFollowed
      BY <1>1, <2>4, <3>1, <3>2, CommitAccounts
    <3>4. db'.member = [v \in User |-> IF v \in written THEN n.member[v] ELSE db.member[v]]
      BY <1>1, <2>4, <3>1, <3>2, CommitRoster
    <3>5. Closes(r, u, 0)'
      BY <2>4, <3>1, CloseWork DEF Closes, InBody
    <3>6. MemberFollowed
      BY <3>2, <3>4, <3>5 DEF MemberFollowed
    <3> QED
      BY <3>3, <3>6
  <2> QED
    BY <1>1, <1>3, <1>5, <1>6, <2>1, <2>2, <2>3, <2>4 DEF UpdateTx, Updated, Refuse, Retry
<1>7. CASE TransferTx(r)
  <2>1. PICK n : n = Transferred(s, a, u)
    OBVIOUS
  <2>2. CASE /\ InBody(r, "transfer") /\ MayTransfer(s, a, u)
             /\ Commit(r, n, {a, u}) /\ Close(r, {a, u}, 0)
    <3>1. s \in Documents /\ u \in User /\ a \in User /\ n \in Documents
      BY <1>1, <1>2, <1>5, <2>1, <2>2, TransferBody
    <3>2. {a, u} \in SUBSET (User \cup Invite) /\ {a, u} \in SUBSET User
      BY <3>1
    <3>3. VersionFollowed
      BY <1>1, <2>2, <3>1, <3>2, CommitAccounts
    <3>4. db'.member = [v \in User |-> IF v \in {a, u} THEN n.member[v] ELSE db.member[v]]
      BY <1>1, <2>2, <3>1, <3>2, CommitRoster
    <3>5. Closes(r, a, 0)' /\ Closes(r, u, 0)'
      BY <2>2, <3>2, CloseWork DEF Closes, InBody
    <3>6. MemberFollowed
      BY <3>4, <3>5 DEF MemberFollowed
    <3> QED
      BY <3>3, <3>6
  <2> QED
    BY <1>1, <1>2, <1>3, <1>5, <1>7, <2>1, <2>2 DEF TransferTx, Refuse, Retry
<1> QED
  BY <1>4, <1>6, <1>7

LEMMA ConfirmFollowed ==
  ASSUME Typed, NEW r \in Task, ConfirmReset(r)
  PROVE  MemberFollowed /\ VersionFollowed
<1>1. CASE /\ db.account[task[r].user].reset = task[r].number
           /\ db.account[task[r].user].version + 1 = task[r].before
  <2>1. PICK u \in User, doc \in AccountDoc :
          /\ u = task[r].user /\ doc.version = task[r].before
          /\ Write([db EXCEPT !.account[u] = doc], {})
          /\ Close(r, {u}, task[r].before)
    BY <1>1, ConfirmWrite
  <2>2. PICK before : before = task[r].before
    OBVIOUS
  <2>3. before \in Nat /\ pc[r] # "idle"
    BY <2>2, WorkOf DEF ConfirmReset, Work
  <2>4. Close(r, {u}, before)
    BY <2>1, <2>2
  <2>5. Closes(r, u, before)'
    <3>1. pc'[r] = "close" /\ task'[r].closes = {u} /\ task'[r].before = before
      BY <2>3, <2>4, CloseWork
    <3> QED
      BY <3>1 DEF Closes
  <2>6. MemberFollowed /\ \A v \in User \ {u} : db'.account[v] = db.account[v]
    BY <2>1, AccountFollowed
  <2>7. before = db.account[u].version + 1
    BY <1>1, <2>1, <2>2
  <2>8. VersionFollowed
    BY <2>5, <2>6, <2>7 DEF VersionFollowed
  <2> QED
    BY <2>6, <2>8
<1>2. CASE ~ (/\ db.account[task[r].user].reset = task[r].number
              /\ db.account[task[r].user].version + 1 = task[r].before)
  BY <1>2, SameFollowed DEF ConfirmReset, Quiet
<1> QED
  BY <1>1, <1>2

LEMMA NextFollowed ==
  ASSUME Typed, Seen, Next
  PROVE  MemberFollowed /\ VersionFollowed
<1>1. ASSUME NEW r \in Task, Step(r)
      PROVE  MemberFollowed /\ VersionFollowed
  <2>1. CASE Begin(r) \/ CheckInvited(r) \/ CloseSockets(r) \/ ReadContext(r)
               \/ RegisterSocket(r)
    BY <2>1, SameFollowed DEF Begin, CheckInvited, CloseSockets, ReadContext,
                              RegisterSocket, Quiet
  <2>2. CASE ExpireInvite(r)
    <3>1. CASE db.invite[task[r].invite] = Gone
      BY <2>2, <3>1, SameFollowed DEF ExpireInvite, Quiet
    <3>2. CASE db.invite[task[r].invite] # Gone
      BY <2>2, <3>2, ExpireWrite, InviteFollowed
    <3> QED
      BY <3>1, <3>2
  <2>3. CASE InsertInvite(r)
    <3>1. CASE Quiet
      BY <3>1, SameFollowed DEF Quiet
    <3>2. CASE ~ Quiet
      BY <2>3, <3>2, InsertWrite, InviteFollowed
    <3> QED
      BY <3>1, <3>2
  <2>4. CASE ClaimLink(r)
    <3>1. CASE /\ Pending(db, task[r].invite)
               /\ db.invite[task[r].invite].link = task[r].number
      BY <2>4, <3>1, ClaimWrite, InviteFollowed
    <3>2. CASE ~ (/\ Pending(db, task[r].invite)
                  /\ db.invite[task[r].invite].link = task[r].number)
      BY <2>4, <3>2, SameFollowed DEF ClaimLink, Quiet
    <3> QED
      BY <3>1, <3>2
  <2>5. CASE AcceptTx(r) \/ CreateAccountTx(r) \/ UpdateTx(r) \/ TransferTx(r)
    BY <2>5, TxFollowed
  <2>6. CASE ConfirmReset(r)
    BY <2>6, ConfirmFollowed
  <2> QED
    BY <1>1, <2>1, <2>2, <2>3, <2>4, <2>5, <2>6 DEF Step
<1>2. ASSUME NEW i \in Invite, RevokeInvite(i)
      PROVE  MemberFollowed /\ VersionFollowed
  BY <1>2, InviteFollowed DEF RevokeInvite
<1>3. ASSUME NEW u \in User, Register(u)
      PROVE  MemberFollowed /\ VersionFollowed
  BY <1>3, NewAccountType, AccountFollowed DEF Register
<1>4. ASSUME NEW u \in User, SendReset(u)
      PROVE  MemberFollowed /\ VersionFollowed
  BY <1>4, SendWrite, AccountFollowed
<1>5. ASSUME NEW r \in Task, Receive(r)
      PROVE  db' = db
  BY <1>5, ReceiveQuiet DEF Quiet
<1>6. CASE db' = db
  BY <1>6, SameFollowed
<1> QED
  BY <1>1, <1>2, <1>3, <1>4, <1>5, <1>6 DEF Next, PassDate, Disconnect, Crash

LEMMA SocketsStep ==
  ASSUME Typed, Seen, SocketsFollowRights, Next
  PROVE  SocketsFollowRights'
<1> SUFFICES ASSUME NEW s \in sockets', s.fresh
             PROVE  /\ db'.member[s.user] # s.seen =>
                         \E r \in Task : /\ pc'[r] = "close" /\ s \in Closed(task[r])'
                                         /\ task'[r].before = 0
                    /\ db'.account[s.user].version # s.version =>
                         \E r \in Task : pc'[r] = "close" /\ s \in Closed(task[r])'
  BY DEF SocketsFollowRights
<1>1. ASSUME NEW r \in Task
      PROVE  s \in Closed(task[r])' <=>
               s.user \in task'[r].closes
                 /\ (task'[r].before = 0 \/ s.version < task'[r].before)
  BY DEF Closed
<1>2. CASE s \in sockets
  <2>1. s \in Socket /\ s.user \in User /\ s.seen # Absent /\ s.version \in Nat
    BY <1>2, MemberSentinels DEF Typed, Socket
  <2>2. db.account[s.user] # Absent
    BY <1>2 DEF Typed
  <2>3. ASSUME NEW r \in Task, pc[r] = "close", s \in Closed(task[r])
        PROVE  pc'[r] = "close" /\ s \in Closed(task[r])' /\ task'[r].before = task[r].before
    <3>1. pc'[r] = "close" /\ task'[r] = task[r]
      BY <1>2, <2>3, ClosesStays
    <3>2. s.user \in task[r].closes /\ (task[r].before = 0 \/ s.version < task[r].before)
      BY <2>3 DEF Closed
    <3> QED
      BY <1>1, <3>1, <3>2
  <2>4. ASSUME db'.member[s.user] # s.seen
        PROVE  \E r \in Task : /\ pc'[r] = "close" /\ s \in Closed(task[r])'
                               /\ task'[r].before = 0
    <3>1. CASE db.member[s.user] # s.seen
      <4>1. PICK r \in Task : pc[r] = "close" /\ s \in Closed(task[r]) /\ task[r].before = 0
        BY <1>2, <3>1 DEF SocketsFollowRights
      <4> QED
        BY <2>3, <4>1
    <3>2. CASE db.member[s.user] = s.seen
      <4>1. PICK r \in Task : Closes(r, s.user, 0)'
        BY <2>1, <2>4, <3>2, NextFollowed DEF MemberFollowed
      <4> QED
        BY <1>1, <4>1 DEF Closes
    <3> QED
      BY <3>1, <3>2
  <2>5. ASSUME db'.account[s.user].version # s.version
        PROVE  \E r \in Task : pc'[r] = "close" /\ s \in Closed(task[r])'
    <3>1. CASE db.account[s.user].version # s.version
      <4>1. PICK r \in Task : pc[r] = "close" /\ s \in Closed(task[r])
        BY <1>2, <3>1 DEF SocketsFollowRights
      <4> QED
        BY <2>3, <4>1
    <3>2. CASE db.account[s.user].version = s.version
      <4>1. PICK before \in Nat : before = s.version + 1 /\ s.version < before
        BY <2>1
      <4>2. PICK r \in Task : Closes(r, s.user, before)'
        BY <2>1, <2>2, <2>5, <3>2, <4>1, NextFollowed DEF VersionFollowed
      <4> QED
        BY <1>1, <4>1, <4>2 DEF Closes
    <3> QED
      BY <3>1, <3>2
  <2> QED
    BY <2>4, <2>5
<1>3. CASE s \notin sockets
  <2>1. PICK r \in Task : RegisterSocket(r)
    BY <1>3, SocketStep
  <2>2. db' = db
    BY <2>1 DEF RegisterSocket
  <2>3. db.member[s.user] = s.seen /\ db.account[s.user].version = s.version
    BY <1>3, <2>1, RegisterFields
  <2> QED
    BY <2>2, <2>3
<1> QED
  BY <1>2, <1>3

\* A socket registered with the rights and the session of its member keeps
\* showing them, or the request that changed them is about to close it.
THEOREM SocketsShowRights == Spec => []SocketsFollowRights
<1>1. Init => SocketsFollowRights
  BY DEF Init, SocketsFollowRights
<1>2. Typed /\ Seen /\ SocketsFollowRights /\ [Next]_vars => SocketsFollowRights'
  <2>1. SocketsFollowRights /\ UNCHANGED vars => SocketsFollowRights'
    BY DEF vars, SocketsFollowRights, Closed
  <2> QED
    BY <2>1, SocketsStep
<1> QED
  BY <1>1, <1>2, AlwaysTyped, AlwaysSeen, PTL DEF Spec

=============================================================================
