------------------------------ MODULE MemberDocs ------------------------------
(***************************************************************************)
(* The documents about the members of one organization: memberships,       *)
(* invitations and accounts, and what the API computes from them           *)
(* (src/api/src/organizations, src/api/src/password-reset).                *)
(*                                                                         *)
(* A user stands for an e-mail address and for the account that may exist  *)
(* for it; a link of an invitation or of a password reset for its number.  *)
(* The organization stays active.                                          *)
(***************************************************************************)
EXTENDS Integers, FiniteSets

CONSTANTS
  User,      \* e-mail addresses, with or without an account
  Invite,    \* invitations
  Right,     \* permissions that can be delegated
  Standard,  \* those that every member has
  Catalogs,  \* Catalogs: the permissions that the clients in use know
  MaxLinks,  \* account links of one invitation (INVITATION_ACCOUNT_LINK_MAX_SENDS)
  Gone,      \* an invitation that was accepted or revoked
  Absent

ASSUME MemberConstants ==
  /\ Standard \subseteq Right /\ Catalogs \subseteq SUBSET Right
  /\ MaxLinks \in Nat \ {0}
  /\ User \cap Invite = {}

Role   == {"owner", "admin", "seller"}
Status == {"active", "suspended", "revoked"}

MemberDoc == [role : Role, rights : SUBSET Right, status : Status]

\* link: the number of the last account link, 0 before the first.
InviteDoc == [email : User, role : {"admin", "seller"}, rights : SUBSET Right,
              status : {"pending", "expired"}, link : 0 .. MaxLinks]

\* version: of the sessions; reset: the number of the reset link that is stored,
\* 0 for none; resets: how many were.
AccountDoc == [version : Nat, reset : Nat, resets : Nat]

Documents == [member  : [User -> MemberDoc \cup {Absent}],
              invite  : [Invite -> InviteDoc \cup {Absent, Gone}],
              account : [User -> AccountDoc \cup {Absent}]]

IsMember(d, u) == d.member[u] # Absent
Active(d, u)   == IsMember(d, u) /\ d.member[u].status = "active"

ASSUME MemberSentinels ==
  /\ Gone # Absent
  /\ Absent \notin MemberDoc \cup InviteDoc \cup AccountDoc /\ Gone \notin InviteDoc
  /\ Absent \notin [email : User, role : {"admin", "seller"}, rights : SUBSET Right]

\* `effectivePermissions`
Effective(role, rights) == IF role = "seller" THEN Standard \cup rights ELSE Right

Rights(d, u) == Effective(d.member[u].role, d.member[u].rights)

ActiveOwners(d) == {u \in User : Active(d, u) /\ d.member[u].role = "owner"}

Pending(d, i) == d.invite[i] \notin {Absent, Gone} /\ d.invite[i].status = "pending"

PendingFor(d, u) == {i \in Invite : Pending(d, i) /\ d.invite[i].email = u}

----------------------------------------------------------------------------
(* Changes of a member *)

\* What the body of PATCH organizations/members may ask, Absent where it is silent.
Change == [role : {"admin", "seller", Absent}, rights : (SUBSET Right) \cup {Absent},
           status : Status \cup {Absent}]

\* `mergeUnknownPermissions`: a permission that the client does not know stays.
Merged(requested, stored, known) == requested \cup (stored \ known)

\* The member once the change is applied.
Changed(doc, change, known) ==
  [role   |-> IF change.role = Absent THEN doc.role ELSE change.role,
   rights |-> IF change.rights = Absent THEN doc.rights
              ELSE Merged(change.rights, doc.rights, known),
   status |-> IF change.status = Absent THEN doc.status ELSE change.status]

\* Whether a may make of the member u what after says.
Manages(d, a, u, after) ==
  /\ IsMember(d, u) /\ a # u
  /\ d.member[u].role # "owner"
  /\ Active(d, a)
  /\ d.member[a].role # "owner" =>
       /\ Rights(d, u) \subseteq Rights(d, a)
       /\ Effective(after.role, after.rights) \subseteq Rights(d, a)

\* Whether the owner a may give the organization to u.
MayTransfer(d, a, u) ==
  /\ Active(d, a) /\ d.member[a].role = "owner"
  /\ Active(d, u) /\ a # u

Transferred(d, a, u) ==
  [d EXCEPT !.member[a].role = "admin", !.member[u].role = "owner"]

----------------------------------------------------------------------------
(* Invitations and accounts *)

\* Whether a may invite someone with this role and these rights.
MayInvite(d, a, offer, manage) ==
  /\ Active(d, a)
  /\ d.member[a].role # "owner" =>
       /\ manage \in Rights(d, a)
       /\ Effective(offer.role, offer.rights) \subseteq Rights(d, a)

NewAccount == [version |-> 0, reset |-> 0, resets |-> 0]

\* `createMembership`, in the transaction that deletes the invitation.
Joined(d, i) ==
  LET doc == d.invite[i]
  IN  [d EXCEPT !.invite[i] = Gone,
                !.member[doc.email] = [role |-> doc.role, rights |-> doc.rights,
                                       status |-> "active"]]

\* The account of the invited address is created with the membership.
JoinedAnew(d, i) ==
  [Joined(d, i) EXCEPT !.account[d.invite[i].email] = NewAccount]

=============================================================================
