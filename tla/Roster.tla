-------------------------------- MODULE Roster --------------------------------
(***************************************************************************)
(* What the API promises of the members of one organization: it always has *)
(* one owner, who is active and is changed by nobody; a member joins by an *)
(* invitation that is open, which the same step closes; and an e-mail has  *)
(* one open invitation at most.                                            *)
(***************************************************************************)
CONSTANTS User, Invite, Right, Absent

VARIABLES
  roster,  \* roster[u]: role, rights and status of u, Absent if not a member
  offers   \* offers[i]: what invitation i offers to whom, Absent unless it is open

vars == <<roster, offers>>

Owners == {u \in User : roster[u] # Absent /\ roster[u].role = "owner"
                                           /\ roster[u].status = "active"}

Offer == [email : User, role : {"admin", "seller"}, rights : SUBSET Right]
Fields == [role : {"admin", "seller"}, rights : SUBSET Right,
           status : {"active", "suspended", "revoked"}]

\* The owner that registered the organization and the team it has built.
Init ==
  /\ \E o \in User : Owners = {o}
  /\ offers \in [Invite -> {Absent}]

Invites(i) ==
  /\ offers[i] = Absent
  /\ \E offer \in Offer :
       /\ \A j \in Invite : offers[j] # Absent => offers[j].email # offer.email
       /\ offers' = [offers EXCEPT ![i] = offer]
  /\ UNCHANGED roster

\* An invitation is revoked, or gives way to another when it has expired.
Closes(i) ==
  /\ offers[i] # Absent
  /\ offers' = [offers EXCEPT ![i] = Absent]
  /\ UNCHANGED roster

Joins(i) ==
  LET offer == offers[i]
  IN  /\ offer # Absent /\ roster[offer.email] = Absent
      /\ roster' = [roster EXCEPT ![offer.email] =
           [role |-> offer.role, rights |-> offer.rights, status |-> "active"]]
      /\ offers' = [offers EXCEPT ![i] = Absent]

\* A member other than the owner gets other rights or another status.
Changes(u) ==
  /\ roster[u] # Absent /\ roster[u].role # "owner"
  /\ \E fields \in Fields : roster' = [roster EXCEPT ![u] = fields]
  /\ UNCHANGED offers

Transfers(u) ==
  /\ roster[u] # Absent /\ roster[u].status = "active"
  /\ \E o \in Owners \ {u} :
       roster' = [roster EXCEPT ![o].role = "admin", ![u].role = "owner"]
  /\ UNCHANGED offers

Next ==
  \/ \E i \in Invite : Invites(i) \/ Closes(i) \/ Joins(i)
  \/ \E u \in User : Changes(u) \/ Transfers(u)

Spec == Init /\ [][Next]_vars

=============================================================================
