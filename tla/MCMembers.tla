------------------------------- MODULE MCMembers -------------------------------
(* Instances of Memberships for TLC. *)
EXTENDS Memberships, TLC

CONSTANTS o, m, v, manage, other

Owner          == [role |-> "owner", rights |-> {}, status |-> "active"]
Seller(rights) == [role |-> "seller", rights |-> rights, status |-> "active"]

\* An owner alone, with a delegate, and with a delegate and a plain member.
Alone    == (o :> Owner) @@ (m :> Absent) @@ (v :> Absent)
Pair     == (o :> Owner) @@ (m :> Seller({manage})) @@ (v :> Absent)
Together == (o :> Owner) @@ (m :> Seller({manage})) @@ (v :> Seller({other}))

Asked     == [role |-> Absent, rights |-> Absent, status |-> Absent]
Suspend   == [Asked EXCEPT !.status = "suspended"]
Reinstate == [Asked EXCEPT !.status = "active"]
Promote   == [Asked EXCEPT !.role = "admin"]
Strip     == [Asked EXCEPT !.rights = {}]

\* How members join; how changes and a transfer meet; how sockets follow a
\* transfer; and how they follow changes and a reset.
Joining   == [team |-> Alone, changes |-> {Suspend},
              kinds |-> {"invite", "revoke", "accept", "link", "create", "register"}]
Ownership == [team |-> Together, changes |-> {Suspend}, kinds |-> {"update", "transfer"}]
Transfers == [team |-> Pair, changes |-> {Promote},
              kinds |-> {"update", "transfer", "connect"}]
Sessions  == [team |-> Pair, changes |-> {Suspend, Reinstate, Strip},
              kinds |-> {"update", "reset", "connect", "crash"}]

FourScenes == {Joining, Ownership, Transfers, Sessions}

OneOffer   == {[role |-> "seller", rights |-> {}]}
NewCatalog == {Right}
OneReset   == [u \in User |-> IF u = m THEN 1 ELSE 0]

Symmetry == Permutations(Task) \cup Permutations(Invite)

=============================================================================
