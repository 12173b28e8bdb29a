------------------------------ MODULE MCOutbox ------------------------------
(* Instances of OfflineOutbox for TLC. *)
EXTENDS OfflineOutbox, TLC

\* Tabs are interchangeable; safety runs only.
Symmetry == Permutations(Tab)

\* Bound: two passes that run at once have one sale to send.
OverlapOnOne == overlap => next <= 2

\* Bound: one operation at most has an uncounted attempt, for one reason.
OneUncounted == Cardinality(interrupted) + Cardinality(resent) <= 1

=============================================================================
