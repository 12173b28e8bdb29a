------------------------------ MODULE MCPayments ------------------------------
(* Instances of Payments for TLC. *)
EXTENDS Payments, TLC

\* Tasks, payments, keys and references of the provider are interchangeable; safety runs only.
Symmetry == Permutations(Task) \cup Permutations(Payment) \cup Permutations(Ref)
            \cup Permutations(Key)

=============================================================================
