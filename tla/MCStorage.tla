------------------------------ MODULE MCStorage ------------------------------
(* Instances of Storage for TLC. *)
EXTENDS Storage, TLC

\* Every file takes one byte, or the legacy ones take two.
OneByte == [f \in File |-> 1]
TwoBytes == [f \in File |-> IF f \in Legacy THEN 2 ELSE 1]

\* Tasks and new files are interchangeable; safety runs only.
Symmetry == Permutations(Task) \cup Permutations(File \ Legacy)

=============================================================================
