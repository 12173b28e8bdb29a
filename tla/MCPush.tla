-------------------------------- MODULE MCPush --------------------------------
(* Instances of PushDispatch for TLC. *)
EXTENDS PushDispatch, TLC

CONSTANTS j1, j2, g1

\* Two events of one window.
OneWindow == [j \in Job |-> g1]

\* An event announced by itself, and one of a window.
Mixed == [j \in Job |-> IF j = j1 THEN j1 ELSE g1]

\* Workers and users are interchangeable; safety runs only.
Symmetry == Permutations(Worker) \cup Permutations(User)

ForAll == [t \in Target |-> User]

=============================================================================
