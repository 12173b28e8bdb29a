------------------------------- MODULE MCSales -------------------------------
(* Instances of Sales for TLC. *)
EXTENDS Sales, TLC

\* Handlers, keys and sellers are interchangeable; safety runs only.
Symmetry == Permutations(Request) \cup Permutations(Key)
              \cup Permutations(Seller) \cup Permutations(SaleId)
              \cup Permutations(Product)

=============================================================================
