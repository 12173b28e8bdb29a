---------------------------- MODULE SalesBookProofs ----------------------------
(***************************************************************************)
(* The serial book keeps its collections in agreement, and the stock and   *)
(* the sales together, for every value of the constants.                   *)
(***************************************************************************)
EXTENDS SalesBook, SalesDocsProofs

\* Every step of the book keeps the documents consistent and every drift.
LEMMA BookStep ==
  ASSUME OK(db), Next
  PROVE  OK(db') /\ DriftKept
<1>1. Operation(db, db')
  BY DEF Next, Operation, RecordSale, CorrectSale, CancelSale, PurgeProduct,
         TrashProduct, RestoreProduct, PatchProduct
<1> QED
  BY <1>1, OperationOK DEF DriftKept

\* The documents stay well formed, whatever the sequence of operations.
THEOREM BookDocsOK == Spec => []DocsOK
<1>1. Init => DocsOK
  BY StartOK DEF Init, Start, StartDrift, DocsOK
<1>2. DocsOK /\ [Next]_db => DocsOK'
  <2>1. CASE Next
    BY <2>1, BookStep DEF DocsOK
  <2>2. CASE UNCHANGED db
    BY <2>2 DEF DocsOK
  <2> QED
    BY <2>1, <2>2
<1> QED
  BY <1>1, <1>2, PTL DEF Spec

\* No operation changes the drift between the stock and the sales.
THEOREM BookStockFollowsSales == Spec => StockFollowsSales
<1>1. DocsOK /\ [Next]_db => DriftKept \/ UNCHANGED db
  BY BookStep DEF DocsOK
<1>2. DocsOK /\ [Next]_db => [DriftKept]_db
  BY <1>1
<1> QED
  BY <1>2, BookDocsOK, PTL DEF Spec, StockFollowsSales

=============================================================================
