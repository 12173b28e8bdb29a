------------------------------ MODULE SalesBook ------------------------------
(***************************************************************************)
(* What the sales of an organization promise: one book, and operations     *)
(* that happen to it one at a time, each seeing the whole effect of those  *)
(* before it.  No request, snapshot, retry or crash: the concurrent        *)
(* program (Sales) implements this specification.                          *)
(***************************************************************************)
EXTENDS SalesDocs

VARIABLE db

\* A product recorded before the stock and its sales were written in one
\* transaction may have lost units (the drift a purge freezes).
StartDrift == {0, 1}

Start(drift, cost) ==
  [products    |-> [p \in Product |-> [trashed   |-> FALSE,
                                       initial   |-> InitialQty,
                                       remaining |-> InitialQty - drift,
                                       cost      |-> cost]],
   sales       |-> [s \in SaleId |-> Absent],
   ops         |-> [k \in Key |-> Absent],
   adjustments |-> [p \in Product |-> Absent],
   audit       |-> [s \in SaleId |-> Absent],
   jobs        |-> {}]

Init == \E drift \in StartDrift, cost \in Cost : db = Start(drift, cost)

\* A sale under a key no sale was recorded under, with a new id.
RecordSale ==
  \E key \in Key \cup {NoKey}, seller \in Seller, pay \in Payload, s \in SaleId :
    LET c == [key |-> key, seller |-> seller, pay |-> pay, sale |-> s]
    IN  /\ db.audit[s] = Absent
        /\ SellOutcome(db, c) = "ok"
        /\ db' = Sell(db, c)

CorrectSale ==
  \E s \in SaleId, qty \in Qty \cup {Absent}, price \in Price \cup {Absent},
     n \in 1 .. MaxUpdates :
    LET u == [sale |-> s, qty |-> qty, price |-> price, number |-> n]
    IN  /\ ChangeOutcome(db, u) = "ok"
        /\ db' = Change(db, u)

CancelSale ==
  \E s \in SaleId : CancelOutcome(db, s) = "ok" /\ db' = Cancel(db, s)

PurgeProduct ==
  \E p \in Product : db.products[p] # Absent /\ db' = Purge(db, p)

TrashProduct ==
  \E p \in Product : db.products[p] # Absent /\ db' = SetTrashed(db, p, TRUE)

RestoreProduct ==
  \E p \in Product : db.products[p] # Absent /\ db' = SetTrashed(db, p, FALSE)

PatchProduct ==
  \E p \in Product, added \in {0, 1}, cost \in Cost \cup {Absent} :
    db.products[p] # Absent /\ db' = Patch(db, p, added, cost)

Next ==
  \/ RecordSale
  \/ CorrectSale
  \/ CancelSale
  \/ PurgeProduct
  \/ TrashProduct
  \/ RestoreProduct
  \/ PatchProduct

Spec == Init /\ [][Next]_db

----------------------------------------------------------------------------
(* Properties *)

\* The documents are well formed, and each collection agrees with the others.
DocsOK == OK(db)

DriftKept == \A p \in Product : Drift(db', p) = Drift(db, p)

\* No operation separates the stock from the sales, and a purge keeps exactly
\* the difference that older data had.
StockFollowsSales == [][DriftKept]_db

=============================================================================
