------------------------------ MODULE SalesDocs ------------------------------
(***************************************************************************)
(* The MongoDB documents behind the sales of one organization, and what    *)
(* each operation does to them (api/src/sales, api/src/products).  No      *)
(* state here: a database is a record of collections, and an operation is  *)
(* an operator from a database to a database.  SalesBook applies them one  *)
(* at a time; Sales applies them from concurrent requests, each computing  *)
(* on the snapshot its transaction reads.                                  *)
(*                                                                         *)
(* Every query of the code is filtered by the organization of the caller,  *)
(* so one organization is modelled and the filter is left out.             *)
(***************************************************************************)
EXTENDS Integers, FiniteSets, Functions

CONSTANTS
  Product,      \* product ids
  SaleId,       \* ids that `new Types.ObjectId()` may hand out to sales
  Key,          \* client operation ids (idempotency keys)
  Seller,       \* users who record sales
  Qty,          \* quantities a sale or a correction may carry
  Price,        \* sale prices a sale or a correction may carry
  Cost,         \* purchase prices of products
  InitialQty,   \* initial quantity of every product at the start
  MaxUpdates,   \* bound: sale corrections attempted
  NoKey,        \* a request without clientOperationId
  Absent        \* no such document, or no such field

ASSUME SaleNumbers ==
  /\ Qty \subseteq Nat \ {0}
  /\ Price \subseteq Nat
  /\ Cost \subseteq Nat
  /\ InitialQty \in Nat \ {0}
  /\ MaxUpdates \in Nat

\* An ObjectId has twelve bytes.
ASSUME SaleIdsFinite == IsFiniteSet(SaleId)
ASSUME ProductsFinite == IsFiniteSet(Product)

\* The key of an event tells a sale from a correction.
ASSUME TriggersApart == SaleId \cap (1 .. MaxUpdates) = {}

----------------------------------------------------------------------------
(* Documents *)

\* remaining is an integer here: that it never goes below zero is a property.
ProductDoc == [trashed : BOOLEAN, initial : Nat, remaining : Int, cost : Cost]

\* What the client sends for a sale; its SHA-256 is the payload itself.
Payload == [product : Product, qty : Qty, price : Price]

\* lastKnown is lastKnownUnitCost, set with lastKnownSource by a purge.
SaleDoc == [product : Product, qty : Qty, price : Price,
            lastKnown : Cost \cup {Absent}]

OperationDoc == [seller : Seller, hash : Payload, sale : SaleId]

AdjustmentDoc == [units : Int, cost : Cost]

\* The audit entries of one sale, reduced to what they add up to: SOLD gives
\* the key and the quantity, SALE_UPDATED the new quantity, SALE_CANCELLED
\* ends the trail.
AuditDoc == [key : Key \cup {NoKey}, qty : Qty, cancelled : BOOLEAN]

\* A durable notification event; the trigger is the sale, or the number of
\* the correction (operationId), that recorded it.
Job == [category : {"SALE_CREATED", "STOCK_DEPLETED", "STOCK_LOW"},
        product : Product, trigger : SaleId \cup (1 .. MaxUpdates)]

Database == [products    : [Product -> ProductDoc \cup {Absent}],
             sales       : [SaleId -> SaleDoc \cup {Absent}],
             ops         : [Key -> OperationDoc \cup {Absent}],
             adjustments : [Product -> AdjustmentDoc \cup {Absent}],
             audit       : [SaleId -> AuditDoc \cup {Absent}],
             jobs        : SUBSET Job]

ASSUME Sentinels ==
  /\ NoKey \notin Key
  /\ Absent \notin Cost \cup Qty \cup Price \cup SaleId
  /\ Absent \notin ProductDoc \cup SaleDoc \cup OperationDoc
                     \cup AdjustmentDoc \cup AuditDoc
  /\ Absent \notin Database

----------------------------------------------------------------------------
(* Stock *)

IsSaleOf(d, s, p) == d.sales[s] # Absent /\ d.sales[s].product = p

\* Every unit of product p that a sale took, one element per unit: the sum of
\* the quantities is their number.
UnitsOf(d, p) ==
  UNION {{s} \X (1 .. d.sales[s].qty) : s \in {t \in SaleId : IsSaleOf(d, t, p)}}

SoldUnits(d, p) == Cardinality(UnitsOf(d, p))

\* 80 % of the initial stock is consumed.
LowReached(initial, remaining) ==
  initial > 0 /\ 5 * (initial - remaining) >= 4 * initial

LowCrossed(initial, before, after) ==
  ~ LowReached(initial, before) /\ LowReached(initial, after)

\* Mutant of StockAlerts: the state of the stock instead of its crossing.
StockAlertsReached(p, initial, before, after, trigger) ==
  LET alert(c) == {[category |-> c, product |-> p, trigger |-> trigger]}
  IN  CASE before > 0 /\ after = 0 -> alert("STOCK_DEPLETED")
        [] after > 0 /\ LowReached(initial, after) -> alert("STOCK_LOW")
        [] OTHER -> {}

\* The alert one write of the stock records: depleted, or else low, or none.
StockAlerts(p, initial, before, after, trigger) ==
  LET alert(c) == {[category |-> c, product |-> p, trigger |-> trigger]}
  IN  CASE before > 0 /\ after = 0 -> alert("STOCK_DEPLETED")
        [] after > 0 /\ LowCrossed(initial, before, after) -> alert("STOCK_LOW")
        [] OTHER -> {}

\* The stock of p changed by delta (positive restores, negative consumes).
AdjustStock(d, p, delta) == [d EXCEPT !.products[p].remaining = @ + delta]

----------------------------------------------------------------------------
(* Creation of a sale: request c has fields key, seller, pay, sale *)

\* Mutant of SellOutcome: no unique index on the key.
SellOutcomeNoIndex(d, c) ==
  LET doc == d.products[c.pay.product]
  IN  IF doc = Absent \/ doc.trashed       THEN "PRODUCT_NOT_FOUND"
      ELSE IF doc.remaining < c.pay.qty    THEN "INSUFFICIENT_STOCK"
      ELSE "ok"

SellOutcome(d, c) ==
  LET doc == d.products[c.pay.product]
  IN  IF c.key # NoKey /\ d.ops[c.key] # Absent THEN "E11000"
      ELSE IF doc = Absent \/ doc.trashed      THEN "PRODUCT_NOT_FOUND"
      ELSE IF doc.remaining < c.pay.qty        THEN "INSUFFICIENT_STOCK"
      ELSE "ok"

Sell(d, c) ==
  LET p   == c.pay.product
      doc == d.products[p]
  IN  [AdjustStock(d, p, - c.pay.qty) EXCEPT
         !.ops   = IF c.key = NoKey THEN @
                   ELSE [@ EXCEPT ![c.key] =
                           [seller |-> c.seller, hash |-> c.pay, sale |-> c.sale]],
         !.sales[c.sale] = [product |-> p, qty |-> c.pay.qty,
                            price |-> c.pay.price, lastKnown |-> Absent],
         !.audit[c.sale] = [key |-> c.key, qty |-> c.pay.qty, cancelled |-> FALSE],
         !.jobs  = @ \cup StockAlerts(p, doc.initial, doc.remaining,
                                      doc.remaining - c.pay.qty, c.sale)
                     \cup {[category |-> "SALE_CREATED", product |-> p,
                            trigger |-> c.sale]}]

----------------------------------------------------------------------------
(* Correction of a sale: request u has fields sale, qty, price, number; a    *)
(* field the body does not carry is Absent                                   *)

Given(field, current) == IF field = Absent THEN current ELSE field

\* Mutant of Returned: the sign of the difference.
ReturnedSwapped(d, u) == Given(u.qty, d.sales[u.sale].qty) - d.sales[u.sale].qty

\* What the correction puts back on the shelf.
Returned(d, u) == d.sales[u.sale].qty - Given(u.qty, d.sales[u.sale].qty)

\* Mutant of ChangeOutcome: a correction is not held to the stock.
ChangeOutcomeUnheld(d, u) ==
  IF d.sales[u.sale] = Absent THEN "SALE_NOT_FOUND" ELSE "ok"

ChangeOutcome(d, u) ==
  LET doc   == d.products[d.sales[u.sale].product]
      short == doc # Absent /\ doc.remaining + Returned(d, u) < 0
  IN  IF d.sales[u.sale] = Absent THEN "SALE_NOT_FOUND"
      ELSE IF Returned(d, u) # 0 /\ short THEN "INSUFFICIENT_STOCK"
      ELSE "ok"

\* A purged product has no stock left to adjust: only the sale changes.
Change(d, u) ==
  LET sale  == d.sales[u.sale]
      p     == sale.product
      delta == Returned(d, u)
      doc   == d.products[p]
      stocked == IF delta = 0 \/ doc = Absent THEN d
                 ELSE [AdjustStock(d, p, delta) EXCEPT
                         !.jobs = @ \cup StockAlerts(p, doc.initial, doc.remaining,
                                                     doc.remaining + delta, u.number)]
  IN  [stocked EXCEPT
         !.sales[u.sale] = [sale EXCEPT !.qty   = Given(u.qty, @),
                                        !.price = Given(u.price, @)],
         !.audit[u.sale] = [@ EXCEPT !.qty = Given(u.qty, sale.qty)]]

----------------------------------------------------------------------------
(* Cancellation of sale s *)

CancelOutcome(d, s) == IF d.sales[s] = Absent THEN "SALE_NOT_FOUND" ELSE "ok"

Cancel(d, s) ==
  LET sale    == d.sales[s]
      stocked == IF d.products[sale.product] = Absent THEN d
                 ELSE AdjustStock(d, sale.product, sale.qty)
  IN  [stocked EXCEPT !.sales[s] = Absent, !.audit[s].cancelled = TRUE]

----------------------------------------------------------------------------
(* Products *)

\* Mutant of Purge: the difference between stock and sales is forgotten.
PurgeForgetful(d, p) ==
  [d EXCEPT
     !.products[p] = Absent,
     !.sales       = [s \in SaleId |->
                        IF IsSaleOf(d, s, p) /\ d.sales[s].lastKnown = Absent
                        THEN [d.sales[s] EXCEPT !.lastKnown = d.products[p].cost]
                        ELSE d.sales[s]]]

\* Permanent deletion: the sales keep the last known cost, and what the
\* stock says was sold beyond them is kept as an adjustment.
Purge(d, p) ==
  LET doc   == d.products[p]
      drift == doc.initial - doc.remaining - SoldUnits(d, p)
  IN  [d EXCEPT
         !.products[p]    = Absent,
         !.sales          = [s \in SaleId |->
                               IF IsSaleOf(d, s, p) /\ d.sales[s].lastKnown = Absent
                               THEN [d.sales[s] EXCEPT !.lastKnown = doc.cost]
                               ELSE d.sales[s]],
         !.adjustments[p] = IF drift = 0 THEN @
                            ELSE [units |-> drift, cost |-> doc.cost]]

SetTrashed(d, p, flag) == [d EXCEPT !.products[p].trashed = flag]

\* Modification of a product: $inc of the stock, $set of the cost if the
\* body changed it with respect to the document the request had read.
Patch(d, p, added, cost) ==
  [d EXCEPT !.products[p].initial   = @ + added,
            !.products[p].remaining = @ + added,
            !.products[p].cost      = Given(cost, @)]

----------------------------------------------------------------------------
(* What the overview of the analytics computes from the collections *)

CostOfSales(d) ==
  LET live(p)   == IF d.products[p] = Absent THEN 0
                   ELSE d.products[p].cost
                          * (d.products[p].initial - d.products[p].remaining)
      purged(s) == IF d.sales[s] # Absent /\ d.sales[s].lastKnown # Absent
                      /\ d.products[d.sales[s].product] = Absent
                   THEN d.sales[s].lastKnown * d.sales[s].qty ELSE 0
      frozen(p) == IF d.adjustments[p] = Absent THEN 0
                   ELSE d.adjustments[p].units * d.adjustments[p].cost
  IN  SumFunction([p \in Product |-> live(p) + frozen(p)])
        + SumFunction([s \in SaleId |-> purged(s)])

----------------------------------------------------------------------------
(* What holds of the documents at rest *)

\* No stock is negative.
StockCovered(d) ==
  \A p \in Product : d.products[p] # Absent => d.products[p].remaining >= 0

\* A sale keeps a unit cost exactly when its product is gone, and so does the
\* stock.
HistoryKept(d) ==
  /\ \A s \in SaleId : d.sales[s] # Absent =>
       (d.sales[s].lastKnown # Absent <=> d.products[d.sales[s].product] = Absent)
  /\ \A p \in Product : d.adjustments[p] # Absent => d.products[p] = Absent

\* The audit trail tells the sales: no orphan SOLD, no sale without one, and
\* the last quantity it tells is the sale's.
AuditTells(d) ==
  \A s \in SaleId :
    IF d.sales[s] = Absent
    THEN d.audit[s] # Absent => d.audit[s].cancelled
    ELSE /\ d.audit[s] # Absent
         /\ ~ d.audit[s].cancelled
         /\ d.audit[s].qty = d.sales[s].qty

\* A key names the one sale that was recorded under it.
KeysTell(d) ==
  /\ \A k \in Key : d.ops[k] # Absent =>
       d.audit[d.ops[k].sale] # Absent /\ d.audit[d.ops[k].sale].key = k
  /\ \A s \in SaleId : d.audit[s] # Absent /\ d.audit[s].key # NoKey =>
       d.ops[d.audit[s].key] # Absent /\ d.ops[d.audit[s].key].sale = s

OK(d) ==
  /\ d \in Database
  /\ StockCovered(d)
  /\ HistoryKept(d)
  /\ AuditTells(d)
  /\ KeysTell(d)

\* What the stock says was sold, minus what the sales say; a purge freezes it.
Drift(d, p) ==
  IF d.products[p] # Absent
  THEN d.products[p].initial - d.products[p].remaining - SoldUnits(d, p)
  ELSE IF d.adjustments[p] = Absent THEN 0 ELSE d.adjustments[p].units

=============================================================================
