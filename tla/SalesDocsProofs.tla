---------------------------- MODULE SalesDocsProofs ----------------------------
(***************************************************************************)
(* The operations on the documents (SalesDocs) keep the collections in     *)
(* agreement (OK) and change no drift between a stock and its sales; a     *)
(* purge changes no cost of sales either.                                  *)
(***************************************************************************)
EXTENDS SalesDocs, FiniteSetTheorems, TLAPS

----------------------------------------------------------------------------
(* Types of the documents *)

\* A function stays one when a value of its codomain replaces another.
LEMMA ExceptType ==
  ASSUME NEW S, NEW T, NEW f \in [S -> T], NEW x \in S, NEW y \in T
  PROVE  [f EXCEPT ![x] = y] \in [S -> T]
OBVIOUS

\* Quantities and costs are naturals, and no sale or cost is the absent document.
LEMMA NumberTypes ==
  /\ \A q \in Qty : q \in Nat /\ q \in Int /\ q > 0
  /\ \A c \in Cost : c \in Nat /\ c # Absent
  /\ \A s \in SaleId : s # Absent
  /\ InitialQty \in Nat /\ InitialQty > 0
BY SaleNumbers, Sentinels

\* The type of each collection of a database.
LEMMA Collections ==
  ASSUME NEW d \in Database
  PROVE  /\ d.products \in [Product -> ProductDoc \cup {Absent}]
         /\ d.sales \in [SaleId -> SaleDoc \cup {Absent}]
         /\ d.ops \in [Key -> OperationDoc \cup {Absent}]
         /\ d.adjustments \in [Product -> AdjustmentDoc \cup {Absent}]
         /\ d.audit \in [SaleId -> AuditDoc \cup {Absent}]
         /\ d.jobs \in SUBSET Job
BY DEF Database

\* What a document is known to be once it is there.
LEMMA ProductType ==
  ASSUME NEW d \in Database, NEW p \in Product, d.products[p] # Absent
  PROVE  /\ d.products[p] \in ProductDoc
         /\ d.products[p].trashed \in BOOLEAN
         /\ d.products[p].initial \in Nat
         /\ d.products[p].remaining \in Int
         /\ d.products[p].cost \in Cost
BY Collections DEF ProductDoc

\* The fields of a stored sale.
LEMMA SaleType ==
  ASSUME NEW d \in Database, NEW s \in SaleId, d.sales[s] # Absent
  PROVE  /\ d.sales[s] \in SaleDoc
         /\ d.sales[s].product \in Product
         /\ d.sales[s].qty \in Qty
         /\ d.sales[s].qty \in Nat /\ d.sales[s].qty > 0
         /\ d.sales[s].price \in Price
         /\ d.sales[s].lastKnown \in Cost \cup {Absent}
<1>1. d.sales[s] \in SaleDoc
  BY Collections
<1> QED
  BY <1>1, NumberTypes DEF SaleDoc

\* The fields of a sale's stored audit entries.
LEMMA AuditType ==
  ASSUME NEW d \in Database, NEW s \in SaleId, d.audit[s] # Absent
  PROVE  /\ d.audit[s] \in AuditDoc
         /\ d.audit[s].key \in Key \cup {NoKey}
         /\ d.audit[s].qty \in Qty
         /\ d.audit[s].cancelled \in BOOLEAN
<1>1. d.audit[s] \in AuditDoc
  BY Collections
<1> QED
  BY <1>1 DEF AuditDoc

\* A stored operation names a sale.
LEMMA OperationType ==
  ASSUME NEW d \in Database, NEW k \in Key, d.ops[k] # Absent
  PROVE  d.ops[k] \in OperationDoc /\ d.ops[k].sale \in SaleId
<1>1. d.ops[k] \in OperationDoc
  BY Collections
<1> QED
  BY <1>1 DEF OperationDoc

\* A document is not the sentinel.
LEMMA NotAbsent ==
  /\ \A x \in ProductDoc : x # Absent
  /\ \A x \in SaleDoc : x # Absent
  /\ \A x \in OperationDoc : x # Absent
  /\ \A x \in AdjustmentDoc : x # Absent
  /\ \A x \in AuditDoc : x # Absent
  /\ \A x \in Database : x # Absent
BY Sentinels

\* A write of one product's stock: the document written, and the others.
LEMMA StockWrite ==
  ASSUME NEW f \in [Product -> ProductDoc \cup {Absent}], NEW p \in Product,
         f[p] # Absent, NEW k \in Int, NEW m, m = [f EXCEPT ![p].remaining = @ + k]
  PROVE  /\ m \in [Product -> ProductDoc \cup {Absent}]
         /\ m[p] \in ProductDoc /\ m[p] # Absent
         /\ m[p].trashed = f[p].trashed
         /\ m[p].initial = f[p].initial
         /\ m[p].remaining = f[p].remaining + k
         /\ m[p].cost = f[p].cost
         /\ \A q \in Product : q # p => m[q] = f[q]
<1> DEFINE doc == [f[p] EXCEPT !.remaining = @ + k]
<1>1. f[p] \in ProductDoc
  OBVIOUS
<1>2. f[p].remaining + k \in Int
  BY <1>1 DEF ProductDoc
<1>3. /\ doc \in ProductDoc
      /\ doc.trashed = f[p].trashed
      /\ doc.initial = f[p].initial
      /\ doc.remaining = f[p].remaining + k
      /\ doc.cost = f[p].cost
  BY <1>1, <1>2 DEF ProductDoc
<1>4. doc # Absent
  BY <1>3, NotAbsent
<1>5. m = [f EXCEPT ![p] = doc]
  BY Zenon
<1> HIDE DEF doc
<1>6. m \in [Product -> ProductDoc \cup {Absent}]
  BY <1>3, <1>5, ExceptType
<1>7. m[p] = doc /\ \A q \in Product : q # p => m[q] = f[q]
  BY <1>5
<1> QED
  BY <1>3, <1>4, <1>6, <1>7, Zenon

\* The same for units taken off the shelf.
LEMMA StockTaken ==
  ASSUME NEW f \in [Product -> ProductDoc \cup {Absent}], NEW p \in Product,
         f[p] # Absent, NEW k \in Int, NEW m, m = [f EXCEPT ![p].remaining = @ - k]
  PROVE  /\ m \in [Product -> ProductDoc \cup {Absent}]
         /\ m = [f EXCEPT ![p].remaining = @ + (- k)]
         /\ m[p] \in ProductDoc /\ m[p] # Absent
         /\ m[p].trashed = f[p].trashed
         /\ m[p].initial = f[p].initial
         /\ m[p].remaining = f[p].remaining - k
         /\ m[p].cost = f[p].cost
         /\ \A q \in Product : q # p => m[q] = f[q]
<1>1. f[p] \in ProductDoc
  OBVIOUS
<1>2. f[p].remaining \in Int
  BY <1>1 DEF ProductDoc
<1>3. - k \in Int /\ f[p].remaining - k = f[p].remaining + (- k)
  BY <1>2
<1>4. m = [f EXCEPT ![p].remaining = @ + (- k)]
  BY <1>3
<1>5. /\ m \in [Product -> ProductDoc \cup {Absent}]
      /\ m[p] \in ProductDoc /\ m[p] # Absent
      /\ m[p].trashed = f[p].trashed
      /\ m[p].initial = f[p].initial
      /\ m[p].remaining = f[p].remaining + (- k)
      /\ m[p].cost = f[p].cost
      /\ \A q \in Product : q # p => m[q] = f[q]
  BY <1>3, <1>4, StockWrite
<1> QED
  BY <1>3, <1>4, <1>5, Zenon

----------------------------------------------------------------------------
(* The units sold *)

\* The units of a product are finitely many, so their number is one.
LEMMA UnitsFinite ==
  ASSUME NEW d \in Database, NEW p \in Product
  PROVE  IsFiniteSet(UnitsOf(d, p)) /\ SoldUnits(d, p) \in Nat
<1> DEFINE sold == {t \in SaleId : IsSaleOf(d, t, p)}
           U == {{s} \X (1 .. d.sales[s].qty) : s \in sold}
<1>1. IsFiniteSet(sold)
  BY SaleIdsFinite, FS_Subset
<1>2. IsFiniteSet(U)
  <2> DEFINE f == [s \in sold |-> {s} \X (1 .. d.sales[s].qty)]
  <2>1. f \in Surjection(sold, U)
    BY DEF Surjection
  <2> QED
    BY <1>1, <2>1, FS_Surjection
<1>3. \A T \in U : IsFiniteSet(T)
  <2> SUFFICES ASSUME NEW s \in sold PROVE IsFiniteSet({s} \X (1 .. d.sales[s].qty))
    OBVIOUS
  <2>1. d.sales[s].qty \in Int
    BY SaleType DEF IsSaleOf
  <2>2. IsFiniteSet(1 .. d.sales[s].qty)
    BY <2>1, FS_Interval
  <2>3. IsFiniteSet({s})
    BY FS_Singleton
  <2> QED
    BY <2>2, <2>3, FS_Product
<1>4. IsFiniteSet(UNION U)
  BY <1>2, <1>3, FS_UNION
<1> QED
  BY <1>4, FS_CardinalityType DEF UnitsOf, SoldUnits

----------------------------------------------------------------------------
(* What each operation writes *)

\* The alert a stock change raises is a push job, or there is none.
LEMMA AlertsType ==
  ASSUME NEW p \in Product, NEW trigger \in SaleId \cup (1 .. MaxUpdates),
         NEW initial, NEW before, NEW after
  PROVE  StockAlerts(p, initial, before, after, trigger) \subseteq Job
BY DEF StockAlerts, Job

\* What an accepted sale writes, document by document.
LEMMA SellFields ==
  ASSUME NEW d \in Database, NEW c, c.pay \in Payload, c.sale \in SaleId,
         c.key \in Key \cup {NoKey}, c.seller \in Seller,
         SellOutcome(d, c) = "ok"
  PROVE  LET p == c.pay.product
             n == Sell(d, c)
         IN  /\ p \in Product
             /\ d.products[p] # Absent
             /\ ~ d.products[p].trashed
             /\ d.products[p].remaining >= c.pay.qty
             /\ c.key # NoKey => d.ops[c.key] = Absent
             /\ n \in Database
             /\ n.products = [d.products EXCEPT ![p].remaining = @ - c.pay.qty]
             /\ n.sales = [d.sales EXCEPT ![c.sale] =
                             [product |-> p, qty |-> c.pay.qty,
                              price |-> c.pay.price, lastKnown |-> Absent]]
             /\ n.ops = IF c.key = NoKey THEN d.ops
                        ELSE [d.ops EXCEPT ![c.key] =
                                [seller |-> c.seller, hash |-> c.pay, sale |-> c.sale]]
             /\ n.adjustments = d.adjustments
             /\ n.audit = [d.audit EXCEPT ![c.sale] =
                             [key |-> c.key, qty |-> c.pay.qty, cancelled |-> FALSE]]
             /\ n.jobs = d.jobs \cup StockAlerts(p, d.products[p].initial,
                               d.products[p].remaining,
                               d.products[p].remaining - c.pay.qty, c.sale)
                            \cup {[category |-> "SALE_CREATED", product |-> p,
                                   trigger |-> c.sale]}
<1> DEFINE p == c.pay.product
           doc == d.products[p]
           n == Sell(d, c)
<1>1. c.pay.product \in Product /\ c.pay.qty \in Qty /\ c.pay.price \in Price
  BY DEF Payload
<1>2. c.pay.qty \in Int /\ c.pay.qty > 0
  BY <1>1, NumberTypes
<1>3. /\ doc # Absent
      /\ ~ doc.trashed
      /\ ~ (doc.remaining < c.pay.qty)
      /\ c.key # NoKey => d.ops[c.key] = Absent
  BY DEF SellOutcome
<1>4. doc \in ProductDoc /\ doc.remaining \in Int /\ doc.initial \in Nat
  BY <1>1, <1>3, ProductType
<1>5. /\ n.products = [d.products EXCEPT ![p].remaining = @ - c.pay.qty]
      /\ n.sales = [d.sales EXCEPT ![c.sale] =
                      [product |-> p, qty |-> c.pay.qty,
                       price |-> c.pay.price, lastKnown |-> Absent]]
      /\ n.ops = IF c.key = NoKey THEN d.ops
                 ELSE [d.ops EXCEPT ![c.key] =
                         [seller |-> c.seller, hash |-> c.pay, sale |-> c.sale]]
      /\ n.adjustments = d.adjustments
      /\ n.audit = [d.audit EXCEPT ![c.sale] =
                      [key |-> c.key, qty |-> c.pay.qty, cancelled |-> FALSE]]
      /\ n.jobs = d.jobs \cup StockAlerts(p, doc.initial, doc.remaining,
                                         doc.remaining - c.pay.qty, c.sale)
                     \cup {[category |-> "SALE_CREATED", product |-> p,
                            trigger |-> c.sale]}
  BY <1>1, <1>2, <1>4, SMTT(30) DEF Sell, AdjustStock, Database
<1>6. n.jobs \in SUBSET Job
  <2>1. \A i, b, a : StockAlerts(p, i, b, a, c.sale) \in SUBSET Job
    BY <1>1 DEF StockAlerts, Job
  <2>2. [category |-> "SALE_CREATED", product |-> p, trigger |-> c.sale] \in Job
    BY <1>1 DEF Job
  <2>3. d.jobs \in SUBSET Job
    BY Collections
  <2>4. n.jobs = d.jobs \cup StockAlerts(p, doc.initial, doc.remaining,
                                         doc.remaining - c.pay.qty, c.sale)
                     \cup {[category |-> "SALE_CREATED", product |-> p,
                            trigger |-> c.sale]}
    BY <1>5, Zenon
  <2> QED
    BY <2>1, <2>2, <2>3, <2>4, Zenon
<1>7. n.products \in [Product -> ProductDoc \cup {Absent}]
  <2>1. d.products \in [Product -> ProductDoc \cup {Absent}]
    BY Collections
  <2>2. n.products = [d.products EXCEPT ![p].remaining = @ - c.pay.qty]
    BY <1>5, Zenon
  <2> QED
    BY <1>1, <1>2, <1>3, <2>1, <2>2, StockTaken
<1>8. n.sales \in [SaleId -> SaleDoc \cup {Absent}]
  BY <1>1, <1>5, Collections DEF SaleDoc
<1>9. n.ops \in [Key -> OperationDoc \cup {Absent}]
  BY <1>5, Collections DEF OperationDoc
<1>10. n.audit \in [SaleId -> AuditDoc \cup {Absent}]
  BY <1>1, <1>5, Collections DEF AuditDoc
<1>11. n \in Database
  BY <1>5, <1>6, <1>7, <1>8, <1>9, <1>10, Zenon DEF Sell, AdjustStock, Database
<1> QED
  BY <1>1, <1>2, <1>3, <1>4, <1>5, <1>11

\* The quantity and the price a correction leads to.
LEMMA CorrectedType ==
  ASSUME NEW d \in Database, NEW u, u.sale \in SaleId, d.sales[u.sale] # Absent,
         u.qty \in Qty \cup {Absent}, u.price \in Price \cup {Absent}
  PROVE  LET sale == d.sales[u.sale]
         IN  /\ Given(u.qty, sale.qty) \in Qty
             /\ Given(u.price, sale.price) \in Price
             /\ Returned(d, u) = sale.qty - Given(u.qty, sale.qty)
             /\ Returned(d, u) \in Int
<1>1. /\ Given(u.qty, d.sales[u.sale].qty) \in Qty
      /\ Given(u.price, d.sales[u.sale].price) \in Price
  BY SaleType DEF Given
<1>2. Given(u.qty, d.sales[u.sale].qty) \in Int /\ d.sales[u.sale].qty \in Int
  BY <1>1, SaleType, NumberTypes
<1> QED
  BY <1>1, <1>2 DEF Returned

\* What an accepted correction writes, document by document.
LEMMA ChangeFields ==
  ASSUME NEW d \in Database, NEW u, u.sale \in SaleId, u.number \in 1 .. MaxUpdates,
         u.qty \in Qty \cup {Absent}, u.price \in Price \cup {Absent},
         AuditTells(d), ChangeOutcome(d, u) = "ok"
  PROVE  LET sale == d.sales[u.sale]
             p == sale.product
             doc == d.products[p]
             delta == Returned(d, u)
             n == Change(d, u)
         IN  /\ sale # Absent
             /\ doc # Absent /\ delta # 0 => doc.remaining + delta >= 0
             /\ n \in Database
             /\ n.products = IF delta = 0 \/ doc = Absent THEN d.products
                             ELSE [d.products EXCEPT ![p].remaining = @ + delta]
             /\ n.sales = [d.sales EXCEPT ![u.sale] =
                             [sale EXCEPT !.qty   = Given(u.qty, sale.qty),
                                          !.price = Given(u.price, sale.price)]]
             /\ n.ops = d.ops
             /\ n.adjustments = d.adjustments
             /\ n.audit = [d.audit EXCEPT ![u.sale] =
                             [@ EXCEPT !.qty = Given(u.qty, sale.qty)]]
             /\ n.jobs = IF delta = 0 \/ doc = Absent THEN d.jobs
                         ELSE d.jobs \cup StockAlerts(p, doc.initial, doc.remaining,
                                            doc.remaining + delta, u.number)
<1> DEFINE sale == d.sales[u.sale]
           p == sale.product
           doc == d.products[p]
           delta == Returned(d, u)
           n == Change(d, u)
<1>1. sale # Absent
  BY DEF ChangeOutcome
<1>2. /\ sale \in SaleDoc /\ p \in Product
      /\ Given(u.qty, sale.qty) \in Qty
      /\ Given(u.price, sale.price) \in Price
      /\ delta \in Int
  BY <1>1, SaleType, CorrectedType
<1>3. doc # Absent => doc \in ProductDoc /\ doc.remaining \in Int /\ doc.initial \in Nat
  BY <1>2, ProductType
<1>4. doc # Absent /\ delta # 0 => doc.remaining + delta >= 0
  BY <1>2, <1>3 DEF ChangeOutcome
<1>5. d.audit[u.sale] \in AuditDoc
  BY <1>1, AuditType DEF AuditTells
<1>6. /\ n.products = IF delta = 0 \/ doc = Absent THEN d.products
                      ELSE [d.products EXCEPT ![p].remaining = @ + delta]
      /\ n.sales = [d.sales EXCEPT ![u.sale] =
                      [sale EXCEPT !.qty   = Given(u.qty, sale.qty),
                                   !.price = Given(u.price, sale.price)]]
      /\ n.ops = d.ops
      /\ n.adjustments = d.adjustments
      /\ n.audit = [d.audit EXCEPT ![u.sale] = [@ EXCEPT !.qty = Given(u.qty, sale.qty)]]
      /\ n.jobs = IF delta = 0 \/ doc = Absent THEN d.jobs
                  ELSE d.jobs \cup StockAlerts(p, doc.initial, doc.remaining,
                                     doc.remaining + delta, u.number)
  BY <1>2, <1>3 DEF Change, AdjustStock, Database, SaleDoc
<1>7. n.jobs \in SUBSET Job
  <2>1. StockAlerts(p, doc.initial, doc.remaining, doc.remaining + delta, u.number)
          \subseteq Job
    BY <1>2, AlertsType
  <2> QED
    BY <1>6, <2>1, Collections, Zenon
<1>8. n.products \in [Product -> ProductDoc \cup {Absent}]
  <2>1. CASE delta = 0 \/ doc = Absent
    BY <1>6, <2>1, Collections, ZenonT(30)
  <2>2. CASE delta # 0 /\ doc # Absent
    <3>0. doc \in ProductDoc /\ doc.remaining + delta \in Int
      BY <1>2, <1>3, <2>2
    <3>1. [doc EXCEPT !.remaining = @ + delta] \in ProductDoc \cup {Absent}
      BY <3>0, ZenonT(30) DEF ProductDoc
    <3>2. [d.products EXCEPT ![p] = [doc EXCEPT !.remaining = @ + delta]]
            \in [Product -> ProductDoc \cup {Absent}]
      BY <1>2, <3>1, Collections, ExceptType, ZenonT(30)
    <3>3. n.products = [d.products EXCEPT ![p] = [doc EXCEPT !.remaining = @ + delta]]
      BY <1>6, <2>2, Zenon
    <3> QED
      BY <3>2, <3>3, Zenon
  <2> QED
    BY <2>1, <2>2
<1>9. n.sales \in [SaleId -> SaleDoc \cup {Absent}]
  <2>1. [sale EXCEPT !.qty   = Given(u.qty, sale.qty),
                     !.price = Given(u.price, sale.price)] \in SaleDoc \cup {Absent}
    BY <1>2, Zenon DEF SaleDoc
  <2>2. n.sales = [d.sales EXCEPT ![u.sale] =
                    [sale EXCEPT !.qty   = Given(u.qty, sale.qty),
                                 !.price = Given(u.price, sale.price)]]
    BY <1>6, Zenon
  <2> QED
    BY <2>1, <2>2, Collections, ExceptType
<1>10. n.audit \in [SaleId -> AuditDoc \cup {Absent}]
  <2>1. [d.audit[u.sale] EXCEPT !.qty = Given(u.qty, sale.qty)] \in AuditDoc \cup {Absent}
    BY <1>2, <1>5 DEF AuditDoc
  <2>2. n.audit = [d.audit EXCEPT ![u.sale] =
                    [d.audit[u.sale] EXCEPT !.qty = Given(u.qty, sale.qty)]]
    BY <1>6, ZenonT(30)
  <2> QED
    BY <2>1, <2>2, Collections, ExceptType
<1>11. n \in Database
  BY <1>6, <1>7, <1>8, <1>9, <1>10, Collections, Zenon DEF Change, AdjustStock, Database
<1> QED
  BY <1>1, <1>4, <1>6, <1>11, Zenon

\* What a cancellation writes: the sale goes, its units return if the product
\* is still there, the audit trail is closed.
LEMMA CancelFields ==
  ASSUME NEW d \in Database, NEW s \in SaleId, AuditTells(d),
         CancelOutcome(d, s) = "ok"
  PROVE  LET sale == d.sales[s]
             p == sale.product
             n == Cancel(d, s)
         IN  /\ sale # Absent
             /\ n \in Database
             /\ n.products = IF d.products[p] = Absent THEN d.products
                             ELSE [d.products EXCEPT ![p].remaining = @ + sale.qty]
             /\ n.sales = [d.sales EXCEPT ![s] = Absent]
             /\ n.ops = d.ops
             /\ n.adjustments = d.adjustments
             /\ n.audit = [d.audit EXCEPT ![s] = [@ EXCEPT !.cancelled = TRUE]]
             /\ n.jobs = d.jobs
<1> DEFINE sale == d.sales[s]
           p == sale.product
           n == Cancel(d, s)
<1>1. sale # Absent
  BY DEF CancelOutcome
<1>2. /\ p \in Product
      /\ sale.qty \in Int
  BY <1>1, SaleType
<1>3. d.products[p] # Absent =>
        d.products[p] \in ProductDoc /\ d.products[p].remaining \in Int
  BY <1>2, ProductType
<1>4. d.audit[s] \in AuditDoc
  BY <1>1, AuditType DEF AuditTells
<1>5. /\ n.products = IF d.products[p] = Absent THEN d.products
                      ELSE [d.products EXCEPT ![p].remaining = @ + sale.qty]
      /\ n.sales = [d.sales EXCEPT ![s] = Absent]
      /\ n.ops = d.ops
      /\ n.adjustments = d.adjustments
      /\ n.audit = [d.audit EXCEPT ![s] = [@ EXCEPT !.cancelled = TRUE]]
      /\ n.jobs = d.jobs
  BY <1>2, <1>3, SMTT(30) DEF Cancel, AdjustStock, Database
<1>6. n.products \in [Product -> ProductDoc \cup {Absent}]
  <2>1. d.products \in [Product -> ProductDoc \cup {Absent}]
    BY Collections
  <2>2. CASE d.products[p] = Absent
    <3>1. n.products = d.products
      BY <1>5, <2>2, Zenon
    <3> QED
      BY <2>1, <3>1, Zenon
  <2>3. CASE d.products[p] # Absent
    <3>1. n.products = [d.products EXCEPT ![p].remaining = @ + sale.qty]
      BY <1>5, <2>3, Zenon
    <3> HIDE DEF n, p, sale
    <3> QED
      BY <1>2, <2>1, <2>3, <3>1, StockWrite
  <2> QED
    BY <2>2, <2>3
<1>7. n.sales \in [SaleId -> SaleDoc \cup {Absent}]
  BY <1>5, Collections
<1>8. n.audit \in [SaleId -> AuditDoc \cup {Absent}]
  <2>1. [d.audit[s] EXCEPT !.cancelled = TRUE] \in AuditDoc
    BY <1>4 DEF AuditDoc
  <2> QED
    BY <1>5, <2>1, Collections
<1>9. n \in Database
  BY <1>5, <1>6, <1>7, <1>8, Collections, Zenon DEF Cancel, AdjustStock, Database
<1> QED
  BY <1>1, <1>5, <1>9

\* What a purge writes: the product goes, its sales keep its last known cost,
\* its unexplained stock is frozen in an adjustment.
LEMMA PurgeFields ==
  ASSUME NEW d \in Database, NEW p \in Product, d.products[p] # Absent
  PROVE  LET doc == d.products[p]
             drift == doc.initial - doc.remaining - SoldUnits(d, p)
             n == Purge(d, p)
         IN  /\ drift \in Int
             /\ n \in Database
             /\ n.products = [d.products EXCEPT ![p] = Absent]
             /\ n.sales = [s \in SaleId |->
                             IF IsSaleOf(d, s, p) /\ d.sales[s].lastKnown = Absent
                             THEN [d.sales[s] EXCEPT !.lastKnown = doc.cost]
                             ELSE d.sales[s]]
             /\ n.ops = d.ops
             /\ n.adjustments = IF drift = 0 THEN d.adjustments
                                ELSE [d.adjustments EXCEPT ![p] =
                                        [units |-> drift, cost |-> doc.cost]]
             /\ n.audit = d.audit
             /\ n.jobs = d.jobs
<1> DEFINE doc == d.products[p]
           drift == doc.initial - doc.remaining - SoldUnits(d, p)
           n == Purge(d, p)
<1>1. doc.initial \in Int /\ doc.remaining \in Int /\ doc.cost \in Cost
  BY ProductType
<1>2. drift \in Int
  BY <1>1, UnitsFinite
<1>3. /\ n.products = [d.products EXCEPT ![p] = Absent]
      /\ n.sales = [s \in SaleId |->
                      IF IsSaleOf(d, s, p) /\ d.sales[s].lastKnown = Absent
                      THEN [d.sales[s] EXCEPT !.lastKnown = doc.cost]
                      ELSE d.sales[s]]
      /\ n.ops = d.ops
      /\ n.adjustments = IF drift = 0 THEN d.adjustments
                         ELSE [d.adjustments EXCEPT ![p] =
                                 [units |-> drift, cost |-> doc.cost]]
      /\ n.audit = d.audit
      /\ n.jobs = d.jobs
  BY DEF Purge, Database
<1>4. n.products \in [Product -> ProductDoc \cup {Absent}]
  BY <1>3, Collections
<1>5. n.sales \in [SaleId -> SaleDoc \cup {Absent}]
  <2> SUFFICES ASSUME NEW s \in SaleId PROVE n.sales[s] \in SaleDoc \cup {Absent}
    BY <1>3
  <2>1. CASE IsSaleOf(d, s, p) /\ d.sales[s].lastKnown = Absent
    <3>1. d.sales[s] \in SaleDoc
      BY <2>1, SaleType DEF IsSaleOf
    <3>2. n.sales[s] = [d.sales[s] EXCEPT !.lastKnown = doc.cost]
      BY <1>3, <2>1
    <3> QED
      BY <1>1, <3>1, <3>2 DEF SaleDoc
  <2>2. CASE ~ (IsSaleOf(d, s, p) /\ d.sales[s].lastKnown = Absent)
    BY <1>3, <2>2, Collections
  <2> QED
    BY <2>1, <2>2
<1>6. n.adjustments \in [Product -> AdjustmentDoc \cup {Absent}]
  BY <1>1, <1>2, <1>3, Collections DEF AdjustmentDoc
<1>7. n \in Database
  BY <1>3, <1>4, <1>5, <1>6, Collections, Zenon DEF Purge, Database
<1> QED
  BY <1>2, <1>3, <1>7

\* A write of one product outside of the sales.
LEMMA ProductFields ==
  ASSUME NEW d \in Database, NEW p \in Product, d.products[p] # Absent
  PROVE  /\ \A flag \in BOOLEAN :
              LET n == SetTrashed(d, p, flag)
              IN  /\ n \in Database
                  /\ n = [d EXCEPT !.products = n.products]
                  /\ n.products = [d.products EXCEPT ![p].trashed = flag]
         /\ \A added \in {0, 1}, cost \in Cost \cup {Absent} :
              LET n == Patch(d, p, added, cost)
              IN  /\ n \in Database
                  /\ n = [d EXCEPT !.products = n.products]
                  /\ \A q \in Product : q # p => n.products[q] = d.products[q]
                  /\ n.products[p] # Absent
                  /\ n.products[p].initial = d.products[p].initial + added
                  /\ n.products[p].remaining = d.products[p].remaining + added
<1>1. /\ d.products[p] \in ProductDoc
      /\ d.products[p].initial \in Nat
      /\ d.products[p].remaining \in Int
      /\ d.products[p].cost \in Cost
  BY ProductType
<1>2. ASSUME NEW flag \in BOOLEAN
      PROVE  LET n == SetTrashed(d, p, flag)
             IN  /\ n \in Database
                 /\ n = [d EXCEPT !.products = n.products]
                 /\ n.products = [d.products EXCEPT ![p].trashed = flag]
  <2> DEFINE n == SetTrashed(d, p, flag)
  <2>1. n = [d EXCEPT !.products = n.products]
    BY DEF SetTrashed, Database
  <2>2. n.products = [d.products EXCEPT ![p].trashed = flag]
    BY DEF SetTrashed, Database
  <2>3. n.products \in [Product -> ProductDoc \cup {Absent}]
    BY <1>1, <2>2, Collections DEF ProductDoc
  <2>4. n \in Database
    BY <2>1, <2>3 DEF Database
  <2> QED
    BY <2>1, <2>2, <2>4
<1>3. ASSUME NEW added \in {0, 1}, NEW cost \in Cost \cup {Absent}
      PROVE  LET n == Patch(d, p, added, cost)
             IN  /\ n \in Database
                 /\ n = [d EXCEPT !.products = n.products]
                 /\ \A q \in Product : q # p => n.products[q] = d.products[q]
                 /\ n.products[p] # Absent
                 /\ n.products[p].initial = d.products[p].initial + added
                 /\ n.products[p].remaining = d.products[p].remaining + added
  <2> DEFINE n == Patch(d, p, added, cost)
             doc == d.products[p]
             new == [doc EXCEPT !.initial   = @ + added,
                                !.remaining = @ + added,
                                !.cost      = Given(cost, @)]
  <2>1. n = [d EXCEPT !.products = n.products]
    BY DEF Patch, Database
  <2>2. n.products = [d.products EXCEPT ![p] = new]
    BY <1>1, Collections DEF Patch, Database, ProductDoc
  <2>3. new \in ProductDoc
    <3>1. Given(cost, doc.cost) \in Cost
      BY <1>1 DEF Given
    <3>2. doc.initial + added \in Nat /\ doc.remaining + added \in Int
      BY <1>1
    <3> QED
      BY <1>1, <3>1, <3>2 DEF ProductDoc
  <2>4. n.products \in [Product -> ProductDoc \cup {Absent}]
    BY <2>2, <2>3, Collections
  <2>5. n \in Database
    BY <2>1, <2>4 DEF Database
  <2>6. /\ n.products[p] = new
        /\ \A q \in Product : q # p => n.products[q] = d.products[q]
    BY <2>2, Collections
  <2>7. new.initial = doc.initial + added /\ new.remaining = doc.remaining + added
    BY <1>1 DEF ProductDoc
  <2> QED
    BY <2>1, <2>3, <2>5, <2>6, <2>7, NotAbsent
<1> QED
  BY <1>2, <1>3

----------------------------------------------------------------------------
(* Each operation preserves the agreement of the collections *)

\* A step that deletes no product, and whose sales are old ones with the same
\* product and cost or new ones of a product there is, keeps the history.
LEMMA HistoryFrame ==
  ASSUME NEW d, NEW n, HistoryKept(d),
         \A q \in Product : n.products[q] = Absent <=> d.products[q] = Absent,
         n.adjustments = d.adjustments,
         \A s \in SaleId : n.sales[s] # Absent =>
           /\ n.sales[s].product \in Product
           /\ \/ /\ d.sales[s] # Absent
                 /\ n.sales[s].product = d.sales[s].product
                 /\ n.sales[s].lastKnown = d.sales[s].lastKnown
              \/ /\ n.sales[s].lastKnown = Absent
                 /\ n.products[n.sales[s].product] # Absent
  PROVE  HistoryKept(n)
<1>1. ASSUME NEW s \in SaleId, n.sales[s] # Absent
      PROVE  n.sales[s].lastKnown # Absent <=> n.products[n.sales[s].product] = Absent
  BY <1>1 DEF HistoryKept
<1>2. ASSUME NEW p \in Product, n.adjustments[p] # Absent
      PROVE  n.products[p] = Absent
  BY <1>2 DEF HistoryKept
<1> QED
  BY <1>1, <1>2 DEF HistoryKept

\* So does a step that leaves the operations and the keys of the trails alone.
LEMMA KeysFrame ==
  ASSUME NEW d \in Database, NEW n, KeysTell(d), n.ops = d.ops,
         \A s \in SaleId : /\ n.audit[s] = Absent <=> d.audit[s] = Absent
                           /\ n.audit[s] # Absent => n.audit[s].key = d.audit[s].key
  PROVE  KeysTell(n)
<1>1. ASSUME NEW k \in Key, n.ops[k] # Absent
      PROVE  n.audit[n.ops[k].sale] # Absent /\ n.audit[n.ops[k].sale].key = k
  <2> DEFINE s == d.ops[k].sale
  <2>1. s \in SaleId
    BY <1>1, OperationType
  <2>2. d.audit[s] # Absent /\ d.audit[s].key = k
    BY <1>1 DEF KeysTell
  <2>3. n.audit[s] # Absent /\ n.audit[s].key = k
    BY <2>1, <2>2
  <2> QED
    BY <2>3
<1>2. ASSUME NEW s \in SaleId, n.audit[s] # Absent, n.audit[s].key # NoKey
      PROVE  n.ops[n.audit[s].key] # Absent /\ n.ops[n.audit[s].key].sale = s
  <2>1. d.audit[s] # Absent /\ n.audit[s].key = d.audit[s].key
    BY <1>2
  <2>2. d.ops[d.audit[s].key] # Absent /\ d.ops[d.audit[s].key].sale = s
    BY <1>2, <2>1 DEF KeysTell
  <2> QED
    BY <2>1, <2>2
<1> QED
  BY <1>1, <1>2 DEF KeysTell

\* A sale keeps the documents consistent: stock, history, audit and keys.
LEMMA SellOK ==
  ASSUME NEW d, OK(d), NEW c, c.pay \in Payload, c.sale \in SaleId,
         c.key \in Key \cup {NoKey}, c.seller \in Seller,
         d.audit[c.sale] = Absent, SellOutcome(d, c) = "ok"
  PROVE  OK(Sell(d, c))
<1> DEFINE p == c.pay.product
           n == Sell(d, c)
<1>0. d \in Database /\ c.pay.qty \in Qty /\ c.pay.qty \in Nat /\ c.pay.qty > 0
  BY NumberTypes DEF OK, Payload
<1>1. /\ p \in Product
      /\ d.products[p] # Absent
      /\ d.products[p].remaining >= c.pay.qty
      /\ c.key # NoKey => d.ops[c.key] = Absent
      /\ n \in Database
      /\ n.products = [d.products EXCEPT ![p].remaining = @ - c.pay.qty]
      /\ n.sales = [d.sales EXCEPT ![c.sale] =
                      [product |-> p, qty |-> c.pay.qty,
                       price |-> c.pay.price, lastKnown |-> Absent]]
      /\ n.ops = IF c.key = NoKey THEN d.ops
                 ELSE [d.ops EXCEPT ![c.key] =
                         [seller |-> c.seller, hash |-> c.pay, sale |-> c.sale]]
      /\ n.adjustments = d.adjustments
      /\ n.audit = [d.audit EXCEPT ![c.sale] =
                      [key |-> c.key, qty |-> c.pay.qty, cancelled |-> FALSE]]
  BY <1>0, SellFields, ZenonT(60)
<1>2. /\ d.products[p] \in ProductDoc
      /\ d.products[p].remaining \in Int
  BY <1>0, <1>1, ProductType
<1>3. /\ \A q \in Product : n.products[q] = Absent <=> d.products[q] = Absent
      /\ \A q \in Product : q # p => n.products[q] = d.products[q]
      /\ n.products[p].remaining = d.products[p].remaining - c.pay.qty
  <2>1. /\ d.products \in [Product -> ProductDoc \cup {Absent}]
        /\ c.pay.qty \in Int
    BY <1>0, Collections
  <2>2. /\ p \in Product /\ d.products[p] # Absent
        /\ n.products = [d.products EXCEPT ![p].remaining = @ - c.pay.qty]
    BY <1>1, Zenon
  <2> HIDE DEF n, p
  <2>3. /\ n.products[p] # Absent
        /\ n.products[p].remaining = d.products[p].remaining - c.pay.qty
        /\ \A q \in Product : q # p => n.products[q] = d.products[q]
    BY <2>1, <2>2, StockTaken
  <2> QED
    BY <2>2, <2>3
<1>4. /\ n.sales[c.sale] \in SaleDoc
      /\ n.sales[c.sale].product = p
      /\ n.sales[c.sale].qty = c.pay.qty
      /\ n.sales[c.sale].lastKnown = Absent
      /\ \A s \in SaleId : s # c.sale => n.sales[s] = d.sales[s]
  BY <1>0, <1>1, Collections DEF SaleDoc, Payload
<1>5. /\ n.audit[c.sale] \in AuditDoc
      /\ n.audit[c.sale].key = c.key
      /\ n.audit[c.sale].qty = c.pay.qty
      /\ n.audit[c.sale].cancelled = FALSE
      /\ \A s \in SaleId : s # c.sale => n.audit[s] = d.audit[s]
  BY <1>0, <1>1, Collections DEF AuditDoc
<1>6. StockCovered(n)
  <2> SUFFICES ASSUME NEW q \in Product, n.products[q] # Absent
               PROVE  n.products[q].remaining >= 0
    BY DEF StockCovered
  <2>1. d.products[p].remaining >= c.pay.qty
    BY <1>1
  <2> HIDE DEF n, p
  <2>2. CASE q = p
    BY <1>0, <1>2, <1>3, <2>1, <2>2
  <2>3. CASE q # p
    BY <1>3, <2>3 DEF OK, StockCovered
  <2> QED
    BY <2>2, <2>3
<1>7. HistoryKept(n)
  <2>1. ASSUME NEW s \in SaleId, n.sales[s] # Absent
        PROVE  /\ n.sales[s].product \in Product
               /\ \/ /\ d.sales[s] # Absent
                     /\ n.sales[s].product = d.sales[s].product
                     /\ n.sales[s].lastKnown = d.sales[s].lastKnown
                  \/ /\ n.sales[s].lastKnown = Absent
                     /\ n.products[n.sales[s].product] # Absent
    <3>0. p \in Product /\ n.products[p] # Absent
      BY <1>1, <1>3
    <3> HIDE DEF n, p
    <3>1. CASE s = c.sale
      BY <1>4, <3>0, <3>1, Zenon
    <3>2. CASE s # c.sale
      BY <1>0, <1>4, <2>1, <3>2, SaleType
    <3> QED
      BY <3>1, <3>2
  <2> QED
    BY <1>1, <1>3, <2>1, HistoryFrame, Zenon DEF OK
<1>8. AuditTells(n)
  BY <1>4, <1>5, NotAbsent DEF OK, AuditTells
<1>9. KeysTell(n)
  <2>1. \A k \in Key : d.ops[k] # Absent => d.ops[k].sale \in SaleId \ {c.sale}
    BY <1>0, OperationType DEF OK, KeysTell
  <2>2. ASSUME NEW k \in Key, n.ops[k] # Absent
        PROVE  n.audit[n.ops[k].sale] # Absent /\ n.audit[n.ops[k].sale].key = k
    <3>1. CASE k = c.key
      <4>1. n.ops[k].sale = c.sale
        BY <1>0, <1>1, <3>1, Sentinels, Collections
      <4> QED
        BY <1>5, <3>1, <4>1, NotAbsent
    <3>2. CASE k # c.key
      <4>1. n.ops[k] = d.ops[k]
        BY <1>1, <3>2, Collections
      <4> QED
        BY <1>5, <2>1, <2>2, <4>1 DEF OK, KeysTell
    <3> QED
      BY <3>1, <3>2
  <2>3. ASSUME NEW s \in SaleId, n.audit[s] # Absent, n.audit[s].key # NoKey
        PROVE  n.ops[n.audit[s].key] # Absent /\ n.ops[n.audit[s].key].sale = s
    <3>1. CASE s = c.sale
      <4>1. /\ c.key \in Key /\ n.audit[s].key = c.key
            /\ n.ops[c.key] = [seller |-> c.seller, hash |-> c.pay, sale |-> c.sale]
        BY <1>0, <1>1, <1>5, <2>3, <3>1, Collections
      <4>2. n.ops[c.key] \in OperationDoc
        BY <4>1 DEF OperationDoc
      <4> QED
        BY <3>1, <4>1, <4>2, NotAbsent
    <3>2. CASE s # c.sale
      <4>1. n.audit[s] = d.audit[s]
        BY <1>5, <3>2
      <4>2. /\ d.audit[s].key \in Key
            /\ d.ops[d.audit[s].key] # Absent
            /\ d.ops[d.audit[s].key].sale = s
        BY <1>0, <2>3, <4>1, AuditType DEF OK, KeysTell
      <4>3. n.ops[d.audit[s].key] = d.ops[d.audit[s].key]
        BY <1>1, <4>2, Collections
      <4> QED
        BY <4>1, <4>2, <4>3
    <3> QED
      BY <3>1, <3>2
  <2> QED
    BY <2>2, <2>3 DEF KeysTell
<1> QED
  BY <1>1, <1>6, <1>7, <1>8, <1>9 DEF OK

\* A correction keeps the documents consistent.
LEMMA ChangeOK ==
  ASSUME NEW d, OK(d), NEW u, u.sale \in SaleId, u.number \in 1 .. MaxUpdates,
         u.qty \in Qty \cup {Absent}, u.price \in Price \cup {Absent},
         ChangeOutcome(d, u) = "ok"
  PROVE  OK(Change(d, u))
<1> DEFINE sale == d.sales[u.sale]
           p == sale.product
           doc == d.products[p]
           delta == Returned(d, u)
           n == Change(d, u)
<1>0. d \in Database /\ AuditTells(d)
  BY DEF OK
<1>1. /\ sale # Absent
      /\ doc # Absent /\ delta # 0 => doc.remaining + delta >= 0
      /\ n \in Database
      /\ n.products = IF delta = 0 \/ doc = Absent THEN d.products
                      ELSE [d.products EXCEPT ![p].remaining = @ + delta]
      /\ n.sales = [d.sales EXCEPT ![u.sale] =
                      [sale EXCEPT !.qty   = Given(u.qty, sale.qty),
                                   !.price = Given(u.price, sale.price)]]
      /\ n.ops = d.ops
      /\ n.adjustments = d.adjustments
      /\ n.audit = [d.audit EXCEPT ![u.sale] = [@ EXCEPT !.qty = Given(u.qty, sale.qty)]]
  BY <1>0, ChangeFields, ZenonT(30)
<1>2. /\ sale \in SaleDoc /\ p \in Product
      /\ Given(u.qty, sale.qty) \in Qty
      /\ Given(u.price, sale.price) \in Price
      /\ delta \in Int
  BY <1>0, <1>1, SaleType, CorrectedType, Zenon
<1>3. doc # Absent => doc \in ProductDoc /\ doc.remaining \in Int
  BY <1>0, <1>2, ProductType
<1>4. /\ \A q \in Product : n.products[q] = Absent <=> d.products[q] = Absent
      /\ \A q \in Product : q # p => n.products[q] = d.products[q]
      /\ n.products[p] # Absent /\ delta # 0 =>
           n.products[p].remaining = doc.remaining + delta
      /\ delta = 0 => n.products = d.products
  <2>1. CASE delta = 0 \/ doc = Absent
    BY <1>1, <2>1, Zenon
  <2>2. CASE delta # 0 /\ doc # Absent
    <3>1. doc \in ProductDoc /\ doc.remaining + delta \in Int
      BY <1>2, <1>3, <2>2, SMTT(30)
    <3>2. [doc EXCEPT !.remaining = @ + delta] \in ProductDoc
      BY <3>1 DEF ProductDoc
    <3>3. n.products = [d.products EXCEPT ![p] = [doc EXCEPT !.remaining = @ + delta]]
      BY <1>1, <2>2, ZenonT(30)
    <3>4. n.products[p] = [doc EXCEPT !.remaining = @ + delta]
      BY <1>0, <1>2, <3>3, Collections, Zenon
    <3>5. n.products[p].remaining = doc.remaining + delta
      BY <3>1, <3>4 DEF ProductDoc
    <3>6. n.products[p] # Absent
      BY <3>2, <3>4, NotAbsent, Zenon
    <3>7. \A q \in Product : q # p => n.products[q] = d.products[q]
      BY <1>0, <3>3, Collections
    <3> QED
      BY <2>2, <3>5, <3>6, <3>7
  <2> QED
    BY <2>1, <2>2
<1>5. /\ n.sales[u.sale] # Absent
      /\ n.sales[u.sale].product = p
      /\ n.sales[u.sale].qty = Given(u.qty, sale.qty)
      /\ n.sales[u.sale].lastKnown = sale.lastKnown
      /\ \A s \in SaleId : s # u.sale => n.sales[s] = d.sales[s]
  <2> DEFINE new == [sale EXCEPT !.qty   = Given(u.qty, sale.qty),
                                 !.price = Given(u.price, sale.price)]
  <2>1. new \in SaleDoc
    BY <1>2 DEF SaleDoc
  <2>2. new.product = p /\ new.qty = Given(u.qty, sale.qty) /\ new.lastKnown = sale.lastKnown
    BY <1>2 DEF SaleDoc
  <2>3. n.sales[u.sale] = new
    BY <1>0, <1>1, Collections, Zenon
  <2> QED
    BY <1>0, <1>1, <2>1, <2>2, <2>3, Collections, NotAbsent, ZenonT(60)
<1>6. /\ d.audit[u.sale] # Absent
      /\ n.audit[u.sale] # Absent
      /\ n.audit[u.sale].key = d.audit[u.sale].key
      /\ n.audit[u.sale].qty = Given(u.qty, sale.qty)
      /\ n.audit[u.sale].cancelled = d.audit[u.sale].cancelled
      /\ \A s \in SaleId : s # u.sale => n.audit[s] = d.audit[s]
  <2> DEFINE new == [d.audit[u.sale] EXCEPT !.qty = Given(u.qty, sale.qty)]
  <2>1. d.audit[u.sale] # Absent
    BY <1>0, <1>1, Zenon DEF AuditTells
  <2>2. d.audit[u.sale] \in AuditDoc
    BY <1>0, <2>1, AuditType
  <2>3. new \in AuditDoc
    BY <1>2, <2>2 DEF AuditDoc
  <2>4. /\ new.key = d.audit[u.sale].key
        /\ new.qty = Given(u.qty, sale.qty)
        /\ new.cancelled = d.audit[u.sale].cancelled
    BY <2>2 DEF AuditDoc
  <2>5. n.audit = [d.audit EXCEPT ![u.sale] = new]
    BY <1>1, Zenon
  <2>6. /\ n.audit[u.sale] = new
        /\ \A s \in SaleId : s # u.sale => n.audit[s] = d.audit[s]
    BY <1>0, <2>5, Collections
  <2>7. new # Absent
    BY <2>3, NotAbsent
  <2> QED
    BY <2>1, <2>4, <2>6, <2>7
<1>7. StockCovered(n)
  <2> SUFFICES ASSUME NEW q \in Product, n.products[q] # Absent
               PROVE  n.products[q].remaining >= 0
    BY DEF StockCovered
  <2>1. CASE q = p /\ delta # 0
    BY <1>1, <1>4, <2>1, Zenon
  <2>2. CASE q # p \/ delta = 0
    BY <1>4, <2>2 DEF OK, StockCovered
  <2> QED
    BY <2>1, <2>2
<1>8. HistoryKept(n)
  <2>1. ASSUME NEW s \in SaleId, n.sales[s] # Absent
        PROVE  /\ n.sales[s].product \in Product
               /\ d.sales[s] # Absent
               /\ n.sales[s].product = d.sales[s].product
               /\ n.sales[s].lastKnown = d.sales[s].lastKnown
    <3>1. CASE s = u.sale
      BY <1>1, <1>2, <1>5, <3>1, Zenon
    <3>2. CASE s # u.sale
      BY <1>0, <1>5, <2>1, <3>2, SaleType
    <3> QED
      BY <3>1, <3>2
  <2> QED
    BY <1>1, <1>4, <2>1, HistoryFrame, ZenonT(30) DEF OK
<1>9. AuditTells(n)
  <2> SUFFICES ASSUME NEW s \in SaleId
               PROVE  IF n.sales[s] = Absent
                      THEN n.audit[s] # Absent => n.audit[s].cancelled
                      ELSE /\ n.audit[s] # Absent
                           /\ ~ n.audit[s].cancelled
                           /\ n.audit[s].qty = n.sales[s].qty
    BY DEF AuditTells
  <2>1. CASE s = u.sale
    <3>1. ~ d.audit[s].cancelled
      BY <1>0, <1>1, <2>1, Zenon DEF AuditTells
    <3> QED
      BY <1>5, <1>6, <2>1, <3>1
  <2>2. CASE s # u.sale
    BY <1>0, <1>5, <1>6, <2>2 DEF AuditTells
  <2> QED
    BY <2>1, <2>2
<1>10. KeysTell(n)
  <2>1. \A s \in SaleId : /\ n.audit[s] = Absent <=> d.audit[s] = Absent
                          /\ n.audit[s] # Absent => n.audit[s].key = d.audit[s].key
    BY <1>6
  <2> QED
    BY <1>0, <1>1, <2>1, KeysFrame, Zenon DEF OK
<1> QED
  BY <1>1, <1>7, <1>8, <1>9, <1>10, Zenon DEF OK

\* A cancellation keeps the documents consistent.
LEMMA CancelOK ==
  ASSUME NEW d, OK(d), NEW s \in SaleId, CancelOutcome(d, s) = "ok"
  PROVE  OK(Cancel(d, s))
<1> DEFINE sale == d.sales[s]
           p == sale.product
           doc == d.products[p]
           n == Cancel(d, s)
<1>0. d \in Database /\ AuditTells(d)
  BY DEF OK
<1>1. /\ sale # Absent
      /\ n \in Database
      /\ n.products = IF doc = Absent THEN d.products
                      ELSE [d.products EXCEPT ![p].remaining = @ + sale.qty]
      /\ n.sales = [d.sales EXCEPT ![s] = Absent]
      /\ n.ops = d.ops
      /\ n.adjustments = d.adjustments
      /\ n.audit = [d.audit EXCEPT ![s] = [@ EXCEPT !.cancelled = TRUE]]
  BY <1>0, CancelFields
<1>2. p \in Product /\ sale.qty \in Nat
  BY <1>0, <1>1, SaleType
<1>3. doc # Absent => doc \in ProductDoc /\ doc.remaining \in Int
  BY <1>0, <1>2, ProductType
<1>4. /\ \A q \in Product : n.products[q] = Absent <=> d.products[q] = Absent
      /\ \A q \in Product : q # p => n.products[q] = d.products[q]
      /\ n.products[p] # Absent => n.products[p].remaining = doc.remaining + sale.qty
  <2>1. CASE doc = Absent
    BY <1>1, <2>1
  <2>2. CASE doc # Absent
    <3>1. doc \in ProductDoc /\ doc.remaining + sale.qty \in Int
      BY <1>2, <1>3, <2>2
    <3>2. [doc EXCEPT !.remaining = @ + sale.qty] \in ProductDoc
      BY <3>1 DEF ProductDoc
    <3>3. n.products = [d.products EXCEPT ![p] = [doc EXCEPT !.remaining = @ + sale.qty]]
      BY <1>1, <2>2
    <3>4. n.products[p] = [doc EXCEPT !.remaining = @ + sale.qty]
      BY <1>0, <1>2, <3>3, Collections
    <3>5. n.products[p].remaining = doc.remaining + sale.qty
      BY <3>1, <3>4 DEF ProductDoc
    <3> QED
      BY <1>0, <1>2, <2>2, <3>2, <3>3, <3>4, <3>5, Collections, NotAbsent, Zenon
  <2> QED
    BY <2>1, <2>2
<1>5. /\ n.sales[s] = Absent
      /\ \A t \in SaleId : t # s => n.sales[t] = d.sales[t]
  BY <1>0, <1>1, Collections
<1>6. /\ d.audit[s] # Absent
      /\ n.audit[s] # Absent
      /\ n.audit[s].key = d.audit[s].key
      /\ n.audit[s].cancelled
      /\ \A t \in SaleId : t # s => n.audit[t] = d.audit[t]
  <2> DEFINE new == [d.audit[s] EXCEPT !.cancelled = TRUE]
  <2>1. d.audit[s] # Absent
    BY <1>0, <1>1 DEF AuditTells
  <2>2. d.audit[s] \in AuditDoc
    BY <1>0, <2>1, AuditType
  <2>3. new \in AuditDoc
    BY <2>2 DEF AuditDoc
  <2>4. new.key = d.audit[s].key /\ new.cancelled = TRUE
    BY <2>2 DEF AuditDoc
  <2>5. n.audit = [d.audit EXCEPT ![s] = new]
    BY <1>1
  <2>6. /\ n.audit[s] = new
        /\ \A t \in SaleId : t # s => n.audit[t] = d.audit[t]
    BY <1>0, <2>5, Collections
  <2>7. new # Absent
    BY <2>3, NotAbsent
  <2> QED
    BY <2>1, <2>4, <2>6, <2>7
<1>7. StockCovered(n)
  BY <1>2, <1>3, <1>4 DEF OK, StockCovered
<1>8. HistoryKept(n)
  <2>1. ASSUME NEW t \in SaleId, n.sales[t] # Absent
        PROVE  /\ n.sales[t].product \in Product
               /\ d.sales[t] # Absent
               /\ n.sales[t].product = d.sales[t].product
               /\ n.sales[t].lastKnown = d.sales[t].lastKnown
    BY <1>0, <1>5, <2>1, SaleType
  <2> QED
    BY <1>1, <1>4, <2>1, HistoryFrame, Zenon DEF OK
<1>9. AuditTells(n)
  BY <1>0, <1>5, <1>6 DEF AuditTells
<1>10. KeysTell(n)
  <2>1. \A t \in SaleId : /\ n.audit[t] = Absent <=> d.audit[t] = Absent
                          /\ n.audit[t] # Absent => n.audit[t].key = d.audit[t].key
    BY <1>6
  <2> QED
    BY <1>0, <1>1, <2>1, KeysFrame DEF OK
<1> QED
  BY <1>1, <1>7, <1>8, <1>9, <1>10 DEF OK

\* A purge keeps the documents consistent: the history survives it.
LEMMA PurgeOK ==
  ASSUME NEW d, OK(d), NEW p \in Product, d.products[p] # Absent
  PROVE  OK(Purge(d, p))
<1> DEFINE doc == d.products[p]
           n == Purge(d, p)
<1>0. d \in Database /\ doc.cost # Absent
  BY ProductType, NumberTypes DEF OK
<1>1. /\ n \in Database
      /\ n.products = [d.products EXCEPT ![p] = Absent]
      /\ n.sales = [s \in SaleId |->
                      IF IsSaleOf(d, s, p) /\ d.sales[s].lastKnown = Absent
                      THEN [d.sales[s] EXCEPT !.lastKnown = doc.cost]
                      ELSE d.sales[s]]
      /\ n.ops = d.ops
      /\ n.audit = d.audit
  BY <1>0, PurgeFields
<1>2. /\ n.products[p] = Absent
      /\ \A q \in Product : q # p => n.products[q] = d.products[q]
  BY <1>0, <1>1, Collections
<1>3. ASSUME NEW q \in Product, q # p
      PROVE  n.adjustments[q] = d.adjustments[q]
  <2> DEFINE drift == doc.initial - doc.remaining - SoldUnits(d, p)
  <2>1. n.adjustments = IF drift = 0 THEN d.adjustments
                        ELSE [d.adjustments EXCEPT ![p] =
                                [units |-> drift, cost |-> doc.cost]]
    BY <1>0, PurgeFields
  <2> QED
    BY <1>0, <1>3, <2>1, Collections
<1>4. ASSUME NEW s \in SaleId, d.sales[s] # Absent
      PROVE  /\ n.sales[s] # Absent
             /\ n.sales[s].product = d.sales[s].product
             /\ n.sales[s].qty = d.sales[s].qty
             /\ n.sales[s].lastKnown # Absent <=>
                  d.sales[s].product = p \/ d.sales[s].lastKnown # Absent
  <2>1. d.sales[s] \in SaleDoc
    BY <1>0, <1>4, SaleType
  <2>2. CASE d.sales[s].product = p /\ d.sales[s].lastKnown = Absent
    <3> DEFINE new == [d.sales[s] EXCEPT !.lastKnown = doc.cost]
    <3>1. n.sales[s] = new
      BY <1>1, <1>4, <2>2 DEF IsSaleOf
    <3>2. new \in SaleDoc
      BY <1>0, <2>1, ProductType DEF SaleDoc
    <3>3. /\ new.product = d.sales[s].product
          /\ new.qty = d.sales[s].qty
          /\ new.lastKnown = doc.cost
      BY <2>1 DEF SaleDoc
    <3> QED
      BY <1>0, <2>2, <3>1, <3>2, <3>3, NotAbsent
  <2>3. CASE ~ (d.sales[s].product = p /\ d.sales[s].lastKnown = Absent)
    <3>1. n.sales[s] = d.sales[s]
      BY <1>1, <2>3 DEF IsSaleOf
    <3> QED
      BY <1>4, <2>3, <3>1
  <2> QED
    BY <2>2, <2>3
<1>5. ASSUME NEW s \in SaleId, d.sales[s] = Absent
      PROVE  n.sales[s] = Absent
  BY <1>1, <1>5 DEF IsSaleOf
<1>6. StockCovered(n)
  BY <1>2 DEF OK, StockCovered
<1>7. HistoryKept(n)
  <2>1. ASSUME NEW s \in SaleId, n.sales[s] # Absent
        PROVE  n.sales[s].lastKnown # Absent <=> n.products[n.sales[s].product] = Absent
    <3>1. d.sales[s] # Absent
      BY <1>5, <2>1
    <3>2. d.sales[s].product \in Product
      BY <1>0, <3>1, SaleType
    <3>3. d.sales[s].lastKnown # Absent <=> d.products[d.sales[s].product] = Absent
      BY <3>1 DEF OK, HistoryKept
    <3> QED
      BY <1>2, <1>4, <3>1, <3>2, <3>3
  <2>2. ASSUME NEW q \in Product, n.adjustments[q] # Absent
        PROVE  n.products[q] = Absent
    BY <1>2, <1>3, <2>2 DEF OK, HistoryKept
  <2> QED
    BY <2>1, <2>2 DEF HistoryKept
<1>8. AuditTells(n)
  BY <1>1, <1>4, <1>5 DEF OK, AuditTells
<1>9. KeysTell(n)
  BY <1>0, <1>1, KeysFrame DEF OK
<1> QED
  BY <1>1, <1>6, <1>7, <1>8, <1>9 DEF OK

\* A write that changes only products, and deletes none, is covered if no
\* stock becomes negative.
LEMMA ProductOK ==
  ASSUME NEW d, OK(d), NEW n, n \in Database, n = [d EXCEPT !.products = n.products],
         \A q \in Product : n.products[q] = Absent <=> d.products[q] = Absent,
         \A q \in Product : n.products[q] # Absent => n.products[q].remaining >= 0
  PROVE  OK(n)
<1>1. /\ d \in Database /\ n.sales = d.sales /\ n.ops = d.ops
      /\ n.adjustments = d.adjustments /\ n.audit = d.audit
  BY DEF OK, Database
<1>2. HistoryKept(n)
  <2>1. ASSUME NEW s \in SaleId, n.sales[s] # Absent
        PROVE  /\ n.sales[s].product \in Product
               /\ d.sales[s] # Absent
               /\ n.sales[s].product = d.sales[s].product
               /\ n.sales[s].lastKnown = d.sales[s].lastKnown
    BY <1>1, <2>1, SaleType
  <2> QED
    BY <1>1, <2>1, HistoryFrame DEF OK
<1>3. AuditTells(n) /\ KeysTell(n)
  BY <1>1, KeysFrame DEF OK, AuditTells
<1> QED
  BY <1>2, <1>3 DEF OK, StockCovered

\* Trashing and restoring a product keep the documents consistent.
LEMMA TrashOK ==
  ASSUME NEW d, OK(d), NEW p \in Product, d.products[p] # Absent, NEW flag \in BOOLEAN
  PROVE  OK(SetTrashed(d, p, flag))
<1> DEFINE n == SetTrashed(d, p, flag)
<1>0. d \in Database
  BY DEF OK
<1>1. /\ n \in Database
      /\ n = [d EXCEPT !.products = n.products]
      /\ n.products = [d.products EXCEPT ![p].trashed = flag]
  BY <1>0, ProductFields
<1>2. d.products[p] \in ProductDoc
  BY <1>0, ProductType
<1>3. /\ [d.products[p] EXCEPT !.trashed = flag] \in ProductDoc
      /\ [d.products[p] EXCEPT !.trashed = flag].remaining = d.products[p].remaining
  BY <1>2 DEF ProductDoc
<1>4. \A q \in Product :
        n.products[q] = IF q = p THEN [d.products[p] EXCEPT !.trashed = flag]
                        ELSE d.products[q]
  BY <1>0, <1>1, Collections
<1>5. \A q \in Product : n.products[q] = Absent <=> d.products[q] = Absent
  BY <1>3, <1>4, NotAbsent
<1>6. \A q \in Product : n.products[q] # Absent => n.products[q].remaining >= 0
  BY <1>3, <1>4 DEF OK, StockCovered
<1> QED
  BY <1>1, <1>5, <1>6, ProductOK

\* A correction of the stock or the cost keeps the documents consistent.
LEMMA PatchOK ==
  ASSUME NEW d, OK(d), NEW p \in Product, d.products[p] # Absent,
         NEW added \in {0, 1}, NEW cost \in Cost \cup {Absent}
  PROVE  OK(Patch(d, p, added, cost))
<1> DEFINE n == Patch(d, p, added, cost)
<1>0. d \in Database /\ d.products[p].remaining \in Int /\ d.products[p].remaining >= 0
  BY ProductType DEF OK, StockCovered
<1>1. /\ n \in Database
      /\ n = [d EXCEPT !.products = n.products]
      /\ \A q \in Product : q # p => n.products[q] = d.products[q]
      /\ n.products[p] # Absent
      /\ n.products[p].remaining = d.products[p].remaining + added
  BY <1>0, ProductFields
<1>2. n.products[p].remaining >= 0
  BY <1>0, <1>1
<1>3. \A q \in Product : n.products[q] = Absent <=> d.products[q] = Absent
  BY <1>1
<1>4. \A q \in Product : n.products[q] # Absent => n.products[q].remaining >= 0
  BY <1>1, <1>2 DEF OK, StockCovered
<1> QED
  BY <1>1, <1>3, <1>4, ProductOK

----------------------------------------------------------------------------
(* No operation separates the stock from the sales *)

\* The units of p that sales other than s took.
UnitsBut(d, p, s) ==
  UNION {{t} \X (1 .. d.sales[t].qty) : t \in {t \in SaleId : t # s /\ IsSaleOf(d, t, p)}}

UnitsByOne(d, p, s) == IF IsSaleOf(d, s, p) THEN d.sales[s].qty ELSE 0

\* An interval 1 .. k has k members.
LEMMA IntervalCount ==
  ASSUME NEW k \in Nat
  PROVE  IsFiniteSet(1 .. k) /\ Cardinality(1 .. k) = k
<1>1. IsFiniteSet(1 .. k) /\ Cardinality(1 .. k) = IF 1 > k THEN 0 ELSE k - 1 + 1
  BY FS_Interval
<1> QED
  BY <1>1

\* The units sold of a product are those of one sale and those of the others.
LEMMA SoldSplit ==
  ASSUME NEW d \in Database, NEW p \in Product, NEW s \in SaleId
  PROVE  /\ Cardinality(UnitsBut(d, p, s)) \in Nat
         /\ UnitsByOne(d, p, s) \in Nat
         /\ SoldUnits(d, p) = Cardinality(UnitsBut(d, p, s)) + UnitsByOne(d, p, s)
<1> DEFINE B == UnitsBut(d, p, s)
           One == {s} \X (1 .. d.sales[s].qty)
<1>1. B \subseteq UnitsOf(d, p)
  BY DEF UnitsBut, UnitsOf
<1>2. IsFiniteSet(B) /\ Cardinality(B) \in Nat
  BY <1>1, UnitsFinite, FS_Subset, FS_CardinalityType
<1>3. CASE ~ IsSaleOf(d, s, p)
  <2>1. UnitsOf(d, p) = B
    BY <1>3 DEF UnitsBut, UnitsOf
  <2> QED
    BY <1>2, <1>3, <2>1 DEF SoldUnits, UnitsByOne
<1>4. CASE IsSaleOf(d, s, p)
  <2>1. d.sales[s].qty \in Nat
    BY <1>4, SaleType DEF IsSaleOf
  <2>2. UnitsOf(d, p) = B \cup One
    BY <1>4 DEF UnitsBut, UnitsOf
  <2>3. B \cap One = {}
    BY DEF UnitsBut
  <2>4. IsFiniteSet(1 .. d.sales[s].qty) /\ Cardinality(1 .. d.sales[s].qty) = d.sales[s].qty
    BY <2>1, IntervalCount
  <2>5. IsFiniteSet({s}) /\ Cardinality({s}) = 1
    BY FS_Singleton
  <2>6. IsFiniteSet(One) /\ Cardinality(One) = 1 * d.sales[s].qty
    <3>1. /\ IsFiniteSet(One)
          /\ Cardinality(One) = Cardinality({s}) * Cardinality(1 .. d.sales[s].qty)
      BY <2>4, <2>5, FS_Product, Zenon
    <3> QED
      BY <2>4, <2>5, <3>1
  <2>7. Cardinality(One) = d.sales[s].qty
    BY <2>1, <2>6
  <2>8. Cardinality(B \cup One) = Cardinality(B) + Cardinality(One) - Cardinality({})
    BY <1>2, <2>3, <2>6, FS_Union
  <2>9. Cardinality({}) = 0
    BY FS_EmptySet
  <2> QED
    BY <1>2, <1>4, <2>1, <2>2, <2>7, <2>8, <2>9 DEF SoldUnits, UnitsByOne
<1> QED
  BY <1>3, <1>4

\* Only sale s differs: the units sold change by what it takes.
LEMMA SoldChange ==
  ASSUME NEW d \in Database, NEW n \in Database, NEW p \in Product, NEW s \in SaleId,
         \A t \in SaleId : t # s => n.sales[t] = d.sales[t]
  PROVE  /\ SoldUnits(d, p) \in Nat
         /\ UnitsByOne(d, p, s) \in Nat
         /\ UnitsByOne(n, p, s) \in Nat
         /\ SoldUnits(n, p) = SoldUnits(d, p) - UnitsByOne(d, p, s) + UnitsByOne(n, p, s)
<1>1. UnitsBut(n, p, s) = UnitsBut(d, p, s)
  <2>1. {t \in SaleId : t # s /\ IsSaleOf(n, t, p)} = {t \in SaleId : t # s /\ IsSaleOf(d, t, p)}
    BY DEF IsSaleOf
  <2> QED
    BY <2>1 DEF UnitsBut
<1>2. /\ Cardinality(UnitsBut(d, p, s)) \in Nat
      /\ UnitsByOne(d, p, s) \in Nat
      /\ UnitsByOne(n, p, s) \in Nat
      /\ SoldUnits(d, p) = Cardinality(UnitsBut(d, p, s)) + UnitsByOne(d, p, s)
      /\ SoldUnits(n, p) = Cardinality(UnitsBut(d, p, s)) + UnitsByOne(n, p, s)
  BY <1>1, SoldSplit
<1> QED
  BY <1>2

\* The sales of p and their quantities are the same, so the units are.
LEMMA SoldSame ==
  ASSUME NEW d, NEW n, NEW p \in Product,
         \A t \in SaleId : /\ IsSaleOf(n, t, p) <=> IsSaleOf(d, t, p)
                           /\ IsSaleOf(d, t, p) => n.sales[t].qty = d.sales[t].qty
  PROVE  SoldUnits(n, p) = SoldUnits(d, p)
<1>1. UnitsOf(n, p) = UnitsOf(d, p)
  BY DEF UnitsOf
<1> QED
  BY <1>1 DEF SoldUnits

\* One sale changes, and the stock of its product by as much: no drift moves.
LEMMA DriftByOne ==
  ASSUME NEW d \in Database, NEW n \in Database, NEW s \in SaleId,
         \A t \in SaleId : t # s => n.sales[t] = d.sales[t],
         n.adjustments = d.adjustments,
         NEW q \in Product,
         n.products[q] = Absent <=> d.products[q] = Absent,
         d.products[q] # Absent =>
           /\ n.products[q].initial = d.products[q].initial
           /\ n.products[q].remaining =
                d.products[q].remaining + UnitsByOne(d, q, s) - UnitsByOne(n, q, s)
  PROVE  Drift(n, q) = Drift(d, q)
<1>1. CASE d.products[q] = Absent
  BY <1>1 DEF Drift
<1>2. CASE d.products[q] # Absent
  <2>1. d.products[q].initial \in Int /\ d.products[q].remaining \in Int
    BY <1>2, ProductType
  <2>2. /\ SoldUnits(d, q) \in Int
        /\ UnitsByOne(d, q, s) \in Int
        /\ UnitsByOne(n, q, s) \in Int
        /\ SoldUnits(n, q) = SoldUnits(d, q) - UnitsByOne(d, q, s) + UnitsByOne(n, q, s)
    BY SoldChange
  <2> QED
    BY <1>2, <2>1, <2>2 DEF Drift
<1> QED
  BY <1>1, <1>2

\* A sale moves the stock and the sold units together.
LEMMA SellDrift ==
  ASSUME NEW d, OK(d), NEW c, c.pay \in Payload, c.sale \in SaleId,
         c.key \in Key \cup {NoKey}, c.seller \in Seller,
         d.audit[c.sale] = Absent, SellOutcome(d, c) = "ok", NEW q \in Product
  PROVE  Drift(Sell(d, c), q) = Drift(d, q)
<1> DEFINE p == c.pay.product
           s == c.sale
           n == Sell(d, c)
<1>0. d \in Database /\ d.sales[s] = Absent /\ c.pay.qty \in Qty /\ c.pay.qty \in Nat
  BY NumberTypes DEF OK, AuditTells, Payload
<1>1. /\ p \in Product
      /\ d.products[p] # Absent
      /\ n \in Database
      /\ n.products = [d.products EXCEPT ![p].remaining = @ - c.pay.qty]
      /\ n.sales = [d.sales EXCEPT ![s] = [product |-> p, qty |-> c.pay.qty,
                                          price |-> c.pay.price, lastKnown |-> Absent]]
      /\ n.adjustments = d.adjustments
  BY <1>0, SellFields
<1>2. /\ \A t \in SaleId : t # s => n.sales[t] = d.sales[t]
      /\ n.sales[s] \in SaleDoc
      /\ n.sales[s].product = p
      /\ n.sales[s].qty = c.pay.qty
  BY <1>0, <1>1, Collections DEF SaleDoc, Payload
<1>3. /\ UnitsByOne(d, q, s) = 0
      /\ UnitsByOne(n, q, s) = IF q = p THEN c.pay.qty ELSE 0
  BY <1>0, <1>2, NotAbsent DEF UnitsByOne, IsSaleOf
<1>6. /\ \A t \in SaleId : t # s => n.sales[t] = d.sales[t]
      /\ n \in Database
      /\ n.adjustments = d.adjustments
  BY <1>1, <1>2
<1>4. CASE q = p
  <2>1. d.products[p] \in ProductDoc /\ d.products[p].remaining \in Int
    BY <1>0, <1>1, ProductType
  <2>2. n.products[p] = [d.products[p] EXCEPT !.remaining = @ - c.pay.qty]
    BY <1>0, <1>1, Collections
  <2>3. /\ n.products[p] \in ProductDoc
        /\ n.products[p].initial = d.products[p].initial
        /\ n.products[p].remaining = d.products[p].remaining - c.pay.qty
    BY <1>0, <2>1, <2>2 DEF ProductDoc
  <2>4. n.products[p].remaining =
          d.products[p].remaining + UnitsByOne(d, q, s) - UnitsByOne(n, q, s)
    BY <1>0, <1>3, <1>4, <2>1, <2>3
  <2>5. n.products[p] # Absent
    BY <2>3, NotAbsent
  <2>6. n.products[q] = Absent <=> d.products[q] = Absent
    BY <1>1, <1>4, <2>5
  <2>7. n.products[q].initial = d.products[q].initial
    BY <1>4, <2>3
  <2>8. n.products[q].remaining =
          d.products[q].remaining + UnitsByOne(d, q, s) - UnitsByOne(n, q, s)
    BY <1>4, <2>4
  <2> QED
    BY <1>0, <1>6, <2>6, <2>7, <2>8, DriftByOne
<1>5. CASE q # p
  <2>1. n.products[q] = d.products[q]
    BY <1>0, <1>1, <1>5, Collections
  <2>2. d.products[q] # Absent => n.products[q].remaining =
          d.products[q].remaining + UnitsByOne(d, q, s) - UnitsByOne(n, q, s)
    BY <1>0, <1>3, <1>5, <2>1, ProductType
  <2>3. n.products[q] = Absent <=> d.products[q] = Absent
    BY <2>1
  <2>4. n.products[q].initial = d.products[q].initial
    BY <2>1
  <2> QED
    BY <1>0, <1>6, <2>2, <2>3, <2>4, DriftByOne
<1> QED
  BY <1>4, <1>5

\* A correction moves the stock and the sold units together.
LEMMA ChangeDrift ==
  ASSUME NEW d, OK(d), NEW u, u.sale \in SaleId, u.number \in 1 .. MaxUpdates,
         u.qty \in Qty \cup {Absent}, u.price \in Price \cup {Absent},
         ChangeOutcome(d, u) = "ok", NEW q \in Product
  PROVE  Drift(Change(d, u), q) = Drift(d, q)
<1> DEFINE sale == d.sales[u.sale]
           p == sale.product
           doc == d.products[p]
           delta == Returned(d, u)
           n == Change(d, u)
           new == [sale EXCEPT !.qty   = Given(u.qty, sale.qty),
                               !.price = Given(u.price, sale.price)]
<1>0. d \in Database /\ AuditTells(d)
  BY DEF OK
<1>1. /\ sale # Absent
      /\ n \in Database
      /\ n.products = IF delta = 0 \/ doc = Absent THEN d.products
                      ELSE [d.products EXCEPT ![p].remaining = @ + delta]
      /\ n.sales = [d.sales EXCEPT ![u.sale] = new]
      /\ n.adjustments = d.adjustments
  BY <1>0, ChangeFields, ZenonT(30)
<1>2. /\ sale \in SaleDoc /\ p \in Product /\ sale.qty \in Nat
      /\ Given(u.qty, sale.qty) \in Qty
      /\ Given(u.price, sale.price) \in Price
      /\ delta = sale.qty - Given(u.qty, sale.qty)
      /\ delta \in Int
  BY <1>0, <1>1, SaleType, CorrectedType, Zenon
<1>3. /\ new \in SaleDoc
      /\ new.product = p
      /\ new.qty = Given(u.qty, sale.qty)
      /\ new.qty \in Nat
  BY <1>2, NumberTypes DEF SaleDoc
<1>4. /\ \A t \in SaleId : t # u.sale => n.sales[t] = d.sales[t]
      /\ n.sales[u.sale] = new
  BY <1>0, <1>1, Collections, ZenonT(30)
<1>5. /\ UnitsByOne(d, q, u.sale) = IF q = p THEN sale.qty ELSE 0
      /\ UnitsByOne(n, q, u.sale) = IF q = p THEN new.qty ELSE 0
  BY <1>1, <1>3, <1>4, NotAbsent, ZenonT(30) DEF UnitsByOne, IsSaleOf
<1>8. /\ \A t \in SaleId : t # u.sale => n.sales[t] = d.sales[t]
      /\ n \in Database
      /\ n.adjustments = d.adjustments
  BY <1>1, <1>4
<1>6. CASE q = p /\ delta # 0 /\ doc # Absent
  <2>1. doc \in ProductDoc /\ doc.remaining \in Int
    BY <1>0, <1>2, <1>6, ProductType
  <2>2. n.products = [d.products EXCEPT ![p] = [doc EXCEPT !.remaining = @ + delta]]
    BY <1>1, <1>6, ZenonT(30)
  <2>3. n.products[p] = [doc EXCEPT !.remaining = @ + delta]
    BY <1>0, <1>2, <2>2, Collections, ZenonT(30)
  <2>4. doc.remaining + delta \in Int
    BY <1>2, <2>1
  <2>5. /\ n.products[p] \in ProductDoc
        /\ n.products[p].initial = doc.initial
        /\ n.products[p].remaining = doc.remaining + delta
    BY <2>1, <2>3, <2>4, Zenon DEF ProductDoc
  <2>6. delta = sale.qty - new.qty
    BY <1>2, <1>3
  <2>7. n.products[p].remaining =
          doc.remaining + UnitsByOne(d, q, u.sale) - UnitsByOne(n, q, u.sale)
    BY <1>2, <1>3, <1>5, <1>6, <2>1, <2>5, <2>6, Zenon
  <2>8. n.products[p] # Absent
    BY <2>5, NotAbsent
  <2>9. n.products[q] = Absent <=> d.products[q] = Absent
    BY <1>6, <2>8
  <2>10. /\ n.products[q].initial = d.products[q].initial
         /\ n.products[q].remaining =
              d.products[q].remaining + UnitsByOne(d, q, u.sale) - UnitsByOne(n, q, u.sale)
    BY <1>6, <2>5, <2>7
  <2> QED
    BY <1>0, <1>8, <2>9, <2>10, DriftByOne
<1>7. CASE q # p \/ delta = 0 \/ doc = Absent
  <2>1. n.products[q] = d.products[q]
    BY <1>0, <1>1, <1>7, Collections, Zenon
  <2>2. d.products[q] # Absent => UnitsByOne(d, q, u.sale) = UnitsByOne(n, q, u.sale)
    BY <1>2, <1>3, <1>5, <1>7
  <2>3. d.products[q] # Absent => n.products[q].remaining =
          d.products[q].remaining + UnitsByOne(d, q, u.sale) - UnitsByOne(n, q, u.sale)
    <3>1. UnitsByOne(d, q, u.sale) \in Int
      BY <1>2, <1>5
    <3> QED
      BY <1>0, <2>1, <2>2, <3>1, ProductType
  <2>4. /\ n.products[q] = Absent <=> d.products[q] = Absent
        /\ n.products[q].initial = d.products[q].initial
    BY <2>1
  <2> QED
    BY <1>0, <1>8, <2>3, <2>4, DriftByOne
<1> QED
  BY <1>6, <1>7

\* A cancellation moves the stock and the sold units together.
LEMMA CancelDrift ==
  ASSUME NEW d, OK(d), NEW s \in SaleId, CancelOutcome(d, s) = "ok", NEW q \in Product
  PROVE  Drift(Cancel(d, s), q) = Drift(d, q)
<1> DEFINE sale == d.sales[s]
           p == sale.product
           doc == d.products[p]
           n == Cancel(d, s)
<1>0. d \in Database /\ AuditTells(d)
  BY DEF OK
<1>1. /\ sale # Absent
      /\ n \in Database
      /\ n.products = IF doc = Absent THEN d.products
                      ELSE [d.products EXCEPT ![p].remaining = @ + sale.qty]
      /\ n.sales = [d.sales EXCEPT ![s] = Absent]
      /\ n.adjustments = d.adjustments
  BY <1>0, CancelFields
<1>2. p \in Product /\ sale.qty \in Nat
  BY <1>0, <1>1, SaleType
<1>3. /\ \A t \in SaleId : t # s => n.sales[t] = d.sales[t]
      /\ n.sales[s] = Absent
  BY <1>0, <1>1, Collections
<1>4. /\ UnitsByOne(d, q, s) = IF q = p THEN sale.qty ELSE 0
      /\ UnitsByOne(n, q, s) = 0
  BY <1>1, <1>3 DEF UnitsByOne, IsSaleOf
<1>7. /\ \A t \in SaleId : t # s => n.sales[t] = d.sales[t]
      /\ n \in Database
      /\ n.adjustments = d.adjustments
  BY <1>1, <1>3
<1>5. CASE q = p /\ doc # Absent
  <2>1. doc \in ProductDoc /\ doc.remaining \in Int
    BY <1>0, <1>2, <1>5, ProductType
  <2>2. n.products = [d.products EXCEPT ![p].remaining = @ + sale.qty]
    BY <1>1, <1>5, Zenon
  <2>3. d.products \in [Product -> ProductDoc \cup {Absent}] /\ sale.qty \in Int
    BY <1>0, <1>2, Collections
  <2>4. /\ n.products[p] \in ProductDoc
        /\ n.products[p].initial = doc.initial
        /\ n.products[p].remaining = doc.remaining + sale.qty
    <3> HIDE DEF n, p, sale
    <3> QED
      BY <1>2, <1>5, <2>2, <2>3, StockWrite
  <2>5. n.products[p].remaining =
          doc.remaining + UnitsByOne(d, q, s) - UnitsByOne(n, q, s)
    BY <1>2, <1>4, <1>5, <2>1, <2>4
  <2>6. n.products[p] # Absent
    BY <2>4, NotAbsent
  <2>7. n.products[q] = Absent <=> d.products[q] = Absent
    BY <1>5, <2>6
  <2>8. /\ n.products[q].initial = d.products[q].initial
        /\ n.products[q].remaining =
             d.products[q].remaining + UnitsByOne(d, q, s) - UnitsByOne(n, q, s)
    BY <1>5, <2>4, <2>5
  <2> QED
    BY <1>0, <1>7, <2>7, <2>8, DriftByOne
<1>6. CASE q # p \/ doc = Absent
  <2>1. n.products[q] = d.products[q]
    BY <1>0, <1>1, <1>6, Collections
  <2>2. d.products[q] # Absent => n.products[q].remaining =
          d.products[q].remaining + UnitsByOne(d, q, s) - UnitsByOne(n, q, s)
    BY <1>0, <1>4, <1>6, <2>1, ProductType
  <2>3. /\ n.products[q] = Absent <=> d.products[q] = Absent
        /\ n.products[q].initial = d.products[q].initial
    BY <2>1
  <2> QED
    BY <1>0, <1>7, <2>2, <2>3, DriftByOne
<1> QED
  BY <1>5, <1>6

\* A purge freezes the gap between the stock and the sales, it does not change it.
LEMMA PurgeDrift ==
  ASSUME NEW d, OK(d), NEW p \in Product, d.products[p] # Absent, NEW q \in Product
  PROVE  Drift(Purge(d, p), q) = Drift(d, q)
<1> DEFINE doc == d.products[p]
           drift == doc.initial - doc.remaining - SoldUnits(d, p)
           n == Purge(d, p)
<1>0. d \in Database
  BY DEF OK
<1>1. /\ drift \in Int
      /\ n \in Database
      /\ n.products = [d.products EXCEPT ![p] = Absent]
      /\ n.sales = [s \in SaleId |->
                      IF IsSaleOf(d, s, p) /\ d.sales[s].lastKnown = Absent
                      THEN [d.sales[s] EXCEPT !.lastKnown = doc.cost]
                      ELSE d.sales[s]]
      /\ n.adjustments = IF drift = 0 THEN d.adjustments
                         ELSE [d.adjustments EXCEPT ![p] =
                                 [units |-> drift, cost |-> doc.cost]]
  BY <1>0, PurgeFields
<1>2. CASE q = p
  <2>1. n.products[p] = Absent /\ d.adjustments[p] = Absent
    BY <1>0, <1>1, Collections DEF OK, HistoryKept
  <2>2. CASE drift = 0
    BY <1>1, <1>2, <2>1, <2>2 DEF Drift
  <2>3. CASE drift # 0
    <3>1. n.adjustments[p] = [units |-> drift, cost |-> doc.cost]
      BY <1>0, <1>1, <2>3, Collections
    <3>2. n.adjustments[p] \in AdjustmentDoc
      BY <1>0, <1>1, <3>1, ProductType DEF AdjustmentDoc
    <3>3. n.adjustments[p] # Absent /\ n.adjustments[p].units = drift
      BY <3>1, <3>2, NotAbsent
    <3> QED
      BY <1>2, <2>1, <3>3 DEF Drift
  <2> QED
    BY <2>2, <2>3
<1>3. CASE q # p
  <2>1. n.products[q] = d.products[q] /\ n.adjustments[q] = d.adjustments[q]
    BY <1>0, <1>1, <1>3, Collections
  <2>2. ASSUME NEW t \in SaleId
        PROVE  /\ IsSaleOf(n, t, q) <=> IsSaleOf(d, t, q)
               /\ IsSaleOf(d, t, q) => n.sales[t].qty = d.sales[t].qty
    <3>1. CASE IsSaleOf(d, t, p) /\ d.sales[t].lastKnown = Absent
      <4>1. d.sales[t] \in SaleDoc
        BY <1>0, <3>1, SaleType DEF IsSaleOf
      <4>2. n.sales[t] = [d.sales[t] EXCEPT !.lastKnown = doc.cost]
        BY <1>1, <3>1
      <4>3. n.sales[t].product = d.sales[t].product
        BY <4>1, <4>2 DEF SaleDoc
      <4> QED
        BY <1>3, <3>1, <4>3 DEF IsSaleOf
    <3>2. CASE ~ (IsSaleOf(d, t, p) /\ d.sales[t].lastKnown = Absent)
      BY <1>1, <3>2 DEF IsSaleOf
    <3> QED
      BY <3>1, <3>2
  <2>3. SoldUnits(n, q) = SoldUnits(d, q)
    BY <2>2, SoldSame
  <2> QED
    BY <2>1, <2>3 DEF Drift
<1> QED
  BY <1>2, <1>3

\* A write of the products that keeps initial - remaining.
LEMMA ProductDrift ==
  ASSUME NEW d, NEW n, n.sales = d.sales, n.adjustments = d.adjustments,
         NEW q \in Product, n.products[q] = Absent <=> d.products[q] = Absent,
         d.products[q] # Absent =>
           n.products[q].initial - n.products[q].remaining
             = d.products[q].initial - d.products[q].remaining
  PROVE  Drift(n, q) = Drift(d, q)
<1>1. SoldUnits(n, q) = SoldUnits(d, q)
  BY SoldSame DEF IsSaleOf
<1> QED
  BY <1>1 DEF Drift

\* Trashing moves neither the stock nor the sales.
LEMMA TrashDrift ==
  ASSUME NEW d, OK(d), NEW p \in Product, d.products[p] # Absent,
         NEW flag \in BOOLEAN, NEW q \in Product
  PROVE  Drift(SetTrashed(d, p, flag), q) = Drift(d, q)
<1> DEFINE n == SetTrashed(d, p, flag)
<1>0. d \in Database
  BY DEF OK
<1>1. /\ n = [d EXCEPT !.products = n.products]
      /\ n.products = [d.products EXCEPT ![p].trashed = flag]
  BY <1>0, ProductFields
<1>2. n.sales = d.sales /\ n.adjustments = d.adjustments
  BY <1>0, <1>1 DEF Database
<1>3. d.products[p] \in ProductDoc
  BY <1>0, ProductType
<1>4. /\ [d.products[p] EXCEPT !.trashed = flag] \in ProductDoc
      /\ [d.products[p] EXCEPT !.trashed = flag].initial = d.products[p].initial
      /\ [d.products[p] EXCEPT !.trashed = flag].remaining = d.products[p].remaining
  BY <1>3 DEF ProductDoc
<1>5. n.products[q] = IF q = p THEN [d.products[p] EXCEPT !.trashed = flag]
                      ELSE d.products[q]
  BY <1>0, <1>1, Collections
<1>6. /\ n.products[q] = Absent <=> d.products[q] = Absent
      /\ n.products[q].initial = d.products[q].initial
      /\ n.products[q].remaining = d.products[q].remaining
  BY <1>4, <1>5, NotAbsent
<1> QED
  BY <1>2, <1>6, ProductDrift

\* A restock raises the initial stock with the remaining one.
LEMMA PatchDrift ==
  ASSUME NEW d, OK(d), NEW p \in Product, d.products[p] # Absent,
         NEW added \in {0, 1}, NEW cost \in Cost \cup {Absent}, NEW q \in Product
  PROVE  Drift(Patch(d, p, added, cost), q) = Drift(d, q)
<1> DEFINE n == Patch(d, p, added, cost)
<1>0. d \in Database
  BY DEF OK
<1>1. /\ n = [d EXCEPT !.products = n.products]
      /\ q # p => n.products[q] = d.products[q]
      /\ n.products[p] # Absent
      /\ n.products[p].initial = d.products[p].initial + added
      /\ n.products[p].remaining = d.products[p].remaining + added
  BY <1>0, ProductFields
<1>2. n.sales = d.sales /\ n.adjustments = d.adjustments
  BY <1>0, <1>1 DEF Database
<1>3. d.products[p].initial \in Int /\ d.products[p].remaining \in Int
  BY <1>0, ProductType
<1>4. n.products[p].initial - n.products[p].remaining
        = d.products[p].initial - d.products[p].remaining
  BY <1>1, <1>3
<1>5. n.products[q] = Absent <=> d.products[q] = Absent
  BY <1>1
<1>6. n.products[q].initial - n.products[q].remaining
        = d.products[q].initial - d.products[q].remaining
  BY <1>1, <1>4
<1> QED
  BY <1>2, <1>5, <1>6, ProductDrift

----------------------------------------------------------------------------
(* One operation, whichever it is *)

\* Some operation leads from database d to n.
Operation(d, n) ==
  \/ \E key \in Key \cup {NoKey}, seller \in Seller, pay \in Payload, s \in SaleId :
       LET c == [key |-> key, seller |-> seller, pay |-> pay, sale |-> s]
       IN  d.audit[s] = Absent /\ SellOutcome(d, c) = "ok" /\ n = Sell(d, c)
  \/ \E s \in SaleId, qty \in Qty \cup {Absent}, price \in Price \cup {Absent},
        k \in 1 .. MaxUpdates :
       LET u == [sale |-> s, qty |-> qty, price |-> price, number |-> k]
       IN  ChangeOutcome(d, u) = "ok" /\ n = Change(d, u)
  \/ \E s \in SaleId : CancelOutcome(d, s) = "ok" /\ n = Cancel(d, s)
  \/ \E p \in Product : d.products[p] # Absent /\ n = Purge(d, p)
  \/ \E p \in Product, flag \in BOOLEAN :
       d.products[p] # Absent /\ n = SetTrashed(d, p, flag)
  \/ \E p \in Product, added \in {0, 1}, cost \in Cost \cup {Absent} :
       d.products[p] # Absent /\ n = Patch(d, p, added, cost)

\* Every operation of the book keeps the documents consistent and every drift.
LEMMA OperationOK ==
  ASSUME NEW d, OK(d), NEW n, Operation(d, n)
  PROVE  OK(n) /\ \A q \in Product : Drift(n, q) = Drift(d, q)
<1>1. CASE \E key \in Key \cup {NoKey}, seller \in Seller, pay \in Payload, s \in SaleId :
             LET c == [key |-> key, seller |-> seller, pay |-> pay, sale |-> s]
             IN  d.audit[s] = Absent /\ SellOutcome(d, c) = "ok" /\ n = Sell(d, c)
  <2> PICK key \in Key \cup {NoKey}, seller \in Seller, pay \in Payload, s \in SaleId :
        LET c == [key |-> key, seller |-> seller, pay |-> pay, sale |-> s]
        IN  d.audit[s] = Absent /\ SellOutcome(d, c) = "ok" /\ n = Sell(d, c)
    BY <1>1
  <2> DEFINE c == [key |-> key, seller |-> seller, pay |-> pay, sale |-> s]
  <2>1. /\ c.pay \in Payload /\ c.sale \in SaleId /\ c.key \in Key \cup {NoKey}
        /\ c.seller \in Seller /\ d.audit[c.sale] = Absent
    OBVIOUS
  <2>2. SellOutcome(d, c) = "ok" /\ n = Sell(d, c)
    OBVIOUS
  <2> HIDE DEF c
  <2> QED
    BY <2>1, <2>2, SellOK, SellDrift
<1>2. CASE \E s \in SaleId, qty \in Qty \cup {Absent}, price \in Price \cup {Absent},
              k \in 1 .. MaxUpdates :
             LET u == [sale |-> s, qty |-> qty, price |-> price, number |-> k]
             IN  ChangeOutcome(d, u) = "ok" /\ n = Change(d, u)
  <2> PICK s \in SaleId, qty \in Qty \cup {Absent}, price \in Price \cup {Absent},
           k \in 1 .. MaxUpdates :
        LET u == [sale |-> s, qty |-> qty, price |-> price, number |-> k]
        IN  ChangeOutcome(d, u) = "ok" /\ n = Change(d, u)
    BY <1>2
  <2> DEFINE u == [sale |-> s, qty |-> qty, price |-> price, number |-> k]
  <2>1. /\ u.sale \in SaleId /\ u.number \in 1 .. MaxUpdates
        /\ u.qty \in Qty \cup {Absent} /\ u.price \in Price \cup {Absent}
    OBVIOUS
  <2>2. ChangeOutcome(d, u) = "ok" /\ n = Change(d, u)
    OBVIOUS
  <2> HIDE DEF u
  <2> QED
    BY <2>1, <2>2, ChangeOK, ChangeDrift
<1>3. CASE \E s \in SaleId : CancelOutcome(d, s) = "ok" /\ n = Cancel(d, s)
  BY <1>3, CancelOK, CancelDrift
<1>4. CASE \E p \in Product : d.products[p] # Absent /\ n = Purge(d, p)
  BY <1>4, PurgeOK, PurgeDrift
<1>5. CASE \E p \in Product, flag \in BOOLEAN :
             d.products[p] # Absent /\ n = SetTrashed(d, p, flag)
  BY <1>5, TrashOK, TrashDrift
<1>6. CASE \E p \in Product, added \in {0, 1}, cost \in Cost \cup {Absent} :
             d.products[p] # Absent /\ n = Patch(d, p, added, cost)
  BY <1>6, PatchOK, PatchDrift
<1> QED
  BY <1>1, <1>2, <1>3, <1>4, <1>5, <1>6 DEF Operation

\* A catalogue without sales is consistent.
LEMMA StartOK ==
  ASSUME NEW drift \in {0, 1}, NEW cost \in Cost
  PROVE  OK([products    |-> [p \in Product |-> [trashed   |-> FALSE,
                                                 initial   |-> InitialQty,
                                                 remaining |-> InitialQty - drift,
                                                 cost      |-> cost]],
             sales       |-> [s \in SaleId |-> Absent],
             ops         |-> [k \in Key |-> Absent],
             adjustments |-> [p \in Product |-> Absent],
             audit       |-> [s \in SaleId |-> Absent],
             jobs        |-> {}])
<1> DEFINE doc == [trashed |-> FALSE, initial |-> InitialQty,
                   remaining |-> InitialQty - drift, cost |-> cost]
           d == [products    |-> [p \in Product |-> doc],
                 sales       |-> [s \in SaleId |-> Absent],
                 ops         |-> [k \in Key |-> Absent],
                 adjustments |-> [p \in Product |-> Absent],
                 audit       |-> [s \in SaleId |-> Absent],
                 jobs        |-> {}]
<1>1. doc \in ProductDoc /\ doc.remaining >= 0
  BY NumberTypes DEF ProductDoc
<1>2. d \in Database
  BY <1>1 DEF Database
<1>3. StockCovered(d)
  BY <1>1 DEF StockCovered
<1>4. HistoryKept(d)
  BY DEF HistoryKept
<1>5. AuditTells(d)
  BY DEF AuditTells
<1>6. KeysTell(d)
  BY DEF KeysTell
<1> QED
  BY <1>2, <1>3, <1>4, <1>5, <1>6 DEF OK

----------------------------------------------------------------------------
(* Sums *)

\* The member that a fold takes first.
Some(S) == CHOOSE x \in S : TRUE

\* g adds up f over each set of arguments, one member after the other.
AddsUp(f, g) ==
  g = [T \in SUBSET DOMAIN f |-> IF T = {} THEN 0 ELSE f[Some(T)] + g[T \ {Some(T)}]]

\* SumFunction is the recursive function of its definition, at the whole domain.
LEMMA SumUnfolds ==
  ASSUME NEW f
  PROVE  SumFunction(f) = (CHOOSE g : AddsUp(f, g))[DOMAIN f]
BY DEF SumFunction, SumFunctionOnSet, FoldFunctionOnSet, MapThenFoldSet, Some, AddsUp

\* The least-number principle, for a set.
LEMMA LeastOf ==
  ASSUME NEW S, S \subseteq Nat, S # {}
  PROVE  \E m \in S : \A y \in S : m <= y
<1> DEFINE less == {ss \in Nat \X Nat : ss[1] < ss[2]}
<1>1. IsWellFoundedOn(less, Nat)
  BY NatLessThanWellFounded DEF OpToRel
<1>2. PICK x \in S : \A y \in S : ~ (<<y, x>> \in less)
  BY <1>1, WFMin
<1>3. ASSUME NEW y \in S
      PROVE  x <= y
  <2>1. y < x => <<y, x>> \in less
    OBVIOUS
  <2> QED
    BY <1>2, <2>1
<1> QED
  BY <1>3

\* Among subsets of a finite set, one contains none of the others but a member.
LEMMA SmallestSet ==
  ASSUME NEW S, IsFiniteSet(S), NEW B, B \subseteq SUBSET S, B # {}
  PROVE  \E T \in B : \A x \in T : T \ {x} \notin B
<1> DEFINE sizes == {Cardinality(T) : T \in B}
<1>1. \A T \in B : IsFiniteSet(T) /\ Cardinality(T) \in Nat
  BY FS_Subset, FS_CardinalityType
<1>2. PICK m \in sizes : \A n \in sizes : m <= n
  <2>1. sizes \subseteq Nat /\ sizes # {}
    BY <1>1
  <2> HIDE DEF sizes
  <2> QED
    BY <2>1, LeastOf
<1>3. PICK T \in B : m = Cardinality(T)
  OBVIOUS
<1>4. ASSUME NEW x \in T, T \ {x} \in B
      PROVE  FALSE
  <2>1. Cardinality(T \ {x}) = Cardinality(T) - 1
    BY <1>1, FS_RemoveElement
  <2> QED
    BY <1>1, <1>2, <1>3, <1>4, <2>1
<1> QED
  BY <1>4

\* Such a recursion has a solution, found one size after the other.
LEMMA SumExists ==
  ASSUME NEW S, IsFiniteSet(S), NEW f \in [S -> Int]
  PROVE  \E g : AddsUp(f, g)
<1> DEFINE Upto(n) == {T \in SUBSET S : Cardinality(T) <= n}
           Ext(g, T) == IF T = {} THEN 0 ELSE f[Some(T)] + g[T \ {Some(T)}]
           Partial(n, g) == \A T \in Upto(n) : g[T] = Ext(g, T)
           Bad == {n \in Nat : ~ \E g : Partial(n, g)}
<1>1. \A T \in SUBSET S : IsFiniteSet(T) /\ Cardinality(T) \in Nat
  BY FS_Subset, FS_CardinalityType
<1>2. \A T \in SUBSET S : T # {} => Cardinality(T \ {Some(T)}) = Cardinality(T) - 1
  BY <1>1, FS_RemoveElement DEF Some
<1>3. ASSUME Bad # {}
      PROVE  FALSE
  <2>1. PICK m \in Bad : \A n \in Bad : m <= n
    <3> HIDE DEF Bad
    <3>1. Bad \subseteq Nat
      BY DEF Bad
    <3> QED
      BY <1>3, <3>1, LeastOf
  <2>2. m \in Nat /\ ~ \E g : Partial(m, g)
    BY <2>1
  <2>3. m # 0
    <3>1. ASSUME m = 0
          PROVE  FALSE
      <4>1. \A T \in Upto(m) : T = {}
        BY <1>1, <3>1, FS_EmptySet
      <4>2. Partial(m, [T \in SUBSET S |-> 0])
        BY <4>1
      <4> QED
        BY <2>2, <4>2
    <3> QED
      BY <3>1
  <2>4. m - 1 \in Nat /\ ~ (m <= m - 1)
    BY <2>2, <2>3
  <2>5. PICK g : Partial(m - 1, g)
    BY <2>1, <2>4
  <2> DEFINE h == [T \in SUBSET S |-> IF Cardinality(T) <= m - 1 THEN g[T] ELSE Ext(g, T)]
  <2>6. ASSUME NEW T \in Upto(m)
        PROVE  h[T] = Ext(h, T)
    <3>1. h[T] = Ext(g, T)
      BY <2>5
    <3>2. CASE T = {}
      BY <3>1, <3>2
    <3>3. CASE T # {}
      <4>1. Cardinality(T \ {Some(T)}) <= m - 1 /\ T \ {Some(T)} \in SUBSET S
        BY <1>1, <1>2, <2>2, <3>3
      <4>2. h[T \ {Some(T)}] = g[T \ {Some(T)}]
        BY <4>1
      <4> QED
        BY <3>1, <3>3, <4>2
    <3> QED
      BY <3>2, <3>3
  <2>7. Partial(m, h)
    BY <2>6
  <2> QED
    BY <2>2, <2>7
<1>4. PICK g : Partial(Cardinality(S), g)
  <2>1. Cardinality(S) \in Nat
    BY FS_CardinalityType
  <2> QED
    BY <1>3, <2>1
<1>5. \A T \in SUBSET S : g[T] = Ext(g, T)
  <2>1. \A T \in SUBSET S : Cardinality(T) <= Cardinality(S)
    BY FS_Subset
  <2> QED
    BY <1>4, <2>1
<1> DEFINE G == [T \in SUBSET S |-> g[T]]
<1>6. \A T \in SUBSET S : G[T] = Ext(G, T)
  <2> SUFFICES ASSUME NEW T \in SUBSET S
               PROVE  G[T] = Ext(G, T)
    OBVIOUS
  <2>1. T \ {Some(T)} \in SUBSET S
    OBVIOUS
  <2> QED
    BY <1>5, <2>1
<1>7. AddsUp(f, G)
  BY <1>6, Zenon DEF AddsUp
<1> QED
  BY <1>7

\* g has the sum of f over each subset of S, and SumFunction(f) over S.
Totals(S, f, g) ==
  /\ SumFunction(f) = g[S]
  /\ g[{}] = 0
  /\ \A T \in SUBSET S : T # {} => g[T] = f[Some(T)] + g[T \ {Some(T)}]

\* What the sum is: the value at the whole domain of a function that adds up.
LEMMA SumRecursion ==
  ASSUME NEW S, IsFiniteSet(S), NEW f \in [S -> Int]
  PROVE  \E g \in [SUBSET S -> Int] : Totals(S, f, g)
<1>1. PICK g : AddsUp(f, g) /\ SumFunction(f) = g[DOMAIN f]
  BY SumExists, SumUnfolds
<1>2. /\ g[{}] = 0
      /\ \A T \in SUBSET S : T # {} => g[T] = f[Some(T)] + g[T \ {Some(T)}]
  BY <1>1 DEF AddsUp
<1>3. \A T \in SUBSET S : T # {} => Some(T) \in T
  BY DEF Some
<1>4. \A T \in SUBSET S : g[T] \in Int
  <2> DEFINE Bad == {T \in SUBSET S : g[T] \notin Int}
  <2>1. ASSUME NEW T \in Bad
        PROVE  \E x \in T : T \ {x} \in Bad
    <3>1. T \in SUBSET S /\ g[T] \notin Int
      OBVIOUS
    <3>2. T # {}
      <4>1. T = {} => g[T] = 0
        BY <1>2, Zenon
      <4> QED
        BY <3>1, <4>1
    <3>3. Some(T) \in T /\ f[Some(T)] \in Int
      BY <1>3, <3>1, <3>2
    <3>4. g[T \ {Some(T)}] \notin Int
      <4>1. g[T] = f[Some(T)] + g[T \ {Some(T)}]
        BY <1>2, <3>1, <3>2, Zenon
      <4> HIDE DEF Bad
      <4> QED
        BY <3>1, <3>3, <4>1
    <3> QED
      BY <3>1, <3>3, <3>4
  <2>2. Bad = {}
    <3>1. Bad \subseteq SUBSET S
      OBVIOUS
    <3> HIDE DEF Bad
    <3> QED
      BY <2>1, <3>1, SmallestSet
  <2> QED
    BY <2>2
<1>5. g \in [SUBSET S -> Int]
  <2>1. g = [T \in SUBSET S |-> g[T]]
    BY <1>1, Zenon DEF AddsUp
  <2> QED
    BY <1>4, <2>1
<1> QED
  BY <1>1, <1>2, <1>5, Zenon DEF Totals

\* D has, over each subset of S, what h adds to f.
Between(S, f, h, D) ==
  /\ D[{}] = 0
  /\ \A T \in SUBSET S : \A x \in T : D[T] = D[T \ {x}] + (h[x] - f[x])

\* Two functions and what lies between their sums.
LEMMA SumsDiffer ==
  ASSUME NEW S, IsFiniteSet(S), NEW f \in [S -> Int], NEW h \in [S -> Int],
         NEW D \in [SUBSET S -> Int], Between(S, f, h, D)
  PROVE  SumFunction(h) = SumFunction(f) + D[S]
<1>1. PICK a \in [SUBSET S -> Int] : Totals(S, f, a)
  BY SumRecursion
<1>2. PICK b \in [SUBSET S -> Int] : Totals(S, h, b)
  BY SumRecursion
<1> DEFINE Bad == {T \in SUBSET S : b[T] # a[T] + D[T]}
<1>3. ASSUME NEW T \in Bad
      PROVE  \E x \in T : T \ {x} \in Bad
  <2>1. T \in SUBSET S /\ b[T] # a[T] + D[T]
    OBVIOUS
  <2>2. T # {}
    <3>1. T = {} => a[T] = 0 /\ b[T] = 0 /\ D[T] = 0
      BY <1>1, <1>2, Zenon DEF Totals, Between
    <3> QED
      BY <2>1, <3>1
  <2> DEFINE x == Some(T)
  <2>3. x \in T
    BY <2>2 DEF Some
  <2>4. /\ a[T] = f[x] + a[T \ {x}] /\ b[T] = h[x] + b[T \ {x}]
        /\ D[T] = D[T \ {x}] + (h[x] - f[x])
    BY <1>1, <1>2, <2>1, <2>2, <2>3 DEF Totals, Between
  <2>5. T \ {x} \in SUBSET S /\ x \in S
    BY <2>1, <2>3
  <2>6. /\ a[T \ {x}] \in Int /\ b[T \ {x}] \in Int /\ D[T \ {x}] \in Int
        /\ f[x] \in Int /\ h[x] \in Int
    BY <2>5
  <2> HIDE DEF x
  <2>7. b[T \ {x}] # a[T \ {x}] + D[T \ {x}]
    BY <2>1, <2>4, <2>6
  <2> QED
    BY <2>3, <2>5, <2>7
<1>4. Bad = {}
  <2>1. Bad \subseteq SUBSET S
    OBVIOUS
  <2> HIDE DEF Bad
  <2> QED
    BY <1>3, <2>1, SmallestSet
<1> QED
  BY <1>1, <1>2, <1>4 DEF Totals

\* A sum of integers is one.
LEMMA SumType ==
  ASSUME NEW S, IsFiniteSet(S), NEW f \in [S -> Int]
  PROVE  SumFunction(f) \in Int
<1>1. PICK g \in [SUBSET S -> Int] : Totals(S, f, g)
  BY SumRecursion
<1> QED
  BY <1>1 DEF Totals

----------------------------------------------------------------------------
(* The cost of sales *)

\* The terms of CostOfSales, by name.
LiveCost(d, p) ==
  IF d.products[p] = Absent THEN 0
  ELSE d.products[p].cost * (d.products[p].initial - d.products[p].remaining)

FrozenCost(d, p) ==
  IF d.adjustments[p] = Absent THEN 0 ELSE d.adjustments[p].units * d.adjustments[p].cost

PurgedCost(d, s) ==
  IF d.sales[s] # Absent /\ d.sales[s].lastKnown # Absent
       /\ d.products[d.sales[s].product] = Absent
  THEN d.sales[s].lastKnown * d.sales[s].qty ELSE 0

StockCosts(d) == [p \in Product |-> LiveCost(d, p) + FrozenCost(d, p)]

SaleCosts(d) == [s \in SaleId |-> PurgedCost(d, s)]

\* The two sums of the overview: over the products, and over the sales of purged ones.
LEMMA CostIs ==
  ASSUME NEW d
  PROVE  CostOfSales(d) = SumFunction(StockCosts(d)) + SumFunction(SaleCosts(d))
BY DEF CostOfSales, StockCosts, SaleCosts, LiveCost, FrozenCost, PurgedCost

\* Both add integers.
LEMMA CostTypes ==
  ASSUME NEW d \in Database
  PROVE  StockCosts(d) \in [Product -> Int] /\ SaleCosts(d) \in [SaleId -> Int]
<1>0. \A c \in Cost : c \in Int
  BY NumberTypes
<1>1. ASSUME NEW p \in Product
      PROVE  LiveCost(d, p) \in Int /\ FrozenCost(d, p) \in Int
  <2>1. LiveCost(d, p) \in Int
    <3>1. CASE d.products[p] = Absent
      BY <3>1 DEF LiveCost
    <3>2. CASE d.products[p] # Absent
      <4>1. /\ d.products[p].cost \in Int /\ d.products[p].initial \in Int
            /\ d.products[p].remaining \in Int
        BY <1>0, <3>2, ProductType
      <4> QED
        BY <3>2, <4>1 DEF LiveCost
    <3> QED
      BY <3>1, <3>2
  <2>2. FrozenCost(d, p) \in Int
    <3>1. CASE d.adjustments[p] = Absent
      BY <3>1 DEF FrozenCost
    <3>2. CASE d.adjustments[p] # Absent
      <4>1. d.adjustments[p].units \in Int /\ d.adjustments[p].cost \in Int
        <5>1. d.adjustments[p] \in AdjustmentDoc
          BY <3>2, Collections
        <5> QED
          BY <1>0, <5>1 DEF AdjustmentDoc
      <4> QED
        BY <3>2, <4>1 DEF FrozenCost
    <3> QED
      BY <3>1, <3>2
  <2> QED
    BY <2>1, <2>2
<1>2. ASSUME NEW s \in SaleId
      PROVE  PurgedCost(d, s) \in Int
  <2>1. CASE d.sales[s] # Absent /\ d.sales[s].lastKnown # Absent
    <3>1. d.sales[s].lastKnown \in Int /\ d.sales[s].qty \in Int
      BY <1>0, <2>1, SaleType
    <3> QED
      BY <3>1 DEF PurgedCost
  <2>2. CASE ~ (d.sales[s] # Absent /\ d.sales[s].lastKnown # Absent)
    BY <2>2 DEF PurgedCost
  <2> QED
    BY <2>1, <2>2
<1>3. StockCosts(d) \in [Product -> Int]
  BY <1>1 DEF StockCosts
<1> QED
  BY <1>2, <1>3 DEF SaleCosts

\* The units of product p that the sales of T took.
UnitsIn(d, p, T) ==
  UNION {{s} \X (1 .. d.sales[s].qty) : s \in {t \in T : IsSaleOf(d, t, p)}}

\* The units that the sales of T took are those of one of them and those of the others.
LEMMA UnitsInSplit ==
  ASSUME NEW d \in Database, NEW p \in Product, NEW T \in SUBSET SaleId, NEW s \in T
  PROVE  /\ Cardinality(UnitsIn(d, p, T \ {s})) \in Nat
         /\ UnitsByOne(d, p, s) \in Nat
         /\ Cardinality(UnitsIn(d, p, T))
              = Cardinality(UnitsIn(d, p, T \ {s})) + UnitsByOne(d, p, s)
<1> DEFINE n == [d EXCEPT !.sales = [t \in SaleId |-> IF t \in T THEN d.sales[t] ELSE Absent]]
<1>1. n.sales = [t \in SaleId |-> IF t \in T THEN d.sales[t] ELSE Absent]
  BY DEF Database
<1>2. n \in Database
  <2>1. [t \in SaleId |-> IF t \in T THEN d.sales[t] ELSE Absent]
          \in [SaleId -> SaleDoc \cup {Absent}]
    BY Collections
  <2> QED
    BY <2>1 DEF Database
<1> HIDE DEF n
<1>3. \A t \in SaleId : IsSaleOf(n, t, p) <=> t \in T /\ IsSaleOf(d, t, p)
  BY <1>1 DEF IsSaleOf
<1>4. \A t \in T : n.sales[t] = d.sales[t]
  BY <1>1
<1>5. UnitsOf(n, p) = UnitsIn(d, p, T)
  <2>1. {t \in SaleId : IsSaleOf(n, t, p)} = {t \in T : IsSaleOf(d, t, p)}
    BY <1>3
  <2> QED
    BY <1>4, <2>1 DEF UnitsOf, UnitsIn
<1>6. UnitsBut(n, p, s) = UnitsIn(d, p, T \ {s})
  <2>1. {t \in SaleId : t # s /\ IsSaleOf(n, t, p)} = {t \in T \ {s} : IsSaleOf(d, t, p)}
    BY <1>3
  <2> QED
    BY <1>4, <2>1 DEF UnitsBut, UnitsIn
<1>7. UnitsByOne(n, p, s) = UnitsByOne(d, p, s)
  BY <1>3, <1>4 DEF UnitsByOne
<1> QED
  BY <1>2, <1>5, <1>6, <1>7, SoldSplit DEF SoldUnits

\* Multiplication distributes.
LEMMA Distributes ==
  ASSUME NEW a \in Int, NEW b \in Int, NEW c \in Int
  PROVE  c * (a + b) = c * a + c * b
OBVIOUS

\* What a purge does to the cost of its product, seen from the stock: what the
\* sales of the product cost is no longer there.
LEMMA PurgeStockCost ==
  ASSUME NEW d, OK(d), NEW p \in Product, d.products[p] # Absent
  PROVE  SumFunction(StockCosts(Purge(d, p)))
           = SumFunction(StockCosts(d)) - d.products[p].cost * SoldUnits(d, p)
<1> DEFINE n == Purge(d, p)
           doc == d.products[p]
           K == SoldUnits(d, p)
           c == doc.cost
           stock == doc.initial - doc.remaining
           D == [T \in SUBSET Product |-> IF p \in T THEN - (c * K) ELSE 0]
<1>1. d \in Database /\ d.adjustments[p] = Absent
  BY DEF OK, HistoryKept
<1>2. K \in Int /\ stock \in Int /\ c \in Int
  BY <1>1, UnitsFinite, ProductType, NumberTypes
<1>3. /\ n \in Database
      /\ n.products = [d.products EXCEPT ![p] = Absent]
      /\ n.adjustments = IF stock - K = 0 THEN d.adjustments
                         ELSE [d.adjustments EXCEPT ![p] = [units |-> stock - K, cost |-> c]]
  BY <1>1, PurgeFields
<1>4. d.products \in [Product -> ProductDoc \cup {Absent}]
      /\ d.adjustments \in [Product -> AdjustmentDoc \cup {Absent}]
  BY <1>1, Collections
<1> HIDE DEF n
<1>5. StockCosts(d)[p] = c * stock
  BY <1>1, <1>2 DEF StockCosts, LiveCost, FrozenCost
<1>6. StockCosts(n)[p] = c * stock - c * K
  <2>1. n.products[p] = Absent
    BY <1>3, <1>4
  <2>2. CASE stock - K = 0
    <3>1. StockCosts(n)[p] = 0
      BY <1>1, <1>3, <2>1, <2>2 DEF StockCosts, LiveCost, FrozenCost
    <3>2. stock = K
      BY <1>2, <2>2
    <3> QED
      BY <1>2, <3>1, <3>2
  <2>3. CASE stock - K # 0
    <3>1. n.adjustments[p] = [units |-> stock - K, cost |-> c]
      BY <1>3, <1>4, <2>3
    <3>2. n.adjustments[p] # Absent
      <4>1. doc.cost \in Cost
        BY <1>1, ProductType
      <4>2. n.adjustments[p] \in AdjustmentDoc
        BY <1>2, <3>1, <4>1 DEF AdjustmentDoc
      <4> QED
        BY <4>2, NotAbsent
    <3>3. StockCosts(n)[p] = (stock - K) * c
      BY <1>2, <2>1, <3>1, <3>2 DEF StockCosts, LiveCost, FrozenCost
    <3> QED
      BY <1>2, <3>3
  <2> QED
    BY <2>2, <2>3
<1>7. \A q \in Product : q # p => StockCosts(n)[q] = StockCosts(d)[q]
  <2> SUFFICES ASSUME NEW q \in Product, q # p
               PROVE  StockCosts(n)[q] = StockCosts(d)[q]
    OBVIOUS
  <2>1. n.products[q] = d.products[q] /\ n.adjustments[q] = d.adjustments[q]
    BY <1>3, <1>4
  <2> QED
    BY <2>1 DEF StockCosts, LiveCost, FrozenCost
<1>8. c * K \in Int /\ c * stock \in Int
  BY <1>2
<1>9. D \in [SUBSET Product -> Int] /\ D[{}] = 0
  BY <1>8
<1>10. StockCosts(d) \in [Product -> Int] /\ StockCosts(n) \in [Product -> Int]
  BY <1>1, <1>3, CostTypes
<1>11. ASSUME NEW T \in SUBSET Product, NEW q \in T
       PROVE  D[T] = D[T \ {q}] + (StockCosts(n)[q] - StockCosts(d)[q])
  <2>1. StockCosts(d)[q] \in Int
    BY <1>10
  <2>2. T \ {q} \in SUBSET Product
    OBVIOUS
  <2>3. CASE q = p
    <3>1. D[T] = - (c * K) /\ D[T \ {q}] = 0
      BY <2>2, <2>3
    <3> QED
      BY <1>5, <1>6, <1>8, <2>3, <3>1
  <2>4. CASE q # p
    <3>1. D[T] = D[T \ {q}] /\ D[T] \in Int
      BY <1>8, <2>2, <2>4
    <3> QED
      BY <1>7, <2>1, <2>4, <3>1
  <2> QED
    BY <2>3, <2>4
<1>12. D[Product] = - (c * K)
  OBVIOUS
<1> HIDE DEF D
<1>13. SumFunction(StockCosts(n)) = SumFunction(StockCosts(d)) + D[Product]
  <2>1. Between(Product, StockCosts(d), StockCosts(n), D)
    BY <1>9, <1>11, Zenon DEF Between
  <2> QED
    BY <1>9, <1>10, <2>1, ProductsFinite, SumsDiffer
<1>14. SumFunction(StockCosts(d)) \in Int
  BY <1>10, ProductsFinite, SumType
<1> QED
  BY <1>8, <1>12, <1>13, <1>14 DEF n

\* Seen from the sales: each sale of the product has the last known cost now.
LEMMA PurgeSaleCost ==
  ASSUME NEW d, OK(d), NEW p \in Product, d.products[p] # Absent
  PROVE  SumFunction(SaleCosts(Purge(d, p)))
           = SumFunction(SaleCosts(d)) + d.products[p].cost * SoldUnits(d, p)
<1> DEFINE n == Purge(d, p)
           c == d.products[p].cost
           U(T) == Cardinality(UnitsIn(d, p, T))
           D == [T \in SUBSET SaleId |-> c * U(T)]
<1>1. d \in Database
  BY DEF OK
<1>2. c \in Int /\ c # Absent
  BY <1>1, ProductType, NumberTypes
<1>3. /\ n \in Database
      /\ n.products = [d.products EXCEPT ![p] = Absent]
      /\ n.sales = [s \in SaleId |->
                      IF IsSaleOf(d, s, p) /\ d.sales[s].lastKnown = Absent
                      THEN [d.sales[s] EXCEPT !.lastKnown = c]
                      ELSE d.sales[s]]
  BY <1>1, PurgeFields
<1>4. d.products \in [Product -> ProductDoc \cup {Absent}]
  BY <1>1, Collections
<1> HIDE DEF n
<1>5. \A T \in SUBSET SaleId : U(T) \in Nat
  <2> SUFFICES ASSUME NEW T \in SUBSET SaleId
               PROVE  U(T) \in Nat
    OBVIOUS
  <2>1. UnitsIn(d, p, T) \subseteq UnitsOf(d, p)
    BY DEF UnitsIn, UnitsOf
  <2> QED
    BY <1>1, <2>1, UnitsFinite, FS_Subset, FS_CardinalityType
<1>6. U({}) = 0
  <2>1. UnitsIn(d, p, {}) = {}
    BY DEF UnitsIn
  <2> QED
    BY <2>1, FS_EmptySet
<1>7. U(SaleId) = SoldUnits(d, p)
  BY DEF UnitsIn, UnitsOf, SoldUnits
<1>8. ASSUME NEW T \in SUBSET SaleId, NEW s \in T
      PROVE  UnitsByOne(d, p, s) \in Int /\ U(T) = U(T \ {s}) + UnitsByOne(d, p, s)
  BY <1>1, UnitsInSplit
<1>9. ASSUME NEW s \in SaleId
      PROVE  SaleCosts(n)[s] = SaleCosts(d)[s] + c * UnitsByOne(d, p, s)
  <2>0. /\ SaleCosts(n)[s] = PurgedCost(n, s) /\ SaleCosts(d)[s] = PurgedCost(d, s)
        /\ PurgedCost(d, s) \in Int
    <3>1. SaleCosts(d)[s] \in Int
      BY <1>1, CostTypes
    <3> QED
      BY <3>1 DEF SaleCosts
  <2>1. CASE IsSaleOf(d, s, p)
    <3>1. d.sales[s] # Absent /\ d.sales[s].product = p
      BY <2>1 DEF IsSaleOf
    <3>2. d.sales[s].lastKnown = Absent
      BY <3>1 DEF OK, HistoryKept
    <3>3. d.sales[s] \in SaleDoc /\ d.sales[s].qty \in Int
      BY <1>1, <3>1, SaleType
    <3>4. n.sales[s] = [d.sales[s] EXCEPT !.lastKnown = c]
      BY <1>3, <2>1, <3>2
    <3>5. /\ n.sales[s].lastKnown = c /\ n.sales[s].qty = d.sales[s].qty
          /\ n.sales[s].product = p
      BY <3>1, <3>3, <3>4 DEF SaleDoc
    <3>6. n.sales[s] # Absent
      <4>1. n.sales[s] \in SaleDoc
        <5>1. c \in Cost
          BY <1>1, ProductType
        <5> QED
          BY <3>3, <3>4, <5>1 DEF SaleDoc
      <4> QED
        BY <4>1, NotAbsent
    <3>7. n.products[p] = Absent
      BY <1>3, <1>4
    <3>8. PurgedCost(n, s) = c * d.sales[s].qty
      BY <1>2, <3>5, <3>6, <3>7 DEF PurgedCost
    <3>9. PurgedCost(d, s) = 0
      BY <3>2 DEF PurgedCost
    <3>10. UnitsByOne(d, p, s) = d.sales[s].qty
      BY <2>1 DEF UnitsByOne
    <3> QED
      BY <1>2, <2>0, <3>3, <3>8, <3>9, <3>10
  <2>2. CASE ~ IsSaleOf(d, s, p)
    <3>1. n.sales[s] = d.sales[s]
      BY <1>3, <2>2
    <3>2. d.sales[s] # Absent =>
            d.sales[s].product # p /\ d.sales[s].product \in Product
      BY <1>1, <2>2, SaleType DEF IsSaleOf
    <3>3. d.sales[s] # Absent => n.products[d.sales[s].product] = d.products[d.sales[s].product]
      BY <1>3, <1>4, <3>2
    <3>4. PurgedCost(n, s) = PurgedCost(d, s)
      BY <3>1, <3>3, Zenon DEF PurgedCost
    <3>5. UnitsByOne(d, p, s) = 0
      BY <2>2 DEF UnitsByOne
    <3>6. c * UnitsByOne(d, p, s) = 0
      BY <1>2, <3>5
    <3> QED
      BY <2>0, <3>4, <3>6
  <2> QED
    BY <2>1, <2>2
<1>10. D \in [SUBSET SaleId -> Int] /\ D[{}] = 0
  <2>1. \A T \in SUBSET SaleId : c * U(T) \in Int
    BY <1>2, <1>5
  <2>2. c * 0 = 0
    BY <1>2
  <2> HIDE DEF U
  <2>3. D[{}] = c * U({})
    OBVIOUS
  <2> QED
    BY <1>6, <2>1, <2>2, <2>3
<1>11. SaleCosts(d) \in [SaleId -> Int] /\ SaleCosts(n) \in [SaleId -> Int]
  BY <1>1, <1>3, CostTypes
<1>12. ASSUME NEW T \in SUBSET SaleId, NEW s \in T
       PROVE  D[T] = D[T \ {s}] + (SaleCosts(n)[s] - SaleCosts(d)[s])
  <2>1. /\ U(T) = U(T \ {s}) + UnitsByOne(d, p, s) /\ UnitsByOne(d, p, s) \in Int
        /\ U(T \ {s}) \in Int
    <3>1. T \ {s} \in SUBSET SaleId
      OBVIOUS
    <3> QED
      BY <1>5, <1>8, <3>1
  <2>2. SaleCosts(d)[s] \in Int /\ SaleCosts(n)[s] = SaleCosts(d)[s] + c * UnitsByOne(d, p, s)
    BY <1>9, <1>11
  <2>3. D[T] = c * U(T) /\ D[T \ {s}] = c * U(T \ {s})
    OBVIOUS
  <2> HIDE DEF U, D
  <2>4. c * U(T) = c * U(T \ {s}) + c * UnitsByOne(d, p, s)
    BY <1>2, <2>1, Distributes
  <2>5. c * U(T \ {s}) \in Int /\ c * UnitsByOne(d, p, s) \in Int
    BY <1>2, <2>1
  <2> QED
    BY <2>2, <2>3, <2>4, <2>5
<1>13. D[SaleId] = c * U(SaleId)
  OBVIOUS
<1> HIDE DEF D, U
<1>14. SumFunction(SaleCosts(n)) = SumFunction(SaleCosts(d)) + D[SaleId]
  <2>1. Between(SaleId, SaleCosts(d), SaleCosts(n), D)
    BY <1>10, <1>12, Zenon DEF Between
  <2> QED
    BY <1>10, <1>11, <2>1, SaleIdsFinite, SumsDiffer
<1> QED
  BY <1>7, <1>13, <1>14 DEF n

\* A purge leaves the cost of sales as it was.
LEMMA PurgeCost ==
  ASSUME NEW d, OK(d), NEW p \in Product, d.products[p] # Absent
  PROVE  CostOfSales(Purge(d, p)) = CostOfSales(d)
<1>1. d \in Database
  BY DEF OK
<1>2. /\ SumFunction(StockCosts(d)) \in Int /\ SumFunction(SaleCosts(d)) \in Int
  BY <1>1, CostTypes, ProductsFinite, SaleIdsFinite, SumType
<1>3. d.products[p].cost * SoldUnits(d, p) \in Int
  <2>1. d.products[p].cost \in Int /\ SoldUnits(d, p) \in Int
    BY <1>1, ProductType, NumberTypes, UnitsFinite
  <2> QED
    BY <2>1
<1> QED
  BY <1>2, <1>3, PurgeStockCost, PurgeSaleCost, CostIs

\* A write of the stock leaves its product there.
LEMMA StockStays ==
  ASSUME NEW d \in Database, NEW p \in Product, NEW k \in Int, NEW q \in Product,
         d.products[p] # Absent, d.products[q] # Absent
  PROVE  [d.products EXCEPT ![p].remaining = @ + k][q] # Absent
<1>1. d.products \in [Product -> ProductDoc \cup {Absent}]
  BY Collections
<1>2. d.products[p] \in ProductDoc /\ d.products[p].remaining \in Int
  BY ProductType
<1>3. [d.products[p] EXCEPT !.remaining = @ + k] \in ProductDoc
  BY <1>2 DEF ProductDoc
<1>4. CASE q = p
  BY <1>1, <1>3, <1>4, NotAbsent
<1>5. CASE q # p
  BY <1>1, <1>5
<1> QED
  BY <1>4, <1>5

\* Nothing but its purge removes a product.
LEMMA OnlyPurges ==
  ASSUME NEW d, OK(d), NEW n, Operation(d, n), NEW p \in Product,
         d.products[p] # Absent, n.products[p] = Absent
  PROVE  n = Purge(d, p)
<1>0. d \in Database /\ AuditTells(d) /\ d.products \in [Product -> ProductDoc \cup {Absent}]
  BY Collections DEF OK
<1>1. CASE \E key \in Key \cup {NoKey}, seller \in Seller, pay \in Payload, s \in SaleId :
             LET c == [key |-> key, seller |-> seller, pay |-> pay, sale |-> s]
             IN  d.audit[s] = Absent /\ SellOutcome(d, c) = "ok" /\ n = Sell(d, c)
  <2>1. PICK key \in Key \cup {NoKey}, seller \in Seller, pay \in Payload, s \in SaleId :
               LET c == [key |-> key, seller |-> seller, pay |-> pay, sale |-> s]
               IN  d.audit[s] = Absent /\ SellOutcome(d, c) = "ok" /\ n = Sell(d, c)
    BY <1>1
  <2> DEFINE c == [key |-> key, seller |-> seller, pay |-> pay, sale |-> s]
  <2>2. /\ c.pay = pay /\ c.pay \in Payload /\ c.sale \in SaleId
        /\ c.key \in Key \cup {NoKey} /\ c.seller \in Seller
        /\ SellOutcome(d, c) = "ok" /\ n = Sell(d, c)
    BY <2>1
  <2> HIDE DEF c
  <2>3. /\ pay.product \in Product /\ d.products[pay.product] # Absent
        /\ n.products = [d.products EXCEPT ![pay.product].remaining = @ - pay.qty]
    BY <1>0, <2>2, SellFields
  <2>4. - pay.qty \in Int
    BY NumberTypes DEF Payload
  <2>5. n.products = [d.products EXCEPT ![pay.product].remaining = @ + (- pay.qty)]
    <3>1. d.products[pay.product].remaining \in Int /\ pay.qty \in Int
      BY <1>0, <2>3, ProductType, NumberTypes DEF Payload
    <3>2. d.products[pay.product].remaining - pay.qty = d.products[pay.product].remaining + (- pay.qty)
      BY <3>1
    <3> QED
      BY <2>3, <3>2
  <2> QED
    BY <1>0, <2>3, <2>4, <2>5, StockStays
<1>2. CASE \E s \in SaleId, qty \in Qty \cup {Absent}, price \in Price \cup {Absent},
              k \in 1 .. MaxUpdates :
             LET u == [sale |-> s, qty |-> qty, price |-> price, number |-> k]
             IN  ChangeOutcome(d, u) = "ok" /\ n = Change(d, u)
  <2>1. PICK s \in SaleId, qty \in Qty \cup {Absent}, price \in Price \cup {Absent},
              k \in 1 .. MaxUpdates :
             LET u == [sale |-> s, qty |-> qty, price |-> price, number |-> k]
             IN  ChangeOutcome(d, u) = "ok" /\ n = Change(d, u)
    BY <1>2
  <2> DEFINE u == [sale |-> s, qty |-> qty, price |-> price, number |-> k]
             sale == d.sales[s]
             delta == Returned(d, u)
  <2>2. /\ u.sale = s /\ u.sale \in SaleId /\ u.number \in 1 .. MaxUpdates
        /\ u.qty \in Qty \cup {Absent} /\ u.price \in Price \cup {Absent}
        /\ ChangeOutcome(d, u) = "ok" /\ n = Change(d, u)
    BY <2>1
  <2> HIDE DEF u
  <2>3. sale # Absent
    BY <2>2, Zenon DEF ChangeOutcome
  <2>4. sale.product \in Product /\ delta \in Int
    BY <1>0, <2>2, <2>3, SaleType, CorrectedType
  <2>7. n.products = IF delta = 0 \/ d.products[sale.product] = Absent THEN d.products
                     ELSE [d.products EXCEPT ![sale.product].remaining = @ + delta]
    BY <1>0, <2>2, ChangeFields
  <2> HIDE DEF delta, sale
  <2>5. CASE n.products = d.products
    BY <2>5
  <2>6. CASE /\ d.products[sale.product] # Absent
             /\ n.products = [d.products EXCEPT ![sale.product].remaining = @ + delta]
    BY <1>0, <2>4, <2>6, StockStays, Zenon
  <2> QED
    BY <2>5, <2>6, <2>7, Zenon
<1>3. CASE \E s \in SaleId : CancelOutcome(d, s) = "ok" /\ n = Cancel(d, s)
  <2>1. PICK s \in SaleId : CancelOutcome(d, s) = "ok" /\ n = Cancel(d, s)
    BY <1>3
  <2> DEFINE sale == d.sales[s]
  <2>2. n.products = IF d.products[sale.product] = Absent THEN d.products
                     ELSE [d.products EXCEPT ![sale.product].remaining = @ + sale.qty]
    BY <1>0, <2>1, CancelFields
  <2>6. sale # Absent
    BY <2>1, Zenon DEF CancelOutcome
  <2>3. sale.product \in Product /\ sale.qty \in Int
    BY <1>0, <2>6, SaleType
  <2> HIDE DEF sale
  <2>4. CASE n.products = d.products
    BY <2>4
  <2>5. CASE /\ d.products[sale.product] # Absent
             /\ n.products = [d.products EXCEPT ![sale.product].remaining = @ + sale.qty]
    BY <1>0, <2>3, <2>5, StockStays, Zenon
  <2> QED
    BY <2>2, <2>4, <2>5, Zenon
<1>4. CASE \E q \in Product : d.products[q] # Absent /\ n = Purge(d, q)
  <2>1. PICK q \in Product : d.products[q] # Absent /\ n = Purge(d, q)
    BY <1>4
  <2>2. n.products = [d.products EXCEPT ![q] = Absent]
    BY <1>0, <2>1, PurgeFields
  <2>3. q = p
    BY <1>0, <2>2
  <2> QED
    BY <2>1, <2>3
<1>5. CASE \E q \in Product, flag \in BOOLEAN :
             d.products[q] # Absent /\ n = SetTrashed(d, q, flag)
  <2>1. PICK q \in Product, flag \in BOOLEAN :
               d.products[q] # Absent /\ n = SetTrashed(d, q, flag)
    BY <1>5
  <2>2. n.products = [d.products EXCEPT ![q].trashed = flag]
    BY <1>0, <2>1, ProductFields
  <2>3. [d.products[q] EXCEPT !.trashed = flag] \in ProductDoc
    BY <1>0, <2>1, ProductType DEF ProductDoc
  <2> QED
    BY <1>0, <2>2, <2>3, NotAbsent
<1>6. CASE \E q \in Product, added \in {0, 1}, cost \in Cost \cup {Absent} :
             d.products[q] # Absent /\ n = Patch(d, q, added, cost)
  <2>1. PICK q \in Product, added \in {0, 1}, cost \in Cost \cup {Absent} :
               d.products[q] # Absent /\ n = Patch(d, q, added, cost)
    BY <1>6
  <2>2. n.products[q] # Absent /\ \A x \in Product : x # q => n.products[x] = d.products[x]
    BY <1>0, <2>1, ProductFields
  <2> QED
    BY <2>2
<1> QED
  BY <1>1, <1>2, <1>3, <1>4, <1>5, <1>6 DEF Operation

\* Whatever removes a product leaves the cost of sales as it was.
LEMMA RemovalCost ==
  ASSUME NEW d, OK(d), NEW n, Operation(d, n), NEW p \in Product,
         d.products[p] # Absent, n.products[p] = Absent
  PROVE  CostOfSales(n) = CostOfSales(d)
BY OnlyPurges, PurgeCost

=============================================================================
