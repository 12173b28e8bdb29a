------------------------------ MODULE SalesProofs ------------------------------
(***************************************************************************)
(* The concurrent requests implement the serial book, and its invariants   *)
(* are theirs, for every value of the constants.                           *)
(*                                                                         *)
(* First part: a transaction that commits does, to the current documents,  *)
(* what its operation would have done had it run on them alone.  The       *)
(* reason is a relation between each snapshot and the documents committed  *)
(* since (Evolves): whatever matters to an operation lies in a document it *)
(* writes, and a document both wrote is a conflict.  Second part: the      *)
(* handlers, their inductive invariant and the theorems.  Third part: each *)
(* commit records the alerts of the crossings it makes, because the key of *)
(* its event is used by no other commit.  Fourth part: a handler comes to  *)
(* its end, unless others write.                                           *)
(***************************************************************************)
EXTENDS Sales, SalesDocsProofs

----------------------------------------------------------------------------
(* Commits *)

\* What the commits that wrote docs did to database s, which is now c.
Evolves(s, c, docs) ==
  /\ \A p \in Product : p \notin docs.products =>
       c.products[p] = s.products[p] /\ c.adjustments[p] = s.adjustments[p]
  /\ \A i \in SaleId : i \notin docs.sales =>
       c.sales[i] = s.sales[i] /\ c.audit[i] = s.audit[i]
  /\ \A k \in Key : k \notin docs.ops => c.ops[k] = s.ops[k]
  /\ \A p \in Product : s.products[p] = Absent => c.products[p] = Absent
  /\ \A i \in SaleId : s.audit[i] # Absent => c.audit[i] # Absent
  /\ \A k \in Key : s.ops[k] # Absent => c.ops[k] = s.ops[k]
  /\ s.jobs \subseteq c.jobs
  /\ \A i \in SaleId, p \in Product :
       IsSaleOf(c, i, p) => IsSaleOf(s, i, p) \/ p \in docs.products

Covers(docs, s, c) ==
  /\ \A p \in Product : c.products[p] # s.products[p] => p \in docs.products
  /\ \A i \in SaleId : c.sales[i] # s.sales[i] => i \in docs.sales
  /\ \A k \in Key : c.ops[k] # s.ops[k] => k \in docs.ops

----------------------------------------------------------------------------
(* Snapshots *)

\* A database evolves from itself with nothing written.
LEMMA EvolvesStart ==
  ASSUME NEW d, NEW docs
  PROVE  Evolves(d, d, docs)
BY DEF Evolves

\* What was written since the snapshot accumulates.
LEMMA EvolvesOn ==
  ASSUME NEW s, NEW c, NEW n, NEW old, NEW docs, NEW all,
         Evolves(s, c, old), Evolves(c, n, docs),
         old.products \cup docs.products \subseteq all.products,
         old.sales \cup docs.sales \subseteq all.sales,
         old.ops \cup docs.ops \subseteq all.ops
  PROVE  Evolves(s, n, all)
<1>1. \A p \in Product : p \notin all.products =>
        n.products[p] = s.products[p] /\ n.adjustments[p] = s.adjustments[p]
  BY DEF Evolves
<1>2. \A i \in SaleId : i \notin all.sales =>
        n.sales[i] = s.sales[i] /\ n.audit[i] = s.audit[i]
  BY DEF Evolves
<1>3. \A k \in Key : k \notin all.ops => n.ops[k] = s.ops[k]
  BY DEF Evolves
<1>4. \A p \in Product : s.products[p] = Absent => n.products[p] = Absent
  BY DEF Evolves
<1>5. \A i \in SaleId : s.audit[i] # Absent => n.audit[i] # Absent
  BY DEF Evolves
<1>6. \A k \in Key : s.ops[k] # Absent => n.ops[k] = s.ops[k]
  BY DEF Evolves
<1>7. s.jobs \subseteq n.jobs
  BY DEF Evolves
<1>8. \A i \in SaleId, p \in Product :
        IsSaleOf(n, i, p) => IsSaleOf(s, i, p) \/ p \in all.products
  BY DEF Evolves
<1> QED
  BY <1>1, <1>2, <1>3, <1>4, <1>5, <1>6, <1>7, <1>8 DEF Evolves

\* A sale writes its product, its own document and that of its key.
LEMMA SellWrites ==
  ASSUME NEW d, OK(d), NEW c, c.pay \in Payload, c.sale \in SaleId,
         c.key \in Key \cup {NoKey}, c.seller \in Seller,
         d.audit[c.sale] = Absent, SellOutcome(d, c) = "ok"
  PROVE  LET p == c.pay.product
             n == Sell(d, c)
         IN  /\ n.products[p] # d.products[p]
             /\ n.sales[c.sale] # d.sales[c.sale]
             /\ c.key # NoKey => n.ops[c.key] # d.ops[c.key]
<1> DEFINE n == Sell(d, c)
           p == c.pay.product
           new == [product |-> p, qty |-> c.pay.qty,
                   price |-> c.pay.price, lastKnown |-> Absent]
           op == [seller |-> c.seller, hash |-> c.pay, sale |-> c.sale]
<1>0. d \in Database
  BY DEF OK
<1>1. /\ p \in Product
      /\ d.products[p] # Absent
      /\ c.key # NoKey => d.ops[c.key] = Absent
      /\ n \in Database
      /\ n.products = [d.products EXCEPT ![p].remaining = @ - c.pay.qty]
      /\ n.sales = [d.sales EXCEPT ![c.sale] = new]
      /\ n.ops = IF c.key = NoKey THEN d.ops ELSE [d.ops EXCEPT ![c.key] = op]
  BY <1>0, SellFields, ZenonT(60)
<1>2. /\ c.pay.qty \in Int /\ c.pay.qty > 0
      /\ new \in SaleDoc /\ new # Absent
  BY NumberTypes, NotAbsent, <1>1 DEF Payload, SaleDoc
<1>3. op \in OperationDoc /\ op # Absent
  BY NotAbsent DEF OperationDoc
<1>4. n.products[p] # d.products[p]
  <2>1. d.products[p] \in ProductDoc /\ d.products[p].remaining \in Int
    BY <1>0, <1>1, ProductType
  <2>2. n.products[p].remaining = d.products[p].remaining - c.pay.qty
    BY <1>0, <1>1, <2>1, Collections DEF ProductDoc
  <2> QED
    BY <1>2, <2>1, <2>2
<1>5. n.sales[c.sale] # d.sales[c.sale]
  <2>1. d.sales[c.sale] = Absent
    BY DEF OK, AuditTells
  <2>2. n.sales[c.sale] = new
    BY <1>0, <1>1, Collections
  <2> QED
    BY <1>2, <2>1, <2>2
<1>6. c.key # NoKey => n.ops[c.key] # d.ops[c.key]
  BY <1>0, <1>1, <1>3, Collections
<1> QED
  BY <1>4, <1>5, <1>6

\* Every operation evolves the database, in the documents it writes.
LEMMA SellEvolves ==
  ASSUME NEW d, OK(d), NEW c, c.pay \in Payload, c.sale \in SaleId,
         c.key \in Key \cup {NoKey}, c.seller \in Seller,
         d.audit[c.sale] = Absent, SellOutcome(d, c) = "ok",
         NEW docs, Covers(docs, d, Sell(d, c))
  PROVE  Evolves(d, Sell(d, c), docs)
<1> DEFINE n == Sell(d, c)
           p == c.pay.product
           new == [product |-> p, qty |-> c.pay.qty,
                   price |-> c.pay.price, lastKnown |-> Absent]
<1>0. d \in Database
  BY DEF OK
<1>1. /\ p \in Product
      /\ d.products[p] # Absent
      /\ c.key # NoKey => d.ops[c.key] = Absent
      /\ n \in Database
      /\ n.products = [d.products EXCEPT ![p].remaining = @ - c.pay.qty]
      /\ n.sales = [d.sales EXCEPT ![c.sale] = new]
      /\ n.ops = IF c.key = NoKey THEN d.ops
                 ELSE [d.ops EXCEPT ![c.key] =
                         [seller |-> c.seller, hash |-> c.pay, sale |-> c.sale]]
      /\ n.adjustments = d.adjustments
      /\ n.audit = [d.audit EXCEPT ![c.sale] =
                      [key |-> c.key, qty |-> c.pay.qty, cancelled |-> FALSE]]
      /\ n.jobs = d.jobs \cup StockAlerts(p, d.products[p].initial,
                             d.products[p].remaining,
                             d.products[p].remaining - c.pay.qty, c.sale)
                         \cup {[category |-> "SALE_CREATED", product |-> p,
                                trigger |-> c.sale]}
  BY <1>0, SellFields, ZenonT(60)
<1>2. /\ c.pay.qty \in Int /\ c.pay.qty > 0 /\ c.pay \in Payload
      /\ new \in SaleDoc /\ new # Absent
  BY NumberTypes, NotAbsent, <1>1 DEF Payload, SaleDoc
<1>3. n.products[p] # d.products[p] /\ n.sales[c.sale] # d.sales[c.sale]
  BY SellWrites
<1> HIDE DEF n
<1>5. p \in docs.products /\ c.sale \in docs.sales
  BY <1>1, <1>3 DEF n, Covers
<1>6. \A q \in Product : q \notin docs.products =>
        n.products[q] = d.products[q] /\ n.adjustments[q] = d.adjustments[q]
  BY <1>1 DEF n, Covers
<1>7. \A i \in SaleId : i \notin docs.sales =>
        n.sales[i] = d.sales[i] /\ n.audit[i] = d.audit[i]
  BY <1>0, <1>1, <1>5, Collections
<1>8. \A k \in Key : k \notin docs.ops => n.ops[k] = d.ops[k]
  BY DEF n, Covers
<1>9. \A q \in Product : d.products[q] = Absent => n.products[q] = Absent
  BY <1>0, <1>1, Collections
<1>10. \A i \in SaleId : d.audit[i] # Absent => n.audit[i] # Absent
  BY <1>0, <1>1, Collections
<1>11. \A k \in Key : d.ops[k] # Absent => n.ops[k] = d.ops[k]
  BY <1>0, <1>1, Collections
<1>12. \A i \in SaleId, q \in Product :
         IsSaleOf(n, i, q) => IsSaleOf(d, i, q) \/ q \in docs.products
  <2> SUFFICES ASSUME NEW i \in SaleId, NEW q \in Product, IsSaleOf(n, i, q), q # p
               PROVE  IsSaleOf(d, i, q)
    BY <1>5
  <2>1. n.sales[c.sale] = new
    BY <1>0, <1>1, Collections
  <2>2. i # c.sale
    BY <2>1 DEF IsSaleOf
  <2>3. n.sales[i] = d.sales[i]
    BY <1>0, <1>1, <2>2, Collections
  <2> QED
    BY <2>3 DEF IsSaleOf
<1> QED
  BY <1>1, <1>6, <1>7, <1>8, <1>9, <1>10, <1>11, <1>12 DEF n, Evolves

\* An operation that inserts no sale and no key.
LEMMA EvolvesFrame ==
  ASSUME NEW d, NEW n, NEW docs, Covers(docs, d, n),
         \A p \in Product : n.adjustments[p] # d.adjustments[p] => p \in docs.products,
         \A i \in SaleId : n.audit[i] # d.audit[i] => i \in docs.sales /\ n.audit[i] # Absent,
         \A p \in Product : d.products[p] = Absent => n.products[p] = Absent,
         n.ops = d.ops,
         d.jobs \subseteq n.jobs,
         \A i \in SaleId : n.sales[i] # Absent =>
           d.sales[i] # Absent /\ n.sales[i].product = d.sales[i].product
  PROVE  Evolves(d, n, docs)
BY DEF Evolves, Covers, IsSaleOf

\* A correction evolves the database in the documents it writes.
LEMMA ChangeEvolves ==
  ASSUME NEW d, OK(d), NEW u, u.sale \in SaleId, u.number \in 1 .. MaxUpdates,
         u.qty \in Qty \cup {Absent}, u.price \in Price \cup {Absent},
         ChangeOutcome(d, u) = "ok", NEW docs, Covers(docs, d, Change(d, u))
  PROVE  Evolves(d, Change(d, u), docs)
<1> DEFINE n == Change(d, u)
           sale == d.sales[u.sale]
           qty == Given(u.qty, sale.qty)
           new == [sale EXCEPT !.qty = qty, !.price = Given(u.price, sale.price)]
<1>0. d \in Database /\ AuditTells(d)
  BY DEF OK
<1>1. /\ sale # Absent
      /\ n \in Database
      /\ n.products = IF Returned(d, u) = 0 \/ d.products[sale.product] = Absent
                      THEN d.products
                      ELSE [d.products EXCEPT ![sale.product].remaining = @ + Returned(d, u)]
      /\ n.sales = [d.sales EXCEPT ![u.sale] = new]
      /\ n.ops = d.ops
      /\ n.adjustments = d.adjustments
      /\ n.audit = [d.audit EXCEPT ![u.sale] = [@ EXCEPT !.qty = qty]]
      /\ n.jobs = IF Returned(d, u) = 0 \/ d.products[sale.product] = Absent
                  THEN d.jobs
                  ELSE d.jobs \cup StockAlerts(sale.product,
                                d.products[sale.product].initial,
                                d.products[sale.product].remaining,
                                d.products[sale.product].remaining + Returned(d, u),
                                u.number)
  BY <1>0, ChangeFields, ZenonT(30)
<1>2. sale \in SaleDoc /\ new.product = sale.product /\ new.qty = qty
  <2>1. sale \in SaleDoc
    BY <1>0, <1>1, SaleType, ZenonT(30)
  <2> QED
    BY <2>1 DEF SaleDoc
<1>3. /\ d.audit[u.sale] # Absent /\ d.audit[u.sale] \in AuditDoc
      /\ d.audit[u.sale].qty = sale.qty
  BY <1>0, <1>1, AuditType, ZenonT(30) DEF AuditTells
<1>4. n.sales[u.sale] = new /\ n.audit[u.sale] = [d.audit[u.sale] EXCEPT !.qty = qty]
  BY <1>0, <1>1, Collections, ZenonT(30)
<1>5. \A i \in SaleId : i # u.sale => n.sales[i] = d.sales[i] /\ n.audit[i] = d.audit[i]
  BY <1>0, <1>1, Collections, ZenonT(60)
<1>6. \A p \in Product : d.products[p] = Absent => n.products[p] = Absent
  BY <1>0, <1>1, Collections, ZenonT(30)
<1> HIDE DEF n, new
<1>7. \A i \in SaleId : n.audit[i] # d.audit[i] => i \in docs.sales /\ n.audit[i] # Absent
  <2> SUFFICES ASSUME n.audit[u.sale] # d.audit[u.sale]
               PROVE  u.sale \in docs.sales /\ n.audit[u.sale] # Absent
    BY <1>5
  <2>1. qty # sale.qty
    BY <1>3, <1>4 DEF AuditDoc
  <2>2. n.sales[u.sale] # d.sales[u.sale]
    BY <1>2, <1>4, <2>1
  <2>3. n.audit[u.sale] \in AuditDoc
    <3>1. qty \in Qty
      BY <1>0, <1>1, CorrectedType, ZenonT(30)
    <3> QED
      BY <1>3, <1>4, <3>1 DEF AuditDoc
  <2> QED
    BY <2>2, <2>3, NotAbsent DEF Covers, n
<1>8. \A i \in SaleId : n.sales[i] # Absent =>
        d.sales[i] # Absent /\ n.sales[i].product = d.sales[i].product
  BY <1>1, <1>2, <1>4, <1>5, ZenonT(30)
<1>9. d.jobs \subseteq n.jobs
  BY <1>1, Zenon
<1>10. Covers(docs, d, n)
  BY DEF n
<1> QED
  BY <1>1, <1>6, <1>7, <1>8, <1>9, <1>10, EvolvesFrame, Zenon DEF n

\* A cancellation evolves the database in the documents it writes.
LEMMA CancelEvolves ==
  ASSUME NEW d, OK(d), NEW s \in SaleId, CancelOutcome(d, s) = "ok",
         NEW docs, Covers(docs, d, Cancel(d, s))
  PROVE  Evolves(d, Cancel(d, s), docs)
<1> DEFINE n == Cancel(d, s)
           p == d.sales[s].product
<1>0. d \in Database /\ AuditTells(d)
  BY DEF OK
<1>1. /\ d.sales[s] # Absent
      /\ n \in Database
      /\ n.products = IF d.products[p] = Absent THEN d.products
                      ELSE [d.products EXCEPT ![p].remaining = @ + d.sales[s].qty]
      /\ n.sales = [d.sales EXCEPT ![s] = Absent]
      /\ n.ops = d.ops
      /\ n.adjustments = d.adjustments
      /\ n.audit = [d.audit EXCEPT ![s] = [@ EXCEPT !.cancelled = TRUE]]
      /\ n.jobs = d.jobs
  BY <1>0, CancelFields
<1>2. d.audit[s] # Absent /\ d.audit[s] \in AuditDoc
  BY <1>0, <1>1, AuditType DEF AuditTells
<1>3. n.sales[s] = Absent /\ n.audit[s] = [d.audit[s] EXCEPT !.cancelled = TRUE]
  BY <1>0, <1>1, Collections
<1>4. \A i \in SaleId : i # s => n.sales[i] = d.sales[i] /\ n.audit[i] = d.audit[i]
  BY <1>0, <1>1, Collections
<1>5. n.audit[s] # Absent
  <2>1. n.audit[s] \in AuditDoc
    BY <1>2, <1>3 DEF AuditDoc
  <2> QED
    BY <2>1, NotAbsent
<1>6. \A q \in Product : d.products[q] = Absent => n.products[q] = Absent
  BY <1>0, <1>1, Collections
<1> HIDE DEF n
<1>7. \A i \in SaleId : n.audit[i] # d.audit[i] => i \in docs.sales /\ n.audit[i] # Absent
  BY <1>1, <1>3, <1>4, <1>5 DEF Covers, n
<1>8. \A i \in SaleId : n.sales[i] # Absent =>
        d.sales[i] # Absent /\ n.sales[i].product = d.sales[i].product
  BY <1>3, <1>4
<1>9. Covers(docs, d, n)
  BY DEF n
<1> QED
  BY <1>1, <1>6, <1>7, <1>8, <1>9, EvolvesFrame DEF n

\* A purge evolves the database in the documents it writes, the sales included.
LEMMA PurgeEvolves ==
  ASSUME NEW d, OK(d), NEW p \in Product, d.products[p] # Absent,
         NEW docs, Covers(docs, d, Purge(d, p))
  PROVE  Evolves(d, Purge(d, p), docs)
<1> DEFINE n == Purge(d, p)
           doc == d.products[p]
           drift == doc.initial - doc.remaining - SoldUnits(d, p)
<1>0. d \in Database
  BY DEF OK
<1>1. /\ n \in Database
      /\ n.products = [d.products EXCEPT ![p] = Absent]
      /\ n.sales = [s \in SaleId |->
                      IF IsSaleOf(d, s, p) /\ d.sales[s].lastKnown = Absent
                      THEN [d.sales[s] EXCEPT !.lastKnown = doc.cost]
                      ELSE d.sales[s]]
      /\ n.ops = d.ops
      /\ n.adjustments = IF drift = 0 THEN d.adjustments
                         ELSE [d.adjustments EXCEPT ![p] =
                                 [units |-> drift, cost |-> doc.cost]]
      /\ n.audit = d.audit
      /\ n.jobs = d.jobs
  BY <1>0, PurgeFields
<1>2. n.products[p] = Absent
  BY <1>0, <1>1, Collections
<1>3. \A q \in Product : q # p => n.adjustments[q] = d.adjustments[q]
  BY <1>0, <1>1, Collections
<1>4. \A q \in Product : d.products[q] = Absent => n.products[q] = Absent
  BY <1>0, <1>1, Collections
<1>5. \A i \in SaleId : n.sales[i] # Absent =>
        d.sales[i] # Absent /\ n.sales[i].product = d.sales[i].product
  <2> SUFFICES ASSUME NEW i \in SaleId, n.sales[i] # Absent
               PROVE  d.sales[i] # Absent /\ n.sales[i].product = d.sales[i].product
    OBVIOUS
  <2>1. CASE IsSaleOf(d, i, p) /\ d.sales[i].lastKnown = Absent
    <3>1. d.sales[i] # Absent /\ d.sales[i] \in SaleDoc
      BY <1>0, <2>1, SaleType DEF IsSaleOf
    <3>2. n.sales[i] = [d.sales[i] EXCEPT !.lastKnown = doc.cost]
      BY <1>1, <2>1
    <3> QED
      BY <3>1, <3>2 DEF SaleDoc
  <2>2. CASE ~ (IsSaleOf(d, i, p) /\ d.sales[i].lastKnown = Absent)
    BY <1>1, <2>2
  <2> QED
    BY <2>1, <2>2
<1> HIDE DEF n
<1>6. Covers(docs, d, n)
  BY DEF n
<1>7. p \in docs.products
  BY <1>2, <1>6 DEF Covers
<1> QED
  BY <1>1, <1>3, <1>4, <1>5, <1>6, <1>7, EvolvesFrame DEF n

\* So does a step that writes product documents only.
LEMMA ProductEvolves ==
  ASSUME NEW d, NEW n, n = [d EXCEPT !.products = n.products], d \in Database,
         NEW docs, Covers(docs, d, n),
         \A q \in Product : d.products[q] = Absent => n.products[q] = Absent
  PROVE  Evolves(d, n, docs)
<1>1. /\ n.sales = d.sales /\ n.ops = d.ops /\ n.adjustments = d.adjustments
      /\ n.audit = d.audit /\ n.jobs = d.jobs
  BY DEF Database
<1> QED
  BY <1>1, EvolvesFrame

----------------------------------------------------------------------------
(* Commits: what a transaction computed on its snapshot s, put over the      *)
(* current documents c, is its operation on c                                *)

\* Document by document, m is what a transaction did from s to n, put over c.
Merged(c, s, n, m) ==
  /\ \A p \in Product :
       m.products[p] = IF n.products[p] # s.products[p] THEN n.products[p]
                       ELSE c.products[p]
  /\ \A i \in SaleId :
       m.sales[i] = IF n.sales[i] # s.sales[i] THEN n.sales[i] ELSE c.sales[i]
  /\ \A k \in Key :
       m.ops[k] = IF n.ops[k] # s.ops[k] THEN n.ops[k] ELSE c.ops[k]
  /\ \A p \in Product :
       m.adjustments[p] = IF n.adjustments[p] # s.adjustments[p] THEN n.adjustments[p]
                          ELSE c.adjustments[p]
  /\ \A i \in SaleId : m.audit[i] = MergeTrail(c.audit[i], s.audit[i], n.audit[i])
  /\ m.jobs = c.jobs \cup (n.jobs \ s.jobs)

\* A merge is the database whose every document is the one Merged describes.
LEMMA MergeIs ==
  ASSUME NEW c \in Database, NEW s \in Database, NEW n \in Database, NEW m \in Database,
         Merged(c, s, n, m)
  PROVE  Merge(c, s, n) = m
<1> DEFINE M == Merge(c, s, n)
<1>1. M.products = m.products
  BY Collections, DOMAIN c.products = Product DEF Merge, Merged, Newer
<1>2. M.sales = m.sales
  BY Collections, DOMAIN c.sales = SaleId DEF Merge, Merged, Newer
<1>3. M.ops = m.ops
  BY Collections, DOMAIN c.ops = Key DEF Merge, Merged, Newer
<1>4. M.adjustments = m.adjustments
  BY Collections, DOMAIN c.adjustments = Product DEF Merge, Merged, Newer
<1>5. M.audit = m.audit
  BY Collections DEF Merge, Merged
<1>6. M.jobs = m.jobs
  BY DEF Merge, Merged
<1>7. M = [products |-> M.products, sales |-> M.sales, ops |-> M.ops,
           adjustments |-> M.adjustments, audit |-> M.audit, jobs |-> M.jobs]
  BY DEF Merge
<1>8. m = [products |-> m.products, sales |-> m.sales, ops |-> m.ops,
           adjustments |-> m.adjustments, audit |-> m.audit, jobs |-> m.jobs]
  BY DEF Database
<1> HIDE DEF M
<1>9. M = m
  BY <1>1, <1>2, <1>3, <1>4, <1>5, <1>6, <1>7, <1>8
<1> QED
  BY <1>9 DEF M

\* A sale whose transaction meets no conflict is accepted by the current
\* documents too, and writes to them what it would have written running alone.
LEMMA MergeSell ==
  ASSUME NEW s, OK(s), NEW c, OK(c), NEW docs, Evolves(s, c, docs),
         NEW u, u.pay \in Payload, u.sale \in SaleId,
         u.key \in Key \cup {NoKey}, u.seller \in Seller,
         c.audit[u.sale] = Absent, SellOutcome(s, u) = "ok",
         Disjoint(Written(s, Sell(s, u)), docs)
  PROVE  SellOutcome(c, u) = "ok" /\ Merge(c, s, Sell(s, u)) = Sell(c, u)
<1> DEFINE n == Sell(s, u)
           m == Sell(c, u)
           p == u.pay.product
           new == [product |-> p, qty |-> u.pay.qty,
                   price |-> u.pay.price, lastKnown |-> Absent]
           op == [seller |-> u.seller, hash |-> u.pay, sale |-> u.sale]
           trail == [key |-> u.key, qty |-> u.pay.qty, cancelled |-> FALSE]
           alerts == StockAlerts(p, s.products[p].initial, s.products[p].remaining,
                                 s.products[p].remaining - u.pay.qty, u.sale)
           told == {[category |-> "SALE_CREATED", product |-> p, trigger |-> u.sale]}
<1>0. s \in Database /\ c \in Database
  BY DEF OK
<1>1. s.audit[u.sale] = Absent
  BY DEF Evolves
<1>2. /\ p \in Product
      /\ s.products[p] # Absent
      /\ ~ s.products[p].trashed
      /\ s.products[p].remaining >= u.pay.qty
      /\ u.key # NoKey => s.ops[u.key] = Absent
      /\ n \in Database
      /\ n.products = [s.products EXCEPT ![p].remaining = @ - u.pay.qty]
      /\ n.sales = [s.sales EXCEPT ![u.sale] = new]
      /\ n.ops = IF u.key = NoKey THEN s.ops ELSE [s.ops EXCEPT ![u.key] = op]
      /\ n.adjustments = s.adjustments
      /\ n.audit = [s.audit EXCEPT ![u.sale] = trail]
      /\ n.jobs = s.jobs \cup alerts \cup told
  BY <1>0, SellFields
<1>3. /\ n.products[p] # s.products[p]
      /\ n.sales[u.sale] # s.sales[u.sale]
      /\ u.key # NoKey => n.ops[u.key] # s.ops[u.key]
  BY <1>1, SellWrites
<1>4. /\ c.products[p] = s.products[p]
      /\ c.sales[u.sale] = s.sales[u.sale]
      /\ u.key # NoKey => c.ops[u.key] = s.ops[u.key]
  BY <1>2, <1>3 DEF Disjoint, Written, Evolves
<1>5. SellOutcome(c, u) = "ok"
  <2>1. /\ c.products[p] # Absent
        /\ ~ c.products[p].trashed
        /\ s.products[p].remaining >= u.pay.qty
        /\ c.products[p] = s.products[p]
        /\ ~ (u.key # NoKey /\ c.ops[u.key] # Absent)
    BY <1>2, <1>4, Zenon
  <2>2. s.products[p].remaining \in Int /\ u.pay.qty \in Int
    BY <1>0, <1>2, ProductType, NumberTypes DEF Payload
  <2>3. ~ (c.products[p].remaining < u.pay.qty)
    BY <2>1, <2>2
  <2> QED
    BY <2>1, <2>3, Zenon DEF SellOutcome
<1>6. /\ m \in Database
      /\ m.products = [c.products EXCEPT ![p].remaining = @ - u.pay.qty]
      /\ m.sales = [c.sales EXCEPT ![u.sale] = new]
      /\ m.ops = IF u.key = NoKey THEN c.ops ELSE [c.ops EXCEPT ![u.key] = op]
      /\ m.adjustments = c.adjustments
      /\ m.audit = [c.audit EXCEPT ![u.sale] = trail]
      /\ m.jobs = c.jobs \cup StockAlerts(p, c.products[p].initial,
                                c.products[p].remaining,
                                c.products[p].remaining - u.pay.qty, u.sale) \cup told
  BY <1>0, <1>5, SellFields, ZenonT(60)
<1> HIDE DEF n, m, new, op, trail, alerts, told
<1>7. \A q \in Product :
        m.products[q] = IF n.products[q] # s.products[q] THEN n.products[q]
                        ELSE c.products[q]
  <2>0. /\ s.products \in [Product -> ProductDoc \cup {Absent}]
        /\ c.products \in [Product -> ProductDoc \cup {Absent}]
    BY <1>0, Collections
  <2>4. /\ p \in Product
        /\ n.products = [s.products EXCEPT ![p].remaining = @ - u.pay.qty]
        /\ m.products = [c.products EXCEPT ![p].remaining = @ - u.pay.qty]
        /\ c.products[p] = s.products[p]
        /\ n.products[p] # s.products[p]
    BY <1>2, <1>3, <1>4, <1>6, Zenon
  <2> HIDE DEF p
  <2>1. m.products[p] = n.products[p]
    BY <2>0, <2>4
  <2>2. \A q \in Product : q # p => n.products[q] = s.products[q]
    BY <2>0, <2>4
  <2>3. \A q \in Product : q # p => m.products[q] = c.products[q]
    BY <2>0, <2>4
  <2> QED
    BY <2>1, <2>2, <2>3, <2>4
<1>8. \A i \in SaleId :
        m.sales[i] = IF n.sales[i] # s.sales[i] THEN n.sales[i] ELSE c.sales[i]
  <2>1. /\ s.sales \in [SaleId -> SaleDoc \cup {Absent}]
        /\ c.sales \in [SaleId -> SaleDoc \cup {Absent}]
    BY <1>0, Collections
  <2>2. /\ n.sales = [s.sales EXCEPT ![u.sale] = new]
        /\ m.sales = [c.sales EXCEPT ![u.sale] = new]
        /\ n.sales[u.sale] # s.sales[u.sale]
    BY <1>2, <1>3, <1>6, Zenon
  <2> QED
    BY <2>1, <2>2
<1>9. \A k \in Key :
        m.ops[k] = IF n.ops[k] # s.ops[k] THEN n.ops[k] ELSE c.ops[k]
  <2>1. /\ s.ops \in [Key -> OperationDoc \cup {Absent}]
        /\ c.ops \in [Key -> OperationDoc \cup {Absent}]
    BY <1>0, Collections
  <2>2. CASE u.key = NoKey
    <3>1. n.ops = s.ops /\ m.ops = c.ops
      BY <1>2, <1>6, <2>2, Zenon
    <3> QED
      BY <3>1
  <2>3. CASE u.key # NoKey
    <3>1. /\ n.ops = [s.ops EXCEPT ![u.key] = op]
          /\ m.ops = [c.ops EXCEPT ![u.key] = op]
          /\ n.ops[u.key] # s.ops[u.key] /\ u.key \in Key
      BY <1>2, <1>3, <1>6, <2>3, Zenon
    <3> QED
      BY <2>1, <3>1
  <2> QED
    BY <2>2, <2>3
<1>10. \A i \in SaleId :
         m.audit[i] = MergeTrail(c.audit[i], s.audit[i], n.audit[i])
  <2>0. /\ s.audit \in [SaleId -> AuditDoc \cup {Absent}]
        /\ c.audit \in [SaleId -> AuditDoc \cup {Absent}]
    BY <1>0, Collections
  <2>4. /\ n.audit = [s.audit EXCEPT ![u.sale] = trail]
        /\ m.audit = [c.audit EXCEPT ![u.sale] = trail]
    BY <1>2, <1>6, Zenon
  <2>1. m.audit[u.sale] = trail /\ n.audit[u.sale] = trail
    BY <2>0, <2>4
  <2>2. \A i \in SaleId : i # u.sale =>
          m.audit[i] = c.audit[i] /\ n.audit[i] = s.audit[i]
    BY <2>0, <2>4
  <2>3. trail # Absent
    <3>1. trail \in AuditDoc
      BY DEF AuditDoc, Payload, trail
    <3> QED
      BY <3>1, NotAbsent
  <2> QED
    BY <1>1, <2>1, <2>2, <2>3 DEF MergeTrail
<1>11. m.jobs = c.jobs \cup (n.jobs \ s.jobs)
  BY <1>2, <1>4, <1>6, Zenon DEF Evolves, alerts
<1>12. \A q \in Product :
         m.adjustments[q] = IF n.adjustments[q] # s.adjustments[q]
                            THEN n.adjustments[q] ELSE c.adjustments[q]
  BY <1>2, <1>6
<1>13. n \in Database /\ m \in Database
  BY <1>2, <1>6
<1>14. Merged(c, s, n, m)
  BY <1>7, <1>8, <1>9, <1>10, <1>11, <1>12 DEF Merged
<1>15. Merge(c, s, n) = m
  BY <1>0, <1>13, <1>14, MergeIs
<1> QED
  BY <1>5, <1>15 DEF n, m

\* Nothing written, nothing merged.
LEMMA MergeNothing ==
  ASSUME NEW c \in Database, NEW s \in Database, NEW n \in Database,
         \A p \in Product : n.products[p] = s.products[p],
         \A i \in SaleId : n.sales[i] = s.sales[i],
         n.ops = s.ops, n.adjustments = s.adjustments,
         \A i \in SaleId : n.audit[i] = s.audit[i],
         n.jobs = s.jobs
  PROVE  Merge(c, s, n) = c
<1>1. Merged(c, s, n, c)
  BY DEF Merged, MergeTrail
<1> QED
  BY <1>1, MergeIs

\* So does a correction, unless it wrote nothing and leaves them as they are.
LEMMA MergeChange ==
  ASSUME NEW s, OK(s), NEW c, OK(c), NEW docs, Evolves(s, c, docs),
         NEW u, u.sale \in SaleId, u.number \in 1 .. MaxUpdates,
         u.qty \in Qty \cup {Absent}, u.price \in Price \cup {Absent},
         ChangeOutcome(s, u) = "ok",
         Disjoint(Written(s, Change(s, u)), docs)
  PROVE  \/ Merge(c, s, Change(s, u)) = c
         \/ ChangeOutcome(c, u) = "ok" /\ Merge(c, s, Change(s, u)) = Change(c, u)
<1> DEFINE n == Change(s, u)
           m == Change(c, u)
           i == u.sale
           sale == s.sales[i]
           p == sale.product
           doc == s.products[p]
           delta == Returned(s, u)
           qty == Given(u.qty, sale.qty)
           new == [sale EXCEPT !.qty = qty, !.price = Given(u.price, sale.price)]
           alerts == StockAlerts(p, doc.initial, doc.remaining, doc.remaining + delta,
                                 u.number)
           untouched == delta = 0 \/ doc = Absent
<1>0. /\ s \in Database /\ c \in Database
      /\ AuditTells(s) /\ AuditTells(c)
  BY DEF OK
<1>1. /\ sale # Absent
      /\ doc # Absent /\ delta # 0 => doc.remaining + delta >= 0
      /\ n \in Database
      /\ n.products = IF untouched THEN s.products
                      ELSE [s.products EXCEPT ![p].remaining = @ + delta]
      /\ n.sales = [s.sales EXCEPT ![i] = new]
      /\ n.ops = s.ops
      /\ n.adjustments = s.adjustments
      /\ n.audit = [s.audit EXCEPT ![i] = [@ EXCEPT !.qty = qty]]
      /\ n.jobs = IF untouched THEN s.jobs ELSE s.jobs \cup alerts
  BY <1>0, ChangeFields, ZenonT(30)
<1>2. /\ sale \in SaleDoc /\ p \in Product
      /\ s.audit[i] # Absent /\ s.audit[i] \in AuditDoc /\ s.audit[i].qty = sale.qty
  BY <1>0, <1>1, SaleType, AuditType, ZenonT(30) DEF AuditTells
<1>3. delta = sale.qty - qty /\ delta \in Int /\ qty \in Int /\ sale.qty \in Int
  BY <1>0, <1>1, CorrectedType, NumberTypes, SaleType, ZenonT(30)
<1>4. new.qty = qty
  BY <1>2 DEF SaleDoc
<1>5. /\ n.sales[i] = new
      /\ n.audit[i] = [s.audit[i] EXCEPT !.qty = qty]
      /\ \A j \in SaleId : j # i => n.sales[j] = s.sales[j] /\ n.audit[j] = s.audit[j]
  BY <1>0, <1>1, Collections, ZenonT(60)
<1> HIDE DEF n
<1>6. CASE n.sales[i] = s.sales[i]
  <2>1. qty = sale.qty
    BY <1>4, <1>5, <1>6
  <2>2. delta = 0
    BY <1>3, <2>1
  <2>3. n.audit[i] = s.audit[i]
    BY <1>2, <1>5, <2>1 DEF AuditDoc
  <2>4. /\ \A q \in Product : n.products[q] = s.products[q]
        /\ \A j \in SaleId : n.sales[j] = s.sales[j]
        /\ \A j \in SaleId : n.audit[j] = s.audit[j]
        /\ n.ops = s.ops
        /\ n.adjustments = s.adjustments
        /\ n.jobs = s.jobs
        /\ n \in Database
    BY <1>1, <1>5, <1>6, <2>2, <2>3
  <2>5. Merge(c, s, n) = c
    BY <1>0, <2>4, MergeNothing
  <2> QED
    BY <2>5 DEF n
<1>7. CASE n.sales[i] # s.sales[i]
  <2>1. c.sales[i] = s.sales[i] /\ c.audit[i] = s.audit[i]
    BY <1>7 DEF Disjoint, Written, Evolves, n
  <2>2. Returned(c, u) = delta
    BY <2>1 DEF Returned
  <2>3. ~ untouched => n.products[p] # s.products[p] /\ c.products[p] = s.products[p]
    <3> SUFFICES ASSUME ~ untouched
                 PROVE  n.products[p] # s.products[p] /\ c.products[p] = s.products[p]
      OBVIOUS
    <3>1. doc \in ProductDoc /\ doc.remaining \in Int
      BY <1>0, <1>2, ProductType
    <3>2. n.products[p].remaining = doc.remaining + delta
      <4>1. n.products = [s.products EXCEPT ![p].remaining = @ + delta]
        BY <1>1, ZenonT(30)
      <4>2. n.products[p] = [doc EXCEPT !.remaining = @ + delta]
        BY <1>0, <1>2, <4>1, Collections, Zenon
      <4> QED
        BY <3>1, <4>2 DEF ProductDoc
    <3>3. n.products[p] # s.products[p]
      BY <1>3, <3>1, <3>2
    <3> QED
      BY <1>2, <3>3 DEF Disjoint, Written, Evolves, n
  <2>4. doc = Absent => c.products[p] = Absent
    BY <1>2 DEF Evolves
  <2>5. untouched <=> (Returned(c, u) = 0 \/ c.products[p] = Absent)
    BY <2>2, <2>3, <2>4
  <2>6. ChangeOutcome(c, u) = "ok"
    <3> DEFINE short == c.products[p] # Absent
                          /\ c.products[p].remaining + Returned(c, u) < 0
    <3>1. ~ (Returned(c, u) # 0 /\ short)
      <4> SUFFICES ASSUME Returned(c, u) # 0, c.products[p] # Absent
                   PROVE  ~ (c.products[p].remaining + Returned(c, u) < 0)
        OBVIOUS
      <4>1. ~ untouched
        BY <2>5
      <4>2. doc.remaining \in Int
        BY <1>0, <1>2, <4>1, ProductType
      <4>3. doc.remaining + delta >= 0
        BY <1>1, <4>1, Zenon
      <4>4. c.products[p].remaining = doc.remaining
        BY <2>3, <4>1
      <4> HIDE DEF doc, delta
      <4> QED
        BY <1>3, <2>2, <4>2, <4>3, <4>4
    <3> QED
      BY <1>1, <2>1, <3>1, Zenon DEF ChangeOutcome
  <2>7. /\ m \in Database
        /\ m.products = IF untouched THEN c.products
                        ELSE [c.products EXCEPT ![p].remaining = @ + delta]
        /\ m.sales = [c.sales EXCEPT ![i] = new]
        /\ m.ops = c.ops
        /\ m.adjustments = c.adjustments
        /\ m.audit = [c.audit EXCEPT ![i] = [@ EXCEPT !.qty = qty]]
        /\ m.jobs = IF untouched THEN c.jobs
                    ELSE c.jobs \cup StockAlerts(p, c.products[p].initial,
                                       c.products[p].remaining,
                                       c.products[p].remaining + delta, u.number)
    <3> DEFINE D == Returned(c, u)
               S == c.sales[i]
    <3>1. /\ m \in Database
          /\ m.products = IF D = 0 \/ c.products[S.product] = Absent THEN c.products
                          ELSE [c.products EXCEPT ![S.product].remaining = @ + D]
          /\ m.sales = [c.sales EXCEPT ![i] =
                          [S EXCEPT !.qty   = Given(u.qty, S.qty),
                                    !.price = Given(u.price, S.price)]]
          /\ m.ops = c.ops
          /\ m.adjustments = c.adjustments
          /\ m.audit = [c.audit EXCEPT ![i] = [@ EXCEPT !.qty = Given(u.qty, S.qty)]]
          /\ m.jobs = IF D = 0 \/ c.products[S.product] = Absent THEN c.jobs
                      ELSE c.jobs \cup StockAlerts(S.product, c.products[S.product].initial,
                                         c.products[S.product].remaining,
                                         c.products[S.product].remaining + D, u.number)
      BY <1>0, <2>6, ChangeFields, ZenonT(60)
    <3> QED
      BY <2>1, <2>2, <2>5, <3>1, ZenonT(30)
  <2> HIDE DEF m, new, alerts
  <2>8. \A q \in Product :
          m.products[q] = IF n.products[q] # s.products[q] THEN n.products[q]
                          ELSE c.products[q]
    <3>1. CASE untouched
      BY <1>1, <2>7, <3>1, Zenon
    <3>2. CASE ~ untouched
      <4>1. m.products[p] = n.products[p]
        <5>1. n.products = [s.products EXCEPT ![p].remaining = @ + delta]
          BY <1>1, <3>2
        <5>2. m.products = [c.products EXCEPT ![p].remaining = @ + delta]
          BY <2>7, <3>2, Zenon
        <5>3. c.products[p] = s.products[p]
          BY <2>3, <3>2
        <5> HIDE DEF p, delta
        <5>4. n.products[p] = [s.products[p] EXCEPT !.remaining = @ + delta]
          BY <1>0, <1>2, <5>1, Collections
        <5>5. m.products[p] = [c.products[p] EXCEPT !.remaining = @ + delta]
          BY <1>0, <1>2, <5>2, Collections, SMTT(30)
        <5> QED
          BY <5>3, <5>4, <5>5
      <4>2. \A q \in Product : q # p => n.products[q] = s.products[q]
        BY <1>0, <1>1, <3>2, Collections
      <4>3. \A q \in Product : q # p => m.products[q] = c.products[q]
        BY <1>0, <2>7, <3>2, Collections, ZenonT(30)
      <4> QED
        BY <2>3, <3>2, <4>1, <4>2, <4>3
    <3> QED
      BY <3>1, <3>2
  <2>9. \A j \in SaleId :
          m.sales[j] = IF n.sales[j] # s.sales[j] THEN n.sales[j] ELSE c.sales[j]
    <3>1. m.sales[i] = new
      BY <1>0, <2>7, Collections, ZenonT(30)
    <3>2. \A j \in SaleId : j # i => m.sales[j] = c.sales[j]
      BY <1>0, <2>7, Collections, ZenonT(30)
    <3> QED
      BY <1>5, <1>7, <3>1, <3>2
  <2>10. \A j \in SaleId : m.audit[j] = MergeTrail(c.audit[j], s.audit[j], n.audit[j])
    <3>1. m.audit[i] = n.audit[i]
      <4>1. m.audit[i] = [c.audit[i] EXCEPT !.qty = qty]
        BY <1>0, <2>7, Collections, ZenonT(30)
      <4> QED
        BY <1>5, <2>1, <4>1
    <3>2. \A j \in SaleId : j # i => m.audit[j] = c.audit[j] /\ n.audit[j] = s.audit[j]
      BY <1>0, <1>5, <2>7, Collections, ZenonT(60)
    <3>3. ~ s.audit[i].cancelled
      BY <1>0, <1>1 DEF AuditTells
    <3>4. [n.audit[i] EXCEPT !.cancelled = @ \/ s.audit[i].cancelled] = n.audit[i]
      <4>1. n.audit[i] \in AuditDoc
        <5>1. qty \in Qty
          BY <1>0, <1>1, CorrectedType, Zenon
        <5> QED
          BY <1>2, <1>5, <5>1 DEF AuditDoc
      <4>2. (n.audit[i].cancelled \/ s.audit[i].cancelled) = n.audit[i].cancelled
        BY <3>3, <4>1 DEF AuditDoc
      <4> QED
        BY <4>1, <4>2 DEF AuditDoc
    <3> QED
      BY <1>2, <2>1, <3>1, <3>2, <3>4 DEF MergeTrail
  <2>11. m.jobs = c.jobs \cup (n.jobs \ s.jobs)
    BY <1>1, <2>3, <2>7, ZenonT(30) DEF Evolves, alerts
  <2>12. /\ n \in Database /\ m \in Database
         /\ n.ops = s.ops /\ m.ops = c.ops
         /\ n.adjustments = s.adjustments /\ m.adjustments = c.adjustments
    BY <1>1, <2>7, Zenon
  <2>13. Merged(c, s, n, m)
    BY <2>8, <2>9, <2>10, <2>11, <2>12 DEF Merged
  <2>14. Merge(c, s, n) = m
    BY <1>0, <2>12, <2>13, MergeIs
  <2> QED
    BY <2>6, <2>14 DEF n, m
<1> QED
  BY <1>6, <1>7

\* So does a cancellation.
LEMMA MergeCancel ==
  ASSUME NEW s, OK(s), NEW c, OK(c), NEW docs, Evolves(s, c, docs),
         NEW i \in SaleId, CancelOutcome(s, i) = "ok",
         Disjoint(Written(s, Cancel(s, i)), docs)
  PROVE  CancelOutcome(c, i) = "ok" /\ Merge(c, s, Cancel(s, i)) = Cancel(c, i)
<1> DEFINE n == Cancel(s, i)
           m == Cancel(c, i)
           sale == s.sales[i]
           p == sale.product
           gone == s.products[p] = Absent
<1>0. /\ s \in Database /\ c \in Database
      /\ AuditTells(s) /\ AuditTells(c)
  BY DEF OK
<1>1. /\ sale # Absent
      /\ n \in Database
      /\ n.products = IF gone THEN s.products
                      ELSE [s.products EXCEPT ![p].remaining = @ + sale.qty]
      /\ n.sales = [s.sales EXCEPT ![i] = Absent]
      /\ n.ops = s.ops
      /\ n.adjustments = s.adjustments
      /\ n.audit = [s.audit EXCEPT ![i] = [@ EXCEPT !.cancelled = TRUE]]
      /\ n.jobs = s.jobs
  BY <1>0, CancelFields
<1>2. /\ p \in Product /\ sale.qty \in Int /\ sale.qty > 0
      /\ s.audit[i] # Absent /\ s.audit[i] \in AuditDoc
  BY <1>0, <1>1, SaleType, AuditType DEF AuditTells
<1>3. n.sales[i] = Absent /\ n.audit[i] = [s.audit[i] EXCEPT !.cancelled = TRUE]
  BY <1>0, <1>1, Collections, SMTT(30)
<1>4. c.sales[i] = sale /\ c.audit[i] = s.audit[i]
  BY <1>1, <1>3 DEF Disjoint, Written, Evolves
<1>5. ~ gone => n.products[p] # s.products[p] /\ c.products[p] = s.products[p]
  <2> SUFFICES ASSUME ~ gone
               PROVE  n.products[p] # s.products[p] /\ c.products[p] = s.products[p]
    OBVIOUS
  <2>1. s.products[p] \in ProductDoc /\ s.products[p].remaining \in Int
    BY <1>0, <1>2, ProductType
  <2>2. n.products = [s.products EXCEPT ![p].remaining = @ + sale.qty]
    BY <1>1
  <2>3. n.products[p] = [s.products[p] EXCEPT !.remaining = @ + sale.qty]
    BY <1>0, <1>2, <2>2, Collections
  <2>4. n.products[p].remaining = s.products[p].remaining + sale.qty
    BY <2>1, <2>3 DEF ProductDoc
  <2>5. n.products[p] # s.products[p]
    BY <1>2, <2>1, <2>4
  <2> QED
    BY <1>2, <2>5 DEF Disjoint, Written, Evolves
<1>6. gone <=> c.products[p] = Absent
  BY <1>2, <1>5 DEF Evolves
<1>7. CancelOutcome(c, i) = "ok"
  BY <1>1, <1>4 DEF CancelOutcome
<1>8. /\ m \in Database
      /\ m.products = IF gone THEN c.products
                      ELSE [c.products EXCEPT ![p].remaining = @ + sale.qty]
      /\ m.sales = [c.sales EXCEPT ![i] = Absent]
      /\ m.ops = c.ops
      /\ m.adjustments = c.adjustments
      /\ m.audit = [c.audit EXCEPT ![i] = [@ EXCEPT !.cancelled = TRUE]]
      /\ m.jobs = c.jobs
  <2> DEFINE S == c.sales[i]
  <2>1. /\ m \in Database
        /\ m.products = IF c.products[S.product] = Absent THEN c.products
                        ELSE [c.products EXCEPT ![S.product].remaining = @ + S.qty]
        /\ m.sales = [c.sales EXCEPT ![i] = Absent]
        /\ m.ops = c.ops
        /\ m.adjustments = c.adjustments
        /\ m.audit = [c.audit EXCEPT ![i] = [@ EXCEPT !.cancelled = TRUE]]
        /\ m.jobs = c.jobs
    BY <1>0, <1>7, CancelFields
  <2> QED
    BY <1>4, <1>6, <2>1
<1> HIDE DEF n, m
<1>9. \A q \in Product :
        m.products[q] = IF n.products[q] # s.products[q] THEN n.products[q]
                        ELSE c.products[q]
  <2>1. CASE gone
    BY <1>1, <1>8, <2>1
  <2>2. CASE ~ gone
    <3>1. /\ n.products = [s.products EXCEPT ![p].remaining = @ + sale.qty]
          /\ m.products = [c.products EXCEPT ![p].remaining = @ + sale.qty]
      BY <1>1, <1>8, <2>2
    <3>2. n.products[p] # s.products[p] /\ c.products[p] = s.products[p]
      BY <1>5, <2>2
    <3> HIDE DEF p, sale
    <3>3. n.products[p] = [s.products[p] EXCEPT !.remaining = @ + sale.qty]
      BY <1>0, <1>2, <3>1, Collections
    <3>4. m.products[p] = [c.products[p] EXCEPT !.remaining = @ + sale.qty]
      BY <1>0, <1>2, <3>1, Collections
    <3>5. \A q \in Product : q # p =>
            n.products[q] = s.products[q] /\ m.products[q] = c.products[q]
      BY <1>0, <3>1, Collections
    <3> QED
      BY <3>2, <3>3, <3>4, <3>5
  <2> QED
    BY <2>1, <2>2
<1>10. \A j \in SaleId :
         m.sales[j] = IF n.sales[j] # s.sales[j] THEN n.sales[j] ELSE c.sales[j]
  <2>0. /\ s.sales \in [SaleId -> SaleDoc \cup {Absent}]
        /\ c.sales \in [SaleId -> SaleDoc \cup {Absent}]
    BY <1>0, Collections
  <2>3. /\ n.sales = [s.sales EXCEPT ![i] = Absent]
        /\ m.sales = [c.sales EXCEPT ![i] = Absent]
    BY <1>1, <1>8, Zenon
  <2>1. m.sales[i] = Absent
    BY <2>0, <2>3
  <2>2. \A j \in SaleId : j # i => m.sales[j] = c.sales[j] /\ n.sales[j] = s.sales[j]
    BY <2>0, <2>3
  <2> QED
    BY <1>1, <1>3, <2>1, <2>2
<1>11. \A j \in SaleId : m.audit[j] = MergeTrail(c.audit[j], s.audit[j], n.audit[j])
  <2>0. /\ s.audit \in [SaleId -> AuditDoc \cup {Absent}]
        /\ c.audit \in [SaleId -> AuditDoc \cup {Absent}]
    BY <1>0, Collections
  <2>5. /\ n.audit = [s.audit EXCEPT ![i] = [@ EXCEPT !.cancelled = TRUE]]
        /\ m.audit = [c.audit EXCEPT ![i] = [@ EXCEPT !.cancelled = TRUE]]
    BY <1>1, <1>8, Zenon
  <2>1. m.audit[i] = [c.audit[i] EXCEPT !.cancelled = TRUE]
    BY <2>0, <2>5
  <2>2. m.audit[i] = n.audit[i]
    BY <1>3, <1>4, <2>1
  <2>3. \A j \in SaleId : j # i => m.audit[j] = c.audit[j] /\ n.audit[j] = s.audit[j]
    BY <2>0, <2>5
  <2>4. [n.audit[i] EXCEPT !.cancelled = @ \/ c.audit[i].cancelled] = n.audit[i]
    BY <1>2, <1>3 DEF AuditDoc
  <2> QED
    BY <1>2, <1>4, <2>2, <2>3, <2>4 DEF MergeTrail
<1>12. m.jobs = c.jobs \cup (n.jobs \ s.jobs)
  BY <1>1, <1>8
<1>13. /\ n \in Database /\ m \in Database
       /\ n.ops = s.ops /\ m.ops = c.ops
       /\ n.adjustments = s.adjustments /\ m.adjustments = c.adjustments
  BY <1>1, <1>8
<1>14. Merged(c, s, n, m)
  BY <1>9, <1>10, <1>11, <1>12, <1>13 DEF Merged
<1>15. Merge(c, s, n) = m
  BY <1>0, <1>13, <1>14, MergeIs
<1> QED
  BY <1>7, <1>15 DEF n, m

\* So does a purge: a sale of the product recorded meanwhile is a conflict.
LEMMA MergePurge ==
  ASSUME NEW s, OK(s), NEW c, OK(c), NEW docs, Evolves(s, c, docs),
         NEW p \in Product, s.products[p] # Absent,
         Disjoint(Written(s, Purge(s, p)), docs)
  PROVE  c.products[p] # Absent /\ Merge(c, s, Purge(s, p)) = Purge(c, p)
<1> DEFINE n == Purge(s, p)
           m == Purge(c, p)
           doc == s.products[p]
           drift == doc.initial - doc.remaining - SoldUnits(s, p)
           frozen == [units |-> drift, cost |-> doc.cost]
<1>0. /\ s \in Database /\ c \in Database
      /\ HistoryKept(s) /\ HistoryKept(c)
  BY DEF OK
<1>1. /\ n \in Database
      /\ n.products = [s.products EXCEPT ![p] = Absent]
      /\ n.sales = [i \in SaleId |->
                      IF IsSaleOf(s, i, p) /\ s.sales[i].lastKnown = Absent
                      THEN [s.sales[i] EXCEPT !.lastKnown = doc.cost]
                      ELSE s.sales[i]]
      /\ n.ops = s.ops
      /\ n.adjustments = IF drift = 0 THEN s.adjustments
                         ELSE [s.adjustments EXCEPT ![p] = frozen]
      /\ n.audit = s.audit
      /\ n.jobs = s.jobs
  BY <1>0, PurgeFields
<1>2. n.products[p] = Absent
  BY <1>0, <1>1, Collections
<1> HIDE DEF n
<1>3. p \notin docs.products
  BY <1>2 DEF Disjoint, Written, n
<1>4. c.products[p] = doc /\ c.adjustments[p] = s.adjustments[p]
  BY <1>3 DEF Evolves
<1>5. \A i \in SaleId : IsSaleOf(s, i, p) =>
        /\ s.sales[i].lastKnown = Absent
        /\ n.sales[i] # s.sales[i]
        /\ c.sales[i] = s.sales[i]
  <2> SUFFICES ASSUME NEW i \in SaleId, IsSaleOf(s, i, p)
               PROVE  /\ s.sales[i].lastKnown = Absent
                      /\ n.sales[i] # s.sales[i]
                      /\ c.sales[i] = s.sales[i]
    OBVIOUS
  <2>1. s.sales[i].lastKnown = Absent
    BY <1>0 DEF HistoryKept, IsSaleOf
  <2>2. n.sales[i] = [s.sales[i] EXCEPT !.lastKnown = doc.cost]
    BY <1>1, <2>1
  <2>3. s.sales[i] \in SaleDoc
    BY <1>0, SaleType DEF IsSaleOf
  <2>4. doc.cost # Absent
    BY <1>0, ProductType, NumberTypes
  <2>5. n.sales[i] # s.sales[i]
    BY <2>1, <2>2, <2>3, <2>4 DEF SaleDoc
  <2> QED
    BY <2>1, <2>5 DEF Disjoint, Written, Evolves, n
<1>6. \A i \in SaleId : IsSaleOf(c, i, p) <=> IsSaleOf(s, i, p)
  <2>1. \A i \in SaleId : IsSaleOf(c, i, p) => IsSaleOf(s, i, p)
    BY <1>3 DEF Evolves
  <2>2. \A i \in SaleId : IsSaleOf(s, i, p) => IsSaleOf(c, i, p)
    BY <1>5 DEF IsSaleOf
  <2> QED
    BY <2>1, <2>2
<1>7. SoldUnits(c, p) = SoldUnits(s, p)
  <2>1. \A t \in SaleId : /\ IsSaleOf(c, t, p) <=> IsSaleOf(s, t, p)
                          /\ IsSaleOf(s, t, p) => c.sales[t].qty = s.sales[t].qty
    BY <1>5, <1>6
  <2> QED
    BY <2>1, SoldSame
<1>8. /\ m \in Database
      /\ m.products = [c.products EXCEPT ![p] = Absent]
      /\ m.sales = [i \in SaleId |->
                      IF IsSaleOf(c, i, p) /\ c.sales[i].lastKnown = Absent
                      THEN [c.sales[i] EXCEPT !.lastKnown = doc.cost]
                      ELSE c.sales[i]]
      /\ m.ops = c.ops
      /\ m.adjustments = IF drift = 0 THEN c.adjustments
                         ELSE [c.adjustments EXCEPT ![p] = frozen]
      /\ m.audit = c.audit
      /\ m.jobs = c.jobs
  <2> DEFINE d == c.products[p]
             e == d.initial - d.remaining - SoldUnits(c, p)
  <2>1. /\ m \in Database
        /\ m.products = [c.products EXCEPT ![p] = Absent]
        /\ m.sales = [i \in SaleId |->
                        IF IsSaleOf(c, i, p) /\ c.sales[i].lastKnown = Absent
                        THEN [c.sales[i] EXCEPT !.lastKnown = d.cost]
                        ELSE c.sales[i]]
        /\ m.ops = c.ops
        /\ m.adjustments = IF e = 0 THEN c.adjustments
                           ELSE [c.adjustments EXCEPT ![p] =
                                   [units |-> e, cost |-> d.cost]]
        /\ m.audit = c.audit
        /\ m.jobs = c.jobs
    BY <1>0, <1>4, PurgeFields
  <2>2. e = drift
    BY <1>4, <1>7
  <2> HIDE DEF e, drift
  <2> QED
    BY <1>4, <2>1, <2>2
<1> HIDE DEF m, drift, frozen
<1>9. \A q \in Product :
        m.products[q] = IF n.products[q] # s.products[q] THEN n.products[q]
                        ELSE c.products[q]
  <2>1. m.products[p] = Absent
    BY <1>0, <1>8, Collections
  <2>2. \A q \in Product : q # p =>
          n.products[q] = s.products[q] /\ m.products[q] = c.products[q]
    BY <1>0, <1>1, <1>8, Collections
  <2> QED
    BY <1>2, <2>1, <2>2
<1>10. \A i \in SaleId :
         m.sales[i] = IF n.sales[i] # s.sales[i] THEN n.sales[i] ELSE c.sales[i]
  <2> SUFFICES ASSUME NEW i \in SaleId
               PROVE  m.sales[i] = IF n.sales[i] # s.sales[i] THEN n.sales[i]
                                   ELSE c.sales[i]
    OBVIOUS
  <2>1. CASE IsSaleOf(s, i, p)
    <3>1. /\ n.sales[i] = [s.sales[i] EXCEPT !.lastKnown = doc.cost]
          /\ m.sales[i] = [c.sales[i] EXCEPT !.lastKnown = doc.cost]
      BY <1>1, <1>5, <1>6, <1>8, <2>1
    <3> QED
      BY <1>5, <2>1, <3>1
  <2>2. CASE ~ IsSaleOf(s, i, p)
    BY <1>1, <1>6, <1>8, <2>2
  <2> QED
    BY <2>1, <2>2
<1>11. \A q \in Product :
         m.adjustments[q] = IF n.adjustments[q] # s.adjustments[q]
                            THEN n.adjustments[q] ELSE c.adjustments[q]
  <2>1. CASE drift = 0
    BY <1>1, <1>8, <2>1
  <2>2. CASE drift # 0
    <3>1. n.adjustments[p] = frozen /\ m.adjustments[p] = frozen
      BY <1>0, <1>1, <1>8, <2>2, Collections
    <3>2. \A q \in Product : q # p =>
            n.adjustments[q] = s.adjustments[q] /\ m.adjustments[q] = c.adjustments[q]
      BY <1>0, <1>1, <1>8, <2>2, Collections
    <3> QED
      BY <1>4, <3>1, <3>2
  <2> QED
    BY <2>1, <2>2
<1>12. /\ \A i \in SaleId : m.audit[i] = MergeTrail(c.audit[i], s.audit[i], n.audit[i])
       /\ m.jobs = c.jobs \cup (n.jobs \ s.jobs)
       /\ n.ops = s.ops /\ m.ops = c.ops
  BY <1>1, <1>8 DEF MergeTrail
<1>13. n \in Database /\ m \in Database
  BY <1>1, <1>8
<1>14. Merged(c, s, n, m)
  BY <1>9, <1>10, <1>11, <1>12 DEF Merged
<1>15. Merge(c, s, n) = m
  BY <1>0, <1>13, <1>14, MergeIs
<1> QED
  BY <1>4, <1>15 DEF n, m

----------------------------------------------------------------------------
(* Handlers *)

\* Where the handler of a request of each kind may stand.
StagesOf(kind) ==
  CASE kind = "create" -> {"lookup", "begin", "body", "winner", "replay", "answer"}
    [] kind \in {"update", "cancel"} -> {"begin", "body"}
    [] kind = "purge" -> {"locate", "begin", "body"}
    [] kind = "patch" -> {"read", "log", "section", "write"}

\* What a creation c in a stage knows of the documents d.
CreationOK(d, stage, c) ==
  /\ stage \in {"lookup", "winner", "replay"} => c.key # NoKey
  /\ stage = "replay" => d.ops[c.key] # Absent
  /\ c.sale = Absent => /\ stage \in {"lookup", "replay"}
                        /\ d.ops[c.key] # Absent
  /\ stage \in {"lookup", "begin", "body"} /\ c.sale # Absent => d.audit[c.sale] = Absent
  /\ stage = "answer" /\ c.key # NoKey =>
       d.ops[c.key] # Absent /\ d.ops[c.key].sale = c.sale

\* A handler in a stage of request q, with snapshot s and conflicts docs.
Busy(d, stage, q, s, docs) ==
  /\ q \in Requests
  /\ stage \in StagesOf(q.kind)
  /\ q.kind = "create" => CreationOK(d, stage, q)
  /\ IF stage = "body" THEN OK(s) /\ Evolves(s, d, docs) ELSE s = Absent

HandlerOK(d, stage, q, s, docs) ==
  \/ stage = "idle" /\ q = Absent /\ s = Absent
  \/ Busy(d, stage, q, s, docs)

\* Handler r holds the new sale id s.
Holds(r, s) == req[r] # Absent /\ req[r].kind = "create" /\ req[r].sale = s

\* Every success returned for a key is its one sale.
Acks ==
  /\ acked \in [Key -> SUBSET SaleId]
  /\ \A k \in Key : \A s \in acked[k] : db.ops[k] # Absent /\ db.ops[k].sale = s

Logs == restockLog \in [Product -> Nat] /\ updates \in 0 .. MaxUpdates

\* The inductive invariant.
IInv ==
  /\ OK(db)
  /\ pc \in [Request -> Stage]
  /\ req \in [Request -> Requests \cup {Absent}]
  /\ snap \in [Request -> Database \cup {Absent}]
  /\ dirty \in [Request -> DocSets]
  /\ \A r \in Request : HandlerOK(db, pc[r], req[r], snap[r], dirty[r])
  /\ \A r, q \in Request, s \in SaleId : Holds(r, s) /\ Holds(q, s) => r = q
  /\ Acks
  /\ Logs

----------------------------------------------------------------------------
(* Requests *)

\* The fields of each kind of request.
LEMMA RequestTypes ==
  ASSUME NEW q \in Requests
  PROVE  /\ q # Absent
         /\ q.kind \in {"create", "update", "cancel", "purge", "patch"}
         /\ q.kind = "create" => q \in CreateRequest
         /\ q.kind = "update" => q \in UpdateRequest
         /\ q.kind = "cancel" => q \in CancelRequest
         /\ q.kind = "purge" => q \in PurgeRequest
         /\ q.kind = "patch" => q \in PatchRequest
BY NoSuchRequest DEF Requests, CreateRequest, UpdateRequest, CancelRequest,
                     PurgeRequest, PatchRequest

\* A handler that is not idle is busy, and the stage tells the kind.
LEMMA BusyHandler ==
  ASSUME IInv, NEW r \in Request, pc[r] # "idle"
  PROVE  /\ Busy(db, pc[r], req[r], snap[r], dirty[r])
         /\ req[r] \in Requests
         /\ pc[r] \in StagesOf(req[r].kind)
         /\ pc[r] # "body" => snap[r] = Absent
BY DEF IInv, HandlerOK, Busy

\* Where a handler stands tells the kind of its request.
LEMMA StageKind ==
  ASSUME NEW q \in Requests, NEW stage, stage \in StagesOf(q.kind)
  PROVE  /\ stage \in Stage \ {"idle"}
         /\ stage \in {"lookup", "winner", "replay", "answer"} => q.kind = "create"
         /\ stage = "locate" => q.kind = "purge"
         /\ stage \in {"read", "log", "section", "write"} => q.kind = "patch"
BY RequestTypes DEF StagesOf, Stage

----------------------------------------------------------------------------
(* A handler that others leave alone *)

\* What a step that evolves the database does to another handler.
LEMMA BusyOn ==
  ASSUME NEW d, NEW n, NEW docs, Evolves(d, n, docs),
         NEW stage, NEW q, NEW s, NEW old, Busy(d, stage, q, s, old),
         q.kind = "create" /\ q.sale # Absent /\ d.audit[q.sale] = Absent
           => n.audit[q.sale] = Absent,
         NEW all, s # Absent =>
           /\ old.products \cup docs.products \subseteq all.products
           /\ old.sales \cup docs.sales \subseteq all.sales
           /\ old.ops \cup docs.ops \subseteq all.ops
  PROVE  Busy(n, stage, q, s, all)
<1>1. q \in Requests
  BY DEF Busy
<1>2. ASSUME q.kind = "create"
      PROVE  CreationOK(n, stage, q)
  <2>1. q.key \in Key \cup {NoKey} /\ q.sale \in SaleId \cup {Absent}
    BY <1>1, <1>2, RequestTypes DEF CreateRequest
  <2>2. CreationOK(d, stage, q)
    BY <1>2 DEF Busy
  <2>3. q.key # NoKey /\ d.ops[q.key] # Absent => n.ops[q.key] = d.ops[q.key]
    BY <2>1 DEF Evolves
  <2>4. q.sale = Absent => q.key # NoKey
    BY <2>2 DEF CreationOK
  <2> QED
    BY <1>2, <2>2, <2>3, <2>4 DEF CreationOK
<1>3. stage = "body" => OK(s) /\ Evolves(s, n, all)
  <2> SUFFICES ASSUME stage = "body"
               PROVE  OK(s) /\ Evolves(s, n, all)
    OBVIOUS
  <2>1. OK(s) /\ Evolves(s, d, old)
    BY DEF Busy
  <2>2. s # Absent
    BY <2>1, NotAbsent DEF OK
  <2> QED
    BY <2>1, <2>2, EvolvesOn
<1> QED
  BY <1>1, <1>2, <1>3 DEF Busy

\* The documents written since a snapshot, with docs added.
Adds(r, docs) ==
  /\ dirty' \in [Request -> DocSets]
  /\ \A q \in Request : q # r /\ snap[q] # Absent =>
       /\ dirty[q].products \cup docs.products \subseteq dirty'[q].products
       /\ dirty[q].sales \cup docs.sales \subseteq dirty'[q].sales
       /\ dirty[q].ops \cup docs.ops \subseteq dirty'[q].ops

\* Handler r makes a step that evolves the database in docs.
LEMMA OneSteps ==
  ASSUME IInv, NEW r \in Request, NEW docs,
         OK(db'), Evolves(db, db', docs), Adds(r, docs),
         NEW stage, pc' = [pc EXCEPT ![r] = stage],
         NEW body, req' = [req EXCEPT ![r] = body],
         NEW s, snap' = [snap EXCEPT ![r] = s],
         HandlerOK(db', stage, body, s, dirty'[r]),
         \A i \in SaleId : db.audit[i] = Absent /\ db'.audit[i] # Absent => Holds(r, i),
         \A i \in SaleId : body # Absent /\ body.kind = "create" /\ body.sale = i =>
           \A q \in Request : q # r => ~ Holds(q, i),
         Acks', Logs'
  PROVE  IInv'
<1>0. /\ pc' \in [Request -> Stage]
      /\ req' \in [Request -> Requests \cup {Absent}]
      /\ snap' \in [Request -> Database \cup {Absent}]
  <2>1. stage \in Stage /\ body \in Requests \cup {Absent} /\ s \in Database \cup {Absent}
    <3>1. CASE stage = "idle" /\ body = Absent /\ s = Absent
      BY <3>1 DEF Stage
    <3>2. CASE Busy(db', stage, body, s, dirty'[r])
      BY <3>2, StageKind DEF Busy, OK
    <3> QED
      BY <3>1, <3>2 DEF HandlerOK
  <2> QED
    BY <2>1 DEF IInv
<1>1. /\ pc'[r] = stage /\ req'[r] = body /\ snap'[r] = s
      /\ \A q \in Request : q # r => pc'[q] = pc[q] /\ req'[q] = req[q] /\ snap'[q] = snap[q]
  BY DEF IInv
<1>2. \A q \in Request : HandlerOK(db', pc'[q], req'[q], snap'[q], dirty'[q])
  <2> SUFFICES ASSUME NEW q \in Request, q # r
               PROVE  HandlerOK(db', pc[q], req[q], snap[q], dirty'[q])
    BY <1>1
  <2>1. CASE pc[q] = "idle" /\ req[q] = Absent /\ snap[q] = Absent
    BY <2>1 DEF HandlerOK
  <2>2. CASE Busy(db, pc[q], req[q], snap[q], dirty[q])
    <3>1. ASSUME req[q].kind = "create", req[q].sale # Absent, db.audit[req[q].sale] = Absent
          PROVE  db'.audit[req[q].sale] = Absent
      <4>1. req[q] \in Requests
        BY <2>2 DEF Busy
      <4>2. req[q].sale \in SaleId /\ Holds(q, req[q].sale)
        BY <3>1, <4>1, RequestTypes DEF CreateRequest, Holds
      <4>3. ~ Holds(r, req[q].sale)
        BY <4>2 DEF IInv
      <4> QED
        BY <3>1, <4>2, <4>3
    <3>2. snap[q] # Absent =>
            /\ dirty[q].products \cup docs.products \subseteq dirty'[q].products
            /\ dirty[q].sales \cup docs.sales \subseteq dirty'[q].sales
            /\ dirty[q].ops \cup docs.ops \subseteq dirty'[q].ops
      BY DEF Adds
    <3>3. Busy(db', pc[q], req[q], snap[q], dirty'[q])
      BY <2>2, <3>1, <3>2, BusyOn
    <3> QED
      BY <3>3 DEF HandlerOK
  <2> QED
    BY <2>1, <2>2 DEF IInv, HandlerOK
<1>3. \A a, b \in Request, i \in SaleId : (Holds(a, i) /\ Holds(b, i))' => a = b
  BY <1>1 DEF IInv, Holds
<1> QED
  BY <1>0, <1>2, <1>3 DEF IInv, Adds

\* Leaving a transaction tells the others what it wrote.
LEMMA LeaveTxAdds ==
  ASSUME IInv, NEW r \in Request, NEW docs \in DocSets, LeaveTx(r, docs)
  PROVE  snap' = [snap EXCEPT ![r] = Absent] /\ Adds(r, docs)
<1>1. /\ snap' = [snap EXCEPT ![r] = Absent]
      /\ dirty' = [q \in Request |->
                     IF q = r \/ snap[q] = Absent THEN NoDocs
                     ELSE [products |-> dirty[q].products \cup docs.products,
                           sales    |-> dirty[q].sales \cup docs.sales,
                           ops      |-> dirty[q].ops \cup docs.ops]]
  BY DEF LeaveTx
<1>2. dirty \in [Request -> DocSets]
  BY DEF IInv
<1>3. dirty' \in [Request -> DocSets]
  BY <1>1, <1>2 DEF DocSets, NoDocs
<1>4. \A q \in Request : q # r /\ snap[q] # Absent =>
        dirty'[q] = [products |-> dirty[q].products \cup docs.products,
                     sales    |-> dirty[q].sales \cup docs.sales,
                     ops      |-> dirty[q].ops \cup docs.ops]
  BY <1>1
<1> QED
  BY <1>1, <1>3, <1>4 DEF Adds

\* Handler r makes a step that leaves the documents alone.
LEMMA QuietSteps ==
  ASSUME IInv, NEW r \in Request, db' = db, Adds(r, NoDocs),
         NEW stage, pc' = [pc EXCEPT ![r] = stage],
         NEW body, req' = [req EXCEPT ![r] = body],
         NEW s, snap' = [snap EXCEPT ![r] = s],
         HandlerOK(db, stage, body, s, dirty'[r]),
         \A i \in SaleId : body # Absent /\ body.kind = "create" /\ body.sale = i =>
           \A q \in Request : q # r => ~ Holds(q, i),
         Acks', Logs'
  PROVE  IInv'
<1>1. OK(db') /\ Evolves(db, db', NoDocs)
  BY EvolvesStart DEF IInv
<1>2. \A i \in SaleId : db.audit[i] = Absent /\ db'.audit[i] # Absent => Holds(r, i)
  OBVIOUS
<1>3. HandlerOK(db', stage, body, s, dirty'[r])
  OBVIOUS
<1> QED
  BY <1>1, <1>2, <1>3, OneSteps

\* Nothing changed in the documents since handler r read them.
LEMMA SameAdds ==
  ASSUME IInv, NEW r \in Request, UNCHANGED dirty
  PROVE  Adds(r, NoDocs)
BY DEF IInv, Adds, NoDocs

\* Nothing written is a set of documents.
LEMMA NoDocsType == NoDocs \in DocSets
BY DEF NoDocs, DocSets

\* The request of r stays: its sale id is no other's.
LEMMA KeepsId ==
  ASSUME IInv, NEW r \in Request
  PROVE  \A i \in SaleId : req[r] # Absent /\ req[r].kind = "create" /\ req[r].sale = i =>
           \A q \in Request : q # r => ~ Holds(q, i)
BY DEF IInv, Holds

\* A handler ends, with or without an open transaction.
LEMMA EndsOK ==
  ASSUME IInv, NEW r \in Request, pc[r] # "idle",
         Abort(r) \/ (pc[r] # "body" /\ Leave(r)), Acks', Logs'
  PROVE  IInv'
<1>1. db' = db /\ Finish(r)
  BY DEF Abort, Leave
<1>2. snap' = [snap EXCEPT ![r] = Absent] /\ Adds(r, NoDocs)
  <2>1. CASE Abort(r)
    BY <2>1, LeaveTxAdds, NoDocsType DEF Abort
  <2>2. CASE pc[r] # "body" /\ Leave(r)
    <3>1. snap[r] = Absent /\ UNCHANGED <<snap, dirty>>
      BY <2>2, BusyHandler DEF Leave
    <3> QED
      BY <3>1, SameAdds DEF IInv
  <2> QED
    BY <2>1, <2>2
<1>3. pc' = [pc EXCEPT ![r] = "idle"] /\ req' = [req EXCEPT ![r] = Absent]
  BY <1>1 DEF Finish
<1>4. HandlerOK(db, "idle", Absent, Absent, dirty'[r])
  BY DEF HandlerOK
<1> QED
  BY <1>1, <1>2, <1>3, <1>4, QuietSteps

\* A handler goes on outside of a transaction.
LEMMA GotoOK ==
  ASSUME IInv, NEW r \in Request, pc[r] \notin {"idle", "body"},
         NEW stage, stage # "body", Goto(r, stage),
         stage \in StagesOf(req[r].kind),
         req[r].kind = "create" => CreationOK(db, stage, req[r]),
         Acks', Logs'
  PROVE  IInv'
<1>1. db' = db /\ pc' = [pc EXCEPT ![r] = stage] /\ UNCHANGED <<req, snap, dirty>>
  BY DEF Goto
<1>2. snap[r] = Absent /\ req[r] \in Requests
  BY BusyHandler
<1>3. Busy(db, stage, req[r], Absent, dirty'[r])
  BY <1>2 DEF Busy
<1>4. HandlerOK(db, stage, req[r], Absent, dirty'[r])
  BY <1>3 DEF HandlerOK
<1>5. req' = [req EXCEPT ![r] = req[r]] /\ snap' = [snap EXCEPT ![r] = Absent]
  BY <1>1, <1>2 DEF IInv
<1> QED
  BY <1>1, <1>4, <1>5, SameAdds, KeepsId, QuietSteps

\* A conflict sends the handler back to the start of its transaction.
LEMMA RetryOK ==
  ASSUME IInv, NEW r \in Request, pc[r] = "body", Retry(r),
         UNCHANGED <<acked, restockLog, updates>>
  PROVE  IInv'
<1>1. /\ db' = db /\ pc' = [pc EXCEPT ![r] = "begin"] /\ UNCHANGED req
      /\ LeaveTx(r, NoDocs)
  BY DEF Retry
<1>2. snap' = [snap EXCEPT ![r] = Absent] /\ Adds(r, NoDocs)
  BY <1>1, LeaveTxAdds, NoDocsType
<1>3. Busy(db, "body", req[r], snap[r], dirty[r])
  BY BusyHandler
<1>4. "begin" \in StagesOf(req[r].kind)
  BY <1>3, RequestTypes DEF Busy, StagesOf
<1>5. req[r].kind = "create" => CreationOK(db, "begin", req[r])
  BY <1>3 DEF Busy, CreationOK
<1>6. HandlerOK(db, "begin", req[r], Absent, dirty'[r])
  BY <1>3, <1>4, <1>5 DEF HandlerOK, Busy
<1>7. req' = [req EXCEPT ![r] = req[r]]
  BY <1>1 DEF IInv
<1>8. Acks' /\ Logs'
  BY <1>1 DEF IInv, Acks, Logs
<1> QED
  BY <1>1, <1>2, <1>6, <1>7, <1>8, KeepsId, QuietSteps

----------------------------------------------------------------------------
(* Requests arrive *)

\* Receiving a request keeps the invariant, for every kind of request.
LEMMA ReceiveOK ==
  ASSUME IInv, NEW r \in Request, NEW body \in Requests, NEW stage,
         Receive(r, body, stage), stage # "body", stage \in StagesOf(body.kind),
         body.kind = "create" => CreationOK(db, stage, body),
         \A i \in SaleId : body.kind = "create" /\ body.sale = i =>
           \A q \in Request : q # r => ~ Holds(q, i),
         updates' \in 0 .. MaxUpdates
  PROVE  IInv' /\ db' = db
<1>1. /\ db' = db /\ pc[r] = "idle"
      /\ pc' = [pc EXCEPT ![r] = stage] /\ req' = [req EXCEPT ![r] = body]
      /\ UNCHANGED <<snap, dirty, acked, restockLog>>
  BY DEF Receive
<1>2. snap[r] = Absent
  BY <1>1, StageKind DEF IInv, HandlerOK, Busy
<1>3. snap' = [snap EXCEPT ![r] = Absent]
  BY <1>1, <1>2 DEF IInv
<1>4. HandlerOK(db, stage, body, Absent, dirty'[r])
  BY DEF HandlerOK, Busy
<1>5. Acks' /\ Logs'
  BY <1>1 DEF IInv, Acks, Logs
<1> QED
  BY <1>1, <1>3, <1>4, <1>5, SameAdds, QuietSteps, ZenonT(30)

\* So it does for a sale.
LEMMA ReceiveCreateOK ==
  ASSUME IInv, NEW r \in Request, ReceiveCreate(r)
  PROVE  IInv' /\ db' = db
<1>1. PICK key \in Key \cup {NoKey}, seller \in Seller, pay \in Payload,
           allowed \in BOOLEAN, s \in SaleId \cup {Absent} :
        /\ IF s = Absent THEN key # NoKey /\ db.ops[key] # Absent ELSE NewSaleId(s)
        /\ Receive(r, [kind |-> "create", key |-> key, seller |-> seller, pay |-> pay,
                       sale |-> s, allowed |-> allowed],
                   IF key = NoKey THEN "begin" ELSE "lookup")
        /\ UNCHANGED updates
  BY DEF ReceiveCreate
<1> DEFINE body == [kind |-> "create", key |-> key, seller |-> seller, pay |-> pay,
                    sale |-> s, allowed |-> allowed]
           stage == IF key = NoKey THEN "begin" ELSE "lookup"
<1>2. body \in Requests /\ body.kind = "create" /\ body.key = key /\ body.sale = s
  BY DEF Requests, CreateRequest
<1> HIDE DEF body
<1>3. stage # "body" /\ stage \in StagesOf(body.kind)
  BY <1>2 DEF StagesOf
<1>4. s # Absent => db.audit[s] = Absent /\ \A q \in Request : ~ Holds(q, s)
  BY <1>1 DEF NewSaleId, Holds
<1>5. CreationOK(db, stage, body)
  BY <1>1, <1>2, <1>4 DEF CreationOK
<1>6. \A i \in SaleId : body.sale = i => \A q \in Request : q # r => ~ Holds(q, i)
  BY <1>2, <1>4, NumberTypes
<1>7. Receive(r, body, stage)
  BY <1>1 DEF body
<1>8. updates' \in 0 .. MaxUpdates
  BY <1>1 DEF IInv, Logs
<1> QED
  BY <1>2, <1>3, <1>5, <1>6, <1>7, <1>8, ReceiveOK

\* Requests other than creations.
LEMMA ReceiveOtherOK ==
  ASSUME IInv, NEW r \in Request, NEW body \in Requests, body.kind # "create",
         NEW stage, Receive(r, body, stage), stage # "body",
         stage \in StagesOf(body.kind), updates' \in 0 .. MaxUpdates
  PROVE  IInv' /\ db' = db
BY ReceiveOK

\* So it does for a correction.
LEMMA ReceiveUpdateOK ==
  ASSUME IInv, NEW r \in Request, ReceiveUpdate(r)
  PROVE  IInv' /\ db' = db
<1>1. PICK s \in SaleId, qty \in Qty \cup {Absent}, price \in Price \cup {Absent} :
        /\ updates < MaxUpdates
        /\ Receive(r, [kind |-> "update", sale |-> s, qty |-> qty, price |-> price,
                       number |-> updates + 1], "begin")
        /\ updates' = updates + 1
  BY DEF ReceiveUpdate
<1> DEFINE body == [kind |-> "update", sale |-> s, qty |-> qty, price |-> price,
                    number |-> updates + 1]
<1>2. updates \in Nat /\ MaxUpdates \in Nat
  BY SaleNumbers DEF IInv, Logs
<1>3. updates + 1 \in 1 .. MaxUpdates /\ updates' \in 0 .. MaxUpdates
  BY <1>1, <1>2
<1>4. body \in Requests /\ body.kind = "update"
  BY <1>3 DEF Requests, UpdateRequest
<1> HIDE DEF body
<1>5. "begin" \in StagesOf(body.kind)
  BY <1>4 DEF StagesOf
<1>6. Receive(r, body, "begin")
  BY <1>1 DEF body
<1> QED
  BY <1>3, <1>4, <1>5, <1>6, ReceiveOtherOK

\* So it does for a cancellation.
LEMMA ReceiveCancelOK ==
  ASSUME IInv, NEW r \in Request, ReceiveCancel(r)
  PROVE  IInv' /\ db' = db
<1>1. PICK s \in SaleId :
        Receive(r, [kind |-> "cancel", sale |-> s], "begin") /\ UNCHANGED updates
  BY DEF ReceiveCancel
<1> DEFINE body == [kind |-> "cancel", sale |-> s]
<1>2. body \in Requests /\ body.kind = "cancel"
  BY DEF Requests, CancelRequest
<1> HIDE DEF body
<1>3. "begin" \in StagesOf(body.kind) /\ updates' \in 0 .. MaxUpdates
  BY <1>1, <1>2 DEF StagesOf, IInv, Logs
<1>4. Receive(r, body, "begin")
  BY <1>1 DEF body
<1> QED
  BY <1>2, <1>3, <1>4, ReceiveOtherOK

\* So it does for a purge.
LEMMA ReceivePurgeOK ==
  ASSUME IInv, NEW r \in Request, ReceivePurge(r)
  PROVE  IInv' /\ db' = db
<1>1. PICK p \in Product :
        Receive(r, [kind |-> "purge", product |-> p], "locate") /\ UNCHANGED updates
  BY DEF ReceivePurge
<1> DEFINE body == [kind |-> "purge", product |-> p]
<1>2. body \in Requests /\ body.kind = "purge"
  BY DEF Requests, PurgeRequest
<1> HIDE DEF body
<1>3. "locate" \in StagesOf(body.kind) /\ updates' \in 0 .. MaxUpdates
  BY <1>1, <1>2 DEF StagesOf, IInv, Logs
<1>4. Receive(r, body, "locate")
  BY <1>1 DEF body
<1> QED
  BY <1>2, <1>3, <1>4, ReceiveOtherOK

\* So it does for a change of a product.
LEMMA ReceivePatchOK ==
  ASSUME IInv, NEW r \in Request, ReceivePatch(r)
  PROVE  IInv' /\ db' = db
<1>1. PICK p \in Product, added \in {0, 1}, cost \in Cost \cup {Absent}, move \in BOOLEAN :
        /\ Receive(r, [kind |-> "patch", product |-> p, added |-> added,
                       cost |-> cost, move |-> move], "read")
        /\ UNCHANGED updates
  BY DEF ReceivePatch
<1> DEFINE body == [kind |-> "patch", product |-> p, added |-> added,
                    cost |-> cost, move |-> move]
<1>2. body \in Requests /\ body.kind = "patch"
  BY DEF Requests, PatchRequest
<1> HIDE DEF body
<1>3. "read" \in StagesOf(body.kind) /\ updates' \in 0 .. MaxUpdates
  BY <1>1, <1>2 DEF StagesOf, IInv, Logs
<1>4. Receive(r, body, "read")
  BY <1>1 DEF body
<1> QED
  BY <1>2, <1>3, <1>4, ReceiveOtherOK

----------------------------------------------------------------------------
(* Steps that write nothing *)

\* A transaction that starts, or starts over, keeps the invariant: its snapshot
\* is consistent and nothing has been written since.
LEMMA BeginOK ==
  ASSUME IInv, NEW r \in Request, Begin(r)
  PROVE  IInv' /\ db' = db
<1>1. /\ pc[r] = "begin" /\ db' = db
      /\ pc' = [pc EXCEPT ![r] = "body"]
      /\ snap' = [snap EXCEPT ![r] = db]
      /\ dirty' = [dirty EXCEPT ![r] = NoDocs]
      /\ UNCHANGED <<req, acked, restockLog, updates>>
  BY DEF Begin
<1>2. Busy(db, "begin", req[r], snap[r], dirty[r])
  BY <1>1, BusyHandler
<1>3. "body" \in StagesOf(req[r].kind)
  BY <1>2, RequestTypes DEF Busy, StagesOf
<1>4. req[r].kind = "create" => CreationOK(db, "body", req[r])
  BY <1>2 DEF Busy, CreationOK
<1>5. OK(db) /\ Evolves(db, db, dirty'[r])
  BY EvolvesStart DEF IInv
<1>6. HandlerOK(db, "body", req[r], db, dirty'[r])
  BY <1>2, <1>3, <1>4, <1>5 DEF HandlerOK, Busy
<1>7. Adds(r, NoDocs)
  BY <1>1, NoDocsType DEF IInv, Adds, NoDocs
<1>8. req' = [req EXCEPT ![r] = req[r]] /\ Acks' /\ Logs'
  BY <1>1 DEF IInv, Acks, Logs
<1> QED
  BY <1>1, <1>6, <1>7, <1>8, KeepsId, QuietSteps

\* Creations in the stages outside of the transaction.
LEMMA CreationStage ==
  ASSUME IInv, NEW r \in Request, pc[r] \in {"lookup", "winner", "replay", "answer"}
  PROVE  /\ req[r] \in CreateRequest /\ req[r].kind = "create"
         /\ CreationOK(db, pc[r], req[r])
BY BusyHandler, StageKind, RequestTypes DEF Busy

\* Looking the key up keeps the invariant.
LEMMA LookupOK ==
  ASSUME IInv, NEW r \in Request, Lookup(r)
  PROVE  IInv' /\ db' = db
<1>1. /\ pc[r] = "lookup"
      /\ Acks' /\ Logs' /\ db' = db
  BY DEF Lookup, Goto, Leave, IInv, Acks, Logs
<1>2. req[r].kind = "create" /\ CreationOK(db, "lookup", req[r])
  BY <1>1, CreationStage
<1>3. CASE db.ops[req[r].key] # Absent /\ Goto(r, "replay")
  <2>1. CreationOK(db, "replay", req[r]) /\ "replay" \in StagesOf(req[r].kind)
    BY <1>2, <1>3 DEF CreationOK, StagesOf
  <2> QED
    BY <1>1, <1>3, <2>1, GotoOK
<1>4. CASE db.ops[req[r].key] = Absent /\ Goto(r, "begin")
  <2>1. CreationOK(db, "begin", req[r]) /\ "begin" \in StagesOf(req[r].kind)
    BY <1>2, <1>4 DEF CreationOK, StagesOf
  <2> QED
    BY <1>1, <1>4, <2>1, GotoOK
<1>5. CASE Leave(r)
  BY <1>1, <1>5, EndsOK
<1> QED
  BY <1>3, <1>4, <1>5 DEF Lookup

\* Reading the winner of a race for the key keeps the invariant.
LEMMA WinnerOK ==
  ASSUME IInv, NEW r \in Request, Winner(r)
  PROVE  IInv' /\ db' = db
<1>1. /\ pc[r] = "winner"
      /\ Acks' /\ Logs' /\ db' = db
  BY DEF Winner, Goto, Leave, IInv, Acks, Logs
<1>2. req[r].kind = "create" /\ CreationOK(db, "winner", req[r])
  BY <1>1, CreationStage
<1>3. CASE db.ops[req[r].key] # Absent /\ Goto(r, "replay")
  <2>1. CreationOK(db, "replay", req[r]) /\ "replay" \in StagesOf(req[r].kind)
    BY <1>2, <1>3 DEF CreationOK, StagesOf
  <2> QED
    BY <1>1, <1>3, <2>1, GotoOK
<1>4. CASE Leave(r)
  BY <1>1, <1>4, EndsOK
<1> QED
  BY <1>3, <1>4 DEF Winner

\* Returning the sale of key k keeps the acknowledgements.
LEMMA AcknowledgeOK ==
  ASSUME IInv, NEW k \in Key \cup {NoKey}, NEW s, Acknowledge(k, s), db' = db,
         k # NoKey => db.ops[k] # Absent /\ db.ops[k].sale = s
  PROVE  Acks'
<1>1. CASE k = NoKey
  BY <1>1 DEF IInv, Acks, Acknowledge
<1>2. CASE k # NoKey
  <2>1. acked' = [acked EXCEPT ![k] = @ \cup {s}]
    BY <1>2 DEF Acknowledge
  <2>2. s \in SaleId
    BY <1>2, OperationType DEF IInv, OK
  <2> QED
    BY <1>2, <2>1, <2>2 DEF IInv, Acks
<1> QED
  BY <1>1, <1>2

\* Answering a replay keeps the invariant: the sale is the one its key recorded.
LEMMA ReplayOK ==
  ASSUME IInv, NEW r \in Request, Replay(r)
  PROVE  IInv' /\ db' = db
<1>1. pc[r] = "replay" /\ Leave(r) /\ db' = db /\ UNCHANGED <<restockLog, updates>>
  BY DEF Replay, Leave
<1>2. /\ req[r].key \in Key /\ db.ops[req[r].key] # Absent
  BY <1>1, CreationStage DEF CreationOK, CreateRequest
<1>3. Acks'
  <2>1. CASE Acknowledge(req[r].key, db.ops[req[r].key].sale)
    BY <1>1, <1>2, <2>1, AcknowledgeOK
  <2>2. CASE UNCHANGED acked
    BY <1>1, <2>2 DEF IInv, Acks
  <2> QED
    BY <2>1, <2>2 DEF Replay
<1>4. Logs'
  BY <1>1 DEF IInv, Logs
<1> QED
  BY <1>1, <1>3, <1>4, EndsOK

\* The answer keeps the invariant: the sale acknowledged is the one committed.
LEMMA AnswerOK ==
  ASSUME IInv, NEW r \in Request, Answer(r)
  PROVE  IInv' /\ db' = db
<1>1. /\ pc[r] = "answer" /\ Leave(r) /\ db' = db /\ UNCHANGED <<restockLog, updates>>
      /\ Acknowledge(req[r].key, req[r].sale)
  BY DEF Answer, Leave
<1>2. /\ req[r].key \in Key \cup {NoKey}
      /\ req[r].key # NoKey =>
           db.ops[req[r].key] # Absent /\ db.ops[req[r].key].sale = req[r].sale
  BY <1>1, CreationStage DEF CreationOK, CreateRequest
<1>3. Acks'
  BY <1>1, <1>2, AcknowledgeOK
<1>4. Logs'
  BY <1>1 DEF IInv, Logs
<1> QED
  BY <1>1, <1>3, <1>4, EndsOK

\* Locating the product to purge keeps the invariant.
LEMMA LocateOK ==
  ASSUME IInv, NEW r \in Request, Locate(r)
  PROVE  IInv' /\ db' = db
<1>1. /\ pc[r] = "locate"
      /\ Acks' /\ Logs' /\ db' = db
  BY DEF Locate, Goto, Leave, IInv, Acks, Logs
<1>2. req[r].kind = "purge" /\ "begin" \in StagesOf(req[r].kind)
  BY <1>1, BusyHandler, StageKind DEF StagesOf
<1>3. CASE Goto(r, "begin")
  BY <1>1, <1>2, <1>3, GotoOK
<1>4. CASE Leave(r)
  BY <1>1, <1>4, EndsOK
<1> QED
  BY <1>3, <1>4 DEF Locate

\* A crash of a handler keeps the invariant.
LEMMA FailOK ==
  ASSUME IInv, NEW r \in Request, Fail(r)
  PROVE  IInv' /\ db' = db
<1>1. pc[r] # "idle" /\ Abort(r) /\ db' = db /\ Acks' /\ Logs'
  BY DEF Fail, Abort, IInv, Acks, Logs
<1> QED
  BY <1>1, EndsOK

----------------------------------------------------------------------------
(* Modifications of a product *)

\* A handler that patches a product is at one of the patch's stages.
LEMMA PatchStage ==
  ASSUME IInv, NEW r \in Request, pc[r] \in {"read", "log", "section", "write"}
  PROVE  /\ req[r] \in Requests /\ req[r] \in PatchRequest
         /\ req[r].kind = "patch" /\ snap[r] = Absent
         /\ {"log", "section", "write"} \subseteq StagesOf(req[r].kind)
<1>1. req[r] \in Requests /\ req[r].kind = "patch" /\ snap[r] = Absent
  BY BusyHandler, StageKind
<1> QED
  BY <1>1, RequestTypes DEF StagesOf

\* Reading the product to patch keeps the invariant.
LEMMA PatchReadOK ==
  ASSUME IInv, NEW r \in Request, PatchRead(r)
  PROVE  IInv' /\ db' = db
<1>1. pc[r] = "read" /\ Acks' /\ Logs' /\ db' = db
  BY DEF PatchRead, Leave, IInv, Acks, Logs
<1>2. CASE Leave(r)
  BY <1>1, <1>2, EndsOK
<1>3. CASE ~ Leave(r)
  <2> DEFINE q == req[r]
             doc == db.products[q.product]
             body == [q EXCEPT !.cost = IF @ = doc.cost THEN Absent ELSE @]
  <2>1. /\ req' = [req EXCEPT ![r] = body]
        /\ pc' = [pc EXCEPT ![r] = "log"]
        /\ UNCHANGED <<snap, dirty>>
    BY <1>3 DEF PatchRead, IInv
  <2>2. q \in PatchRequest /\ snap[r] = Absent
    BY <1>1, PatchStage
  <2>3. body \in PatchRequest /\ body.kind = "patch"
    BY <2>2 DEF PatchRequest
  <2> HIDE DEF body
  <2>4. body \in Requests /\ "log" \in StagesOf(body.kind)
    BY <2>3 DEF Requests, StagesOf
  <2>5. HandlerOK(db, "log", body, Absent, dirty'[r])
    BY <2>3, <2>4 DEF HandlerOK, Busy
  <2>6. snap' = [snap EXCEPT ![r] = Absent] /\ Adds(r, NoDocs)
    BY <2>1, <2>2, SameAdds DEF IInv
  <2>7. \A i \in SaleId : body # Absent /\ body.kind = "create" /\ body.sale = i =>
          \A a \in Request : a # r => ~ Holds(a, i)
    BY <2>3
  <2> QED
    BY <1>1, <2>1, <2>5, <2>6, <2>7, QuietSteps, ZenonT(60)
<1> QED
  BY <1>2, <1>3

\* Auditing the patch keeps the invariant.
LEMMA PatchLogOK ==
  ASSUME IInv, NEW r \in Request, PatchLog(r)
  PROVE  IInv' /\ db' = db
<1> DEFINE p == req[r].product
           stage == IF req[r].move THEN "section" ELSE "write"
<1>1. /\ pc[r] = "log" /\ Goto(r, stage) /\ db' = db
      /\ restockLog' = [restockLog EXCEPT ![p] = @ + req[r].added]
      /\ UNCHANGED <<acked, updates>>
  BY DEF PatchLog, Goto
<1>2. /\ req[r] \in PatchRequest /\ req[r].kind = "patch"
      /\ stage \in StagesOf(req[r].kind)
  BY <1>1, PatchStage
<1>3. req[r].added \in Nat /\ p \in Product
  BY <1>2 DEF PatchRequest
<1>4. Logs'
  BY <1>1, <1>3 DEF IInv, Logs
<1>5. Acks'
  BY <1>1 DEF IInv, Acks
<1> QED
  BY <1>1, <1>2, <1>4, <1>5, GotoOK

\* Checking the target section keeps the invariant.
LEMMA PatchSectionOK ==
  ASSUME IInv, NEW r \in Request, PatchSection(r)
  PROVE  IInv' /\ db' = db
<1>1. pc[r] = "section" /\ Acks' /\ Logs' /\ db' = db
  BY DEF PatchSection, Goto, Leave, IInv, Acks, Logs
<1>2. CASE Goto(r, "write")
  <2>1. req[r].kind = "patch" /\ "write" \in StagesOf(req[r].kind)
    BY <1>1, PatchStage
  <2> QED
    BY <1>1, <1>2, <2>1, GotoOK
<1>3. CASE Leave(r)
  BY <1>1, <1>3, EndsOK
<1> QED
  BY <1>2, <1>3 DEF PatchSection

\* A write of one product, outside of a transaction.
LEMMA WriteAdds ==
  ASSUME IInv, NEW p \in Product, NEW n, WriteProduct(p, n), NEW r \in Request
  PROVE  /\ db' = n /\ snap' = snap
         /\ \A docs : docs.products = {p} /\ docs.sales = {} /\ docs.ops = {}
              => Adds(r, docs)
<1>1. /\ db' = n /\ snap' = snap
      /\ dirty' = [q \in Request |->
                     IF snap[q] = Absent THEN NoDocs
                     ELSE [dirty[q] EXCEPT !.products = @ \cup {p}]]
  BY DEF WriteProduct
<1>2. dirty \in [Request -> DocSets]
  BY DEF IInv
<1>3. dirty' \in [Request -> DocSets]
  BY <1>1, <1>2 DEF DocSets, NoDocs
<1>4. \A q \in Request : snap[q] # Absent =>
        /\ dirty'[q].products = dirty[q].products \cup {p}
        /\ dirty'[q].sales = dirty[q].sales
        /\ dirty'[q].ops = dirty[q].ops
  BY <1>1, <1>2 DEF DocSets
<1> QED
  BY <1>1, <1>3, <1>4 DEF Adds

\* Such a write is an operation of the book, and a step of handler r that
\* keeps its place or ends.
LEMMA WriteOK ==
  ASSUME IInv, NEW p \in Product, NEW n, WriteProduct(p, n),
         Operation(db, n), n = [db EXCEPT !.products = n.products],
         \A q \in Product : n.products[q] # db.products[q] => q = p,
         \A q \in Product : db.products[q] = Absent => n.products[q] = Absent,
         NEW r \in Request,
         \/ UNCHANGED <<pc, req>>
         \/ pc[r] \notin {"idle", "body"} /\ Finish(r),
         UNCHANGED <<acked, restockLog, updates>>
  PROVE  IInv' /\ Operation(db, db')
<1> DEFINE docs == [products |-> {p}, sales |-> {}, ops |-> {}]
<1>1. db' = n /\ snap' = snap /\ Adds(r, docs)
  BY WriteAdds
<1>2. db \in Database
  BY DEF IInv, OK
<1>3. /\ n.sales = db.sales /\ n.ops = db.ops /\ n.audit = db.audit
  BY <1>2 DEF Database
<1>4. Covers(docs, db, n)
  BY <1>3 DEF Covers
<1>5. Evolves(db, n, docs)
  BY <1>2, <1>4, ProductEvolves
<1>6. OK(n)
  BY OperationOK DEF IInv
<1>7. \A i \in SaleId : db.audit[i] = Absent /\ db'.audit[i] # Absent => Holds(r, i)
  BY <1>1, <1>3
<1>8. Acks' /\ Logs' /\ OK(db') /\ Evolves(db, db', docs)
  BY <1>1, <1>3, <1>5, <1>6 DEF IInv, Acks, Logs
<1>9. IInv'
  <2>1. CASE UNCHANGED <<pc, req>>
    <3>1. HandlerOK(db', pc[r], req[r], snap[r], dirty'[r])
      <4>1. CASE pc[r] = "idle" /\ req[r] = Absent /\ snap[r] = Absent
        BY <4>1 DEF HandlerOK
      <4>2. CASE Busy(db, pc[r], req[r], snap[r], dirty[r])
        <5>1. snap[r] # Absent =>
                /\ dirty[r].products \cup docs.products \subseteq dirty'[r].products
                /\ dirty[r].sales \cup docs.sales \subseteq dirty'[r].sales
                /\ dirty[r].ops \cup docs.ops \subseteq dirty'[r].ops
          BY DEF WriteProduct, IInv, DocSets
        <5>2. Busy(db', pc[r], req[r], snap[r], dirty'[r])
          BY <1>1, <1>3, <1>5, <4>2, <5>1, BusyOn
        <5> QED
          BY <5>2 DEF HandlerOK
      <4> QED
        BY <4>1, <4>2 DEF IInv, HandlerOK
    <3>2. /\ pc' = [pc EXCEPT ![r] = pc[r]] /\ req' = [req EXCEPT ![r] = req[r]]
          /\ snap' = [snap EXCEPT ![r] = snap[r]]
      BY <1>1, <2>1 DEF IInv
    <3> HIDE DEF docs
    <3> QED
      <4>1. \A i \in SaleId :
              req[r] # Absent /\ req[r].kind = "create" /\ req[r].sale = i =>
                \A q \in Request : q # r => ~ Holds(q, i)
        BY KeepsId
      <4>2. Adds(r, docs)
        BY <1>1
      <4> QED
        BY <1>7, <1>8, <3>1, <3>2, <4>1, <4>2, OneSteps
  <2>2. CASE pc[r] \notin {"idle", "body"} /\ Finish(r)
    <3>1. /\ pc' = [pc EXCEPT ![r] = "idle"] /\ req' = [req EXCEPT ![r] = Absent]
          /\ snap' = [snap EXCEPT ![r] = Absent]
      BY <1>1, <2>2, BusyHandler DEF Finish, IInv
    <3>2. HandlerOK(db', "idle", Absent, Absent, dirty'[r])
      BY DEF HandlerOK
    <3> HIDE DEF docs
    <3> QED
      BY <1>1, <1>7, <1>8, <3>1, <3>2, OneSteps
  <2> QED
    BY <2>1, <2>2
<1> QED
  BY <1>1, <1>9

\* The atomic increments of a patch keep the invariant, with the snapshots of
\* the transactions under way.
LEMMA PatchWriteOK ==
  ASSUME IInv, NEW r \in Request, PatchWrite(r)
  PROVE  IInv' /\ (db' = db \/ Operation(db, db'))
<1> DEFINE q == req[r]
           p == q.product
           n == Patch(db, p, q.added, q.cost)
<1>1. /\ pc[r] = "write" /\ Finish(r) /\ UNCHANGED <<acked, restockLog, updates>>
      /\ \/ UNCHANGED <<db, snap, dirty>>
         \/ db.products[p] # Absent /\ WriteProduct(p, n)
  BY DEF PatchWrite
<1>2. CASE UNCHANGED <<db, snap, dirty>>
  <2>1. Leave(r) /\ Acks' /\ Logs'
    BY <1>1, <1>2 DEF Leave, IInv, Acks, Logs
  <2> QED
    BY <1>1, <1>2, <2>1, EndsOK
<1>3. CASE db.products[p] # Absent /\ WriteProduct(p, n)
  <2>1. p \in Product /\ q.added \in {0, 1} /\ q.cost \in Cost \cup {Absent}
    BY <1>1, PatchStage DEF PatchRequest
  <2>2. /\ n = [db EXCEPT !.products = n.products]
        /\ \A a \in Product : a # p => n.products[a] = db.products[a]
    BY <1>3, <2>1, ProductFields DEF IInv, OK
  <2>3. Operation(db, n)
    BY <1>3, <2>1 DEF Operation
  <2> HIDE DEF n
  <2> QED
    BY <1>1, <1>3, <2>1, <2>2, <2>3, WriteOK
<1> QED
  BY <1>1, <1>2, <1>3

\* Trashing and restoring keep the invariant, with those snapshots.
LEMMA TrashStepOK ==
  ASSUME IInv, NEW p \in Product, NEW flag \in BOOLEAN, NEW r \in Request,
         db.products[p] # Absent, WriteProduct(p, SetTrashed(db, p, flag)),
         UNCHANGED <<pc, req, acked, restockLog, updates>>
  PROVE  IInv' /\ Operation(db, db')
<1> DEFINE n == SetTrashed(db, p, flag)
<1>0. db \in Database
  BY DEF IInv, OK
<1>1. /\ n = [db EXCEPT !.products = n.products]
      /\ n.products = [db.products EXCEPT ![p].trashed = flag]
  BY <1>0, ProductFields
<1>2. \A q \in Product : q # p => n.products[q] = db.products[q]
  BY <1>0, <1>1, Collections
<1>3. Operation(db, n) /\ WriteProduct(p, n)
  BY DEF Operation
<1> HIDE DEF n
<1>4. \A q \in Product : n.products[q] # db.products[q] => q = p
  BY <1>2
<1>5. \A q \in Product : db.products[q] = Absent => n.products[q] = Absent
  BY <1>2
<1>6. /\ \/ UNCHANGED <<pc, req>>
         \/ pc[r] \notin {"idle", "body"} /\ Finish(r)
      /\ UNCHANGED <<acked, restockLog, updates>>
  OBVIOUS
<1>7. n = [db EXCEPT !.products = n.products]
  BY <1>1
<1>8. IInv' /\ Operation(db, db')
  BY <1>3, <1>4, <1>5, <1>6, <1>7, WriteOK
<1> QED
  BY <1>8

----------------------------------------------------------------------------
(* Transactions *)

\* A merge changes only the documents its transaction wrote.
LEMMA MergeCovers ==
  ASSUME NEW c \in Database, NEW s, NEW n
  PROVE  /\ Covers(Written(s, n), c, Merge(c, s, n))
         /\ Written(s, n) \in DocSets
<1>1. /\ \A p \in Product : Merge(c, s, n).products[p] =
           IF n.products[p] # s.products[p] THEN n.products[p] ELSE c.products[p]
      /\ \A i \in SaleId : Merge(c, s, n).sales[i] =
           IF n.sales[i] # s.sales[i] THEN n.sales[i] ELSE c.sales[i]
      /\ \A k \in Key : Merge(c, s, n).ops[k] =
           IF n.ops[k] # s.ops[k] THEN n.ops[k] ELSE c.ops[k]
  <2>1. DOMAIN c.products = Product /\ DOMAIN c.sales = SaleId /\ DOMAIN c.ops = Key
    BY Collections
  <2> QED
    BY <2>1 DEF Merge, Newer
<1>2. Written(s, n) \in DocSets
  BY DEF Written, DocSets
<1>3. Covers(Written(s, n), c, Merge(c, s, n))
  BY <1>1 DEF Covers, Written
<1> QED
  BY <1>2, <1>3

\* What was acknowledged stays recorded when the documents move on.
LEMMA AcksOn ==
  ASSUME IInv, NEW docs, Evolves(db, db', docs), UNCHANGED acked
  PROVE  Acks'
BY DEF IInv, Acks, Evolves

\* A transaction of handler r, in its body.
LEMMA BodyHandler ==
  ASSUME IInv, NEW r \in Request, pc[r] = "body"
  PROVE  /\ OK(snap[r]) /\ OK(db) /\ Evolves(snap[r], db, dirty[r])
         /\ req[r] \in Requests
         /\ req[r].kind = "create" => CreationOK(db, "body", req[r])
BY BusyHandler DEF IInv, Busy

\* Handler r commits, and its operation happens to the current documents.
LEMMA CommitOK ==
  ASSUME IInv, NEW r \in Request, pc[r] = "body", NEW n, Commit(r, n),
         LET m == Merge(db, snap[r], n)
         IN  m = db \/ (Operation(db, m) /\ Evolves(db, m, Written(snap[r], n))),
         \A i \in SaleId : db.audit[i] = Absent /\ db'.audit[i] # Absent => Holds(r, i),
         NEW stage, pc' = [pc EXCEPT ![r] = stage],
         NEW body, req' = [req EXCEPT ![r] = body], body \in {req[r], Absent},
         HandlerOK(db', stage, body, Absent, dirty'[r]),
         UNCHANGED <<acked, restockLog, updates>>
  PROVE  IInv' /\ (db' = db \/ Operation(db, db'))
<1> DEFINE docs == Written(snap[r], n)
<1>1. db' = Merge(db, snap[r], n) /\ LeaveTx(r, docs)
  BY DEF Commit
<1>2. docs \in DocSets
  BY MergeCovers DEF IInv, OK
<1>3. snap' = [snap EXCEPT ![r] = Absent] /\ Adds(r, docs)
  BY <1>1, <1>2, LeaveTxAdds
<1>4. OK(db') /\ Evolves(db, db', docs)
  BY <1>1, OperationOK, EvolvesStart DEF IInv
<1>5. Acks' /\ Logs'
  BY <1>4, AcksOn DEF IInv, Logs
<1>6. \A i \in SaleId : body # Absent /\ body.kind = "create" /\ body.sale = i =>
        \A q \in Request : q # r => ~ Holds(q, i)
  BY KeepsId
<1> HIDE DEF docs
<1>7. IInv'
  BY <1>3, <1>4, <1>5, <1>6, OneSteps
<1> QED
  BY <1>1, <1>7

\* A correction, a cancellation or a purge commits, and its handler ends.
LEMMA CommitEnds ==
  ASSUME IInv, NEW r \in Request, pc[r] = "body", NEW n, Commit(r, n), Finish(r),
         LET m == Merge(db, snap[r], n)
         IN  m = db \/ (Operation(db, m) /\ Evolves(db, m, Written(snap[r], n))),
         \A i \in SaleId : db.audit[i] = Absent => Merge(db, snap[r], n).audit[i] = Absent,
         UNCHANGED <<acked, restockLog, updates>>
  PROVE  IInv' /\ (db' = db \/ Operation(db, db'))
<1>1. /\ pc' = [pc EXCEPT ![r] = "idle"] /\ req' = [req EXCEPT ![r] = Absent]
      /\ db' = Merge(db, snap[r], n)
  BY DEF Finish, Commit
<1>2. HandlerOK(db', "idle", Absent, Absent, dirty'[r])
  BY DEF HandlerOK
<1>3. \A i \in SaleId : db.audit[i] = Absent /\ db'.audit[i] # Absent => Holds(r, i)
  BY <1>1
<1> QED
  BY <1>1, <1>2, <1>3, CommitOK

\* The transaction of a correction keeps the invariant.
LEMMA UpdateTxOK ==
  ASSUME IInv, NEW r \in Request, UpdateTx(r)
  PROVE  IInv' /\ (db' = db \/ Operation(db, db'))
<1> DEFINE u == req[r]
           s == snap[r]
           n == Change(s, u)
           m == Merge(db, s, n)
<1>1. pc[r] = "body" /\ u.kind = "update" /\ UNCHANGED <<acked, restockLog, updates>>
  BY DEF UpdateTx
<1>2. OK(s) /\ OK(db) /\ Evolves(s, db, dirty[r])
  BY <1>1, BodyHandler
<1>3. /\ u.sale \in SaleId /\ u.number \in 1 .. MaxUpdates
      /\ u.qty \in Qty \cup {Absent} /\ u.price \in Price \cup {Absent}
      /\ u = [sale |-> u.sale, qty |-> u.qty, price |-> u.price, number |-> u.number,
              kind |-> "update"]
  BY <1>1, BodyHandler, RequestTypes DEF UpdateRequest
<1>4. CASE Abort(r)
  <2>1. db' = db /\ Acks' /\ Logs'
    BY <1>1, <1>4 DEF Abort, IInv, Acks, Logs
  <2> QED
    BY <1>1, <1>4, <2>1, EndsOK
<1>5. CASE Retry(r)
  BY <1>1, <1>5, RetryOK DEF Retry
<1>6. CASE ChangeOutcome(s, u) = "ok" /\ Commit(r, n) /\ Finish(r)
  <2>1. Disjoint(Written(s, n), dirty[r])
    BY <1>6 DEF Commit, Conflict
  <2>2. m = db \/ (ChangeOutcome(db, u) = "ok" /\ m = Change(db, u))
    BY <1>2, <1>3, <1>6, <2>1, MergeChange
  <2>3. Covers(Written(s, n), db, m)
    BY <1>2, MergeCovers DEF OK
  <2>4. m # db => Operation(db, m) /\ Evolves(db, m, Written(s, n))
    <3> SUFFICES ASSUME m # db
                 PROVE  Operation(db, m) /\ Evolves(db, m, Written(s, n))
      OBVIOUS
    <3>1. ChangeOutcome(db, u) = "ok" /\ m = Change(db, u)
      BY <2>2
    <3>2. Operation(db, m)
      <4> DEFINE w == [sale |-> u.sale, qty |-> u.qty, price |-> u.price,
                       number |-> u.number]
      <4>1. ChangeOutcome(db, w) = ChangeOutcome(db, u) /\ Change(db, w) = Change(db, u)
        BY ZenonT(30) DEF ChangeOutcome, Change, Returned
      <4> QED
        BY <1>3, <3>1, <4>1 DEF Operation
    <3>3. Evolves(db, m, Written(s, n))
      BY <1>2, <1>3, <2>3, <3>1, ChangeEvolves
    <3> QED
      BY <3>2, <3>3
  <2>5. \A i \in SaleId : db.audit[i] = Absent => m.audit[i] = Absent
    <3> SUFFICES ASSUME m # db, NEW i \in SaleId, db.audit[i] = Absent
                 PROVE  m.audit[i] = Absent
      OBVIOUS
    <3>1. ChangeOutcome(db, u) = "ok" /\ m = Change(db, u)
      BY <2>2
    <3>2. /\ db \in Database /\ AuditTells(db)
      BY <1>2 DEF OK
    <3>3. /\ db.sales[u.sale] # Absent
          /\ Change(db, u).audit = [db.audit EXCEPT ![u.sale] =
                          [@ EXCEPT !.qty = Given(u.qty, db.sales[u.sale].qty)]]
      <4> HIDE DEF u
      <4> QED
        BY <1>3, <3>1, <3>2, ChangeFields, Zenon
    <3>4. i # u.sale
      BY <1>3, <3>2, <3>3 DEF AuditTells
    <3>5. Change(db, u).audit[i] = Absent
      BY <3>2, <3>3, <3>4, Collections
    <3> QED
      BY <3>1, <3>5
  <2> HIDE DEF n
  <2> QED
    BY <1>1, <1>6, <2>4, <2>5, CommitEnds
<1> QED
  BY <1>4, <1>5, <1>6 DEF UpdateTx

\* The transaction of a cancellation keeps the invariant.
LEMMA CancelTxOK ==
  ASSUME IInv, NEW r \in Request, CancelTx(r)
  PROVE  IInv' /\ (db' = db \/ Operation(db, db'))
<1> DEFINE i == req[r].sale
           s == snap[r]
           n == Cancel(s, i)
           m == Merge(db, s, n)
<1>1. pc[r] = "body" /\ req[r].kind = "cancel" /\ UNCHANGED <<acked, restockLog, updates>>
  BY DEF CancelTx
<1>2. OK(s) /\ OK(db) /\ Evolves(s, db, dirty[r])
  BY <1>1, BodyHandler
<1>3. i \in SaleId
  BY <1>1, BodyHandler, RequestTypes DEF CancelRequest
<1>4. CASE Abort(r)
  <2>1. db' = db /\ Acks' /\ Logs'
    BY <1>1, <1>4 DEF Abort, IInv, Acks, Logs
  <2> QED
    BY <1>1, <1>4, <2>1, EndsOK
<1>5. CASE Retry(r)
  BY <1>1, <1>5, RetryOK DEF Retry
<1>6. CASE CancelOutcome(s, i) = "ok" /\ Commit(r, n) /\ Finish(r)
  <2>1. Disjoint(Written(s, n), dirty[r])
    BY <1>6 DEF Commit, Conflict
  <2>2. CancelOutcome(db, i) = "ok" /\ m = Cancel(db, i)
    BY <1>2, <1>3, <1>6, <2>1, MergeCancel
  <2>3. Covers(Written(s, n), db, m)
    BY <1>2, MergeCovers DEF OK
  <2>4. Operation(db, m)
    BY <1>3, <2>2 DEF Operation
  <2>5. Evolves(db, m, Written(s, n))
    BY <1>2, <1>3, <2>2, <2>3, CancelEvolves
  <2>6. \A j \in SaleId : db.audit[j] = Absent => m.audit[j] = Absent
    <3>1. db \in Database /\ AuditTells(db)
      BY <1>2 DEF OK
    <3>2. /\ db.sales[i] # Absent
          /\ Cancel(db, i).audit = [db.audit EXCEPT ![i] = [@ EXCEPT !.cancelled = TRUE]]
      <4> HIDE DEF i
      <4> QED
        BY <1>3, <2>2, <3>1, CancelFields
    <3>3. db.audit[i] # Absent
      BY <1>3, <3>1, <3>2 DEF AuditTells
    <3>4. \A j \in SaleId : db.audit[j] = Absent => Cancel(db, i).audit[j] = Absent
      BY <3>1, <3>2, <3>3, Collections
    <3> QED
      BY <2>2, <3>4
  <2> HIDE DEF n
  <2> QED
    BY <1>1, <1>6, <2>4, <2>5, <2>6, CommitEnds
<1> QED
  BY <1>4, <1>5, <1>6 DEF CancelTx

\* The transaction of a purge keeps the invariant.
LEMMA PurgeTxOK ==
  ASSUME IInv, NEW r \in Request, PurgeTx(r)
  PROVE  IInv' /\ (db' = db \/ Operation(db, db'))
<1> DEFINE p == req[r].product
           s == snap[r]
           n == Purge(s, p)
           m == Merge(db, s, n)
<1>1. pc[r] = "body" /\ req[r].kind = "purge" /\ UNCHANGED <<acked, restockLog, updates>>
  BY DEF PurgeTx
<1>2. OK(s) /\ OK(db) /\ Evolves(s, db, dirty[r])
  BY <1>1, BodyHandler
<1>3. p \in Product
  BY <1>1, BodyHandler, RequestTypes DEF PurgeRequest
<1>4. CASE Abort(r)
  <2>1. db' = db /\ Acks' /\ Logs'
    BY <1>1, <1>4 DEF Abort, IInv, Acks, Logs
  <2> QED
    BY <1>1, <1>4, <2>1, EndsOK
<1>5. CASE Retry(r)
  BY <1>1, <1>5, RetryOK DEF Retry
<1>6. CASE s.products[p] # Absent /\ Commit(r, n) /\ Finish(r)
  <2>1. Disjoint(Written(s, n), dirty[r])
    BY <1>6 DEF Commit, Conflict
  <2>2. db.products[p] # Absent /\ m = Purge(db, p)
    BY <1>2, <1>3, <1>6, <2>1, MergePurge
  <2>3. Covers(Written(s, n), db, m)
    BY <1>2, MergeCovers DEF OK
  <2>4. Operation(db, m)
    BY <1>3, <2>2 DEF Operation
  <2>5. Evolves(db, m, Written(s, n))
    BY <1>2, <1>3, <2>2, <2>3, PurgeEvolves
  <2>6. \A j \in SaleId : db.audit[j] = Absent => m.audit[j] = Absent
    <3>1. Purge(db, p).audit = db.audit
      <4> HIDE DEF p
      <4> QED
        BY <1>2, <1>3, <2>2, PurgeFields DEF OK
    <3> QED
      BY <2>2, <3>1
  <2> HIDE DEF n
  <2> QED
    BY <1>1, <1>6, <2>4, <2>5, <2>6, CommitEnds
<1> QED
  BY <1>4, <1>5, <1>6 DEF PurgeTx

\* The transaction of a sale keeps the invariant, whether it commits, is refused
\* or starts over.
LEMMA CreateTxOK ==
  ASSUME IInv, NEW r \in Request, CreateTx(r)
  PROVE  IInv' /\ (db' = db \/ Operation(db, db'))
<1> DEFINE c == req[r]
           s == snap[r]
           n == Sell(s, c)
           m == Merge(db, s, n)
<1>1. pc[r] = "body" /\ c.kind = "create" /\ UNCHANGED <<acked, restockLog, updates>>
  BY DEF CreateTx
<1>2. /\ OK(s) /\ OK(db) /\ Evolves(s, db, dirty[r])
      /\ c \in Requests /\ CreationOK(db, "body", c)
  BY <1>1, BodyHandler
<1>3. /\ c \in CreateRequest
      /\ c.pay \in Payload /\ c.key \in Key \cup {NoKey} /\ c.seller \in Seller
      /\ c.sale \in SaleId /\ db.audit[c.sale] = Absent
  BY <1>1, <1>2, RequestTypes DEF CreateRequest, CreationOK
<1>4. CASE Abort(r)
  <2>1. db' = db /\ Acks' /\ Logs'
    BY <1>1, <1>4 DEF Abort, IInv, Acks, Logs
  <2> QED
    BY <1>1, <1>4, <2>1, EndsOK
<1>5. CASE Retry(r)
  BY <1>1, <1>5, RetryOK DEF Retry
<1>6. CASE SellOutcome(s, c) = "E11000" /\ pc' = [pc EXCEPT ![r] = "winner"]
           /\ LeaveTx(r, NoDocs) /\ UNCHANGED <<db, req>>
  <2>1. c.key # NoKey
    <3>1. SellOutcome(s, c) = "E11000"
      BY <1>6
    <3> QED
      BY <3>1 DEF SellOutcome
  <2>2. snap' = [snap EXCEPT ![r] = Absent] /\ Adds(r, NoDocs)
    BY <1>6, LeaveTxAdds, NoDocsType
  <2>3. CreationOK(db, "winner", c) /\ "winner" \in StagesOf(c.kind)
    BY <1>1, <1>2, <1>3, <2>1, NumberTypes DEF CreationOK, StagesOf
  <2>4. HandlerOK(db, "winner", c, Absent, dirty'[r])
    BY <1>2, <2>3 DEF HandlerOK, Busy
  <2>5. req' = [req EXCEPT ![r] = c] /\ Acks' /\ Logs' /\ db' = db
    BY <1>1, <1>6 DEF IInv, Acks, Logs
  <2>6. pc' = [pc EXCEPT ![r] = "winner"]
    BY <1>6
  <2>7. \A i \in SaleId : c # Absent /\ c.kind = "create" /\ c.sale = i =>
          \A q \in Request : q # r => ~ Holds(q, i)
    BY KeepsId
  <2> HIDE DEF c
  <2>8. IInv'
    BY <2>2, <2>4, <2>5, <2>6, <2>7, QuietSteps
  <2> QED
    BY <2>5, <2>8
<1>7. CASE /\ SellOutcome(s, c) = "ok" /\ Commit(r, n)
           /\ pc' = [pc EXCEPT ![r] = "answer"] /\ UNCHANGED req
  <2>1. Disjoint(Written(s, n), dirty[r])
    BY <1>7 DEF Commit, Conflict
  <2>2. SellOutcome(db, c) = "ok" /\ m = Sell(db, c)
    BY <1>2, <1>3, <1>7, <2>1, MergeSell
  <2>3. Covers(Written(s, n), db, m)
    BY <1>2, MergeCovers DEF OK
  <2>4. Operation(db, m)
    <3> DEFINE w == [key |-> c.key, seller |-> c.seller, pay |-> c.pay, sale |-> c.sale]
    <3>1. SellOutcome(db, w) = SellOutcome(db, c) /\ Sell(db, w) = Sell(db, c)
      BY DEF SellOutcome, Sell
    <3> QED
      BY <1>3, <2>2, <3>1 DEF Operation
  <2>5. Evolves(db, m, Written(s, n))
    BY <1>2, <1>3, <2>2, <2>3, SellEvolves
  <2>6. db' = m
    BY <1>7 DEF Commit
  <2>7. /\ db \in Database
        /\ Sell(db, c).audit = [db.audit EXCEPT ![c.sale] =
                      [key |-> c.key, qty |-> c.pay.qty, cancelled |-> FALSE]]
        /\ Sell(db, c).ops = IF c.key = NoKey THEN db.ops
                ELSE [db.ops EXCEPT ![c.key] =
                        [seller |-> c.seller, hash |-> c.pay, sale |-> c.sale]]
    <3> HIDE DEF c
    <3> QED
      BY <1>2, <1>3, <2>2, SellFields DEF OK
  <2>8. \A i \in SaleId : db.audit[i] = Absent /\ db'.audit[i] # Absent => Holds(r, i)
    <3>1. \A i \in SaleId : i # c.sale => Sell(db, c).audit[i] = db.audit[i]
      BY <2>7, Collections
    <3>2. Holds(r, c.sale)
      BY <1>1, <1>2, RequestTypes DEF Holds
    <3> QED
      BY <2>2, <2>6, <3>1, <3>2
  <2>9. c.key # NoKey => db'.ops[c.key] # Absent /\ db'.ops[c.key].sale = c.sale
    <3> DEFINE op == [seller |-> c.seller, hash |-> c.pay, sale |-> c.sale]
    <3>1. op # Absent /\ op.sale = c.sale
      <4>1. op \in OperationDoc
        BY <1>3 DEF OperationDoc
      <4> QED
        BY <4>1, NotAbsent
    <3>2. c.key # NoKey => Sell(db, c).ops[c.key] = op
      BY <1>3, <2>7, Collections
    <3> QED
      BY <2>2, <2>6, <3>1, <3>2
  <2>10. CreationOK(db', "answer", c) /\ "answer" \in StagesOf(c.kind)
    BY <1>1, <1>3, <2>9, NumberTypes DEF CreationOK, StagesOf
  <2>11. HandlerOK(db', "answer", c, Absent, dirty'[r])
    BY <1>2, <2>10 DEF HandlerOK, Busy
  <2>12. req' = [req EXCEPT ![r] = c] /\ pc' = [pc EXCEPT ![r] = "answer"]
    BY <1>7 DEF IInv
  <2>13. Commit(r, n)
    BY <1>7
  <2> HIDE DEF n
  <2> QED
    BY <1>1, <2>4, <2>5, <2>8, <2>11, <2>12, <2>13, CommitOK
<1> QED
  BY <1>4, <1>5, <1>6, <1>7 DEF CreateTx

----------------------------------------------------------------------------
(* The invariant *)

\* The invariant holds of an empty book.
LEMMA StartInv == Init => IInv
<1> SUFFICES ASSUME Init PROVE IInv
  OBVIOUS
<1>1. OK(db)
  <2>1. PICK drift \in {0, 1}, cost \in Cost : db = Book!Start(drift, cost)
    BY DEF Init, Book!Init, Book!StartDrift
  <2> QED
    BY <2>1, StartOK DEF Book!Start
<1>2. /\ pc \in [Request -> Stage]
      /\ req \in [Request -> Requests \cup {Absent}]
      /\ snap \in [Request -> Database \cup {Absent}]
      /\ dirty \in [Request -> DocSets]
      /\ Logs
  BY SaleNumbers, NoDocsType DEF Init, Stage, Logs
<1>3. \A r \in Request : HandlerOK(db, pc[r], req[r], snap[r], dirty[r])
  BY DEF Init, HandlerOK
<1>4. \A r, q \in Request, s \in SaleId : Holds(r, s) /\ Holds(q, s) => r = q
  BY DEF Init, Holds
<1>5. Acks
  BY DEF Init, Acks
<1> QED
  BY <1>1, <1>2, <1>3, <1>4, <1>5 DEF IInv

\* Every step keeps the invariant, and is an operation or leaves the
\* documents alone.
LEMMA StepInv ==
  ASSUME IInv, [Next]_vars
  PROVE  IInv' /\ (db' = db \/ Operation(db, db'))
<1>1. CASE UNCHANGED vars
  BY <1>1 DEF vars, IInv, Acks, Logs, Holds
<1>2. ASSUME NEW r \in Request,
             \/ ReceiveCreate(r) \/ ReceiveUpdate(r) \/ ReceiveCancel(r)
             \/ ReceivePurge(r) \/ ReceivePatch(r)
      PROVE  IInv' /\ db' = db
  BY <1>2, ReceiveCreateOK, ReceiveUpdateOK, ReceiveCancelOK, ReceivePurgeOK,
     ReceivePatchOK
<1>3. ASSUME NEW r \in Request,
             \/ Begin(r) \/ Lookup(r) \/ Winner(r) \/ Replay(r) \/ Answer(r)
             \/ Locate(r) \/ PatchRead(r) \/ PatchLog(r) \/ PatchSection(r) \/ Fail(r)
      PROVE  IInv' /\ db' = db
  BY <1>3, BeginOK, LookupOK, WinnerOK, ReplayOK, AnswerOK, LocateOK, PatchReadOK,
     PatchLogOK, PatchSectionOK, FailOK
<1>4. ASSUME NEW r \in Request,
             CreateTx(r) \/ UpdateTx(r) \/ CancelTx(r) \/ PurgeTx(r) \/ PatchWrite(r)
      PROVE  IInv' /\ (db' = db \/ Operation(db, db'))
  BY <1>4, CreateTxOK, UpdateTxOK, CancelTxOK, PurgeTxOK, PatchWriteOK
<1>5. ASSUME NEW p \in Product, TrashProduct(p) \/ RestoreProduct(p)
      PROVE  IInv' /\ Operation(db, db')
  <2>1. PICK r \in Request : TRUE
    BY SalesNumbers
  <2>2. PICK flag \in BOOLEAN :
          /\ db.products[p] # Absent
          /\ WriteProduct(p, SetTrashed(db, p, flag))
          /\ UNCHANGED <<pc, req, acked, restockLog, updates>>
    BY <1>5 DEF TrashProduct, RestoreProduct
  <2> QED
    BY <2>1, <2>2, TrashStepOK
<1> QED
  BY <1>1, <1>2, <1>3, <1>4, <1>5 DEF Next, Step

\* The inductive invariant holds throughout: the documents are consistent, what
\* each handler holds is what its stage allows, each snapshot evolves into them.
THEOREM Invariant == Spec => []IInv
<1>1. IInv /\ [Next]_vars => IInv'
  BY StepInv
<1> QED
  BY StartInv, <1>1, PTL DEF Spec

----------------------------------------------------------------------------
(* The theorems *)

\* Every variable has its type, whatever requests run at once.
THEOREM SalesTyped == Spec => []TypeOK
<1>1. IInv => TypeOK
  <2> SUFFICES ASSUME IInv PROVE TypeOK
    OBVIOUS
  <2>1. /\ db \in Database
        /\ pc \in [Request -> Stage]
        /\ req \in [Request -> Requests \cup {Absent}]
        /\ snap \in [Request -> Database \cup {Absent}]
        /\ dirty \in [Request -> DocSets]
        /\ acked \in [Key -> SUBSET SaleId]
        /\ restockLog \in [Product -> Nat]
        /\ updates \in 0 .. MaxUpdates
    BY DEF IInv, OK, Acks, Logs
  <2>2. \A r \in Request : /\ pc[r] = "idle" <=> req[r] = Absent
                           /\ pc[r] = "body" <=> snap[r] # Absent
    <3> SUFFICES ASSUME NEW r \in Request
                 PROVE  /\ pc[r] = "idle" <=> req[r] = Absent
                        /\ pc[r] = "body" <=> snap[r] # Absent
      OBVIOUS
    <3>1. CASE pc[r] = "idle" /\ req[r] = Absent /\ snap[r] = Absent
      BY <3>1
    <3>2. CASE Busy(db, pc[r], req[r], snap[r], dirty[r])
      <4>1. req[r] # Absent /\ pc[r] # "idle"
        BY <3>2, RequestTypes, StageKind DEF Busy
      <4>2. pc[r] = "body" => snap[r] # Absent
        BY <3>2, NotAbsent DEF Busy, OK
      <4>3. pc[r] # "body" => snap[r] = Absent
        BY <3>2 DEF Busy
      <4> QED
        BY <4>1, <4>2, <4>3
    <3> QED
      BY <3>1, <3>2 DEF IInv, HandlerOK
  <2> QED
    BY <2>1, <2>2 DEF TypeOK
<1> QED
  BY Invariant, <1>1, PTL

\* No interleaving of sales and corrections makes a stock negative.
THEOREM StockNeverNegative == Spec => []NeverOversold
<1>1. IInv => NeverOversold
  BY DEF IInv, OK, NeverOversold
<1> QED
  BY Invariant, <1>1, PTL

\* A sale keeps a unit cost exactly when its product was purged.
THEOREM HistorySurvivesPurges == Spec => []SaleHistoryPreserved
<1>1. IInv => SaleHistoryPreserved
  BY DEF IInv, OK, SaleHistoryPreserved
<1> QED
  BY Invariant, <1>1, PTL

\* The audit trail always tells the sales.
THEOREM AuditNeverOrphan == Spec => []AuditMatchesSales
<1>1. IInv => AuditMatchesSales
  BY DEF IInv, OK, AuditMatchesSales
<1> QED
  BY Invariant, <1>1, PTL

\* A key records at most one sale, and every success returned for it is that
\* sale.
THEOREM KeysAreIdempotent == Spec => []OneSalePerKey
<1>1. IInv => OneSalePerKey
  BY DEF IInv, OK, Acks, OneSalePerKey
<1> QED
  BY Invariant, <1>1, PTL

\* No step of any request separates the stock from the sales.
THEOREM StockAndSalesTogether == Spec => StockFollowsSales
<1>1. IInv /\ [Next]_vars => [DriftKept]_vars
  <2> SUFFICES ASSUME IInv, [Next]_vars PROVE DriftKept
    OBVIOUS
  <2>1. OK(db) /\ (db' = db \/ Operation(db, db'))
    BY StepInv DEF IInv
  <2>2. CASE db' = db
    BY <2>2 DEF DriftKept
  <2>3. CASE Operation(db, db')
    BY <2>1, <2>3, OperationOK DEF DriftKept
  <2> QED
    BY <2>1, <2>2, <2>3
<1> QED
  BY Invariant, <1>1, PTL DEF Spec, StockFollowsSales

\* The operators of the book are those of the documents.
LEMMA SameOperators ==
  /\ \A d, c : Book!SellOutcome(d, c) = SellOutcome(d, c) /\ Book!Sell(d, c) = Sell(d, c)
  /\ \A d, u : Book!ChangeOutcome(d, u) = ChangeOutcome(d, u) /\ Book!Change(d, u) = Change(d, u)
  /\ \A d, s : Book!CancelOutcome(d, s) = CancelOutcome(d, s) /\ Book!Cancel(d, s) = Cancel(d, s)
  /\ \A d, p : Book!Purge(d, p) = Purge(d, p)
  /\ \A d, p, flag : Book!SetTrashed(d, p, flag) = SetTrashed(d, p, flag)
  /\ \A d, p, a, c : Book!Patch(d, p, a, c) = Patch(d, p, a, c)
  /\ Book!Payload = Payload
<1>1. ASSUME NEW d, NEW c
      PROVE  Book!SellOutcome(d, c) = SellOutcome(d, c) /\ Book!Sell(d, c) = Sell(d, c)
  BY Zenon DEF Book!SellOutcome, SellOutcome, Book!Sell, Sell, Book!AdjustStock,
       AdjustStock, Book!StockAlerts, StockAlerts, Book!LowCrossed, LowCrossed,
       Book!LowReached, LowReached
<1>2. ASSUME NEW d, NEW u
      PROVE  Book!ChangeOutcome(d, u) = ChangeOutcome(d, u) /\ Book!Change(d, u) = Change(d, u)
  BY Zenon DEF Book!ChangeOutcome, ChangeOutcome, Book!Change, Change, Book!AdjustStock,
       AdjustStock, Book!StockAlerts, StockAlerts, Book!LowCrossed, LowCrossed,
       Book!LowReached, LowReached, Book!Given, Given, Book!Returned, Returned
<1>3. ASSUME NEW d, NEW s
      PROVE  Book!CancelOutcome(d, s) = CancelOutcome(d, s) /\ Book!Cancel(d, s) = Cancel(d, s)
  BY Zenon DEF Book!CancelOutcome, CancelOutcome, Book!Cancel, Cancel,
       Book!AdjustStock, AdjustStock
<1>4. ASSUME NEW d, NEW p
      PROVE  Book!Purge(d, p) = Purge(d, p)
  <2>1. \A t \in SaleId : Book!IsSaleOf(d, t, p) <=> IsSaleOf(d, t, p)
    BY DEF Book!IsSaleOf, IsSaleOf
  <2>2. {t \in SaleId : Book!IsSaleOf(d, t, p)} = {t \in SaleId : IsSaleOf(d, t, p)}
    BY <2>1
  <2>3. Book!UnitsOf(d, p) = UnitsOf(d, p)
    BY <2>2, Zenon DEF Book!UnitsOf, UnitsOf
  <2>4. Book!SoldUnits(d, p) = SoldUnits(d, p)
    BY <2>3, Zenon DEF Book!SoldUnits, SoldUnits, Book!Cardinality, Cardinality
  <2>5. [s \in SaleId |->
           IF Book!IsSaleOf(d, s, p) /\ d.sales[s].lastKnown = Absent
           THEN [d.sales[s] EXCEPT !.lastKnown = d.products[p].cost]
           ELSE d.sales[s]]
        = [s \in SaleId |->
             IF IsSaleOf(d, s, p) /\ d.sales[s].lastKnown = Absent
             THEN [d.sales[s] EXCEPT !.lastKnown = d.products[p].cost]
             ELSE d.sales[s]]
    BY <2>1
  <2> QED
    BY <2>4, <2>5, Zenon DEF Book!Purge, Purge
<1>5. ASSUME NEW d, NEW p, NEW flag
      PROVE  Book!SetTrashed(d, p, flag) = SetTrashed(d, p, flag)
  BY Zenon DEF Book!SetTrashed, SetTrashed
<1>6. ASSUME NEW d, NEW p, NEW a, NEW c
      PROVE  Book!Patch(d, p, a, c) = Patch(d, p, a, c)
  BY Zenon DEF Book!Patch, Patch, Book!Given, Given
<1>7. Book!Payload = Payload
  BY DEF Book!Payload, Payload
<1> QED
  BY <1>1, <1>2, <1>3, <1>4, <1>5, <1>6, <1>7

\* To the database, the concurrent requests are the operations of the book,
\* one at a time.
THEOREM RequestsSerialize == Spec => Serializable
<1>1. Init => Book!Init
  BY DEF Init
<1>2. Operation(db, db') => Book!Next
  BY SameOperators DEF Operation, Book!Next, Book!RecordSale, Book!CorrectSale,
       Book!CancelSale, Book!PurgeProduct, Book!TrashProduct, Book!RestoreProduct,
       Book!PatchProduct
<1>3. IInv /\ [Next]_vars => [Book!Next]_db
  BY <1>2, StepInv
<1> QED
  BY Invariant, <1>1, <1>3, PTL DEF Spec, Serializable, Book!Spec

----------------------------------------------------------------------------
(* Alerts *)

Corrects(r) == req[r] # Absent /\ req[r].kind = "update"

\* An event names a sale that was recorded or a correction that was received,
\* and a correction under way has recorded none.
Triggers ==
  /\ \A j \in db.jobs : \/ j.trigger \in SaleId /\ db.audit[j.trigger] # Absent
                        \/ j.trigger \in 1 .. updates
  /\ \A r \in Request : Corrects(r) =>
       /\ req[r].number <= updates
       /\ \A j \in db.jobs : j.trigger # req[r].number
       /\ \A q \in Request : Corrects(q) /\ req[q].number = req[r].number => q = r

\* What a step records for product p, beside the sales.
NewAlerts(d, n, p) ==
  {j.category : j \in {i \in n.jobs \ d.jobs : i.product = p /\ i.category # "SALE_CREATED"}}

Crossing(a, b) ==
  IF a.remaining > 0 /\ b.remaining = 0 THEN {"STOCK_DEPLETED"}
  ELSE IF b.remaining > 0 /\ LowCrossed(b.initial, a.remaining, b.remaining)
  THEN {"STOCK_LOW"} ELSE {}

AlertsMatch(d, n) ==
  \A p \in Product :
    IF d.products[p] # Absent /\ n.products[p] # Absent
    THEN NewAlerts(d, n, p) = Crossing(d.products[p], n.products[p])
    ELSE NewAlerts(d, n, p) = {}

\* A stock that does not go down crosses nothing.
LEMMA NoCrossing ==
  ASSUME NEW d \in Database, NEW n \in Database, NEW p \in Product,
         d.products[p] # Absent, n.products[p] # Absent,
         n.products[p].remaining >= d.products[p].remaining
  PROVE  Crossing(d.products[p], n.products[p]) = {}
<1>1. /\ d.products[p].remaining \in Int /\ n.products[p].remaining \in Int
      /\ n.products[p].initial \in Nat
  BY ProductType
<1> QED
  BY <1>1 DEF Crossing, LowCrossed, LowReached

LEMMA AlertsNone ==
  ASSUME NEW d \in Database, NEW n \in Database, n.jobs = d.jobs,
         \A p \in Product : d.products[p] # Absent /\ n.products[p] # Absent =>
           n.products[p].remaining >= d.products[p].remaining
  PROVE  AlertsMatch(d, n)
<1>1. \A p \in Product : NewAlerts(d, n, p) = {}
  BY DEF NewAlerts
<1> QED
  BY <1>1, NoCrossing DEF AlertsMatch

\* One write of the stock of product p, under trigger t.
OneWrite(d, n, p, t, made) ==
  /\ d.products[p] # Absent /\ n.products[p] # Absent
  /\ n.products[p].initial = d.products[p].initial
  /\ \A q \in Product \ {p} : n.products[q] = d.products[q]
  /\ \A j \in d.jobs : j.trigger # t
  /\ \A e \in made : e.category = "SALE_CREATED"
  /\ n.jobs = d.jobs \cup StockAlerts(p, d.products[p].initial, d.products[p].remaining,
                                      n.products[p].remaining, t) \cup made

\* The alert of one write is what its step records, if its trigger is new.
LEMMA AlertsOne ==
  ASSUME NEW d \in Database, NEW n \in Database, NEW p \in Product,
         NEW t, NEW made, OneWrite(d, n, p, t, made)
  PROVE  AlertsMatch(d, n)
<1> USE DEF OneWrite
<1> DEFINE initial == d.products[p].initial
           before == d.products[p].remaining
           after == n.products[p].remaining
           alert(c) == [category |-> c, product |-> p, trigger |-> t]
           word == IF before > 0 /\ after = 0 THEN {"STOCK_DEPLETED"}
                   ELSE IF after > 0 /\ LowCrossed(initial, before, after) THEN {"STOCK_LOW"}
                   ELSE {}
<1>1. StockAlerts(p, initial, before, after, t) = {alert(c) : c \in word}
  BY DEF StockAlerts
<1>2. word \subseteq {"STOCK_DEPLETED", "STOCK_LOW"}
  OBVIOUS
<1>3. word = Crossing(d.products[p], n.products[p])
  BY DEF Crossing
<1> HIDE DEF word
<1>4. \A c \in word : /\ alert(c).category = c /\ alert(c).product = p
                      /\ alert(c).category # "SALE_CREATED" /\ alert(c).trigger = t
  BY <1>2
<1>5. {i \in n.jobs \ d.jobs : i.category # "SALE_CREATED"} = {alert(c) : c \in word}
  <2>1. ASSUME NEW i, i \in n.jobs \ d.jobs, i.category # "SALE_CREATED"
        PROVE  i \in {alert(c) : c \in word}
    BY <1>1, <2>1
  <2>2. ASSUME NEW c \in word
        PROVE  alert(c) \in n.jobs \ d.jobs /\ alert(c).category # "SALE_CREATED"
    BY <1>1, <1>4, <2>2
  <2> HIDE DEF alert
  <2> QED
    BY <2>1, <2>2
<1>6. NewAlerts(d, n, p) = word
  <2>1. {i \in n.jobs \ d.jobs : i.product = p /\ i.category # "SALE_CREATED"}
          = {alert(c) : c \in word}
    BY <1>4, <1>5
  <2>2. NewAlerts(d, n, p) = {j.category : j \in {alert(c) : c \in word}}
    BY <2>1 DEF NewAlerts
  <2> HIDE DEF alert
  <2> QED
    BY <1>4, <2>2
<1>7. \A q \in Product \ {p} : NewAlerts(d, n, q) = {}
  BY <1>4, <1>5 DEF NewAlerts
<1>8. ASSUME NEW q \in Product \ {p}, d.products[q] # Absent
      PROVE  Crossing(d.products[q], n.products[q]) = {}
  BY <1>8, NoCrossing, ProductType
<1> QED
  BY <1>3, <1>6, <1>7, <1>8 DEF AlertsMatch


\* What an operation records: alerts that match, under a trigger of its own.
Records(d, n, t) ==
  /\ AlertsMatch(d, n)
  /\ \A j \in n.jobs \ d.jobs : j.trigger = t
  /\ \A i \in SaleId : d.audit[i] # Absent => n.audit[i] # Absent

LEMMA AlertsTrigger ==
  ASSUME NEW p, NEW initial, NEW before, NEW after, NEW t
  PROVE  \A j \in StockAlerts(p, initial, before, after, t) : j.trigger = t
  BY DEF StockAlerts

LEMMA SellRecords ==
  ASSUME NEW d, OK(d), NEW c, c.pay \in Payload, c.sale \in SaleId,
         c.key \in Key \cup {NoKey}, c.seller \in Seller,
         SellOutcome(d, c) = "ok",
         \A j \in d.jobs : j.trigger # c.sale
  PROVE  Records(d, Sell(d, c), c.sale) /\ Sell(d, c).audit[c.sale] # Absent
<1> DEFINE p == c.pay.product
           n == Sell(d, c)
           made == {[category |-> "SALE_CREATED", product |-> p, trigger |-> c.sale]}
           entry == [key |-> c.key, qty |-> c.pay.qty, cancelled |-> FALSE]
<1>0. d \in Database
  BY DEF OK
<1>1. /\ p \in Product /\ d.products[p] # Absent /\ n \in Database
      /\ n.products = [d.products EXCEPT ![p].remaining = @ - c.pay.qty]
      /\ n.audit = [d.audit EXCEPT ![c.sale] = entry]
      /\ n.jobs = d.jobs \cup StockAlerts(p, d.products[p].initial, d.products[p].remaining,
                                          d.products[p].remaining - c.pay.qty, c.sale)
                         \cup made
  BY <1>0, SellFields, ZenonT(60)
<1>2. c.pay.qty \in Int /\ entry \in AuditDoc
  BY NumberTypes DEF Payload, AuditDoc
<1> HIDE DEF n, p, entry
<1>3. /\ n.products[p] # Absent
      /\ n.products[p].initial = d.products[p].initial
      /\ n.products[p].remaining = d.products[p].remaining - c.pay.qty
      /\ \A q \in Product \ {p} : n.products[q] = d.products[q]
  <2>1. d.products[p] \in ProductDoc /\ d.products \in [Product -> ProductDoc \cup {Absent}]
    BY <1>0, <1>1, ProductType, Collections
  <2>2. PICK doc : doc = [d.products[p] EXCEPT !.remaining = @ - c.pay.qty]
    OBVIOUS
  <2>3. doc \in ProductDoc /\ doc.initial = d.products[p].initial
        /\ doc.remaining = d.products[p].remaining - c.pay.qty
    BY <1>2, <2>1, <2>2 DEF ProductDoc
  <2>4. n.products[p] = doc
    BY <1>1, <2>1, <2>2
  <2> QED
    BY <1>1, <2>1, <2>3, <2>4, NotAbsent
<1>4. AlertsMatch(d, n)
  <2>1. \A e \in made : e.category = "SALE_CREATED"
    OBVIOUS
  <2>2. n.jobs = d.jobs \cup StockAlerts(p, d.products[p].initial, d.products[p].remaining,
                                         n.products[p].remaining, c.sale) \cup made
    BY <1>1, <1>3
  <2> HIDE DEF made
  <2>3. OneWrite(d, n, p, c.sale, made)
    BY <1>1, <1>3, <2>1, <2>2 DEF OneWrite
  <2> QED
    BY <1>0, <1>1, <2>3, AlertsOne
<1>5. \A j \in n.jobs \ d.jobs : j.trigger = c.sale
  BY <1>1, AlertsTrigger
<1>6. n.audit[c.sale] # Absent /\ \A i \in SaleId : d.audit[i] # Absent => n.audit[i] # Absent
  <2>1. n.audit[c.sale] = entry /\ \A i \in SaleId \ {c.sale} : n.audit[i] = d.audit[i]
    BY <1>0, <1>1, Collections
  <2> QED
    BY <1>2, <2>1, NotAbsent
<1> QED
  BY <1>4, <1>5, <1>6 DEF Records, n

LEMMA ChangeRecords ==
  ASSUME NEW d, OK(d), NEW u, u.sale \in SaleId, u.number \in 1 .. MaxUpdates,
         u.qty \in Qty \cup {Absent}, u.price \in Price \cup {Absent},
         ChangeOutcome(d, u) = "ok",
         \A j \in d.jobs : j.trigger # u.number
  PROVE  Records(d, Change(d, u), u.number)
<1> DEFINE sale == d.sales[u.sale]
           p == sale.product
           delta == Returned(d, u)
           n == Change(d, u)
<1>0. d \in Database /\ AuditTells(d)
  BY DEF OK
<1>1. /\ sale # Absent /\ n \in Database
      /\ n.products = IF delta = 0 \/ d.products[p] = Absent THEN d.products
                      ELSE [d.products EXCEPT ![p].remaining = @ + delta]
      /\ n.audit = [d.audit EXCEPT ![u.sale] = [@ EXCEPT !.qty = Given(u.qty, sale.qty)]]
      /\ n.jobs = IF delta = 0 \/ d.products[p] = Absent THEN d.jobs
                  ELSE d.jobs \cup StockAlerts(p, d.products[p].initial,
                                     d.products[p].remaining,
                                     d.products[p].remaining + delta, u.number)
  BY <1>0, ChangeFields, ZenonT(60)
<1>2. p \in Product /\ delta \in Int /\ Given(u.qty, sale.qty) \in Qty
  <2>1. p \in Product /\ sale.qty \in Nat /\ Given(u.qty, sale.qty) \in Qty
    BY <1>0, <1>1, SaleType, CorrectedType
  <2> QED
    BY <2>1, NumberTypes DEF Returned
<1> HIDE DEF n, delta, p, sale
<1>3. AlertsMatch(d, n)
  <2>1. CASE delta = 0 \/ d.products[p] = Absent
    <3>1. n.jobs = d.jobs /\ n.products = d.products
      BY <1>1, <2>1
    <3>2. \A q \in Product : d.products[q] # Absent => d.products[q].remaining >= d.products[q].remaining
      BY <1>0, ProductType
    <3> QED
      BY <1>0, <1>1, <3>1, <3>2, AlertsNone
  <2>2. CASE delta # 0 /\ d.products[p] # Absent
    <3>1. d.products[p] \in ProductDoc /\ d.products \in [Product -> ProductDoc \cup {Absent}]
      BY <1>0, <1>2, <2>2, ProductType, Collections
    <3>2. PICK doc : doc = [d.products[p] EXCEPT !.remaining = @ + delta]
      OBVIOUS
    <3>3. doc \in ProductDoc /\ doc.initial = d.products[p].initial
          /\ doc.remaining = d.products[p].remaining + delta
      BY <1>2, <3>1, <3>2 DEF ProductDoc
    <3>4. n.products[p] = doc /\ doc # Absent
          /\ \A q \in Product \ {p} : n.products[q] = d.products[q]
      BY <1>1, <1>2, <2>2, <3>1, <3>2, <3>3, NotAbsent
    <3>5. n.jobs = d.jobs \cup StockAlerts(p, d.products[p].initial, d.products[p].remaining,
                                           n.products[p].remaining, u.number) \cup {}
      BY <1>1, <2>2, <3>3, <3>4
    <3>6. n.products[p] # Absent /\ n.products[p].initial = d.products[p].initial
      BY <3>3, <3>4
    <3>7. \A e \in {} : e.category = "SALE_CREATED"
      OBVIOUS
    <3> QED
      <4>1. OneWrite(d, n, p, u.number, {})
        BY <2>2, <3>4, <3>5, <3>6, <3>7 DEF OneWrite
      <4> QED
        BY <1>0, <1>1, <1>2, <4>1, AlertsOne
  <2> QED
    BY <2>1, <2>2
<1>4. \A j \in n.jobs \ d.jobs : j.trigger = u.number
  <2>1. \A j \in StockAlerts(p, d.products[p].initial, d.products[p].remaining,
                             d.products[p].remaining + delta, u.number) : j.trigger = u.number
    BY AlertsTrigger
  <2> QED
    BY <1>1, <2>1
<1>5. \A i \in SaleId : d.audit[i] # Absent => n.audit[i] # Absent
  <2>1. d.audit[u.sale] # Absent /\ d.audit[u.sale] \in AuditDoc
    BY <1>0, <1>1, AuditType DEF AuditTells, sale
  <2>2. [d.audit[u.sale] EXCEPT !.qty = Given(u.qty, sale.qty)] \in AuditDoc
    BY <1>2, <2>1 DEF AuditDoc
  <2> QED
    BY <1>0, <1>1, <2>2, Collections, NotAbsent
<1> QED
  BY <1>3, <1>4, <1>5 DEF Records, n

LEMMA CancelRecords ==
  ASSUME NEW d, OK(d), NEW s \in SaleId, CancelOutcome(d, s) = "ok"
  PROVE  AlertsMatch(d, Cancel(d, s)) /\ Cancel(d, s).jobs = d.jobs
         /\ \A i \in SaleId : d.audit[i] # Absent => Cancel(d, s).audit[i] # Absent
<1> DEFINE n == Cancel(d, s)
           p == d.sales[s].product
<1>0. d \in Database /\ AuditTells(d)
  BY DEF OK
<1>1. /\ d.sales[s] # Absent /\ n \in Database
      /\ n.products = IF d.products[p] = Absent THEN d.products
                      ELSE [d.products EXCEPT ![p].remaining = @ + d.sales[s].qty]
      /\ n.audit = [d.audit EXCEPT ![s] = [@ EXCEPT !.cancelled = TRUE]]
      /\ n.jobs = d.jobs
  BY <1>0, CancelFields
<1>2. p \in Product /\ d.sales[s].qty \in Nat
  BY <1>0, <1>1, SaleType
<1> HIDE DEF n
<1>3. \A q \in Product : d.products[q] # Absent =>
        n.products[q].remaining >= d.products[q].remaining
  <2> SUFFICES ASSUME NEW q \in Product, d.products[q] # Absent
               PROVE  n.products[q].remaining >= d.products[q].remaining
    OBVIOUS
  <2>1. d.products[q] \in ProductDoc /\ d.products[q].remaining \in Int
    BY <1>0, ProductType
  <2>2. CASE q # p \/ d.products[p] = Absent
    BY <1>0, <1>1, <2>1, <2>2, Collections
  <2>3. CASE q = p
    <3>1. n.products[q] = [d.products[q] EXCEPT !.remaining = @ + d.sales[s].qty]
      BY <1>0, <1>1, <2>3, Collections
    <3>2. n.products[q].remaining = d.products[q].remaining + d.sales[s].qty
      BY <2>1, <3>1 DEF ProductDoc
    <3> QED
      BY <1>2, <2>1, <3>2
  <2> QED
    BY <2>2, <2>3
<1>4. \A i \in SaleId : d.audit[i] # Absent => n.audit[i] # Absent
  <2>1. d.audit[s] # Absent /\ d.audit[s] \in AuditDoc
    BY <1>0, <1>1, AuditType DEF AuditTells
  <2>2. [d.audit[s] EXCEPT !.cancelled = TRUE] \in AuditDoc
    BY <2>1 DEF AuditDoc
  <2> QED
    BY <1>0, <1>1, <2>2, Collections, NotAbsent
<1> QED
  BY <1>0, <1>1, <1>3, <1>4, AlertsNone DEF n

LEMMA PurgeRecords ==
  ASSUME NEW d, OK(d), NEW p \in Product, d.products[p] # Absent
  PROVE  /\ AlertsMatch(d, Purge(d, p))
         /\ Purge(d, p).jobs = d.jobs /\ Purge(d, p).audit = d.audit
<1> DEFINE n == Purge(d, p)
<1>0. d \in Database
  BY DEF OK
<1>1. /\ n \in Database /\ n.products = [d.products EXCEPT ![p] = Absent]
      /\ n.audit = d.audit /\ n.jobs = d.jobs
  BY <1>0, PurgeFields
<1> HIDE DEF n
<1>2. \A q \in Product : d.products[q] # Absent /\ n.products[q] # Absent =>
        n.products[q].remaining >= d.products[q].remaining
  BY <1>0, <1>1, Collections, ProductType
<1> QED
  BY <1>0, <1>1, <1>2, AlertsNone DEF n

LEMMA WriteRecords ==
  ASSUME NEW d, OK(d), NEW p \in Product, d.products[p] # Absent
  PROVE  /\ \A flag \in BOOLEAN :
              LET n == SetTrashed(d, p, flag)
              IN  AlertsMatch(d, n) /\ n.jobs = d.jobs /\ n.audit = d.audit
         /\ \A added \in {0, 1}, cost \in Cost \cup {Absent} :
              LET n == Patch(d, p, added, cost)
              IN  AlertsMatch(d, n) /\ n.jobs = d.jobs /\ n.audit = d.audit
<1>0. d \in Database /\ d.products[p].remaining \in Int
  BY ProductType DEF OK
<1>1. ASSUME NEW n \in Database, n = [d EXCEPT !.products = n.products],
             \A q \in Product : q # p => n.products[q] = d.products[q],
             n.products[p].remaining >= d.products[p].remaining
      PROVE  AlertsMatch(d, n) /\ n.jobs = d.jobs /\ n.audit = d.audit
  <2>1. n.jobs = d.jobs /\ n.audit = d.audit
    BY <1>0, <1>1 DEF Database
  <2>2. \A q \in Product : d.products[q] # Absent =>
          n.products[q].remaining >= d.products[q].remaining
    BY <1>0, <1>1, ProductType
  <2> QED
    BY <1>0, <2>1, <2>2, AlertsNone
<1>2. ASSUME NEW flag \in BOOLEAN, NEW n, n = SetTrashed(d, p, flag)
      PROVE  AlertsMatch(d, n) /\ n.jobs = d.jobs /\ n.audit = d.audit
  <2>1. /\ n \in Database /\ n = [d EXCEPT !.products = n.products]
        /\ n.products = [d.products EXCEPT ![p].trashed = flag]
    BY <1>0, <1>2, ProductFields
  <2>2. /\ \A q \in Product : q # p => n.products[q] = d.products[q]
        /\ n.products[p] = [d.products[p] EXCEPT !.trashed = flag]
    BY <1>0, <2>1, Collections
  <2>3. n.products[p].remaining = d.products[p].remaining
    BY <1>0, <2>2, ProductType DEF ProductDoc
  <2>4. n.products[p].remaining >= d.products[p].remaining
    BY <1>0, <2>3
  <2> QED
    BY <1>1, <2>1, <2>2, <2>4
<1>3. ASSUME NEW added \in {0, 1}, NEW cost \in Cost \cup {Absent},
             NEW n, n = Patch(d, p, added, cost)
      PROVE  AlertsMatch(d, n) /\ n.jobs = d.jobs /\ n.audit = d.audit
  <2>1. /\ n \in Database /\ n = [d EXCEPT !.products = n.products]
        /\ \A q \in Product : q # p => n.products[q] = d.products[q]
        /\ n.products[p].remaining = d.products[p].remaining + added
    BY <1>0, <1>3, ProductFields
  <2>2. n.products[p].remaining >= d.products[p].remaining
    BY <1>0, <2>1
  <2> QED
    BY <1>1, <2>1, <2>2
<1> QED
  BY <1>2, <1>3


----------------------------------------------------------------------------
(* The events of a step *)

\* What a step of handler r leaves of the events and of the corrections.
LEMMA TriggersOn ==
  ASSUME IInv, Triggers, NEW r \in Request, UNCHANGED updates,
         \A q \in Request \ {r} : req'[q] = req[q],
         Corrects(r)' => Corrects(r) /\ req'[r].number = req[r].number,
         \A i \in SaleId : db.audit[i] # Absent => db'.audit[i] # Absent,
         \A j \in db'.jobs \ db.jobs :
           \/ j.trigger \in SaleId /\ db'.audit[j.trigger] # Absent
           \/ Corrects(r) /\ ~ Corrects(r)' /\ j.trigger = req[r].number
  PROVE  Triggers'
<1>1. \A q \in Request : Corrects(q) =>
        req[q].number \in 1 .. MaxUpdates /\ req[q].number \notin SaleId
  <2> SUFFICES ASSUME NEW q \in Request, Corrects(q)
               PROVE  req[q].number \in 1 .. MaxUpdates
    BY TriggersApart
  <2>1. req[q] \in Requests /\ req[q].kind = "update"
    BY DEF Corrects, IInv
  <2> QED
    BY <2>1, RequestTypes DEF UpdateRequest
<1>2. \A q \in Request : Corrects(q)' => Corrects(q) /\ req'[q].number = req[q].number
  BY DEF Corrects
<1>3. updates \in Nat /\ MaxUpdates \in Nat
  BY SaleNumbers DEF IInv, Logs
<1>4. \A j \in db'.jobs : \/ j.trigger \in SaleId /\ db'.audit[j.trigger] # Absent
                          \/ j.trigger \in 1 .. updates
  <2> SUFFICES ASSUME NEW j \in db'.jobs
               PROVE  \/ j.trigger \in SaleId /\ db'.audit[j.trigger] # Absent
                      \/ j.trigger \in 1 .. updates
    OBVIOUS
  <2>1. CASE j \in db.jobs
    BY <2>1 DEF Triggers
  <2>2. CASE Corrects(r) /\ j.trigger = req[r].number
    BY <1>1, <1>3, <2>2 DEF Triggers
  <2> QED
    BY <2>1, <2>2
<1>5. ASSUME NEW q \in Request, Corrects(q)'
      PROVE  /\ req'[q].number <= updates
             /\ \A j \in db'.jobs : j.trigger # req'[q].number
             /\ \A w \in Request : Corrects(w)' /\ req'[w].number = req'[q].number => w = q
  <2>1. Corrects(q) /\ req'[q].number = req[q].number
    BY <1>2, <1>5
  <2>2. ASSUME NEW j \in db'.jobs
        PROVE  j.trigger # req[q].number
    <3>1. CASE j \in db.jobs
      BY <2>1, <3>1 DEF Triggers
    <3>2. CASE j.trigger \in SaleId
      BY <1>1, <2>1, <3>2
    <3>3. CASE Corrects(r) /\ ~ Corrects(r)' /\ j.trigger = req[r].number
      <4>1. q # r
        BY <1>5, <3>3
      <4> QED
        BY <2>1, <3>3, <4>1 DEF Triggers
    <3> QED
      BY <3>1, <3>2, <3>3
  <2> QED
    BY <1>2, <2>1, <2>2 DEF Triggers
<1> QED
  BY <1>4, <1>5 DEF Triggers, Corrects

\* What a step does to the events.
Tells == Triggers' /\ AlertsMatch(db, db')

LEMMA SameTells ==
  ASSUME IInv, db' = db, Triggers'
  PROVE  Tells
<1>1. db \in Database /\ \A p \in Product : db.products[p] # Absent =>
        db.products[p].remaining >= db.products[p].remaining
  BY ProductType DEF IInv, OK
<1> QED
  BY <1>1, AlertsNone DEF Tells

\* A handler goes on or ends, and nothing is written.
LEMMA QuietTells ==
  ASSUME IInv, Triggers, NEW r \in Request, db' = db, UNCHANGED updates,
         UNCHANGED req \/ Finish(r)
  PROVE  Tells
<1>1. \A q \in Request \ {r} : req'[q] = req[q]
  BY DEF Finish, IInv
<1>2. Corrects(r)' => Corrects(r) /\ req'[r].number = req[r].number
  BY DEF Finish, IInv, Corrects
<1> QED
  BY <1>1, <1>2, TriggersOn, SameTells

\* A handler that wrote n, without an event.
LEMMA WriteTells ==
  ASSUME IInv, Triggers, NEW r \in Request, UNCHANGED updates,
         UNCHANGED req \/ Finish(r), AlertsMatch(db, db'), db'.jobs = db.jobs,
         \A i \in SaleId : db.audit[i] # Absent => db'.audit[i] # Absent
  PROVE  Tells
<1>1. \A q \in Request \ {r} : req'[q] = req[q]
  BY DEF Finish, IInv
<1>2. Corrects(r)' => Corrects(r) /\ req'[r].number = req[r].number
  BY DEF Finish, IInv, Corrects
<1> QED
  BY <1>1, <1>2, TriggersOn DEF Tells

LEMMA ReceiveTells ==
  ASSUME IInv, Triggers, NEW r \in Request,
         \/ ReceiveCreate(r) \/ ReceiveCancel(r) \/ ReceivePurge(r) \/ ReceivePatch(r)
  PROVE  Tells
<1>1. PICK body, stage : /\ Receive(r, body, stage) /\ UNCHANGED updates
                         /\ body.kind # "update"
  <2>1. CASE ReceiveCreate(r)
    <3>1. PICK key, seller, pay, allowed, s, stage :
            /\ Receive(r, [kind |-> "create", key |-> key, seller |-> seller, pay |-> pay,
                           sale |-> s, allowed |-> allowed], stage)
            /\ UNCHANGED updates
      BY <2>1 DEF ReceiveCreate
    <3>2. PICK body : body = [kind |-> "create", key |-> key, seller |-> seller, pay |-> pay,
                              sale |-> s, allowed |-> allowed]
      OBVIOUS
    <3> QED
      BY <3>1, <3>2
  <2>2. CASE ReceivePatch(r)
    <3>1. PICK p, added, cost, move :
            /\ Receive(r, [kind |-> "patch", product |-> p, added |-> added,
                           cost |-> cost, move |-> move], "read")
            /\ UNCHANGED updates
      BY <2>2 DEF ReceivePatch
    <3>2. PICK body : body = [kind |-> "patch", product |-> p, added |-> added,
                              cost |-> cost, move |-> move]
      OBVIOUS
    <3> QED
      BY <3>1, <3>2
  <2>3. CASE ReceiveCancel(r)
    <3>1. PICK s : Receive(r, [kind |-> "cancel", sale |-> s], "begin") /\ UNCHANGED updates
      BY <2>3 DEF ReceiveCancel
    <3>2. PICK body : body = [kind |-> "cancel", sale |-> s]
      OBVIOUS
    <3> QED
      BY <3>1, <3>2
  <2>4. CASE ReceivePurge(r)
    <3>1. PICK p : Receive(r, [kind |-> "purge", product |-> p], "locate") /\ UNCHANGED updates
      BY <2>4 DEF ReceivePurge
    <3>2. PICK body : body = [kind |-> "purge", product |-> p]
      OBVIOUS
    <3> QED
      BY <3>1, <3>2
  <2> QED
    BY <2>1, <2>2, <2>3, <2>4
<1>2. db' = db /\ req' = [req EXCEPT ![r] = body]
  BY <1>1 DEF Receive
<1>3. ~ Corrects(r)' /\ \A q \in Request \ {r} : req'[q] = req[q]
  BY <1>1, <1>2 DEF IInv, Corrects
<1> QED
  BY <1>1, <1>2, <1>3, TriggersOn, SameTells

LEMMA ReceiveUpdateTells ==
  ASSUME IInv, Triggers, NEW r \in Request, ReceiveUpdate(r)
  PROVE  Tells
<1>1. PICK body : /\ body.number = updates + 1
                  /\ Receive(r, body, "begin") /\ updates' = updates + 1
  BY DEF ReceiveUpdate
<1>2. /\ db' = db /\ req'[r] = body /\ \A q \in Request \ {r} : req'[q] = req[q]
      /\ updates \in Nat /\ pc[r] = "idle" /\ MaxUpdates \in Nat
  BY <1>1, SaleNumbers DEF Receive, IInv, Logs
<1>3. updates + 1 \in 1 .. MaxUpdates
  BY <1>2, SaleNumbers DEF ReceiveUpdate, IInv, Logs
<1>4. \A q \in Request \ {r} : (Corrects(q)' <=> Corrects(q))
  BY <1>2 DEF Corrects
<1>5. \A q \in Request : Corrects(q) => req[q].number \in Nat /\ req[q].number <= updates
  <2> SUFFICES ASSUME NEW q \in Request, Corrects(q)
               PROVE  req[q].number \in Nat
    BY DEF Triggers
  <2>1. req[q] \in Requests /\ req[q].kind = "update"
    BY DEF Corrects, IInv
  <2> QED
    BY <2>1, RequestTypes DEF UpdateRequest
<1>6. \A j \in db.jobs : j.trigger # updates + 1
  BY <1>2, <1>3, TriggersApart DEF Triggers
<1>7. \A j \in db'.jobs : \/ j.trigger \in SaleId /\ db'.audit[j.trigger] # Absent
                          \/ j.trigger \in 1 .. updates'
  BY <1>1, <1>2 DEF Triggers
<1>8. ASSUME NEW q \in Request, Corrects(q)'
      PROVE  /\ req'[q].number <= updates'
             /\ \A j \in db'.jobs : j.trigger # req'[q].number
             /\ \A w \in Request : Corrects(w)' /\ req'[w].number = req'[q].number => w = q
  <2>1. CASE q = r
    BY <1>1, <1>2, <1>4, <1>5, <1>6, <2>1
  <2>2. CASE q # r
    BY <1>1, <1>2, <1>4, <1>5, <1>8, <2>2 DEF Triggers
  <2> QED
    BY <2>1, <2>2
<1>9. Triggers'
  BY <1>7, <1>8 DEF Triggers, Corrects
<1> QED
  BY <1>2, <1>9, SameTells

LEMMA CreateTells ==
  ASSUME IInv, Triggers, NEW r \in Request, CreateTx(r)
  PROVE  Tells
<1> DEFINE n == Sell(snap[r], req[r])
<1>1. pc[r] = "body" /\ req[r].kind = "create" /\ UNCHANGED updates
  BY DEF CreateTx
<1>2. /\ OK(snap[r]) /\ OK(db) /\ Evolves(snap[r], db, dirty[r])
      /\ req[r] \in Requests /\ CreationOK(db, "body", req[r])
  BY <1>1, BodyHandler
<1>3. PICK c : c = req[r]
  OBVIOUS
<1>4. /\ c \in CreateRequest /\ c.kind = "create"
      /\ c.pay \in Payload /\ c.key \in Key \cup {NoKey} /\ c.seller \in Seller
      /\ c.sale \in SaleId /\ db.audit[c.sale] = Absent
  BY <1>1, <1>2, <1>3, RequestTypes DEF CreateRequest, CreationOK
<1>5. CASE Abort(r) \/ Retry(r) \/ UNCHANGED <<db, req>>
  BY <1>1, <1>5, QuietTells DEF Abort, Retry
<1>6. CASE SellOutcome(snap[r], c) = "ok" /\ Commit(r, n) /\ UNCHANGED req
  <2>1. Disjoint(Written(snap[r], Sell(snap[r], c)), dirty[r])
    BY <1>3, <1>6 DEF Commit, Conflict
  <2>2. SellOutcome(db, c) = "ok" /\ Merge(db, snap[r], Sell(snap[r], c)) = Sell(db, c)
    BY <1>2, <1>4, <1>6, <2>1, MergeSell
  <2>3. db' = Sell(db, c)
    BY <1>3, <1>6, <2>2 DEF Commit
  <2>4. \A j \in db.jobs : j.trigger # c.sale
    BY <1>4, TriggersApart, SaleNumbers DEF Triggers, IInv, Logs
  <2>5. Records(db, db', c.sale) /\ db'.audit[c.sale] # Absent
    BY <1>2, <1>4, <2>2, <2>3, <2>4, SellRecords
  <2>6. ~ Corrects(r)' /\ \A q \in Request \ {r} : req'[q] = req[q]
    BY <1>1, <1>6 DEF Corrects
  <2>7. \A j \in db'.jobs \ db.jobs : j.trigger \in SaleId /\ db'.audit[j.trigger] # Absent
    BY <1>4, <2>5 DEF Records
  <2>8. \A i \in SaleId : db.audit[i] # Absent => db'.audit[i] # Absent
    BY <2>5 DEF Records
  <2>9. Triggers'
    BY <1>1, <2>6, <2>7, <2>8, TriggersOn
  <2> QED
    BY <2>5, <2>9 DEF Tells, Records
<1> QED
  BY <1>3, <1>5, <1>6 DEF CreateTx

LEMMA UpdateTells ==
  ASSUME IInv, Triggers, NEW r \in Request, UpdateTx(r)
  PROVE  Tells
<1> DEFINE n == Change(snap[r], req[r])
<1>1. pc[r] = "body" /\ req[r].kind = "update" /\ UNCHANGED updates
  BY DEF UpdateTx
<1>2. /\ OK(snap[r]) /\ OK(db) /\ Evolves(snap[r], db, dirty[r])
      /\ req[r] \in Requests
  BY <1>1, BodyHandler
<1>3. PICK u : u = req[r]
  OBVIOUS
<1>4. /\ u.sale \in SaleId /\ u.number \in 1 .. MaxUpdates /\ u # Absent
      /\ u.qty \in Qty \cup {Absent} /\ u.price \in Price \cup {Absent}
  BY <1>1, <1>2, <1>3, RequestTypes DEF UpdateRequest
<1>5. CASE Abort(r) \/ Retry(r)
  BY <1>1, <1>5, QuietTells DEF Abort, Retry
<1>6. CASE ChangeOutcome(snap[r], u) = "ok" /\ Commit(r, n) /\ Finish(r)
  <2>1. Disjoint(Written(snap[r], Change(snap[r], u)), dirty[r])
    BY <1>3, <1>6 DEF Commit, Conflict
  <2>2. \/ Merge(db, snap[r], Change(snap[r], u)) = db
        \/ ChangeOutcome(db, u) = "ok" /\ Merge(db, snap[r], Change(snap[r], u)) = Change(db, u)
    BY <1>2, <1>4, <1>6, <2>1, MergeChange
  <2>3. db' = db \/ (ChangeOutcome(db, u) = "ok" /\ db' = Change(db, u))
    BY <1>3, <1>6, <2>2 DEF Commit
  <2>4. CASE db' = db
    BY <1>1, <1>6, <2>4, QuietTells
  <2>5. CASE ChangeOutcome(db, u) = "ok" /\ db' = Change(db, u)
    <3>1. Corrects(r) /\ ~ Corrects(r)' /\ \A q \in Request \ {r} : req'[q] = req[q]
      BY <1>1, <1>3, <1>4, <1>6 DEF Corrects, Finish, IInv
    <3>2. \A j \in db.jobs : j.trigger # u.number
      BY <1>3, <3>1 DEF Triggers
    <3>3. Records(db, db', u.number)
      BY <1>2, <1>4, <2>5, <3>2, ChangeRecords
    <3>4. /\ \A j \in db'.jobs \ db.jobs : j.trigger = req[r].number
          /\ \A i \in SaleId : db.audit[i] # Absent => db'.audit[i] # Absent
      BY <1>3, <3>3 DEF Records
    <3>5. Triggers'
      BY <1>1, <3>1, <3>4, TriggersOn
    <3> QED
      BY <3>3, <3>5 DEF Tells, Records
  <2> QED
    BY <2>3, <2>4, <2>5
<1> QED
  BY <1>3, <1>5, <1>6 DEF UpdateTx

LEMMA CancelTells ==
  ASSUME IInv, Triggers, NEW r \in Request, CancelTx(r)
  PROVE  Tells
<1> DEFINE n == Cancel(snap[r], req[r].sale)
<1>1. pc[r] = "body" /\ req[r].kind = "cancel" /\ UNCHANGED updates
  BY DEF CancelTx
<1>2. /\ OK(snap[r]) /\ OK(db) /\ Evolves(snap[r], db, dirty[r])
      /\ req[r] \in Requests
  BY <1>1, BodyHandler
<1>3. PICK i \in SaleId : i = req[r].sale
  BY <1>1, <1>2, RequestTypes DEF CancelRequest
<1>4. CASE Abort(r) \/ Retry(r)
  BY <1>1, <1>4, QuietTells DEF Abort, Retry
<1>5. CASE CancelOutcome(snap[r], i) = "ok" /\ Commit(r, n) /\ Finish(r)
  <2>1. Disjoint(Written(snap[r], Cancel(snap[r], i)), dirty[r])
    BY <1>3, <1>5 DEF Commit, Conflict
  <2>2. CancelOutcome(db, i) = "ok" /\ db' = Cancel(db, i)
    BY <1>2, <1>3, <1>5, <2>1, MergeCancel DEF Commit
  <2>3. /\ AlertsMatch(db, db') /\ db'.jobs = db.jobs
        /\ \A j \in SaleId : db.audit[j] # Absent => db'.audit[j] # Absent
    BY <1>2, <2>2, CancelRecords
  <2> QED
    BY <1>1, <1>5, <2>3, WriteTells
<1> QED
  BY <1>3, <1>4, <1>5 DEF CancelTx

LEMMA PurgeTells ==
  ASSUME IInv, Triggers, NEW r \in Request, PurgeTx(r)
  PROVE  Tells
<1> DEFINE n == Purge(snap[r], req[r].product)
<1>1. pc[r] = "body" /\ req[r].kind = "purge" /\ UNCHANGED updates
  BY DEF PurgeTx
<1>2. /\ OK(snap[r]) /\ OK(db) /\ Evolves(snap[r], db, dirty[r])
      /\ req[r] \in Requests
  BY <1>1, BodyHandler
<1>3. PICK p \in Product : p = req[r].product
  BY <1>1, <1>2, RequestTypes DEF PurgeRequest
<1>4. CASE Abort(r) \/ Retry(r)
  BY <1>1, <1>4, QuietTells DEF Abort, Retry
<1>5. CASE snap[r].products[p] # Absent /\ Commit(r, n) /\ Finish(r)
  <2>1. Disjoint(Written(snap[r], Purge(snap[r], p)), dirty[r])
    BY <1>3, <1>5 DEF Commit, Conflict
  <2>2. db.products[p] # Absent /\ db' = Purge(db, p)
    BY <1>2, <1>3, <1>5, <2>1, MergePurge DEF Commit
  <2>3. AlertsMatch(db, db') /\ db'.jobs = db.jobs /\ db'.audit = db.audit
    BY <1>2, <2>2, PurgeRecords
  <2> QED
    BY <1>1, <1>5, <2>3, WriteTells
<1> QED
  BY <1>3, <1>4, <1>5 DEF PurgeTx

LEMMA PatchTells ==
  ASSUME IInv, Triggers, NEW r \in Request, PatchWrite(r)
  PROVE  Tells
<1>1. /\ pc[r] = "write" /\ Finish(r) /\ UNCHANGED updates
      /\ \/ db' = db
         \/ /\ db.products[req[r].product] # Absent
            /\ db' = Patch(db, req[r].product, req[r].added, req[r].cost)
  BY DEF PatchWrite, WriteProduct
<1>2. /\ req[r].product \in Product /\ req[r].added \in {0, 1}
      /\ req[r].cost \in Cost \cup {Absent}
  BY <1>1, PatchStage DEF PatchRequest
<1>3. CASE db' = db
  BY <1>1, <1>3, QuietTells
<1>4. CASE db' # db
  <2>1. AlertsMatch(db, db') /\ db'.jobs = db.jobs /\ db'.audit = db.audit
    BY <1>1, <1>2, <1>4, WriteRecords DEF IInv
  <2> QED
    BY <1>1, <2>1, WriteTells
<1> QED
  BY <1>3, <1>4

LEMMA TrashTells ==
  ASSUME IInv, Triggers, NEW p \in Product, TrashProduct(p) \/ RestoreProduct(p)
  PROVE  Tells
<1>1. PICK r \in Request : TRUE
  BY SalesNumbers
<1>2. PICK flag \in BOOLEAN : /\ db.products[p] # Absent /\ db' = SetTrashed(db, p, flag)
                              /\ UNCHANGED <<req, updates>>
  BY DEF TrashProduct, RestoreProduct, WriteProduct
<1>3. AlertsMatch(db, db') /\ db'.jobs = db.jobs /\ db'.audit = db.audit
  BY <1>2, WriteRecords DEF IInv
<1> QED
  BY <1>1, <1>2, <1>3, WriteTells

LEMMA NextTells ==
  ASSUME IInv, Triggers, [Next]_vars
  PROVE  Tells
<1>1. CASE UNCHANGED vars
  <2>1. PICK r \in Request : TRUE
    BY SalesNumbers
  <2> QED
    BY <1>1, <2>1, QuietTells DEF vars
<1>2. ASSUME NEW r \in Request,
             \/ Begin(r) \/ Lookup(r) \/ Winner(r) \/ Replay(r) \/ Answer(r)
             \/ Locate(r) \/ PatchLog(r) \/ PatchSection(r) \/ Fail(r)
      PROVE  Tells
  <2>1. db' = db /\ UNCHANGED updates /\ (UNCHANGED req \/ Finish(r))
    BY <1>2 DEF Begin, Lookup, Winner, Replay, Answer, Locate, PatchLog, PatchSection,
                Fail, Abort, Leave, Goto
  <2> QED
    BY <2>1, QuietTells
<1>3. ASSUME NEW r \in Request, PatchRead(r)
      PROVE  Tells
  <2>1. CASE Leave(r)
    BY <1>3, <2>1, QuietTells DEF PatchRead, Leave
  <2>2. CASE ~ Leave(r)
    <3>1. /\ db' = db /\ UNCHANGED updates /\ pc[r] = "read"
          /\ \E cost : req' = [req EXCEPT ![r] = [req[r] EXCEPT !.cost = cost]]
      BY <1>3, <2>2 DEF PatchRead, IInv
    <3>2. req[r].kind = "patch" /\ req[r] \in PatchRequest
      BY <3>1, PatchStage
    <3>3. req'[r].kind = "patch" /\ \A q \in Request \ {r} : req'[q] = req[q]
      BY <3>1, <3>2 DEF PatchRequest, IInv
    <3> QED
      BY <3>1, <3>3, TriggersOn, SameTells DEF Corrects
  <2> QED
    BY <2>1, <2>2
<1> QED
  BY <1>1, <1>2, <1>3, ReceiveTells, ReceiveUpdateTells, CreateTells, UpdateTells,
     CancelTells, PurgeTells, PatchTells, TrashTells DEF Next, Step

LEMMA FirstTriggers == Init => Triggers
<1> SUFFICES ASSUME Init
             PROVE  Triggers
  OBVIOUS
<1>1. db.jobs = {}
  <2>1. PICK drift \in {0, 1}, cost \in Cost : db = Book!Start(drift, cost)
    BY DEF Init, Book!Init, Book!StartDrift
  <2> QED
    BY <2>1 DEF Book!Start
<1>2. \A r \in Request : ~ Corrects(r)
  BY DEF Init, Corrects
<1> QED
  BY <1>1, <1>2 DEF Triggers

\* The key of an event is used once: a sale or a correction that has not
\* committed has recorded none (`recordStockThresholds` of sales.service.ts).
THEOREM TriggersAreNew == Spec => []Triggers
<1>1. IInv /\ Triggers /\ [Next]_vars => Triggers'
  BY NextTells DEF Tells
<1> QED
  BY <1>1, Invariant, FirstTriggers, PTL DEF Spec

\* An alert comes with each stock that reaches zero, or else crosses 80 %, in
\* the transaction that wrote it, once, and with nothing else.
THEOREM AlertsWithCrossings == Spec => AlertsMatchCrossings
<1>1. ASSUME IInv, Triggers, [Next]_vars
      PROVE  [\A p \in Product :
                LET new == {j.category : j \in {i \in db'.jobs \ db.jobs :
                                                  i.product = p /\ i.category # "SALE_CREATED"}}
                    a == db.products[p]
                    b == db'.products[p]
                IN  IF a # Absent /\ b # Absent
                    THEN new = IF a.remaining > 0 /\ b.remaining = 0 THEN {"STOCK_DEPLETED"}
                               ELSE IF b.remaining > 0
                                         /\ LowCrossed(b.initial, a.remaining, b.remaining)
                               THEN {"STOCK_LOW"} ELSE {}
                    ELSE new = {}]_vars
  <2>1. AlertsMatch(db, db')
    BY <1>1, NextTells DEF Tells
  <2> QED
    BY <2>1, Zenon DEF AlertsMatch, NewAlerts, Crossing
<1> QED
  BY <1>1, Invariant, TriggersAreNew, PTL DEF Spec, AlertsMatchCrossings

\* A deletion for good, whatever runs beside it, leaves the cost of sales of the
\* overview as it was: what it takes from the stock is what the sales and the
\* adjustment keep (`permanentDelete` of products.service.ts).
THEOREM PurgesKeepCost == Spec => PurgeKeepsCost
<1>1. ASSUME IInv, [Next]_vars
      PROVE  (\E p \in Product : db.products[p] # Absent /\ db'.products[p] = Absent)
               => CostOfSales(db') = CostOfSales(db)
  <2> SUFFICES ASSUME NEW p \in Product, db.products[p] # Absent, db'.products[p] = Absent
               PROVE  CostOfSales(db') = CostOfSales(db)
    OBVIOUS
  <2>1. OK(db) /\ Operation(db, db')
    BY <1>1, StepInv DEF IInv
  <2> QED
    BY <2>1, RemovalCost
<1>2. IInv /\ [Next]_vars
        => [(\E p \in Product : db.products[p] # Absent /\ db'.products[p] = Absent)
              => CostOfSales(db') = CostOfSales(db)]_vars
  BY <1>1
<1> QED
  BY <1>2, Invariant, PTL DEF Spec, PurgeKeepsCost

----------------------------------------------------------------------------
(* Requests advance *)

\* How far a handler is from its end.
StagesLeft ==
  [stage \in Stage |->
     CASE stage \in {"lookup", "locate"} -> 5
       [] stage \in {"begin", "read"} -> 4
       [] stage \in {"body", "log"} -> 3
       [] stage \in {"winner", "section"} -> 2
       [] stage = "idle" -> 0
       [] OTHER -> 1]

Advances(r) ==
  \/ StagesLeft[pc'[r]] < StagesLeft[pc[r]]
  \/ pc[r] = "body" /\ pc'[r] = "begin" /\ req'[r] = req[r] /\ dirty[r] # NoDocs

\* What EveryRequestEnds takes for a write of the documents.
Writers ==
  \/ db' # db
  \/ \E p \in Product : TrashProduct(p) \/ RestoreProduct(p)
  \/ \E r \in Request : PatchWrite(r)

\* A handler comes nearer to its end with each step, unless it runs its body
\* again: for a document written since its snapshot, which only a write does.
RequestsAdvance ==
  [][\A r \in Request :
       /\ pc[r] # "idle" => (pc'[r] = pc[r] /\ req'[r] = req[r]) \/ Advances(r)
       /\ dirty'[r] \in {dirty[r], NoDocs} \/ Writers]_vars

\* A body that conflicts has something written since its snapshot.
LEMMA RetryAdvances ==
  ASSUME IInv, NEW r \in Request, pc[r] = "body", Retry(r),
         \/ \E n : Conflict(r, n)
         \/ \E k : k \in dirty[r].ops
  PROVE  Advances(r)
<1>1. pc'[r] = "begin" /\ req'[r] = req[r]
  BY DEF Retry, IInv
<1>2. dirty[r] # NoDocs
  BY DEF Conflict, Disjoint, NoDocs
<1> QED
  BY <1>1, <1>2 DEF Advances

\* A step of a handler brings it nearer to its end.
LEMMA StepAdvances ==
  ASSUME IInv, NEW r \in Request, Step(r) \/ Fail(r)
  PROVE  Advances(r)
<1>1. ASSUME NEW stage, pc' = [pc EXCEPT ![r] = stage]
      PROVE  pc'[r] = stage
  BY <1>1 DEF IInv
<1>2. Finish(r) \/ Abort(r) \/ Leave(r) => pc'[r] = "idle"
  BY <1>1 DEF Finish, Abort, Leave
<1>3. ASSUME NEW stage, Goto(r, stage)
      PROVE  pc'[r] = stage
  BY <1>1, <1>3 DEF Goto
<1>4. CASE pc'[r] = "idle" /\ pc[r] # "idle"
  <2>1. pc[r] \in Stage /\ pc[r] # "idle"
    BY <1>4 DEF IInv
  <2>2. StagesLeft["idle"] = 0 /\ StagesLeft[pc[r]] \in 1 .. 5
    BY <2>1 DEF StagesLeft, Stage
  <2> QED
    BY <1>4, <2>2 DEF Advances
<1>5. CASE Begin(r)
  <2>1. pc[r] = "begin" /\ pc'[r] = "body"
    BY <1>1, <1>5 DEF Begin
  <2> QED
    BY <2>1 DEF Advances, StagesLeft, Stage
<1>6. CASE Lookup(r)
  <2>1. pc[r] = "lookup" /\ pc'[r] \in {"replay", "begin", "idle"}
    BY <1>2, <1>3, <1>6 DEF Lookup
  <2> QED
    BY <2>1 DEF Advances, StagesLeft, Stage
<1>7. CASE CreateTx(r)
  <2>1. pc[r] = "body"
    BY <1>7 DEF CreateTx
  <2>2. \/ Retry(r) /\ ((\E n : Conflict(r, n)) \/ \E k : k \in dirty[r].ops)
        \/ pc'[r] \in {"winner", "answer", "idle"}
    BY <1>1, <1>2, <1>7 DEF CreateTx
  <2>3. CASE pc'[r] \in {"winner", "answer", "idle"}
    BY <2>1, <2>3 DEF Advances, StagesLeft, Stage
  <2> QED
    BY <2>1, <2>2, <2>3, RetryAdvances
<1>8. CASE Winner(r)
  <2>1. pc[r] = "winner" /\ pc'[r] \in {"replay", "idle"}
    BY <1>2, <1>3, <1>8 DEF Winner
  <2> QED
    BY <2>1 DEF Advances, StagesLeft, Stage
<1>9. CASE Replay(r) \/ Answer(r) \/ PatchWrite(r) \/ Fail(r)
  <2>1. pc[r] # "idle" /\ pc'[r] = "idle"
    BY <1>2, <1>9 DEF Replay, Answer, PatchWrite, Fail
  <2> QED
    BY <1>4, <2>1
<1>10. CASE UpdateTx(r) \/ CancelTx(r) \/ PurgeTx(r)
  <2>1. pc[r] = "body"
    BY <1>10 DEF UpdateTx, CancelTx, PurgeTx
  <2>2. \/ Retry(r) /\ \E n : Conflict(r, n)
        \/ pc'[r] = "idle"
    BY <1>2, <1>10 DEF UpdateTx, CancelTx, PurgeTx
  <2> QED
    BY <1>4, <2>1, <2>2, RetryAdvances
<1>11. CASE Locate(r)
  <2>1. pc[r] = "locate" /\ pc'[r] \in {"idle", "begin"}
    BY <1>2, <1>3, <1>11 DEF Locate
  <2> QED
    BY <2>1 DEF Advances, StagesLeft, Stage
<1>12. CASE PatchRead(r)
  <2>1. pc[r] = "read" /\ pc'[r] \in {"idle", "log"}
    BY <1>1, <1>2, <1>12 DEF PatchRead
  <2> QED
    BY <2>1 DEF Advances, StagesLeft, Stage
<1>13. CASE PatchLog(r)
  <2>1. pc[r] = "log" /\ pc'[r] \in {"section", "write"}
    BY <1>3, <1>13 DEF PatchLog
  <2> QED
    BY <2>1 DEF Advances, StagesLeft, Stage
<1>14. CASE PatchSection(r)
  <2>1. pc[r] = "section" /\ pc'[r] \in {"idle", "write"}
    BY <1>2, <1>3, <1>14 DEF PatchSection
  <2> QED
    BY <2>1 DEF Advances, StagesLeft, Stage
<1> QED
  BY <1>5, <1>6, <1>7, <1>8, <1>9, <1>10, <1>11, <1>12, <1>13, <1>14 DEF Step

\* Who leaves a transaction without a write adds nothing to the others.
LEMMA LeaveTxDirty ==
  ASSUME IInv, NEW r \in Request, NEW docs, LeaveTx(r, docs),
         docs.products = {}, docs.sales = {}, docs.ops = {}, NEW q \in Request
  PROVE  dirty'[q] \in {dirty[q], NoDocs}
<1>1. dirty[q] \in DocSets
  BY DEF IInv
<1>2. dirty'[q] = IF q = r \/ snap[q] = Absent THEN NoDocs
                  ELSE [products |-> dirty[q].products \cup docs.products,
                        sales    |-> dirty[q].sales \cup docs.sales,
                        ops      |-> dirty[q].ops \cup docs.ops]
  BY DEF LeaveTx
<1>3. [products |-> dirty[q].products, sales |-> dirty[q].sales, ops |-> dirty[q].ops]
        = dirty[q]
  BY <1>1 DEF DocSets
<1>4. /\ dirty[q].products \cup docs.products = dirty[q].products
      /\ dirty[q].sales \cup docs.sales = dirty[q].sales
      /\ dirty[q].ops \cup docs.ops = dirty[q].ops
  OBVIOUS
<1> QED
  BY <1>2, <1>3, <1>4, Zenon

\* A commit that leaves the documents as they are wrote none.
LEMMA CommitWrites ==
  ASSUME IInv, NEW r \in Request, pc[r] = "body", NEW n, Commit(r, n), db' = db
  PROVE  LET docs == Written(snap[r], n)
         IN  docs.products = {} /\ docs.sales = {} /\ docs.ops = {}
<1> DEFINE docs == Written(snap[r], n)
<1>1. Evolves(snap[r], db, dirty[r]) /\ db \in Database
  BY BodyHandler DEF OK
<1>2. Disjoint(docs, dirty[r]) /\ db = Merge(db, snap[r], n)
  BY DEF Commit, Conflict
<1>3. DOMAIN db.products = Product /\ DOMAIN db.sales = SaleId /\ DOMAIN db.ops = Key
  BY <1>1, Collections
<1>4. ASSUME NEW p \in docs.products
      PROVE  FALSE
  <2>1. p \in Product /\ n.products[p] # snap[r].products[p] /\ p \notin dirty[r].products
    BY <1>2 DEF Disjoint, Written
  <2>2. db.products[p] = snap[r].products[p]
    BY <1>1, <2>1 DEF Evolves
  <2>3. db.products = Newer(db.products, snap[r].products, n.products)
    BY <1>2 DEF Merge
  <2>4. db.products[p] = n.products[p]
    BY <1>3, <2>1, <2>3 DEF Newer
  <2> QED
    BY <2>1, <2>2, <2>4
<1>5. ASSUME NEW i \in docs.sales
      PROVE  FALSE
  <2>1. i \in SaleId /\ n.sales[i] # snap[r].sales[i] /\ i \notin dirty[r].sales
    BY <1>2 DEF Disjoint, Written
  <2>2. db.sales[i] = snap[r].sales[i]
    BY <1>1, <2>1 DEF Evolves
  <2>3. db.sales = Newer(db.sales, snap[r].sales, n.sales)
    BY <1>2 DEF Merge
  <2>4. db.sales[i] = n.sales[i]
    BY <1>3, <2>1, <2>3 DEF Newer
  <2> QED
    BY <2>1, <2>2, <2>4
<1>6. ASSUME NEW k \in docs.ops
      PROVE  FALSE
  <2>1. k \in Key /\ n.ops[k] # snap[r].ops[k] /\ k \notin dirty[r].ops
    BY <1>2 DEF Disjoint, Written
  <2>2. db.ops[k] = snap[r].ops[k]
    BY <1>1, <2>1 DEF Evolves
  <2>3. db.ops = Newer(db.ops, snap[r].ops, n.ops)
    BY <1>2 DEF Merge
  <2>4. db.ops[k] = n.ops[k]
    BY <1>3, <2>1, <2>3 DEF Newer
  <2> QED
    BY <2>1, <2>2, <2>4
<1> HIDE DEF docs
<1> QED
  BY <1>4, <1>5, <1>6 DEF docs

\* Every request arrives in the same way.
LEMMA Receives ==
  ASSUME NEW r \in Request,
         \/ ReceiveCreate(r) \/ ReceiveUpdate(r) \/ ReceiveCancel(r)
         \/ ReceivePurge(r) \/ ReceivePatch(r)
  PROVE  \E body, stage : Receive(r, body, stage)
<1>1. CASE ReceiveCreate(r)
  BY <1>1, Zenon DEF ReceiveCreate
<1>2. CASE ReceiveUpdate(r)
  BY <1>2, Zenon DEF ReceiveUpdate
<1>3. CASE ReceiveCancel(r)
  BY <1>3, Zenon DEF ReceiveCancel
<1>4. CASE ReceivePurge(r)
  BY <1>4, Zenon DEF ReceivePurge
<1>5. CASE ReceivePatch(r)
  BY <1>5, Zenon DEF ReceivePatch
<1> QED
  BY <1>1, <1>2, <1>3, <1>4, <1>5

\* Only a write makes an open snapshot older than the documents.
LEMMA OnlyWritersDelay ==
  ASSUME IInv, Next, ~ Writers, NEW q \in Request
  PROVE  dirty'[q] \in {dirty[q], NoDocs}
<1>1. CASE UNCHANGED dirty
  BY <1>1
<1>2. NoDocs.products = {} /\ NoDocs.sales = {} /\ NoDocs.ops = {}
  BY DEF NoDocs
<1>3. ASSUME NEW r \in Request, LeaveTx(r, NoDocs)
      PROVE  dirty'[q] \in {dirty[q], NoDocs}
  BY <1>2, <1>3, LeaveTxDirty
<1>4. ASSUME NEW r \in Request, pc[r] = "body", NEW n, Commit(r, n)
      PROVE  dirty'[q] \in {dirty[q], NoDocs}
  <2>1. db' = db /\ LeaveTx(r, Written(snap[r], n))
    BY <1>4 DEF Writers, Commit
  <2> QED
    BY <1>4, <2>1, CommitWrites, LeaveTxDirty
<1>5. ASSUME NEW r \in Request, Begin(r)
      PROVE  dirty'[q] \in {dirty[q], NoDocs}
  <2>1. dirty' = [dirty EXCEPT ![r] = NoDocs] /\ dirty \in [Request -> DocSets]
    BY <1>5 DEF Begin, IInv
  <2> QED
    BY <2>1
<1>6. ASSUME NEW r \in Request,
             \/ ReceiveCreate(r) \/ ReceiveUpdate(r) \/ ReceiveCancel(r)
             \/ ReceivePurge(r) \/ ReceivePatch(r)
      PROVE  UNCHANGED dirty
  BY <1>6, Receives DEF Receive
<1>7. ASSUME NEW r \in Request,
             Lookup(r) \/ Winner(r) \/ Replay(r) \/ Answer(r) \/ Locate(r) \/ PatchRead(r)
               \/ PatchLog(r) \/ PatchSection(r)
      PROVE  UNCHANGED dirty
  BY <1>7 DEF Lookup, Winner, Replay, Answer, Locate, PatchRead, PatchLog, PatchSection,
     Goto, Leave
<1>8. ASSUME NEW r \in Request, CreateTx(r)
      PROVE  \/ LeaveTx(r, NoDocs)
             \/ pc[r] = "body" /\ \E n : Commit(r, n)
  BY <1>8 DEF CreateTx, Retry, Abort
<1>9. ASSUME NEW r \in Request, UpdateTx(r) \/ CancelTx(r) \/ PurgeTx(r) \/ Fail(r)
      PROVE  \/ LeaveTx(r, NoDocs)
             \/ pc[r] = "body" /\ \E n : Commit(r, n)
  BY <1>9 DEF UpdateTx, CancelTx, PurgeTx, Fail, Retry, Abort
<1>10. ASSUME NEW r \in Request, Step(r) \/ Fail(r)
       PROVE  dirty'[q] \in {dirty[q], NoDocs}
  <2>1. ~ PatchWrite(r)
    BY DEF Writers
  <2> QED
    BY <1>1, <1>3, <1>4, <1>5, <1>7, <1>8, <1>9, <1>10, <2>1 DEF Step
<1>11. ~ \E p \in Product : TrashProduct(p) \/ RestoreProduct(p)
  BY DEF Writers
<1> QED
  BY <1>1, <1>6, <1>10, <1>11 DEF Next

\* The handlers of a deployment delay each other by writes only: whoever has
\* to run its transaction again does so because another request has written,
\* and whatever does not conflict comes to its end.
THEOREM RequestsDoNotLoop == Spec => RequestsAdvance
<1>1. ASSUME IInv, Next, NEW q \in Request, pc[q] # "idle"
      PROVE  (pc'[q] = pc[q] /\ req'[q] = req[q]) \/ Advances(q)
  <2>1. ASSUME NEW r \in Request,
               \/ ReceiveCreate(r) \/ ReceiveUpdate(r) \/ ReceiveCancel(r)
               \/ ReceivePurge(r) \/ ReceivePatch(r)
        PROVE  pc'[q] = pc[q] /\ req'[q] = req[q]
    <3>1. pc[r] = "idle" /\ \E stage, body : /\ pc' = [pc EXCEPT ![r] = stage]
                                            /\ req' = [req EXCEPT ![r] = body]
      BY <2>1, Receives DEF Receive
    <3> QED
      BY <1>1, <3>1 DEF IInv
  <2>2. ASSUME NEW r \in Request, Step(r) \/ Fail(r), q # r
        PROVE  pc'[q] = pc[q] /\ req'[q] = req[q]
    <3>1. \E stage : pc' = [pc EXCEPT ![r] = stage]
      BY <2>2 DEF Step, Begin, Lookup, CreateTx, Winner, Replay, Answer, UpdateTx, CancelTx,
         Locate, PurgeTx, PatchRead, PatchLog, PatchSection, PatchWrite, Fail, Retry, Abort,
         Leave, Goto, Finish
    <3>2. (\E body : req' = [req EXCEPT ![r] = body]) \/ req' = req
      BY <2>2 DEF Step, Begin, Lookup, CreateTx, Winner, Replay, Answer, UpdateTx, CancelTx,
         Locate, PurgeTx, PatchRead, PatchLog, PatchSection, PatchWrite, Fail, Retry, Abort,
         Leave, Goto, Finish
    <3>3. pc'[q] = pc[q]
      BY <1>1, <2>2, <3>1 DEF IInv
    <3>4. req'[q] = req[q]
      BY <1>1, <2>2, <3>2 DEF IInv
    <3> QED
      BY <3>3, <3>4
  <2>3. ASSUME NEW p \in Product, TrashProduct(p) \/ RestoreProduct(p)
        PROVE  pc' = pc /\ req' = req
    BY <2>3 DEF TrashProduct, RestoreProduct
  <2>4. ASSUME NEW r \in Request, Step(r) \/ Fail(r)
        PROVE  (pc'[q] = pc[q] /\ req'[q] = req[q]) \/ Advances(q)
    <3>1. Advances(r)
      BY <1>1, <2>4, StepAdvances
    <3> QED
      BY <2>2, <2>4, <3>1
  <2> QED
    BY <1>1, <2>1, <2>3, <2>4 DEF Next
<1>2. IInv /\ [Next]_vars =>
        [\A r \in Request :
           /\ pc[r] # "idle" => (pc'[r] = pc[r] /\ req'[r] = req[r]) \/ Advances(r)
           /\ dirty'[r] \in {dirty[r], NoDocs} \/ Writers]_vars
  BY <1>1, OnlyWritersDelay
<1> QED
  BY Invariant, <1>2, PTL DEF Spec, RequestsAdvance

=============================================================================
