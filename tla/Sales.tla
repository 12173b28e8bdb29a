-------------------------------- MODULE Sales --------------------------------
(***************************************************************************)
(* Concurrent requests on the sales and the products of one organization   *)
(* (api/src/sales/sales.service.ts, api/src/products/products.service.ts). *)
(*                                                                         *)
(* A request is a handler of the API: it stops at every await that reads   *)
(* or writes the database, so pc says what it does next.  The body of a    *)
(* withTransaction reads the snapshot taken at its first operation and is  *)
(* one step here, since nothing of it is visible before its commit.        *)
(* MongoDB refuses to commit a write of a document that another request    *)
(* wrote since the snapshot; the driver then runs the body again on a new  *)
(* snapshot.  A document the transaction only read is not protected: that  *)
(* is snapshot isolation, and why what the handlers read and write matters.*)
(***************************************************************************)
EXTENDS SalesDocs

CONSTANTS
  MaxRestock,   \* bound: units added to one product by modifications
  Request,      \* handlers that run at the same time
  Kinds         \* bound: kinds of requests, and failures, that happen

ASSUME SalesNumbers == MaxRestock \in Nat /\ Request # {}

VARIABLES
  db,          \* the committed documents
  pc,          \* pc[r]: what handler r does next
  req,         \* req[r]: the request it serves, Absent when idle
  snap,        \* snap[r]: what its transaction reads, Absent outside of one
  dirty,       \* dirty[r]: documents others wrote since that snapshot
  acked,       \* acked[k]: sales returned to clients for key k
  restockLog,  \* restockLog[p]: units announced by STOCK_CHANGED audit entries
  updates      \* corrections received, to number them

vars == <<db, pc, req, snap, dirty, acked, restockLog, updates>>

CreateRequest ==
  [kind : {"create"}, key : Key \cup {NoKey}, seller : Seller, pay : Payload,
   sale : SaleId \cup {Absent}, allowed : BOOLEAN]
UpdateRequest ==
  [kind : {"update"}, sale : SaleId, qty : Qty \cup {Absent},
   price : Price \cup {Absent}, number : 1 .. MaxUpdates]
CancelRequest == [kind : {"cancel"}, sale : SaleId]
PurgeRequest  == [kind : {"purge"}, product : Product]
PatchRequest  ==
  [kind : {"patch"}, product : Product, added : {0, 1},
   cost : Cost \cup {Absent}, move : BOOLEAN]

Requests == CreateRequest \cup UpdateRequest \cup CancelRequest
              \cup PurgeRequest \cup PatchRequest

ASSUME NoSuchRequest == Absent \notin Requests

Stage == {"idle", "lookup", "begin", "body", "winner", "replay", "answer",
          "locate", "read", "log", "section", "write"}

\* Documents a transaction can conflict on; the others are only inserted.
DocSets == [products : SUBSET Product, sales : SUBSET SaleId, ops : SUBSET Key]
NoDocs  == [products |-> {}, sales |-> {}, ops |-> {}]

Book == INSTANCE SalesBook WITH db <- db

Init ==
  /\ Book!Init
  /\ pc = [r \in Request |-> "idle"]
  /\ req = [r \in Request |-> Absent]
  /\ snap = [r \in Request |-> Absent]
  /\ dirty = [r \in Request |-> NoDocs]
  /\ acked = [k \in Key |-> {}]
  /\ restockLog = [p \in Product |-> 0]
  /\ updates = 0

----------------------------------------------------------------------------
(* Transactions of the database *)

\* The documents that differ between databases c and n.
Written(c, n) ==
  [products |-> {p \in Product : c.products[p] # n.products[p]},
   sales    |-> {s \in SaleId : c.sales[s] # n.sales[s]},
   ops      |-> {k \in Key : c.ops[k] # n.ops[k]}]

\* Mutant of Disjoint: conflicts on products are not seen.
DisjointSales(a, b) == a.sales \cap b.sales = {} /\ a.ops \cap b.ops = {}

\* Mutant of Disjoint: conflicts on sales are not seen.
DisjointStock(a, b) == a.products \cap b.products = {} /\ a.ops \cap b.ops = {}

Disjoint(a, b) ==
  /\ a.products \cap b.products = {}
  /\ a.sales \cap b.sales = {}
  /\ a.ops \cap b.ops = {}

\* The body of r's transaction leads from its snapshot to n: it conflicts if
\* it writes a document that was written since.
Conflict(r, n) == ~ Disjoint(Written(snap[r], n), dirty[r])

\* Audit entries are only inserted: a cancellation is never taken back.
MergeTrail(c, s, n) ==
  IF n = s THEN c
  ELSE IF c = Absent THEN n ELSE [n EXCEPT !.cancelled = @ \/ c.cancelled]

\* What the transaction wrote (from snapshot s to n) put over the current c.
Newer(c, s, n) == [x \in DOMAIN c |-> IF n[x] # s[x] THEN n[x] ELSE c[x]]

Merge(c, s, n) ==
  [products    |-> Newer(c.products, s.products, n.products),
   sales       |-> Newer(c.sales, s.sales, n.sales),
   ops         |-> Newer(c.ops, s.ops, n.ops),
   adjustments |-> Newer(c.adjustments, s.adjustments, n.adjustments),
   audit       |-> [i \in SaleId |-> MergeTrail(c.audit[i], s.audit[i], n.audit[i])],
   jobs        |-> c.jobs \cup (n.jobs \ s.jobs)]

\* Mutant of LeaveTx: the session is never ended.
LeaveTxOpen(r, docs) == UNCHANGED snap /\ dirty' = [dirty EXCEPT ![r] = NoDocs]

\* Handler r leaves its transaction, if any; what it wrote (docs) is newer
\* than the snapshots of the other transactions.
LeaveTx(r, docs) ==
  /\ snap' = [snap EXCEPT ![r] = Absent]
  /\ dirty' = [q \in Request |->
                 IF q = r \/ snap[q] = Absent THEN NoDocs
                 ELSE [products |-> dirty[q].products \cup docs.products,
                       sales    |-> dirty[q].sales \cup docs.sales,
                       ops      |-> dirty[q].ops \cup docs.ops]]

\* The first operation of a transaction fixes its snapshot.
Begin(r) ==
  /\ pc[r] = "begin"
  /\ pc' = [pc EXCEPT ![r] = "body"]
  /\ snap' = [snap EXCEPT ![r] = db]
  /\ dirty' = [dirty EXCEPT ![r] = NoDocs]
  /\ UNCHANGED <<db, req, acked, restockLog, updates>>

\* Mutant of Retry: the body runs again on the old snapshot.
RetryStale(r) ==
  /\ pc' = [pc EXCEPT ![r] = "body"]
  /\ UNCHANGED <<db, req, snap, dirty>>

\* A write conflict: the driver aborts and runs the same body again, with
\* the ids chosen before the transaction.
Retry(r) ==
  /\ pc' = [pc EXCEPT ![r] = "begin"]
  /\ LeaveTx(r, NoDocs)
  /\ UNCHANGED <<db, req>>

\* Mutant of Commit: last writer wins.
CommitUnchecked(r, n) ==
  /\ db' = Merge(db, snap[r], n)
  /\ LeaveTx(r, Written(snap[r], n))

Commit(r, n) ==
  /\ ~ Conflict(r, n)
  /\ db' = Merge(db, snap[r], n)
  /\ LeaveTx(r, Written(snap[r], n))

\* The handler ends, with a response or an error; an open transaction aborts.
Finish(r) ==
  /\ pc' = [pc EXCEPT ![r] = "idle"]
  /\ req' = [req EXCEPT ![r] = Absent]

Abort(r) == Finish(r) /\ LeaveTx(r, NoDocs) /\ UNCHANGED db

Leave(r) == Finish(r) /\ UNCHANGED <<db, snap, dirty>>

Goto(r, stage) ==
  /\ pc' = [pc EXCEPT ![r] = stage]
  /\ UNCHANGED <<db, req, snap, dirty>>

----------------------------------------------------------------------------
(* Requests arrive *)

Receive(r, body, stage) ==
  /\ body.kind \in Kinds
  /\ pc[r] = "idle"
  /\ req' = [req EXCEPT ![r] = body]
  /\ pc' = [pc EXCEPT ![r] = stage]
  /\ UNCHANGED <<db, snap, dirty, acked, restockLog>>

\* Neither recorded nor promised to a request: what a new ObjectId is.
NewSaleId(s) ==
  /\ db.audit[s] = Absent
  /\ \A q \in Request : req[q] # Absent /\ req[q].kind = "create" => req[q].sale # s

\* An expired subscription refuses a sale without a key at once.  The new id
\* is drawn here; a key already applied never needs one.
ReceiveCreate(r) ==
  \E key \in Key \cup {NoKey}, seller \in Seller, pay \in Payload,
     allowed \in BOOLEAN, s \in SaleId \cup {Absent} :
    /\ key # NoKey \/ allowed
    /\ IF s = Absent THEN key # NoKey /\ db.ops[key] # Absent ELSE NewSaleId(s)
    /\ Receive(r, [kind |-> "create", key |-> key, seller |-> seller, pay |-> pay,
                   sale |-> s, allowed |-> allowed],
               IF key = NoKey THEN "begin" ELSE "lookup")
    /\ UNCHANGED updates

ReceiveUpdate(r) ==
  \E s \in SaleId, qty \in Qty \cup {Absent}, price \in Price \cup {Absent} :
    /\ updates < MaxUpdates
    /\ Receive(r, [kind |-> "update", sale |-> s, qty |-> qty, price |-> price,
                   number |-> updates + 1], "begin")
    /\ updates' = updates + 1

ReceiveCancel(r) ==
  \E s \in SaleId :
    Receive(r, [kind |-> "cancel", sale |-> s], "begin") /\ UNCHANGED updates

ReceivePurge(r) ==
  \E p \in Product :
    Receive(r, [kind |-> "purge", product |-> p], "locate") /\ UNCHANGED updates

\* The last conjunct is the bound: units logged, or about to be.
ReceivePatch(r) ==
  \E p \in Product, added \in {0, 1}, cost \in Cost \cup {Absent}, move \in BOOLEAN :
    /\ added = 1 \/ cost # Absent
    /\ Receive(r, [kind |-> "patch", product |-> p, added |-> added,
                   cost |-> cost, move |-> move], "read")
    /\ UNCHANGED updates
    /\ restockLog[p] + added
         + Cardinality({q \in Request : /\ pc[q] \in {"read", "log"}
                                        /\ req[q].product = p
                                        /\ req[q].added = 1}) <= MaxRestock

----------------------------------------------------------------------------
(* Creation of a sale *)

\* A key already applied is replayed, whatever the subscription; an inactive
\* subscription refuses an unknown key.
Lookup(r) ==
  /\ pc[r] = "lookup"
  /\ IF db.ops[req[r].key] # Absent THEN Goto(r, "replay")
     ELSE IF req[r].allowed THEN Goto(r, "begin") ELSE Leave(r)
  /\ UNCHANGED <<acked, restockLog, updates>>

\* The operation document is the first write: a concurrent insertion of the
\* same key is a write conflict, one in the snapshot a duplicate key.  Only
\* then does a missing product or a lack of stock end the request.
CreateTx(r) ==
  LET c == req[r]
      outcome == SellOutcome(snap[r], c)
      n == Sell(snap[r], c)
  IN  /\ pc[r] = "body" /\ c.kind = "create"
      /\ IF c.key \in dirty[r].ops THEN Retry(r)
         ELSE IF outcome = "E11000" THEN
           /\ pc' = [pc EXCEPT ![r] = "winner"]
           /\ LeaveTx(r, NoDocs)
           /\ UNCHANGED <<db, req>>
         ELSE IF outcome = "ok" THEN
           \/ Conflict(r, n) /\ Retry(r)
           \/ Commit(r, n) /\ pc' = [pc EXCEPT ![r] = "answer"] /\ UNCHANGED req
         ELSE Abort(r)
      /\ UNCHANGED <<acked, restockLog, updates>>

\* Another request committed the key: its operation is read again.
Winner(r) ==
  /\ pc[r] = "winner"
  /\ IF db.ops[req[r].key] # Absent THEN Goto(r, "replay") ELSE Leave(r)
  /\ UNCHANGED <<acked, restockLog, updates>>

Acknowledge(k, s) ==
  acked' = IF k = NoKey THEN acked ELSE [acked EXCEPT ![k] = @ \cup {s}]

\* The recorded sale is returned to its seller, for the same payload, while
\* it exists; every other case is a refusal.  Nothing is written.
Replay(r) ==
  LET op == db.ops[req[r].key]
  IN  /\ pc[r] = "replay"
      /\ IF op.seller = req[r].seller /\ op.hash = req[r].pay /\ db.sales[op.sale] # Absent
         THEN Acknowledge(req[r].key, op.sale)
         ELSE UNCHANGED acked
      /\ Leave(r)
      /\ UNCHANGED <<restockLog, updates>>

Answer(r) ==
  /\ pc[r] = "answer"
  /\ Acknowledge(req[r].key, req[r].sale)
  /\ Leave(r)
  /\ UNCHANGED <<restockLog, updates>>

----------------------------------------------------------------------------
(* Correction and cancellation of a sale *)

UpdateTx(r) ==
  LET u == req[r]
      n == Change(snap[r], u)
  IN  /\ pc[r] = "body" /\ u.kind = "update"
      /\ IF ChangeOutcome(snap[r], u) # "ok" THEN Abort(r)
         ELSE \/ Conflict(r, n) /\ Retry(r)
              \/ Commit(r, n) /\ Finish(r)
      /\ UNCHANGED <<acked, restockLog, updates>>

CancelTx(r) ==
  LET s == req[r].sale
      n == Cancel(snap[r], s)
  IN  /\ pc[r] = "body" /\ req[r].kind = "cancel"
      /\ IF CancelOutcome(snap[r], s) # "ok" THEN Abort(r)
         ELSE \/ Conflict(r, n) /\ Retry(r)
              \/ Commit(r, n) /\ Finish(r)
      /\ UNCHANGED <<acked, restockLog, updates>>

----------------------------------------------------------------------------
(* Products *)

\* Permanent deletion: the product is looked for, then deleted with what its
\* sales and the analytics need in one transaction.
Locate(r) ==
  /\ pc[r] = "locate"
  /\ IF db.products[req[r].product] = Absent THEN Leave(r) ELSE Goto(r, "begin")
  /\ UNCHANGED <<acked, restockLog, updates>>

PurgeTx(r) ==
  LET p == req[r].product
      n == Purge(snap[r], p)
  IN  /\ pc[r] = "body" /\ req[r].kind = "purge"
      /\ IF snap[r].products[p] = Absent THEN Abort(r)
         ELSE \/ Conflict(r, n) /\ Retry(r)
              \/ Commit(r, n) /\ Finish(r)
      /\ UNCHANGED <<acked, restockLog, updates>>

\* A write of product p outside a transaction: atomic, and newer than every
\* open snapshot.
WriteProduct(p, n) ==
  /\ db' = n
  /\ snap' = snap
  /\ dirty' = [q \in Request |->
                 IF snap[q] = Absent THEN NoDocs
                 ELSE [dirty[q] EXCEPT !.products = @ \cup {p}]]

TrashProduct(p) ==
  /\ "trash" \in Kinds
  /\ db.products[p] # Absent
  /\ WriteProduct(p, SetTrashed(db, p, TRUE))
  /\ UNCHANGED <<pc, req, acked, restockLog, updates>>

RestoreProduct(p) ==
  /\ "trash" \in Kinds
  /\ db.products[p] # Absent
  /\ WriteProduct(p, SetTrashed(db, p, FALSE))
  /\ UNCHANGED <<pc, req, acked, restockLog, updates>>

\* Modification of a product: what the body asks is compared with the
\* document as read now.
PatchRead(r) ==
  LET doc == db.products[req[r].product]
  IN  /\ pc[r] = "read"
      /\ IF doc = Absent THEN Leave(r)
         ELSE /\ req' = [req EXCEPT ![r].cost = IF @ = doc.cost THEN Absent ELSE @]
              /\ pc' = [pc EXCEPT ![r] = "log"]
              /\ UNCHANGED <<db, snap, dirty>>
      /\ UNCHANGED <<acked, restockLog, updates>>

\* The audit entries are written before the product.
PatchLog(r) ==
  LET p == req[r].product
  IN  /\ pc[r] = "log"
      /\ restockLog' = [restockLog EXCEPT ![p] = @ + req[r].added]
      /\ Goto(r, IF req[r].move THEN "section" ELSE "write")
      /\ UNCHANGED <<acked, updates>>

\* The target section may be missing, foreign or trashed: 404.
PatchSection(r) ==
  /\ pc[r] = "section"
  /\ Goto(r, "write") \/ Leave(r)
  /\ UNCHANGED <<acked, restockLog, updates>>

PatchWrite(r) ==
  LET q == req[r]
  IN  /\ pc[r] = "write"
      /\ Finish(r)
      /\ IF db.products[q.product] = Absent \/ (q.added = 0 /\ q.cost = Absent /\ ~ q.move)
         THEN UNCHANGED <<db, snap, dirty>>
         ELSE WriteProduct(q.product, Patch(db, q.product, q.added, q.cost))
      /\ UNCHANGED <<acked, restockLog, updates>>

----------------------------------------------------------------------------
\* The process dies, or the database cannot be reached: what is committed
\* stays, the rest is lost, and the client has no answer.
Fail(r) ==
  /\ "fail" \in Kinds
  /\ pc[r] # "idle"
  /\ Abort(r)
  /\ UNCHANGED <<acked, restockLog, updates>>

Step(r) ==
  \/ Begin(r)
  \/ Lookup(r) \/ CreateTx(r) \/ Winner(r) \/ Replay(r) \/ Answer(r)
  \/ UpdateTx(r) \/ CancelTx(r)
  \/ Locate(r) \/ PurgeTx(r)
  \/ PatchRead(r) \/ PatchLog(r) \/ PatchSection(r) \/ PatchWrite(r)

Next ==
  \/ \E r \in Request :
       \/ ReceiveCreate(r) \/ ReceiveUpdate(r) \/ ReceiveCancel(r)
       \/ ReceivePurge(r) \/ ReceivePatch(r)
       \/ Step(r)
       \/ Fail(r)
  \/ \E p \in Product : TrashProduct(p) \/ RestoreProduct(p)

Spec == Init /\ [][Next]_vars

\* A handler that was started goes on; nobody has to send a request.
FairSpec == Spec /\ \A r \in Request : WF_vars(Step(r))

----------------------------------------------------------------------------
(* Properties *)

\* Every variable has its type; a transaction is open exactly in its body.
TypeOK ==
  /\ db \in Database
  /\ pc \in [Request -> Stage]
  /\ req \in [Request -> Requests \cup {Absent}]
  /\ \A r \in Request : snap[r] \in Database \/ snap[r] = Absent
  /\ DOMAIN snap = Request
  /\ dirty \in [Request -> DocSets]
  /\ acked \in [Key -> SUBSET SaleId]
  /\ restockLog \in [Product -> Nat]
  /\ updates \in 0 .. MaxUpdates
  /\ \A r \in Request : /\ pc[r] = "idle" <=> req[r] = Absent
                        /\ pc[r] = "body" <=> snap[r] # Absent

\* The stock is never negative, whatever sales and corrections run at once
\* ("stock jamais negatif").
NeverOversold == StockCovered(db)

\* A sale keeps a unit cost exactly when its product is gone: no sale commits
\* beside a purge that did not see it, and none is frozen too early.
SaleHistoryPreserved == HistoryKept(db)

\* One key, one sale: resending and racing with one's own resend record at
\* most one sale, and every success returns that one.
OneSalePerKey ==
  /\ KeysTell(db)
  /\ \A k \in Key : \A s \in acked[k] : db.ops[k] # Absent /\ db.ops[k].sale = s

\* The audit trail tells the sales, whatever ran beside their transactions
\* ("aucun audit SOLD orphelin").
AuditMatchesSales == AuditTells(db)

\* No step separates the stock from the sales ("aucune vente sans stock
\* decremente, aucun stock decremente sans vente"), and a purge keeps exactly
\* the difference that older data had.
DriftKept == \A p \in Product : Drift(db', p) = Drift(db, p)

StockFollowsSales == [][DriftKept]_vars

\* A stock that reaches zero, or else crosses 80 %, in the committed documents
\* records that one alert in the same step, and no alert comes otherwise.
AlertsMatchCrossings ==
  [][\A p \in Product :
       LET new == {j.category : j \in {i \in db'.jobs \ db.jobs :
                                         i.product = p /\ i.category # "SALE_CREATED"}}
           a == db.products[p]
           b == db'.products[p]
       IN  IF a # Absent /\ b # Absent
           THEN new = IF a.remaining > 0 /\ b.remaining = 0 THEN {"STOCK_DEPLETED"}
                      ELSE IF b.remaining > 0 /\ LowCrossed(b.initial, a.remaining, b.remaining)
                      THEN {"STOCK_LOW"} ELSE {}
           ELSE new = {}]_vars

\* Deleting a product for good leaves the cost of sales of the overview as it
\* was, although sales run beside the purge.
PurgeKeepsCost ==
  [][(\E p \in Product : db.products[p] # Absent /\ db'.products[p] = Absent)
       => CostOfSales(db') = CostOfSales(db)]_vars

\* Serializability: to the database, the concurrent requests are operations
\* that happened one at a time.
Serializable == Book!Spec

\* A modification that fails saves nothing ("aucun etat partiel n'est jamais
\* sauvegarde"): the audit never announces units that did not come.
AuditedRestockApplied ==
  (\A r \in Request : req[r] = Absent) =>
    \A p \in Product : db.products[p] # Absent =>
      restockLog[p] = db.products[p].initial - InitialQty

\* A request ends, or others write the documents for ever (a modification that
\* writes what a product already has is a write too): retries of conflicts are
\* the only way to wait.
EveryRequestEnds ==
  \/ []<><<\/ db' # db
           \/ \E p \in Product : TrashProduct(p) \/ RestoreProduct(p)
           \/ \E r \in Request : PatchWrite(r)>>_vars
  \/ \A r \in Request : pc[r] # "idle" ~> pc[r] = "idle"

=============================================================================
