------------------------------- MODULE Storage -------------------------------
(***************************************************************************)
(* Concurrent tasks on the stored files of one organization: requests that *)
(* upload, replace and remove images (products.controller.ts,              *)
(* organization-branding.controller.ts), the recovery and the inventory    *)
(* that run in the background, and the operator's repairs                  *)
(* (storage-quota.service.ts).                                             *)
(*                                                                         *)
(* A task stops at every await.  Transactions are those of the database    *)
(* (a snapshot, conflicts on the documents written); the bucket is outside *)
(* of them: a PUT may land after its task gave up, a DELETE may fail.      *)
(***************************************************************************)
EXTENDS StorageDocs

CONSTANTS
  Task,        \* tasks that run at the same time
  Kinds,       \* bound: kinds of tasks, and failures, that happen
  MaxCrashes   \* bound: tasks that die

ASSUME StorageTasks ==
  Task # {} /\ MaxCrashes \in Nat

VARIABLES
  db,       \* the committed documents
  bucket,   \* files in the bucket
  puts,     \* uploads under way: they may land, now or later
  used,     \* keys drawn so far (a UUID is never drawn twice)
  due,      \* entries whose lease (leaseUntil) is past
  pc,       \* pc[r]: what task r does next
  task,     \* task[r]: what it works on, Absent when idle
  snap,     \* snap[r]: what its transaction reads, Absent outside of one
  dirty,    \* dirty[r]: documents others wrote since that snapshot
  crashes   \* tasks that died

vars == <<db, bucket, puts, used, due, pc, task, snap, dirty, crashes>>

Book == INSTANCE StorageBook WITH db <- db

\* Stages whose body is a transaction, and the others.
TxStage == {"reserve", "mark", "write", "discard", "remove", "release",
            "decide", "count", "orphan", "recompute"}
Stage == TxStage \cup {"idle", "put", "abandon", "undo", "read", "fetch",
                       "delete", "pick"}

TaskKinds == {"create", "replace", "purge", "clear", "recover", "inventory",
              "initialize", "orphans", "recompute"}

\* file: the upload; target, seen: the entry being recovered or deleted, and
\* the state it was read in; todo: what the pass has left; freed: how the
\* recovery within an upload went.
Work == [kind : TaskKinds, owner : Owner \cup {Absent}, file : File \cup {Absent},
         prev : File \cup {NoFile, Gone, Absent}, target : File \cup {Absent},
         seen : State \cup {Absent}, todo : SUBSET (File \X (State \cup {Absent})),
         freed : {"untried", "none", "some", "retried"}]

\* An idle task works on nothing.
ASSUME StorageTaskSentinel == Absent \notin Work

DocSets == [files : SUBSET File, owners : SUBSET Owner, usage : BOOLEAN]
NoDocs  == [files |-> {}, owners |-> {}, usage |-> FALSE]

Init ==
  /\ Book!Init
  /\ bucket = Legacy
  /\ puts = {}
  /\ used = Legacy
  /\ due = {}
  /\ pc = [r \in Task |-> "idle"]
  /\ task = [r \in Task |-> Absent]
  /\ snap = [r \in Task |-> Absent]
  /\ dirty = [r \in Task |-> NoDocs]
  /\ crashes = 0

----------------------------------------------------------------------------
(* Transactions of the database *)

Written(c, n) ==
  [files  |-> {f \in File : c.entry[f] # n.entry[f]},
   owners |-> {o \in Owner : c.image[o] # n.image[o]},
   usage  |-> c.usage # n.usage]

Overlap(a, b) ==
  \/ a.files \cap b.files # {}
  \/ a.owners \cap b.owners # {}
  \/ a.usage /\ b.usage

Join(a, b) == [files  |-> a.files \cup b.files, owners |-> a.owners \cup b.owners,
               usage  |-> a.usage \/ b.usage]

Newer(c, s, n) == [x \in DOMAIN c |-> IF n[x] # s[x] THEN n[x] ELSE c[x]]

Merge(c, s, n) ==
  [entry |-> Newer(c.entry, s.entry, n.entry),
   usage |-> IF n.usage # s.usage THEN n.usage ELSE c.usage,
   image |-> Newer(c.image, s.image, n.image)]

\* Mutant of LeaveTx: the snapshot outlives the transaction.
LeaveTxOpen(r, docs) ==
  /\ snap' = snap
  /\ dirty' = [q \in Task |-> IF q = r \/ snap[q] = Absent THEN NoDocs
                              ELSE Join(dirty[q], docs)]

\* Task r leaves its transaction; docs, which it wrote, are newer than what
\* the other transactions read.
LeaveTx(r, docs) ==
  /\ snap' = [snap EXCEPT ![r] = Absent]
  /\ dirty' = [q \in Task |-> IF q = r \/ snap[q] = Absent THEN NoDocs
                              ELSE Join(dirty[q], docs)]

InBody(r, stage) == pc[r] = stage /\ snap[r] # Absent

Begin(r) ==
  /\ pc[r] \in TxStage /\ snap[r] = Absent
  /\ snap' = [snap EXCEPT ![r] = db]
  /\ UNCHANGED <<db, bucket, puts, used, due, pc, task, dirty, crashes>>

\* The transaction of r, whose body led from its snapshot to n and also wrote
\* the owners in locks, commits; the entries in late have a lease already past.
CommitTx(r, n, locks, late) ==
  LET docs == [Written(snap[r], n) EXCEPT !.owners = @ \cup locks]
  IN  /\ ~ Overlap(docs, dirty[r])
      /\ db' = Merge(db, snap[r], n)
      /\ due' = (due \ docs.files) \cup late
      /\ LeaveTx(r, docs)

\* A write conflict: the driver runs the body again on a new snapshot.
RetryTx(r, n, locks) ==
  /\ Overlap([Written(snap[r], n) EXCEPT !.owners = @ \cup locks], dirty[r])
  /\ LeaveTx(r, NoDocs)
  /\ UNCHANGED <<db, due, pc, task>>

\* Nothing was written.
EndTx(r) == LeaveTx(r, NoDocs) /\ UNCHANGED <<db, due>>

Goto(r, stage) == pc' = [pc EXCEPT ![r] = stage]

Set(r, field, value) == task' = [task EXCEPT ![r][field] = value]

Finish(r) == Goto(r, "idle") /\ task' = [task EXCEPT ![r] = Absent]

\* What a step outside of transactions that writes no document leaves alone.
Quiet == UNCHANGED <<db, due, snap, dirty>>

World == <<bucket, puts, used, crashes>>

----------------------------------------------------------------------------
(* Tasks start *)

Start(r, kind, owner, file, todo, stage) ==
  /\ kind \in Kinds
  /\ pc[r] = "idle"
  /\ Goto(r, stage)
  /\ task' = [task EXCEPT ![r] =
       [kind |-> kind, owner |-> owner, file |-> file, prev |-> Absent,
        target |-> Absent, seen |-> Absent, todo |-> todo, freed |-> "untried"]]
  /\ Quiet

\* `store` draws the key first.  A new product takes an id of its own.
StartUpload(r) ==
  \E o \in Owner, f \in File \ used :
    /\ \/ Start(r, "replace", o, f, {}, "reserve")
       \/ /\ o \in Product /\ db.image[o] = Gone
          /\ \A q \in Task : task[q] # Absent /\ task[q].kind = "create" => task[q].owner # o
          /\ Start(r, "create", o, f, {}, "reserve")
    /\ used' = used \cup {f}
    /\ UNCHANGED <<bucket, puts, crashes>>

StartPurge(r) ==
  \E o \in Product : Start(r, "purge", o, Absent, {}, "remove") /\ UNCHANGED World

StartClear(r) ==
  \E o \in Logo : Start(r, "clear", o, Absent, {}, "read") /\ UNCHANGED World

\* Mutant of Due: interrupted deletions are not taken up again.
DueUploads == {<<f, db.entry[f].state>> :
                 f \in {g \in due : db.entry[g] # Absent
                          /\ db.entry[g].state \in {"reserved", "uploaded"}}}

\* What `find` of the recovery returns, with the states it saw.
Due == {<<f, db.entry[f].state>> :
          f \in {g \in due : db.entry[g] # Absent /\ db.entry[g].state # "attached"}}

StartRecover(r) == Start(r, "recover", Absent, Absent, Due, "pick") /\ UNCHANGED World

\* A page of the listing of the bucket.
StartInventory(r) ==
  Start(r, "inventory", Absent, Absent, bucket \X {Absent}, "pick") /\ UNCHANGED World

StartInitialize(r) ==
  /\ Start(r, "initialize", Absent, Absent,
           {f \in File : Referenced(db, f)} \X {Absent}, "pick")
  /\ UNCHANGED World

StartOrphans(r) ==
  /\ Start(r, "orphans", Absent, Absent,
           {f \in File : InState(db, f, "attached")} \X {"attached"}, "pick")
  /\ UNCHANGED World

StartRecompute(r) ==
  Start(r, "recompute", Absent, Absent, {}, "recompute") /\ UNCHANGED World

----------------------------------------------------------------------------
(* An upload *)

\* A refusal tries the recovery of the organization's entries once.
ReserveTx(r) ==
  LET f == task[r].file
      n == Reserve(snap[r], f)
  IN  /\ InBody(r, "reserve")
      /\ IF Fits(snap[r], f) THEN
           /\ \/ RetryTx(r, n, {}) /\ UNCHANGED puts
              \/ CommitTx(r, n, {}, {}) /\ Goto(r, "put") /\ puts' = puts \cup {f}
                   /\ UNCHANGED task
         ELSE /\ EndTx(r) /\ UNCHANGED puts
              /\ IF task[r].freed = "untried"
                 THEN /\ Goto(r, "pick")
                      /\ task' = [task EXCEPT ![r].freed = "none", ![r].todo = Due]
                 ELSE Finish(r)
      /\ UNCHANGED <<bucket, used, crashes>>

\* The upload lands; its task, if it waits, may hear of it.
Land(f) ==
  /\ f \in puts
  /\ puts' = puts \ {f}
  /\ bucket' = bucket \cup {f}
  /\ pc' \in {pc, [r \in Task |-> IF pc[r] = "put" /\ task[r].file = f
                                  THEN "mark" ELSE pc[r]]}
  /\ Quiet /\ UNCHANGED <<used, task, crashes>>

\* The upload never arrives.
Lose(f) ==
  /\ f \in puts
  /\ puts' = puts \ {f}
  /\ Quiet /\ UNCHANGED <<bucket, used, pc, task, crashes>>

\* An error, or the abort at a third of the lease.
PutFails(r) ==
  /\ pc[r] = "put"
  /\ Goto(r, "abandon")
  /\ Quiet /\ UNCHANGED task /\ UNCHANGED World

\* The reservation stays, with a new lease: the upload may still land.
Abandon(r) ==
  LET f == task[r].file
      renews == InState(db, f, "reserved")
  IN  /\ pc[r] = "abandon"
      /\ Goto(r, "undo")
      /\ due' = IF renews THEN due \ {f} ELSE due
      /\ dirty' = [q \in Task |-> IF snap[q] # Absent /\ renews
                                  THEN Join(dirty[q], [NoDocs EXCEPT !.files = {f}])
                                  ELSE dirty[q]]
      /\ UNCHANGED <<db, snap, task>> /\ UNCHANGED World

\* The file is deleted, whatever comes of it, and the request fails.
Undo(r) ==
  /\ pc[r] = "undo"
  /\ Finish(r)
  /\ bucket' \in {bucket, bucket \ {task[r].file}}
  /\ Quiet /\ UNCHANGED <<puts, used, crashes>>

\* A reservation that the recovery took is an interrupted upload.
MarkTx(r) ==
  LET f == task[r].file
      n == MarkUploaded(snap[r], f)
  IN  /\ InBody(r, "mark")
      /\ IF InState(snap[r], f, "reserved") THEN
           \/ RetryTx(r, n, {})
           \/ CommitTx(r, n, {}, {}) /\ Goto(r, "read") /\ UNCHANGED task
         ELSE EndTx(r) /\ Goto(r, "undo") /\ UNCHANGED task
      /\ UNCHANGED World

\* The document to write is read; the checks of the request (sections, names,
\* fields) may refuse it.
ReadOwner(r) ==
  LET o == task[r].owner
      refuse == IF task[r].kind = "clear" THEN Finish(r)
                ELSE Goto(r, "discard") /\ UNCHANGED task
  IN  /\ pc[r] = "read"
      /\ \/ refuse
         \/ /\ task[r].kind = "create" <=> db.image[o] = Gone
            /\ task[r].kind = "clear" => db.image[o] # NoFile
            /\ Set(r, "prev", db.image[o])
            /\ Goto(r, IF task[r].kind = "clear" THEN "remove" ELSE "write")
      /\ Quiet /\ UNCHANGED World

\* After a write: the former image, if any, is deleted.
Cleanup(r, prev) ==
  IF prev \in File
  THEN Goto(r, "delete") /\ Set(r, "target", prev)
  ELSE Finish(r)

\* The reference is written, if the image is the one that was read.  The task
\* may see an error although the transaction committed.
WriteTx(r) ==
  LET o == task[r].owner
      f == task[r].file
      prev == task[r].prev
      n == WriteImage(snap[r], o, f, prev)
  IN  /\ InBody(r, "write")
      /\ IF Writable(snap[r], o, f, prev) THEN
           \/ RetryTx(r, n, {})
           \/ /\ CommitTx(r, n, {}, {})
              /\ \/ Cleanup(r, prev)
                 \/ "fail" \in Kinds /\ Goto(r, "discard") /\ UNCHANGED task
         ELSE EndTx(r) /\ Goto(r, "discard") /\ UNCHANGED task
      /\ UNCHANGED World

DiscardTx(r) ==
  LET f == task[r].file
      n == Discard(snap[r], f)
      deletes == InState(snap[r], f, "uploaded") /\ ~ Referenced(snap[r], f)
  IN  /\ InBody(r, "discard")
      /\ \/ RetryTx(r, n, {})
         \/ /\ CommitTx(r, n, {}, {})
            /\ IF deletes THEN Cleanup(r, f) ELSE Finish(r)
      /\ UNCHANGED World

----------------------------------------------------------------------------
(* Removal of an image *)

\* A purge deletes the product; a logo is removed if it is the one read.
RemoveTx(r) ==
  LET o == task[r].owner
      s == snap[r]
      purge == task[r].kind = "purge"
      n == RemoveImage(s, o, IF purge THEN Gone ELSE NoFile)
  IN  /\ InBody(r, "remove")
      /\ IF IF purge THEN s.image[o] # Gone ELSE s.image[o] = task[r].prev THEN
           \/ RetryTx(r, n, {})
           \/ CommitTx(r, n, {}, {}) /\ Cleanup(r, s.image[o])
         ELSE EndTx(r) /\ Finish(r)
      /\ UNCHANGED World

----------------------------------------------------------------------------
(* Deletion of a file, and passes over many *)

\* Requests end where a pass goes on with its next entry.
Passes(w) == w.freed \in {"none", "some"}
             \/ w.kind \in {"recover", "inventory", "initialize", "orphans"}

GoOn(r) == IF Passes(task[r]) THEN Goto(r, "pick") /\ UNCHANGED task ELSE Finish(r)

DeleteFile(r) ==
  /\ pc[r] = "delete"
  /\ bucket' = bucket \ {task[r].target}
  /\ Goto(r, "release")
  /\ Quiet /\ UNCHANGED <<puts, used, task, crashes>>

\* The file stays, or is gone unheard of; a pass gives the entry a new lease.
DeleteFails(r) ==
  LET f == task[r].target
      postpones == Passes(task[r]) /\ db.entry[f] # Absent
                     /\ db.entry[f].state # "attached"
  IN  /\ pc[r] = "delete"
      /\ "fail" \in Kinds
      /\ bucket' \in {bucket, bucket \ {f}}
      /\ due' = IF postpones THEN due \ {f} ELSE due
      /\ dirty' = [q \in Task |-> IF snap[q] # Absent /\ postpones
                                  THEN Join(dirty[q], [NoDocs EXCEPT !.files = {f}])
                                  ELSE dirty[q]]
      /\ GoOn(r)
      /\ UNCHANGED <<db, snap, puts, used, crashes>>

\* Mutant of Releasable: the bytes are given back whoever removed the entry.
ReleasableAgain(d, f) == TRUE

Releasable(d, f) == InState(d, f, "deleting")

ReleaseTx(r) ==
  LET f == task[r].target
      n == Release(snap[r], f)
      freed == Set(r, "freed", "some")
  IN  /\ InBody(r, "release")
      /\ IF Releasable(snap[r], f) THEN
           \/ RetryTx(r, n, {})
           \/ /\ CommitTx(r, n, {}, {})
              /\ IF task[r].freed \in {"none", "some"}
                 THEN Goto(r, "pick") /\ freed ELSE GoOn(r)
         ELSE EndTx(r) /\ GoOn(r)
      /\ UNCHANGED World

\* The next entry of the pass; the end of a recovery within an upload is a
\* second try, if it released anything.
Pick(r) ==
  /\ pc[r] = "pick"
  /\ \/ \E e \in task[r].todo :
          /\ task' = [task EXCEPT ![r].todo = @ \ {e}, ![r].target = e[1], ![r].seen = e[2]]
          /\ Goto(r, IF e[2] \in State \ {"attached"} THEN "decide" ELSE "fetch")
     \/ /\ task[r].todo = {}
        /\ IF task[r].freed = "some"
           THEN Goto(r, "reserve") /\ Set(r, "freed", "retried")
           ELSE Finish(r)
  /\ Quiet /\ UNCHANGED World

\* `recoverEntry`: referenced files stay, the others are deleted.
DecideTx(r) ==
  LET f == task[r].target
      n == Recover(snap[r], f)
  IN  /\ InBody(r, "decide")
      /\ IF InState(snap[r], f, task[r].seen) THEN
           \/ RetryTx(r, n, {})
           \/ /\ CommitTx(r, n, {}, {})
              /\ IF Referenced(snap[r], f) THEN Goto(r, "pick") ELSE Goto(r, "delete")
         ELSE EndTx(r) /\ Goto(r, "pick")
      /\ UNCHANGED task /\ UNCHANGED World

\* What a pass reads of a file before its transaction: tracked files are
\* skipped, and those the bucket does not show; orphans are looked for again.
Fetch(r) ==
  LET f == task[r].target
      kind == task[r].kind
      skip == IF kind = "orphans" THEN Referenced(db, f)
              ELSE db.entry[f] # Absent \/ (kind = "initialize" /\ f \notin bucket)
  IN  /\ pc[r] = "fetch"
      /\ Goto(r, IF skip THEN "pick" ELSE IF kind = "orphans" THEN "orphan" ELSE "count")
      /\ Quiet /\ UNCHANGED task /\ UNCHANGED World

\* Mutant of Lock: the reference is read and not written.
LockNothing(d, f) == {}

\* `lockReference`: the documents that refer to f.
Lock(d, f) == {o \in Owner : d.image[o] = f}

\* `countExisting` and `countUntracked`; the lease of a file found in the
\* bucket starts at its last modification.
CountTx(r) ==
  LET f == task[r].target
      s == snap[r]
      found == task[r].kind = "inventory"
      known == s.entry[f] # Absent
      n == IF known \/ ~ (found \/ Referenced(s, f)) THEN s
           ELSE IF found THEN CountUntracked(s, f) ELSE CountExisting(s, f)
      locks == IF found /\ known THEN {} ELSE Lock(s, f)
  IN  /\ InBody(r, "count")
      /\ \/ RetryTx(r, n, locks)
         \/ /\ CommitTx(r, n, locks, {})
            /\ Goto(r, "pick") /\ UNCHANGED task
         \/ /\ ~ known /\ InState(n, f, "deleting")
            /\ CommitTx(r, n, locks, {f})
            /\ Goto(r, "decide") /\ Set(r, "seen", "deleting")
      /\ UNCHANGED World

OrphanTx(r) ==
  LET f == task[r].target
      n == SetState(snap[r], f, "deleting")
  IN  /\ InBody(r, "orphan")
      /\ IF Orphan(snap[r], f) THEN
           \/ RetryTx(r, n, {})
           \/ CommitTx(r, n, {}, {f}) /\ Goto(r, "decide") /\ Set(r, "seen", "deleting")
         ELSE EndTx(r) /\ Goto(r, "pick") /\ UNCHANGED task
      /\ UNCHANGED World

RecomputeTx(r) ==
  LET n == Recompute(snap[r])
  IN  /\ InBody(r, "recompute")
      /\ RetryTx(r, n, {}) \/ (CommitTx(r, n, {}, {}) /\ Finish(r))
      /\ UNCHANGED World

----------------------------------------------------------------------------
(* Time and failures *)

\* The lease of an entry ends, however far its task is.
Expire(f) ==
  /\ f \notin due /\ db.entry[f] # Absent /\ db.entry[f].state # "attached"
  /\ due' = due \cup {f}
  /\ UNCHANGED <<db, bucket, puts, used, pc, task, snap, dirty, crashes>>

\* The process dies: what is committed, in the bucket or under way stays.
Crash(r) ==
  /\ "fail" \in Kinds /\ crashes < MaxCrashes
  /\ pc[r] # "idle"
  /\ crashes' = crashes + 1
  /\ Finish(r)
  /\ EndTx(r)
  /\ UNCHANGED <<bucket, puts, used>>

----------------------------------------------------------------------------

StartTask(r) ==
  \/ StartUpload(r) \/ StartPurge(r) \/ StartClear(r)
  \/ StartRecover(r) \/ StartInventory(r)
  \/ StartInitialize(r) \/ StartOrphans(r) \/ StartRecompute(r)

Step(r) ==
  \/ Begin(r)
  \/ ReserveTx(r) \/ PutFails(r) \/ Abandon(r) \/ Undo(r) \/ MarkTx(r)
  \/ ReadOwner(r) \/ WriteTx(r) \/ DiscardTx(r) \/ RemoveTx(r)
  \/ DeleteFile(r) \/ ReleaseTx(r)
  \/ Pick(r) \/ DecideTx(r) \/ Fetch(r) \/ CountTx(r) \/ OrphanTx(r)
  \/ RecomputeTx(r)

Next ==
  \/ \E r \in Task : StartTask(r) \/ Step(r) \/ DeleteFails(r) \/ Crash(r)
  \/ \E f \in File : Land(f) \/ Lose(f) \/ Expire(f)

Spec == Init /\ [][Next]_vars

\* Tasks go on, a DELETE that is tried again and again succeeds, an upload
\* under way lands or is lost, leases end, and the two background passes of
\* the process (one task) start again and again.
FairSpec ==
  /\ Spec
  /\ \A r \in Task : WF_vars(Step(r)) /\ SF_vars(DeleteFile(r))
  /\ \A f \in File : WF_vars(Land(f) \/ Lose(f)) /\ WF_vars(Expire(f))
  /\ \A r \in Task : SF_vars(StartRecover(r)) /\ SF_vars(StartInventory(r))

----------------------------------------------------------------------------
(* Properties *)

\* Every variable has its type; only a task has a transaction, and files
\* under way or in the bucket have been drawn.
TypeOK ==
  /\ db \in Documents
  /\ bucket \subseteq used /\ puts \subseteq used /\ used \subseteq File
  /\ due \subseteq File
  /\ pc \in [Task -> Stage]
  /\ \A r \in Task : /\ task[r] = Absent \/ task[r] \in Work
                     /\ snap[r] = Absent \/ snap[r] \in Documents
                     /\ task[r] = Absent <=> pc[r] = "idle"
                     /\ snap[r] # Absent => pc[r] \in TxStage
  /\ dirty \in [Task -> DocSets]
  /\ crashes \in 0 .. MaxCrashes

\* The counter follows the registry: it is off by what it was, or exact
\* ("deux traitements concurrents ne comptent ni ne liberent jamais deux fois").
CounterFollows ==
  [][Gap(db') = Gap(db) \/ Gap(db') = [stored |-> 0, reserved |-> 0]]_vars

\* A file that a document shows is in the bucket, whoever deletes what.
ReferencedFileKept ==
  \A o \in Owner : db.image[o] \in File => db.image[o] \in bucket

\* No step leaves an entry attached to nothing, or an entry to be deleted
\* whose file a document refers to.
EntriesFollowReferences ==
  [][\A f \in File : Misfiled(db', f) => Misfiled(db, f)]_vars

\* In mode enforce uploads never take what is counted, a counter that is off by
\* Gap included, past the quota; only a file that was there before its entry may.
QuotaHeld ==
  [][Enforce => \A f \in Tracked(db') \ Tracked(db) :
       db'.entry[f].source = "upload"
         => Bytes(Tracked(db')) + Gap(db').stored + Gap(db').reserved <= Quota]_vars

\* Serializability: to the database, the tasks are operations of the book.
Serializable == Book!Spec

\* A file that no document refers to leaves the bucket in the end, whatever
\* failed, crashed or landed late, and so does every unused entry.
NothingLeaks ==
  \A f \in File :
    /\ (f \in bucket /\ ~ Referenced(db, f)) ~> (f \notin bucket \/ Referenced(db, f))
    /\ (db.entry[f] # Absent /\ db.entry[f].state # "attached")
         ~> (db.entry[f] = Absent \/ db.entry[f].state = "attached")

=============================================================================
