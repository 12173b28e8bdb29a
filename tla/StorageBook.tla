----------------------------- MODULE StorageBook -----------------------------
(***************************************************************************)
(* What the accounting of stored files promises: operations on the         *)
(* registry, the counter and the references that happen one at a time.     *)
(* At the start, files of earlier code may be in use without entry, or     *)
(* have an entry without use, and the counter may be off.                  *)
(***************************************************************************)
EXTENDS StorageDocs

VARIABLE db

\* Every legacy file may have an owner of its own, and an entry.
Start ==
  {d \in [entry : [File -> {Absent, [state |-> "attached", source |-> "upload"]}],
          usage : [stored : 0 .. Bytes(Legacy) + 1, reserved : {0}],
          image : [Owner -> Legacy \cup {NoFile, Gone}]] :
     /\ \A f \in File \ Legacy : d.entry[f] = Absent
     /\ Gap(d).stored \in {0, 1}
     /\ \A o \in Owner : d.image[o] = (IF o \in Logo THEN NoFile ELSE Gone)
                           \/ d.image[o] \in Legacy
     /\ \A o, q \in Owner : d.image[o] = d.image[q] /\ d.image[o] \in File => o = q}

Init == db \in Start

ReserveBytes == \E f \in File : db.entry[f] = Absent /\ Fits(db, f) /\ db' = Reserve(db, f)

UploadDone ==
  \E f \in File : InState(db, f, "reserved") /\ db' = MarkUploaded(db, f)

ReferWrite ==
  \E o \in Owner, f \in File, prev \in File \cup {NoFile, Gone} :
    Writable(db, o, f, prev) /\ db' = WriteImage(db, o, f, prev)

ReferRemove ==
  \E o \in Owner, left \in {NoFile, Gone} :
    db.image[o] # Gone /\ db' = RemoveImage(db, o, left)

DiscardUpload == \E f \in File : db' = Discard(db, f)

RecoverFile ==
  \E f \in File : /\ db.entry[f] # Absent
                  /\ db.entry[f].state # "attached"
                  /\ db' = Recover(db, f)

ReleaseFile == \E f \in File : InState(db, f, "deleting") /\ db' = Release(db, f)

CountReference ==
  \E f \in File : db.entry[f] = Absent /\ Referenced(db, f) /\ db' = CountExisting(db, f)

CountFound == \E f \in File : db.entry[f] = Absent /\ db' = CountUntracked(db, f)

DropOrphan == \E f \in File : Orphan(db, f) /\ db' = SetState(db, f, "deleting")

RecomputeUsage == db' = Recompute(db)

Next ==
  \/ ReserveBytes \/ UploadDone \/ ReferWrite \/ ReferRemove \/ DiscardUpload
  \/ RecoverFile \/ ReleaseFile
  \/ CountReference \/ CountFound \/ DropOrphan \/ RecomputeUsage

Spec == Init /\ [][Next]_db

=============================================================================
