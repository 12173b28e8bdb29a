----------------------------- MODULE StorageDocs -----------------------------
(***************************************************************************)
(* The stored files of one organization as MongoDB knows them, and what    *)
(* each transaction does to them (api/src/storage-quota): the registry     *)
(* storage_objects (one entry per file), the counter storage_usages, and   *)
(* the images that products and the organization refer to.  No state here: *)
(* StorageBook applies the operations one at a time, Storage from          *)
(* concurrent tasks that meet the bucket in between.                       *)
(***************************************************************************)
EXTENDS Integers, FiniteSets

CONSTANTS
  File,     \* object keys `newObjectKey` may draw, and those of earlier code
  Legacy,   \* the latter: files that were in the bucket before the registry
  SizeOf,   \* SizeOf[f]: bytes of the file under key f
  Product,  \* documents with an image: products ...
  Logo,     \* ... and the organization, whose image is its logo
  Quota,    \* STORAGE_QUOTA_BYTES
  Enforce,  \* mode `enforce` (TRUE) or `track`
  NoFile,   \* a document without image
  Gone,     \* no such document
  Absent    \* no entry, or nothing in a field

Owner == Product \cup Logo

ASSUME StorageSizes ==
  /\ IsFiniteSet(File) /\ Legacy \subseteq File
  /\ SizeOf \in [File -> Nat \ {0}]
  /\ Quota \in Nat
  /\ Enforce \in BOOLEAN
  /\ Product \cap Logo = {}

----------------------------------------------------------------------------
(* Documents *)

State == {"reserved", "uploaded", "attached", "deleting"}

Entry == [state : State, source : {"upload", "initialization", "reconciliation"}]

\* Bytes; the counts of objects move with them and are left out.
Usage == [stored : Int, reserved : Int]

Documents == [entry : [File -> Entry \cup {Absent}],
              usage : Usage,
              image : [Owner -> File \cup {NoFile, Gone}]]

ASSUME StorageSentinels ==
  /\ NoFile \notin File \cup {Gone, Absent}
  /\ Gone \notin File
  /\ Absent \notin File \cup Owner \cup Entry \cup Documents \cup State

InState(d, f, s) == f \in File /\ d.entry[f] # Absent /\ d.entry[f].state = s

Referenced(d, f) == \E o \in Owner : d.image[o] = f

Stored(d)   == {f \in File : d.entry[f] # Absent /\ d.entry[f].state # "reserved"}
Reserved(d) == {f \in File : InState(d, f, "reserved")}
Tracked(d)  == Stored(d) \cup Reserved(d)

\* The bytes of a set of files, counted one by one.
Bytes(S) == Cardinality(UNION {{f} \X (1 .. SizeOf[f]) : f \in S})

\* Mutant of Expected: entries waiting for their deletion are not counted.
ExpectedAttached(d) ==
  [stored   |-> Bytes({f \in File : InState(d, f, "attached")}),
   reserved |-> Bytes(Reserved(d))]

\* What `recompute` expects of the counter.
Expected(d) == [stored |-> Bytes(Stored(d)), reserved |-> Bytes(Reserved(d))]

Track(d, f, state, source) ==
  [d EXCEPT !.entry[f] = [state |-> state, source |-> source]]

SetState(d, f, state) == [d EXCEPT !.entry[f].state = state]

Charge(d, stored, reserved) ==
  [d EXCEPT !.usage.stored = @ + stored, !.usage.reserved = @ + reserved]

----------------------------------------------------------------------------
(* An upload *)

\* Mutant of Fits: reservations under way are not counted.
FitsStored(d, f) == Enforce => d.usage.stored + SizeOf[f] <= Quota

Fits(d, f) == Enforce => d.usage.stored + d.usage.reserved + SizeOf[f] <= Quota

Reserve(d, f) == Charge(Track(d, f, "reserved", "upload"), 0, SizeOf[f])

MarkUploaded(d, f) ==
  Charge(SetState(d, f, "uploaded"), SizeOf[f], - SizeOf[f])

\* A file without entry is left to the cleanup of the bucket.
Detach(d, f) == IF InState(d, f, "attached") THEN SetState(d, f, "deleting") ELSE d

\* Mutant of Writable: `attach` does not mind that the recovery took the entry.
WritableTaken(d, o, f, prev) == d.image[o] = prev /\ d.entry[f] # Absent

\* Owner o refers to the uploaded file f, if it still has the image prev
\* (Gone: it is created now).
Writable(d, o, f, prev) == d.image[o] = prev /\ InState(d, f, "uploaded")

WriteImage(d, o, f, prev) ==
  Detach(SetState([d EXCEPT !.image[o] = f], f, "attached"), prev)

\* Owner o loses its image: it is deleted (left = Gone) or keeps none.
RemoveImage(d, o, left) == Detach([d EXCEPT !.image[o] = left], d.image[o])

\* The write of the reference failed, or seems to have.
Discard(d, f) ==
  IF ~ InState(d, f, "uploaded") THEN d
  ELSE SetState(d, f, IF Referenced(d, f) THEN "attached" ELSE "deleting")

----------------------------------------------------------------------------
(* Recovery and deletion *)

\* Mutant of Recover: a reservation is not moved to the stored bytes.
RecoverUnmoved(d, f) ==
  SetState(d, f, IF Referenced(d, f) THEN "attached" ELSE "deleting")

\* An entry past its lease; what was reserved may be in the bucket, so its
\* bytes become stored ones.
Recover(d, f) ==
  LET moved == IF InState(d, f, "reserved") THEN SizeOf[f] ELSE 0
  IN  Charge(SetState(d, f, IF Referenced(d, f) THEN "attached" ELSE "deleting"),
             moved, - moved)

\* The file is gone from the bucket: its bytes are given back.
Release(d, f) == Charge([d EXCEPT !.entry[f] = Absent], - SizeOf[f], 0)

----------------------------------------------------------------------------
(* Files without entry, entries without reference, the counter *)

\* A file of earlier code that a document refers to.
CountExisting(d, f) == Charge(Track(d, f, "attached", "initialization"), SizeOf[f], 0)

\* A file found in the bucket.
CountUntracked(d, f) ==
  Charge(Track(d, f, IF Referenced(d, f) THEN "attached" ELSE "deleting",
               "reconciliation"), SizeOf[f], 0)

\* An attached entry that no document refers to.
Orphan(d, f) == InState(d, f, "attached") /\ ~ Referenced(d, f)

Recompute(d) == [d EXCEPT !.usage = Expected(d)]

----------------------------------------------------------------------------
(* What holds of the documents *)

\* By how much the counter is off.
Gap(d) == [stored   |-> d.usage.stored - Bytes(Stored(d)),
           reserved |-> d.usage.reserved - Bytes(Reserved(d))]

\* An entry says attached exactly when a document refers to its file.
Misfiled(d, f) ==
  d.entry[f] # Absent /\ ~ (d.entry[f].state = "attached" <=> Referenced(d, f))

=============================================================================
