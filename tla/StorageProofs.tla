---------------------------- MODULE StorageProofs ----------------------------
(***************************************************************************)
(* The concurrent tasks on stored files implement the serial book of the   *)
(* files (StorageBook), and keep the counter, the quota, the entries and   *)
(* the files in use, for every value of the constants.                     *)
(*                                                                         *)
(* In this order: how many bytes a set of files has; what each operation   *)
(* does to the documents, entry by entry (DocStep); what a transaction     *)
(* that meets no conflict commits, whatever was committed since its        *)
(* snapshot (Evolves, Effect); the inductive invariant (Inv), with a lemma *)
(* for each action; the theorems, the last of which says that each task    *)
(* comes nearer to its end with its steps.                                 *)
(***************************************************************************)
EXTENDS Storage, FiniteSetTheorems, TLAPS

----------------------------------------------------------------------------
(* Bytes of sets of files *)

\* The bytes of a file, each with its file.
Cells(f) == {f} \X (1 .. SizeOf[f])

\* A size is a positive number.
LEMMA Sizes == \A f \in File : SizeOf[f] \in Nat /\ SizeOf[f] \in Int /\ SizeOf[f] > 0
BY StorageSizes

\* The bytes of a file are as many as its size.
LEMMA CellsOne ==
  ASSUME NEW f \in File
  PROVE  IsFiniteSet(Cells(f)) /\ Cardinality(Cells(f)) = SizeOf[f]
<1>1. PICK n \in Nat : n = SizeOf[f] /\ n > 0
  BY Sizes
<1>2. IsFiniteSet(1 .. n) /\ Cardinality(1 .. n) = n
  <2>1. 1 \in Int /\ n \in Int /\ ~ (1 > n)
    BY <1>1
  <2>2. IsFiniteSet(1 .. n) /\ Cardinality(1 .. n) = n - 1 + 1
    BY <2>1, FS_Interval
  <2> QED
    BY <1>1, <2>2
<1>3. IsFiniteSet({f}) /\ Cardinality({f}) = 1
  BY FS_Singleton
<1>4. IsFiniteSet({f} \X (1 .. n)) /\ Cardinality({f} \X (1 .. n)) = 1 * n
  <2>1. Cardinality({f} \X (1 .. n)) = Cardinality({f}) * Cardinality(1 .. n)
    BY <1>2, <1>3, FS_Product, Zenon
  <2>2. IsFiniteSet({f} \X (1 .. n))
    BY <1>2, <1>3, FS_Product, Zenon
  <2> QED
    BY <1>2, <1>3, <2>1, <2>2, Zenon
<1>5. Cells(f) = {f} \X (1 .. n)
  BY <1>1 DEF Cells
<1> QED
  BY <1>1, <1>4, <1>5

\* The bytes of a set of files are finitely many.
LEMMA CellsFinite ==
  ASSUME NEW S \in SUBSET File
  PROVE  IsFiniteSet(UNION {Cells(f) : f \in S})
<1> DEFINE U == {Cells(f) : f \in S}
<1>1. IsFiniteSet(S)
  BY StorageSizes, FS_Subset
<1>2. IsFiniteSet(U)
  <2> DEFINE g == [f \in S |-> Cells(f)]
  <2>1. g \in Surjection(S, U)
    BY DEF Surjection
  <2> QED
    BY <1>1, <2>1, FS_Surjection
<1>3. \A T \in U : IsFiniteSet(T)
  BY CellsOne
<1> HIDE DEF U
<1>4. IsFiniteSet(UNION U)
  BY <1>2, <1>3, FS_UNION
<1> QED
  BY <1>4 DEF U

\* A set of files has a number of bytes.
LEMMA BytesType ==
  ASSUME NEW S \in SUBSET File
  PROVE  Bytes(S) \in Nat /\ Bytes(S) = Cardinality(UNION {Cells(f) : f \in S})
<1>1. Bytes(S) = Cardinality(UNION {Cells(f) : f \in S})
  BY DEF Bytes, Cells
<1> QED
  BY <1>1, CellsFinite, FS_CardinalityType

\* The bytes of disjoint sets add up.
LEMMA BytesUnion ==
  ASSUME NEW S \in SUBSET File, NEW T \in SUBSET File, S \cap T = {}
  PROVE  Bytes(S \cup T) = Bytes(S) + Bytes(T)
<1>1. PICK A : A = UNION {Cells(f) : f \in S}
  OBVIOUS
<1>2. PICK B : B = UNION {Cells(f) : f \in T}
  OBVIOUS
<1>3. UNION {Cells(f) : f \in S \cup T} = A \cup B
  BY <1>1, <1>2
<1>4. A \cap B = {}
  BY <1>1, <1>2 DEF Cells
<1>5. IsFiniteSet(A) /\ IsFiniteSet(B)
  BY <1>1, <1>2, CellsFinite
<1>6. Cardinality(A \cup B) = Cardinality(A) + Cardinality(B) - Cardinality(A \cap B)
  BY <1>5, FS_Union
<1>7. Cardinality(A \cap B) = 0
  BY <1>4, FS_EmptySet
<1>8. Cardinality(A) \in Nat /\ Cardinality(B) \in Nat
  BY <1>5, FS_CardinalityType
<1>9. Bytes(S) = Cardinality(A) /\ Bytes(T) = Cardinality(B)
      /\ Bytes(S \cup T) = Cardinality(A \cup B)
  BY <1>1, <1>2, <1>3, BytesType
<1> QED
  BY <1>6, <1>7, <1>8, <1>9

\* A file more is its bytes more.
LEMMA BytesAdd ==
  ASSUME NEW S \in SUBSET File, NEW f \in File, f \notin S
  PROVE  Bytes(S \cup {f}) = Bytes(S) + SizeOf[f]
<1>1. UNION {Cells(g) : g \in {f}} = Cells(f)
  OBVIOUS
<1>2. Bytes({f}) = SizeOf[f]
  BY <1>1, CellsOne, BytesType
<1> QED
  BY <1>2, BytesUnion

----------------------------------------------------------------------------
(* What happens to the documents *)

\* Where entries come from, and what a document refers to.
Source == {"upload", "initialization", "reconciliation"}
Image  == File \cup {NoFile, Gone}

\* The type of the parts of the documents.
LEMMA Parts ==
  ASSUME NEW d \in Documents
  PROVE  /\ d.entry \in [File -> Entry \cup {Absent}]
         /\ d.image \in [Owner -> Image]
         /\ d.usage \in Usage
         /\ d.usage.stored \in Int /\ d.usage.reserved \in Int
         /\ d = [entry |-> d.entry, usage |-> d.usage, image |-> d.image]
         /\ d.usage = [stored |-> d.usage.stored, reserved |-> d.usage.reserved]
         /\ \A f \in File : d.entry[f] # Absent => d.entry[f] \in Entry
         /\ d # Absent
BY StorageSentinels DEF Documents, Usage, Image

\* The fields of an entry.
LEMMA EntryFields ==
  ASSUME NEW e \in Entry
  PROVE  /\ e.state \in State /\ e.source \in Source
         /\ e = [state |-> e.state, source |-> e.source]
         /\ e # Absent
         /\ \A s \in State : [e EXCEPT !.state = s] = [state |-> s, source |-> e.source]
BY StorageSentinels DEF Entry, Source

\* A function with another value at x.
Put(fn, x, y) == [fn EXCEPT ![x] = y]

LEMMA PutEntry ==
  ASSUME NEW fn \in [File -> Entry \cup {Absent}], NEW f \in File, NEW e \in Entry \cup {Absent}
  PROVE  /\ Put(fn, f, e) \in [File -> Entry \cup {Absent}]
         /\ \A g \in File : Put(fn, f, e)[g] = IF g = f THEN e ELSE fn[g]
BY DEF Put

LEMMA PutImage ==
  ASSUME NEW fn \in [Owner -> Image], NEW o \in Owner,
         NEW i \in Image
  PROVE  /\ Put(fn, o, i) \in [Owner -> Image]
         /\ \A q \in Owner : Put(fn, o, i)[q] = IF q = o THEN i ELSE fn[q]
BY DEF Put

\* An entry in another state.
InOther(e, t) == [e EXCEPT !.state = t]

\* It stays an entry.
LEMMA StateSet ==
  ASSUME NEW e \in Entry, NEW t \in State
  PROVE  /\ InOther(e, t) \in Entry
         /\ InOther(e, t).state = t /\ InOther(e, t).source = e.source
         /\ InOther(e, t) # Absent
<1>1. InOther(e, t) = [state |-> t, source |-> e.source]
      /\ e.source \in Source
  BY EntryFields DEF InOther
<1>2. InOther(e, t) \in Entry
  BY <1>1 DEF Entry, Source
<1> QED
  BY <1>1, <1>2, StorageSentinels

\* The bytes that entry e of file f counts for.
StoredBytes(e, f)   == IF e # Absent /\ e.state # "reserved" THEN SizeOf[f] ELSE 0
ReservedBytes(e, f) == IF e # Absent /\ e.state = "reserved" THEN SizeOf[f] ELSE 0

\* Document by document: the entry of f becomes e, and the counter follows ...
Shift(d, n, f, e) ==
  /\ f \in File /\ e \in Entry \cup {Absent}
  /\ n.image = d.image
  /\ n.entry = Put(d.entry, f, e)
  /\ n.usage.stored = d.usage.stored + StoredBytes(e, f) - StoredBytes(d.entry[f], f)
  /\ n.usage.reserved = d.usage.reserved + ReservedBytes(e, f) - ReservedBytes(d.entry[f], f)

\* ... along the life of an entry;
Legal(d, f, e) ==
  /\ e = Absent => InState(d, f, "deleting")
  /\ e # Absent => (e.state = "attached" <=> Referenced(d, f))
  /\ e # Absent /\ e.state = "reserved" => d.entry[f] = Absent /\ e.source = "upload"
  /\ e # Absent /\ e.state = "uploaded" => InState(d, f, "reserved")
  /\ e # Absent /\ d.entry[f] # Absent => e.source = d.entry[f].source
  /\ e # Absent /\ d.entry[f] = Absent /\ e.state # "reserved" => e.source # "upload"

EntriesAfter(d, o, i) ==
  [g \in File |->
     IF g = i THEN InOther(d.entry[g], "attached")
     ELSE IF g = d.image[o] /\ InState(d, g, "attached") THEN InOther(d.entry[g], "deleting")
     ELSE d.entry[g]]

\* owner o refers to i (a file, or nothing) in place of what it had;
Refer(d, n, o, i) ==
  /\ o \in Owner /\ i \in Image
  /\ i # d.image[o]
  /\ i \in File => InState(d, i, "uploaded")
  /\ n.usage = d.usage
  /\ n.image = Put(d.image, o, i)
  /\ n.entry = EntriesAfter(d, o, i)

\* or the counter is recomputed.
Recount(d, n) ==
  n.image = d.image /\ n.entry = d.entry /\ n.usage = Expected(d)

DocStep(d, n) ==
  \/ n = d
  \/ \E f \in File, e \in Entry \cup {Absent} : Shift(d, n, f, e) /\ Legal(d, f, e)
  \/ \E o \in Owner : \E i \in Image : Refer(d, n, o, i)
  \/ Recount(d, n)

\* No document refers to a file with another entry than an attached one, and
\* no two documents refer to one file.
Sound(d) ==
  /\ \A f \in File : d.entry[f] # Absent /\ Referenced(d, f) => d.entry[f].state = "attached"
  /\ \A o, q \in Owner : d.image[o] = d.image[q] /\ d.image[o] \in File => o = q

\* The entries after a move,
LEMMA ShiftEntries ==
  ASSUME NEW d \in Documents, NEW n \in Documents, NEW f \in File,
         NEW e \in Entry \cup {Absent}, Shift(d, n, f, e)
  PROVE  \A g \in File : n.entry[g] = IF g = f THEN e ELSE d.entry[g]
<1>1. d.entry \in [File -> Entry \cup {Absent}]
  BY Parts
<1>2. n.entry = Put(d.entry, f, e)
  BY DEF Shift
<1> QED
  BY <1>1, <1>2, PutEntry

\* and the images after the change of one.
LEMMA ReferImages ==
  ASSUME NEW d \in Documents, NEW n \in Documents, NEW o \in Owner,
         NEW i \in Image, Refer(d, n, o, i)
  PROVE  \A q \in Owner : n.image[q] = IF q = o THEN i ELSE d.image[q]
<1>1. d.image \in [Owner -> Image]
  BY Parts
<1>2. n.image = Put(d.image, o, i)
  BY DEF Refer
<1> QED
  BY <1>1, <1>2, PutImage

\* References are those of the images.
LEMMA SameReferences ==
  ASSUME NEW d, NEW n, n.image = d.image, NEW f
  PROVE  Referenced(n, f) <=> Referenced(d, f)
BY DEF Referenced

\* A legal move of an entry leaves the documents sound, files well.
LEMMA ShiftSound ==
  ASSUME NEW d \in Documents, NEW n \in Documents, NEW f \in File,
         NEW e \in Entry \cup {Absent}, Shift(d, n, f, e), Legal(d, f, e), Sound(d)
  PROVE  Sound(n) /\ \A g \in File : Misfiled(n, g) => Misfiled(d, g)
<1>1. \A g \in File : Referenced(n, g) <=> Referenced(d, g)
  BY SameReferences DEF Shift
<1>2. /\ n.image = d.image
      /\ \A g \in File : n.entry[g] = IF g = f THEN e ELSE d.entry[g]
  BY ShiftEntries DEF Shift
<1>3. ASSUME NEW g \in File, n.entry[g] # Absent, Referenced(n, g)
      PROVE  n.entry[g].state = "attached"
  BY <1>1, <1>2, <1>3 DEF Legal, Sound
<1>4. \A g \in File : Misfiled(n, g) => Misfiled(d, g)
  BY <1>1, <1>2 DEF Legal, Misfiled
<1> QED
  BY <1>2, <1>3, <1>4 DEF Sound

\* So does the change of a reference.
LEMMA ReferSound ==
  ASSUME NEW d \in Documents, NEW n \in Documents, NEW o \in Owner,
         NEW i \in Image, Refer(d, n, o, i), Sound(d)
  PROVE  Sound(n) /\ \A g \in File : Misfiled(n, g) => Misfiled(d, g)
<1>1. /\ n.image[o] = i
      /\ \A q \in Owner : q # o => n.image[q] = d.image[q]
  <2>1. \A q \in Owner : n.image[q] = IF q = o THEN i ELSE d.image[q]
    BY ReferImages
  <2> QED
    BY <2>1
<1>2. i \in File => ~ Referenced(d, i) /\ d.entry[i] # Absent
  BY DEF Refer, InState, Sound
<1>3. \A g \in File : n.entry[g] =
        IF g = i THEN InOther(d.entry[g], "attached")
        ELSE IF g = d.image[o] /\ InState(d, g, "attached")
             THEN InOther(d.entry[g], "deleting")
        ELSE d.entry[g]
  BY DEF Refer, EntriesAfter
<1>4. ASSUME i \in File
      PROVE  n.entry[i].state = "attached" /\ n.entry[i] # Absent
  <2>1. d.entry[i] \in Entry /\ n.entry[i] = InOther(d.entry[i], "attached")
    BY <1>2, <1>3, <1>4, Parts
  <2> QED
    BY <2>1, StateSet DEF State
<1>5. ASSUME NEW g \in File, g # i
      PROVE  Referenced(n, g) <=> Referenced(d, g) /\ g # d.image[o]
  BY <1>1, <1>5 DEF Referenced, Sound
<1>6. Referenced(n, i)
  BY <1>1 DEF Referenced
<1>7. ASSUME NEW g \in File, g # i, g = d.image[o]
      PROVE  /\ ~ Referenced(n, g) /\ Referenced(d, g)
             /\ n.entry[g] # Absent => n.entry[g].state = "deleting"
  <2>1. Referenced(d, g)
    BY <1>7 DEF Referenced
  <2>2. d.entry[g] # Absent => InState(d, g, "attached")
    BY <2>1 DEF Sound, InState
  <2>3. ASSUME d.entry[g] # Absent
        PROVE  n.entry[g].state = "deleting"
    <3>1. d.entry[g] \in Entry /\ n.entry[g] = InOther(d.entry[g], "deleting")
      BY <1>3, <1>7, <2>2, <2>3, Parts
    <3> QED
      BY <3>1, StateSet DEF State
  <2>4. d.entry[g] = Absent => n.entry[g] = Absent
    BY <1>3, <1>7 DEF InState
  <2> QED
    BY <1>5, <1>7, <2>1, <2>3, <2>4
<1>8. ASSUME NEW g \in File, g # i, g # d.image[o]
      PROVE  n.entry[g] = d.entry[g] /\ (Referenced(n, g) <=> Referenced(d, g))
  BY <1>3, <1>5, <1>8
<1>9. \A g \in File : n.entry[g] # Absent /\ Referenced(n, g) => n.entry[g].state = "attached"
  BY <1>4, <1>7, <1>8 DEF Sound
<1>10. \A q, p \in Owner : n.image[q] = n.image[p] /\ n.image[q] \in File => q = p
  BY <1>1, <1>2 DEF Sound, Referenced
<1>11. ASSUME NEW g \in File, Misfiled(n, g)
       PROVE  Misfiled(d, g)
  <2>1. g # i
    BY <1>4, <1>6, <1>11 DEF Misfiled
  <2>2. g # d.image[o]
    BY <1>7, <1>11, <2>1 DEF Misfiled
  <2> QED
    BY <1>8, <1>11, <2>1, <2>2 DEF Misfiled
<1> QED
  BY <1>9, <1>10, <1>11 DEF Sound

\* Sound documents stay so, and no entry is misfiled by a step.
LEMMA StepSound ==
  ASSUME NEW d \in Documents, NEW n \in Documents, DocStep(d, n), Sound(d)
  PROVE  Sound(n) /\ \A g \in File : Misfiled(n, g) => Misfiled(d, g)
<1>1. CASE Recount(d, n)
  <2>1. \A g \in File : Referenced(n, g) <=> Referenced(d, g)
    BY <1>1, SameReferences DEF Recount
  <2> QED
    BY <1>1, <2>1 DEF Recount, Sound, Misfiled
<1> QED
  BY <1>1, ShiftSound, ReferSound DEF DocStep

----------------------------------------------------------------------------
(* The counter *)

\* Where a file is counted.
LEMMA CountedIn ==
  ASSUME NEW d, NEW f \in File
  PROVE  /\ f \in Stored(d) <=> d.entry[f] # Absent /\ d.entry[f].state # "reserved"
         /\ f \in Reserved(d) <=> d.entry[f] # Absent /\ d.entry[f].state = "reserved"
         /\ Stored(d) \subseteq File /\ Reserved(d) \subseteq File
BY DEF Stored, Reserved, InState

\* A set of files that gains or loses at most f has as many bytes more or less.
LEMMA BytesMove ==
  ASSUME NEW S \in SUBSET File, NEW T \in SUBSET File, NEW f \in File,
         \A g \in File : g # f => (g \in S <=> g \in T)
  PROVE  Bytes(T) = Bytes(S) + (IF f \in T THEN SizeOf[f] ELSE 0)
                             - (IF f \in S THEN SizeOf[f] ELSE 0)
<1>1. PICK R \in SUBSET File : R = S \ {f}
  OBVIOUS
<1>2. f \notin R /\ S = (IF f \in S THEN R \cup {f} ELSE R)
      /\ T = (IF f \in T THEN R \cup {f} ELSE R)
  BY <1>1
<1>3. Bytes(R \cup {f}) = Bytes(R) + SizeOf[f] /\ Bytes(R) \in Nat /\ SizeOf[f] \in Nat
  BY <1>2, BytesAdd, BytesType, Sizes
<1>4. Bytes(S) = Bytes(R) + (IF f \in S THEN SizeOf[f] ELSE 0)
  BY <1>2, <1>3
<1>5. Bytes(T) = Bytes(R) + (IF f \in T THEN SizeOf[f] ELSE 0)
  <2>1. CASE f \in T
    BY <1>2, <1>3, <2>1
  <2>2. CASE f \notin T
    BY <1>2, <1>3, <2>2
  <2> QED
    BY <2>1, <2>2
<1> QED
  BY <1>3, <1>4, <1>5

\* A move of an entry takes the counter along.
LEMMA ShiftGap ==
  ASSUME NEW d \in Documents, NEW n \in Documents, NEW f \in File,
         NEW e \in Entry \cup {Absent}, Shift(d, n, f, e)
  PROVE  /\ n.usage.stored - Bytes(Stored(n)) = d.usage.stored - Bytes(Stored(d))
         /\ n.usage.reserved - Bytes(Reserved(n)) = d.usage.reserved - Bytes(Reserved(d))
<1>1. \A g \in File : n.entry[g] = IF g = f THEN e ELSE d.entry[g]
  BY ShiftEntries DEF Shift
<1>2. \A g \in File : g # f => (g \in Stored(n) <=> g \in Stored(d))
                              /\ (g \in Reserved(n) <=> g \in Reserved(d))
  BY <1>1, CountedIn
<1>3. /\ Stored(d) \in SUBSET File /\ Stored(n) \in SUBSET File
      /\ Reserved(d) \in SUBSET File /\ Reserved(n) \in SUBSET File
  BY CountedIn
<1>4. Bytes(Stored(n)) = Bytes(Stored(d)) + (IF f \in Stored(n) THEN SizeOf[f] ELSE 0)
                                          - (IF f \in Stored(d) THEN SizeOf[f] ELSE 0)
  BY <1>2, <1>3, BytesMove
<1>5. Bytes(Reserved(n)) = Bytes(Reserved(d)) + (IF f \in Reserved(n) THEN SizeOf[f] ELSE 0)
                                              - (IF f \in Reserved(d) THEN SizeOf[f] ELSE 0)
  BY <1>2, <1>3, BytesMove
<1>6. /\ (IF f \in Stored(n) THEN SizeOf[f] ELSE 0) = StoredBytes(e, f)
      /\ (IF f \in Stored(d) THEN SizeOf[f] ELSE 0) = StoredBytes(d.entry[f], f)
      /\ (IF f \in Reserved(n) THEN SizeOf[f] ELSE 0) = ReservedBytes(e, f)
      /\ (IF f \in Reserved(d) THEN SizeOf[f] ELSE 0) = ReservedBytes(d.entry[f], f)
  BY <1>1, CountedIn DEF StoredBytes, ReservedBytes
<1>7. /\ StoredBytes(e, f) \in Nat /\ StoredBytes(d.entry[f], f) \in Nat
      /\ ReservedBytes(e, f) \in Nat /\ ReservedBytes(d.entry[f], f) \in Nat
  BY Sizes DEF StoredBytes, ReservedBytes
<1>8. Bytes(Stored(d)) \in Nat /\ Bytes(Reserved(d)) \in Nat
  BY <1>3, BytesType
<1>9. Bytes(Stored(n)) = Bytes(Stored(d)) + StoredBytes(e, f) - StoredBytes(d.entry[f], f)
  BY <1>4, <1>6
<1>10. Bytes(Reserved(n)) = Bytes(Reserved(d)) + ReservedBytes(e, f) - ReservedBytes(d.entry[f], f)
  BY <1>5, <1>6
<1>11. /\ n.usage.stored = d.usage.stored + StoredBytes(e, f) - StoredBytes(d.entry[f], f)
       /\ n.usage.reserved = d.usage.reserved + ReservedBytes(e, f) - ReservedBytes(d.entry[f], f)
  BY DEF Shift
<1>12. d.usage.stored \in Int /\ d.usage.reserved \in Int
  BY Parts
<1> QED
  BY <1>7, <1>8, <1>9, <1>10, <1>11, <1>12

\* Another reference counts the same files.
LEMMA ReferCounts ==
  ASSUME NEW d \in Documents, NEW n \in Documents, NEW o \in Owner,
         NEW i \in Image, Refer(d, n, o, i)
  PROVE  Stored(n) = Stored(d) /\ Reserved(n) = Reserved(d)
<1>1. ASSUME NEW g \in File
      PROVE  (g \in Stored(n) <=> g \in Stored(d)) /\ (g \in Reserved(n) <=> g \in Reserved(d))
  <2>1. n.entry[g] = IF g = i THEN InOther(d.entry[g], "attached")
                     ELSE IF g = d.image[o] /\ InState(d, g, "attached")
                          THEN InOther(d.entry[g], "deleting")
                     ELSE d.entry[g]
    BY <1>1 DEF Refer, EntriesAfter
  <2>2. CASE g = i
    <3>1. d.entry[g] \in Entry /\ d.entry[g] # Absent /\ d.entry[g].state = "uploaded"
      BY <2>2, Parts DEF Refer, InState
    <3>2. n.entry[g] # Absent /\ n.entry[g].state = "attached"
      BY <2>1, <2>2, <3>1, StateSet DEF State
    <3> QED
      BY <3>1, <3>2, CountedIn
  <2>3. CASE g # i /\ g = d.image[o] /\ InState(d, g, "attached")
    <3>1. d.entry[g] \in Entry /\ d.entry[g] # Absent /\ d.entry[g].state = "attached"
      BY <2>3, Parts DEF InState
    <3>2. n.entry[g] # Absent /\ n.entry[g].state = "deleting"
      BY <2>1, <2>3, <3>1, StateSet DEF State
    <3> QED
      BY <3>1, <3>2, CountedIn
  <2>4. CASE g # i /\ ~ (g = d.image[o] /\ InState(d, g, "attached"))
    BY <2>1, <2>4, CountedIn
  <2> QED
    BY <2>2, <2>3, <2>4
<1>2. /\ Stored(d) \subseteq File /\ Reserved(d) \subseteq File
      /\ Stored(n) \subseteq File /\ Reserved(n) \subseteq File
  BY DEF Stored, Reserved
<1> QED
  BY <1>1, <1>2

\* What a recomputation finds again.
LEMMA RecountCounts ==
  ASSUME NEW d, NEW n, Recount(d, n)
  PROVE  Stored(n) = Stored(d) /\ Reserved(n) = Reserved(d)
BY DEF Recount, Stored, Reserved, InState

\* The counter stays off by what it was, unless it is recomputed.
LEMMA StepGap ==
  ASSUME NEW d \in Documents, NEW n \in Documents, DocStep(d, n)
  PROVE  Gap(n) = Gap(d) \/ Gap(n) = [stored |-> 0, reserved |-> 0]
<1>1. CASE n = d
  BY <1>1
<1>2. CASE \E f \in File, e \in Entry \cup {Absent} : Shift(d, n, f, e) /\ Legal(d, f, e)
  BY <1>2, ShiftGap DEF Gap
<1>3. CASE \E o \in Owner : \E i \in Image : Refer(d, n, o, i)
  BY <1>3, ReferCounts DEF Gap, Refer
<1>4. CASE Recount(d, n)
  <2>1. n.usage.stored = Bytes(Stored(n)) /\ n.usage.reserved = Bytes(Reserved(n))
    BY <1>4, RecountCounts DEF Recount, Expected
  <2>2. Bytes(Stored(n)) \in Nat /\ Bytes(Reserved(n)) \in Nat
    BY BytesType DEF Stored, Reserved
  <2> QED
    BY <2>1, <2>2 DEF Gap
<1> QED
  BY <1>1, <1>2, <1>3, <1>4 DEF DocStep

----------------------------------------------------------------------------
(* What each operation writes *)

\* Documents with another entry, counter or image are documents.
LEMMA DocumentsWith ==
  ASSUME NEW d \in Documents, NEW entry \in [File -> Entry \cup {Absent}],
         NEW image \in [Owner -> Image],
         NEW stored \in Int, NEW reserved \in Int
  PROVE  [entry |-> entry, usage |-> [stored |-> stored, reserved |-> reserved],
          image |-> image] \in Documents
BY DEF Documents, Usage, Image

\* Documents with the same parts are the same.
LEMMA SameDocuments ==
  ASSUME NEW c \in Documents, NEW d \in Documents,
         c.entry = d.entry, c.image = d.image,
         c.usage.stored = d.usage.stored, c.usage.reserved = d.usage.reserved
  PROVE  c = d
<1>1. c.usage = d.usage
  BY Parts
<1> QED
  BY <1>1, Parts

\* The counter moves, the rest stays.
LEMMA ChargeIs ==
  ASSUME NEW en, NEW im, NEW us, NEW ur, NEW stored, NEW reserved, NEW d,
         d = [entry |-> en, usage |-> [stored |-> us, reserved |-> ur], image |-> im]
  PROVE  Charge(d, stored, reserved) =
           [entry |-> en, usage |-> [stored |-> us + stored, reserved |-> ur + reserved],
            image |-> im]
<1>1. PICK u : u = [stored |-> us, reserved |-> ur]
  OBVIOUS
<1>2. d = [entry |-> en, usage |-> u, image |-> im]
      /\ d.usage = u /\ u.stored = us /\ u.reserved = ur
  BY <1>1
<1>3. PICK v : v = [u EXCEPT !.stored = us + stored]
  OBVIOUS
<1>4. v = [stored |-> us + stored, reserved |-> ur]
  BY <1>1, <1>3
<1>5. PICK e : e = [d EXCEPT !.usage.stored = @ + stored]
  OBVIOUS
<1>6. e = [entry |-> en, usage |-> v, image |-> im]
  BY <1>2, <1>3, <1>5
<1>7. [e EXCEPT !.usage.reserved = @ + reserved] =
        [entry |-> en, usage |-> [stored |-> us + stored, reserved |-> ur + reserved],
         image |-> im]
  BY <1>4, <1>6
<1>8. Charge(d, stored, reserved) = [e EXCEPT !.usage.reserved = @ + reserved]
  BY <1>5 DEF Charge
<1> QED
  BY <1>7, <1>8

\* Document by document: the entry of f is e, and the counter has moved.
Becomes(d, n, f, e, stored, reserved) ==
  /\ n \in Documents
  /\ n.entry = Put(d.entry, f, e)
  /\ n.image = d.image
  /\ n.usage.stored = d.usage.stored + stored
  /\ n.usage.reserved = d.usage.reserved + reserved

\* A charged entry, part by part.
LEMMA TrackParts ==
  ASSUME NEW d \in Documents, NEW f \in File, NEW state \in State,
         NEW source \in Source,
         NEW stored \in Int, NEW reserved \in Int,
         NEW e \in Entry, e = [state |-> state, source |-> source]
  PROVE  Becomes(d, Charge(Track(d, f, state, source), stored, reserved), f, e, stored, reserved)
<1>0. PICK n : n = Charge(Track(d, f, state, source), stored, reserved)
  OBVIOUS
<1>1. d = [entry |-> d.entry, usage |-> [stored |-> d.usage.stored, reserved |-> d.usage.reserved],
           image |-> d.image]
  BY Parts
<1>2. PICK en, us, ur, im :
        /\ en = d.entry /\ us = d.usage.stored /\ ur = d.usage.reserved /\ im = d.image
        /\ d = [entry |-> en, usage |-> [stored |-> us, reserved |-> ur], image |-> im]
  BY <1>1
<1>3. n = [entry |-> Put(en, f, e),
           usage |-> [stored |-> us + stored, reserved |-> ur + reserved], image |-> im]
  <2>1. Track(d, f, state, source) =
          [entry |-> Put(en, f, e),
           usage |-> [stored |-> us, reserved |-> ur], image |-> im]
    BY <1>2 DEF Track, Put
  <2> QED
    BY <1>0, <2>1, ChargeIs
<1>5. Put(en, f, e) \in [File -> Entry \cup {Absent}]
  BY <1>2, Parts, PutEntry
<1>6. us \in Int /\ ur \in Int /\ im \in [Owner -> Image]
  BY <1>2, Parts
<1>7. us + stored \in Int /\ ur + reserved \in Int
  BY <1>6
<1>8. n \in Documents
  BY <1>3, <1>5, <1>6, <1>7, DocumentsWith
<1> QED
  BY <1>0, <1>2, <1>3, <1>8 DEF Becomes

\* So is an entry in another state.
LEMMA StateParts ==
  ASSUME NEW d \in Documents, NEW f \in File, d.entry[f] # Absent, NEW state \in State,
         NEW stored \in Int, NEW reserved \in Int,
         NEW e \in Entry, e = InOther(d.entry[f], state)
  PROVE  Becomes(d, Charge(SetState(d, f, state), stored, reserved), f, e, stored, reserved)
<1>0. PICK n : n = Charge(SetState(d, f, state), stored, reserved)
  OBVIOUS
<1>1. d = [entry |-> d.entry, usage |-> [stored |-> d.usage.stored, reserved |-> d.usage.reserved],
           image |-> d.image]
  BY Parts
<1>2. PICK en, us, ur, im :
        /\ en = d.entry /\ us = d.usage.stored /\ ur = d.usage.reserved /\ im = d.image
        /\ d = [entry |-> en, usage |-> [stored |-> us, reserved |-> ur], image |-> im]
  BY <1>1
<1>3. n = [entry |-> Put(en, f, e),
           usage |-> [stored |-> us + stored, reserved |-> ur + reserved], image |-> im]
  <2>1. SetState(d, f, state) =
          [entry |-> Put(en, f, e),
           usage |-> [stored |-> us, reserved |-> ur], image |-> im]
    BY <1>2 DEF SetState, InOther, Put
  <2> QED
    BY <1>0, <2>1, ChargeIs
<1>5. Put(en, f, e) \in [File -> Entry \cup {Absent}]
  BY <1>2, Parts, PutEntry
<1>6. us \in Int /\ ur \in Int /\ im \in [Owner -> Image]
  BY <1>2, Parts
<1>7. us + stored \in Int /\ ur + reserved \in Int
  BY <1>6
<1>8. n \in Documents
  BY <1>3, <1>5, <1>6, <1>7, DocumentsWith
<1> QED
  BY <1>0, <1>2, <1>3, <1>8 DEF Becomes

\* Nothing charged is no change of the counter.
LEMMA NoCharge ==
  ASSUME NEW d \in Documents, NEW f \in File, NEW state \in State, d.entry[f] # Absent
  PROVE  SetState(d, f, state) = Charge(SetState(d, f, state), 0, 0)
<1>1. d = [entry |-> d.entry, usage |-> [stored |-> d.usage.stored, reserved |-> d.usage.reserved],
           image |-> d.image] /\ d.usage.stored \in Int /\ d.usage.reserved \in Int
  BY Parts
<1>2. PICK en, us, ur, im :
        /\ us \in Int /\ ur \in Int
        /\ d = [entry |-> en, usage |-> [stored |-> us, reserved |-> ur], image |-> im]
  BY <1>1
<1>3. SetState(d, f, state) = [entry |-> Put(en, f, InOther(en[f], state)),
           usage |-> [stored |-> us, reserved |-> ur], image |-> im]
  BY <1>2 DEF SetState, InOther, Put
<1>4. Charge(SetState(d, f, state), 0, 0) = [entry |-> Put(en, f, InOther(en[f], state)),
           usage |-> [stored |-> us + 0, reserved |-> ur + 0], image |-> im]
  BY <1>3, ChargeIs
<1> QED
  BY <1>2, <1>3, <1>4

\* An upload is reserved,
LEMMA ReserveShift ==
  ASSUME NEW d \in Documents, NEW f \in File, d.entry[f] = Absent, ~ Referenced(d, f)
  PROVE  \E e \in Entry : /\ e = [state |-> "reserved", source |-> "upload"]
                          /\ Reserve(d, f) \in Documents
                          /\ Shift(d, Reserve(d, f), f, e) /\ Legal(d, f, e)
<1>1. PICK e \in Entry : e = [state |-> "reserved", source |-> "upload"]
  BY DEF Entry, State, Source
<1>2. PICK n : n = Reserve(d, f)
  OBVIOUS
<1>3. Becomes(d, n, f, e, 0, SizeOf[f])
  <2>1. /\ "reserved" \in State /\ "upload" \in Source
        /\ SizeOf[f] \in Int /\ 0 \in Int
    BY Sizes DEF State, Source
  <2>2. n = Charge(Track(d, f, "reserved", "upload"), 0, SizeOf[f])
    BY <1>2 DEF Reserve
  <2> QED
    BY <1>1, <2>1, <2>2, TrackParts
<1>4. e.state = "reserved" /\ e.source = "upload" /\ e # Absent
  BY <1>1, EntryFields
<1>5. /\ StoredBytes(e, f) = 0 /\ StoredBytes(d.entry[f], f) = 0
      /\ ReservedBytes(e, f) = SizeOf[f] /\ ReservedBytes(d.entry[f], f) = 0
  BY <1>4 DEF StoredBytes, ReservedBytes
<1>6. d.usage.stored \in Int /\ d.usage.reserved \in Int /\ SizeOf[f] \in Int
  BY Parts, Sizes
<1>7. Shift(d, n, f, e)
  BY <1>3, <1>5, <1>6 DEF Shift, Becomes
<1>8. Legal(d, f, e)
  BY <1>4 DEF Legal
<1> QED
  BY <1>1, <1>2, <1>3, <1>7, <1>8 DEF Becomes

\* marked as uploaded,
LEMMA MarkShift ==
  ASSUME NEW d \in Documents, NEW f \in File, InState(d, f, "reserved"), Sound(d)
  PROVE  \E e \in Entry : /\ e = InOther(d.entry[f], "uploaded")
                          /\ MarkUploaded(d, f) \in Documents
                          /\ Shift(d, MarkUploaded(d, f), f, e) /\ Legal(d, f, e)
<1>1. d.entry[f] \in Entry /\ d.entry[f] # Absent /\ d.entry[f].state = "reserved"
  BY Parts DEF InState
<1>2. PICK e \in Entry : e = InOther(d.entry[f], "uploaded")
  BY <1>1, StateSet DEF State
<1>3. PICK n : n = MarkUploaded(d, f)
  OBVIOUS
<1>4. Becomes(d, n, f, e, SizeOf[f], - SizeOf[f])
  <2>1. "uploaded" \in State /\ SizeOf[f] \in Int /\ - SizeOf[f] \in Int
    BY Sizes DEF State
  <2> QED
    BY <1>1, <1>2, <1>3, <2>1, StateParts DEF MarkUploaded
<1>5. e.state = "uploaded" /\ e.source = d.entry[f].source /\ e # Absent
  BY <1>1, <1>2, StateSet DEF State
<1>6. /\ StoredBytes(e, f) = SizeOf[f] /\ StoredBytes(d.entry[f], f) = 0
      /\ ReservedBytes(e, f) = 0 /\ ReservedBytes(d.entry[f], f) = SizeOf[f]
  BY <1>1, <1>5 DEF StoredBytes, ReservedBytes
<1>7. d.usage.stored \in Int /\ d.usage.reserved \in Int /\ SizeOf[f] \in Int
  BY Parts, Sizes
<1>8. Shift(d, n, f, e)
  BY <1>4, <1>6, <1>7 DEF Shift, Becomes
<1>9. ~ Referenced(d, f)
  BY <1>1 DEF Sound
<1>10. Legal(d, f, e)
  BY <1>1, <1>5, <1>9 DEF Legal, InState
<1> QED
  BY <1>2, <1>3, <1>4, <1>8, <1>10 DEF Becomes

\* or given up; an entry without reference is marked for deletion, and its
\* bytes are stored ones.
LEMMA DeletingShift ==
  ASSUME NEW d \in Documents, NEW f \in File, d.entry[f] # Absent, ~ Referenced(d, f),
         NEW moved \in Int,
         moved = (IF d.entry[f].state = "reserved" THEN SizeOf[f] ELSE 0)
  PROVE  LET n == Charge(SetState(d, f, "deleting"), moved, - moved)
         IN  \E e \in Entry : /\ e = InOther(d.entry[f], "deleting")
                              /\ n \in Documents
                              /\ Shift(d, n, f, e) /\ Legal(d, f, e)
<1> DEFINE n == Charge(SetState(d, f, "deleting"), moved, - moved)
<1>1. d.entry[f] \in Entry
  BY Parts
<1>2. PICK e \in Entry : e = InOther(d.entry[f], "deleting")
  BY <1>1, StateSet DEF State
<1>3. - moved \in Int
  OBVIOUS
<1>4. Becomes(d, n, f, e, moved, - moved)
  <2>1. PICK back \in Int : back = - moved
    BY <1>3
  <2>2. "deleting" \in State
    BY DEF State
  <2> QED
    BY <1>2, <2>1, <2>2, StateParts
<1>5. e.state = "deleting" /\ e.source = d.entry[f].source /\ e # Absent
  BY <1>1, <1>2, StateSet DEF State
<1>6. /\ StoredBytes(e, f) = SizeOf[f] /\ StoredBytes(d.entry[f], f) = SizeOf[f] - moved
      /\ ReservedBytes(e, f) = 0 /\ ReservedBytes(d.entry[f], f) = moved
  BY <1>5, Sizes DEF StoredBytes, ReservedBytes
<1>7. d.usage.stored \in Int /\ d.usage.reserved \in Int /\ SizeOf[f] \in Int
  BY Parts, Sizes
<1>8. Shift(d, n, f, e)
  BY <1>4, <1>6, <1>7 DEF Shift, Becomes
<1>9. Legal(d, f, e)
  BY <1>5 DEF Legal
<1> QED
  BY <1>2, <1>4, <1>8, <1>9 DEF Becomes

\* A file gone from the bucket is released,
LEMMA ReleaseShift ==
  ASSUME NEW d \in Documents, NEW f \in File, InState(d, f, "deleting")
  PROVE  /\ Release(d, f) \in Documents
         /\ Shift(d, Release(d, f), f, Absent) /\ Legal(d, f, Absent)
<1>1. PICK n : n = Release(d, f)
  OBVIOUS
<1>2. PICK en, us, ur, im :
        /\ us \in Int /\ ur \in Int
        /\ en = d.entry /\ us = d.usage.stored /\ ur = d.usage.reserved /\ im = d.image
        /\ d = [entry |-> en, usage |-> [stored |-> us, reserved |-> ur], image |-> im]
  <2>1. d = [entry |-> d.entry, usage |-> [stored |-> d.usage.stored, reserved |-> d.usage.reserved],
             image |-> d.image] /\ d.usage.stored \in Int /\ d.usage.reserved \in Int
    BY Parts
  <2> QED
    BY <2>1
<1>3. PICK size \in Int : size = SizeOf[f]
  BY Sizes
<1>4. n = [entry |-> Put(en, f, Absent),
           usage |-> [stored |-> us + (- size), reserved |-> ur + 0], image |-> im]
  <2>1. [d EXCEPT !.entry[f] = Absent] =
          [entry |-> Put(en, f, Absent),
           usage |-> [stored |-> us, reserved |-> ur], image |-> im]
    BY <1>2 DEF Put
  <2> QED
    BY <1>1, <1>3, <2>1, ChargeIs DEF Release
<1>5. Put(en, f, Absent) \in [File -> Entry \cup {Absent}]
      /\ im \in [Owner -> Image] /\ us + (- size) \in Int /\ ur + 0 \in Int
  BY <1>2, <1>3, Parts, PutEntry
<1>6. n \in Documents
  BY <1>4, <1>5, DocumentsWith
<1>7. /\ StoredBytes(Absent, f) = 0 /\ StoredBytes(d.entry[f], f) = size
      /\ ReservedBytes(Absent, f) = 0 /\ ReservedBytes(d.entry[f], f) = 0
  BY <1>3 DEF StoredBytes, ReservedBytes, InState
<1>8. Shift(d, n, f, Absent)
  BY <1>2, <1>4, <1>7 DEF Shift
<1> QED
  BY <1>1, <1>6, <1>8 DEF Legal

\* and a file without entry is counted, in use or not.
LEMMA CountShift ==
  ASSUME NEW d \in Documents, NEW f \in File, d.entry[f] = Absent,
         NEW source \in {"initialization", "reconciliation"}, NEW state \in {"attached", "deleting"},
         state = "attached" <=> Referenced(d, f)
  PROVE  LET n == Charge(Track(d, f, state, source), SizeOf[f], 0)
         IN  \E e \in Entry : /\ e = [state |-> state, source |-> source]
                              /\ n \in Documents
                              /\ Shift(d, n, f, e) /\ Legal(d, f, e)
<1> DEFINE n == Charge(Track(d, f, state, source), SizeOf[f], 0)
<1>1. PICK e \in Entry : e = [state |-> state, source |-> source]
  BY DEF Entry, State, Source
<1>2. Becomes(d, n, f, e, SizeOf[f], 0)
  <2>1. /\ state \in State /\ source \in Source
        /\ SizeOf[f] \in Int /\ 0 \in Int
    BY Sizes DEF State, Source
  <2> QED
    BY <1>1, <2>1, TrackParts
<1>3. e.state = state /\ e.source = source /\ e # Absent
  BY <1>1, EntryFields
<1>4. /\ StoredBytes(e, f) = SizeOf[f] /\ StoredBytes(d.entry[f], f) = 0
      /\ ReservedBytes(e, f) = 0 /\ ReservedBytes(d.entry[f], f) = 0
  BY <1>3 DEF StoredBytes, ReservedBytes
<1>5. d.usage.stored \in Int /\ d.usage.reserved \in Int /\ SizeOf[f] \in Int
  BY Parts, Sizes
<1>6. Shift(d, n, f, e)
  BY <1>2, <1>4, <1>5 DEF Shift, Becomes
<1>7. Legal(d, f, e)
  BY <1>3 DEF Legal
<1> QED
  BY <1>1, <1>2, <1>6, <1>7 DEF Becomes

\* Another image of a document.
LEMMA ImageParts ==
  ASSUME NEW d \in Documents, NEW o \in Owner, NEW i \in Image
  PROVE  LET n == [d EXCEPT !.image[o] = i]
         IN  /\ n \in Documents /\ n.entry = d.entry /\ n.usage = d.usage
             /\ n.image = Put(d.image, o, i)
<1>1. PICK en, u, im : /\ en = d.entry /\ u = d.usage /\ im = d.image
                       /\ d = [entry |-> en, usage |-> u, image |-> im]
  <2>1. d = [entry |-> d.entry, usage |-> d.usage, image |-> d.image]
    BY Parts
  <2> QED
    BY <2>1
<1>2. PICK n : n = [d EXCEPT !.image[o] = i]
  OBVIOUS
<1>3. n = [entry |-> en, usage |-> u, image |-> Put(im, o, i)]
  BY <1>1, <1>2 DEF Put
<1>4. Put(im, o, i) \in [Owner -> Image]
  BY <1>1, Parts, PutImage
<1>5. en \in [File -> Entry \cup {Absent}] /\ u \in Usage
  BY <1>1, Parts
<1>6. n \in Documents
  BY <1>3, <1>4, <1>5 DEF Documents, Image
<1> QED
  BY <1>1, <1>2, <1>3, <1>6

\* An entry in another state, and nothing else.
LEMMA StateOnly ==
  ASSUME NEW d \in Documents, NEW f \in File, d.entry[f] # Absent, NEW state \in State
  PROVE  LET n == SetState(d, f, state)
         IN  /\ n \in Documents /\ n.image = d.image /\ n.usage = d.usage
             /\ n.entry = Put(d.entry, f, InOther(d.entry[f], state))
<1>1. PICK en, u, im : /\ en = d.entry /\ u = d.usage /\ im = d.image
                       /\ d = [entry |-> en, usage |-> u, image |-> im]
  <2>1. d = [entry |-> d.entry, usage |-> d.usage, image |-> d.image]
    BY Parts
  <2> QED
    BY <2>1
<1>2. PICK n : n = SetState(d, f, state)
  OBVIOUS
<1>3. PICK e \in Entry : e = InOther(en[f], state)
  BY <1>1, Parts, StateSet
<1>4. n = [entry |-> Put(en, f, e), usage |-> u, image |-> im]
  BY <1>1, <1>2, <1>3 DEF SetState, InOther, Put
<1>5. Put(en, f, e) \in [File -> Entry \cup {Absent}]
  BY <1>1, Parts, PutEntry
<1>6. im \in [Owner -> Image] /\ u \in Usage
  BY <1>1, Parts
<1>7. n \in Documents
  BY <1>4, <1>5, <1>6 DEF Documents, Image
<1> QED
  BY <1>1, <1>2, <1>3, <1>4, <1>7

\* The entry of a file that was in use, if there is one, is to be deleted.
LEMMA DetachParts ==
  ASSUME NEW d \in Documents, NEW x
  PROVE  LET n == Detach(d, x)
         IN  /\ n \in Documents /\ n.image = d.image /\ n.usage = d.usage
             /\ \A g \in File : n.entry[g] = IF g = x /\ InState(d, x, "attached")
                                             THEN InOther(d.entry[g], "deleting")
                                             ELSE d.entry[g]
<1>1. CASE InState(d, x, "attached")
  <2>1. x \in File /\ d.entry[x] # Absent /\ "deleting" \in State
    BY <1>1 DEF InState, State
  <2>2. PICK n : n = SetState(d, x, "deleting")
    OBVIOUS
  <2>3. /\ n \in Documents /\ n.image = d.image /\ n.usage = d.usage
        /\ n.entry = Put(d.entry, x, InOther(d.entry[x], "deleting"))
    BY <2>1, <2>2, StateOnly
  <2>4. d.entry \in [File -> Entry \cup {Absent}]
    BY Parts
  <2>5. InOther(d.entry[x], "deleting") \in Entry \cup {Absent}
    BY <2>1, Parts, StateSet
  <2>6. \A g \in File : n.entry[g] = IF g = x THEN InOther(d.entry[x], "deleting")
                                     ELSE d.entry[g]
    BY <2>1, <2>3, <2>4, <2>5, PutEntry
  <2> QED
    BY <1>1, <2>2, <2>3, <2>6 DEF Detach
<1>2. CASE ~ InState(d, x, "attached")
  BY <1>2 DEF Detach
<1> QED
  BY <1>1, <1>2

\* The entries are those of the documents.
LEMMA EntriesAfterIs ==
  ASSUME NEW d, NEW o, NEW i, NEW en \in [File -> Entry \cup {Absent}],
         \A g \in File : en[g] = IF g = i THEN InOther(d.entry[g], "attached")
                                 ELSE IF g = d.image[o] /\ InState(d, g, "attached")
                                      THEN InOther(d.entry[g], "deleting")
                                 ELSE d.entry[g]
  PROVE  en = EntriesAfter(d, o, i)
BY DEF EntriesAfter

\* A document refers to an uploaded file,
LEMMA WriteRefer ==
  ASSUME NEW d \in Documents, NEW o \in Owner, NEW f \in File, NEW prev,
         Writable(d, o, f, prev), Sound(d)
  PROVE  WriteImage(d, o, f, prev) \in Documents /\ Refer(d, WriteImage(d, o, f, prev), o, f)
<1>1. d.image[o] = prev /\ d.entry[f] # Absent /\ d.entry[f].state = "uploaded"
  BY DEF Writable, InState
<1>2. prev # f
  BY <1>1 DEF Sound, Referenced
<1>3. f \in Image /\ "attached" \in State /\ d.entry[f] \in Entry
  BY <1>1, Parts DEF Image, State
<1>4. PICK a : a = [d EXCEPT !.image[o] = f]
  OBVIOUS
<1>5. a \in Documents /\ a.entry = d.entry /\ a.usage = d.usage /\ a.image = Put(d.image, o, f)
  BY <1>3, <1>4, ImageParts
<1>6. PICK b : b = SetState(a, f, "attached")
  OBVIOUS
<1>7. /\ b \in Documents /\ b.image = a.image /\ b.usage = a.usage
      /\ b.entry = Put(a.entry, f, InOther(a.entry[f], "attached"))
  BY <1>1, <1>3, <1>5, <1>6, StateOnly
<1>8. \A g \in File : b.entry[g] = IF g = f THEN InOther(d.entry[f], "attached") ELSE d.entry[g]
  <2>1. PICK e \in Entry : e = InOther(d.entry[f], "attached")
    BY <1>3, StateSet
  <2>2. d.entry \in [File -> Entry \cup {Absent}] /\ b.entry = Put(d.entry, f, e)
    BY <1>5, <1>7, <2>1, Parts
  <2> QED
    BY <2>1, <2>2, PutEntry
<1>9. PICK n : n = Detach(b, prev)
  OBVIOUS
<1>10. /\ n \in Documents /\ n.image = b.image /\ n.usage = b.usage
       /\ \A g \in File : n.entry[g] = IF g = prev /\ InState(b, prev, "attached")
                                       THEN InOther(b.entry[g], "deleting")
                                       ELSE b.entry[g]
  BY <1>7, <1>9, DetachParts
<1>11. InState(b, prev, "attached") <=> InState(d, prev, "attached")
  BY <1>2, <1>8 DEF InState
<1>12. \A g \in File : n.entry[g] = IF g = f THEN InOther(d.entry[g], "attached")
                                    ELSE IF g = d.image[o] /\ InState(d, g, "attached")
                                         THEN InOther(d.entry[g], "deleting")
                                    ELSE d.entry[g]
  BY <1>1, <1>2, <1>8, <1>10, <1>11
<1>13. n.entry = EntriesAfter(d, o, f)
  <2>1. n.entry \in [File -> Entry \cup {Absent}]
    BY <1>10, Parts
  <2> QED
    BY <1>12, <2>1, EntriesAfterIs
<1>14. n = WriteImage(d, o, f, prev)
  BY <1>4, <1>6, <1>9 DEF WriteImage
<1> QED
  BY <1>1, <1>2, <1>3, <1>5, <1>7, <1>10, <1>13, <1>14 DEF Refer, InState

\* or to none any more.
LEMMA RemoveRefer ==
  ASSUME NEW d \in Documents, NEW o \in Owner, NEW left \in {NoFile, Gone},
         left # d.image[o]
  PROVE  RemoveImage(d, o, left) \in Documents /\ Refer(d, RemoveImage(d, o, left), o, left)
<1>1. left \in Image /\ left \notin File
  BY StorageSentinels DEF Image
<1>2. PICK a : a = [d EXCEPT !.image[o] = left]
  OBVIOUS
<1>3. a \in Documents /\ a.entry = d.entry /\ a.usage = d.usage /\ a.image = Put(d.image, o, left)
  BY <1>1, <1>2, ImageParts
<1>4. PICK prev : prev = d.image[o]
  OBVIOUS
<1>5. PICK n : n = Detach(a, prev)
  OBVIOUS
<1>6. /\ n \in Documents /\ n.image = a.image /\ n.usage = a.usage
      /\ \A g \in File : n.entry[g] = IF g = prev /\ InState(a, prev, "attached")
                                      THEN InOther(a.entry[g], "deleting")
                                      ELSE a.entry[g]
  BY <1>3, <1>5, DetachParts
<1>7. InState(a, prev, "attached") <=> InState(d, prev, "attached")
  BY <1>3 DEF InState
<1>8. \A g \in File : n.entry[g] = IF g = left THEN InOther(d.entry[g], "attached")
                                   ELSE IF g = d.image[o] /\ InState(d, g, "attached")
                                        THEN InOther(d.entry[g], "deleting")
                                   ELSE d.entry[g]
  BY <1>1, <1>3, <1>4, <1>6, <1>7
<1>9. n.entry = EntriesAfter(d, o, left)
  <2>1. n.entry \in [File -> Entry \cup {Absent}]
    BY <1>6, Parts
  <2> QED
    BY <1>8, <2>1, EntriesAfterIs
<1>10. n = RemoveImage(d, o, left)
  BY <1>2, <1>4, <1>5 DEF RemoveImage
<1> QED
  BY <1>1, <1>3, <1>6, <1>9, <1>10 DEF Refer

----------------------------------------------------------------------------
(* The operations of the book *)

\* An operation of the book leads from documents d to n; an upload is reserved
\* under a key that nothing refers to yet.
Operation(d, n) ==
  \/ \E f \in File : /\ d.entry[f] = Absent /\ ~ Referenced(d, f) /\ Fits(d, f)
                     /\ n = Reserve(d, f)
  \/ \E f \in File : InState(d, f, "reserved") /\ n = MarkUploaded(d, f)
  \/ \E o \in Owner, f \in File : \E prev \in Image :
       Writable(d, o, f, prev) /\ n = WriteImage(d, o, f, prev)
  \/ \E o \in Owner : \E left \in {NoFile, Gone} :
       /\ d.image[o] # Gone /\ left # d.image[o]
       /\ n = RemoveImage(d, o, left)
  \/ \E f \in File : n = Discard(d, f)
  \/ \E f \in File : /\ d.entry[f] # Absent /\ d.entry[f].state # "attached"
                     /\ n = Recover(d, f)
  \/ \E f \in File : InState(d, f, "deleting") /\ n = Release(d, f)
  \/ \E f \in File : d.entry[f] = Absent /\ Referenced(d, f) /\ n = CountExisting(d, f)
  \/ \E f \in File : d.entry[f] = Absent /\ n = CountUntracked(d, f)
  \/ \E f \in File : Orphan(d, f) /\ n = SetState(d, f, "deleting")
  \/ n = Recompute(d)

\* A discarded upload has no reference yet: its entry is to be deleted.
LEMMA DiscardShift ==
  ASSUME NEW d \in Documents, NEW f \in File, Sound(d), InState(d, f, "uploaded")
  PROVE  \E e \in Entry : /\ e = InOther(d.entry[f], "deleting")
                          /\ Discard(d, f) \in Documents
                          /\ Shift(d, Discard(d, f), f, e) /\ Legal(d, f, e)
<1>1. d.entry[f] # Absent /\ d.entry[f].state = "uploaded" /\ ~ Referenced(d, f)
  BY DEF InState, Sound
<1>2. Discard(d, f) = SetState(d, f, "deleting")
  BY <1>1 DEF Discard
<1>3. PICK moved \in Int : moved = 0
  OBVIOUS
<1>4. SetState(d, f, "deleting") = Charge(SetState(d, f, "deleting"), moved, - moved)
  <2>1. "deleting" \in State
    BY DEF State
  <2>2. SetState(d, f, "deleting") = Charge(SetState(d, f, "deleting"), 0, 0)
    BY <1>1, <2>1, NoCharge
  <2>3. PICK back \in Int : back = - moved
    OBVIOUS
  <2>4. moved + back = 0
    BY <2>3
  <2>5. back = 0
    <3> HIDE <2>3
    <3> QED
      BY <1>3, <2>4
  <2> QED
    BY <1>3, <2>2, <2>3, <2>5
<1>5. LET n == Charge(SetState(d, f, "deleting"), moved, - moved)
      IN  \E e \in Entry : /\ e = InOther(d.entry[f], "deleting")
                           /\ n \in Documents
                           /\ Shift(d, n, f, e) /\ Legal(d, f, e)
  BY <1>1, <1>3, DeletingShift
<1> QED
  BY <1>2, <1>4, <1>5

\* So is an attached entry without reference, when it is dropped.
LEMMA OrphanShift ==
  ASSUME NEW d \in Documents, NEW f \in File, Orphan(d, f)
  PROVE  \E e \in Entry : /\ e = InOther(d.entry[f], "deleting")
                          /\ SetState(d, f, "deleting") \in Documents
                          /\ Shift(d, SetState(d, f, "deleting"), f, e) /\ Legal(d, f, e)
<1>1. d.entry[f] # Absent /\ d.entry[f].state = "attached" /\ ~ Referenced(d, f)
  BY DEF InState, Orphan
<1>2. PICK moved \in Int : moved = 0
  OBVIOUS
<1>3. SetState(d, f, "deleting") = Charge(SetState(d, f, "deleting"), moved, - moved)
  <2>1. "deleting" \in State
    BY DEF State
  <2>2. SetState(d, f, "deleting") = Charge(SetState(d, f, "deleting"), 0, 0)
    BY <1>1, <2>1, NoCharge
  <2>3. PICK back \in Int : back = - moved
    OBVIOUS
  <2>4. moved + back = 0
    BY <2>3
  <2>5. back = 0
    <3> HIDE <2>3
    <3> QED
      BY <1>2, <2>4
  <2> QED
    BY <1>2, <2>2, <2>3, <2>5
<1>4. LET n == Charge(SetState(d, f, "deleting"), moved, - moved)
      IN  \E e \in Entry : /\ e = InOther(d.entry[f], "deleting")
                           /\ n \in Documents
                           /\ Shift(d, n, f, e) /\ Legal(d, f, e)
  BY <1>1, <1>2, DeletingShift
<1> QED
  BY <1>3, <1>4

\* The recovery takes what is not attached, in whatever state.
LEMMA RecoverShift ==
  ASSUME NEW d \in Documents, NEW f \in File, Sound(d),
         d.entry[f] # Absent, d.entry[f].state # "attached"
  PROVE  \E e \in Entry : /\ e = InOther(d.entry[f], "deleting")
                          /\ Recover(d, f) \in Documents
                          /\ Shift(d, Recover(d, f), f, e) /\ Legal(d, f, e)
<1>1. ~ Referenced(d, f)
  BY DEF Sound
<1>2. PICK moved \in Int : moved = IF d.entry[f].state = "reserved" THEN SizeOf[f] ELSE 0
  BY Sizes
<1>3. (IF InState(d, f, "reserved") THEN SizeOf[f] ELSE 0) = moved
  BY <1>2 DEF InState
<1>4. Recover(d, f) = Charge(SetState(d, f, "deleting"), moved, - moved)
  BY <1>1, <1>3 DEF Recover
<1>5. LET n == Charge(SetState(d, f, "deleting"), moved, - moved)
      IN  \E e \in Entry : /\ e = InOther(d.entry[f], "deleting")
                           /\ n \in Documents
                           /\ Shift(d, n, f, e) /\ Legal(d, f, e)
  BY <1>1, <1>2, DeletingShift
<1> QED
  BY <1>4, <1>5

\* Files without entry are counted, used ones and found ones.
LEMMA ExistingShift ==
  ASSUME NEW d \in Documents, NEW f \in File, d.entry[f] = Absent, Referenced(d, f)
  PROVE  \E e \in Entry : /\ e = [state |-> "attached", source |-> "initialization"]
                          /\ CountExisting(d, f) \in Documents
                          /\ Shift(d, CountExisting(d, f), f, e) /\ Legal(d, f, e)
<1>1. PICK state \in {"attached", "deleting"} :
        state = "attached"
  OBVIOUS
<1>2. PICK from \in {"initialization", "reconciliation"} : from = "initialization"
  OBVIOUS
<1>3. state = "attached" <=> Referenced(d, f)
  BY <1>1
<1>4. LET n == Charge(Track(d, f, state, from), SizeOf[f], 0)
      IN  \E e \in Entry : /\ e = [state |-> state, source |-> from]
                           /\ n \in Documents
                           /\ Shift(d, n, f, e) /\ Legal(d, f, e)
  BY <1>3, CountShift
<1> QED
  BY <1>1, <1>2, <1>4 DEF CountExisting

LEMMA FoundShift ==
  ASSUME NEW d \in Documents, NEW f \in File, d.entry[f] = Absent
  PROVE  \E e \in Entry : /\ e = [state |-> IF Referenced(d, f) THEN "attached" ELSE "deleting",
                                  source |-> "reconciliation"]
                          /\ CountUntracked(d, f) \in Documents
                          /\ Shift(d, CountUntracked(d, f), f, e) /\ Legal(d, f, e)
<1>1. PICK state \in {"attached", "deleting"} :
        state = IF Referenced(d, f) THEN "attached" ELSE "deleting"
  OBVIOUS
<1>2. PICK from \in {"initialization", "reconciliation"} : from = "reconciliation"
  OBVIOUS
<1>3. state = "attached" <=> Referenced(d, f)
  BY <1>1
<1>4. LET n == Charge(Track(d, f, state, from), SizeOf[f], 0)
      IN  \E e \in Entry : /\ e = [state |-> state, source |-> from]
                           /\ n \in Documents
                           /\ Shift(d, n, f, e) /\ Legal(d, f, e)
  BY <1>3, CountShift
<1> QED
  BY <1>1, <1>2, <1>4 DEF CountUntracked

\* The counter is set to what is expected of it.
LEMMA RecomputeRecounts ==
  ASSUME NEW d \in Documents
  PROVE  Recompute(d) \in Documents /\ Recount(d, Recompute(d))
<1>1. PICK en, u, im : /\ en = d.entry /\ u = d.usage /\ im = d.image
                       /\ d = [entry |-> en, usage |-> u, image |-> im]
  <2>1. d = [entry |-> d.entry, usage |-> d.usage, image |-> d.image]
    BY Parts
  <2> QED
    BY <2>1
<1>2. Bytes(Stored(d)) \in Nat /\ Bytes(Reserved(d)) \in Nat
  BY BytesType, CountedIn DEF Stored, Reserved
<1>3. PICK v \in Usage : v = Expected(d)
  <2>1. PICK a \in Int, b \in Int : a = Bytes(Stored(d)) /\ b = Bytes(Reserved(d))
    BY <1>2
  <2>2. Expected(d) = [stored |-> a, reserved |-> b]
    BY <2>1 DEF Expected
  <2> QED
    BY <2>2 DEF Usage
<1>4. Recompute(d) = [entry |-> en, usage |-> v, image |-> im]
  BY <1>1, <1>3 DEF Recompute
<1>5. en \in [File -> Entry \cup {Absent}] /\ im \in [Owner -> Image]
  BY <1>1, Parts
<1>6. Recompute(d) \in Documents
  BY <1>4, <1>5 DEF Documents, Image
<1> QED
  BY <1>1, <1>3, <1>4, <1>6 DEF Recount

\* Every operation is a step of the documents.
LEMMA OperationStep ==
  ASSUME NEW d \in Documents, NEW n, Operation(d, n), Sound(d)
  PROVE  n \in Documents /\ DocStep(d, n)
<1>1. ASSUME NEW f \in File, d.entry[f] = Absent, ~ Referenced(d, f), n = Reserve(d, f)
      PROVE  n \in Documents /\ DocStep(d, n)
  BY <1>1, ReserveShift DEF DocStep
<1>2. ASSUME NEW f \in File, InState(d, f, "reserved"), n = MarkUploaded(d, f)
      PROVE  n \in Documents /\ DocStep(d, n)
  BY <1>2, MarkShift DEF DocStep
<1>3. ASSUME NEW o \in Owner, NEW f \in File, NEW prev \in Image,
             Writable(d, o, f, prev), n = WriteImage(d, o, f, prev)
      PROVE  n \in Documents /\ DocStep(d, n)
  <2>1. f \in Image
    BY DEF Image
  <2> QED
    BY <1>3, <2>1, WriteRefer DEF DocStep
<1>4. ASSUME NEW o \in Owner, NEW left \in {NoFile, Gone}, left # d.image[o],
             n = RemoveImage(d, o, left)
      PROVE  n \in Documents /\ DocStep(d, n)
  <2>1. left \in Image
    BY DEF Image
  <2> QED
    BY <1>4, <2>1, RemoveRefer DEF DocStep
<1>5. ASSUME NEW f \in File, n = Discard(d, f)
      PROVE  n \in Documents /\ DocStep(d, n)
  <2>1. CASE InState(d, f, "uploaded")
    BY <1>5, <2>1, DiscardShift DEF DocStep
  <2>2. CASE ~ InState(d, f, "uploaded")
    BY <1>5, <2>2 DEF Discard, DocStep
  <2> QED
    BY <2>1, <2>2
<1>6. ASSUME NEW f \in File, d.entry[f] # Absent, d.entry[f].state # "attached",
             n = Recover(d, f)
      PROVE  n \in Documents /\ DocStep(d, n)
  BY <1>6, RecoverShift DEF DocStep
<1>7. ASSUME NEW f \in File, InState(d, f, "deleting"), n = Release(d, f)
      PROVE  n \in Documents /\ DocStep(d, n)
  BY <1>7, ReleaseShift DEF DocStep
<1>8. ASSUME NEW f \in File, d.entry[f] = Absent, Referenced(d, f), n = CountExisting(d, f)
      PROVE  n \in Documents /\ DocStep(d, n)
  BY <1>8, ExistingShift DEF DocStep
<1>9. ASSUME NEW f \in File, d.entry[f] = Absent, n = CountUntracked(d, f)
      PROVE  n \in Documents /\ DocStep(d, n)
  BY <1>9, FoundShift DEF DocStep
<1>10. ASSUME NEW f \in File, Orphan(d, f), n = SetState(d, f, "deleting")
       PROVE  n \in Documents /\ DocStep(d, n)
  BY <1>10, OrphanShift DEF DocStep
<1>11. ASSUME n = Recompute(d)
       PROVE  n \in Documents /\ DocStep(d, n)
  BY <1>11, RecomputeRecounts DEF DocStep
<1> QED
  BY <1>1, <1>2, <1>3, <1>4, <1>5, <1>6, <1>7, <1>8, <1>9, <1>10, <1>11 DEF Operation

----------------------------------------------------------------------------
(* What a transaction commits *)

\* What the commits that wrote docs did to the documents s, which are now c:
\* nothing else changed, and who made an entry of a file wrote its references.
Evolves(s, c, docs) ==
  /\ \A f \in File : f \notin docs.files => c.entry[f] = s.entry[f]
  /\ \A o \in Owner : o \notin docs.owners => c.image[o] = s.image[o]
  /\ ~ docs.usage => c.usage = s.usage /\ Stored(c) = Stored(s) /\ Reserved(c) = Reserved(s)
  /\ \A f \in File : Referenced(c, f) /\ ~ Referenced(s, f) => f \in docs.files
  /\ \A f \in File, o \in Owner :
       s.image[o] = f /\ s.entry[f] = Absent /\ c.entry[f] # Absent => o \in docs.owners

\* docs tells what changed from s to n.
Covers(docs, s, n) ==
  /\ \A f \in File : f \notin docs.files => n.entry[f] = s.entry[f]
  /\ \A o \in Owner : o \notin docs.owners => n.image[o] = s.image[o]
  /\ ~ docs.usage => n.usage = s.usage

\* The documents written, locks included.
Docs(s, n, locks) == [Written(s, n) EXCEPT !.owners = @ \cup locks]

LEMMA DocsCover ==
  ASSUME NEW s, NEW n, NEW locks \in SUBSET Owner
  PROVE  /\ Docs(s, n, locks) \in DocSets
         /\ Covers(Docs(s, n, locks), s, n)
         /\ locks \subseteq Docs(s, n, locks).owners
<1>1. PICK F \in SUBSET File : F = {f \in File : s.entry[f] # n.entry[f]}
  OBVIOUS
<1>2. PICK O \in SUBSET Owner : O = {o \in Owner : s.image[o] # n.image[o]}
  OBVIOUS
<1>3. PICK u \in BOOLEAN : u = (s.usage # n.usage)
  OBVIOUS
<1>4. PICK w : w = Written(s, n)
  OBVIOUS
<1>5. w = [files |-> F, owners |-> O, usage |-> u]
  BY <1>1, <1>2, <1>3, <1>4 DEF Written
<1>6. PICK d : d = Docs(s, n, locks)
  OBVIOUS
<1>7. d = [files |-> F, owners |-> O \cup locks, usage |-> u]
  <2>1. d = [w EXCEPT !.owners = @ \cup locks]
    BY <1>4, <1>6 DEF Docs
  <2> QED
    BY <1>5, <2>1
<1>8. d \in DocSets /\ d.files = F /\ d.owners = O \cup locks /\ d.usage = u
  BY <1>7 DEF DocSets
<1>9. Covers(d, s, n)
  BY <1>1, <1>2, <1>3, <1>8 DEF Covers
<1> QED
  BY <1>6, <1>8, <1>9

\* Nothing evolves into itself, whatever is said to be written;
LEMMA EvolvesNone ==
  ASSUME NEW c, NEW docs
  PROVE  Evolves(c, c, docs)
BY DEF Evolves

\* more may be said to be written, and commits follow each other.
LEMMA EvolvesMore ==
  ASSUME NEW s, NEW c, NEW docs \in DocSets, NEW more \in DocSets, Evolves(s, c, docs)
  PROVE  Evolves(s, c, Join(docs, more))
<1>1. PICK j : j = Join(docs, more)
  OBVIOUS
<1>2. /\ j.files = docs.files \cup more.files /\ j.owners = docs.owners \cup more.owners
      /\ j.usage = (docs.usage \/ more.usage)
  BY <1>1 DEF Join
<1>3. ~ j.usage => ~ docs.usage
  BY <1>2
<1>4. Evolves(s, c, j)
  BY <1>2, <1>3 DEF Evolves
<1> QED
  BY <1>1, <1>4

LEMMA EvolvesThen ==
  ASSUME NEW s, NEW c, NEW m, NEW docs \in DocSets, NEW more \in DocSets,
         Evolves(s, c, docs), Evolves(c, m, more)
  PROVE  Evolves(s, m, Join(docs, more))
<1>1. PICK j : j = Join(docs, more)
  OBVIOUS
<1>2. /\ j.files = docs.files \cup more.files /\ j.owners = docs.owners \cup more.owners
      /\ j.usage = (docs.usage \/ more.usage)
  BY <1>1 DEF Join
<1>3. ~ j.usage => ~ docs.usage /\ ~ more.usage
  BY <1>2
<1>4. Evolves(s, m, j)
  <2>1. \A f \in File : f \notin j.files => m.entry[f] = s.entry[f]
    BY <1>2 DEF Evolves
  <2>2. \A o \in Owner : o \notin j.owners => m.image[o] = s.image[o]
    BY <1>2 DEF Evolves
  <2>3. ~ j.usage => m.usage = s.usage /\ Stored(m) = Stored(s) /\ Reserved(m) = Reserved(s)
    BY <1>3 DEF Evolves
  <2>4. \A f \in File : Referenced(m, f) /\ ~ Referenced(s, f) => f \in j.files
    BY <1>2 DEF Evolves
  <2>5. ASSUME NEW f \in File, NEW o \in Owner,
               s.image[o] = f, s.entry[f] = Absent, m.entry[f] # Absent
        PROVE  o \in j.owners
    <3>1. CASE c.entry[f] # Absent
      BY <1>2, <2>5, <3>1 DEF Evolves
    <3>2. CASE c.entry[f] = Absent /\ c.image[o] = f
      BY <1>2, <2>5, <3>2 DEF Evolves
    <3>3. CASE c.image[o] # f
      BY <1>2, <2>5, <3>3 DEF Evolves
    <3> QED
      BY <3>1, <3>2, <3>3
  <2> QED
    BY <2>1, <2>2, <2>3, <2>4, <2>5 DEF Evolves
<1> QED
  BY <1>1, <1>4

\* What a transaction that meets no conflict merges, part by part.
LEMMA MergeParts ==
  ASSUME NEW s \in Documents, NEW c \in Documents, NEW n \in Documents
  PROVE  /\ Merge(c, s, n) \in Documents
         /\ \A f \in File : Merge(c, s, n).entry[f] =
              IF n.entry[f] # s.entry[f] THEN n.entry[f] ELSE c.entry[f]
         /\ \A o \in Owner : Merge(c, s, n).image[o] =
              IF n.image[o] # s.image[o] THEN n.image[o] ELSE c.image[o]
         /\ Merge(c, s, n).usage = IF n.usage # s.usage THEN n.usage ELSE c.usage
<1>1. PICK m : m = Merge(c, s, n)
  OBVIOUS
<1>2. PICK en : en = Newer(c.entry, s.entry, n.entry)
  OBVIOUS
<1>3. PICK im : im = Newer(c.image, s.image, n.image)
  OBVIOUS
<1>4. PICK us : us = IF n.usage # s.usage THEN n.usage ELSE c.usage
  OBVIOUS
<1>5. m = [entry |-> en, usage |-> us, image |-> im]
  BY <1>1, <1>2, <1>3, <1>4 DEF Merge
<1>6. /\ en \in [File -> Entry \cup {Absent}]
      /\ \A f \in File : en[f] = IF n.entry[f] # s.entry[f] THEN n.entry[f] ELSE c.entry[f]
  <2>1. /\ c.entry \in [File -> Entry \cup {Absent}] /\ s.entry \in [File -> Entry \cup {Absent}]
        /\ n.entry \in [File -> Entry \cup {Absent}]
    BY Parts
  <2>2. en = [x \in DOMAIN c.entry |-> IF n.entry[x] # s.entry[x] THEN n.entry[x] ELSE c.entry[x]]
    BY <1>2 DEF Newer
  <2>3. DOMAIN c.entry = File
    BY <2>1
  <2> QED
    BY <2>1, <2>2, <2>3
<1>7. /\ im \in [Owner -> Image]
      /\ \A o \in Owner : im[o] = IF n.image[o] # s.image[o] THEN n.image[o] ELSE c.image[o]
  <2>1. /\ c.image \in [Owner -> Image] /\ s.image \in [Owner -> Image]
        /\ n.image \in [Owner -> Image]
    BY Parts
  <2>2. im = [x \in DOMAIN c.image |-> IF n.image[x] # s.image[x] THEN n.image[x] ELSE c.image[x]]
    BY <1>3 DEF Newer
  <2>3. DOMAIN c.image = Owner
    BY <2>1
  <2> QED
    BY <2>1, <2>2, <2>3
<1>8. us \in Usage
  BY <1>4, Parts
<1>9. m \in Documents /\ m.entry = en /\ m.image = im /\ m.usage = us
  BY <1>5, <1>6, <1>7, <1>8 DEF Documents, Image
<1> QED
  BY <1>1, <1>4, <1>6, <1>7, <1>9

\* A function is what its values say.
LEMMA PutEntryIs ==
  ASSUME NEW fn \in [File -> Entry \cup {Absent}], NEW en \in [File -> Entry \cup {Absent}],
         NEW f \in File, NEW e,
         \A g \in File : en[g] = IF g = f THEN e ELSE fn[g]
  PROVE  en = Put(fn, f, e)
BY DEF Put

LEMMA PutImageIs ==
  ASSUME NEW fn \in [Owner -> Image], NEW im \in [Owner -> Image], NEW o \in Owner, NEW i,
         \A q \in Owner : im[q] = IF q = o THEN i ELSE fn[q]
  PROVE  im = Put(fn, o, i)
BY DEF Put

\* A transaction that read s commits n on top of c, which others led to by
\* writing others; what it writes (docs) none of them wrote.
Commits(s, c, n, others, docs) ==
  /\ Evolves(s, c, others)
  /\ Covers(docs, s, n)
  /\ ~ Overlap(docs, others)

\* What it wrote was as it read it.
LEMMA Unwritten ==
  ASSUME NEW s, NEW c, NEW n, NEW others, NEW docs, Commits(s, c, n, others, docs)
  PROVE  /\ \A f \in File : n.entry[f] # s.entry[f] =>
              f \in docs.files /\ c.entry[f] = s.entry[f]
              /\ (Referenced(c, f) => Referenced(s, f))
         /\ \A o \in Owner : n.image[o] # s.image[o] =>
              o \in docs.owners /\ c.image[o] = s.image[o]
         /\ \A o \in Owner : o \in docs.owners => c.image[o] = s.image[o]
         /\ \A o \in Owner, f \in File : o \in docs.owners /\ s.image[o] = f
              /\ s.entry[f] = Absent => c.entry[f] = Absent
         /\ n.usage # s.usage =>
              docs.usage /\ c.usage = s.usage /\ Stored(c) = Stored(s) /\ Reserved(c) = Reserved(s)
<1>1. /\ \A f \in File : n.entry[f] # s.entry[f] => f \in docs.files
      /\ \A o \in Owner : n.image[o] # s.image[o] => o \in docs.owners
      /\ n.usage # s.usage => docs.usage
  BY DEF Commits, Covers
<1>2. /\ \A x : x \in docs.files => x \notin others.files
      /\ \A x : x \in docs.owners => x \notin others.owners
      /\ docs.usage => ~ others.usage
  BY DEF Commits, Overlap
<1>3. Evolves(s, c, others)
  BY DEF Commits
<1> QED
  BY <1>1, <1>2, <1>3 DEF Evolves

\* Nothing to commit leaves the documents alone.
LEMMA MergeNothing ==
  ASSUME NEW s \in Documents, NEW c \in Documents
  PROVE  Merge(c, s, s) = c
<1>1. PICK m : m = Merge(c, s, s)
  OBVIOUS
<1>2. /\ m \in Documents
      /\ \A f \in File : m.entry[f] = c.entry[f]
      /\ \A o \in Owner : m.image[o] = c.image[o]
      /\ m.usage = c.usage
  BY <1>1, MergeParts
<1>3. /\ m.entry \in [File -> Entry \cup {Absent}] /\ c.entry \in [File -> Entry \cup {Absent}]
      /\ m.image \in [Owner -> Image] /\ c.image \in [Owner -> Image]
  BY <1>2, Parts
<1>4. m.entry = c.entry /\ m.image = c.image
  BY <1>2, <1>3
<1> QED
  BY <1>1, <1>2, <1>4, SameDocuments

\* The move of an entry is a move of the entry from what others committed.
LEMMA MergeShift ==
  ASSUME NEW s \in Documents, NEW c \in Documents, NEW n \in Documents,
         NEW others, NEW docs, Commits(s, c, n, others, docs),
         NEW f \in File, NEW e \in Entry \cup {Absent}, Shift(s, n, f, e), e # s.entry[f]
  PROVE  /\ Merge(c, s, n) \in Documents
         /\ Shift(c, Merge(c, s, n), f, e)
         /\ c.entry[f] = s.entry[f] /\ f \in docs.files
         /\ Referenced(c, f) => Referenced(s, f)
         /\ n.usage # s.usage => docs.usage /\ c.usage = s.usage
<1>1. PICK m : m = Merge(c, s, n)
  OBVIOUS
<1>2. /\ m \in Documents
      /\ \A g \in File : m.entry[g] = IF n.entry[g] # s.entry[g] THEN n.entry[g] ELSE c.entry[g]
      /\ \A o \in Owner : m.image[o] = IF n.image[o] # s.image[o] THEN n.image[o] ELSE c.image[o]
      /\ m.usage = IF n.usage # s.usage THEN n.usage ELSE c.usage
  BY <1>1, MergeParts
<1>3. \A g \in File : n.entry[g] = IF g = f THEN e ELSE s.entry[g]
  BY ShiftEntries
<1>4. c.entry[f] = s.entry[f] /\ f \in docs.files /\ (Referenced(c, f) => Referenced(s, f))
      /\ (n.usage # s.usage => docs.usage /\ c.usage = s.usage)
  BY <1>3, Unwritten
<1>5. m.entry = Put(c.entry, f, e)
  <2>1. \A g \in File : m.entry[g] = IF g = f THEN e ELSE c.entry[g]
    BY <1>2, <1>3
  <2>2. m.entry \in [File -> Entry \cup {Absent}] /\ c.entry \in [File -> Entry \cup {Absent}]
    BY <1>2, Parts
  <2> QED
    BY <2>1, <2>2, PutEntryIs
<1>6. m.image = c.image
  <2>1. \A o \in Owner : m.image[o] = c.image[o]
    BY <1>2 DEF Shift
  <2>2. m.image \in [Owner -> Image] /\ c.image \in [Owner -> Image]
    BY <1>2, Parts
  <2> QED
    BY <2>1, <2>2
<1>7. /\ StoredBytes(e, f) \in Int /\ ReservedBytes(e, f) \in Int
      /\ StoredBytes(s.entry[f], f) \in Int /\ ReservedBytes(s.entry[f], f) \in Int
  BY Sizes DEF StoredBytes, ReservedBytes
<1>8. /\ n.usage.stored = s.usage.stored + StoredBytes(e, f) - StoredBytes(s.entry[f], f)
      /\ n.usage.reserved = s.usage.reserved + ReservedBytes(e, f) - ReservedBytes(s.entry[f], f)
  BY DEF Shift
<1>9. /\ s.usage.stored \in Int /\ s.usage.reserved \in Int
      /\ c.usage.stored \in Int /\ c.usage.reserved \in Int
  BY Parts
<1>10. /\ m.usage.stored = c.usage.stored + StoredBytes(e, f) - StoredBytes(s.entry[f], f)
       /\ m.usage.reserved = c.usage.reserved + ReservedBytes(e, f) - ReservedBytes(s.entry[f], f)
  <2>1. CASE n.usage # s.usage
    BY <1>2, <1>4, <1>8, <2>1
  <2>2. CASE n.usage = s.usage
    <3>1. m.usage = c.usage
      BY <1>2, <2>2
    <3>2. StoredBytes(e, f) = StoredBytes(s.entry[f], f)
          /\ ReservedBytes(e, f) = ReservedBytes(s.entry[f], f)
      BY <1>7, <1>8, <1>9, <2>2
    <3> QED
      BY <1>7, <1>9, <3>1, <3>2
  <2> QED
    BY <2>1, <2>2
<1>11. Shift(c, m, f, e)
  BY <1>4, <1>5, <1>6, <1>10 DEF Shift
<1> QED
  BY <1>1, <1>2, <1>4, <1>11

\* Where a move leads is given.
LEMMA ShiftUnique ==
  ASSUME NEW d \in Documents, NEW m \in Documents, NEW n \in Documents,
         NEW f \in File, NEW e \in Entry \cup {Absent}, Shift(d, m, f, e), Shift(d, n, f, e)
  PROVE  m = n
BY SameDocuments DEF Shift

\* A move of an entry evolves the documents as told, if the documents that
\* refer to the file of a new entry are said to be written.
LEMMA ShiftEvolves ==
  ASSUME NEW c \in Documents, NEW m \in Documents, NEW docs,
         NEW f \in File, NEW e \in Entry \cup {Absent}, Shift(c, m, f, e),
         f \in docs.files,
         m.usage # c.usage => docs.usage,
         c.entry[f] = Absent => \A o \in Owner : c.image[o] = f => o \in docs.owners
  PROVE  Evolves(c, m, docs)
<1>1. \A g \in File : m.entry[g] = IF g = f THEN e ELSE c.entry[g]
  BY ShiftEntries
<1>2. m.image = c.image /\ \A g \in File : Referenced(m, g) <=> Referenced(c, g)
  BY SameReferences DEF Shift
<1>3. m.usage = c.usage => Stored(m) = Stored(c) /\ Reserved(m) = Reserved(c)
  <2> SUFFICES ASSUME m.usage = c.usage PROVE Stored(m) = Stored(c) /\ Reserved(m) = Reserved(c)
    OBVIOUS
  <2>1. PICK a \in Int, b \in Int : a = StoredBytes(e, f) /\ b = StoredBytes(c.entry[f], f)
    BY Sizes DEF StoredBytes
  <2>2. PICK x \in Int, y \in Int : x = ReservedBytes(e, f) /\ y = ReservedBytes(c.entry[f], f)
    BY Sizes DEF ReservedBytes
  <2>3. c.usage.stored \in Int /\ c.usage.reserved \in Int
    BY Parts
  <2>4. c.usage.stored = c.usage.stored + a - b /\ c.usage.reserved = c.usage.reserved + x - y
    BY <2>1, <2>2 DEF Shift
  <2>5. a = b /\ x = y
    BY <2>3, <2>4
  <2>6. (e # Absent /\ e.state # "reserved") <=> (c.entry[f] # Absent /\ c.entry[f].state # "reserved")
    <3>1. SizeOf[f] # 0
      BY Sizes
    <3> QED
      BY <2>1, <2>5, <3>1 DEF StoredBytes
  <2>7. (e # Absent /\ e.state = "reserved") <=> (c.entry[f] # Absent /\ c.entry[f].state = "reserved")
    <3>1. SizeOf[f] # 0
      BY Sizes
    <3> QED
      BY <2>2, <2>5, <3>1 DEF ReservedBytes
  <2>8. \A g \in File : (g \in Stored(m) <=> g \in Stored(c)) /\ (g \in Reserved(m) <=> g \in Reserved(c))
    BY <1>1, <2>6, <2>7, CountedIn
  <2>9. /\ Stored(m) \subseteq File /\ Stored(c) \subseteq File
        /\ Reserved(m) \subseteq File /\ Reserved(c) \subseteq File
    BY DEF Stored, Reserved
  <2> QED
    BY <2>8, <2>9
<1>4. \A g \in File : g \notin docs.files => m.entry[g] = c.entry[g]
  BY <1>1
<1>5. \A g \in File, o \in Owner :
        c.image[o] = g /\ c.entry[g] = Absent /\ m.entry[g] # Absent => o \in docs.owners
  BY <1>1
<1> QED
  BY <1>2, <1>3, <1>4, <1>5 DEF Evolves

\* The change of a reference is that of the reference others committed.
LEMMA MergeRefer ==
  ASSUME NEW s \in Documents, NEW c \in Documents, NEW n \in Documents, Sound(s),
         NEW others, NEW docs, Commits(s, c, n, others, docs),
         NEW o \in Owner, NEW i \in Image, Refer(s, n, o, i)
  PROVE  /\ Merge(c, s, n) \in Documents
         /\ Refer(c, Merge(c, s, n), o, i)
         /\ c.image[o] = s.image[o] /\ o \in docs.owners
         /\ i \in File => c.entry[i] = s.entry[i] /\ i \in docs.files
         /\ \A g \in File : InState(c, g, "attached") /\ g = c.image[o] => g \in docs.files
<1>1. PICK m : m = Merge(c, s, n)
  OBVIOUS
<1>2. /\ m \in Documents
      /\ \A g \in File : m.entry[g] = IF n.entry[g] # s.entry[g] THEN n.entry[g] ELSE c.entry[g]
      /\ \A q \in Owner : m.image[q] = IF n.image[q] # s.image[q] THEN n.image[q] ELSE c.image[q]
      /\ m.usage = IF n.usage # s.usage THEN n.usage ELSE c.usage
  BY <1>1, MergeParts
<1>3. \A q \in Owner : n.image[q] = IF q = o THEN i ELSE s.image[q]
  BY ReferImages
<1>4. i # s.image[o] /\ (i \in File => InState(s, i, "uploaded")) /\ n.usage = s.usage
  BY DEF Refer
<1>5. \A g \in File : n.entry[g] =
        IF g = i THEN InOther(s.entry[g], "attached")
        ELSE IF g = s.image[o] /\ InState(s, g, "attached")
             THEN InOther(s.entry[g], "deleting")
        ELSE s.entry[g]
  BY DEF Refer, EntriesAfter
<1>6. c.image[o] = s.image[o] /\ o \in docs.owners
      /\ \A g \in File : s.image[o] = g /\ s.entry[g] = Absent => c.entry[g] = Absent
  <2>1. n.image[o] # s.image[o]
    BY <1>3, <1>4
  <2> QED
    BY <2>1, Unwritten
<1>7. ASSUME i \in File
      PROVE  n.entry[i] # s.entry[i] /\ c.entry[i] = s.entry[i] /\ i \in docs.files
  <2>1. s.entry[i] \in Entry /\ s.entry[i].state = "uploaded"
    BY <1>4, <1>7, Parts DEF InState
  <2>2. n.entry[i] = InOther(s.entry[i], "attached") /\ "attached" \in State
    BY <1>5, <1>7 DEF State
  <2>3. n.entry[i].state = "attached"
    BY <2>1, <2>2, StateSet
  <2>4. n.entry[i] # s.entry[i]
    BY <2>1, <2>3
  <2> QED
    BY <1>7, <2>4, Unwritten
<1>8. ASSUME NEW g \in File, g = s.image[o], InState(s, g, "attached")
      PROVE  n.entry[g] # s.entry[g] /\ c.entry[g] = s.entry[g] /\ g \in docs.files
             /\ n.entry[g] = InOther(s.entry[g], "deleting")
  <2>1. s.entry[g] \in Entry /\ s.entry[g].state = "attached"
    BY <1>8, Parts DEF InState
  <2>2. n.entry[g] = InOther(s.entry[g], "deleting") /\ "deleting" \in State
    BY <1>4, <1>5, <1>8 DEF State
  <2>3. n.entry[g].state = "deleting"
    BY <2>1, <2>2, StateSet
  <2>4. n.entry[g] # s.entry[g]
    BY <2>1, <2>3
  <2> QED
    BY <2>2, <2>4, Unwritten
<1>9. ASSUME NEW g \in File, g = s.image[o], ~ InState(s, g, "attached")
      PROVE  c.entry[g] = Absent /\ s.entry[g] = Absent
  <2>1. Referenced(s, g)
    BY <1>9 DEF Referenced
  <2>2. s.entry[g] = Absent
    BY <1>9, <2>1 DEF Sound, InState
  <2> QED
    BY <1>6, <1>9, <2>2
<1>10. ASSUME NEW g \in File
       PROVE  m.entry[g] = IF g = i THEN InOther(c.entry[g], "attached")
                           ELSE IF g = c.image[o] /\ InState(c, g, "attached")
                                THEN InOther(c.entry[g], "deleting")
                           ELSE c.entry[g]
  <2>1. CASE g = i
    BY <1>2, <1>5, <1>7, <2>1
  <2>2. CASE g # i /\ g = s.image[o] /\ InState(s, g, "attached")
    <3>1. n.entry[g] # s.entry[g] /\ c.entry[g] = s.entry[g]
          /\ n.entry[g] = InOther(s.entry[g], "deleting")
      BY <1>8, <2>2
    <3>2. InState(c, g, "attached")
      BY <2>2, <3>1 DEF InState
    <3> QED
      BY <1>2, <1>6, <2>2, <3>1, <3>2
  <2>3. CASE g # i /\ g = s.image[o] /\ ~ InState(s, g, "attached")
    <3>1. c.entry[g] = Absent /\ n.entry[g] = s.entry[g]
      BY <1>5, <1>9, <2>3
    <3>2. ~ InState(c, g, "attached")
      BY <3>1 DEF InState
    <3> QED
      BY <1>2, <2>3, <3>1, <3>2
  <2>4. CASE g # i /\ g # s.image[o]
    BY <1>2, <1>5, <1>6, <2>4
  <2> QED
    BY <2>1, <2>2, <2>3, <2>4
<1>11. m.entry = EntriesAfter(c, o, i)
  <2>1. m.entry \in [File -> Entry \cup {Absent}]
    BY <1>2, Parts
  <2> QED
    BY <1>10, <2>1, EntriesAfterIs
<1>12. m.image = Put(c.image, o, i)
  <2>1. \A q \in Owner : m.image[q] = IF q = o THEN i ELSE c.image[q]
    BY <1>2, <1>3, <1>4
  <2>2. m.image \in [Owner -> Image] /\ c.image \in [Owner -> Image]
    BY <1>2, Parts
  <2> QED
    BY <2>1, <2>2, PutImageIs
<1>13. i \in File => InState(c, i, "uploaded")
  BY <1>4, <1>7 DEF InState
<1>14. Refer(c, m, o, i)
  BY <1>2, <1>4, <1>6, <1>11, <1>12, <1>13 DEF Refer
<1>15. \A g \in File : InState(c, g, "attached") /\ g = c.image[o] => g \in docs.files
  BY <1>6, <1>8, <1>9 DEF InState
<1> QED
  BY <1>1, <1>2, <1>6, <1>7, <1>14, <1>15

\* Where a change of reference leads is given, and what it writes.
LEMMA ReferUnique ==
  ASSUME NEW d \in Documents, NEW m \in Documents, NEW n \in Documents,
         NEW o \in Owner, NEW i \in Image, Refer(d, m, o, i), Refer(d, n, o, i)
  PROVE  m = n
BY SameDocuments DEF Refer

LEMMA ReferEvolves ==
  ASSUME NEW c \in Documents, NEW m \in Documents, NEW docs,
         NEW o \in Owner, NEW i \in Image, Refer(c, m, o, i),
         o \in docs.owners, i \in File => i \in docs.files,
         \A g \in File : InState(c, g, "attached") /\ g = c.image[o] => g \in docs.files
  PROVE  Evolves(c, m, docs)
<1>1. \A q \in Owner : m.image[q] = IF q = o THEN i ELSE c.image[q]
  BY ReferImages
<1>2. \A g \in File : m.entry[g] =
        IF g = i THEN InOther(c.entry[g], "attached")
        ELSE IF g = c.image[o] /\ InState(c, g, "attached")
             THEN InOther(c.entry[g], "deleting")
        ELSE c.entry[g]
  BY DEF Refer, EntriesAfter
<1>3. \A g \in File : g \notin docs.files => m.entry[g] = c.entry[g]
  BY <1>2
<1>4. \A q \in Owner : q \notin docs.owners => m.image[q] = c.image[q]
  BY <1>1
<1>5. m.usage = c.usage /\ Stored(m) = Stored(c) /\ Reserved(m) = Reserved(c)
  BY ReferCounts DEF Refer
<1>6. \A g \in File : Referenced(m, g) /\ ~ Referenced(c, g) => g \in docs.files
  BY <1>1 DEF Referenced
<1>7. ASSUME NEW g \in File, c.entry[g] = Absent
      PROVE  m.entry[g] = Absent
  <2>1. g # i
    BY <1>7 DEF Refer, InState
  <2> QED
    BY <1>2, <1>7, <2>1 DEF InState
<1> QED
  BY <1>3, <1>4, <1>5, <1>6, <1>7 DEF Evolves

\* A recomputed counter is that of what others committed.
LEMMA MergeRecount ==
  ASSUME NEW s \in Documents, NEW c \in Documents,
         NEW others, NEW docs, Commits(s, c, Recompute(s), others, docs)
  PROVE  /\ Merge(c, s, Recompute(s)) \in {c, Recompute(c)}
         /\ Evolves(c, Merge(c, s, Recompute(s)), docs)
<1>1. PICK n \in Documents : n = Recompute(s) /\ Recount(s, n)
  BY RecomputeRecounts
<1>2. PICK m : m = Merge(c, s, n)
  OBVIOUS
<1>3. /\ m \in Documents
      /\ \A g \in File : m.entry[g] = IF n.entry[g] # s.entry[g] THEN n.entry[g] ELSE c.entry[g]
      /\ \A q \in Owner : m.image[q] = IF n.image[q] # s.image[q] THEN n.image[q] ELSE c.image[q]
      /\ m.usage = IF n.usage # s.usage THEN n.usage ELSE c.usage
  BY <1>2, MergeParts
<1>4. /\ \A g \in File : m.entry[g] = c.entry[g]
      /\ \A q \in Owner : m.image[q] = c.image[q]
  BY <1>1, <1>3 DEF Recount
<1>5. m.entry = c.entry /\ m.image = c.image
  <2>1. /\ m.entry \in [File -> Entry \cup {Absent}] /\ c.entry \in [File -> Entry \cup {Absent}]
        /\ m.image \in [Owner -> Image] /\ c.image \in [Owner -> Image]
    BY <1>3, Parts
  <2> QED
    BY <1>4, <2>1
<1>6. CASE n.usage = s.usage
  <2>1. m = c
    BY <1>3, <1>5, <1>6, SameDocuments
  <2> QED
    BY <1>1, <1>2, <2>1, EvolvesNone
<1>7. CASE n.usage # s.usage
  <2>1. Commits(s, c, n, others, docs)
    BY <1>1
  <2>2. docs.usage /\ Stored(c) = Stored(s) /\ Reserved(c) = Reserved(s)
    BY <1>7, <2>1, Unwritten
  <2>3. m.usage = Expected(c)
    BY <1>1, <1>3, <1>7, <2>2 DEF Recount, Expected
  <2>4. Recount(c, m)
    BY <1>5, <2>3 DEF Recount
  <2>5. PICK k \in Documents : k = Recompute(c) /\ Recount(c, k)
    BY RecomputeRecounts
  <2>6. m = k
    BY <1>3, <2>4, <2>5, SameDocuments DEF Recount
  <2>7. Evolves(c, m, docs)
    BY <1>5, <2>2 DEF Evolves, Referenced
  <2> QED
    BY <1>1, <1>2, <2>5, <2>6, <2>7
<1> QED
  BY <1>6, <1>7

----------------------------------------------------------------------------
(* What a commit may bring about *)

\* Someone knows the file: it has an entry, or a document refers to it.
InUse(d, f) == d.entry[f] # Absent \/ Referenced(d, f)

\* From c to m only drawn was reserved, only landed was marked as uploaded,
\* and no other files than drawn and found came into use.
Keeps(c, m, drawn, landed, found) ==
  /\ \A f \in File : InState(m, f, "reserved") /\ f # drawn => InState(c, f, "reserved")
  /\ \A f \in File : InState(m, f, "uploaded") /\ f # landed => InState(c, f, "uploaded")
  /\ \A f \in File : InUse(m, f) /\ f # drawn /\ f # found => InUse(c, f)

\* It is an operation on the documents c, or none.
Effect(c, m, docs, drawn, landed, found) ==
  /\ m \in Documents
  /\ m = c \/ Operation(c, m)
  /\ Evolves(c, m, docs)
  /\ Keeps(c, m, drawn, landed, found)

LEMMA NoEffect ==
  ASSUME NEW c \in Documents, NEW docs, NEW drawn, NEW landed, NEW found
  PROVE  Effect(c, c, docs, drawn, landed, found)
BY EvolvesNone DEF Effect, Keeps

\* An entry that stays what it is moves nothing.
LEMMA ShiftNone ==
  ASSUME NEW d \in Documents, NEW n \in Documents, NEW f \in File,
         Shift(d, n, f, d.entry[f])
  PROVE  n = d
<1>1. PICK e \in Entry \cup {Absent} : e = d.entry[f]
  BY Parts
<1>2. Shift(d, d, f, e)
  <2>1. d.entry \in [File -> Entry \cup {Absent}]
    BY Parts
  <2>2. \A g \in File : d.entry[g] = IF g = f THEN e ELSE d.entry[g]
    BY <1>1
  <2>3. d.entry = Put(d.entry, f, e)
    BY <2>1, <2>2, PutEntryIs
  <2>4. PICK a \in Int, b \in Int : a = StoredBytes(e, f) /\ b = ReservedBytes(e, f)
    BY Sizes DEF StoredBytes, ReservedBytes
  <2>5. d.usage.stored \in Int /\ d.usage.reserved \in Int
    BY Parts
  <2>6. d.usage.stored = d.usage.stored + a - a /\ d.usage.reserved = d.usage.reserved + b - b
    BY <2>4, <2>5
  <2> QED
    BY <1>1, <2>3, <2>4, <2>6 DEF Shift
<1> QED
  BY <1>1, <1>2, ShiftUnique

\* A committed move of an entry.
LEMMA CommitShift ==
  ASSUME NEW s \in Documents, NEW c \in Documents, NEW n \in Documents,
         NEW others, NEW docs, Commits(s, c, n, others, docs),
         NEW f \in File, NEW e \in Entry \cup {Absent}, Shift(s, n, f, e), e # s.entry[f],
         NEW drawn, NEW landed, NEW found,
         s.entry[f] = Absent => \A o \in Owner : c.image[o] = f => o \in docs.owners,
         e # Absent /\ e.state = "reserved" => f = drawn,
         e # Absent /\ e.state = "uploaded" => f = landed,
         s.entry[f] = Absent => f = drawn \/ f = found \/ Referenced(c, f)
  PROVE  /\ Merge(c, s, n) \in Documents
         /\ Shift(c, Merge(c, s, n), f, e)
         /\ c.entry[f] = s.entry[f]
         /\ Referenced(c, f) => Referenced(s, f)
         /\ n.usage # s.usage => c.usage = s.usage
         /\ Evolves(c, Merge(c, s, n), docs)
         /\ Keeps(c, Merge(c, s, n), drawn, landed, found)
<1>1. PICK m : m = Merge(c, s, n)
  OBVIOUS
<1>2. /\ m \in Documents /\ Shift(c, m, f, e) /\ c.entry[f] = s.entry[f] /\ f \in docs.files
      /\ Referenced(c, f) => Referenced(s, f)
      /\ n.usage # s.usage => docs.usage /\ c.usage = s.usage
  BY <1>1, MergeShift
<1>3. m.usage # c.usage => docs.usage
  <2>1. m.usage = IF n.usage # s.usage THEN n.usage ELSE c.usage
    BY <1>1, MergeParts
  <2> QED
    BY <1>2, <2>1
<1>4. Evolves(c, m, docs)
  BY <1>2, <1>3, ShiftEvolves
<1>5. \A g \in File : m.entry[g] = IF g = f THEN e ELSE c.entry[g]
  BY <1>2, ShiftEntries
<1>6. \A g \in File : Referenced(m, g) <=> Referenced(c, g)
  BY <1>2, SameReferences DEF Shift
<1>7. Keeps(c, m, drawn, landed, found)
  <2>1. \A g \in File : InState(m, g, "reserved") /\ g # drawn => InState(c, g, "reserved")
    BY <1>5 DEF InState
  <2>2. \A g \in File : InState(m, g, "uploaded") /\ g # landed => InState(c, g, "uploaded")
    BY <1>5 DEF InState
  <2>3. \A g \in File : InUse(m, g) /\ g # drawn /\ g # found => InUse(c, g)
    BY <1>2, <1>5, <1>6 DEF InUse
  <2> QED
    BY <2>1, <2>2, <2>3 DEF Keeps
<1> QED
  BY <1>1, <1>2, <1>4, <1>7

\* A committed change of a reference.
LEMMA CommitRefer ==
  ASSUME NEW s \in Documents, NEW c \in Documents, NEW n \in Documents, Sound(s),
         NEW others, NEW docs, Commits(s, c, n, others, docs),
         NEW o \in Owner, NEW i \in Image, Refer(s, n, o, i),
         NEW drawn, NEW landed, NEW found
  PROVE  /\ Merge(c, s, n) \in Documents
         /\ Refer(c, Merge(c, s, n), o, i)
         /\ c.image[o] = s.image[o]
         /\ Evolves(c, Merge(c, s, n), docs)
         /\ Keeps(c, Merge(c, s, n), drawn, landed, found)
<1>1. PICK m : m = Merge(c, s, n)
  OBVIOUS
<1>2. /\ m \in Documents /\ Refer(c, m, o, i)
      /\ c.image[o] = s.image[o] /\ o \in docs.owners
      /\ i \in File => i \in docs.files
      /\ \A g \in File : InState(c, g, "attached") /\ g = c.image[o] => g \in docs.files
  BY <1>1, MergeRefer
<1>3. Evolves(c, m, docs)
  BY <1>2, ReferEvolves
<1>4. \A q \in Owner : m.image[q] = IF q = o THEN i ELSE c.image[q]
  BY <1>2, ReferImages
<1>5. ASSUME NEW g \in File
      PROVE  m.entry[g] = c.entry[g]
             \/ (c.entry[g] # Absent /\ m.entry[g] # Absent /\ m.entry[g].state \in {"attached", "deleting"})
  <2>1. m.entry[g] = IF g = i THEN InOther(c.entry[g], "attached")
                     ELSE IF g = c.image[o] /\ InState(c, g, "attached")
                          THEN InOther(c.entry[g], "deleting")
                     ELSE c.entry[g]
    BY <1>2 DEF Refer, EntriesAfter
  <2>2. g = i => c.entry[g] # Absent
    BY <1>2 DEF Refer, InState
  <2>3. c.entry[g] # Absent =>
          /\ InOther(c.entry[g], "attached").state = "attached" /\ InOther(c.entry[g], "attached") # Absent
          /\ InOther(c.entry[g], "deleting").state = "deleting" /\ InOther(c.entry[g], "deleting") # Absent
    BY Parts, StateSet DEF State
  <2>4. InState(c, g, "attached") => c.entry[g] # Absent
    BY DEF InState
  <2> QED
    BY <2>1, <2>2, <2>3, <2>4
<1>6. Keeps(c, m, drawn, landed, found)
  <2>1. \A g \in File : InState(m, g, "reserved") /\ g # drawn => InState(c, g, "reserved")
    BY <1>5 DEF InState
  <2>2. \A g \in File : InState(m, g, "uploaded") /\ g # landed => InState(c, g, "uploaded")
    BY <1>5 DEF InState
  <2>3. ASSUME NEW g \in File, InUse(m, g) PROVE InUse(c, g)
    <3>1. CASE g = i
      BY <1>2, <3>1 DEF Refer, InState, InUse
    <3>2. CASE g # i
      BY <1>4, <1>5, <2>3, <3>2 DEF InUse, Referenced
    <3> QED
      BY <3>1, <3>2
  <2> QED
    BY <2>1, <2>2, <2>3 DEF Keeps
<1> QED
  BY <1>1, <1>2, <1>3, <1>6

----------------------------------------------------------------------------
(* Each transaction commits the operation of its body *)

\* An upload is reserved within the quota,
LEMMA CommitReserve ==
  ASSUME NEW s \in Documents, NEW c \in Documents, NEW f \in File,
         s.entry[f] = Absent, ~ Referenced(s, f), Fits(s, f),
         NEW others, NEW docs, Commits(s, c, Reserve(s, f), others, docs)
  PROVE  /\ Effect(c, Merge(c, s, Reserve(s, f)), docs, f, Absent, Absent)
         /\ Merge(c, s, Reserve(s, f)) = Reserve(c, f)
         /\ c.entry[f] = Absent /\ ~ Referenced(c, f) /\ Fits(c, f)
         /\ InState(Merge(c, s, Reserve(s, f)), f, "reserved")
<1>1. PICK e \in Entry : /\ e = [state |-> "reserved", source |-> "upload"]
                         /\ Shift(s, Reserve(s, f), f, e)
                         /\ Reserve(s, f) \in Documents
  BY ReserveShift
<1>2. PICK n \in Documents : n = Reserve(s, f)
  BY <1>1
<1>3. Shift(s, n, f, e) /\ e.state = "reserved" /\ e # Absent /\ Commits(s, c, n, others, docs)
  BY <1>1, <1>2, EntryFields
<1>4. ~ Referenced(c, f)
  <2>1. e # s.entry[f]
    BY <1>3
  <2> QED
    BY <1>2, <1>3, <2>1, MergeShift
<1>5. PICK m : m = Merge(c, s, n)
  OBVIOUS
<1>6. /\ m \in Documents /\ Shift(c, m, f, e)
      /\ c.entry[f] = s.entry[f]
      /\ n.usage # s.usage => c.usage = s.usage
      /\ Evolves(c, m, docs) /\ Keeps(c, m, f, Absent, Absent)
  <2>1. e # s.entry[f] /\ \A o \in Owner : c.image[o] # f
    BY <1>3, <1>4 DEF Referenced
  <2> QED
    BY <1>3, <1>5, <2>1, CommitShift
<1>7. PICK k \in Documents : k = Reserve(c, f) /\ Shift(c, k, f, e)
  <2>1. c.entry[f] = Absent
    BY <1>6
  <2> QED
    BY <1>1, <1>4, <2>1, ReserveShift
<1>8. m = k
  BY <1>6, <1>7, ShiftUnique
<1>9. Fits(c, f)
  <2>1. ReservedBytes(e, f) = SizeOf[f] /\ ReservedBytes(s.entry[f], f) = 0
    BY <1>3 DEF ReservedBytes
  <2>2. n.usage.reserved = s.usage.reserved + SizeOf[f] - 0
    BY <1>3, <2>1 DEF Shift
  <2>3. SizeOf[f] \in Int /\ SizeOf[f] > 0 /\ s.usage.reserved \in Int
    BY Sizes, Parts
  <2>4. n.usage # s.usage
    BY <2>2, <2>3
  <2> QED
    BY <1>6, <2>4 DEF Fits
<1>10. Operation(c, m)
  BY <1>4, <1>6, <1>7, <1>8, <1>9 DEF Operation
<1>11. InState(m, f, "reserved")
  <2>1. m.entry[f] = e
    BY <1>6, ShiftEntries
  <2> QED
    BY <1>3, <2>1 DEF InState
<1> QED
  BY <1>2, <1>4, <1>5, <1>6, <1>7, <1>8, <1>9, <1>10, <1>11 DEF Effect

\* marked as uploaded,
LEMMA CommitMark ==
  ASSUME NEW s \in Documents, NEW c \in Documents, NEW f \in File, Sound(s), Sound(c),
         InState(s, f, "reserved"),
         NEW others, NEW docs, Commits(s, c, MarkUploaded(s, f), others, docs)
  PROVE  /\ Effect(c, Merge(c, s, MarkUploaded(s, f)), docs, Absent, f, Absent)
         /\ InState(c, f, "reserved")
<1>1. PICK e \in Entry : /\ e = InOther(s.entry[f], "uploaded")
                         /\ Shift(s, MarkUploaded(s, f), f, e)
                         /\ MarkUploaded(s, f) \in Documents
  BY MarkShift
<1>2. PICK n \in Documents : n = MarkUploaded(s, f)
  BY <1>1
<1>3. /\ Shift(s, n, f, e) /\ e.state = "uploaded" /\ e # s.entry[f] /\ s.entry[f] # Absent
      /\ Commits(s, c, n, others, docs)
  <2>1. s.entry[f] \in Entry /\ s.entry[f] # Absent /\ s.entry[f].state = "reserved"
    BY Parts DEF InState
  <2>2. e.state = "uploaded"
    BY <1>1, <2>1, StateSet DEF State
  <2> QED
    BY <1>1, <1>2, <2>1, <2>2
<1>4. PICK m : m = Merge(c, s, n)
  OBVIOUS
<1>5. /\ m \in Documents /\ Shift(c, m, f, e)
      /\ c.entry[f] = s.entry[f]
      /\ Evolves(c, m, docs) /\ Keeps(c, m, Absent, f, Absent)
  BY <1>3, <1>4, CommitShift
<1>6. InState(c, f, "reserved")
  BY <1>5 DEF InState
<1>7. PICK k \in Documents : k = MarkUploaded(c, f) /\ Shift(c, k, f, e)
  BY <1>1, <1>5, <1>6, MarkShift
<1>8. m = k
  BY <1>5, <1>7, ShiftUnique
<1>9. Operation(c, m)
  BY <1>6, <1>7, <1>8 DEF Operation
<1> QED
  BY <1>2, <1>4, <1>5, <1>6, <1>9 DEF Effect

\* referred to,
LEMMA CommitWrite ==
  ASSUME NEW s \in Documents, NEW c \in Documents, Sound(s), Sound(c),
         NEW o \in Owner, NEW f \in File, NEW prev \in Image, Writable(s, o, f, prev),
         NEW others, NEW docs, Commits(s, c, WriteImage(s, o, f, prev), others, docs)
  PROVE  /\ Effect(c, Merge(c, s, WriteImage(s, o, f, prev)), docs, Absent, Absent, Absent)
         /\ Refer(c, Merge(c, s, WriteImage(s, o, f, prev)), o, f)
         /\ c.image[o] = prev
<1>1. PICK n \in Documents : n = WriteImage(s, o, f, prev) /\ Refer(s, n, o, f)
  BY WriteRefer
<1>2. f \in Image /\ Commits(s, c, n, others, docs)
  BY <1>1 DEF Image
<1>3. PICK m : m = Merge(c, s, n)
  OBVIOUS
<1>4. /\ m \in Documents /\ Refer(c, m, o, f) /\ c.image[o] = s.image[o]
      /\ Evolves(c, m, docs) /\ Keeps(c, m, Absent, Absent, Absent)
  BY <1>1, <1>2, <1>3, CommitRefer
<1>5. Writable(c, o, f, prev)
  BY <1>4 DEF Writable, Refer
<1>6. PICK k \in Documents : k = WriteImage(c, o, f, prev) /\ Refer(c, k, o, f)
  BY <1>5, WriteRefer
<1>7. m = k
  BY <1>2, <1>4, <1>6, ReferUnique
<1>8. Operation(c, m)
  BY <1>5, <1>6, <1>7 DEF Operation
<1> QED
  BY <1>1, <1>3, <1>4, <1>5, <1>8 DEF Effect, Writable

\* and no longer.
LEMMA CommitRemove ==
  ASSUME NEW s \in Documents, NEW c \in Documents, Sound(s),
         NEW o \in Owner, NEW left \in {NoFile, Gone}, left # s.image[o], s.image[o] # Gone,
         NEW others, NEW docs, Commits(s, c, RemoveImage(s, o, left), others, docs)
  PROVE  /\ Effect(c, Merge(c, s, RemoveImage(s, o, left)), docs, Absent, Absent, Absent)
         /\ Refer(c, Merge(c, s, RemoveImage(s, o, left)), o, left)
         /\ c.image[o] = s.image[o]
<1>1. PICK n \in Documents : n = RemoveImage(s, o, left) /\ Refer(s, n, o, left)
  BY RemoveRefer
<1>2. left \in Image /\ Commits(s, c, n, others, docs)
  BY <1>1 DEF Image
<1>3. PICK m : m = Merge(c, s, n)
  OBVIOUS
<1>4. /\ m \in Documents /\ Refer(c, m, o, left) /\ c.image[o] = s.image[o]
      /\ Evolves(c, m, docs) /\ Keeps(c, m, Absent, Absent, Absent)
  BY <1>1, <1>2, <1>3, CommitRefer
<1>5. PICK k \in Documents : k = RemoveImage(c, o, left) /\ Refer(c, k, o, left)
  BY <1>4, RemoveRefer
<1>6. m = k
  BY <1>2, <1>4, <1>5, ReferUnique
<1>7. Operation(c, m)
  BY <1>4, <1>5, <1>6 DEF Operation
<1> QED
  BY <1>1, <1>3, <1>4, <1>7 DEF Effect

\* A failed write discards the upload, if it still is one.
LEMMA CommitDiscard ==
  ASSUME NEW s \in Documents, NEW c \in Documents, NEW f \in File, Sound(s), Sound(c),
         NEW others, NEW docs, Commits(s, c, Discard(s, f), others, docs)
  PROVE  /\ Effect(c, Merge(c, s, Discard(s, f)), docs, Absent, Absent, Absent)
         /\ InState(s, f, "uploaded") => InState(Merge(c, s, Discard(s, f)), f, "deleting")
<1>1. CASE ~ InState(s, f, "uploaded")
  <2>1. Discard(s, f) = s
    BY <1>1 DEF Discard
  <2> QED
    BY <1>1, <2>1, MergeNothing, NoEffect
<1>2. CASE InState(s, f, "uploaded")
  <2>1. PICK e \in Entry : /\ e = InOther(s.entry[f], "deleting")
                           /\ Shift(s, Discard(s, f), f, e)
                           /\ Discard(s, f) \in Documents
    BY <1>2, DiscardShift
  <2>2. PICK n \in Documents : n = Discard(s, f)
    BY <2>1
  <2>3. /\ Shift(s, n, f, e) /\ e.state = "deleting" /\ e # s.entry[f] /\ s.entry[f] # Absent
        /\ e # Absent /\ Commits(s, c, n, others, docs)
    <3>1. s.entry[f] \in Entry /\ s.entry[f] # Absent /\ s.entry[f].state = "uploaded"
      BY <1>2, Parts DEF InState
    <3>2. e.state = "deleting"
      BY <2>1, <3>1, StateSet DEF State
    <3> QED
      BY <2>1, <2>2, <3>1, <3>2, EntryFields
  <2>4. PICK m : m = Merge(c, s, n)
    OBVIOUS
  <2>5. /\ m \in Documents /\ Shift(c, m, f, e)
        /\ c.entry[f] = s.entry[f]
        /\ Evolves(c, m, docs) /\ Keeps(c, m, Absent, Absent, Absent)
    BY <2>3, <2>4, CommitShift
  <2>6. InState(c, f, "uploaded")
    BY <1>2, <2>5 DEF InState
  <2>7. PICK k \in Documents : k = Discard(c, f) /\ Shift(c, k, f, e)
    BY <2>1, <2>5, <2>6, DiscardShift
  <2>8. m = k
    BY <2>5, <2>7, ShiftUnique
  <2>9. Operation(c, m)
    BY <2>7, <2>8 DEF Operation
  <2>10. InState(m, f, "deleting")
    <3>1. m.entry[f] = e
      BY <2>5, ShiftEntries
    <3> QED
      BY <2>3, <3>1 DEF InState
  <2> QED
    BY <2>2, <2>4, <2>5, <2>9, <2>10 DEF Effect
<1> QED
  BY <1>1, <1>2

\* A deleted file gives its bytes back, once.
LEMMA CommitRelease ==
  ASSUME NEW s \in Documents, NEW c \in Documents, NEW f \in File,
         InState(s, f, "deleting"),
         NEW others, NEW docs, Commits(s, c, Release(s, f), others, docs)
  PROVE  Effect(c, Merge(c, s, Release(s, f)), docs, Absent, Absent, Absent)
<1>1. PICK e \in Entry \cup {Absent} : e = Absent
  OBVIOUS
<1>2. PICK n \in Documents : n = Release(s, f) /\ Shift(s, n, f, e)
  BY <1>1, ReleaseShift
<1>3. e # s.entry[f] /\ s.entry[f] # Absent /\ Commits(s, c, n, others, docs)
  BY <1>1, <1>2 DEF InState
<1>4. PICK m : m = Merge(c, s, n)
  OBVIOUS
<1>5. /\ m \in Documents /\ Shift(c, m, f, e)
      /\ c.entry[f] = s.entry[f]
      /\ Evolves(c, m, docs) /\ Keeps(c, m, Absent, Absent, Absent)
  BY <1>1, <1>2, <1>3, <1>4, CommitShift
<1>6. InState(c, f, "deleting")
  BY <1>5 DEF InState
<1>7. PICK k \in Documents : k = Release(c, f) /\ Shift(c, k, f, e)
  BY <1>1, <1>6, ReleaseShift
<1>8. m = k
  BY <1>5, <1>7, ShiftUnique
<1>9. Operation(c, m)
  BY <1>6, <1>7, <1>8 DEF Operation
<1> QED
  BY <1>2, <1>4, <1>5, <1>9 DEF Effect

\* The recovery takes an entry, which is to be deleted; it may have been taken
\* already when the transaction began.
LEMMA CommitRecover ==
  ASSUME NEW s \in Documents, NEW c \in Documents, NEW f \in File, Sound(s), Sound(c),
         s.entry[f] # Absent, s.entry[f].state # "attached",
         NEW others, NEW docs, Commits(s, c, Recover(s, f), others, docs)
  PROVE  /\ Effect(c, Merge(c, s, Recover(s, f)), docs, Absent, Absent, Absent)
         /\ \/ InState(Merge(c, s, Recover(s, f)), f, "deleting")
            \/ Merge(c, s, Recover(s, f)) = c /\ InState(s, f, "deleting")
<1>1. PICK e \in Entry : /\ e = InOther(s.entry[f], "deleting")
                         /\ Shift(s, Recover(s, f), f, e)
                         /\ Recover(s, f) \in Documents
  BY RecoverShift
<1>2. PICK n \in Documents : n = Recover(s, f)
  BY <1>1
<1>3. /\ Shift(s, n, f, e) /\ e.state = "deleting" /\ e # Absent
      /\ Commits(s, c, n, others, docs)
  <2>1. s.entry[f] \in Entry
    BY Parts
  <2>2. e.state = "deleting"
    BY <1>1, <2>1, StateSet DEF State
  <2> QED
    BY <1>1, <1>2, <2>2, EntryFields
<1>4. PICK m : m = Merge(c, s, n)
  OBVIOUS
<1>5. CASE e = s.entry[f]
  <2>1. n = s
    BY <1>3, <1>5, ShiftNone
  <2>2. m = c
    BY <1>4, <2>1, MergeNothing
  <2>3. InState(s, f, "deleting")
    BY <1>3, <1>5 DEF InState
  <2> QED
    BY <1>2, <1>4, <2>2, <2>3, NoEffect
<1>6. CASE e # s.entry[f]
  <2>1. /\ m \in Documents /\ Shift(c, m, f, e)
        /\ c.entry[f] = s.entry[f]
        /\ Evolves(c, m, docs) /\ Keeps(c, m, Absent, Absent, Absent)
    BY <1>3, <1>4, <1>6, CommitShift
  <2>2. PICK k \in Documents : k = Recover(c, f) /\ Shift(c, k, f, e)
    BY <1>1, <2>1, RecoverShift
  <2>3. m = k
    BY <2>1, <2>2, ShiftUnique
  <2>4. Operation(c, m)
    BY <2>1, <2>2, <2>3 DEF Operation
  <2>5. InState(m, f, "deleting")
    <3>1. m.entry[f] = e
      BY <2>1, ShiftEntries
    <3> QED
      BY <1>3, <3>1 DEF InState
  <2> QED
    BY <1>2, <1>4, <2>1, <2>4, <2>5 DEF Effect
<1> QED
  BY <1>5, <1>6

\* The documents that refer to a file still do when their lock holds.
LEMMA LockHolds ==
  ASSUME NEW s \in Documents, NEW c \in Documents, NEW n \in Documents, Sound(c),
         NEW others, NEW docs, Commits(s, c, n, others, docs),
         NEW f \in File, n.entry[f] # s.entry[f], Lock(s, f) \subseteq docs.owners
  PROVE  /\ Referenced(c, f) <=> Referenced(s, f)
         /\ \A o \in Owner : c.image[o] = f => o \in docs.owners
<1>1. Referenced(c, f) => Referenced(s, f)
  BY Unwritten
<1>2. \A o \in Owner : s.image[o] = f => o \in docs.owners /\ c.image[o] = f
  <2>1. \A o \in Owner : s.image[o] = f => o \in docs.owners
    BY DEF Lock
  <2>2. \A o \in Owner : o \in docs.owners => c.image[o] = s.image[o]
    BY Unwritten
  <2> QED
    BY <2>1, <2>2
<1>3. Referenced(s, f) => Referenced(c, f)
  BY <1>2 DEF Referenced
<1>4. ASSUME NEW o \in Owner, c.image[o] = f
      PROVE  o \in docs.owners
  <2>1. PICK q \in Owner : s.image[q] = f
    BY <1>1, <1>4 DEF Referenced
  <2>2. o = q
    BY <1>2, <1>4, <2>1 DEF Sound
  <2> QED
    BY <1>2, <2>1, <2>2
<1> QED
  BY <1>1, <1>3, <1>4

\* A used file without entry is counted, by a transaction that writes the
\* documents that refer to it,
LEMMA CommitExisting ==
  ASSUME NEW s \in Documents, NEW c \in Documents, NEW f \in File, Sound(c),
         s.entry[f] = Absent, Referenced(s, f),
         NEW others, NEW docs, Commits(s, c, CountExisting(s, f), others, docs),
         Lock(s, f) \subseteq docs.owners
  PROVE  Effect(c, Merge(c, s, CountExisting(s, f)), docs, Absent, Absent, f)
<1>1. PICK e \in Entry : /\ e = [state |-> "attached", source |-> "initialization"]
                         /\ Shift(s, CountExisting(s, f), f, e)
                         /\ CountExisting(s, f) \in Documents
  BY ExistingShift
<1>2. PICK n \in Documents : n = CountExisting(s, f)
  BY <1>1
<1>3. /\ Shift(s, n, f, e) /\ e.state = "attached" /\ e # Absent /\ e # s.entry[f]
      /\ Commits(s, c, n, others, docs)
  BY <1>1, <1>2, EntryFields
<1>4. PICK m : m = Merge(c, s, n)
  OBVIOUS
<1>5. Referenced(c, f) /\ \A o \in Owner : c.image[o] = f => o \in docs.owners
  <2>1. n.entry[f] # s.entry[f]
    BY <1>3, ShiftEntries
  <2> QED
    BY <1>3, <2>1, LockHolds
<1>6. /\ m \in Documents /\ Shift(c, m, f, e)
      /\ c.entry[f] = s.entry[f]
      /\ Evolves(c, m, docs) /\ Keeps(c, m, Absent, Absent, f)
  BY <1>3, <1>4, <1>5, CommitShift
<1>7. PICK k \in Documents : k = CountExisting(c, f) /\ Shift(c, k, f, e)
  BY <1>1, <1>5, <1>6, ExistingShift
<1>8. m = k
  BY <1>6, <1>7, ShiftUnique
<1>9. Operation(c, m)
  BY <1>5, <1>6, <1>7, <1>8 DEF Operation
<1> QED
  BY <1>2, <1>4, <1>6, <1>9 DEF Effect

\* and so is one found in the bucket.
LEMMA CommitFound ==
  ASSUME NEW s \in Documents, NEW c \in Documents, NEW f \in File, Sound(c),
         s.entry[f] = Absent,
         NEW others, NEW docs, Commits(s, c, CountUntracked(s, f), others, docs),
         Lock(s, f) \subseteq docs.owners
  PROVE  Effect(c, Merge(c, s, CountUntracked(s, f)), docs, Absent, Absent, f)
<1>1. PICK state \in {"attached", "deleting"} :
        state = IF Referenced(s, f) THEN "attached" ELSE "deleting"
  OBVIOUS
<1>2. PICK e \in Entry : /\ e = [state |-> state, source |-> "reconciliation"]
                         /\ Shift(s, CountUntracked(s, f), f, e)
                         /\ CountUntracked(s, f) \in Documents
  BY <1>1, FoundShift
<1>3. PICK n \in Documents : n = CountUntracked(s, f)
  BY <1>2
<1>4. /\ Shift(s, n, f, e) /\ e.state = state /\ e # Absent /\ e # s.entry[f]
      /\ Commits(s, c, n, others, docs)
  BY <1>2, <1>3, EntryFields
<1>5. PICK m : m = Merge(c, s, n)
  OBVIOUS
<1>6. /\ Referenced(c, f) <=> Referenced(s, f)
      /\ \A o \in Owner : c.image[o] = f => o \in docs.owners
  <2>1. n.entry[f] # s.entry[f]
    BY <1>4, ShiftEntries
  <2> QED
    BY <1>4, <2>1, LockHolds
<1>7. /\ m \in Documents /\ Shift(c, m, f, e)
      /\ c.entry[f] = s.entry[f]
      /\ Evolves(c, m, docs) /\ Keeps(c, m, Absent, Absent, f)
  <2>1. e.state # "reserved" /\ e.state # "uploaded"
    BY <1>4
  <2> QED
    BY <1>4, <1>5, <1>6, <2>1, CommitShift
<1>8. PICK k \in Documents : k = CountUntracked(c, f) /\ Shift(c, k, f, e)
  BY <1>1, <1>2, <1>6, <1>7, FoundShift
<1>9. m = k
  BY <1>7, <1>8, ShiftUnique
<1>10. Operation(c, m)
  BY <1>7, <1>8, <1>9 DEF Operation
<1> QED
  BY <1>3, <1>5, <1>7, <1>10 DEF Effect

\* An attached entry without reference is dropped,
LEMMA CommitOrphan ==
  ASSUME NEW s \in Documents, NEW c \in Documents, NEW f \in File, Orphan(s, f),
         NEW others, NEW docs, Commits(s, c, SetState(s, f, "deleting"), others, docs)
  PROVE  Effect(c, Merge(c, s, SetState(s, f, "deleting")), docs, Absent, Absent, Absent)
<1>1. PICK e \in Entry : /\ e = InOther(s.entry[f], "deleting")
                         /\ Shift(s, SetState(s, f, "deleting"), f, e)
                         /\ SetState(s, f, "deleting") \in Documents
  BY OrphanShift
<1>2. PICK n \in Documents : n = SetState(s, f, "deleting")
  BY <1>1
<1>3. /\ Shift(s, n, f, e) /\ e.state = "deleting" /\ e # s.entry[f] /\ s.entry[f] # Absent
      /\ e # Absent /\ Commits(s, c, n, others, docs)
  <2>1. s.entry[f] \in Entry /\ s.entry[f] # Absent /\ s.entry[f].state = "attached"
    BY Parts DEF Orphan, InState
  <2>2. e.state = "deleting"
    BY <1>1, <2>1, StateSet DEF State
  <2> QED
    BY <1>1, <1>2, <2>1, <2>2, EntryFields
<1>4. PICK m : m = Merge(c, s, n)
  OBVIOUS
<1>5. /\ m \in Documents /\ Shift(c, m, f, e)
      /\ c.entry[f] = s.entry[f] /\ (Referenced(c, f) => Referenced(s, f))
      /\ Evolves(c, m, docs) /\ Keeps(c, m, Absent, Absent, Absent)
  BY <1>3, <1>4, CommitShift
<1>6. Orphan(c, f)
  BY <1>5 DEF Orphan, InState
<1>7. PICK k \in Documents : k = SetState(c, f, "deleting") /\ Shift(c, k, f, e)
  BY <1>1, <1>5, <1>6, OrphanShift
<1>8. m = k
  BY <1>5, <1>7, ShiftUnique
<1>9. Operation(c, m)
  BY <1>6, <1>7, <1>8 DEF Operation
<1> QED
  BY <1>2, <1>4, <1>5, <1>9 DEF Effect

\* and the counter is recomputed.
LEMMA CommitRecount ==
  ASSUME NEW s \in Documents, NEW c \in Documents,
         NEW others, NEW docs, Commits(s, c, Recompute(s), others, docs)
  PROVE  Effect(c, Merge(c, s, Recompute(s)), docs, Absent, Absent, Absent)
<1>1. PICK m : m = Merge(c, s, Recompute(s))
  OBVIOUS
<1>2. m \in {c, Recompute(c)} /\ Evolves(c, m, docs)
  BY <1>1, MergeRecount
<1>3. m \in Documents /\ m.entry = c.entry /\ m.image = c.image
  BY <1>2, RecomputeRecounts DEF Recount
<1>4. Keeps(c, m, Absent, Absent, Absent)
  BY <1>3 DEF Keeps, InState, InUse, Referenced
<1> QED
  BY <1>1, <1>2, <1>3, <1>4 DEF Effect, Operation

----------------------------------------------------------------------------
(* What the tasks rely on *)

\* No document refers to the file, and none will: its entry is to be deleted,
\* or there is none;
Condemned(d, f) == ~ Referenced(d, f) /\ (d.entry[f] = Absent \/ d.entry[f].state = "deleting")

\* or its upload is not done.
Unattached(d, f) ==
  ~ Referenced(d, f) /\ ~ InState(d, f, "uploaded") /\ ~ InState(d, f, "attached")

\* A step of a commit: what it keeps of that.
LEMMA EffectStep ==
  ASSUME NEW c \in Documents, NEW m, NEW docs, NEW drawn, NEW landed, NEW found,
         Sound(c), Effect(c, m, docs, drawn, landed, found)
  PROVE  /\ m \in Documents /\ DocStep(c, m) /\ Sound(m)
         /\ \A f \in File : Misfiled(m, f) => Misfiled(c, f)
<1>1. m \in Documents /\ DocStep(c, m)
  BY OperationStep DEF Effect, DocStep
<1> QED
  BY <1>1, StepSound

\* A document refers to a file only after its upload,
LEMMA StepReferences ==
  ASSUME NEW c \in Documents, NEW m \in Documents, DocStep(c, m), NEW f \in File,
         Referenced(m, f)
  PROVE  Referenced(c, f) \/ InState(c, f, "uploaded")
<1>1. ASSUME NEW o \in Owner, NEW i \in Image, Refer(c, m, o, i)
      PROVE  Referenced(c, f) \/ InState(c, f, "uploaded")
  <2>1. \A q \in Owner : m.image[q] = IF q = o THEN i ELSE c.image[q]
    BY <1>1, ReferImages
  <2> QED
    BY <1>1, <2>1 DEF Refer, Referenced
<1>2. (m.image = c.image) => Referenced(c, f)
  BY SameReferences
<1> QED
  BY <1>1, <1>2 DEF DocStep, Shift, Recount

\* the entries of a commit change along their life,
LEMMA StepEntries ==
  ASSUME NEW c \in Documents, NEW m \in Documents, DocStep(c, m), Sound(c), NEW f \in File
  PROVE  \/ m.entry[f] = c.entry[f]
         \/ m.entry[f] = Absent /\ InState(c, f, "deleting")
         \/ m.entry[f] # Absent /\ m.entry[f].state = "reserved" /\ c.entry[f] = Absent
         \/ m.entry[f] # Absent /\ m.entry[f].state = "uploaded" /\ InState(c, f, "reserved")
         \/ m.entry[f] # Absent /\ m.entry[f].state = "attached" /\ Referenced(m, f)
         \/ m.entry[f] # Absent /\ m.entry[f].state = "deleting"
<1>1. ASSUME NEW g \in File, NEW e \in Entry \cup {Absent}, Shift(c, m, g, e), Legal(c, g, e)
      PROVE  \/ m.entry[f] = c.entry[f]
             \/ m.entry[f] = Absent /\ InState(c, f, "deleting")
             \/ m.entry[f] # Absent /\ m.entry[f].state = "reserved" /\ c.entry[f] = Absent
             \/ m.entry[f] # Absent /\ m.entry[f].state = "uploaded" /\ InState(c, f, "reserved")
             \/ m.entry[f] # Absent /\ m.entry[f].state = "attached" /\ Referenced(m, f)
             \/ m.entry[f] # Absent /\ m.entry[f].state = "deleting"
  <2>1. m.entry[f] = IF f = g THEN e ELSE c.entry[f]
    BY <1>1, ShiftEntries
  <2>2. Referenced(m, f) <=> Referenced(c, f)
    BY <1>1, SameReferences DEF Shift
  <2>3. e # Absent => e.state \in State
    BY EntryFields
  <2> QED
    BY <1>1, <2>1, <2>2, <2>3 DEF Legal, State
<1>2. ASSUME NEW o \in Owner, NEW i \in Image, Refer(c, m, o, i)
      PROVE  \/ m.entry[f] = c.entry[f]
             \/ m.entry[f] # Absent /\ m.entry[f].state = "attached" /\ Referenced(m, f)
             \/ m.entry[f] # Absent /\ m.entry[f].state = "deleting"
  <2>1. m.entry[f] = IF f = i THEN InOther(c.entry[f], "attached")
                     ELSE IF f = c.image[o] /\ InState(c, f, "attached")
                          THEN InOther(c.entry[f], "deleting")
                     ELSE c.entry[f]
    BY <1>2 DEF Refer, EntriesAfter
  <2>2. f = i => c.entry[f] # Absent
    BY <1>2 DEF Refer, InState
  <2>3. c.entry[f] # Absent =>
          /\ InOther(c.entry[f], "attached").state = "attached" /\ InOther(c.entry[f], "attached") # Absent
          /\ InOther(c.entry[f], "deleting").state = "deleting" /\ InOther(c.entry[f], "deleting") # Absent
    BY Parts, StateSet DEF State
  <2>4. InState(c, f, "attached") => c.entry[f] # Absent
    BY DEF InState
  <2>5. f = i => Referenced(m, f)
    <3>1. \A q \in Owner : m.image[q] = IF q = o THEN i ELSE c.image[q]
      BY <1>2, ReferImages
    <3> QED
      BY <3>1 DEF Referenced
  <2> QED
    BY <2>1, <2>2, <2>3, <2>4, <2>5
<1> QED
  BY <1>1, <1>2 DEF DocStep, Recount

\* and what is condemned or not uploaded stays so, but for the upload at work.
LEMMA EffectKeeps ==
  ASSUME NEW c \in Documents, NEW m, NEW docs, NEW drawn, NEW landed, NEW found,
         Sound(c), Effect(c, m, docs, drawn, landed, found), NEW f \in File
  PROVE  /\ Condemned(c, f) /\ f # drawn => Condemned(m, f)
         /\ Unattached(c, f) /\ f # landed => Unattached(m, f)
<1>1. m \in Documents /\ DocStep(c, m) /\ Sound(m)
  BY EffectStep
<1>2. Keeps(c, m, drawn, landed, found)
  BY DEF Effect
<1>3. Referenced(m, f) => Referenced(c, f) \/ InState(c, f, "uploaded")
  BY <1>1, StepReferences
<1>4. \/ m.entry[f] = c.entry[f]
      \/ m.entry[f] = Absent /\ InState(c, f, "deleting")
      \/ m.entry[f] # Absent /\ m.entry[f].state = "reserved" /\ c.entry[f] = Absent
      \/ m.entry[f] # Absent /\ m.entry[f].state = "uploaded" /\ InState(c, f, "reserved")
      \/ m.entry[f] # Absent /\ m.entry[f].state = "attached" /\ Referenced(m, f)
      \/ m.entry[f] # Absent /\ m.entry[f].state = "deleting"
  BY <1>1, StepEntries
<1>5. ASSUME Condemned(c, f), f # drawn PROVE Condemned(m, f)
  <2>1. ~ Referenced(m, f)
    BY <1>3, <1>5 DEF Condemned, InState
  <2>2. m.entry[f] # Absent => m.entry[f].state # "reserved"
    BY <1>2, <1>5 DEF Keeps, InState, Condemned
  <2> QED
    BY <1>4, <1>5, <2>1, <2>2 DEF Condemned, InState
<1>6. ASSUME Unattached(c, f), f # landed PROVE Unattached(m, f)
  <2>1. ~ Referenced(m, f)
    BY <1>3, <1>6 DEF Unattached
  <2>2. ~ InState(m, f, "uploaded")
    BY <1>2, <1>6 DEF Keeps, Unattached
  <2> QED
    BY <1>4, <1>6, <2>1, <2>2 DEF Unattached, InState
<1> QED
  BY <1>5, <1>6

\* The file that a document no longer refers to is condemned.
LEMMA ReferCondemns ==
  ASSUME NEW d \in Documents, NEW n \in Documents, NEW o \in Owner, NEW i \in Image,
         Refer(d, n, o, i), Sound(d), d.image[o] \in File
  PROVE  Condemned(n, d.image[o])
<1>1. PICK f \in File : f = d.image[o]
  OBVIOUS
<1>2. \A q \in Owner : n.image[q] = IF q = o THEN i ELSE d.image[q]
  BY ReferImages
<1>3. f # i
  BY <1>1 DEF Refer
<1>4. ~ Referenced(n, f)
  BY <1>1, <1>2, <1>3 DEF Referenced, Sound
<1>5. n.entry[f] = IF InState(d, f, "attached") THEN InOther(d.entry[f], "deleting") ELSE d.entry[f]
  BY <1>1, <1>3 DEF Refer, EntriesAfter
<1>6. d.entry[f] # Absent => InState(d, f, "attached")
  BY <1>1 DEF Sound, Referenced, InState
<1>7. d.entry[f] # Absent => InOther(d.entry[f], "deleting").state = "deleting"
  BY Parts, StateSet DEF State
<1>8. d.entry[f] = Absent => ~ InState(d, f, "attached")
  BY DEF InState
<1> QED
  BY <1>1, <1>4, <1>5, <1>6, <1>7, <1>8 DEF Condemned

----------------------------------------------------------------------------
(* The inductive invariant *)

\* Stages of an upload before its document is written, and stages of a pass
\* or a request that work on the file aimed at.
Uploads == {"put", "mark", "abandon", "undo"}
Aims    == {"decide", "delete", "release", "fetch", "count", "orphan"}

\* The key of the upload is drawn, and nobody else may know it.
Drawn(stage, w) ==
  /\ stage # "idle"
  /\ w.kind \in {"create", "replace"}
  /\ stage = "reserve" \/ w.freed \in {"none", "some"}

Known == used \ {f \in File : \E r \in Task : Drawn(pc[r], task[r]) /\ task[r].file = f}

\* What a task holds at each stage ...
Shape(stage, w) ==
  /\ w \in Work
  /\ stage \in {"reserve", "write", "discard"} \cup Uploads => w.file \in File
  /\ stage = "read" => w.kind = "clear" \/ w.file \in File
  /\ w.kind \in {"create", "replace"} => w.file \in File /\ w.owner \in Owner
  /\ stage = "reserve" => w.kind \in {"create", "replace"}
  /\ stage \in {"read", "write", "remove"} \cup Uploads => w.owner \in Owner
  /\ stage = "write" => w.prev \in Image
  /\ stage = "remove" /\ w.kind # "purge" => w.prev \in File
  /\ stage = "decide" => w.seen \in State \ {"attached"}
  /\ w.freed \in {"none", "some"} =>
       stage \in {"pick"} \cup Aims /\ w.kind \in {"create", "replace"}

\* ... and what is the case of the files it works on.
Placed(d, b, us, k, stage, w) ==
  /\ w.file \in us \cup {Absent}
  /\ stage \in Aims => w.target \in k
  /\ \A e \in w.todo : e[1] \in k
  /\ stage = "delete" => Condemned(d, w.target)
  /\ stage \in Uploads => Unattached(d, w.file)
  /\ stage = "mark" /\ InState(d, w.file, "reserved") => w.file \in b

\* The snapshot of a transaction: what others wrote since is known.
SnapOK(d, k, s, docs) ==
  /\ Sound(s)
  /\ \A f \in File : InUse(s, f) => f \in k
  /\ Evolves(s, d, docs)
  /\ \A f \in File : InState(s, f, "deleting") => Condemned(d, f)

\* The documents and the bucket: what is referred to, or may be, is there.
Files(d, b, u, k) ==
  /\ Sound(d)
  /\ \A f \in File : InUse(d, f) => f \in k
  /\ b \subseteq k /\ u \subseteq k
  /\ \A f \in File : InState(d, f, "uploaded") \/ Referenced(d, f) => f \in b

\* No two tasks upload the same file.
Alone ==
  \A r, q \in Task : pc[r] # "idle" /\ pc[q] # "idle" /\ task[r].file \in File
                       /\ task[r].file = task[q].file => r = q

Core ==
  /\ Files(db, bucket, puts, Known)
  /\ Alone
  /\ \A r \in Task : pc[r] # "idle" =>
       Shape(pc[r], task[r]) /\ Placed(db, bucket, used, Known, pc[r], task[r])
  /\ \A r \in Task : snap[r] # Absent => SnapOK(db, Known, snap[r], dirty[r])

Typed ==
  task \in [Task -> Work \cup {Absent}] /\ snap \in [Task -> Documents \cup {Absent}]

Inv == TypeOK /\ Typed /\ Core

\* What a step does to the files of others than own.
Moves(d, b, k, n, a, l, own) ==
  /\ k \subseteq l
  /\ \A f \in File : f \in k /\ Condemned(d, f) => Condemned(n, f)
  /\ \A f \in File : f # own /\ Unattached(d, f) => Unattached(n, f)
  /\ \A f \in File : f # own /\ InState(n, f, "reserved") => InState(d, f, "reserved")
  /\ \A f \in File : f # own /\ f \in b /\ f \notin a => Condemned(d, f)

\* Files stay known until a key is drawn.
LEMMA KnownGrows ==
  ASSUME NEW r \in Task, used \subseteq used',
         \A q \in Task : q # r => pc'[q] = pc[q] /\ task'[q] = task[q],
         Drawn(pc'[r], task'[r]) =>
           (Drawn(pc[r], task[r]) /\ task'[r].file = task[r].file) \/ task'[r].file \notin used
  PROVE  Known \subseteq Known'
<1> SUFFICES ASSUME NEW f \in Known PROVE f \in Known'
  OBVIOUS
<1>1. f \in used /\ f \in used' /\ \A q \in Task : f \in File /\ Drawn(pc[q], task[q]) => task[q].file # f
  BY DEF Known
<1>2. ASSUME NEW q \in Task, f \in File, Drawn(pc'[q], task'[q]), task'[q].file = f
      PROVE  FALSE
  <2>1. CASE q # r
    BY <1>1, <1>2, <2>1
  <2>2. CASE q = r
    BY <1>1, <1>2, <2>2
  <2> QED
    BY <2>1, <2>2
<1> QED
  BY <1>1, <1>2 DEF Known

\* A step of another task leaves the files of a task where they are.
LEMMA PlacedKeeps ==
  ASSUME NEW d, NEW b, NEW k, NEW n, NEW a, NEW l, NEW own, Moves(d, b, k, n, a, l, own),
         NEW us, NEW vs, us \subseteq vs, k \subseteq File,
         NEW stage, NEW w, Shape(stage, w), Placed(d, b, us, k, stage, w),
         w.file \in File => w.file # own
  PROVE  Placed(n, a, vs, l, stage, w)
<1>1. w.file \in vs \cup {Absent} /\ (stage \in Aims => w.target \in l)
      /\ \A e \in w.todo : e[1] \in l
  BY DEF Placed, Moves
<1>2. stage = "delete" => Condemned(n, w.target)
  BY DEF Placed, Moves, Aims
<1>3. stage \in Uploads => w.file \in File /\ Unattached(n, w.file)
  BY DEF Placed, Moves, Shape
<1>4. stage = "mark" /\ InState(n, w.file, "reserved") => w.file \in a
  <2> SUFFICES ASSUME stage = "mark", InState(n, w.file, "reserved") PROVE w.file \in a
    OBVIOUS
  <2>1. w.file \in File /\ w.file # own
    BY <1>3 DEF Uploads
  <2>2. InState(d, w.file, "reserved") /\ w.file \in b
    BY <2>1 DEF Moves, Placed
  <2>3. ~ Condemned(d, w.file)
    BY <2>2 DEF Condemned, InState
  <2> QED
    BY <2>1, <2>2, <2>3 DEF Moves
<1> QED
  BY <1>1, <1>2, <1>3, <1>4 DEF Placed

\* And so it stays with a snapshot, which is told what is written.
LEMMA SnapKeeps ==
  ASSUME NEW d, NEW b, NEW k, NEW n, NEW a, NEW l, NEW own, Moves(d, b, k, n, a, l, own),
         NEW s, NEW docs, NEW more, SnapOK(d, k, s, docs), Evolves(s, n, more)
  PROVE  SnapOK(n, l, s, more)
<1>1. \A f \in File : InUse(s, f) => f \in k /\ f \in l
  BY DEF SnapOK, Moves
<1>2. \A f \in File : InState(s, f, "deleting") => InUse(s, f)
  BY DEF InState, InUse
<1> QED
  BY <1>1, <1>2 DEF SnapOK, Moves

\* What a step of task r has to show for the invariant.
LEMMA Advance ==
  ASSUME Inv, NEW r \in Task, NEW own,
         Moves(db, bucket, Known, db', bucket', Known', own),
         Files(db', bucket', puts', Known'), used \subseteq used',
         \A q \in Task : q # r => pc'[q] = pc[q] /\ task'[q] = task[q],
         \A q \in Task : q # r /\ pc[q] # "idle" /\ task[q].file \in File =>
           task[q].file # own /\ (pc'[r] # "idle" => task[q].file # task'[r].file),
         pc'[r] # "idle" =>
           Shape(pc'[r], task'[r]) /\ Placed(db', bucket', used', Known', pc'[r], task'[r]),
         \A q \in Task : snap'[q] # Absent =>
           SnapOK(db', Known', snap'[q], dirty'[q])
  PROVE  Core'
<1>1. Known \subseteq File
  BY DEF Inv, TypeOK, Known
<1>2. ASSUME NEW q \in Task, pc'[q] # "idle"
      PROVE  Shape(pc'[q], task'[q]) /\ Placed(db', bucket', used', Known', pc'[q], task'[q])
  <2>1. CASE q = r
    BY <1>2, <2>1
  <2>2. CASE q # r
    <3>1. pc'[q] = pc[q] /\ task'[q] = task[q] /\ pc[q] # "idle"
      BY <1>2, <2>2
    <3>2. Shape(pc[q], task[q]) /\ Placed(db, bucket, used, Known, pc[q], task[q])
      BY <3>1 DEF Inv, Core
    <3>3. task[q].file \in File => task[q].file # own
      BY <2>2, <3>1
    <3>4. Placed(db', bucket', used', Known', pc[q], task[q])
      BY <1>1, <3>2, <3>3, PlacedKeeps
    <3> QED
      BY <3>1, <3>2, <3>4
  <2> QED
    BY <2>1, <2>2
<1>3. Alone'
  <2> SUFFICES ASSUME NEW p \in Task, NEW q \in Task, pc'[p] # "idle", pc'[q] # "idle",
                      task'[p].file \in File, task'[p].file = task'[q].file
               PROVE  p = q
    BY DEF Alone
  <2>1. CASE p # r /\ q # r
    BY <2>1 DEF Inv, Core, Alone
  <2>2. CASE p = r \/ q = r
    BY <2>2
  <2> QED
    BY <2>1, <2>2
<1> QED
  BY <1>2, <1>3 DEF Core

\* A step moves only task r;
Turn(r) ==
  /\ pc' \in [Task -> Stage] /\ task' \in [Task -> Work \cup {Absent}]
  /\ \A q \in Task : q # r => pc'[q] = pc[q] /\ task'[q] = task[q]
  /\ task'[r] = Absent <=> pc'[r] = "idle"

\* it leaves task r on the same file.
SameFile(r) ==
  pc'[r] # "idle" =>
    /\ pc[r] # "idle" /\ task'[r].file = task[r].file
    /\ Drawn(pc'[r], task'[r]) => Drawn(pc[r], task[r])

\* The types of a step.
LEMMA TypeAdvance ==
  ASSUME Inv, NEW r \in Task, Turn(r), db' \in Documents,
         bucket' \subseteq Known', puts' \subseteq Known', used' \subseteq File, due' \subseteq File,
         snap' \in [Task -> Documents \cup {Absent}], dirty' \in [Task -> DocSets],
         \A q \in Task : q # r => snap'[q] = snap[q],
         snap'[r] # Absent => pc'[r] \in TxStage,
         crashes' \in 0 .. MaxCrashes
  PROVE  TypeOK' /\ Typed'
<1>1. Known' \subseteq used'
  BY DEF Known
<1>2. ASSUME NEW q \in Task
      PROVE  /\ task'[q] = Absent \/ task'[q] \in Work
             /\ snap'[q] = Absent \/ snap'[q] \in Documents
             /\ task'[q] = Absent <=> pc'[q] = "idle"
             /\ snap'[q] # Absent => pc'[q] \in TxStage
  <2>1. (task'[q] = Absent \/ task'[q] \in Work) /\ (snap'[q] = Absent \/ snap'[q] \in Documents)
    BY DEF Turn
  <2>2. CASE q = r
    BY <2>1, <2>2 DEF Turn
  <2>3. CASE q # r
    BY <2>1, <2>3 DEF Turn, Inv, TypeOK
  <2> QED
    BY <2>2, <2>3
<1> QED
  BY <1>1, <1>2 DEF TypeOK, Typed, Turn

\* The snapshots of the other transactions after one that wrote docs ended.
LEMMA LeaveSnaps ==
  ASSUME Inv, NEW r \in Task, NEW own,
         Moves(db, bucket, Known, db', bucket', Known', own),
         NEW docs \in DocSets, LeaveTx(r, docs), Evolves(db, db', docs)
  PROVE  /\ \A q \in Task : snap'[q] # Absent => SnapOK(db', Known', snap'[q], dirty'[q])
         /\ snap' \in [Task -> Documents \cup {Absent}] /\ dirty' \in [Task -> DocSets]
         /\ snap'[r] = Absent /\ \A q \in Task : q # r => snap'[q] = snap[q]
<1>1. /\ snap' \in [Task -> Documents \cup {Absent}]
      /\ snap'[r] = Absent /\ \A q \in Task : q # r => snap'[q] = snap[q]
  BY DEF Inv, Typed, LeaveTx
<1>2. \A q \in Task : dirty[q] \in DocSets
  BY DEF Inv, TypeOK
<1>3. \A a, b \in DocSets : Join(a, b) \in DocSets
  BY DEF Join, DocSets
<1>4. NoDocs \in DocSets
  BY DEF NoDocs, DocSets
<1>5. dirty' \in [Task -> DocSets]
  BY <1>2, <1>3, <1>4 DEF LeaveTx
<1>6. ASSUME NEW q \in Task, snap'[q] # Absent
      PROVE  SnapOK(db', Known', snap'[q], dirty'[q])
  <2>1. q # r /\ snap'[q] = snap[q] /\ snap[q] # Absent
    BY <1>1, <1>6
  <2>2. dirty'[q] = Join(dirty[q], docs)
    BY <2>1 DEF LeaveTx
  <2>3. SnapOK(db, Known, snap[q], dirty[q])
    BY <2>1 DEF Inv, Core
  <2>4. Evolves(snap[q], db, dirty[q])
    BY <2>3 DEF SnapOK
  <2>5. Evolves(snap[q], db', Join(dirty[q], docs))
    BY <1>2, <2>4, EvolvesThen
  <2> QED
    BY <2>1, <2>2, <2>3, <2>5, SnapKeeps
<1> QED
  BY <1>1, <1>5, <1>6

\* Steps keep the invariant, and are operations of the book or leave it alone.
Booked == db' = db \/ Operation(db, db')
Kept   == Inv' /\ Booked

\* A transaction ends: with an effect of its operation, or without.
LEMMA CommitAdvance ==
  ASSUME Inv, NEW r \in Task, Turn(r), SameFile(r), Known \subseteq Known',
         NEW docs \in DocSets, NEW drawn, NEW landed, NEW found,
         Effect(db, db', docs, drawn, landed, found), LeaveTx(r, docs),
         due' \subseteq File, bucket' = bucket, used' = used, puts' \subseteq Known',
         crashes' \in 0 .. MaxCrashes, pc[r] # "idle",
         drawn = Absent \/ (drawn = task[r].file /\ drawn \notin Known /\ drawn \in Known'),
         landed = Absent \/ (landed = task[r].file /\ landed \in bucket),
         found = Absent \/ found \in Known,
         pc'[r] # "idle" =>
           Shape(pc'[r], task'[r]) /\ Placed(db', bucket', used', Known', pc'[r], task'[r])
  PROVE  Kept
<1>1. db \in Documents /\ Sound(db) /\ Files(db, bucket, puts, Known) /\ used \subseteq File
  BY DEF Inv, TypeOK, Core, Files
<1>2. db' \in Documents /\ DocStep(db, db') /\ Sound(db') /\ Evolves(db, db', docs)
      /\ Keeps(db, db', drawn, landed, found)
  BY <1>1, EffectStep DEF Effect
<1>3. Absent \notin File
  BY StorageSentinels
<1>4. Moves(db, bucket, Known, db', bucket', Known', task[r].file)
  <2>1. \A f \in File : f \in Known /\ Condemned(db, f) => Condemned(db', f)
    BY <1>1, <1>3, EffectKeeps
  <2>2. \A f \in File : f # task[r].file /\ Unattached(db, f) => Unattached(db', f)
    BY <1>1, <1>3, EffectKeeps
  <2>3. \A f \in File : f # task[r].file /\ InState(db', f, "reserved") => InState(db, f, "reserved")
    BY <1>2, <1>3 DEF Keeps
  <2> QED
    BY <2>1, <2>2, <2>3 DEF Moves
<1>5. Files(db', bucket', puts', Known')
  <2>1. \A f \in File : InUse(db', f) => f \in Known'
    BY <1>1, <1>2, <1>3 DEF Keeps, Files
  <2>2. bucket' \subseteq Known'
    BY <1>1 DEF Files
  <2>3. ASSUME NEW f \in File, InState(db', f, "uploaded")
        PROVE  f \in bucket'
    BY <1>1, <1>2, <1>3, <2>3 DEF Keeps, Files
  <2>4. ASSUME NEW f \in File, Referenced(db', f)
        PROVE  f \in bucket'
    BY <1>1, <1>2, <2>4, StepReferences DEF Files
  <2> QED
    BY <1>2, <2>1, <2>2, <2>3, <2>4 DEF Files
<1>6. /\ \A q \in Task : snap'[q] # Absent => SnapOK(db', Known', snap'[q], dirty'[q])
      /\ snap' \in [Task -> Documents \cup {Absent}] /\ dirty' \in [Task -> DocSets]
      /\ snap'[r] = Absent /\ \A q \in Task : q # r => snap'[q] = snap[q]
  BY <1>2, <1>4, LeaveSnaps
<1>7. \A q \in Task : q # r /\ pc[q] # "idle" /\ task[q].file \in File =>
        task[q].file # task[r].file /\ (pc'[r] # "idle" => task[q].file # task'[r].file)
  BY DEF Inv, Core, Alone, SameFile
<1>8. \A q \in Task : q # r => pc'[q] = pc[q] /\ task'[q] = task[q]
  BY DEF Turn
<1>9. Core'
  BY <1>4, <1>5, <1>6, <1>7, <1>8, Advance
<1>10. TypeOK' /\ Typed'
  <2>1. bucket' \subseteq Known' /\ used' \subseteq File
    BY <1>1, <1>5 DEF Files
  <2> QED
    BY <1>2, <1>6, <2>1, TypeAdvance
<1> QED
  BY <1>9, <1>10 DEF Inv, Kept, Booked, Effect

\* A step that writes no document, and may delete files from the bucket.

\* A step that writes no document, and may delete files from the bucket.
Quietly ==
  /\ db' = db /\ snap' = snap /\ due' \subseteq File
  /\ dirty' \in [Task -> DocSets]
  /\ \A q \in Task : snap[q] # Absent => Evolves(snap[q], db, dirty'[q])

LEMMA QuietAdvance ==
  ASSUME Inv, NEW r \in Task, Turn(r), Quietly, Known \subseteq Known',
         NEW own, own = Absent \/ (own \in File /\ pc[r] # "idle" /\ own = task[r].file /\ Unattached(db, own)),
         bucket' \subseteq Known', puts' \subseteq Known',
         \A f \in File : f \in bucket /\ f \notin bucket' => f = own \/ Condemned(db, f),
         used \subseteq used', used' \subseteq File, crashes' = crashes,
         SameFile(r) \/ task'[r].file = Absent \/ task'[r].file \notin used,
         snap[r] # Absent => pc'[r] \in TxStage,
         pc'[r] # "idle" =>
           Shape(pc'[r], task'[r]) /\ Placed(db', bucket', used', Known', pc'[r], task'[r])
  PROVE  Kept
<1>1. db \in Documents /\ Files(db, bucket, puts, Known)
      /\ crashes \in 0 .. MaxCrashes
  BY DEF Inv, TypeOK, Core
<1>2. Absent \notin File
  BY StorageSentinels
<1>3. Moves(db, bucket, Known, db', bucket', Known', own)
  BY DEF Moves, Quietly
<1>4. Files(db', bucket', puts', Known')
  <2>1. \A f \in File : InState(db, f, "uploaded") \/ Referenced(db, f) => f \in bucket'
    <3> SUFFICES ASSUME NEW f \in File, InState(db, f, "uploaded") \/ Referenced(db, f)
                 PROVE  f \in bucket'
      OBVIOUS
    <3>1. f \in bucket
      BY <1>1 DEF Files
    <3>2. ~ Condemned(db, f) /\ ~ Unattached(db, f)
      BY DEF Condemned, Unattached, InState
    <3> QED
      BY <1>2, <3>1, <3>2
  <2> QED
    BY <1>1, <2>1 DEF Files, Quietly
<1>5. ASSUME NEW q \in Task, snap'[q] # Absent
      PROVE  SnapOK(db', Known', snap'[q], dirty'[q])
  <2>1. snap'[q] = snap[q] /\ SnapOK(db, Known, snap[q], dirty[q]) /\ Evolves(snap[q], db', dirty'[q])
    BY <1>5 DEF Quietly, Inv, Core
  <2> QED
    BY <1>3, <2>1, SnapKeeps
<1>6. ASSUME NEW q \in Task, q # r, pc[q] # "idle", task[q].file \in File
      PROVE  task[q].file # own /\ (pc'[r] # "idle" => task[q].file # task'[r].file)
  <2>1. task[q].file \in used
    BY <1>2, <1>6 DEF Inv, Core, Placed
  <2> QED
    BY <1>2, <1>6, <2>1 DEF Inv, Core, Alone, SameFile
<1>7. \A q \in Task : q # r => pc'[q] = pc[q] /\ task'[q] = task[q]
  BY DEF Turn
<1>8. Core'
  BY <1>3, <1>4, <1>5, <1>6, <1>7, Advance
<1>9. TypeOK' /\ Typed'
  <2>1. bucket' \subseteq Known' /\ puts' \subseteq Known'
    BY <1>4 DEF Files
  <2>2. snap' \in [Task -> Documents \cup {Absent}] /\ (snap'[r] # Absent => pc'[r] \in TxStage)
        /\ \A q \in Task : q # r => snap'[q] = snap[q]
    BY <1>1 DEF Inv, Typed, Quietly
  <2>3. db' \in Documents /\ due' \subseteq File /\ dirty' \in [Task -> DocSets]
        /\ crashes' \in 0 .. MaxCrashes
    BY <1>1 DEF Quietly
  <2> QED
    BY <2>1, <2>2, <2>3, TypeAdvance
<1> QED
  BY <1>8, <1>9 DEF Inv, Kept, Booked, Quietly

----------------------------------------------------------------------------
(* How a step moves its task *)

\* A task that is not idle works on something.
LEMMA AtWork ==
  ASSUME Inv, NEW r \in Task
  PROVE  /\ pc[r] \in Stage
         /\ pc[r] # "idle" => task[r] \in Work /\ Shape(pc[r], task[r])
              /\ Placed(db, bucket, used, Known, pc[r], task[r])
         /\ pc[r] = "idle" => task[r] = Absent
BY DEF Inv, TypeOK, Core

LEMMA TurnGoto ==
  ASSUME Inv, NEW r \in Task, NEW stage \in Stage \ {"idle"}, pc[r] # "idle",
         Goto(r, stage), task' = task
  PROVE  Turn(r) /\ pc'[r] = stage /\ task'[r] = task[r]
<1>1. pc \in [Task -> Stage] /\ task \in [Task -> Work \cup {Absent}] /\ task[r] # Absent
  BY DEF Inv, TypeOK, Typed
<1>2. pc' = [pc EXCEPT ![r] = stage]
  BY DEF Goto
<1> QED
  BY <1>1, <1>2 DEF Turn

LEMMA TurnFinish ==
  ASSUME Inv, NEW r \in Task, Finish(r)
  PROVE  Turn(r) /\ pc'[r] = "idle" /\ SameFile(r)
<1>1. pc \in [Task -> Stage] /\ task \in [Task -> Work \cup {Absent}]
  BY DEF Inv, TypeOK, Typed
<1>2. pc' = [pc EXCEPT ![r] = "idle"] /\ task' = [task EXCEPT ![r] = Absent] /\ "idle" \in Stage
  BY DEF Finish, Goto, Stage
<1> QED
  BY <1>1, <1>2 DEF Turn, SameFile

LEMMA TurnWork ==
  ASSUME Inv, NEW r \in Task, NEW stage \in Stage \ {"idle"}, Goto(r, stage),
         NEW w \in Work, task' = [task EXCEPT ![r] = w]
  PROVE  Turn(r) /\ pc'[r] = stage /\ task'[r] = w
<1>1. pc \in [Task -> Stage] /\ task \in [Task -> Work \cup {Absent}] /\ w # Absent
  BY StorageTaskSentinel DEF Inv, TypeOK, Typed
<1>2. pc' = [pc EXCEPT ![r] = stage]
  BY DEF Goto
<1> QED
  BY <1>1, <1>2 DEF Turn

\* Work with one field changed.
Revised(w, field, x) == [w EXCEPT ![field] = x]

LEMMA RevisedPrev ==
  ASSUME NEW w \in Work, NEW x \in File \cup {NoFile, Gone, Absent}
  PROVE  /\ Revised(w, "prev", x) \in Work
         /\ Revised(w, "prev", x).prev = x
         /\ Revised(w, "prev", x).kind = w.kind /\ Revised(w, "prev", x).owner = w.owner
         /\ Revised(w, "prev", x).file = w.file /\ Revised(w, "prev", x).target = w.target
         /\ Revised(w, "prev", x).seen = w.seen /\ Revised(w, "prev", x).todo = w.todo
         /\ Revised(w, "prev", x).freed = w.freed
BY DEF Work, Revised

LEMMA RevisedTarget ==
  ASSUME NEW w \in Work, NEW x \in File \cup {Absent}
  PROVE  /\ Revised(w, "target", x) \in Work
         /\ Revised(w, "target", x).target = x
         /\ Revised(w, "target", x).kind = w.kind /\ Revised(w, "target", x).owner = w.owner
         /\ Revised(w, "target", x).file = w.file /\ Revised(w, "target", x).prev = w.prev
         /\ Revised(w, "target", x).seen = w.seen /\ Revised(w, "target", x).todo = w.todo
         /\ Revised(w, "target", x).freed = w.freed
BY DEF Work, Revised

LEMMA RevisedSeen ==
  ASSUME NEW w \in Work, NEW x \in State \cup {Absent}
  PROVE  /\ Revised(w, "seen", x) \in Work
         /\ Revised(w, "seen", x).seen = x
         /\ Revised(w, "seen", x).kind = w.kind /\ Revised(w, "seen", x).owner = w.owner
         /\ Revised(w, "seen", x).file = w.file /\ Revised(w, "seen", x).prev = w.prev
         /\ Revised(w, "seen", x).target = w.target /\ Revised(w, "seen", x).todo = w.todo
         /\ Revised(w, "seen", x).freed = w.freed
BY DEF Work, Revised

LEMMA RevisedFreed ==
  ASSUME NEW w \in Work, NEW x \in {"untried", "none", "some", "retried"}
  PROVE  /\ Revised(w, "freed", x) \in Work
         /\ Revised(w, "freed", x).freed = x
         /\ Revised(w, "freed", x).kind = w.kind /\ Revised(w, "freed", x).owner = w.owner
         /\ Revised(w, "freed", x).file = w.file /\ Revised(w, "freed", x).prev = w.prev
         /\ Revised(w, "freed", x).target = w.target /\ Revised(w, "freed", x).todo = w.todo
         /\ Revised(w, "freed", x).seen = w.seen
BY DEF Work, Revised

LEMMA RevisedTodo ==
  ASSUME NEW w \in Work, NEW x \in SUBSET (File \X (State \cup {Absent}))
  PROVE  /\ Revised(w, "todo", x) \in Work
         /\ Revised(w, "todo", x).todo = x
         /\ Revised(w, "todo", x).kind = w.kind /\ Revised(w, "todo", x).owner = w.owner
         /\ Revised(w, "todo", x).file = w.file /\ Revised(w, "todo", x).prev = w.prev
         /\ Revised(w, "todo", x).target = w.target /\ Revised(w, "todo", x).freed = w.freed
         /\ Revised(w, "todo", x).seen = w.seen
BY DEF Work, Revised

\* `Set` revises the work of its task.
LEMMA SetRevises ==
  ASSUME Inv, NEW r \in Task, NEW field, NEW x, Set(r, field, x), pc[r] # "idle"
  PROVE  task' = [task EXCEPT ![r] = Revised(task[r], field, x)]
<1>1. task \in [Task -> Work \cup {Absent}]
  BY DEF Inv, Typed
<1> QED
  BY <1>1 DEF Set, Revised

\* A step on the same file leaves the known files known.
LEMMA SameFileKnows ==
  ASSUME Inv, NEW r \in Task, Turn(r), SameFile(r), used \subseteq used'
  PROVE  Known \subseteq Known'
<1>1. \A q \in Task : q # r => pc'[q] = pc[q] /\ task'[q] = task[q]
  BY DEF Turn
<1>2. Drawn(pc'[r], task'[r]) => Drawn(pc[r], task[r]) /\ task'[r].file = task[r].file
  BY DEF SameFile, Drawn
<1> QED
  BY <1>1, <1>2, KnownGrows

\* What CommitTx does, as told above.
LEMMA Committed ==
  ASSUME Inv, NEW r \in Task, snap[r] # Absent, NEW n, NEW locks \in SUBSET Owner,
         NEW late \in SUBSET File, CommitTx(r, n, locks, late)
  PROVE  \E docs \in DocSets :
           /\ Commits(snap[r], db, n, dirty[r], docs)
           /\ locks \subseteq docs.owners
           /\ db' = Merge(db, snap[r], n)
           /\ LeaveTx(r, docs)
           /\ due' \subseteq File
<1>1. PICK docs \in DocSets : docs = Docs(snap[r], n, locks)
  BY DocsCover
<1>2. Covers(docs, snap[r], n) /\ locks \subseteq docs.owners
  BY <1>1, DocsCover
<1>3. ~ Overlap(docs, dirty[r]) /\ db' = Merge(db, snap[r], n)
      /\ due' = (due \ docs.files) \cup late /\ LeaveTx(r, docs)
  BY <1>1 DEF CommitTx, Docs
<1>4. Evolves(snap[r], db, dirty[r])
  BY DEF Inv, Core, SnapOK
<1>5. due \subseteq File
  BY DEF Inv, TypeOK
<1> QED
  BY <1>2, <1>3, <1>4, <1>5 DEF Commits

\* The documents read by the body of a transaction.
LEMMA InSnap ==
  ASSUME Inv, NEW r \in Task, NEW stage, InBody(r, stage)
  PROVE  /\ pc[r] = stage /\ snap[r] # Absent /\ snap[r] \in Documents
         /\ pc[r] \in TxStage /\ pc[r] # "idle"
         /\ Sound(snap[r]) /\ db \in Documents /\ Sound(db)
         /\ \A f \in File : InUse(snap[r], f) => f \in Known
         /\ \A f \in File : InState(snap[r], f, "deleting") => Condemned(db, f)
BY DEF Inv, TypeOK, Core, SnapOK, Files, InBody, TxStage

\* Files known once are known later; work that aims at no other file stays
\* placed, out of an upload.
LEMMA PlacedMore ==
  ASSUME NEW d, NEW b, NEW us, NEW k, NEW l, k \subseteq l, NEW stage, NEW w,
         Placed(d, b, us, k, stage, w)
  PROVE  Placed(d, b, us, l, stage, w)
BY DEF Placed

LEMMA PlacedNext ==
  ASSUME NEW d, NEW b, NEW us, NEW k, NEW n, NEW a, NEW l, k \subseteq l,
         NEW stage, NEW w, Placed(d, b, us, k, stage, w),
         NEW next, NEW v, v.file = w.file, v.todo \subseteq w.todo,
         next \notin Uploads,
         next \in Aims => v.target \in l,
         next = "delete" => Condemned(n, v.target)
  PROVE  Placed(n, a, us, l, next, v)
BY DEF Placed, Uploads

\* A transaction that wrote nothing ends.
LEMMA EndAdvance ==
  ASSUME Inv, NEW r \in Task, Turn(r), SameFile(r), EndTx(r), pc[r] # "idle",
         bucket' = bucket, used' = used, puts' = puts, crashes' \in 0 .. MaxCrashes,
         pc'[r] # "idle" =>
           Shape(pc'[r], task'[r]) /\ Placed(db', bucket', used', Known', pc'[r], task'[r])
  PROVE  Kept
<1>1. Known \subseteq Known'
  BY SameFileKnows
<1>2. db \in Documents /\ puts \subseteq Known /\ due \subseteq File
  BY DEF Inv, TypeOK, Core, Files
<1>3. db' = db /\ due' = due /\ LeaveTx(r, NoDocs)
  BY DEF EndTx
<1>4. NoDocs \in DocSets
  BY DEF NoDocs, DocSets
<1>5. Effect(db, db', NoDocs, Absent, Absent, Absent)
  BY <1>2, <1>3, NoEffect
<1> QED
  BY <1>1, <1>2, <1>3, <1>4, <1>5, CommitAdvance

\* A body that runs again begins where it was.
LEMMA RetryAdvance ==
  ASSUME Inv, NEW r \in Task, NEW n, NEW locks, RetryTx(r, n, locks), pc[r] # "idle",
         World' = World
  PROVE  Kept
<1>1. pc' = pc /\ task' = task /\ db' = db /\ due' = due /\ LeaveTx(r, NoDocs)
      /\ bucket' = bucket /\ used' = used /\ puts' = puts /\ crashes' = crashes
  BY DEF RetryTx, World
<1>2. Turn(r) /\ SameFile(r) /\ EndTx(r) /\ crashes' \in 0 .. MaxCrashes
  BY <1>1 DEF Inv, TypeOK, Typed, Turn, SameFile, EndTx
<1>3. Known \subseteq Known'
  BY <1>1, <1>2, SameFileKnows
<1>4. Shape(pc'[r], task'[r]) /\ Placed(db', bucket', used', Known', pc'[r], task'[r])
  BY <1>1, <1>3, AtWork, PlacedMore
<1> QED
  BY <1>1, <1>2, <1>4, EndAdvance

\* The entries past their lease, and the states they are in.
LEMMA DueType ==
  ASSUME Inv
  PROVE  /\ Due \in SUBSET (File \X (State \cup {Absent}))
         /\ \A e \in Due : e[1] \in Known /\ e[2] \in State \ {"attached"}
<1>1. due \subseteq File /\ db \in Documents /\ \A f \in File : InUse(db, f) => f \in Known
  BY DEF Inv, TypeOK, Core, Files
<1>2. ASSUME NEW e \in Due
      PROVE  /\ e \in File \X (State \cup {Absent}) /\ e[1] \in Known
             /\ e[2] \in State \ {"attached"}
  <2>1. PICK f \in due : /\ db.entry[f] # Absent /\ db.entry[f].state # "attached"
                         /\ e = <<f, db.entry[f].state>>
    BY <1>2 DEF Due
  <2>2. f \in File /\ db.entry[f].state \in State
    BY <1>1, <2>1, Parts, EntryFields
  <2>3. f \in Known
    BY <1>1, <2>1, <2>2 DEF InUse
  <2> QED
    BY <2>1, <2>2, <2>3
<1> QED
  BY <1>2

----------------------------------------------------------------------------
(* Each step keeps the invariant *)

\* A transaction reads the documents as they are.
LEMMA KeepBegin ==
  ASSUME Inv, NEW r \in Task, Begin(r)
  PROVE  Kept
<1>1. /\ pc[r] \in TxStage /\ snap[r] = Absent /\ snap' = [snap EXCEPT ![r] = db]
      /\ db' = db /\ bucket' = bucket /\ puts' = puts /\ used' = used /\ due' = due
      /\ pc' = pc /\ task' = task /\ dirty' = dirty /\ crashes' = crashes
  BY DEF Begin
<1>2. db \in Documents /\ Sound(db) /\ \A f \in File : InUse(db, f) => f \in Known
  BY DEF Inv, TypeOK, Core, Files
<1>3. snap' \in [Task -> Documents \cup {Absent}]
      /\ \A q \in Task : snap'[q] = IF q = r THEN db ELSE snap[q]
  BY <1>1, <1>2 DEF Inv, Typed
<1>4. Known' = Known
  BY <1>1 DEF Known
<1>5. SnapOK(db, Known, db, dirty[r])
  <2>1. \A f \in File : InState(db, f, "deleting") => Condemned(db, f)
    BY <1>2 DEF InState, Condemned, Sound
  <2> QED
    BY <1>2, <2>1, EvolvesNone DEF SnapOK
<1>6. \A q \in Task : snap'[q] # Absent => SnapOK(db', Known', snap'[q], dirty'[q])
  BY <1>1, <1>3, <1>4, <1>5 DEF Inv, Core
<1>7. Core'
  <2>1. Alone'
    BY <1>1 DEF Inv, Core, Alone
  <2> QED
    BY <1>1, <1>4, <1>6, <2>1 DEF Inv, Core
<1>8. Typed'
  BY <1>1, <1>3 DEF Inv, Typed
<1>9. TypeOK'
  <2>1. \A q \in Task : snap'[q] # Absent => pc[q] \in TxStage
    BY <1>1, <1>3 DEF Inv, TypeOK
  <2>2. \A q \in Task : snap'[q] = Absent \/ snap'[q] \in Documents
    BY <1>3
  <2> QED
    BY <1>1, <2>1, <2>2 DEF Inv, TypeOK
<1> QED
  BY <1>1, <1>7, <1>8, <1>9 DEF Inv, Kept, Booked

\* The quota admits an upload, or its task tries to free bytes, or gives up.
LEMMA KeepReserve ==
  ASSUME Inv, NEW r \in Task, ReserveTx(r)
  PROVE  Kept
<1> DEFINE f == task[r].file
           s == snap[r]
<1>1. /\ pc[r] = "reserve" /\ InBody(r, "reserve") /\ pc[r] # "idle"
      /\ bucket' = bucket /\ used' = used /\ crashes' = crashes
  BY DEF ReserveTx, InBody
<1>2. PICK w \in Work : w = task[r] /\ Shape("reserve", w)
                        /\ Placed(db, bucket, used, Known, "reserve", w)
  BY <1>1, AtWork
<1>3. /\ f \in File /\ f \in used /\ w.kind \in {"create", "replace"}
      /\ w.freed \notin {"none", "some"}
  BY <1>2, StorageSentinels DEF Shape, Placed, Aims
<1>4. Drawn("reserve", w) /\ f \notin Known
  BY <1>1, <1>2, <1>3 DEF Drawn, Known
<1>5. /\ s \in Documents /\ snap[r] # Absent /\ Sound(s) /\ db \in Documents /\ Sound(db)
      /\ s.entry[f] = Absent /\ ~ Referenced(s, f)
  BY <1>1, <1>3, <1>4, InSnap DEF InUse
<1>6. crashes' \in 0 .. MaxCrashes /\ puts \subseteq Known
  BY <1>1 DEF Inv, TypeOK, Core, Files
<1>7. ASSUME RetryTx(r, Reserve(s, f), {}), puts' = puts
      PROVE  Kept
  <2>1. World' = World
    BY <1>1, <1>7 DEF World
  <2> QED
    BY <1>1, <1>7, <2>1, RetryAdvance
<1>8. ASSUME Fits(s, f), CommitTx(r, Reserve(s, f), {}, {}), Goto(r, "put"),
             puts' = puts \cup {f}, task' = task
      PROVE  Kept
  <2>1. PICK docs \in DocSets :
          /\ Commits(s, db, Reserve(s, f), dirty[r], docs)
          /\ db' = Merge(db, s, Reserve(s, f)) /\ LeaveTx(r, docs) /\ due' \subseteq File
    BY <1>5, <1>8, Committed
  <2>2. Effect(db, db', docs, f, Absent, Absent) /\ InState(db', f, "reserved")
    BY <1>3, <1>5, <1>8, <2>1, CommitReserve
  <2>3. Turn(r) /\ pc'[r] = "put" /\ task'[r] = w
    <3>1. "put" \in Stage \ {"idle"}
      BY DEF Stage
    <3> QED
      BY <1>1, <1>2, <1>8, <3>1, TurnGoto
  <2>4. ~ Drawn("put", w)
    BY <1>3 DEF Drawn
  <2>5. SameFile(r)
    BY <1>1, <1>2, <2>3, <2>4 DEF SameFile
  <2>6. Known \subseteq Known'
    BY <1>1, <2>3, <2>5, SameFileKnows
  <2>7. f \in Known'
    <3>1. ASSUME NEW q \in Task, Drawn(pc'[q], task'[q]), task'[q].file = f PROVE FALSE
      <4>1. q # r
        BY <2>3, <2>4, <3>1
      <4>2. pc[q] # "idle" /\ task[q].file = f
        BY <2>3, <3>1, <4>1 DEF Turn, Drawn
      <4> QED
        BY <1>1, <1>3, <4>1, <4>2 DEF Inv, Core, Alone
    <3> QED
      BY <1>1, <1>3, <3>1 DEF Known
  <2>8. Shape("put", w)
    BY <1>2, <1>3 DEF Shape, Aims, Uploads
  <2>9. Unattached(db', f)
    <3>1. Sound(db')
      BY <1>5, <2>2, EffectStep
    <3> QED
      BY <1>3, <2>2, <3>1 DEF Unattached, InState, Sound
  <2>10. Placed(db', bucket', used', Known', "put", w)
    BY <1>1, <1>2, <2>6, <2>9 DEF Placed, Aims
  <2>11. puts' \subseteq Known'
    BY <1>6, <1>8, <2>6, <2>7
  <2> QED
    BY <1>1, <1>2, <1>4, <1>6, <2>1, <2>2, <2>3, <2>5, <2>6, <2>7, <2>8, <2>10, <2>11, CommitAdvance
<1>9. ASSUME EndTx(r), puts' = puts, Goto(r, "pick"),
             task' = [task EXCEPT ![r].freed = "none", ![r].todo = Due]
      PROVE  Kept
  <2>1. PICK v : v = Revised(Revised(w, "freed", "none"), "todo", Due)
    OBVIOUS
  <2>2. /\ v \in Work /\ v.kind = w.kind /\ v.owner = w.owner /\ v.file = w.file
        /\ v.prev = w.prev /\ v.target = w.target /\ v.seen = w.seen
        /\ v.freed = "none" /\ v.todo = Due
    <3>1. PICK u \in Work : u = Revised(w, "freed", "none")
      BY RevisedFreed
    <3> QED
      BY <2>1, <3>1, RevisedFreed, RevisedTodo, DueType
  <2>3. task' = [task EXCEPT ![r] = v]
    <3>1. task \in [Task -> Work \cup {Absent}]
      BY DEF Inv, Typed
    <3> QED
      BY <1>2, <1>9, <2>1, <3>1 DEF Revised
  <2>4. Turn(r) /\ pc'[r] = "pick" /\ task'[r] = v
    <3>1. "pick" \in Stage \ {"idle"}
      BY DEF Stage
    <3> QED
      BY <1>9, <2>2, <2>3, <3>1, TurnWork
  <2>5. SameFile(r)
    BY <1>1, <1>2, <1>4, <2>2, <2>4 DEF SameFile
  <2>6. Known \subseteq Known'
    BY <1>1, <2>4, <2>5, SameFileKnows
  <2>7. Shape("pick", v)
    BY <1>2, <1>3, <2>2 DEF Shape, Uploads
  <2>8. Placed(db', bucket', used', Known', "pick", v)
    BY <1>1, <1>2, <2>2, <2>6, DueType DEF Placed, Aims, Uploads
  <2> QED
    BY <1>1, <1>6, <1>9, <2>4, <2>5, <2>7, <2>8, EndAdvance
<1>10. ASSUME EndTx(r), puts' = puts, Finish(r)
       PROVE  Kept
  BY <1>1, <1>6, <1>10, TurnFinish, EndAdvance
<1> QED
  BY <1>7, <1>8, <1>9, <1>10 DEF ReserveTx

\* Nothing written, and nothing told to the transactions, or nothing more
\* than that some entries changed.
LEMMA QuietIs ==
  ASSUME Inv, Quiet
  PROVE  Quietly
<1>1. db' = db /\ due' = due /\ snap' = snap /\ dirty' = dirty
  BY DEF Quiet
<1>2. \A q \in Task : snap[q] # Absent => Evolves(snap[q], db, dirty[q])
  BY DEF Inv, Core, SnapOK
<1> QED
  BY <1>1, <1>2 DEF Inv, TypeOK, Quietly

\* A task goes on with the work it has,
LEMMA GoesOn ==
  ASSUME Inv, NEW r \in Task, NEW stage \in Stage \ {"idle", "reserve"}, pc[r] # "idle",
         Goto(r, stage), task' = task, used \subseteq used'
  PROVE  /\ Turn(r) /\ SameFile(r) /\ Known \subseteq Known'
         /\ pc'[r] = stage /\ task'[r] = task[r]
<1>1. Turn(r) /\ pc'[r] = stage /\ task'[r] = task[r]
  BY TurnGoto
<1>2. SameFile(r)
  BY <1>1 DEF SameFile, Drawn
<1> QED
  BY <1>1, <1>2, SameFileKnows

\* or with a revision of it.
LEMMA GoesOnWith ==
  ASSUME Inv, NEW r \in Task, NEW stage \in Stage \ {"idle", "reserve"}, pc[r] # "idle",
         Goto(r, stage), NEW v \in Work, task' = [task EXCEPT ![r] = v], used \subseteq used',
         v.kind = task[r].kind, v.file = task[r].file,
         v.freed \in {"none", "some"} => task[r].freed \in {"none", "some"}
  PROVE  /\ Turn(r) /\ SameFile(r) /\ Known \subseteq Known'
         /\ pc'[r] = stage /\ task'[r] = v
<1>1. Turn(r) /\ pc'[r] = stage /\ task'[r] = v
  BY TurnWork
<1>2. SameFile(r)
  BY <1>1 DEF SameFile, Drawn
<1> QED
  BY <1>1, <1>2, SameFileKnows

\* A step that leaves the world alone.
LEMMA GoesQuietly ==
  ASSUME Inv, NEW r \in Task, Turn(r), SameFile(r), Quiet, World' = World,
         pc[r] \notin TxStage,
         pc'[r] # "idle" =>
           Shape(pc'[r], task'[r]) /\ Placed(db', bucket', used', Known', pc'[r], task'[r])
  PROVE  Kept
<1>0. snap[r] # Absent => pc'[r] \in TxStage
  BY DEF Inv, TypeOK
<1>1. Quietly
  BY QuietIs
<1>2. bucket' = bucket /\ puts' = puts /\ used' = used /\ crashes' = crashes
  BY DEF World
<1>3. Known \subseteq Known'
  BY <1>2, SameFileKnows
<1>4. bucket' \subseteq Known' /\ puts' \subseteq Known' /\ used' \subseteq File
  BY <1>2, <1>3 DEF Inv, Core, Files, TypeOK
<1>5. PICK own : own = Absent
  OBVIOUS
<1> QED
  BY <1>0, <1>1, <1>2, <1>3, <1>4, <1>5, QuietAdvance

\* The upload arrives, heard of or not,
LEMMA KeepLand ==
  ASSUME Inv, NEW f \in File, Land(f)
  PROVE  Kept
<1>1. /\ f \in puts /\ puts' = puts \ {f} /\ bucket' = bucket \cup {f}
      /\ Quiet /\ used' = used /\ task' = task /\ crashes' = crashes
      /\ pc' \in {pc, [q \in Task |-> IF pc[q] = "put" /\ task[q].file = f THEN "mark" ELSE pc[q]]}
  BY DEF Land
<1>2. Quietly /\ db' = db
  BY <1>1, QuietIs DEF Quiet
<1>3. Absent \notin File /\ f \in Known /\ used \subseteq File /\ bucket \subseteq Known
      /\ puts \subseteq Known
  BY <1>1, StorageSentinels DEF Inv, TypeOK, Core, Files
<1>4. PICK own : own = Absent
  OBVIOUS
<1>5. ASSUME NEW r \in Task, Turn(r), SameFile(r), snap[r] # Absent => pc'[r] \in TxStage,
             pc'[r] # "idle" =>
               Shape(pc'[r], task'[r]) /\ Placed(db', bucket', used', Known', pc'[r], task'[r])
      PROVE  Kept
  <2>1. Known \subseteq Known'
    BY <1>1, <1>5, SameFileKnows
  <2>2. bucket' \subseteq Known' /\ puts' \subseteq Known'
    BY <1>1, <1>3, <2>1
  <2>3. used \subseteq used' /\ used' \subseteq File
    BY <1>1, <1>3
  <2>4. \A g \in File : g \in bucket /\ g \notin bucket' => g = own \/ Condemned(db, g)
    BY <1>1
  <2> QED
    BY <1>1, <1>2, <1>4, <1>5, <2>1, <2>2, <2>3, <2>4, QuietAdvance
<1>6. CASE pc' = pc
  <2>1. PICK r \in Task : TRUE
    BY StorageTasks
  <2>2. Turn(r) /\ SameFile(r) /\ (snap[r] # Absent => pc'[r] \in TxStage)
    BY <1>1, <1>6 DEF Inv, TypeOK, Typed, Turn, SameFile
  <2>3. Known \subseteq Known'
    BY <1>1, <2>2, SameFileKnows
  <2>4. pc'[r] # "idle" =>
          Shape(pc'[r], task'[r]) /\ Placed(db', bucket', used', Known', pc'[r], task'[r])
    BY <1>1, <1>2, <1>6, <2>3, AtWork DEF Placed
  <2> QED
    BY <1>5, <2>2, <2>4
<1>7. CASE pc' # pc
  <2>1. pc' = [q \in Task |-> IF pc[q] = "put" /\ task[q].file = f THEN "mark" ELSE pc[q]]
    BY <1>1, <1>7
  <2>2. PICK r \in Task : pc[r] = "put" /\ task[r].file = f
    <3>1. pc \in [Task -> Stage]
      BY DEF Inv, TypeOK
    <3> QED
      BY <1>7, <2>1, <3>1
  <2>3. \A q \in Task : q # r => pc'[q] = pc[q]
    BY <2>1, <2>2 DEF Inv, Core, Alone
  <2>4. pc'[r] = "mark" /\ pc[r] # "idle" /\ task'[r] = task[r] /\ task[r] # Absent
    BY <1>1, <2>1, <2>2 DEF Inv, TypeOK
  <2>5. Turn(r)
    <3>1. pc' \in [Task -> Stage]
      BY <2>1 DEF Inv, TypeOK, Stage, TxStage
    <3> QED
      BY <1>1, <2>3, <2>4, <3>1 DEF Turn, Inv, Typed
  <2>6. SameFile(r)
    BY <2>2, <2>4 DEF SameFile, Drawn
  <2>7. Known \subseteq Known'
    BY <1>1, <2>5, <2>6, SameFileKnows
  <2>8. PICK w \in Work : w = task[r] /\ Shape("put", w)
                          /\ Placed(db, bucket, used, Known, "put", w)
    BY <2>2, <2>4, AtWork
  <2>9. Shape("mark", w)
    BY <2>8 DEF Shape, Uploads, Aims
  <2>10. Placed(db', bucket', used', Known', "mark", w)
    BY <1>1, <1>2, <2>2, <2>7, <2>8 DEF Placed, Uploads, Aims
  <2>11. snap[r] = Absent
    BY <2>2 DEF Inv, TypeOK, TxStage
  <2> QED
    BY <1>5, <2>4, <2>5, <2>6, <2>8, <2>9, <2>10, <2>11
<1> QED
  BY <1>6, <1>7

\* or never;
LEMMA KeepLose ==
  ASSUME Inv, NEW f \in File, Lose(f)
  PROVE  Kept
<1>1. /\ puts' = puts \ {f} /\ Quiet /\ bucket' = bucket /\ used' = used
      /\ pc' = pc /\ task' = task /\ crashes' = crashes
  BY DEF Lose
<1>2. Quietly /\ db' = db
  BY <1>1, QuietIs DEF Quiet
<1>3. PICK r \in Task : TRUE
  BY StorageTasks
<1>4. PICK own : own = Absent
  OBVIOUS
<1>5. Turn(r) /\ SameFile(r) /\ (snap[r] # Absent => pc'[r] \in TxStage)
  BY <1>1 DEF Inv, TypeOK, Typed, Turn, SameFile
<1>6. Known \subseteq Known'
  BY <1>1, <1>5, SameFileKnows
<1>7. pc'[r] # "idle" =>
        Shape(pc'[r], task'[r]) /\ Placed(db', bucket', used', Known', pc'[r], task'[r])
  BY <1>1, <1>2, <1>6, AtWork, PlacedMore
<1>8. bucket' \subseteq Known' /\ puts' \subseteq Known' /\ used' \subseteq File
  BY <1>1, <1>6 DEF Inv, TypeOK, Core, Files
<1> QED
  BY <1>1, <1>2, <1>4, <1>5, <1>6, <1>7, <1>8, QuietAdvance

\* and a lease ends.
LEMMA KeepExpire ==
  ASSUME Inv, NEW f \in File, Expire(f)
  PROVE  Kept
<1>1. /\ due' = due \cup {f} /\ db' = db /\ bucket' = bucket /\ puts' = puts /\ used' = used
      /\ pc' = pc /\ task' = task /\ snap' = snap /\ dirty' = dirty /\ crashes' = crashes
  BY DEF Expire
<1>2. Quietly
  <2>1. \A q \in Task : snap[q] # Absent => Evolves(snap[q], db, dirty[q])
    BY DEF Inv, Core, SnapOK
  <2> QED
    BY <1>1, <2>1 DEF Inv, TypeOK, Quietly
<1>3. PICK r \in Task : TRUE
  BY StorageTasks
<1>4. PICK own : own = Absent
  OBVIOUS
<1>5. Turn(r) /\ SameFile(r) /\ (snap[r] # Absent => pc'[r] \in TxStage)
  BY <1>1 DEF Inv, TypeOK, Typed, Turn, SameFile
<1>6. Known \subseteq Known'
  BY <1>1, <1>5, SameFileKnows
<1>7. pc'[r] # "idle" =>
        Shape(pc'[r], task'[r]) /\ Placed(db', bucket', used', Known', pc'[r], task'[r])
  BY <1>1, <1>6, AtWork, PlacedMore
<1>8. bucket' \subseteq Known' /\ puts' \subseteq Known' /\ used' \subseteq File
  BY <1>1, <1>6 DEF Inv, TypeOK, Core, Files
<1> QED
  BY <1>1, <1>2, <1>4, <1>5, <1>6, <1>7, <1>8, QuietAdvance

\* The task gives up waiting,
LEMMA KeepPutFails ==
  ASSUME Inv, NEW r \in Task, PutFails(r)
  PROVE  Kept
<1>1. /\ pc[r] = "put" /\ Goto(r, "abandon") /\ Quiet /\ task' = task
      /\ World' = World /\ used' = used /\ db' = db
  BY DEF PutFails, World, Quiet
<1>2. /\ Turn(r) /\ SameFile(r) /\ Known \subseteq Known'
      /\ pc'[r] = "abandon" /\ task'[r] = task[r]
  <2>1. "abandon" \in Stage \ {"idle", "reserve"}
    BY DEF Stage
  <2> QED
    BY <1>1, <2>1, GoesOn
<1>3. PICK w \in Work : w = task[r] /\ Shape("put", w)
                        /\ Placed(db, bucket, used, Known, "put", w)
  BY <1>1, AtWork
<1>4. Shape("abandon", w) /\ Placed(db', bucket', used', Known', "abandon", w)
  BY <1>1, <1>2, <1>3 DEF Shape, Placed, Uploads, Aims
<1> QED
  BY <1>1, <1>2, <1>3, <1>4, GoesQuietly DEF TxStage

\* What a renewed lease, of an entry that stays what it is, tells transactions.
LEMMA RenewQuietly ==
  ASSUME Inv, NEW f \in File, NEW renews \in BOOLEAN, db' = db, snap' = snap,
         due' = IF renews THEN due \ {f} ELSE due,
         dirty' = [q \in Task |-> IF snap[q] # Absent /\ renews
                                  THEN Join(dirty[q], [NoDocs EXCEPT !.files = {f}])
                                  ELSE dirty[q]]
  PROVE  Quietly
<1>1. PICK one \in DocSets : one = [NoDocs EXCEPT !.files = {f}]
  BY DEF DocSets, NoDocs
<1>2. \A q \in Task : dirty[q] \in DocSets
  BY DEF Inv, TypeOK
<1>3. \A a, b \in DocSets : Join(a, b) \in DocSets
  BY DEF Join, DocSets
<1>4. dirty' \in [Task -> DocSets]
  BY <1>1, <1>2, <1>3
<1>5. ASSUME NEW q \in Task, snap[q] # Absent
      PROVE  Evolves(snap[q], db, dirty'[q])
  <2>1. Evolves(snap[q], db, dirty[q])
    BY <1>5 DEF Inv, Core, SnapOK
  <2>2. Evolves(snap[q], db, Join(dirty[q], one))
    BY <1>1, <1>2, <2>1, EvolvesMore
  <2> QED
    BY <1>1, <1>5, <2>1, <2>2
<1>6. due' \subseteq File
  BY DEF Inv, TypeOK
<1> QED
  BY <1>4, <1>5, <1>6 DEF Quietly

\* leaves the reservation with a new lease,
LEMMA KeepAbandon ==
  ASSUME Inv, NEW r \in Task, Abandon(r)
  PROVE  Kept
<1>1. /\ pc[r] = "abandon" /\ Goto(r, "undo") /\ task' = task
      /\ db' = db /\ snap' = snap
      /\ bucket' = bucket /\ puts' = puts /\ used' = used /\ crashes' = crashes
  BY DEF Abandon, World
<1>2. PICK w \in Work : w = task[r] /\ Shape("abandon", w)
                        /\ Placed(db, bucket, used, Known, "abandon", w)
  BY <1>1, AtWork
<1>3. task[r].file \in File
  BY <1>2 DEF Shape, Uploads
<1>4. Quietly
  <2>1. PICK renews \in BOOLEAN : renews = InState(db, task[r].file, "reserved")
    BY DEF InState
  <2>2. /\ due' = IF renews THEN due \ {task[r].file} ELSE due
        /\ dirty' = [q \in Task |-> IF snap[q] # Absent /\ renews
                                    THEN Join(dirty[q], [NoDocs EXCEPT !.files = {task[r].file}])
                                    ELSE dirty[q]]
    BY <2>1 DEF Abandon
  <2> QED
    BY <1>1, <1>3, <2>2, RenewQuietly
<1>5. /\ Turn(r) /\ SameFile(r) /\ Known \subseteq Known'
      /\ pc'[r] = "undo" /\ task'[r] = task[r]
  <2>1. "undo" \in Stage \ {"idle", "reserve"}
    BY DEF Stage
  <2> QED
    BY <1>1, <2>1, GoesOn
<1>6. Shape("undo", w) /\ Placed(db', bucket', used', Known', "undo", w)
  BY <1>1, <1>2, <1>5 DEF Shape, Placed, Uploads, Aims
<1>7. snap[r] = Absent
  BY <1>1 DEF Inv, TypeOK, TxStage
<1>8. bucket' \subseteq Known' /\ puts' \subseteq Known' /\ used' \subseteq File
  BY <1>1, <1>5 DEF Inv, TypeOK, Core, Files
<1>9. PICK own : own = Absent
  OBVIOUS
<1> QED
  BY <1>1, <1>2, <1>4, <1>5, <1>6, <1>7, <1>8, <1>9, QuietAdvance

\* and deletes what may have arrived.
LEMMA KeepUndo ==
  ASSUME Inv, NEW r \in Task, Undo(r)
  PROVE  Kept
<1>1. /\ pc[r] = "undo" /\ Finish(r) /\ bucket' \in {bucket, bucket \ {task[r].file}}
      /\ Quiet /\ puts' = puts /\ used' = used /\ crashes' = crashes
  BY DEF Undo
<1>2. PICK w \in Work : w = task[r] /\ Shape("undo", w)
                        /\ Placed(db, bucket, used, Known, "undo", w)
  BY <1>1, AtWork
<1>3. PICK own \in File : own = task[r].file /\ Unattached(db, own)
  BY <1>2 DEF Shape, Placed, Uploads
<1>4. Turn(r) /\ SameFile(r) /\ pc'[r] = "idle"
  BY <1>1, TurnFinish
<1>5. Known \subseteq Known'
  BY <1>1, <1>4, SameFileKnows
<1>6. bucket' \subseteq Known' /\ puts' \subseteq Known' /\ used' \subseteq File
  BY <1>1, <1>5 DEF Inv, TypeOK, Core, Files
<1>7. \A f \in File : f \in bucket /\ f \notin bucket' => f = own \/ Condemned(db, f)
  BY <1>1, <1>3
<1>8. Quietly /\ (snap[r] # Absent => pc'[r] \in TxStage)
  BY <1>1, QuietIs DEF Inv, TypeOK, TxStage
<1> QED
  BY <1>1, <1>3, <1>4, <1>5, <1>6, <1>7, <1>8, QuietAdvance

\* An upload that arrived is marked, unless the recovery took it.
LEMMA KeepMark ==
  ASSUME Inv, NEW r \in Task, MarkTx(r)
  PROVE  Kept
<1> DEFINE f == task[r].file
           s == snap[r]
<1>1. /\ pc[r] = "mark" /\ InBody(r, "mark") /\ World' = World /\ pc[r] # "idle"
      /\ bucket' = bucket /\ used' = used /\ puts' = puts /\ crashes' = crashes
  BY DEF MarkTx, InBody, World
<1>2. PICK w \in Work : w = task[r] /\ Shape("mark", w)
                        /\ Placed(db, bucket, used, Known, "mark", w)
  BY <1>1, AtWork
<1>3. f \in File
  BY <1>2 DEF Shape, Uploads
<1>4. s \in Documents /\ snap[r] # Absent /\ Sound(s) /\ db \in Documents /\ Sound(db)
  BY <1>1, InSnap
<1>5. crashes' \in 0 .. MaxCrashes /\ puts \subseteq Known
  BY <1>1 DEF Inv, TypeOK, Core, Files
<1>6. ASSUME InState(s, f, "reserved"), CommitTx(r, MarkUploaded(s, f), {}, {}),
             Goto(r, "read"), task' = task
      PROVE  Kept
  <2>1. PICK docs \in DocSets :
          /\ Commits(s, db, MarkUploaded(s, f), dirty[r], docs)
          /\ db' = Merge(db, s, MarkUploaded(s, f)) /\ LeaveTx(r, docs) /\ due' \subseteq File
    BY <1>4, <1>6, Committed
  <2>2. Effect(db, db', docs, Absent, f, Absent) /\ InState(db, f, "reserved")
    BY <1>3, <1>4, <1>6, <2>1, CommitMark
  <2>3. f \in bucket
    BY <1>2, <2>2 DEF Placed
  <2>4. /\ Turn(r) /\ SameFile(r) /\ Known \subseteq Known'
        /\ pc'[r] = "read" /\ task'[r] = w
    <3>1. "read" \in Stage \ {"idle", "reserve"}
      BY DEF Stage
    <3> QED
      BY <1>1, <1>2, <1>6, <3>1, GoesOn
  <2>5. Shape("read", w)
    BY <1>2, <1>3 DEF Shape, Uploads, Aims
  <2>6. Placed(db', bucket', used', Known', "read", w)
    BY <1>1, <1>2, <2>4 DEF Placed, Aims, Uploads
  <2> QED
    BY <1>1, <1>5, <2>1, <2>2, <2>3, <2>4, <2>5, <2>6, CommitAdvance
<1>7. ASSUME EndTx(r), Goto(r, "undo"), task' = task
      PROVE  Kept
  <2>1. /\ Turn(r) /\ SameFile(r) /\ Known \subseteq Known'
        /\ pc'[r] = "undo" /\ task'[r] = w
    <3>1. "undo" \in Stage \ {"idle", "reserve"}
      BY DEF Stage
    <3> QED
      BY <1>1, <1>2, <1>7, <3>1, GoesOn
  <2>2. Shape("undo", w) /\ Placed(db', bucket', used', Known', "undo", w)
    BY <1>1, <1>2, <1>7, <2>1 DEF Shape, Placed, Uploads, Aims, EndTx
  <2> QED
    BY <1>1, <1>5, <1>7, <2>1, <2>2, EndAdvance
<1>8. ASSUME RetryTx(r, MarkUploaded(s, f), {})
      PROVE  Kept
  BY <1>1, <1>8, RetryAdvance
<1> QED
  BY <1>6, <1>7, <1>8 DEF MarkTx

\* After a write: the former image, which is condemned, is to be deleted.
LEMMA CleanupGoes ==
  ASSUME Inv, NEW r \in Task, pc[r] # "idle", used' = used, NEW prev, Cleanup(r, prev),
         prev \in File => prev \in Known /\ Condemned(db', prev)
  PROVE  /\ Turn(r) /\ SameFile(r) /\ Known \subseteq Known'
         /\ pc'[r] # "idle" =>
              Shape(pc'[r], task'[r]) /\ Placed(db', bucket', used', Known', pc'[r], task'[r])
<1>1. CASE prev \in File
  <2>1. Goto(r, "delete") /\ Set(r, "target", prev)
    BY <1>1 DEF Cleanup
  <2>2. PICK w \in Work : w = task[r] /\ Shape(pc[r], w)
                          /\ Placed(db, bucket, used, Known, pc[r], w)
    BY AtWork
  <2>3. PICK v \in Work :
          /\ v = Revised(w, "target", prev)
          /\ v.kind = w.kind /\ v.file = w.file /\ v.freed = w.freed /\ v.todo = w.todo
          /\ v.target = prev /\ v.owner = w.owner /\ v.prev = w.prev /\ v.seen = w.seen
    BY <1>1, RevisedTarget
  <2>4. task' = [task EXCEPT ![r] = v]
    BY <2>1, <2>2, <2>3, SetRevises
  <2>5. "delete" \in Stage \ {"idle", "reserve"}
    BY DEF Stage
  <2>6. /\ Turn(r) /\ SameFile(r) /\ Known \subseteq Known'
        /\ pc'[r] = "delete" /\ task'[r] = v
    BY <2>1, <2>2, <2>3, <2>4, <2>5, GoesOnWith
  <2>7. Shape("delete", v)
    BY <2>2, <2>3 DEF Shape, Uploads, Aims
  <2>8. Placed(db', bucket', used', Known', "delete", v)
    BY <1>1, <2>2, <2>3, <2>6, PlacedNext DEF Uploads, Aims
  <2> QED
    BY <2>6, <2>7, <2>8
<1>2. CASE prev \notin File
  <2>1. Finish(r)
    BY <1>2 DEF Cleanup
  <2> QED
    BY <2>1, TurnFinish, SameFileKnows
<1> QED
  BY <1>1, <1>2

\* The document to write is read, or the request refused.
LEMMA KeepRead ==
  ASSUME Inv, NEW r \in Task, ReadOwner(r)
  PROVE  Kept
<1> DEFINE o == task[r].owner
<1>1. /\ pc[r] = "read" /\ Quiet /\ World' = World /\ used' = used /\ db' = db
      /\ pc[r] \notin TxStage
  BY DEF ReadOwner, World, Quiet, TxStage
<1>2. PICK w \in Work : w = task[r] /\ Shape("read", w)
                        /\ Placed(db, bucket, used, Known, "read", w)
  BY <1>1, AtWork
<1>3. ASSUME Finish(r) PROVE Kept
  BY <1>1, <1>3, TurnFinish, GoesQuietly
<1>4. ASSUME w.kind # "clear", Goto(r, "discard"), task' = task
      PROVE  Kept
  <2>1. /\ Turn(r) /\ SameFile(r) /\ Known \subseteq Known'
        /\ pc'[r] = "discard" /\ task'[r] = w
    <3>1. "discard" \in Stage \ {"idle", "reserve"}
      BY DEF Stage, TxStage
    <3> QED
      BY <1>1, <1>2, <1>4, <3>1, GoesOn
  <2>2. Shape("discard", w)
    BY <1>2, <1>4 DEF Shape, Uploads, Aims
  <2>3. Placed(db', bucket', used', Known', "discard", w)
    BY <1>1, <1>2, <2>1 DEF Placed, Uploads, Aims
  <2> QED
    BY <1>1, <2>1, <2>2, <2>3, GoesQuietly
<1>5. ASSUME w.kind = "create" <=> db.image[o] = Gone,
             w.kind = "clear" => db.image[o] # NoFile,
             Set(r, "prev", db.image[o]),
             Goto(r, IF w.kind = "clear" THEN "remove" ELSE "write")
      PROVE  Kept
  <2>1. o \in Owner /\ db.image[o] \in Image
    BY <1>2, Parts DEF Shape, Inv, TypeOK
  <2>2. PICK v \in Work :
          /\ v = Revised(w, "prev", db.image[o])
          /\ v.kind = w.kind /\ v.file = w.file /\ v.freed = w.freed /\ v.todo = w.todo
          /\ v.target = w.target /\ v.owner = w.owner /\ v.prev = db.image[o] /\ v.seen = w.seen
    BY <2>1, RevisedPrev DEF Image
  <2>3. task' = [task EXCEPT ![r] = v]
    BY <1>1, <1>2, <1>5, <2>2, SetRevises
  <2>4. PICK stage \in Stage \ {"idle", "reserve"} :
          stage = IF w.kind = "clear" THEN "remove" ELSE "write"
    BY DEF Stage, TxStage
  <2>5. /\ Turn(r) /\ SameFile(r) /\ Known \subseteq Known'
        /\ pc'[r] = stage /\ task'[r] = v
    BY <1>1, <1>2, <1>5, <2>2, <2>3, <2>4, GoesOnWith
  <2>6. Shape(stage, v)
    BY <1>2, <1>5, <2>1, <2>2, <2>4 DEF Shape, Uploads, Aims, Image
  <2>7. Placed(db', bucket', used', Known', stage, v)
    BY <1>1, <1>2, <2>2, <2>4, <2>5 DEF Placed, Uploads, Aims
  <2> QED
    BY <1>1, <2>5, <2>6, <2>7, GoesQuietly
<1> QED
  BY <1>2, <1>3, <1>4, <1>5 DEF ReadOwner

\* The reference is written; the former image is condemned.
LEMMA KeepWrite ==
  ASSUME Inv, NEW r \in Task, WriteTx(r)
  PROVE  Kept
<1> DEFINE o == task[r].owner
           f == task[r].file
           prev == task[r].prev
           s == snap[r]
<1>1. /\ pc[r] = "write" /\ InBody(r, "write") /\ World' = World /\ pc[r] # "idle"
      /\ bucket' = bucket /\ used' = used /\ puts' = puts /\ crashes' = crashes
  BY DEF WriteTx, InBody, World
<1>2. PICK w \in Work : w = task[r] /\ Shape("write", w)
                        /\ Placed(db, bucket, used, Known, "write", w)
  BY <1>1, AtWork
<1>3. f \in File /\ o \in Owner /\ prev \in Image
  BY <1>2 DEF Shape
<1>4. s \in Documents /\ snap[r] # Absent /\ Sound(s) /\ db \in Documents /\ Sound(db)
      /\ \A g \in File : InUse(s, g) => g \in Known
  BY <1>1, InSnap
<1>5. crashes' \in 0 .. MaxCrashes /\ puts \subseteq Known
  BY <1>1 DEF Inv, TypeOK, Core, Files
<1>6. ASSUME Goto(r, "discard"), task' = task
      PROVE  /\ Turn(r) /\ SameFile(r) /\ Known \subseteq Known'
             /\ Shape(pc'[r], task'[r]) /\ Placed(db', bucket', used', Known', pc'[r], task'[r])
  <2>1. /\ Turn(r) /\ SameFile(r) /\ Known \subseteq Known'
        /\ pc'[r] = "discard" /\ task'[r] = w
    <3>1. "discard" \in Stage \ {"idle", "reserve"}
      BY DEF Stage, TxStage
    <3> QED
      BY <1>1, <1>2, <1>6, <3>1, GoesOn
  <2>2. Shape("discard", w)
    BY <1>2, <1>3 DEF Shape, Uploads, Aims
  <2>3. Placed(db', bucket', used', Known', "discard", w)
    BY <1>1, <1>2, <2>1 DEF Placed, Uploads, Aims
  <2> QED
    BY <2>1, <2>2, <2>3
<1>7. ASSUME Writable(s, o, f, prev), CommitTx(r, WriteImage(s, o, f, prev), {}, {}),
             Cleanup(r, prev) \/ (Goto(r, "discard") /\ task' = task)
      PROVE  Kept
  <2>1. PICK docs \in DocSets :
          /\ Commits(s, db, WriteImage(s, o, f, prev), dirty[r], docs)
          /\ db' = Merge(db, s, WriteImage(s, o, f, prev)) /\ LeaveTx(r, docs) /\ due' \subseteq File
    BY <1>4, <1>7, Committed
  <2>2. Effect(db, db', docs, Absent, Absent, Absent) /\ Refer(db, db', o, f) /\ db.image[o] = prev
    BY <1>3, <1>4, <1>7, <2>1, CommitWrite
  <2>3. prev \in File => prev \in Known /\ Condemned(db', prev)
    <3>1. db' \in Documents /\ f \in Image
      BY <1>3, <2>2 DEF Effect, Image
    <3>2. prev \in File => Condemned(db', prev)
      BY <1>3, <1>4, <2>2, <3>1, ReferCondemns
    <3>3. prev \in File => InUse(s, prev)
      BY <1>3, <1>7 DEF Writable, InUse, Referenced
    <3> QED
      BY <1>4, <3>2, <3>3
  <2>4. /\ Turn(r) /\ SameFile(r) /\ Known \subseteq Known'
        /\ pc'[r] # "idle" =>
             Shape(pc'[r], task'[r]) /\ Placed(db', bucket', used', Known', pc'[r], task'[r])
    BY <1>1, <1>6, <1>7, <2>3, CleanupGoes
  <2> QED
    BY <1>1, <1>5, <2>1, <2>2, <2>4, CommitAdvance
<1>8. ASSUME EndTx(r), Goto(r, "discard"), task' = task
      PROVE  Kept
  BY <1>1, <1>5, <1>6, <1>8, EndAdvance
<1>9. ASSUME RetryTx(r, WriteImage(s, o, f, prev), {})
      PROVE  Kept
  BY <1>1, <1>9, RetryAdvance
<1> QED
  BY <1>7, <1>8, <1>9 DEF WriteTx

\* A failed write gives the file up.
LEMMA KeepDiscard ==
  ASSUME Inv, NEW r \in Task, DiscardTx(r)
  PROVE  Kept
<1> DEFINE f == task[r].file
           s == snap[r]
<1>1. /\ pc[r] = "discard" /\ InBody(r, "discard") /\ World' = World /\ pc[r] # "idle"
      /\ bucket' = bucket /\ used' = used /\ puts' = puts /\ crashes' = crashes
  BY DEF DiscardTx, InBody, World
<1>2. PICK w \in Work : w = task[r] /\ Shape("discard", w)
                        /\ Placed(db, bucket, used, Known, "discard", w)
  BY <1>1, AtWork
<1>3. f \in File
  BY <1>2 DEF Shape
<1>4. s \in Documents /\ snap[r] # Absent /\ Sound(s) /\ db \in Documents /\ Sound(db)
      /\ \A g \in File : InUse(s, g) => g \in Known
  BY <1>1, InSnap
<1>5. crashes' \in 0 .. MaxCrashes /\ puts \subseteq Known
  BY <1>1 DEF Inv, TypeOK, Core, Files
<1>6. ASSUME CommitTx(r, Discard(s, f), {}, {}),
             (InState(s, f, "uploaded") /\ Cleanup(r, f)) \/ Finish(r)
      PROVE  Kept
  <2>1. PICK docs \in DocSets :
          /\ Commits(s, db, Discard(s, f), dirty[r], docs)
          /\ db' = Merge(db, s, Discard(s, f)) /\ LeaveTx(r, docs) /\ due' \subseteq File
    BY <1>4, <1>6, Committed
  <2>2. /\ Effect(db, db', docs, Absent, Absent, Absent)
        /\ InState(s, f, "uploaded") => InState(db', f, "deleting")
    BY <1>3, <1>4, <2>1, CommitDiscard
  <2>3. InState(s, f, "uploaded") => f \in Known /\ Condemned(db', f)
    <3>1. Sound(db')
      BY <1>4, <2>2, EffectStep
    <3> QED
      BY <1>3, <1>4, <2>2, <3>1 DEF Condemned, InState, InUse, Sound
  <2>4. ASSUME Finish(r)
        PROVE  Turn(r) /\ SameFile(r) /\ Known \subseteq Known' /\ pc'[r] = "idle"
    BY <1>1, <2>4, TurnFinish, SameFileKnows
  <2>5. /\ Turn(r) /\ SameFile(r) /\ Known \subseteq Known'
        /\ pc'[r] # "idle" =>
             Shape(pc'[r], task'[r]) /\ Placed(db', bucket', used', Known', pc'[r], task'[r])
    BY <1>1, <1>3, <1>6, <2>3, <2>4, CleanupGoes
  <2> QED
    BY <1>1, <1>5, <2>1, <2>2, <2>5, CommitAdvance
<1>7. ASSUME RetryTx(r, Discard(s, f), {})
      PROVE  Kept
  BY <1>1, <1>7, RetryAdvance
<1> QED
  BY <1>6, <1>7 DEF DiscardTx

\* An image is removed; its file is condemned.
LEMMA KeepRemove ==
  ASSUME Inv, NEW r \in Task, RemoveTx(r)
  PROVE  Kept
<1> DEFINE o == task[r].owner
           s == snap[r]
<1>1. /\ pc[r] = "remove" /\ InBody(r, "remove") /\ World' = World /\ pc[r] # "idle"
      /\ bucket' = bucket /\ used' = used /\ puts' = puts /\ crashes' = crashes
  BY DEF RemoveTx, InBody, World
<1>2. PICK w \in Work : w = task[r] /\ Shape("remove", w)
                        /\ Placed(db, bucket, used, Known, "remove", w)
  BY <1>1, AtWork
<1>3. o \in Owner
  BY <1>2 DEF Shape
<1>4. s \in Documents /\ snap[r] # Absent /\ Sound(s) /\ db \in Documents /\ Sound(db)
      /\ \A g \in File : InUse(s, g) => g \in Known
  BY <1>1, InSnap
<1>5. crashes' \in 0 .. MaxCrashes /\ puts \subseteq Known
  BY <1>1 DEF Inv, TypeOK, Core, Files
<1>6. PICK left \in {NoFile, Gone} : left = IF task[r].kind = "purge" THEN Gone ELSE NoFile
  OBVIOUS
<1>7. ASSUME IF task[r].kind = "purge" THEN s.image[o] # Gone ELSE s.image[o] = task[r].prev,
             CommitTx(r, RemoveImage(s, o, left), {}, {}), Cleanup(r, s.image[o])
      PROVE  Kept
  <2>1. left # s.image[o] /\ s.image[o] # Gone
    BY <1>2, <1>6, <1>7, StorageSentinels DEF Shape
  <2>2. PICK docs \in DocSets :
          /\ Commits(s, db, RemoveImage(s, o, left), dirty[r], docs)
          /\ db' = Merge(db, s, RemoveImage(s, o, left)) /\ LeaveTx(r, docs) /\ due' \subseteq File
    BY <1>4, <1>7, Committed
  <2>3. Effect(db, db', docs, Absent, Absent, Absent) /\ Refer(db, db', o, left)
        /\ db.image[o] = s.image[o]
    BY <1>3, <1>4, <2>1, <2>2, CommitRemove
  <2>4. s.image[o] \in File => s.image[o] \in Known /\ Condemned(db', s.image[o])
    <3>1. db' \in Documents /\ left \in Image
      BY <2>3 DEF Effect, Image
    <3>2. db.image[o] \in File => Condemned(db', db.image[o])
      BY <1>3, <1>4, <2>3, <3>1, ReferCondemns
    <3>3. s.image[o] \in File => InUse(s, s.image[o])
      BY <1>3 DEF InUse, Referenced
    <3> QED
      BY <1>4, <2>3, <3>2, <3>3
  <2>5. /\ Turn(r) /\ SameFile(r) /\ Known \subseteq Known'
        /\ pc'[r] # "idle" =>
             Shape(pc'[r], task'[r]) /\ Placed(db', bucket', used', Known', pc'[r], task'[r])
    BY <1>1, <1>7, <2>4, CleanupGoes
  <2> QED
    BY <1>1, <1>5, <2>2, <2>3, <2>5, CommitAdvance
<1>8. ASSUME EndTx(r), Finish(r)
      PROVE  Kept
  BY <1>1, <1>5, <1>8, TurnFinish, EndAdvance
<1>9. ASSUME RetryTx(r, RemoveImage(s, o, left), {})
      PROVE  Kept
  BY <1>1, <1>9, RetryAdvance
<1> QED
  BY <1>6, <1>7, <1>8, <1>9 DEF RemoveTx

\* After a deletion: the pass goes on, the request ends.
LEMMA GoOnGoes ==
  ASSUME Inv, NEW r \in Task, pc[r] # "idle", used' = used, GoOn(r)
  PROVE  /\ Turn(r) /\ SameFile(r) /\ Known \subseteq Known'
         /\ pc'[r] # "idle" =>
              Shape(pc'[r], task'[r]) /\ Placed(db', bucket', used', Known', pc'[r], task'[r])
<1>1. CASE Finish(r)
  BY <1>1, TurnFinish, SameFileKnows
<1>2. CASE Goto(r, "pick") /\ task' = task
  <2>1. PICK w \in Work : w = task[r] /\ Shape(pc[r], w)
                          /\ Placed(db, bucket, used, Known, pc[r], w)
    BY AtWork
  <2>2. /\ Turn(r) /\ SameFile(r) /\ Known \subseteq Known'
        /\ pc'[r] = "pick" /\ task'[r] = w
    <3>1. "pick" \in Stage \ {"idle", "reserve"}
      BY DEF Stage, TxStage
    <3> QED
      BY <1>2, <2>1, <3>1, GoesOn
  <2>3. Shape("pick", w)
    BY <2>1 DEF Shape, Uploads
  <2>4. Placed(db', bucket', used', Known', "pick", w)
    BY <2>1, <2>2, PlacedNext DEF Uploads, Aims
  <2> QED
    BY <2>2, <2>3, <2>4
<1> QED
  BY <1>1, <1>2 DEF GoOn

\* A condemned file is deleted,
LEMMA KeepDelete ==
  ASSUME Inv, NEW r \in Task, DeleteFile(r)
  PROVE  Kept
<1>1. /\ pc[r] = "delete" /\ bucket' = bucket \ {task[r].target} /\ Goto(r, "release")
      /\ Quiet /\ puts' = puts /\ used' = used /\ task' = task /\ crashes' = crashes
  BY DEF DeleteFile
<1>2. PICK w \in Work : w = task[r] /\ Shape("delete", w)
                        /\ Placed(db, bucket, used, Known, "delete", w)
  BY <1>1, AtWork
<1>3. w.target \in Known /\ Condemned(db, w.target)
  BY <1>2 DEF Placed, Aims
<1>4. /\ Turn(r) /\ SameFile(r) /\ Known \subseteq Known'
      /\ pc'[r] = "release" /\ task'[r] = w
  <2>1. "release" \in Stage \ {"idle", "reserve"}
    BY DEF Stage, TxStage
  <2> QED
    BY <1>1, <1>2, <2>1, GoesOn
<1>5. Shape("release", w)
  BY <1>2 DEF Shape, Uploads, Aims
<1>6. Placed(db', bucket', used', Known', "release", w)
  BY <1>1, <1>2, <1>3, <1>4, PlacedNext DEF Uploads, Aims
<1>7. Quietly /\ (snap[r] # Absent => pc'[r] \in TxStage)
  BY <1>1, QuietIs DEF Inv, TypeOK, TxStage
<1>8. bucket' \subseteq Known' /\ puts' \subseteq Known' /\ used' \subseteq File
  BY <1>1, <1>4 DEF Inv, TypeOK, Core, Files
<1>9. PICK own : own = Absent
  OBVIOUS
<1>10. \A f \in File : f \in bucket /\ f \notin bucket' => f = own \/ Condemned(db, f)
  BY <1>1, <1>2, <1>3
<1> QED
  BY <1>1, <1>4, <1>5, <1>6, <1>7, <1>8, <1>9, <1>10, QuietAdvance

\* perhaps unheard of,
LEMMA KeepDeleteFails ==
  ASSUME Inv, NEW r \in Task, DeleteFails(r)
  PROVE  Kept
<1> DEFINE f == task[r].target
<1>1. /\ pc[r] = "delete" /\ bucket' \in {bucket, bucket \ {f}} /\ GoOn(r)
      /\ db' = db /\ snap' = snap /\ puts' = puts /\ used' = used /\ crashes' = crashes
  BY DEF DeleteFails
<1>2. PICK w \in Work : w = task[r] /\ Shape("delete", w)
                        /\ Placed(db, bucket, used, Known, "delete", w)
  BY <1>1, AtWork
<1>3. f \in Known /\ f \in File /\ Condemned(db, f)
  BY <1>2 DEF Placed, Aims, Known, Inv, TypeOK
<1>4. /\ Turn(r) /\ SameFile(r) /\ Known \subseteq Known'
      /\ pc'[r] # "idle" =>
           Shape(pc'[r], task'[r]) /\ Placed(db', bucket', used', Known', pc'[r], task'[r])
  BY <1>1, GoOnGoes
<1>5. Quietly
  <2>1. PICK renews \in BOOLEAN :
          renews = (Passes(task[r]) /\ db.entry[f] # Absent /\ db.entry[f].state # "attached")
    OBVIOUS
  <2>2. /\ due' = IF renews THEN due \ {f} ELSE due
        /\ dirty' = [q \in Task |-> IF snap[q] # Absent /\ renews
                                    THEN Join(dirty[q], [NoDocs EXCEPT !.files = {f}])
                                    ELSE dirty[q]]
    BY <2>1 DEF DeleteFails
  <2> QED
    BY <1>1, <1>3, <2>2, RenewQuietly
<1>6. snap[r] # Absent => pc'[r] \in TxStage
  BY <1>1 DEF Inv, TypeOK, TxStage
<1>7. bucket' \subseteq Known' /\ puts' \subseteq Known' /\ used' \subseteq File
  BY <1>1, <1>4 DEF Inv, TypeOK, Core, Files
<1>8. PICK own : own = Absent
  OBVIOUS
<1>9. \A g \in File : g \in bucket /\ g \notin bucket' => g = own \/ Condemned(db, g)
  BY <1>1, <1>3
<1> QED
  BY <1>1, <1>4, <1>5, <1>6, <1>7, <1>8, <1>9, QuietAdvance

\* and its bytes are given back.
LEMMA KeepRelease ==
  ASSUME Inv, NEW r \in Task, ReleaseTx(r)
  PROVE  Kept
<1> DEFINE f == task[r].target
           s == snap[r]
<1>1. /\ pc[r] = "release" /\ InBody(r, "release") /\ World' = World /\ pc[r] # "idle"
      /\ bucket' = bucket /\ used' = used /\ puts' = puts /\ crashes' = crashes
  BY DEF ReleaseTx, InBody, World
<1>2. PICK w \in Work : w = task[r] /\ Shape("release", w)
                        /\ Placed(db, bucket, used, Known, "release", w)
  BY <1>1, AtWork
<1>3. f \in File /\ f \in Known
  BY <1>2 DEF Placed, Aims, Known, Inv, TypeOK
<1>4. s \in Documents /\ snap[r] # Absent /\ Sound(s) /\ db \in Documents /\ Sound(db)
  BY <1>1, InSnap
<1>5. crashes' \in 0 .. MaxCrashes /\ puts \subseteq Known
  BY <1>1 DEF Inv, TypeOK, Core, Files
<1>6. ASSUME task[r].freed \in {"none", "some"}, Goto(r, "pick"), Set(r, "freed", "some")
      PROVE  /\ Turn(r) /\ SameFile(r) /\ Known \subseteq Known'
             /\ pc'[r] # "idle" =>
                  Shape(pc'[r], task'[r]) /\ Placed(db', bucket', used', Known', pc'[r], task'[r])
  <2>1. PICK v \in Work :
          /\ v = Revised(w, "freed", "some")
          /\ v.kind = w.kind /\ v.file = w.file /\ v.freed = "some" /\ v.todo = w.todo
          /\ v.target = w.target /\ v.owner = w.owner /\ v.prev = w.prev /\ v.seen = w.seen
    BY RevisedFreed
  <2>2. task' = [task EXCEPT ![r] = v]
    BY <1>1, <1>2, <1>6, <2>1, SetRevises
  <2>3. /\ Turn(r) /\ SameFile(r) /\ Known \subseteq Known'
        /\ pc'[r] = "pick" /\ task'[r] = v
    <3>1. "pick" \in Stage \ {"idle", "reserve"}
      BY DEF Stage, TxStage
    <3> QED
      BY <1>1, <1>2, <1>6, <2>1, <2>2, <3>1, GoesOnWith
  <2>4. Shape("pick", v)
    BY <1>2, <1>6, <2>1 DEF Shape, Uploads
  <2>5. Placed(db', bucket', used', Known', "pick", v)
    BY <1>1, <1>2, <2>1, <2>3, PlacedNext DEF Uploads, Aims
  <2> QED
    BY <2>3, <2>4, <2>5
<1>7. ASSUME Releasable(s, f), CommitTx(r, Release(s, f), {}, {}),
             IF task[r].freed \in {"none", "some"}
             THEN Goto(r, "pick") /\ Set(r, "freed", "some") ELSE GoOn(r)
      PROVE  Kept
  <2>1. PICK docs \in DocSets :
          /\ Commits(s, db, Release(s, f), dirty[r], docs)
          /\ db' = Merge(db, s, Release(s, f)) /\ LeaveTx(r, docs) /\ due' \subseteq File
    BY <1>4, <1>7, Committed
  <2>2. Effect(db, db', docs, Absent, Absent, Absent)
    BY <1>3, <1>4, <1>7, <2>1, CommitRelease DEF Releasable
  <2>3. /\ Turn(r) /\ SameFile(r) /\ Known \subseteq Known'
        /\ pc'[r] # "idle" =>
             Shape(pc'[r], task'[r]) /\ Placed(db', bucket', used', Known', pc'[r], task'[r])
    BY <1>1, <1>6, <1>7, GoOnGoes
  <2> QED
    BY <1>1, <1>5, <2>1, <2>2, <2>3, CommitAdvance
<1>8. ASSUME EndTx(r), GoOn(r)
      PROVE  Kept
  BY <1>1, <1>5, <1>8, GoOnGoes, EndAdvance
<1>9. ASSUME RetryTx(r, Release(s, f), {})
      PROVE  Kept
  BY <1>1, <1>9, RetryAdvance
<1> QED
  BY <1>7, <1>8, <1>9 DEF ReleaseTx

\* The next entry of a pass is taken up.
LEMMA KeepPick ==
  ASSUME Inv, NEW r \in Task, Pick(r)
  PROVE  Kept
<1>1. /\ pc[r] = "pick" /\ Quiet /\ World' = World /\ used' = used /\ db' = db
      /\ pc[r] \notin TxStage
  BY DEF Pick, World, Quiet, TxStage
<1>2. PICK w \in Work : w = task[r] /\ Shape("pick", w)
                        /\ Placed(db, bucket, used, Known, "pick", w)
  BY <1>1, AtWork
<1>3. ASSUME Finish(r) PROVE Kept
  BY <1>1, <1>3, TurnFinish, GoesQuietly
<1>4. ASSUME w.freed = "some", Goto(r, "reserve"), Set(r, "freed", "retried")
      PROVE  Kept
  <2>1. PICK v \in Work :
          /\ v = Revised(w, "freed", "retried")
          /\ v.kind = w.kind /\ v.file = w.file /\ v.freed = "retried" /\ v.todo = w.todo
          /\ v.target = w.target /\ v.owner = w.owner /\ v.prev = w.prev /\ v.seen = w.seen
    BY RevisedFreed
  <2>2. task' = [task EXCEPT ![r] = v]
    BY <1>1, <1>2, <1>4, <2>1, SetRevises
  <2>3. Turn(r) /\ pc'[r] = "reserve" /\ task'[r] = v
    <3>1. "reserve" \in Stage \ {"idle"}
      BY DEF Stage, TxStage
    <3> QED
      BY <1>4, <2>2, <3>1, TurnWork
  <2>4. SameFile(r)
    BY <1>1, <1>2, <1>4, <2>1, <2>3 DEF SameFile, Drawn
  <2>5. Known \subseteq Known'
    BY <1>1, <2>3, <2>4, SameFileKnows
  <2>6. Shape("reserve", v)
    BY <1>2, <1>4, <2>1 DEF Shape, Uploads, Aims
  <2>7. Placed(db', bucket', used', Known', "reserve", v)
    BY <1>1, <1>2, <2>1, <2>5, PlacedNext DEF Uploads, Aims
  <2> QED
    BY <1>1, <2>3, <2>4, <2>6, <2>7, GoesQuietly
<1>5. ASSUME NEW e \in w.todo,
             task' = [task EXCEPT ![r].todo = @ \ {e}, ![r].target = e[1], ![r].seen = e[2]],
             Goto(r, IF e[2] \in State \ {"attached"} THEN "decide" ELSE "fetch")
      PROVE  Kept
  <2>1. w.todo \in SUBSET (File \X (State \cup {Absent}))
    BY DEF Work
  <2>2. e[1] \in File /\ e[2] \in State \cup {Absent} /\ e[1] \in Known
    BY <1>2, <1>5, <2>1 DEF Placed
  <2>3. PICK todo \in SUBSET (File \X (State \cup {Absent})) : todo = w.todo \ {e}
    BY <2>1
  <2>4. PICK a \in Work :
          /\ a = Revised(w, "todo", todo)
          /\ a.kind = w.kind /\ a.file = w.file /\ a.freed = w.freed /\ a.todo = todo
          /\ a.owner = w.owner /\ a.prev = w.prev
    BY RevisedTodo
  <2>5. PICK b \in Work :
          /\ b = Revised(a, "target", e[1])
          /\ b.kind = w.kind /\ b.file = w.file /\ b.freed = w.freed /\ b.todo = todo
          /\ b.owner = w.owner /\ b.prev = w.prev /\ b.target = e[1]
    BY <2>2, <2>4, RevisedTarget
  <2>6. PICK v \in Work :
          /\ v = Revised(b, "seen", e[2])
          /\ v.kind = w.kind /\ v.file = w.file /\ v.freed = w.freed /\ v.todo = todo
          /\ v.owner = w.owner /\ v.prev = w.prev /\ v.target = e[1] /\ v.seen = e[2]
    BY <2>2, <2>5, RevisedSeen
  <2>7. task' = [task EXCEPT ![r] = v]
    <3>1. task \in [Task -> Work \cup {Absent}]
      BY DEF Inv, Typed
    <3>2. v = [[[w EXCEPT !.todo = w.todo \ {e}] EXCEPT !.target = e[1]] EXCEPT !.seen = e[2]]
      BY <2>3, <2>4, <2>5, <2>6 DEF Revised
    <3> QED
      BY <1>2, <1>5, <3>1, <3>2
  <2>8. PICK stage \in Stage \ {"idle", "reserve"} :
          stage = IF e[2] \in State \ {"attached"} THEN "decide" ELSE "fetch"
    BY DEF Stage, TxStage
  <2>9. /\ Turn(r) /\ SameFile(r) /\ Known \subseteq Known'
        /\ pc'[r] = stage /\ task'[r] = v
    <3>1. Goto(r, stage)
      BY <1>5, <2>8
    <3>2. /\ v.kind = task[r].kind /\ v.file = task[r].file
          /\ v.freed \in {"none", "some"} => task[r].freed \in {"none", "some"}
      BY <1>2, <2>6
    <3>3. pc[r] # "idle" /\ used \subseteq used'
      BY <1>1
    <3> QED
      BY <2>7, <3>1, <3>2, <3>3, GoesOnWith, Zenon
  <2>10. Shape(stage, v)
    BY <1>2, <2>6, <2>8 DEF Shape, Uploads, Aims
  <2>11. Placed(db', bucket', used', Known', stage, v)
    <3>1. v.todo \subseteq w.todo /\ v.target \in Known'
      BY <2>2, <2>3, <2>6, <2>9
    <3> QED
      BY <1>1, <1>2, <2>6, <2>8, <2>9, <3>1, PlacedNext DEF Uploads, Aims
  <2> QED
    BY <1>1, <2>9, <2>10, <2>11, GoesQuietly
<1> QED
  BY <1>2, <1>3, <1>4, <1>5 DEF Pick

\* The recovery keeps what is referred to, and condemns the rest,
LEMMA KeepDecide ==
  ASSUME Inv, NEW r \in Task, DecideTx(r)
  PROVE  Kept
<1> DEFINE f == task[r].target
           s == snap[r]
<1>1. /\ pc[r] = "decide" /\ InBody(r, "decide") /\ World' = World /\ pc[r] # "idle"
      /\ bucket' = bucket /\ used' = used /\ puts' = puts /\ crashes' = crashes
      /\ task' = task
  BY DEF DecideTx, InBody, World
<1>2. PICK w \in Work : w = task[r] /\ Shape("decide", w)
                        /\ Placed(db, bucket, used, Known, "decide", w)
  BY <1>1, AtWork
<1>3. f \in File /\ f \in Known /\ w.seen \in State \ {"attached"}
  BY <1>2 DEF Placed, Shape, Aims, Known, Inv, TypeOK
<1>4. /\ s \in Documents /\ snap[r] # Absent /\ Sound(s) /\ db \in Documents /\ Sound(db)
      /\ InState(s, f, "deleting") => Condemned(db, f)
  BY <1>1, <1>3, InSnap
<1>5. crashes' \in 0 .. MaxCrashes /\ puts \subseteq Known
  BY <1>1 DEF Inv, TypeOK, Core, Files
<1>6. ASSUME NEW stage \in {"pick", "delete"}, Goto(r, stage),
             stage = "delete" => Condemned(db', f)
      PROVE  /\ Turn(r) /\ SameFile(r) /\ Known \subseteq Known'
             /\ Shape(pc'[r], task'[r]) /\ Placed(db', bucket', used', Known', pc'[r], task'[r])
  <2>1. /\ Turn(r) /\ SameFile(r) /\ Known \subseteq Known'
        /\ pc'[r] = stage /\ task'[r] = w
    <3>1. stage \in Stage \ {"idle", "reserve"}
      BY DEF Stage, TxStage
    <3> QED
      BY <1>1, <1>2, <1>6, <3>1, GoesOn
  <2>2. Shape(stage, w)
    BY <1>2 DEF Shape, Uploads, Aims
  <2>3. Placed(db', bucket', used', Known', stage, w)
    <3>1. w.target \in Known'
      BY <1>2, <1>3, <2>1
    <3> QED
      BY <1>1, <1>2, <1>6, <2>1, <3>1, PlacedNext DEF Uploads
  <2> QED
    BY <2>1, <2>2, <2>3
<1>7. ASSUME InState(s, f, task[r].seen), CommitTx(r, Recover(s, f), {}, {}),
             IF Referenced(s, f) THEN Goto(r, "pick") ELSE Goto(r, "delete")
      PROVE  Kept
  <2>1. PICK docs \in DocSets :
          /\ Commits(s, db, Recover(s, f), dirty[r], docs)
          /\ db' = Merge(db, s, Recover(s, f)) /\ LeaveTx(r, docs) /\ due' \subseteq File
    BY <1>4, <1>7, Committed
  <2>2. s.entry[f] # Absent /\ s.entry[f].state # "attached"
    BY <1>2, <1>3, <1>7 DEF InState
  <2>3. /\ Effect(db, db', docs, Absent, Absent, Absent)
        /\ InState(db', f, "deleting") \/ (db' = db /\ InState(s, f, "deleting"))
    BY <1>3, <1>4, <2>1, <2>2, CommitRecover
  <2>4. Condemned(db', f)
    <3>1. Sound(db')
      BY <1>4, <2>3, EffectStep
    <3> QED
      BY <1>3, <1>4, <2>3, <3>1 DEF Condemned, InState, Sound
  <2>5. /\ Turn(r) /\ SameFile(r) /\ Known \subseteq Known'
        /\ Shape(pc'[r], task'[r]) /\ Placed(db', bucket', used', Known', pc'[r], task'[r])
    BY <1>6, <1>7, <2>4
  <2> QED
    BY <1>1, <1>5, <2>1, <2>3, <2>5, CommitAdvance
<1>8. ASSUME EndTx(r), Goto(r, "pick")
      PROVE  Kept
  BY <1>1, <1>5, <1>6, <1>8, EndAdvance
<1>9. ASSUME RetryTx(r, Recover(s, f), {})
      PROVE  Kept
  BY <1>1, <1>9, RetryAdvance
<1> QED
  BY <1>7, <1>8, <1>9 DEF DecideTx

\* A pass reads what it is about to deal with.
LEMMA KeepFetch ==
  ASSUME Inv, NEW r \in Task, Fetch(r)
  PROVE  Kept
<1>1. /\ pc[r] = "fetch" /\ Quiet /\ World' = World /\ used' = used /\ db' = db
      /\ pc[r] \notin TxStage /\ task' = task /\ pc[r] # "idle"
  BY DEF Fetch, World, Quiet, TxStage
<1>2. PICK w \in Work : w = task[r] /\ Shape("fetch", w)
                        /\ Placed(db, bucket, used, Known, "fetch", w)
  BY <1>1, AtWork
<1>3. PICK stage \in {"pick", "orphan", "count"} : Goto(r, stage)
  BY DEF Fetch
<1>4. /\ Turn(r) /\ SameFile(r) /\ Known \subseteq Known'
      /\ pc'[r] = stage /\ task'[r] = w
  <2>1. stage \in Stage \ {"idle", "reserve"}
    BY DEF Stage, TxStage
  <2> QED
    BY <1>1, <1>2, <1>3, <2>1, GoesOn
<1>5. Shape(stage, w)
  BY <1>2 DEF Shape, Uploads, Aims
<1>6. Placed(db', bucket', used', Known', stage, w)
  BY <1>1, <1>2, <1>4 DEF Placed, Uploads, Aims
<1> QED
  BY <1>1, <1>4, <1>5, <1>6, GoesQuietly

\* After a count the pass goes on, or decides on the entry it made.
LEMMA CountGoes ==
  ASSUME Inv, NEW r \in Task, pc[r] \in {"count", "orphan"}, used' = used,
         \/ Goto(r, "pick") /\ task' = task
         \/ Goto(r, "decide") /\ Set(r, "seen", "deleting")
  PROVE  /\ Turn(r) /\ SameFile(r) /\ Known \subseteq Known'
         /\ Shape(pc'[r], task'[r]) /\ Placed(db', bucket', used', Known', pc'[r], task'[r])
<1>1. PICK w \in Work : w = task[r] /\ Shape(pc[r], w)
                        /\ Placed(db, bucket, used, Known, pc[r], w)
  BY AtWork
<1>2. w.target \in Known
  BY <1>1 DEF Placed, Aims
<1>3. CASE Goto(r, "pick") /\ task' = task
  <2>1. /\ Turn(r) /\ SameFile(r) /\ Known \subseteq Known'
        /\ pc'[r] = "pick" /\ task'[r] = w
    <3>1. "pick" \in Stage \ {"idle", "reserve"}
      BY DEF Stage, TxStage
    <3> QED
      BY <1>1, <1>3, <3>1, GoesOn
  <2>2. Shape("pick", w)
    BY <1>1 DEF Shape, Uploads, Aims
  <2>3. Placed(db', bucket', used', Known', "pick", w)
    BY <1>1, <2>1, PlacedNext DEF Uploads, Aims
  <2> QED
    BY <2>1, <2>2, <2>3
<1>4. CASE Goto(r, "decide") /\ Set(r, "seen", "deleting")
  <2>1. PICK v \in Work :
          /\ v = Revised(w, "seen", "deleting")
          /\ v.kind = w.kind /\ v.file = w.file /\ v.freed = w.freed /\ v.todo = w.todo
          /\ v.target = w.target /\ v.owner = w.owner /\ v.prev = w.prev /\ v.seen = "deleting"
    BY RevisedSeen DEF State
  <2>2. task' = [task EXCEPT ![r] = v]
    BY <1>1, <1>4, <2>1, SetRevises
  <2>3. /\ Turn(r) /\ SameFile(r) /\ Known \subseteq Known'
        /\ pc'[r] = "decide" /\ task'[r] = v
    <3>1. "decide" \in Stage \ {"idle", "reserve"}
      BY DEF Stage, TxStage
    <3> QED
      BY <1>1, <1>4, <2>1, <2>2, <3>1, GoesOnWith
  <2>4. Shape("decide", v)
    BY <1>1, <2>1 DEF Shape, Uploads, Aims, State
  <2>5. Placed(db', bucket', used', Known', "decide", v)
    <3>1. v.target \in Known'
      BY <1>2, <2>1, <2>3
    <3> QED
      BY <1>1, <2>1, <2>3, <3>1, PlacedNext DEF Uploads
  <2> QED
    BY <2>3, <2>4, <2>5
<1> QED
  BY <1>3, <1>4

\* A file without entry is counted, by a transaction that locks its document,
LEMMA KeepCount ==
  ASSUME Inv, NEW r \in Task, CountTx(r)
  PROVE  Kept
<1> DEFINE f == task[r].target
           s == snap[r]
           found == task[r].kind = "inventory"
           known == s.entry[f] # Absent
<1>1. /\ pc[r] = "count" /\ InBody(r, "count") /\ World' = World /\ pc[r] # "idle"
      /\ bucket' = bucket /\ used' = used /\ puts' = puts /\ crashes' = crashes
  BY DEF CountTx, InBody, World
<1>2. PICK w \in Work : w = task[r] /\ Shape("count", w)
                        /\ Placed(db, bucket, used, Known, "count", w)
  BY <1>1, AtWork
<1>3. f \in File /\ f \in Known
  BY <1>2 DEF Placed, Aims, Known, Inv, TypeOK
<1>4. s \in Documents /\ snap[r] # Absent /\ Sound(s) /\ db \in Documents /\ Sound(db)
  BY <1>1, InSnap
<1>5. crashes' \in 0 .. MaxCrashes /\ puts \subseteq Known
  BY <1>1 DEF Inv, TypeOK, Core, Files
<1>6. PICK n : n = IF known \/ ~ (found \/ Referenced(s, f)) THEN s
                   ELSE IF found THEN CountUntracked(s, f) ELSE CountExisting(s, f)
  OBVIOUS
<1>7. PICK locks \in SUBSET Owner : locks = IF found /\ known THEN {} ELSE Lock(s, f)
  BY DEF Lock
<1>8. ASSUME NEW late \in SUBSET File, CommitTx(r, n, locks, late),
             \/ Goto(r, "pick") /\ task' = task
             \/ Goto(r, "decide") /\ Set(r, "seen", "deleting")
      PROVE  Kept
  <2>1. PICK docs \in DocSets :
          /\ Commits(s, db, n, dirty[r], docs) /\ locks \subseteq docs.owners
          /\ db' = Merge(db, s, n) /\ LeaveTx(r, docs) /\ due' \subseteq File
    BY <1>4, <1>8, Committed
  <2>2. Effect(db, db', docs, Absent, Absent, f)
    <3>1. CASE n = s
      BY <1>4, <2>1, <3>1, MergeNothing, NoEffect
    <3>2. CASE ~ known /\ found /\ n = CountUntracked(s, f)
      <4>1. Lock(s, f) \subseteq docs.owners
        BY <1>7, <2>1, <3>2
      <4>2. Commits(s, db, CountUntracked(s, f), dirty[r], docs)
        BY <2>1, <3>2
      <4>3. Effect(db, Merge(db, s, CountUntracked(s, f)), docs, Absent, Absent, f)
        BY <1>3, <1>4, <3>2, <4>1, <4>2, CommitFound
      <4> QED
        BY <2>1, <3>2, <4>3
    <3>3. CASE ~ known /\ Referenced(s, f) /\ n = CountExisting(s, f) /\ ~ found
      <4>1. Lock(s, f) \subseteq docs.owners
        BY <1>7, <2>1, <3>3
      <4>2. Commits(s, db, CountExisting(s, f), dirty[r], docs)
        BY <2>1, <3>3
      <4>3. Effect(db, Merge(db, s, CountExisting(s, f)), docs, Absent, Absent, f)
        BY <1>3, <1>4, <3>3, <4>1, <4>2, CommitExisting
      <4> QED
        BY <2>1, <3>3, <4>3
    <3> QED
      BY <1>6, <3>1, <3>2, <3>3
  <2>3. /\ Turn(r) /\ SameFile(r) /\ Known \subseteq Known'
        /\ Shape(pc'[r], task'[r]) /\ Placed(db', bucket', used', Known', pc'[r], task'[r])
    BY <1>1, <1>8, CountGoes
  <2> QED
    BY <1>1, <1>3, <1>5, <2>1, <2>2, <2>3, CommitAdvance
<1>9. ASSUME RetryTx(r, n, locks)
      PROVE  Kept
  BY <1>1, <1>9, RetryAdvance
<1>10. \/ RetryTx(r, n, locks)
       \/ CommitTx(r, n, locks, {}) /\ Goto(r, "pick") /\ task' = task
       \/ CommitTx(r, n, locks, {f}) /\ Goto(r, "decide") /\ Set(r, "seen", "deleting")
  BY <1>6, <1>7 DEF CountTx
<1> QED
  BY <1>3, <1>8, <1>9, <1>10

\* and an entry that nothing refers to is condemned.
LEMMA KeepOrphan ==
  ASSUME Inv, NEW r \in Task, OrphanTx(r)
  PROVE  Kept
<1> DEFINE f == task[r].target
           s == snap[r]
<1>1. /\ pc[r] = "orphan" /\ InBody(r, "orphan") /\ World' = World /\ pc[r] # "idle"
      /\ bucket' = bucket /\ used' = used /\ puts' = puts /\ crashes' = crashes
  BY DEF OrphanTx, InBody, World
<1>2. PICK w \in Work : w = task[r] /\ Shape("orphan", w)
                        /\ Placed(db, bucket, used, Known, "orphan", w)
  BY <1>1, AtWork
<1>3. f \in File /\ f \in Known
  BY <1>2 DEF Placed, Aims, Known, Inv, TypeOK
<1>4. s \in Documents /\ snap[r] # Absent /\ Sound(s) /\ db \in Documents /\ Sound(db)
  BY <1>1, InSnap
<1>5. crashes' \in 0 .. MaxCrashes /\ puts \subseteq Known
  BY <1>1 DEF Inv, TypeOK, Core, Files
<1>6. ASSUME Orphan(s, f), CommitTx(r, SetState(s, f, "deleting"), {}, {f}),
             Goto(r, "decide"), Set(r, "seen", "deleting")
      PROVE  Kept
  <2>1. PICK docs \in DocSets :
          /\ Commits(s, db, SetState(s, f, "deleting"), dirty[r], docs)
          /\ db' = Merge(db, s, SetState(s, f, "deleting")) /\ LeaveTx(r, docs) /\ due' \subseteq File
    <3>1. {} \in SUBSET Owner /\ {f} \in SUBSET File
      BY <1>3
    <3> QED
      BY <1>4, <1>6, <3>1, Committed
  <2>2. Effect(db, db', docs, Absent, Absent, Absent)
    BY <1>3, <1>4, <1>6, <2>1, CommitOrphan
  <2>3. /\ Turn(r) /\ SameFile(r) /\ Known \subseteq Known'
        /\ Shape(pc'[r], task'[r]) /\ Placed(db', bucket', used', Known', pc'[r], task'[r])
    BY <1>1, <1>6, CountGoes
  <2> QED
    BY <1>1, <1>5, <2>1, <2>2, <2>3, CommitAdvance
<1>7. ASSUME EndTx(r), Goto(r, "pick"), task' = task
      PROVE  Kept
  <2>1. /\ Turn(r) /\ SameFile(r) /\ Known \subseteq Known'
        /\ Shape(pc'[r], task'[r]) /\ Placed(db', bucket', used', Known', pc'[r], task'[r])
    BY <1>1, <1>7, CountGoes
  <2> QED
    BY <1>1, <1>5, <1>7, <2>1, EndAdvance
<1>8. ASSUME RetryTx(r, SetState(s, f, "deleting"), {})
      PROVE  Kept
  BY <1>1, <1>8, RetryAdvance
<1> QED
  BY <1>6, <1>7, <1>8 DEF OrphanTx

\* The counter is recomputed.
LEMMA KeepRecompute ==
  ASSUME Inv, NEW r \in Task, RecomputeTx(r)
  PROVE  Kept
<1> DEFINE s == snap[r]
<1>1. /\ pc[r] = "recompute" /\ InBody(r, "recompute") /\ World' = World /\ pc[r] # "idle"
      /\ bucket' = bucket /\ used' = used /\ puts' = puts /\ crashes' = crashes
  BY DEF RecomputeTx, InBody, World
<1>2. s \in Documents /\ snap[r] # Absent /\ db \in Documents
  BY <1>1, InSnap
<1>3. crashes' \in 0 .. MaxCrashes /\ puts \subseteq Known
  BY <1>1 DEF Inv, TypeOK, Core, Files
<1>4. ASSUME CommitTx(r, Recompute(s), {}, {}), Finish(r)
      PROVE  Kept
  <2>1. PICK docs \in DocSets :
          /\ Commits(s, db, Recompute(s), dirty[r], docs)
          /\ db' = Merge(db, s, Recompute(s)) /\ LeaveTx(r, docs) /\ due' \subseteq File
    BY <1>2, <1>4, Committed
  <2>2. Effect(db, db', docs, Absent, Absent, Absent)
    BY <1>2, <2>1, CommitRecount
  <2>3. Turn(r) /\ SameFile(r) /\ Known \subseteq Known' /\ pc'[r] = "idle"
    BY <1>1, <1>4, TurnFinish, SameFileKnows
  <2> QED
    BY <1>1, <1>3, <2>1, <2>2, <2>3, CommitAdvance
<1>5. ASSUME RetryTx(r, Recompute(s), {})
      PROVE  Kept
  BY <1>1, <1>5, RetryAdvance
<1> QED
  BY <1>4, <1>5 DEF RecomputeTx

\* A task dies.
LEMMA KeepCrash ==
  ASSUME Inv, NEW r \in Task, Crash(r)
  PROVE  Kept
<1>1. /\ pc[r] # "idle" /\ Finish(r) /\ EndTx(r)
      /\ bucket' = bucket /\ used' = used /\ puts' = puts
      /\ crashes' = crashes + 1 /\ crashes < MaxCrashes
  BY DEF Crash
<1>2. crashes' \in 0 .. MaxCrashes
  BY <1>1, StorageTasks DEF Inv, TypeOK
<1> QED
  BY <1>1, <1>2, TurnFinish, EndAdvance

\* A task starts to work.
LEMMA StartGoes ==
  ASSUME Inv, NEW r \in Task, NEW kind \in TaskKinds, NEW owner \in Owner \cup {Absent},
         NEW file \in File \cup {Absent}, NEW todo \in SUBSET (File \X (State \cup {Absent})),
         NEW stage \in Stage \ {"idle"}, Start(r, kind, owner, file, todo, stage)
  PROVE  /\ Turn(r) /\ pc'[r] = stage /\ pc[r] = "idle" /\ Quiet
         /\ task'[r] \in Work
         /\ task'[r].kind = kind /\ task'[r].owner = owner /\ task'[r].file = file
         /\ task'[r].target = Absent /\ task'[r].todo = todo /\ task'[r].freed = "untried"
<1>1. PICK w \in Work :
        w = [kind |-> kind, owner |-> owner, file |-> file, prev |-> Absent,
             target |-> Absent, seen |-> Absent, todo |-> todo, freed |-> "untried"]
  BY DEF Work
<1>2. Goto(r, stage) /\ task' = [task EXCEPT ![r] = w] /\ pc[r] = "idle" /\ Quiet
  BY <1>1 DEF Start
<1>3. Turn(r) /\ pc'[r] = stage /\ task'[r] = w
  BY <1>2, TurnWork
<1> QED
  BY <1>1, <1>2, <1>3

\* A task without upload,
LEMMA KeepStart ==
  ASSUME Inv, NEW r \in Task, NEW kind \in TaskKinds \ {"create", "replace"},
         NEW owner \in Owner \cup {Absent},
         NEW todo \in SUBSET (File \X (State \cup {Absent})), \A e \in todo : e[1] \in Known,
         NEW stage \in {"read", "remove", "pick", "recompute"},
         Start(r, kind, owner, Absent, todo, stage), World' = World,
         stage \in {"read", "remove"} => owner \in Owner,
         stage = "read" => kind = "clear", stage = "remove" => kind = "purge"
  PROVE  Kept
<1>1. PICK file \in File \cup {Absent} : file = Absent
  OBVIOUS
<1>2. stage \in Stage \ {"idle"}
  BY DEF Stage, TxStage
<1>3. /\ Turn(r) /\ pc'[r] = stage /\ pc[r] = "idle" /\ Quiet
      /\ task'[r] \in Work
      /\ task'[r].kind = kind /\ task'[r].owner = owner /\ task'[r].file = Absent
      /\ task'[r].target = Absent /\ task'[r].todo = todo /\ task'[r].freed = "untried"
  BY <1>1, <1>2, StartGoes
<1>4. PICK v \in Work : v = task'[r]
  BY <1>3
<1>5. bucket' = bucket /\ puts' = puts /\ used' = used /\ crashes' = crashes
  BY DEF World
<1>6. Known \subseteq Known'
  <2>1. ~ Drawn(pc'[r], task'[r])
    BY <1>3 DEF Drawn
  <2> QED
    BY <1>3, <1>5, <2>1, KnownGrows DEF Turn
<1>7. Shape(stage, v)
  BY <1>3, <1>4 DEF Shape, Uploads
<1>8. Placed(db', bucket', used', Known', stage, v)
  BY <1>3, <1>4, <1>6 DEF Placed, Uploads, Aims
<1>9. Quietly /\ (snap[r] # Absent => pc'[r] \in TxStage)
  BY <1>3, QuietIs DEF Inv, TypeOK, TxStage
<1>10. bucket' \subseteq Known' /\ puts' \subseteq Known' /\ used' \subseteq File
  BY <1>5, <1>6 DEF Inv, TypeOK, Core, Files
<1>11. PICK own : own = Absent
  OBVIOUS
<1> QED
  BY <1>3, <1>4, <1>5, <1>6, <1>7, <1>8, <1>9, <1>10, <1>11, QuietAdvance

\* each of them,
LEMMA KeepStarts ==
  ASSUME Inv, NEW r \in Task,
         \/ StartPurge(r) \/ StartClear(r) \/ StartRecover(r) \/ StartInventory(r)
         \/ StartInitialize(r) \/ StartOrphans(r) \/ StartRecompute(r)
  PROVE  Kept
<1>1. /\ db \in Documents /\ \A f \in File : InUse(db, f) => f \in Known
      /\ bucket \subseteq Known /\ bucket \subseteq File
  BY DEF Inv, TypeOK, Core, Files
<1>2. ASSUME NEW S \in SUBSET File, \A f \in S : f \in Known, NEW t \in State \cup {Absent},
             NEW todo, todo = S \X {t}
      PROVE  /\ todo \in SUBSET (File \X (State \cup {Absent}))
             /\ \A e \in todo : e[1] \in Known
  BY <1>2
<1>3. PICK none \in SUBSET (File \X (State \cup {Absent})) : none = {}
  OBVIOUS
<1>4. CASE StartPurge(r)
  <2>1. PICK o \in Product : Start(r, "purge", o, Absent, none, "remove") /\ World' = World
    BY <1>3, <1>4 DEF StartPurge, World
  <2>2. o \in Owner /\ "purge" \in TaskKinds \ {"create", "replace"}
    BY DEF Owner, TaskKinds
  <2> QED
    BY <1>3, <2>1, <2>2, KeepStart
<1>5. CASE StartClear(r)
  <2>1. PICK o \in Logo : Start(r, "clear", o, Absent, none, "read") /\ World' = World
    BY <1>3, <1>5 DEF StartClear, World
  <2>2. o \in Owner /\ "clear" \in TaskKinds \ {"create", "replace"}
    BY DEF Owner, TaskKinds
  <2> QED
    BY <1>3, <2>1, <2>2, KeepStart
<1>6. CASE StartRecover(r)
  <2>1. Start(r, "recover", Absent, Absent, Due, "pick") /\ World' = World
    BY <1>6 DEF StartRecover, World
  <2>2. Absent \in Owner \cup {Absent} /\ "recover" \in TaskKinds \ {"create", "replace"}
    BY DEF TaskKinds
  <2> QED
    BY <2>1, <2>2, DueType, KeepStart
<1>7. CASE StartInventory(r)
  <2>1. PICK todo : todo = bucket \X {Absent}
    OBVIOUS
  <2>2. Start(r, "inventory", Absent, Absent, todo, "pick") /\ World' = World
    BY <1>7, <2>1 DEF StartInventory, World
  <2>3. Absent \in Owner \cup {Absent} /\ "inventory" \in TaskKinds \ {"create", "replace"}
    BY DEF TaskKinds
  <2>4. todo \in SUBSET (File \X (State \cup {Absent})) /\ \A e \in todo : e[1] \in Known
    BY <1>1, <1>2, <2>1
  <2> QED
    BY <2>2, <2>3, <2>4, KeepStart
<1>8. CASE StartInitialize(r)
  <2>1. PICK S \in SUBSET File : S = {f \in File : Referenced(db, f)}
    OBVIOUS
  <2>2. PICK todo : todo = S \X {Absent}
    OBVIOUS
  <2>3. Start(r, "initialize", Absent, Absent, todo, "pick") /\ World' = World
    BY <1>8, <2>1, <2>2 DEF StartInitialize, World
  <2>4. Absent \in Owner \cup {Absent} /\ "initialize" \in TaskKinds \ {"create", "replace"}
    BY DEF TaskKinds
  <2>5. \A f \in S : f \in Known
    BY <1>1, <2>1 DEF InUse
  <2>6. todo \in SUBSET (File \X (State \cup {Absent})) /\ \A e \in todo : e[1] \in Known
    BY <1>2, <2>2, <2>5
  <2> QED
    BY <2>3, <2>4, <2>6, KeepStart
<1>9. CASE StartOrphans(r)
  <2>1. PICK S \in SUBSET File : S = {f \in File : InState(db, f, "attached")}
    OBVIOUS
  <2>2. PICK todo : todo = S \X {"attached"}
    OBVIOUS
  <2>3. Start(r, "orphans", Absent, Absent, todo, "pick") /\ World' = World
    BY <1>9, <2>1, <2>2 DEF StartOrphans, World
  <2>4. Absent \in Owner \cup {Absent} /\ "orphans" \in TaskKinds \ {"create", "replace"}
    BY DEF TaskKinds
  <2>5. \A f \in S : f \in Known
    BY <1>1, <2>1 DEF InUse, InState
  <2>6. "attached" \in State \cup {Absent}
    BY DEF State
  <2>7. todo \in SUBSET (File \X (State \cup {Absent})) /\ \A e \in todo : e[1] \in Known
    BY <1>2, <2>2, <2>5, <2>6
  <2> QED
    BY <2>3, <2>4, <2>7, KeepStart
<1>10. CASE StartRecompute(r)
  <2>1. Start(r, "recompute", Absent, Absent, none, "recompute") /\ World' = World
    BY <1>3, <1>10 DEF StartRecompute, World
  <2>2. Absent \in Owner \cup {Absent} /\ "recompute" \in TaskKinds \ {"create", "replace"}
    BY DEF TaskKinds
  <2> QED
    BY <1>3, <2>1, <2>2, KeepStart
<1> QED
  BY <1>4, <1>5, <1>6, <1>7, <1>8, <1>9, <1>10

\* and one that draws a key for an upload.
LEMMA KeepUpload ==
  ASSUME Inv, NEW r \in Task, StartUpload(r)
  PROVE  Kept
<1>1. PICK o \in Owner : \E f \in File \ used :
        /\ \E kind \in {"create", "replace"} : Start(r, kind, o, f, {}, "reserve")
        /\ used' = used \cup {f} /\ bucket' = bucket /\ puts' = puts /\ crashes' = crashes
  BY DEF StartUpload
<1>2. PICK f \in File \ used : \E kind \in {"create", "replace"} :
        /\ Start(r, kind, o, f, {}, "reserve")
        /\ used' = used \cup {f} /\ bucket' = bucket /\ puts' = puts /\ crashes' = crashes
  BY <1>1
<1>3. PICK kind \in {"create", "replace"} :
        /\ Start(r, kind, o, f, {}, "reserve")
        /\ used' = used \cup {f} /\ bucket' = bucket /\ puts' = puts /\ crashes' = crashes
  BY <1>2
<1>4. PICK none \in SUBSET (File \X (State \cup {Absent})) : none = {}
  OBVIOUS
<1>5. /\ Turn(r) /\ pc'[r] = "reserve" /\ pc[r] = "idle" /\ Quiet
      /\ task'[r] \in Work
      /\ task'[r].kind = kind /\ task'[r].owner = o /\ task'[r].file = f
      /\ task'[r].target = Absent /\ task'[r].todo = none /\ task'[r].freed = "untried"
  <2>1. "reserve" \in Stage \ {"idle"} /\ kind \in TaskKinds
    BY DEF Stage, TxStage, TaskKinds
  <2>2. Start(r, kind, o, f, none, "reserve") /\ f \in File \cup {Absent} /\ o \in Owner \cup {Absent}
    BY <1>3, <1>4
  <2> QED
    BY <2>1, <2>2, StartGoes
<1>6. PICK v \in Work : v = task'[r]
  BY <1>5
<1>7. Known \subseteq Known'
  BY <1>3, <1>5, KnownGrows DEF Turn
<1>8. Shape("reserve", v)
  BY <1>5, <1>6 DEF Shape, Uploads
<1>9. Placed(db', bucket', used', Known', "reserve", v)
  BY <1>3, <1>4, <1>5, <1>6 DEF Placed, Uploads, Aims
<1>10. Quietly /\ (snap[r] # Absent => pc'[r] \in TxStage)
  BY <1>5, QuietIs DEF Inv, TypeOK, TxStage
<1>11. bucket' \subseteq Known' /\ puts' \subseteq Known' /\ used' \subseteq File
       /\ used \subseteq used'
  BY <1>3, <1>7 DEF Inv, TypeOK, Core, Files
<1>12. PICK own : own = Absent
  OBVIOUS
<1> QED
  BY <1>3, <1>5, <1>6, <1>7, <1>8, <1>9, <1>10, <1>11, <1>12, QuietAdvance

----------------------------------------------------------------------------
(* The invariant holds *)

\* What the documents are at the start.
LEMMA StartDocuments ==
  ASSUME NEW d \in Book!Start
  PROVE  /\ d \in Documents /\ Sound(d)
         /\ \A f \in File : InUse(d, f) => f \in Legacy
         /\ \A f \in File : ~ InState(d, f, "uploaded")
<1>1. PICK first : first = [state |-> "attached", source |-> "upload"]
  OBVIOUS
<1>2. first \in Entry /\ first.state = "attached"
  BY <1>1 DEF Entry, State
<1>3. PICK most : most = Book!Bytes(Legacy) + 1
  OBVIOUS
<1>4. /\ d \in [entry : [File -> {Absent, first}],
                usage : [stored : 0 .. most, reserved : {0}],
                image : [Owner -> Legacy \cup {NoFile, Gone}]]
      /\ \A f \in File \ Legacy : d.entry[f] = Absent
      /\ \A o, q \in Owner : d.image[o] = d.image[q] /\ d.image[o] \in File => o = q
  BY <1>1, <1>3 DEF Book!Start, Book!Owner, Owner
<1>5. /\ d.entry \in [File -> {Absent, first}]
      /\ d.usage \in [stored : 0 .. most, reserved : {0}]
      /\ d.image \in [Owner -> Legacy \cup {NoFile, Gone}]
      /\ d = [entry |-> d.entry, usage |-> d.usage, image |-> d.image]
  BY <1>4
<1>6. \A f \in File : d.entry[f] # Absent => d.entry[f].state = "attached" /\ f \in Legacy
  BY <1>2, <1>4, <1>5
<1>7. d \in Documents
  <2>1. d.entry \in [File -> Entry \cup {Absent}]
    BY <1>2, <1>5
  <2>2. d.usage \in Usage
    BY <1>5 DEF Usage
  <2>3. d.image \in [Owner -> File \cup {NoFile, Gone}]
    BY <1>5, StorageSizes
  <2> QED
    BY <1>5, <2>1, <2>2, <2>3 DEF Documents
<1>8. \A f \in File : Referenced(d, f) => f \in Legacy
  BY <1>5, StorageSentinels DEF Referenced
<1>9. Sound(d)
  BY <1>4, <1>6 DEF Sound
<1> QED
  BY <1>6, <1>7, <1>8, <1>9 DEF InUse, InState

LEMMA InitInv == Init => Inv
<1> SUFFICES ASSUME Init PROVE Inv
  OBVIOUS
<1>1. /\ db \in Book!Start /\ bucket = Legacy /\ puts = {} /\ used = Legacy /\ due = {}
      /\ pc = [r \in Task |-> "idle"] /\ task = [r \in Task |-> Absent]
      /\ snap = [r \in Task |-> Absent] /\ dirty = [r \in Task |-> NoDocs]
      /\ crashes = 0
  BY DEF Init, Book!Init
<1>2. \A r \in Task : pc[r] = "idle" /\ task[r] = Absent /\ snap[r] = Absent
  BY <1>1
<1>3. Known = Legacy
  BY <1>1, <1>2 DEF Known, Drawn
<1>4. TypeOK
  <2>1. NoDocs \in DocSets /\ "idle" \in Stage
    BY DEF NoDocs, DocSets, Stage
  <2>2. crashes \in 0 .. MaxCrashes
    BY <1>1, StorageTasks
  <2> QED
    BY <1>1, <1>2, <2>1, <2>2, StartDocuments, StorageSizes DEF TypeOK
<1>5. Typed
  BY <1>1 DEF Typed
<1>6. Files(db, bucket, puts, Known)
  <2>1. \A f \in File : Referenced(db, f) => f \in Legacy
    BY <1>1, StartDocuments DEF InUse
  <2> QED
    BY <1>1, <1>3, <2>1, StartDocuments DEF Files
<1>7. Core
  BY <1>2, <1>6 DEF Core, Alone
<1> QED
  BY <1>4, <1>5, <1>7 DEF Inv

LEMMA NextInv == Inv /\ [Next]_vars => Kept
<1> SUFFICES ASSUME Inv, [Next]_vars PROVE Kept
  OBVIOUS
<1>1. CASE UNCHANGED vars
  <2>1. /\ db' = db /\ bucket' = bucket /\ puts' = puts /\ used' = used /\ due' = due
        /\ pc' = pc /\ task' = task /\ snap' = snap /\ dirty' = dirty /\ crashes' = crashes
    BY <1>1 DEF vars
  <2>2. PICK r \in Task : TRUE
    BY StorageTasks
  <2>3. Quietly
    BY <2>1, QuietIs DEF Quiet
  <2>4. Turn(r) /\ SameFile(r) /\ (snap[r] # Absent => pc'[r] \in TxStage)
    BY <2>1 DEF Inv, TypeOK, Typed, Turn, SameFile
  <2>5. Known \subseteq Known'
    BY <2>1, <2>4, SameFileKnows
  <2>6. pc'[r] # "idle" =>
          Shape(pc'[r], task'[r]) /\ Placed(db', bucket', used', Known', pc'[r], task'[r])
    BY <2>1, <2>5, AtWork, PlacedMore
  <2>7. bucket' \subseteq Known' /\ puts' \subseteq Known' /\ used' \subseteq File
    BY <2>1, <2>5 DEF Inv, TypeOK, Core, Files
  <2>8. PICK own : own = Absent
    OBVIOUS
  <2> QED
    BY <2>1, <2>3, <2>4, <2>5, <2>6, <2>7, <2>8, QuietAdvance
<1>2. ASSUME NEW f \in File, Land(f) \/ Lose(f) \/ Expire(f)
      PROVE  Kept
  BY <1>2, KeepLand, KeepLose, KeepExpire
<1>3. ASSUME NEW r \in Task, StartTask(r)
      PROVE  Kept
  BY <1>3, KeepUpload, KeepStarts DEF StartTask
<1>4. ASSUME NEW r \in Task, Step(r)
      PROVE  Kept
  BY <1>4, KeepBegin, KeepReserve, KeepPutFails, KeepAbandon, KeepUndo, KeepMark, KeepRead,
     KeepWrite, KeepDiscard, KeepRemove, KeepDelete, KeepRelease, KeepPick, KeepDecide,
     KeepFetch, KeepCount, KeepOrphan, KeepRecompute DEF Step
<1>5. ASSUME NEW r \in Task, DeleteFails(r) \/ Crash(r)
      PROVE  Kept
  BY <1>5, KeepDeleteFails, KeepCrash
<1> QED
  BY <1>1, <1>2, <1>3, <1>4, <1>5 DEF Next

\* Documents, bucket, tasks and snapshots agree, at every moment (Inv).
THEOREM Invariant == Spec => []Inv
<1>1. Inv /\ [Next]_vars => Inv'
  BY NextInv DEF Kept
<1> QED
  BY InitInv, <1>1, PTL DEF Spec

\* Every variable has its type (TypeOK).
THEOREM TypeCorrect == Spec => []TypeOK
BY Invariant, PTL DEF Inv

\* A file that a document shows is in the bucket, whoever deletes what
\* (ReferencedFileKept).
THEOREM ReferencedFilesKept == Spec => []ReferencedFileKept
<1>1. Inv => ReferencedFileKept
  BY DEF Inv, Core, Files, ReferencedFileKept, Referenced
<1> QED
  BY Invariant, <1>1, PTL

----------------------------------------------------------------------------
(* What a step does to the documents *)

LEMMA NextSteps ==
  ASSUME Inv, [Next]_vars
  PROVE  /\ db \in Documents /\ Sound(db)
         /\ db' = db \/ Operation(db, db')
         /\ db' \in Documents /\ DocStep(db, db')
<1>1. db \in Documents /\ Sound(db)
  BY DEF Inv, TypeOK, Core, Files
<1>2. db' = db \/ Operation(db, db')
  BY NextInv DEF Kept, Booked
<1>3. db' \in Documents /\ DocStep(db, db')
  BY <1>1, <1>2, OperationStep DEF DocStep
<1> QED
  BY <1>1, <1>2, <1>3

\* The counter stays off by what it was, or becomes exact (CounterFollows).
THEOREM CounterKept == Spec => CounterFollows
<1>1. Inv /\ [Next]_vars => [Gap(db') = Gap(db) \/ Gap(db') = [stored |-> 0, reserved |-> 0]]_vars
  BY NextSteps, StepGap
<1> QED
  BY Invariant, <1>1, PTL DEF Spec, CounterFollows

\* No step leaves an entry that contradicts the references to its file
\* (EntriesFollowReferences).
THEOREM EntriesKept == Spec => EntriesFollowReferences
<1>1. Inv /\ [Next]_vars => [\A f \in File : Misfiled(db', f) => Misfiled(db, f)]_vars
  BY NextSteps, StepSound
<1> QED
  BY Invariant, <1>1, PTL DEF Spec, EntriesFollowReferences

----------------------------------------------------------------------------
(* The quota *)

\* No entry is new after the move of an entry that was there,
LEMMA ShiftNoNew ==
  ASSUME NEW d \in Documents, NEW n \in Documents, NEW g \in File, NEW e \in Entry \cup {Absent},
         Shift(d, n, g, e), d.entry[g] # Absent, NEW f \in File, n.entry[f] # Absent
  PROVE  d.entry[f] # Absent
BY ShiftEntries

\* or after a change of reference.
LEMMA ReferNoNew ==
  ASSUME NEW d \in Documents, NEW n \in Documents, NEW o \in Owner, NEW i \in Image,
         Refer(d, n, o, i), NEW f \in File, n.entry[f] # Absent
  PROVE  d.entry[f] # Absent
<1>1. n.entry[f] = IF f = i THEN InOther(d.entry[f], "attached")
                   ELSE IF f = d.image[o] /\ InState(d, f, "attached")
                        THEN InOther(d.entry[f], "deleting")
                   ELSE d.entry[f]
  BY DEF Refer, EntriesAfter
<1>2. f = i => d.entry[f] # Absent
  BY DEF Refer, InState
<1> QED
  BY <1>1, <1>2 DEF InState

\* An upload has an entry since its reservation, which the quota admitted.
LEMMA NewUpload ==
  ASSUME NEW d \in Documents, NEW n \in Documents, Sound(d), Operation(d, n),
         NEW f \in File, d.entry[f] = Absent, n.entry[f] # Absent,
         n.entry[f].source = "upload"
  PROVE  Fits(d, f) /\ ~ Referenced(d, f) /\ n = Reserve(d, f)
<1>1. ASSUME NEW g \in File, d.entry[g] = Absent, ~ Referenced(d, g), Fits(d, g), n = Reserve(d, g)
      PROVE  Fits(d, f) /\ ~ Referenced(d, f) /\ n = Reserve(d, f)
  <2>1. PICK e \in Entry : Shift(d, n, g, e)
    BY <1>1, ReserveShift
  <2>2. f = g
    BY <2>1, ShiftEntries
  <2> QED
    BY <1>1, <2>2
<1>2. ASSUME NEW g \in File, InState(d, g, "reserved"), n = MarkUploaded(d, g)
      PROVE  FALSE
  <2>1. PICK e \in Entry : Shift(d, n, g, e)
    BY <1>2, MarkShift
  <2> QED
    BY <1>2, <2>1, ShiftNoNew DEF InState
<1>3. ASSUME NEW o \in Owner, NEW g \in File, NEW prev \in Image,
             Writable(d, o, g, prev), n = WriteImage(d, o, g, prev)
      PROVE  FALSE
  <2>1. Refer(d, n, o, g) /\ g \in Image
    BY <1>3, WriteRefer DEF Image
  <2> QED
    BY <2>1, ReferNoNew
<1>4. ASSUME NEW o \in Owner, NEW left \in {NoFile, Gone}, left # d.image[o],
             n = RemoveImage(d, o, left)
      PROVE  FALSE
  <2>1. Refer(d, n, o, left) /\ left \in Image
    BY <1>4, RemoveRefer DEF Image
  <2> QED
    BY <2>1, ReferNoNew
<1>5. ASSUME NEW g \in File, n = Discard(d, g)
      PROVE  FALSE
  <2>1. CASE InState(d, g, "uploaded")
    <3>1. PICK e \in Entry : Shift(d, n, g, e)
      BY <1>5, <2>1, DiscardShift
    <3> QED
      BY <2>1, <3>1, ShiftNoNew DEF InState
  <2>2. CASE ~ InState(d, g, "uploaded")
    BY <1>5, <2>2 DEF Discard
  <2> QED
    BY <2>1, <2>2
<1>6. ASSUME NEW g \in File, d.entry[g] # Absent, d.entry[g].state # "attached",
             n = Recover(d, g)
      PROVE  FALSE
  <2>1. PICK e \in Entry : Shift(d, n, g, e)
    BY <1>6, RecoverShift
  <2> QED
    BY <1>6, <2>1, ShiftNoNew
<1>7. ASSUME NEW g \in File, InState(d, g, "deleting"), n = Release(d, g)
      PROVE  FALSE
  <2>1. Shift(d, n, g, Absent)
    BY <1>7, ReleaseShift
  <2> QED
    BY <1>7, <2>1, ShiftNoNew DEF InState
<1>8. ASSUME NEW g \in File, d.entry[g] = Absent, Referenced(d, g), n = CountExisting(d, g)
      PROVE  FALSE
  <2>1. PICK e \in Entry : Shift(d, n, g, e) /\ e.source = "initialization"
    BY <1>8, ExistingShift
  <2> QED
    BY <2>1, ShiftEntries
<1>9. ASSUME NEW g \in File, d.entry[g] = Absent, n = CountUntracked(d, g)
      PROVE  FALSE
  <2>1. PICK e \in Entry : Shift(d, n, g, e) /\ e.source = "reconciliation"
    BY <1>9, FoundShift
  <2> QED
    BY <2>1, ShiftEntries
<1>10. ASSUME NEW g \in File, Orphan(d, g), n = SetState(d, g, "deleting")
       PROVE  FALSE
  <2>1. PICK e \in Entry : Shift(d, n, g, e)
    BY <1>10, OrphanShift
  <2> QED
    BY <1>10, <2>1, ShiftNoNew DEF Orphan, InState
<1>11. ASSUME n = Recompute(d)
       PROVE  FALSE
  BY <1>11, RecomputeRecounts DEF Recount
<1> QED
  BY <1>1, <1>2, <1>3, <1>4, <1>5, <1>6, <1>7, <1>8, <1>9, <1>10, <1>11 DEF Operation

\* The counter that is off by its gap counts the tracked files.
LEMMA TrackedBytes ==
  ASSUME NEW d \in Documents
  PROVE  Bytes(Tracked(d)) + Gap(d).stored + Gap(d).reserved = d.usage.stored + d.usage.reserved
<1>1. Stored(d) \in SUBSET File /\ Reserved(d) \in SUBSET File /\ Stored(d) \cap Reserved(d) = {}
  BY DEF Stored, Reserved, InState
<1>2. Bytes(Tracked(d)) = Bytes(Stored(d)) + Bytes(Reserved(d))
  BY <1>1, BytesUnion DEF Tracked
<1>3. /\ Bytes(Stored(d)) \in Nat /\ Bytes(Reserved(d)) \in Nat
      /\ d.usage.stored \in Int /\ d.usage.reserved \in Int
  BY <1>1, BytesType, Parts
<1>4. /\ Gap(d).stored = d.usage.stored - Bytes(Stored(d))
      /\ Gap(d).reserved = d.usage.reserved - Bytes(Reserved(d))
  BY DEF Gap
<1> QED
  BY <1>2, <1>3, <1>4

\* Uploads never take what is counted past the quota (QuotaHeld).
THEOREM QuotaKept == Spec => QuotaHeld
<1> DEFINE Held == Enforce => \A f \in Tracked(db') \ Tracked(db) :
             db'.entry[f].source = "upload"
               => Bytes(Tracked(db')) + Gap(db').stored + Gap(db').reserved <= Quota
<1>1. Inv /\ [Next]_vars => [Held]_vars
  <2> SUFFICES ASSUME Inv, [Next]_vars, Enforce,
                      NEW f \in Tracked(db') \ Tracked(db), db'.entry[f].source = "upload"
               PROVE  Bytes(Tracked(db')) + Gap(db').stored + Gap(db').reserved <= Quota
    OBVIOUS
  <2>1. /\ db \in Documents /\ Sound(db) /\ db' \in Documents
        /\ db' = db \/ Operation(db, db')
    BY NextSteps
  <2>2. f \in File /\ db.entry[f] = Absent /\ db'.entry[f] # Absent
    BY DEF Tracked, Stored, Reserved, InState
  <2>3. Fits(db, f) /\ ~ Referenced(db, f) /\ db' = Reserve(db, f)
    BY <2>1, <2>2, NewUpload
  <2>4. PICK e \in Entry : e = [state |-> "reserved", source |-> "upload"]
                           /\ Shift(db, db', f, e)
    BY <2>1, <2>2, <2>3, ReserveShift
  <2>5. /\ StoredBytes(e, f) = 0 /\ StoredBytes(db.entry[f], f) = 0
        /\ ReservedBytes(e, f) = SizeOf[f] /\ ReservedBytes(db.entry[f], f) = 0
    BY <2>2, <2>4, EntryFields DEF StoredBytes, ReservedBytes
  <2>6. /\ db'.usage.stored = db.usage.stored + 0 - 0
        /\ db'.usage.reserved = db.usage.reserved + SizeOf[f] - 0
    BY <2>4, <2>5 DEF Shift
  <2>7. db.usage.stored + db.usage.reserved + SizeOf[f] <= Quota
    BY <2>3 DEF Fits
  <2>8. /\ db.usage.stored \in Int /\ db.usage.reserved \in Int /\ SizeOf[f] \in Int
        /\ Quota \in Nat
    <3>1. db.usage.stored \in Int /\ db.usage.reserved \in Int
      BY <2>1, Parts
    <3>2. SizeOf[f] \in Int
      BY <2>2, Sizes
    <3>3. Quota \in Nat
      BY StorageSizes
    <3> QED
      BY <3>1, <3>2, <3>3
  <2>9. db'.usage.stored + db'.usage.reserved <= Quota
    BY <2>6, <2>7, <2>8
  <2> QED
    BY <2>1, <2>9, TrackedBytes
<1> QED
  BY Invariant, <1>1, PTL DEF Spec, QuotaHeld

----------------------------------------------------------------------------
(* The book *)

\* The operators of the book are those of the tasks.
LEMMA SameOperators ==
  /\ \A d, f, s : Book!InState(d, f, s) <=> InState(d, f, s)
  /\ \A d, f : Book!Referenced(d, f) <=> Referenced(d, f)
  /\ \A d, f : Book!Fits(d, f) <=> Fits(d, f)
  /\ \A d, f : Book!Reserve(d, f) = Reserve(d, f)
  /\ \A d, f : Book!MarkUploaded(d, f) = MarkUploaded(d, f)
  /\ \A d, o, f, prev : Book!Writable(d, o, f, prev) <=> Writable(d, o, f, prev)
  /\ \A d, o, f, prev : Book!WriteImage(d, o, f, prev) = WriteImage(d, o, f, prev)
  /\ \A d, o, left : Book!RemoveImage(d, o, left) = RemoveImage(d, o, left)
  /\ \A d, f : Book!Discard(d, f) = Discard(d, f)
  /\ \A d, f : Book!Recover(d, f) = Recover(d, f)
  /\ \A d, f : Book!Release(d, f) = Release(d, f)
  /\ \A d, f : Book!CountExisting(d, f) = CountExisting(d, f)
  /\ \A d, f : Book!CountUntracked(d, f) = CountUntracked(d, f)
  /\ \A d, f : Book!Orphan(d, f) <=> Orphan(d, f)
  /\ \A d, f, s : Book!SetState(d, f, s) = SetState(d, f, s)
  /\ \A d : Book!Recompute(d) = Recompute(d)
  /\ Book!Owner = Owner
<1>1. \A d, f, s : Book!InState(d, f, s) <=> InState(d, f, s)
  BY DEF Book!InState, InState
<1>2. Book!Owner = Owner
  BY DEF Book!Owner, Owner
<1>3. \A d, f : Book!Referenced(d, f) <=> Referenced(d, f)
  BY <1>2 DEF Book!Referenced, Referenced
<1>4. \A d, f : Book!Fits(d, f) <=> Fits(d, f)
  BY DEF Book!Fits, Fits
<1>5. \A d, stored, reserved : Book!Charge(d, stored, reserved) = Charge(d, stored, reserved)
  BY Zenon DEF Book!Charge, Charge
<1>6. \A d, f, s, from : Book!Track(d, f, s, from) = Track(d, f, s, from)
  BY Zenon DEF Book!Track, Track
<1>7. \A d, f, s : Book!SetState(d, f, s) = SetState(d, f, s)
  BY Zenon DEF Book!SetState, SetState
<1>8. \A d, f : Book!Detach(d, f) = Detach(d, f)
  BY <1>1, <1>7, Zenon DEF Book!Detach, Detach
<1>9. \A d, f : Book!Reserve(d, f) = Reserve(d, f)
  BY <1>5, <1>6, Zenon DEF Book!Reserve, Reserve
<1>10. \A d, f : Book!MarkUploaded(d, f) = MarkUploaded(d, f)
  BY <1>5, <1>7, Zenon DEF Book!MarkUploaded, MarkUploaded
<1>11. \A d, o, f, prev : Book!Writable(d, o, f, prev) <=> Writable(d, o, f, prev)
  BY <1>1 DEF Book!Writable, Writable
<1>12. \A d, o, f, prev : Book!WriteImage(d, o, f, prev) = WriteImage(d, o, f, prev)
  BY <1>7, <1>8, Zenon DEF Book!WriteImage, WriteImage
<1>13. \A d, o, left : Book!RemoveImage(d, o, left) = RemoveImage(d, o, left)
  BY <1>8, Zenon DEF Book!RemoveImage, RemoveImage
<1>14. \A d, f : Book!Discard(d, f) = Discard(d, f)
  BY <1>1, <1>3, <1>7, Zenon DEF Book!Discard, Discard
<1>15. \A d, f : Book!Recover(d, f) = Recover(d, f)
  BY <1>1, <1>3, <1>5, <1>7, Zenon DEF Book!Recover, Recover
<1>16. \A d, f : Book!Release(d, f) = Release(d, f)
  BY <1>5, Zenon DEF Book!Release, Release
<1>17. \A d, f : Book!CountExisting(d, f) = CountExisting(d, f)
  BY <1>5, <1>6, Zenon DEF Book!CountExisting, CountExisting
<1>18. \A d, f : Book!CountUntracked(d, f) = CountUntracked(d, f)
  BY <1>3, <1>5, <1>6, Zenon DEF Book!CountUntracked, CountUntracked
<1>19. \A d, f : Book!Orphan(d, f) <=> Orphan(d, f)
  BY <1>1, <1>3 DEF Book!Orphan, Orphan
<1>20. \A S : Book!Bytes(S) = Bytes(S)
  BY Zenon DEF Book!Bytes, Bytes, Book!Cardinality, Cardinality
<1>21. \A d : Book!Recompute(d) = Recompute(d)
  <2>1. \A d : Book!Reserved(d) = Reserved(d)
    BY <1>1 DEF Book!Reserved, Reserved
  <2>2. \A d : Book!Stored(d) = Stored(d)
    BY DEF Book!Stored, Stored
  <2>3. \A d : Book!Expected(d) = Expected(d)
    BY <1>20, <2>1, <2>2, Zenon DEF Book!Expected, Expected
  <2> QED
    BY <2>3, Zenon DEF Book!Recompute, Recompute
<1> QED
  BY <1>1, <1>2, <1>3, <1>4, <1>7, <1>9, <1>10, <1>11, <1>12, <1>13, <1>14, <1>15, <1>16,
     <1>17, <1>18, <1>19, <1>21

\* To the database, the tasks are operations of the book, one at a time
\* (Serializable).
THEOREM TasksAreSerial == Spec => Serializable
<1>1. Init => Book!Init
  BY DEF Init
<1>2. Operation(db, db') => Book!Next
  <2> SUFFICES ASSUME Operation(db, db') PROVE Book!Next
    OBVIOUS
  <2> USE SameOperators
  <2>1. ASSUME NEW f \in File, db.entry[f] = Absent, Fits(db, f), db' = Reserve(db, f)
        PROVE  Book!ReserveBytes
    BY <2>1 DEF Book!ReserveBytes
  <2>2. ASSUME NEW f \in File, InState(db, f, "reserved"), db' = MarkUploaded(db, f)
        PROVE  Book!UploadDone
    BY <2>2 DEF Book!UploadDone
  <2>3. ASSUME NEW o \in Owner, NEW f \in File, NEW prev \in Image,
               Writable(db, o, f, prev), db' = WriteImage(db, o, f, prev)
        PROVE  Book!ReferWrite
    BY <2>3 DEF Book!ReferWrite, Image
  <2>4. ASSUME NEW o \in Owner, NEW left \in {NoFile, Gone}, db.image[o] # Gone,
               db' = RemoveImage(db, o, left)
        PROVE  Book!ReferRemove
    BY <2>4 DEF Book!ReferRemove
  <2>5. ASSUME NEW f \in File, db' = Discard(db, f)
        PROVE  Book!DiscardUpload
    BY <2>5 DEF Book!DiscardUpload
  <2>6. ASSUME NEW f \in File, db.entry[f] # Absent, db.entry[f].state # "attached",
               db' = Recover(db, f)
        PROVE  Book!RecoverFile
    BY <2>6 DEF Book!RecoverFile
  <2>7. ASSUME NEW f \in File, InState(db, f, "deleting"), db' = Release(db, f)
        PROVE  Book!ReleaseFile
    BY <2>7 DEF Book!ReleaseFile
  <2>8. ASSUME NEW f \in File, db.entry[f] = Absent, Referenced(db, f),
               db' = CountExisting(db, f)
        PROVE  Book!CountReference
    BY <2>8 DEF Book!CountReference
  <2>9. ASSUME NEW f \in File, db.entry[f] = Absent, db' = CountUntracked(db, f)
        PROVE  Book!CountFound
    BY <2>9 DEF Book!CountFound
  <2>10. ASSUME NEW f \in File, Orphan(db, f), db' = SetState(db, f, "deleting")
         PROVE  Book!DropOrphan
    BY <2>10 DEF Book!DropOrphan
  <2>11. ASSUME db' = Recompute(db)
         PROVE  Book!RecomputeUsage
    BY <2>11 DEF Book!RecomputeUsage
  <2> QED
    BY <2>1, <2>2, <2>3, <2>4, <2>5, <2>6, <2>7, <2>8, <2>9, <2>10, <2>11
       DEF Operation, Book!Next
<1>3. Inv /\ [Next]_vars => [Book!Next]_db
  BY NextSteps, <1>2
<1> QED
  BY Invariant, <1>1, <1>3, PTL DEF Spec, Serializable, Book!Spec

----------------------------------------------------------------------------
(* Tasks come to their end *)

\* How far a task is from its end, or from the next entry of its pass.
StagesLeft ==
  [stage \in Stage |->
     CASE stage = "reserve" -> 10
       [] stage = "put" -> 9
       [] stage \in {"mark", "abandon"} -> 8
       [] stage = "read" -> 7
       [] stage \in {"write", "fetch"} -> 6
       [] stage \in {"discard", "remove", "count", "orphan"} -> 5
       [] stage = "decide" -> 4
       [] stage = "delete" -> 3
       [] stage \in {"release", "undo"} -> 2
       [] stage \in {"pick", "recompute"} -> 1
       [] OTHER -> 0]

\* Whether the recovery within an upload is still to come, runs, or is over.
Tries == [freed \in {"untried", "none", "some", "retried"} |->
            IF freed = "untried" THEN 2 ELSE IF freed = "retried" THEN 0 ELSE 1]

\* The task ends; or begins or ends its recovery; or has an entry less to
\* look at; or goes on with the one it has.
Nears(r) ==
  \/ pc'[r] = "idle"
  \/ Tries[task'[r].freed] < Tries[task[r].freed]
  \/ /\ Tries[task'[r].freed] = Tries[task[r].freed]
     /\ \/ \E e \in task[r].todo : task'[r].todo = task[r].todo \ {e}
        \/ task'[r].todo = task[r].todo /\ StagesLeft[pc'[r]] < StagesLeft[pc[r]]

Stays(r) == pc'[r] = pc[r] /\ task'[r] = task[r]

\* A task comes nearer to its end with each of its steps: a pass has an entry
\* less, an upload that was refused for lack of room tries once more at most.
\* A transaction runs again only for a document written since its snapshot.
TasksAdvance ==
  [][\A r \in Task : pc[r] # "idle" =>
       \/ Nears(r)
       \/ Stays(r) /\ (snap[r] \in {Absent, snap'[r]} \/ dirty[r] # NoDocs)]_vars

\* The work of a task that is not idle.
LEMMA BusyWork ==
  ASSUME Inv, NEW r \in Task, pc[r] # "idle"
  PROVE  task[r] \in Work /\ task[r].freed \in {"untried", "none", "some", "retried"}
<1>1. task[r] \in Work
  BY DEF Inv, TypeOK
<1> QED
  BY <1>1 DEF Work

\* A step to a lower stage, with the same entries to look at.
LEMMA Lower ==
  ASSUME Inv, NEW r \in Task, NEW stage, Goto(r, stage), StagesLeft[stage] < StagesLeft[pc[r]],
         task'[r].freed = task[r].freed, task'[r].todo = task[r].todo
  PROVE  Nears(r)
<1>1. pc'[r] = stage
  BY DEF Goto, Inv, TypeOK
<1> QED
  BY <1>1 DEF Nears

LEMMA Ends ==
  ASSUME Inv, NEW r \in Task, Finish(r)
  PROVE  Nears(r)
<1>1. pc'[r] = "idle"
  BY DEF Finish, Goto, Inv, TypeOK
<1> QED
  BY <1>1 DEF Nears

\* What it read or found changes nothing of what is left.
LEMMA SetKeepsTodo ==
  ASSUME Inv, NEW r \in Task, pc[r] # "idle", NEW value,
         \/ UNCHANGED task
         \/ Set(r, "prev", value) \/ Set(r, "target", value) \/ Set(r, "seen", value)
  PROVE  task'[r].freed = task[r].freed /\ task'[r].todo = task[r].todo
<1>1. task[r] \in Work /\ task \in [Task -> Work \cup {Absent}]
  BY BusyWork DEF Inv, Typed
<1>2. CASE UNCHANGED task
  BY <1>2
<1>3. CASE Set(r, "prev", value)
  BY <1>1, <1>3 DEF Set, Work
<1>4. CASE Set(r, "target", value)
  BY <1>1, <1>4 DEF Set, Work
<1>5. CASE Set(r, "seen", value)
  BY <1>1, <1>5 DEF Set, Work
<1> QED
  BY <1>2, <1>3, <1>4, <1>5

\* A transaction that conflicts has something written since its snapshot.
LEMMA RetryNeedsWriter ==
  ASSUME NEW r \in Task, NEW n, NEW locks, RetryTx(r, n, locks)
  PROVE  Stays(r) /\ dirty[r] # NoDocs
<1>1. ~ (dirty[r].files = {} /\ dirty[r].owners = {} /\ dirty[r].usage = FALSE)
  BY DEF RetryTx, Overlap
<1>2. dirty[r] # NoDocs
  BY <1>1 DEF NoDocs
<1> QED
  BY <1>2 DEF RetryTx, Stays

\* A step of a task leads nearer to its end, or begins a transaction, or runs
\* it again for what others wrote.
Advances(r) ==
  \/ Nears(r)
  \/ Stays(r) /\ (snap[r] = Absent \/ dirty[r] # NoDocs)

\* Stages that follow each other.
LEMMA Onward ==
  ASSUME Inv, NEW r \in Task, pc[r] # "idle", NEW stage \in Stage, NEW value,
         Goto(r, stage), StagesLeft[stage] < StagesLeft[pc[r]],
         \/ UNCHANGED task
         \/ Set(r, "prev", value) \/ Set(r, "target", value) \/ Set(r, "seen", value)
  PROVE  Advances(r)
BY SetKeepsTodo, Lower DEF Advances

LEMMA CleanupAdvances ==
  ASSUME Inv, NEW r \in Task, StagesLeft[pc[r]] > 3, pc[r] # "idle", NEW prev, Cleanup(r, prev)
  PROVE  Advances(r)
<1>1. CASE Finish(r)
  BY <1>1, Ends DEF Advances
<1>2. CASE Goto(r, "delete") /\ Set(r, "target", prev)
  <2>1. StagesLeft["delete"] = 3 /\ "delete" \in Stage
    BY DEF StagesLeft, Stage, TxStage
  <2>2. StagesLeft["delete"] < StagesLeft[pc[r]]
    BY <2>1
  <2> QED
    BY <1>2, <2>1, <2>2, Onward
<1> QED
  BY <1>1, <1>2 DEF Cleanup

LEMMA GoOnAdvances ==
  ASSUME Inv, NEW r \in Task, pc[r] \in {"delete", "release"}, GoOn(r)
  PROVE  Advances(r)
<1>1. CASE Finish(r)
  BY <1>1, Ends DEF Advances
<1>2. CASE Goto(r, "pick") /\ UNCHANGED task
  <2>1. StagesLeft["pick"] < StagesLeft[pc[r]] /\ "pick" \in Stage /\ pc[r] # "idle"
    BY DEF StagesLeft, Stage, TxStage
  <2> QED
    BY <1>2, <2>1, Onward
<1> QED
  BY <1>1, <1>2 DEF GoOn

\* The first stages of an upload.
LEMMA UploadAdvances ==
  ASSUME Inv, NEW r \in Task,
         PutFails(r) \/ Abandon(r) \/ Undo(r) \/ MarkTx(r) \/ ReadOwner(r)
  PROVE  Advances(r)
<1>1. CASE PutFails(r)
  <2>1. pc[r] = "put" /\ Goto(r, "abandon") /\ UNCHANGED task
    BY <1>1 DEF PutFails
  <2>2. StagesLeft["abandon"] < StagesLeft["put"] /\ "abandon" \in Stage
    BY DEF StagesLeft, Stage, TxStage
  <2> QED
    BY <2>1, <2>2, Onward
<1>2. CASE Abandon(r)
  <2>1. pc[r] = "abandon" /\ Goto(r, "undo") /\ UNCHANGED task
    BY <1>2 DEF Abandon
  <2>2. StagesLeft["undo"] < StagesLeft["abandon"] /\ "undo" \in Stage
    BY DEF StagesLeft, Stage, TxStage
  <2> QED
    BY <2>1, <2>2, Onward
<1>3. CASE Undo(r)
  <2>1. Finish(r)
    BY <1>3 DEF Undo
  <2> QED
    BY <2>1, Ends DEF Advances
<1>4. CASE MarkTx(r)
  <2>1. pc[r] = "mark"
    BY <1>4 DEF MarkTx, InBody
  <2>2. \/ \E n : RetryTx(r, n, {})
        \/ \E stage \in {"read", "undo"} : Goto(r, stage) /\ UNCHANGED task
    BY <1>4 DEF MarkTx
  <2>3. \A stage \in {"read", "undo"} : StagesLeft[stage] < StagesLeft["mark"] /\ stage \in Stage
    BY DEF StagesLeft, Stage, TxStage
  <2>4. ASSUME NEW stage \in {"read", "undo"}, Goto(r, stage), UNCHANGED task
        PROVE  Advances(r)
    BY <2>1, <2>3, <2>4, Onward
  <2> QED
    BY <2>2, <2>4, RetryNeedsWriter DEF Advances
<1>5. CASE ReadOwner(r)
  <2>1. pc[r] = "read"
    BY <1>5 DEF ReadOwner
  <2>2. \/ Finish(r)
        \/ Goto(r, "discard") /\ UNCHANGED task
        \/ \E stage \in {"remove", "write"} : Goto(r, stage) /\ \E value : Set(r, "prev", value)
    BY <1>5 DEF ReadOwner
  <2>3. \A stage \in {"discard", "remove", "write"} :
          StagesLeft[stage] < StagesLeft["read"] /\ stage \in Stage
    BY DEF StagesLeft, Stage, TxStage
  <2>4. ASSUME NEW stage \in {"discard", "remove", "write"}, Goto(r, stage), NEW value,
               UNCHANGED task \/ Set(r, "prev", value)
        PROVE  Advances(r)
    BY <2>1, <2>3, <2>4, Onward
  <2> QED
    BY <2>2, <2>4, Ends DEF Advances
<1> QED
  BY <1>1, <1>2, <1>3, <1>4, <1>5

\* A reservation: granted, refused for good, or after the one recovery.
LEMMA ReserveAdvances ==
  ASSUME Inv, NEW r \in Task, ReserveTx(r)
  PROVE  Advances(r)
<1>1. pc[r] = "reserve"
  BY DEF ReserveTx, InBody
<1>2. \/ \E n : RetryTx(r, n, {})
      \/ Goto(r, "put") /\ UNCHANGED task
      \/ Finish(r)
      \/ /\ task[r].freed = "untried"
         /\ task' = [task EXCEPT ![r].freed = "none", ![r].todo = Due]
  BY DEF ReserveTx
<1>3. CASE Goto(r, "put") /\ UNCHANGED task
  <2>1. StagesLeft["put"] < StagesLeft["reserve"] /\ "put" \in Stage
    BY DEF StagesLeft, Stage, TxStage
  <2> QED
    BY <1>1, <1>3, <2>1, Onward
<1>4. CASE /\ task[r].freed = "untried"
           /\ task' = [task EXCEPT ![r].freed = "none", ![r].todo = Due]
  <2>1. task[r] \in Work /\ task \in [Task -> Work \cup {Absent}]
    BY <1>1, BusyWork DEF Inv, Typed
  <2>2. task'[r].freed = "none"
    BY <1>4, <2>1 DEF Work
  <2>3. Tries["none"] < Tries["untried"]
    BY DEF Tries
  <2> QED
    BY <1>4, <2>2, <2>3 DEF Advances, Nears
<1> QED
  BY <1>2, <1>3, <1>4, Ends, RetryNeedsWriter DEF Advances

\* Documents written, upload discarded, image removed.
LEMMA DocumentAdvances ==
  ASSUME Inv, NEW r \in Task, WriteTx(r) \/ DiscardTx(r) \/ RemoveTx(r)
  PROVE  Advances(r)
<1>1. pc[r] \in {"write", "discard", "remove"}
  BY DEF WriteTx, DiscardTx, RemoveTx, InBody
<1>2. StagesLeft[pc[r]] > 3 /\ pc[r] # "idle"
  BY <1>1 DEF StagesLeft, Stage, TxStage
<1>3. CASE WriteTx(r)
  <2>1. pc[r] = "write"
    BY <1>3 DEF WriteTx, InBody
  <2>2. \/ \E n : RetryTx(r, n, {})
        \/ \E prev : Cleanup(r, prev)
        \/ Goto(r, "discard") /\ UNCHANGED task
    BY <1>3 DEF WriteTx
  <2>3. StagesLeft["discard"] < StagesLeft["write"] /\ "discard" \in Stage
    BY DEF StagesLeft, Stage, TxStage
  <2>4. CASE Goto(r, "discard") /\ UNCHANGED task
    BY <2>1, <2>3, <2>4, Onward
  <2> QED
    BY <1>2, <2>2, <2>4, CleanupAdvances, RetryNeedsWriter DEF Advances
<1>4. CASE DiscardTx(r)
  <2>1. \/ \E n : RetryTx(r, n, {})
        \/ \E prev : Cleanup(r, prev)
        \/ Finish(r)
    BY <1>4 DEF DiscardTx
  <2> QED
    BY <1>2, <2>1, CleanupAdvances, RetryNeedsWriter, Ends DEF Advances
<1>5. CASE RemoveTx(r)
  <2>1. \/ \E n : RetryTx(r, n, {})
        \/ \E prev : Cleanup(r, prev)
        \/ Finish(r)
    BY <1>5 DEF RemoveTx
  <2> QED
    BY <1>2, <2>1, CleanupAdvances, RetryNeedsWriter, Ends DEF Advances
<1> QED
  BY <1>3, <1>4, <1>5

\* A file deleted, then its entry.
LEMMA DeletionAdvances ==
  ASSUME Inv, NEW r \in Task, DeleteFile(r) \/ DeleteFails(r) \/ ReleaseTx(r)
  PROVE  Advances(r)
<1>1. CASE DeleteFile(r)
  <2>1. pc[r] = "delete" /\ Goto(r, "release") /\ UNCHANGED task
    BY <1>1 DEF DeleteFile
  <2>2. StagesLeft["release"] < StagesLeft["delete"] /\ "release" \in Stage
    BY DEF StagesLeft, Stage, TxStage
  <2> QED
    BY <2>1, <2>2, Onward
<1>2. CASE DeleteFails(r)
  <2>1. pc[r] = "delete" /\ GoOn(r)
    BY <1>2 DEF DeleteFails
  <2> QED
    BY <2>1, GoOnAdvances
<1>3. CASE ReleaseTx(r)
  <2>1. pc[r] = "release"
    BY <1>3 DEF ReleaseTx, InBody
  <2>2. \/ \E n : RetryTx(r, n, {})
        \/ GoOn(r)
        \/ /\ task[r].freed \in {"none", "some"}
           /\ Goto(r, "pick") /\ Set(r, "freed", "some")
    BY <1>3 DEF ReleaseTx
  <2>3. CASE /\ task[r].freed \in {"none", "some"}
             /\ Goto(r, "pick") /\ Set(r, "freed", "some")
    <3>1. task[r] \in Work /\ task \in [Task -> Work \cup {Absent}]
      BY <2>1, BusyWork DEF Inv, Typed
    <3>2. task'[r].freed = "some" /\ task'[r].todo = task[r].todo
      BY <2>3, <3>1 DEF Set, Work
    <3>3. Tries["some"] = Tries["none"] /\ StagesLeft["pick"] < StagesLeft["release"]
      BY DEF Tries, StagesLeft, Stage, TxStage
    <3>4. pc'[r] = "pick"
      BY <2>3 DEF Goto, Inv, TypeOK
    <3>5. Tries[task'[r].freed] = Tries[task[r].freed]
      BY <2>3, <3>2, <3>3
    <3> QED
      BY <2>1, <3>2, <3>3, <3>4, <3>5 DEF Advances, Nears
  <2> QED
    BY <2>1, <2>2, <2>3, GoOnAdvances, RetryNeedsWriter DEF Advances
<1> QED
  BY <1>1, <1>2, <1>3

\* The next entry of a pass, or its end.
LEMMA PickAdvances ==
  ASSUME Inv, NEW r \in Task, Pick(r)
  PROVE  Advances(r)
<1>1. pc[r] = "pick"
  BY DEF Pick
<1>2. task[r] \in Work /\ task \in [Task -> Work \cup {Absent}]
  BY <1>1, BusyWork DEF Inv, Typed
<1>3. CASE \E e \in task[r].todo :
             task' = [task EXCEPT ![r].todo = @ \ {e}, ![r].target = e[1], ![r].seen = e[2]]
  <2>1. PICK e \in task[r].todo :
          task' = [task EXCEPT ![r].todo = @ \ {e}, ![r].target = e[1], ![r].seen = e[2]]
    BY <1>3
  <2>2. task'[r].freed = task[r].freed /\ task'[r].todo = task[r].todo \ {e}
    BY <1>2, <2>1 DEF Work
  <2> QED
    BY <2>2 DEF Advances, Nears
<1>4. CASE task[r].freed = "some" /\ Set(r, "freed", "retried")
  <2>1. task'[r].freed = "retried"
    BY <1>2, <1>4 DEF Set, Work
  <2>2. Tries["retried"] < Tries["some"]
    BY DEF Tries
  <2> QED
    BY <1>4, <2>1, <2>2 DEF Advances, Nears
<1>5. CASE Finish(r)
  BY <1>5, Ends DEF Advances
<1> QED
  BY <1>3, <1>4, <1>5 DEF Pick

\* What a pass does with an entry, or a file.
LEMMA EntryAdvances ==
  ASSUME Inv, NEW r \in Task,
         DecideTx(r) \/ Fetch(r) \/ CountTx(r) \/ OrphanTx(r) \/ RecomputeTx(r)
  PROVE  Advances(r)
<1>1. CASE DecideTx(r)
  <2>1. pc[r] = "decide"
    BY <1>1 DEF DecideTx, InBody
  <2>2. \/ \E n : RetryTx(r, n, {})
        \/ \E stage \in {"pick", "delete"} : Goto(r, stage) /\ UNCHANGED task
    BY <1>1 DEF DecideTx
  <2>3. \A stage \in {"pick", "delete"} :
          StagesLeft[stage] < StagesLeft["decide"] /\ stage \in Stage
    BY DEF StagesLeft, Stage, TxStage
  <2>4. ASSUME NEW stage \in {"pick", "delete"}, Goto(r, stage), UNCHANGED task
        PROVE  Advances(r)
    BY <2>1, <2>3, <2>4, Onward
  <2> QED
    BY <2>2, <2>4, RetryNeedsWriter DEF Advances
<1>2. CASE Fetch(r)
  <2>1. pc[r] = "fetch" /\ UNCHANGED task
    BY <1>2 DEF Fetch
  <2>2. \E stage \in {"pick", "orphan", "count"} : Goto(r, stage)
    BY <1>2 DEF Fetch
  <2>3. \A stage \in {"pick", "orphan", "count"} :
          StagesLeft[stage] < StagesLeft["fetch"] /\ stage \in Stage
    BY DEF StagesLeft, Stage, TxStage
  <2>4. ASSUME NEW stage \in {"pick", "orphan", "count"}, Goto(r, stage)
        PROVE  Advances(r)
    BY <2>1, <2>3, <2>4, Onward
  <2> QED
    BY <2>2, <2>4
<1>3. CASE CountTx(r) \/ OrphanTx(r)
  <2>1. pc[r] \in {"count", "orphan"}
    BY <1>3 DEF CountTx, OrphanTx, InBody
  <2>2. \/ \E n, locks : RetryTx(r, n, locks)
        \/ Goto(r, "pick") /\ UNCHANGED task
        \/ Goto(r, "decide") /\ Set(r, "seen", "deleting")
    BY <1>3 DEF CountTx, OrphanTx
  <2>3. \A stage \in {"pick", "decide"} : StagesLeft[stage] < StagesLeft[pc[r]] /\ stage \in Stage
    BY <2>1 DEF StagesLeft, Stage, TxStage
  <2>4. ASSUME NEW stage \in {"pick", "decide"}, Goto(r, stage),
               UNCHANGED task \/ Set(r, "seen", "deleting")
        PROVE  Advances(r)
    BY <2>1, <2>3, <2>4, Onward
  <2> QED
    BY <2>2, <2>4, RetryNeedsWriter DEF Advances
<1>4. CASE RecomputeTx(r)
  <2>1. (\E n : RetryTx(r, n, {})) \/ Finish(r)
    BY <1>4 DEF RecomputeTx
  <2> QED
    BY <2>1, Ends, RetryNeedsWriter DEF Advances
<1> QED
  BY <1>1, <1>2, <1>3, <1>4

\* A task that another one's step leaves alone.
LEMMA OthersStay ==
  ASSUME Inv, NEW r \in Task, NEW q \in Task, q # r,
         StartTask(r) \/ Step(r) \/ DeleteFails(r) \/ Crash(r)
  PROVE  Stays(q) /\ snap'[q] = snap[q]
<1>0. /\ pc \in [Task -> Stage] /\ task \in [Task -> Work \cup {Absent}]
      /\ snap \in [Task -> Documents \cup {Absent}]
  BY DEF Inv, TypeOK, Typed
<1>1. ASSUME NEW stage, Goto(r, stage)
      PROVE  pc'[q] = pc[q]
  BY <1>0, <1>1 DEF Goto
<1>2. ASSUME NEW field, NEW value, Set(r, field, value)
      PROVE  task'[q] = task[q]
  BY <1>0, <1>2 DEF Set
<1>3. ASSUME Finish(r)
      PROVE  Stays(q)
  BY <1>0, <1>1, <1>3 DEF Finish, Stays
<1>4. ASSUME NEW docs, LeaveTx(r, docs)
      PROVE  snap'[q] = snap[q]
  BY <1>0, <1>4 DEF LeaveTx
<1>5. ASSUME NEW n, NEW locks, RetryTx(r, n, locks)
      PROVE  Stays(q) /\ snap'[q] = snap[q]
  BY <1>4, <1>5 DEF RetryTx, Stays
<1>6. ASSUME NEW n, NEW locks, NEW late, CommitTx(r, n, locks, late)
      PROVE  snap'[q] = snap[q]
  BY <1>4, <1>6 DEF CommitTx
<1>7. ASSUME EndTx(r)
      PROVE  snap'[q] = snap[q]
  BY <1>4, <1>7 DEF EndTx
<1>8. ASSUME NEW prev, Cleanup(r, prev)
      PROVE  Stays(q)
  BY <1>1, <1>2, <1>3, <1>8 DEF Cleanup, Stays
<1>9. ASSUME GoOn(r)
      PROVE  Stays(q)
  BY <1>1, <1>3, <1>9 DEF GoOn, Stays
<1>10. ASSUME NEW kind, NEW owner, NEW file, NEW todo, NEW stage,
              Start(r, kind, owner, file, todo, stage)
       PROVE  Stays(q) /\ snap'[q] = snap[q]
  BY <1>0, <1>1, <1>10 DEF Start, Stays, Quiet
<1>11. CASE StartTask(r)
  <2>1. \E kind, owner, file, todo, stage : Start(r, kind, owner, file, todo, stage)
    BY <1>11, Zenon DEF StartTask, StartUpload, StartPurge, StartClear, StartRecover,
       StartInventory, StartInitialize, StartOrphans, StartRecompute
  <2> QED
    BY <1>10, <2>1
<1>12. CASE Begin(r)
  BY <1>0, <1>12 DEF Begin, Stays
<1>13. CASE ReserveTx(r)
  <2>1. \/ \E n : RetryTx(r, n, {})
        \/ /\ (\E n : CommitTx(r, n, {}, {})) \/ EndTx(r)
           /\ \/ Finish(r)
              \/ /\ \E stage : Goto(r, stage)
                 /\ \/ UNCHANGED task
                    \/ task' = [task EXCEPT ![r].freed = "none", ![r].todo = Due]
    BY <1>13 DEF ReserveTx
  <2>2. task' = [task EXCEPT ![r].freed = "none", ![r].todo = Due] => task'[q] = task[q]
    BY <1>0
  <2> QED
    BY <1>1, <1>3, <1>5, <1>6, <1>7, <2>1, <2>2 DEF Stays
<1>14. CASE PutFails(r) \/ Abandon(r) \/ Undo(r) \/ ReadOwner(r)
  <2>1. /\ snap' = snap
        /\ \/ Finish(r)
           \/ /\ \E stage : Goto(r, stage)
              /\ UNCHANGED task \/ \E value : Set(r, "prev", value)
    BY <1>14 DEF PutFails, Abandon, Undo, ReadOwner, Quiet
  <2> QED
    BY <1>1, <1>2, <1>3, <2>1 DEF Stays
<1>15. CASE MarkTx(r) \/ DecideTx(r) \/ OrphanTx(r) \/ CountTx(r)
  <2>1. \/ \E n, locks : RetryTx(r, n, locks)
        \/ /\ (\E n, locks, late : CommitTx(r, n, locks, late)) \/ EndTx(r)
           /\ \E stage : Goto(r, stage)
           /\ UNCHANGED task \/ \E value : Set(r, "seen", value)
    BY <1>15 DEF MarkTx, DecideTx, OrphanTx, CountTx
  <2> QED
    BY <1>1, <1>2, <1>5, <1>6, <1>7, <2>1 DEF Stays
<1>16. CASE WriteTx(r) \/ DiscardTx(r) \/ RemoveTx(r) \/ RecomputeTx(r)
  <2>1. \/ \E n : RetryTx(r, n, {})
        \/ /\ (\E n : CommitTx(r, n, {}, {})) \/ EndTx(r)
           /\ \/ Finish(r)
              \/ \E prev : Cleanup(r, prev)
              \/ Goto(r, "discard") /\ UNCHANGED task
    BY <1>16 DEF WriteTx, DiscardTx, RemoveTx, RecomputeTx
  <2> QED
    BY <1>1, <1>3, <1>5, <1>6, <1>7, <1>8, <2>1 DEF Stays
<1>17. CASE ReleaseTx(r)
  <2>1. \/ \E n : RetryTx(r, n, {})
        \/ /\ (\E n : CommitTx(r, n, {}, {})) \/ EndTx(r)
           /\ GoOn(r) \/ (Goto(r, "pick") /\ Set(r, "freed", "some"))
    BY <1>17 DEF ReleaseTx
  <2> QED
    BY <1>1, <1>2, <1>5, <1>6, <1>7, <1>9, <2>1 DEF Stays
<1>18. CASE DeleteFile(r) \/ DeleteFails(r) \/ Fetch(r)
  <2>1. /\ snap' = snap
        /\ GoOn(r) \/ (UNCHANGED task /\ \E stage : Goto(r, stage))
    BY <1>18 DEF DeleteFile, DeleteFails, Fetch, Quiet
  <2> QED
    BY <1>1, <1>9, <2>1 DEF Stays
<1>19. CASE Pick(r)
  <2>1. snap' = snap
    BY <1>19 DEF Pick, Quiet
  <2>2. CASE Finish(r)
    BY <1>3, <2>1, <2>2
  <2>3. CASE ~ Finish(r)
    <3>1. \E stage : Goto(r, stage)
      BY <1>19, <2>3 DEF Pick
    <3>2. \/ Set(r, "freed", "retried")
          \/ \E e : task' = [task EXCEPT ![r].todo = @ \ {e}, ![r].target = e[1], ![r].seen = e[2]]
      BY <1>19, <2>3 DEF Pick
    <3>3. task'[q] = task[q]
      BY <1>0, <1>2, <3>2
    <3> QED
      BY <1>1, <2>1, <3>1, <3>3 DEF Stays
  <2> QED
    BY <2>2, <2>3
<1>20. CASE Crash(r)
  BY <1>3, <1>7, <1>20 DEF Crash
<1> QED
  BY <1>11, <1>12, <1>13, <1>14, <1>15, <1>16, <1>17, <1>18, <1>19, <1>20 DEF Step

\* An upload that lands changes the stage of its task only.
LEMMA LandAdvances ==
  ASSUME Inv, NEW f \in File, Land(f), NEW q \in Task
  PROVE  Nears(q) \/ (Stays(q) /\ snap'[q] = snap[q])
<1>1. UNCHANGED <<task, snap>>
  BY DEF Land, Quiet
<1>2. pc'[q] = pc[q] \/ (pc[q] = "put" /\ pc'[q] = "mark")
  BY DEF Land, Inv, TypeOK
<1>3. CASE pc'[q] = pc[q]
  BY <1>1, <1>3 DEF Stays
<1>4. CASE pc[q] = "put" /\ pc'[q] = "mark"
  <2>1. StagesLeft["mark"] < StagesLeft["put"]
    BY DEF StagesLeft, Stage, TxStage
  <2> QED
    BY <1>1, <1>4, <2>1 DEF Nears
<1> QED
  BY <1>2, <1>3, <1>4

\* Requests and passes on the files come to their end, however they run beside
\* each other (TasksAdvance).
THEOREM TasksDoNotLoop == Spec => TasksAdvance
<1>1. ASSUME Inv, Next, NEW q \in Task, pc[q] # "idle"
      PROVE  \/ Nears(q)
             \/ Stays(q) /\ (snap[q] \in {Absent, snap'[q]} \/ dirty[q] # NoDocs)
  <2>1. ASSUME NEW r \in Task, StartTask(r) \/ Step(r) \/ DeleteFails(r) \/ Crash(r), q # r
        PROVE  Stays(q) /\ snap'[q] = snap[q]
    BY <1>1, <2>1, OthersStay
  <2>2. ~ StartTask(q)
    BY <1>1 DEF StartTask, StartUpload, StartPurge, StartClear, StartRecover,
       StartInventory, StartInitialize, StartOrphans, StartRecompute, Start
  <2>3. ASSUME Step(q) \/ DeleteFails(q) \/ Crash(q)
        PROVE  Advances(q)
    <3>1. CASE Begin(q)
      BY <3>1 DEF Begin, Advances, Stays
    <3>2. CASE Crash(q)
      BY <1>1, <3>2, Ends DEF Crash, Advances
    <3> QED
      BY <1>1, <2>3, <3>1, <3>2, UploadAdvances, ReserveAdvances, DocumentAdvances,
         DeletionAdvances, PickAdvances, EntryAdvances DEF Step
  <2>4. ASSUME NEW f \in File, Land(f)
        PROVE  Nears(q) \/ (Stays(q) /\ snap'[q] = snap[q])
    BY <1>1, <2>4, LandAdvances
  <2>5. ASSUME NEW f \in File, Lose(f) \/ Expire(f)
        PROVE  Stays(q) /\ snap'[q] = snap[q]
    BY <2>5 DEF Lose, Expire, Quiet, Stays
  <2>6. ASSUME NEW r \in Task, StartTask(r) \/ Step(r) \/ DeleteFails(r) \/ Crash(r)
        PROVE  \/ Nears(q)
               \/ Stays(q) /\ (snap[q] \in {Absent, snap'[q]} \/ dirty[q] # NoDocs)
    <3>1. CASE q = r
      <4>1. Advances(q)
        BY <2>2, <2>3, <2>6, <3>1
      <4> QED
        BY <4>1 DEF Advances
    <3>2. CASE q # r
      BY <2>1, <2>6, <3>2
    <3> QED
      BY <3>1, <3>2
  <2> QED
    BY <1>1, <2>4, <2>5, <2>6 DEF Next
<1>2. Inv /\ [Next]_vars =>
        [\A r \in Task : pc[r] # "idle" =>
           \/ Nears(r)
           \/ Stays(r) /\ (snap[r] \in {Absent, snap'[r]} \/ dirty[r] # NoDocs)]_vars
  BY <1>1
<1> QED
  BY Invariant, <1>2, PTL DEF Spec, TasksAdvance

=============================================================================
