------------------------- MODULE DocumentFlowProofs -------------------------
(***************************************************************************)
(* Proofs that the properties of DocumentFlow which hold under every       *)
(* interleaving and every failure hold for any documents, users, files and *)
(* threads.                                                                *)
(***************************************************************************)
EXTENDS DocumentFlow, FiniteSetTheorems, TLAPS

\* What a call in progress carries: a document, a user, and for an upload the
\* file, its name and the number after the loaded one.
WellFormed(j) ==
  j.op # "idle" =>
    /\ j.doc \in Docs
    /\ j.actor \in Users
    /\ j.op = "upload" => /\ j.file \in Files
                         /\ j.name \in Names
                         /\ j.version = j.seen.current + 1
JobShape == \A w \in Workers : WellFormed(job[w])

TypeInv == TypeOK /\ JobShape

\* A table is a bag of rows, and inserting a row keeps it one.
LEMMA BagAddFacts ==
  ASSUME NEW B, NEW x
  PROVE  /\ DOMAIN BagAdd(B, x) = DOMAIN B \cup {x}
         /\ IsABag(B) => IsABag(BagAdd(B, x))
<1>1. DOMAIN BagAdd(B, x) = DOMAIN B \cup {x}
  BY DEF BagAdd
<1>2. ASSUME IsABag(B) PROVE IsABag(BagAdd(B, x))
  BY <1>2 DEF IsABag, BagAdd
<1>. QED BY <1>1, <1>2

\* Writing the changed columns of a row gives a row.
LEMMA FlushType ==
  ASSUME NEW stored \in Rows, NEW seen \in Rows, NEW new \in Rows
  PROVE  /\ Flush(stored, seen, new) \in Rows
         /\ Flush(stored, seen, new).creator = stored.creator
BY DEF Flush, Column, Rows

LEMMA InitType == Init => TypeInv
<1>. SUFFICES ASSUME Init PROVE TypeInv
  OBVIOUS
<1>1. Absent \in Rows
  BY DEF Absent, Rows, Statuses
<1>2. doc \in [Docs -> Rows]
  BY <1>1 DEF Init
<1>3. job \in [Workers -> Jobs]
  BY <1>1 DEF Init, Idle, Jobs
<1>4. IsABag(EmptyBag) /\ DOMAIN EmptyBag = {}
  BY DEF EmptyBag, SetToBag, IsABag
<1>5. /\ IsABag(versions) /\ DOMAIN versions \subseteq VersionRows
      /\ IsABag(audit) /\ DOMAIN audit \subseteq Entries
  BY <1>4 DEF Init
<1>6. DOMAIN objects = {}
  BY DEF Init
<1>7. archived \in BOOLEAN
  BY DEF Init
<1>8. calls \in 0 .. MaxCalls
  BY BoundsAssumption DEF Init
<1>9. TypeOK
  BY <1>2, <1>3, <1>5, <1>6, <1>7, <1>8 DEF TypeOK
<1>10. JobShape
  BY DEF Init, Idle, JobShape, WellFormed
<1>. QED BY <1>9, <1>10 DEF TypeInv

\* Replacing one thread's call by a well-formed one keeps the calls well-formed.
LEMMA JobUpdate ==
  ASSUME job \in [Workers -> Jobs], JobShape,
         NEW w \in Workers, NEW j \in Jobs, WellFormed(j),
         job' = [job EXCEPT ![w] = j]
  PROVE  job' \in [Workers -> Jobs] /\ JobShape'
<1>1. job' \in [Workers -> Jobs]
  OBVIOUS
<1>2. ASSUME NEW v \in Workers PROVE WellFormed(job'[v])
  BY DEF JobShape
<1>. QED BY <1>1, <1>2 DEF JobShape

LEMMA IdleType == Absent \in Rows /\ Idle \in Jobs /\ WellFormed(Idle)
<1>1. Absent \in Rows
  BY DEF Absent, Rows, Statuses
<1>. QED BY <1>1 DEF Idle, Jobs, WellFormed

LEMMA FinishType ==
  ASSUME TypeInv, NEW w \in Workers, Finish(w)
  PROVE  job' \in [Workers -> Jobs] /\ JobShape'
BY IdleType, JobUpdate DEF Finish, TypeInv, TypeOK

LEMMA AdvanceType ==
  ASSUME TypeInv, NEW w \in Workers, NEW step \in {"stored", "recorded"},
         Advance(w, step)
  PROVE  job' \in [Workers -> Jobs] /\ JobShape'
<1>. DEFINE j == [job[w] EXCEPT !.step = step]
<1>1. job[w] \in Jobs /\ WellFormed(job[w]) /\ job \in [Workers -> Jobs]
  BY DEF TypeInv, TypeOK, JobShape
<1>2. j \in Jobs
  BY <1>1 DEF Jobs
<1>3. WellFormed(j)
  BY <1>1 DEF Jobs, WellFormed
<1>4. job' = [job EXCEPT ![w] = j]
  BY DEF Advance
<1>. HIDE DEF j
<1>. QED BY <1>1, <1>2, <1>3, <1>4, JobUpdate DEF TypeInv

LEMMA LoadType ==
  ASSUME TypeInv, NEW w \in Workers, NEW d \in Docs, NEW u \in Users,
         NEW op \in {"review", "approve", "reject", "delete"}, Load(w, op, d, u)
  PROVE  job' \in [Workers -> Jobs] /\ JobShape'
<1>. DEFINE j == [Idle EXCEPT !.op = op, !.step = "loaded", !.doc = d,
                              !.actor = u, !.seen = doc[d]]
<1>1. doc[d] \in Rows /\ job \in [Workers -> Jobs] /\ JobShape
  BY DEF TypeInv, TypeOK
<1>2. j \in Jobs
  BY <1>1, IdleType DEF Jobs, Idle, Operations
<1>3. WellFormed(j)
  BY DEF Idle, WellFormed
<1>4. job' = [job EXCEPT ![w] = j]
  BY DEF Load
<1>. HIDE DEF j
<1>. QED BY <1>1, <1>2, <1>3, <1>4, JobUpdate

LEMMA RecordType ==
  ASSUME TypeInv, NEW action \in TrailActions, NEW u \in Users, NEW d \in Docs,
         NEW v \in Nat \cup {None}, Record(action, u, d, v)
  PROVE  /\ IsABag(audit') /\ DOMAIN audit' \subseteq Entries
         /\ DOMAIN audit' = DOMAIN audit \cup {Entry(action, u, d, v)}
<1>1. Entry(action, u, d, v) \in Entries
  BY DEF Entry, Entries
<1>. QED BY <1>1, BagAddFacts DEF Record, TypeInv, TypeOK

\* The handlers that change a document's row and record it in one commit.
LEMMA ChangeType ==
  ASSUME TypeInv, NEW w \in Workers,
         NEW action \in {"review", "approve", "reject", "delete"},
         NEW new \in Rows, NEW v \in Nat \cup {None},
         CommitChange(w, action, new, v)
  PROVE  TypeInv'
<1>1. /\ job[w].doc \in Docs /\ job[w].actor \in Users /\ job[w].seen \in Rows
      /\ doc[job[w].doc] \in Rows
  BY DEF TypeInv, TypeOK, JobShape, WellFormed, CommitChange, Holds, Jobs
<1>2. doc' \in [Docs -> Rows]
  BY <1>1, FlushType DEF CommitChange, TypeInv, TypeOK
<1>3. IsABag(audit') /\ DOMAIN audit' \subseteq Entries
  BY <1>1, RecordType DEF CommitChange, TrailActions
<1>4. job' \in [Workers -> Jobs] /\ JobShape'
  BY FinishType DEF CommitChange
<1>. QED BY <1>2, <1>3, <1>4 DEF CommitChange, TypeInv, TypeOK

LEMMA StepType == TypeInv /\ [Next]_vars => TypeInv'
<1>. SUFFICES ASSUME TypeInv, [Next]_vars PROVE TypeInv'
  OBVIOUS
<1>. USE DEF TypeInv
<1>1. CASE UNCHANGED vars
  BY <1>1 DEF vars, TypeOK, JobShape
<1>2. ASSUME NEW d \in Docs, NEW u \in Users, CreateDocument(d, u) PROVE TypeInv'
  <2>1. [Absent EXCEPT !.creator = u] \in Rows
    BY IdleType DEF Absent, Rows
  <2>2. doc' \in [Docs -> Rows] /\ calls' \in 0 .. MaxCalls
    BY <1>2, <2>1, BoundsAssumption DEF CreateDocument, Count, TypeOK
  <2>. QED BY <1>2, <2>2 DEF CreateDocument, TypeOK, JobShape
<1>3. CASE Archive \/ Restore
  <2>1. archived' \in BOOLEAN
    BY <1>3, Zenon DEF Archive, Restore, SetArchived
  <2>2. calls' \in 0 .. MaxCalls
    BY <1>3, BoundsAssumption DEF Archive, Restore, SetArchived, Count, TypeOK
  <2>. QED BY <1>3, <2>1, <2>2 DEF Archive, Restore, SetArchived, TypeOK, JobShape
<1>4. ASSUME NEW w \in Workers, Begin(w) PROVE TypeInv'
  <2>1. /\ calls' \in 0 .. MaxCalls
        /\ UNCHANGED <<doc, versions, objects, audit, archived>>
    BY <1>4, BoundsAssumption
       DEF Begin, BeginUpload, BeginReview, BeginApprove, BeginReject, BeginDelete,
           BeginDownload, Accept, Count, TypeOK
  <2>2. ASSUME NEW d \in Docs, NEW u \in Users, NEW f \in Files, NEW n \in Names,
               BeginUpload(w, d, u, f, n)
        PROVE  job' \in [Workers -> Jobs] /\ JobShape'
    <3>. DEFINE j == [op |-> "upload", step |-> "loaded", doc |-> d, actor |-> u,
                      seen |-> doc[d], version |-> doc[d].current + 1, file |-> f,
                      name |-> n]
    <3>1. doc[d] \in Rows /\ job \in [Workers -> Jobs]
      BY DEF TypeOK
    <3>2. doc[d].current + 1 \in Nat
      BY <3>1 DEF Rows
    <3>3. j \in Jobs /\ WellFormed(j)
      BY <3>1, <3>2 DEF Jobs, Operations, WellFormed
    <3>4. job' = [job EXCEPT ![w] = j]
      BY <2>2 DEF BeginUpload
    <3>. HIDE DEF j
    <3>. QED BY <3>1, <3>3, <3>4, JobUpdate
  <2>3. ASSUME NEW d \in Docs, NEW u \in Users,
               \/ BeginReview(w, d, u) \/ BeginApprove(w, d, u)
               \/ BeginReject(w, d, u) \/ BeginDelete(w, d, u)
        PROVE  job' \in [Workers -> Jobs] /\ JobShape'
    BY <2>3, LoadType DEF BeginReview, BeginApprove, BeginReject, BeginDelete
  <2>4. ASSUME NEW d \in Docs, NEW u \in Users, BeginDownload(w, d, u)
        PROVE  job' \in [Workers -> Jobs] /\ JobShape'
    <3>1. PICK r \in DOMAIN versions :
            /\ r.key \in DOMAIN objects
            /\ job' = [job EXCEPT ![w] =
                 [op |-> "download", step |-> "loaded", doc |-> d, actor |-> u,
                  seen |-> doc[d], version |-> r.version, file |-> objects[r.key],
                  name |-> r.key[3]]]
      BY <2>4 DEF BeginDownload
    <3>. DEFINE j == [op |-> "download", step |-> "loaded", doc |-> d, actor |-> u,
                      seen |-> doc[d], version |-> r.version, file |-> objects[r.key],
                      name |-> r.key[3]]
    <3>2. doc[d] \in Rows /\ job \in [Workers -> Jobs]
      BY DEF TypeOK
    <3>3. r.version \in Nat /\ r.key[3] \in Names /\ objects[r.key] \in Files
      BY <3>1 DEF TypeOK, VersionRows, Keys
    <3>4. j \in Jobs /\ WellFormed(j)
      BY <3>2, <3>3 DEF Jobs, Operations, WellFormed
    <3>5. job' = [job EXCEPT ![w] = j]
      BY <3>1
    <3>. HIDE DEF j
    <3>. QED BY <3>2, <3>4, <3>5, JobUpdate
  <2>5. job' \in [Workers -> Jobs] /\ JobShape'
    BY <1>4, <2>2, <2>3, <2>4 DEF Begin
  <2>. QED BY <2>1, <2>5 DEF TypeOK
<1>5. ASSUME NEW w \in Workers, PutObject(w) PROVE TypeInv'
  <2>1. ObjectKey(w) \in Keys /\ job[w].file \in Files
    BY <1>5 DEF PutObject, Holds, TypeOK, JobShape, WellFormed, ObjectKey, Keys, Jobs
  <2>2. /\ DOMAIN objects' \subseteq Keys
        /\ \A k \in DOMAIN objects' : objects'[k] \in Files
    BY <1>5, <2>1 DEF PutObject, TypeOK
  <2>3. job' \in [Workers -> Jobs] /\ JobShape'
    BY <1>5, AdvanceType DEF PutObject
  <2>. QED BY <1>5, <2>2, <2>3 DEF PutObject, TypeOK
<1>6. ASSUME NEW w \in Workers, CommitVersion(w) PROVE TypeInv'
  <2>. DEFINE d == job[w].doc
              seen == job[w].seen
              row == [doc |-> d, version |-> job[w].version, key |-> ObjectKey(w),
                      file |-> job[w].file, by |-> job[w].actor]
              new == ResetForNewVersion([seen EXCEPT !.current = job[w].version])
  <2>1. /\ d \in Docs /\ seen \in Rows /\ job[w].version \in Nat
        /\ ObjectKey(w) \in Keys /\ job[w].file \in Files /\ job[w].actor \in Users
    BY <1>6 DEF CommitVersion, Holds, TypeOK, JobShape, WellFormed, ObjectKey, Keys, Jobs
  <2>2. row \in VersionRows
    BY <2>1 DEF VersionRows
  <2>3. new \in Rows
    BY <2>1 DEF ResetForNewVersion, Rows, Statuses
  <2>4. versions' = BagAdd(versions, row)
        /\ doc' = [doc EXCEPT ![d] = Flush(doc[d], seen, new)]
    BY <1>6 DEF CommitVersion
  <2>. HIDE DEF row, new
  <2>5. IsABag(versions') /\ DOMAIN versions' \subseteq VersionRows
    <3>1. IsABag(versions) /\ DOMAIN versions \subseteq VersionRows
      BY DEF TypeOK
    <3>2. IsABag(BagAdd(versions, row))
      BY <3>1, BagAddFacts
    <3>3. DOMAIN BagAdd(versions, row) = DOMAIN versions \cup {row}
      BY BagAddFacts
    <3>. QED BY <2>2, <2>4, <3>1, <3>2, <3>3
  <2>6. doc' \in [Docs -> Rows]
    BY <2>1, <2>3, <2>4, FlushType DEF TypeOK
  <2>7. job' \in [Workers -> Jobs] /\ JobShape'
    BY <1>6, AdvanceType DEF CommitVersion
  <2>. QED BY <1>6, <2>5, <2>6, <2>7 DEF CommitVersion, TypeOK
<1>7. ASSUME NEW w \in Workers, CommitTrail(w) \/ CommitDownload(w) PROVE TypeInv'
  <2>1. job[w].doc \in Docs /\ job[w].actor \in Users /\ job[w].version \in Nat
    BY <1>7 DEF CommitTrail, CommitDownload, Holds, TypeOK, JobShape, WellFormed, Jobs
  <2>2. IsABag(audit') /\ DOMAIN audit' \subseteq Entries
    BY <1>7, <2>1, RecordType DEF CommitTrail, CommitDownload, TrailActions
  <2>3. job' \in [Workers -> Jobs] /\ JobShape'
    BY <1>7, FinishType DEF CommitTrail, CommitDownload
  <2>. QED BY <1>7, <2>2, <2>3 DEF CommitTrail, CommitDownload, TypeOK
<1>8. ASSUME NEW w \in Workers,
             \/ CommitReview(w) \/ CommitApprove(w) \/ CommitReject(w) \/ CommitDelete(w)
      PROVE  TypeInv'
  <2>1. job[w].seen \in Rows
    BY DEF TypeOK, Jobs
  <2>2. /\ Reviewed(job[w].seen) \in Rows /\ Approved(job[w].seen) \in Rows
        /\ Rejected(job[w].seen) \in Rows
        /\ [job[w].seen EXCEPT !.deleted = TRUE] \in Rows
        /\ job[w].seen.current \in Nat
    BY <2>1 DEF Reviewed, Approved, Rejected, Rows, Statuses
  <2>. QED BY <1>8, <2>2, ChangeType
           DEF CommitReview, CommitApprove, CommitReject, CommitDelete
<1>9. ASSUME NEW w \in Workers, Abort(w) PROVE TypeInv'
  BY <1>9, FinishType DEF Abort, TypeOK
<1>. QED
  BY <1>1, <1>2, <1>3, <1>4, <1>5, <1>6, <1>7, <1>8, <1>9 DEF Next, Continue

\* Type correctness: rows, records and calls keep their shape, and a call in
\* progress names a document and a user that exist.
THEOREM TypeCorrect == Spec => []TypeInv
<1>. QED BY InitType, StepType, PTL DEF Spec

\* Type correctness for any documents, users, files and threads.
THEOREM TypeOKHolds == Spec => []TypeOK
<1>1. TypeInv => TypeOK
  BY DEF TypeInv
<1>. QED BY <1>1, TypeCorrect, PTL

-----------------------------------------------------------------------------
(* The numbering of versions.  NoVersionGap is not inductive: an upload    *)
(* commits a number it computed from the row it loaded, so what a call in  *)
(* progress has seen must have a row too, and the object of a call that is *)
(* about to commit must be stored.                                         *)

HasCurrent(d, v) == v = 0 \/ HasVersion(d, v)

VersionInv ==
  /\ TypeInv
  /\ \A w \in Workers : job[w].op # "idle" =>
       HasCurrent(job[w].doc, job[w].seen.current)
  /\ \A w \in Workers : Holds(w, "upload", "stored") => ObjectKey(w) \in DOMAIN objects
  /\ VersionFileStored
  /\ NoVersionGap

\* A version that has a row keeps having one.
LEMMA HasVersionGrows ==
  ASSUME DOMAIN versions \subseteq DOMAIN versions', NEW d, NEW v
  PROVE  /\ HasVersion(d, v) => HasVersion(d, v)'
         /\ HasCurrent(d, v) => HasCurrent(d, v)'
BY DEF HasVersion, HasCurrent, RowsOf

\* A step that inserts no version and leaves the documents' current versions
\* and the objects alone can only disturb what the calls have seen.
LEMMA QuietVersions ==
  ASSUME VersionInv, TypeInv', UNCHANGED <<versions, objects>>,
         \A d \in Docs : HasCurrent(d, doc'[d].current),
         \A w \in Workers : \/ job'[w].op = "idle"
                            \/ job'[w] = job[w]
                            \/ /\ job'[w].step # "stored"
                               /\ HasCurrent(job'[w].doc, job'[w].seen.current)
  PROVE  VersionInv'
<1>1. \A w \in Workers : job'[w].op # "idle" =>
        HasCurrent(job[w].doc, job[w].seen.current)'
  BY DEF VersionInv, HasCurrent, HasVersion, RowsOf
<1>2. \A w \in Workers : Holds(w, "upload", "stored")' => ObjectKey(w)' \in DOMAIN objects'
  BY DEF VersionInv, Holds, ObjectKey
<1>3. VersionFileStored'
  BY DEF VersionInv, VersionFileStored
<1>4. NoVersionGap'
  BY DEF VersionInv, NoVersionGap, HasCurrent, HasVersion, RowsOf
<1>. QED BY <1>1, <1>2, <1>3, <1>4 DEF VersionInv

LEMMA InitVersion == Init => VersionInv
<1>. SUFFICES ASSUME Init PROVE VersionInv
  OBVIOUS
<1>1. DOMAIN versions = {}
  BY DEF Init, EmptyBag, SetToBag
<1>2. \A w \in Workers : job[w].op = "idle"
  BY DEF Init, Idle
<1>3. \A d \in Docs : doc[d].current = 0
  BY DEF Init, Absent
<1>. QED BY <1>1, <1>2, <1>3, InitType
         DEF VersionInv, Holds, VersionFileStored, NoVersionGap

\* The commits that change a row keep its current version as it is stored.
LEMMA ChangeVersion ==
  ASSUME VersionInv, TypeInv', NEW w \in Workers, NEW action, NEW new \in Rows, NEW v,
         new.current = job[w].seen.current, CommitChange(w, action, new, v)
  PROVE  VersionInv'
<1>1. \A d \in Docs : doc'[d].current = doc[d].current
  BY DEF CommitChange, Flush, Column, VersionInv, TypeInv, TypeOK, Rows, Jobs
<1>2. \A d \in Docs : HasCurrent(d, doc'[d].current)
  BY <1>1 DEF VersionInv, NoVersionGap, HasCurrent
<1>3. \A x \in Workers : job'[x] = Idle \/ job'[x] = job[x]
  BY DEF CommitChange, Finish, VersionInv, TypeInv, TypeOK
<1>. QED BY <1>2, <1>3, QuietVersions DEF CommitChange, Idle

\* An upload stores its object before it inserts the row.
LEMMA PutVersion ==
  ASSUME VersionInv, TypeInv', NEW w \in Workers, PutObject(w)
  PROVE  VersionInv'
<1>1. /\ DOMAIN objects' = DOMAIN objects \cup {ObjectKey(w)}
      /\ UNCHANGED <<doc, versions>>
      /\ job' = [job EXCEPT ![w].step = "stored"]
      /\ job \in [Workers -> Jobs]
  BY DEF PutObject, Advance, VersionInv, TypeInv, TypeOK
<1>2. \A x \in Workers : /\ job'[x].op = job[x].op /\ job'[x].doc = job[x].doc
                         /\ job'[x].seen = job[x].seen
                         /\ ObjectKey(x)' = ObjectKey(x)
                         /\ x # w => job'[x] = job[x]
  BY <1>1 DEF ObjectKey, Jobs
<1>3. \A x \in Workers : job'[x].op # "idle" =>
        HasCurrent(job[x].doc, job[x].seen.current)'
  BY <1>1, <1>2 DEF VersionInv, HasCurrent, HasVersion, RowsOf
<1>4. \A x \in Workers : Holds(x, "upload", "stored")' => ObjectKey(x)' \in DOMAIN objects'
  BY <1>1, <1>2 DEF VersionInv, Holds
<1>5. VersionFileStored'
  BY <1>1 DEF VersionInv, VersionFileStored
<1>6. NoVersionGap'
  BY <1>1 DEF VersionInv, NoVersionGap, HasVersion, RowsOf
<1>. QED BY <1>3, <1>4, <1>5, <1>6 DEF VersionInv

\* The row of version n is inserted when version n - 1 has one.
LEMMA InsertVersion ==
  ASSUME VersionInv, TypeInv', NEW w \in Workers, CommitVersion(w)
  PROVE  VersionInv'
<1>. DEFINE d == job[w].doc
            n == job[w].version
            row == [doc |-> d, version |-> n, key |-> ObjectKey(w),
                    file |-> job[w].file, by |-> job[w].actor]
            seen == job[w].seen
            new == ResetForNewVersion([seen EXCEPT !.current = n])
<1>1. /\ d \in Docs /\ seen \in Rows /\ n = seen.current + 1 /\ n \in Nat
      /\ job[w].op = "upload" /\ Holds(w, "upload", "stored")
  BY DEF CommitVersion, Holds, VersionInv, TypeInv, TypeOK, JobShape, WellFormed, Jobs
<1>2. /\ versions' = BagAdd(versions, row)
      /\ doc' = [doc EXCEPT ![d] = Flush(doc[d], seen, new)]
      /\ job' = [job EXCEPT ![w].step = "recorded"]
      /\ objects' = objects
  BY DEF CommitVersion, Advance
<1>3. DOMAIN versions' = DOMAIN versions \cup {row}
  BY <1>2, BagAddFacts
<1>4. row \in DOMAIN versions' /\ row.doc = d /\ row.version = n
  BY <1>3
<1>5. n = 1 \/ HasVersion(d, n - 1)
  <2>1. HasCurrent(d, seen.current)
    BY <1>1 DEF VersionInv
  <2>2. seen.current \in Nat /\ n - 1 = seen.current
    BY <1>1 DEF Rows
  <2>. QED BY <1>1, <2>1, <2>2 DEF HasCurrent
<1>6. \A e, v : HasVersion(e, v) => RowsOf(e, v)' # {}
  BY <1>3 DEF HasVersion, RowsOf
<1>7. \A x \in Workers : /\ job'[x].op = job[x].op /\ job'[x].doc = job[x].doc
                         /\ job'[x].seen = job[x].seen
                         /\ ObjectKey(x)' = ObjectKey(x)
                         /\ job'[x].step = "stored" => job[x].step = "stored"
  BY <1>2 DEF ObjectKey, VersionInv, TypeInv, TypeOK, Jobs
<1>8. \A x \in Workers : job'[x].op # "idle" =>
        HasCurrent(job[x].doc, job[x].seen.current)'
  BY <1>3, <1>7 DEF VersionInv, HasCurrent, HasVersion, RowsOf
<1>9. \A x \in Workers : Holds(x, "upload", "stored")' => ObjectKey(x)' \in DOMAIN objects'
  BY <1>2, <1>7 DEF VersionInv, Holds
<1>10. VersionFileStored'
  <2>1. row.key \in DOMAIN objects
    BY <1>1 DEF VersionInv
  <2>. QED BY <1>2, <1>3, <2>1 DEF VersionInv, VersionFileStored
<1>11. ASSUME NEW e \in Docs PROVE doc'[e].current = 0 \/ HasVersion(e, doc[e].current)'
  <2>1. CASE e # d
    BY <1>2, <1>3, <2>1 DEF VersionInv, NoVersionGap, HasVersion, RowsOf, TypeInv, TypeOK
  <2>2. CASE e = d
    <3>1. new.current = n
      BY <1>1 DEF ResetForNewVersion, Rows
    <3>2. doc'[d].current = Column(doc[d].current, seen.current, new.current)
      BY <1>1, <1>2 DEF Flush, VersionInv, TypeInv, TypeOK, Rows
    <3>3. doc'[d].current = n
      BY <1>1, <3>1, <3>2 DEF Column, Rows
    <3>. QED BY <1>4, <2>2, <3>3 DEF HasVersion, RowsOf
  <2>. QED BY <2>1, <2>2
<1>12. ASSUME NEW r \in DOMAIN versions'
       PROVE  r.version = 1 \/ RowsOf(r.doc, r.version - 1)' # {}
  <2>1. CASE r \in DOMAIN versions
    BY <1>6, <2>1 DEF VersionInv, NoVersionGap
  <2>2. CASE r = row
    BY <1>5, <1>6, <2>2
  <2>. QED BY <1>3, <2>1, <2>2
<1>13. NoVersionGap'
  BY <1>11, <1>12 DEF NoVersionGap, HasVersion, RowsOf
<1>. QED BY <1>8, <1>9, <1>10, <1>13 DEF VersionInv

\* A handler that starts has just read the current version, which has a row.
LEMMA BeginVersion ==
  ASSUME VersionInv, TypeInv', NEW w \in Workers, Begin(w)
  PROVE  VersionInv'
<1>. DEFINE Took(d) == /\ job'[w].step = "loaded" /\ job'[w].doc = d
                       /\ job'[w].seen = doc[d]
                       /\ \A x \in Workers \ {w} : job'[x] = job[x]
<1>1. UNCHANGED <<doc, versions, objects>> /\ job \in [Workers -> Jobs]
  BY DEF Begin, BeginUpload, BeginReview, BeginApprove, BeginReject, BeginDelete,
         BeginDownload, VersionInv, TypeInv, TypeOK
<1>2. \A d \in Docs : HasCurrent(d, doc[d].current)
  BY DEF VersionInv, NoVersionGap, HasCurrent
<1>3. ASSUME NEW d \in Docs, NEW u \in Users, NEW f \in Files, NEW n \in Names,
             BeginUpload(w, d, u, f, n)
      PROVE  Took(d)
  BY <1>1, <1>3 DEF BeginUpload
<1>4. ASSUME NEW d \in Docs, NEW u \in Users, NEW op, Load(w, op, d, u)
      PROVE  Took(d)
  BY <1>1, <1>4 DEF Load, Idle
<1>5. ASSUME NEW d \in Docs, NEW u \in Users, BeginDownload(w, d, u)
      PROVE  Took(d)
  BY <1>1, <1>5 DEF BeginDownload
<1>6. \E d \in Docs : Took(d)
  <2>. HIDE DEF Took
  <2>. QED BY <1>3, <1>4, <1>5
           DEF Begin, BeginReview, BeginApprove, BeginReject, BeginDelete
<1>. QED BY <1>1, <1>2, <1>6, QuietVersions

LEMMA StepVersion == VersionInv /\ [Next]_vars => VersionInv'
<1>. SUFFICES ASSUME VersionInv, [Next]_vars PROVE VersionInv'
  OBVIOUS
<1>1. TypeInv /\ TypeInv'
  BY StepType DEF VersionInv
<1>2. \A d \in Docs : HasCurrent(d, doc[d].current)
  BY DEF VersionInv, NoVersionGap, HasCurrent
<1>3. CASE UNCHANGED vars
  BY <1>1, <1>2, <1>3, QuietVersions DEF vars
<1>4. ASSUME NEW d \in Docs, NEW u \in Users, CreateDocument(d, u) PROVE VersionInv'
  <2>1. doc' = [doc EXCEPT ![d] = [Absent EXCEPT !.creator = u]]
        /\ UNCHANGED <<versions, objects, job>>
    BY <1>4 DEF CreateDocument
  <2>2. \A e \in Docs : doc'[e].current = 0 \/ doc'[e] = doc[e]
    BY <1>1, <2>1 DEF Absent, TypeInv, TypeOK
  <2>3. \A e \in Docs : HasCurrent(e, doc'[e].current)
    BY <1>2, <2>2 DEF HasCurrent
  <2>. QED BY <1>1, <2>1, <2>3, QuietVersions
<1>5. CASE Archive \/ Restore
  BY <1>1, <1>2, <1>5, QuietVersions DEF Archive, Restore, SetArchived
<1>6. ASSUME NEW w \in Workers, Begin(w) PROVE VersionInv'
  BY <1>1, <1>6, BeginVersion
<1>7. ASSUME NEW w \in Workers, PutObject(w) PROVE VersionInv'
  BY <1>1, <1>7, PutVersion
<1>8. ASSUME NEW w \in Workers, CommitVersion(w) PROVE VersionInv'
  BY <1>1, <1>8, InsertVersion
<1>9. ASSUME NEW w \in Workers, CommitTrail(w) \/ CommitDownload(w) \/ Abort(w)
      PROVE  VersionInv'
  <2>1. Finish(w) /\ UNCHANGED <<doc, versions, objects>>
    BY <1>9 DEF CommitTrail, CommitDownload, Abort
  <2>2. \A x \in Workers : job'[x].op = "idle" \/ job'[x] = job[x]
    BY <1>1, <2>1 DEF Finish, Idle, TypeInv, TypeOK
  <2>. QED BY <1>1, <1>2, <2>1, <2>2, QuietVersions
<1>10. ASSUME NEW w \in Workers,
              \/ CommitReview(w) \/ CommitApprove(w) \/ CommitReject(w) \/ CommitDelete(w)
       PROVE  VersionInv'
  <2>1. job[w].seen \in Rows
    BY <1>1 DEF TypeInv, TypeOK, Jobs
  <2>. DEFINE Same(new) == new \in Rows /\ new.current = job[w].seen.current
  <2>2. /\ Same(Reviewed(job[w].seen)) /\ Same(Approved(job[w].seen))
        /\ Same(Rejected(job[w].seen)) /\ Same([job[w].seen EXCEPT !.deleted = TRUE])
    BY <2>1 DEF Reviewed, Approved, Rejected, Rows, Statuses
  <2>. QED BY <1>1, <1>10, <2>2, ChangeVersion
           DEF CommitReview, CommitApprove, CommitReject, CommitDelete
<1>. QED
  BY <1>3, <1>4, <1>5, <1>6, <1>7, <1>8, <1>9, <1>10 DEF Next, Continue

LEMMA VersionCorrect == Spec => []VersionInv
<1>. QED BY InitVersion, StepVersion, PTL DEF Spec

\* A version row always points at a stored object: the object is put before the
\* row is inserted and no handler removes an object of a document.
THEOREM VersionFileStoredHolds == Spec => []VersionFileStored
<1>1. VersionInv => VersionFileStored
  BY DEF VersionInv
<1>. QED BY <1>1, VersionCorrect, PTL

\* The numbers of a document's versions have no gap and its current version has
\* a row, however the uploads of any number of threads interleave or fail.
THEOREM NoVersionGapHolds == Spec => []NoVersionGap
<1>1. VersionInv => NoVersionGap
  BY DEF VersionInv
<1>. QED BY <1>1, VersionCorrect, PTL

-----------------------------------------------------------------------------
(* Who approved what.  ApprovalBacked needs what a call in progress has    *)
(* seen of the creator to be still so, since an approval is checked on the *)
(* loaded row, and needs VersionInv for the number it will write.          *)

Vetted(j) ==
  j.op # "idle" =>
    /\ Exists(j.doc)
    /\ j.seen.creator = doc[j.doc].creator
    /\ j.op = "approve" => j.actor \in Approvers \ {j.seen.creator}

Backed(d) ==
  doc[d].approved # None =>
    /\ HasCurrent(d, doc[d].approved)
    /\ \E u \in Approvers \ {doc[d].creator} :
         Entry("approve", u, d, doc[d].approved) \in DOMAIN audit

ApprovalInv ==
  /\ VersionInv
  /\ \A w \in Workers : Vetted(job[w])
  /\ \A d \in Docs : Backed(d)

\* What a step keeps for a document it does not approve.
KeepsApproval(d) ==
  /\ doc'[d].approved = None \/ doc'[d].approved = doc[d].approved
  /\ doc'[d].creator = doc[d].creator

\* Tables only grow, so an approval that was backed stays so.
LEMMA BackedStays ==
  ASSUME DOMAIN versions \subseteq DOMAIN versions',
         DOMAIN audit \subseteq DOMAIN audit',
         NEW d \in Docs, Backed(d), KeepsApproval(d)
  PROVE  Backed(d)'
<1>1. \A v : HasCurrent(d, v) => HasCurrent(d, v)'
  BY HasVersionGrows DEF HasCurrent, HasVersion, RowsOf
<1>2. doc'[d].approved # None => HasCurrent(d, doc[d].approved)'
  BY <1>1 DEF Backed, KeepsApproval, HasCurrent, HasVersion, RowsOf
<1>. QED BY <1>2 DEF Backed, KeepsApproval, Entry

\* A step that approves nothing and keeps the creators keeps ApprovalInv.
LEMMA QuietApproval ==
  ASSUME ApprovalInv, VersionInv',
         DOMAIN versions \subseteq DOMAIN versions',
         DOMAIN audit \subseteq DOMAIN audit',
         \A d \in Docs : KeepsApproval(d),
         \A w \in Workers :
           \/ job'[w].op = "idle"
           \/ /\ job'[w].op = job[w].op /\ job'[w].doc = job[w].doc
              /\ job'[w].actor = job[w].actor /\ job'[w].seen = job[w].seen
           \/ job'[w].doc \in Docs /\ Vetted(job'[w])
  PROVE  ApprovalInv'
<1>1. ASSUME NEW w \in Workers PROVE Vetted(job[w])'
  BY DEF ApprovalInv, VersionInv, TypeInv, JobShape, WellFormed, Vetted, Exists,
         KeepsApproval
<1>2. \A d \in Docs : Backed(d)'
  BY BackedStays DEF ApprovalInv
<1>. QED BY <1>1, <1>2 DEF ApprovalInv

LEMMA InitApproval == Init => ApprovalInv
<1>. SUFFICES ASSUME Init PROVE ApprovalInv
  OBVIOUS
<1>1. \A w \in Workers : Vetted(job[w])
  BY DEF Init, Idle, Vetted
<1>2. \A d \in Docs : Backed(d)
  BY DEF Init, Absent, Backed
<1>. QED BY <1>1, <1>2, InitVersion DEF ApprovalInv

\* A commit that writes a row leaves its creator and, unless it approves, can
\* only clear the approved version.
LEMMA ChangeApproval ==
  ASSUME ApprovalInv, VersionInv', NEW w \in Workers, NEW action, NEW new \in Rows,
         NEW v, new.approved = job[w].seen.approved, CommitChange(w, action, new, v)
  PROVE  ApprovalInv'
<1>1. /\ job[w].seen \in Rows /\ doc \in [Docs -> Rows] /\ job \in [Workers -> Jobs]
      /\ doc' = [doc EXCEPT ![job[w].doc] =
                   Flush(doc[job[w].doc], job[w].seen, new)]
      /\ Finish(w) /\ versions' = versions
      /\ Record(action, job[w].actor, job[w].doc, v)
  BY DEF CommitChange, ApprovalInv, VersionInv, TypeInv, TypeOK, Jobs
<1>2. \A d \in Docs : KeepsApproval(d)
  BY <1>1 DEF KeepsApproval, Flush, Column, Rows
<1>3. DOMAIN audit \subseteq DOMAIN audit'
  BY <1>1, BagAddFacts DEF Record
<1>4. \A x \in Workers : job'[x].op = "idle" \/ job'[x] = job[x]
  BY <1>1 DEF Finish, Idle
<1>. QED BY <1>1, <1>2, <1>3, <1>4, QuietApproval

\* An approval writes the version it loaded and records who approved it.
LEMMA ApproveApproval ==
  ASSUME ApprovalInv, VersionInv', NEW w \in Workers, CommitApprove(w)
  PROVE  ApprovalInv'
<1>. DEFINE d == job[w].doc
            seen == job[w].seen
            u == job[w].actor
<1>1. /\ d \in Docs /\ seen \in Rows /\ doc \in [Docs -> Rows]
      /\ job \in [Workers -> Jobs] /\ Vetted(job[w]) /\ HasCurrent(d, seen.current)
      /\ job[w].op = "approve"
  BY DEF CommitApprove, CommitChange, Holds, ApprovalInv, VersionInv, TypeInv, TypeOK,
         JobShape, WellFormed, Jobs
<1>2. /\ doc' = [doc EXCEPT ![d] = Flush(doc[d], seen, Approved(seen))]
      /\ audit' = BagAdd(audit, Entry("approve", u, d, seen.current))
      /\ Finish(w) /\ versions' = versions
  BY DEF CommitApprove, CommitChange, Record
<1>3. DOMAIN audit' = DOMAIN audit \cup {Entry("approve", u, d, seen.current)}
  BY <1>2, BagAddFacts
<1>4. u \in Approvers \ {doc[d].creator}
  BY <1>1 DEF Vetted
<1>5. /\ doc'[d].creator = doc[d].creator
      /\ \/ doc'[d].approved = doc[d].approved
         \/ doc'[d].approved = seen.current
  BY <1>1, <1>2 DEF Flush, Column, Approved, Rows
<1>6. \A e \in Docs \ {d} : doc'[e] = doc[e]
  BY <1>1, <1>2
<1>7. \A e \in Docs : doc'[e].creator = doc[e].creator
  BY <1>5, <1>6
<1>8. ASSUME NEW x \in Workers PROVE Vetted(job[x])'
  <2>1. job'[x].op = "idle" \/ job'[x] = job[x]
    BY <1>1, <1>2 DEF Finish, Idle
  <2>2. job'[x].op # "idle" => job[x].doc \in Docs
    BY <2>1 DEF ApprovalInv, VersionInv, TypeInv, JobShape, WellFormed
  <2>. QED BY <1>7, <2>1, <2>2 DEF ApprovalInv, Vetted, Exists
<1>9. ASSUME NEW e \in Docs PROVE Backed(e)'
  <2>1. CASE KeepsApproval(e)
    BY <1>2, <1>3, <2>1, BackedStays DEF ApprovalInv
  <2>2. CASE e = d /\ doc'[d].approved = seen.current
    <3>1. HasCurrent(e, seen.current) /\ doc'[e].approved = seen.current
      BY <1>1, <2>2
    <3>2. HasCurrent(e, doc[e].approved)'
      BY <1>2, <3>1 DEF HasCurrent, HasVersion, RowsOf
    <3>3. Entry("approve", u, e, doc'[e].approved) \in DOMAIN audit'
      BY <1>3, <2>2
    <3>. QED BY <1>4, <1>5, <2>2, <3>2, <3>3 DEF Backed, Entry
  <2>. QED BY <1>5, <1>6, <2>1, <2>2 DEF KeepsApproval
<1>. QED BY <1>8, <1>9 DEF ApprovalInv

LEMMA StepApproval == ApprovalInv /\ [Next]_vars => ApprovalInv'
<1>. SUFFICES ASSUME ApprovalInv, [Next]_vars PROVE ApprovalInv'
  OBVIOUS
<1>1. VersionInv /\ VersionInv' /\ TypeInv
  BY StepVersion DEF ApprovalInv, VersionInv
<1>2. CASE UNCHANGED vars
  BY <1>1, <1>2, QuietApproval DEF vars, KeepsApproval
<1>3. ASSUME NEW d \in Docs, NEW u \in Users, CreateDocument(d, u) PROVE ApprovalInv'
  <2>1. /\ doc' = [doc EXCEPT ![d] = [Absent EXCEPT !.creator = u]]
        /\ UNCHANGED <<versions, audit, job>> /\ ~Exists(d)
        /\ doc \in [Docs -> Rows]
    BY <1>1, <1>3 DEF CreateDocument, TypeInv, TypeOK
  <2>2. ASSUME NEW w \in Workers PROVE Vetted(job[w])'
    <3>1. job[w].op # "idle" => job[w].doc \in Docs \ {d}
      BY <1>1, <2>1 DEF ApprovalInv, Vetted, TypeInv, JobShape, WellFormed
    <3>. QED BY <2>1, <3>1 DEF ApprovalInv, Vetted, Exists
  <2>3. ASSUME NEW e \in Docs PROVE Backed(e)'
    <3>1. CASE e = d
      BY <2>1, <3>1 DEF Backed, Absent
    <3>2. CASE e # d
      BY <2>1, <3>2, BackedStays DEF ApprovalInv, KeepsApproval
    <3>. QED BY <3>1, <3>2
  <2>. QED BY <1>1, <2>2, <2>3 DEF ApprovalInv
<1>4. CASE Archive \/ Restore
  BY <1>1, <1>4, QuietApproval DEF Archive, Restore, SetArchived, KeepsApproval
<1>5. ASSUME NEW w \in Workers, Begin(w) PROVE ApprovalInv'
  <2>. DEFINE Took == /\ job'[w].doc \in Docs /\ Vetted(job'[w])
                      /\ \A x \in Workers \ {w} : job'[x] = job[x]
  <2>1. UNCHANGED <<doc, versions, audit>> /\ job \in [Workers -> Jobs]
    BY <1>1, <1>5
       DEF Begin, BeginUpload, BeginReview, BeginApprove, BeginReject, BeginDelete,
           BeginDownload, TypeInv, TypeOK
  <2>2. ASSUME NEW d \in Docs, NEW u \in Users, NEW f \in Files, NEW n \in Names,
               BeginUpload(w, d, u, f, n)
        PROVE  Took
    BY <2>1, <2>2 DEF BeginUpload, Vetted, Visible
  <2>3. ASSUME NEW d \in Docs, NEW u \in Users, NEW op, Load(w, op, d, u), Exists(d),
               op = "approve" => u \in Approvers \ {doc[d].creator}
        PROVE  Took
    BY <2>1, <2>3 DEF Load, Idle, Vetted
  <2>4. ASSUME NEW d \in Docs, NEW u \in Users, BeginDownload(w, d, u)
        PROVE  Took
    BY <2>1, <2>4 DEF BeginDownload, Vetted, Visible
  <2>5. Took
    <3>. HIDE DEF Took
    <3>. QED BY <1>5, <2>2, <2>3, <2>4
             DEF Begin, BeginReview, BeginApprove, BeginReject, BeginDelete, Visible
  <2>. QED BY <1>1, <2>1, <2>5, QuietApproval DEF KeepsApproval
<1>6. ASSUME NEW w \in Workers, PutObject(w) PROVE ApprovalInv'
  BY <1>1, <1>6, QuietApproval DEF PutObject, Advance, TypeInv, TypeOK, Jobs, KeepsApproval
<1>7. ASSUME NEW w \in Workers, CommitVersion(w) PROVE ApprovalInv'
  <2>. DEFINE d == job[w].doc
              seen == job[w].seen
              new == ResetForNewVersion([seen EXCEPT !.current = job[w].version])
  <2>1. /\ d \in Docs /\ seen \in Rows /\ job[w].version \in Nat
        /\ doc \in [Docs -> Rows] /\ job \in [Workers -> Jobs]
    BY <1>1, <1>7 DEF CommitVersion, Holds, TypeInv, TypeOK, JobShape, WellFormed, Jobs
  <2>2. /\ doc' = [doc EXCEPT ![d] = Flush(doc[d], seen, new)]
        /\ job' = [job EXCEPT ![w].step = "recorded"] /\ audit' = audit
        /\ DOMAIN versions \subseteq DOMAIN versions'
    BY <1>7, BagAddFacts DEF CommitVersion, Advance
  <2>3. new.approved = None
    BY <2>1 DEF ResetForNewVersion, Rows
  <2>. HIDE DEF new
  <2>4. \A e \in Docs : KeepsApproval(e)
    BY <2>1, <2>2, <2>3 DEF KeepsApproval, Flush, Column, Rows
  <2>5. \A x \in Workers : /\ job'[x].op = job[x].op /\ job'[x].doc = job[x].doc
                           /\ job'[x].actor = job[x].actor /\ job'[x].seen = job[x].seen
    BY <2>1, <2>2 DEF Jobs
  <2>. QED BY <1>1, <2>2, <2>4, <2>5, QuietApproval
<1>8. ASSUME NEW w \in Workers, CommitTrail(w) \/ CommitDownload(w) \/ Abort(w)
      PROVE  ApprovalInv'
  <2>1. Finish(w) /\ UNCHANGED <<doc, versions>>
    BY <1>8 DEF CommitTrail, CommitDownload, Abort
  <2>2. audit' = audit \/ \E e : audit' = BagAdd(audit, e)
    BY <1>8 DEF CommitTrail, CommitDownload, Abort, Record
  <2>3. DOMAIN audit \subseteq DOMAIN audit'
    <3>1. CASE audit' = audit
      BY <3>1
    <3>2. ASSUME NEW e, audit' = BagAdd(audit, e)
          PROVE  DOMAIN audit \subseteq DOMAIN audit'
      <4>1. DOMAIN BagAdd(audit, e) = DOMAIN audit \cup {e}
        BY BagAddFacts
      <4>. QED BY <3>2, <4>1
    <3>. QED BY <2>2, <3>1, <3>2
  <2>4. \A x \in Workers : job'[x].op = "idle" \/ job'[x] = job[x]
    BY <1>1, <2>1 DEF Finish, Idle, TypeInv, TypeOK
  <2>. QED BY <1>1, <2>1, <2>3, <2>4, QuietApproval DEF KeepsApproval
<1>9. ASSUME NEW w \in Workers, CommitApprove(w) PROVE ApprovalInv'
  BY <1>1, <1>9, ApproveApproval
<1>10. ASSUME NEW w \in Workers, CommitReview(w) \/ CommitReject(w) \/ CommitDelete(w)
       PROVE  ApprovalInv'
  <2>1. job[w].seen \in Rows
    BY <1>1 DEF TypeInv, TypeOK, Jobs
  <2>. DEFINE Same(new) == new \in Rows /\ new.approved = job[w].seen.approved
  <2>2. /\ Same(Reviewed(job[w].seen)) /\ Same(Rejected(job[w].seen))
        /\ Same([job[w].seen EXCEPT !.deleted = TRUE])
    BY <2>1 DEF Reviewed, Rejected, Rows, Statuses
  <2>. QED BY <1>1, <1>10, <2>2, ChangeApproval
           DEF CommitReview, CommitReject, CommitDelete
<1>. QED
  BY <1>2, <1>3, <1>4, <1>5, <1>6, <1>7, <1>8, <1>9, <1>10 DEF Next, Continue

\* Every version that a document shows as approved was uploaded (or is 0), and
\* the trail holds the approval by an approver other than the creator, however
\* approvals, uploads and failures interleave.
THEOREM ApprovalBackedHolds == Spec => []ApprovalBacked
<1>1. ApprovalInv => ApprovalBacked
  BY DEF ApprovalInv, Backed, HasCurrent, ApprovalBacked
<1>. QED BY <1>1, InitApproval, StepApproval, PTL DEF Spec

-----------------------------------------------------------------------------
(* What is deleted or archived.  A commit is about the document its call    *)
(* loaded, so nothing reaches a hidden document but a call that had it.     *)

Frozen(d) ==
  /\ doc'[d] = doc[d] /\ VersionsOf(d)' = VersionsOf(d)
  /\ \A w \in Workers : job'[w].doc = d => job'[w].op = "delete" /\ ~doc[d].deleted

\* A commit about another document.
LEMMA OthersFreeze ==
  ASSUME TypeInv, NEW d \in Docs, Untouched(d), NEW w \in Workers,
         doc' = doc \/ \E row : doc' = [doc EXCEPT ![job[w].doc] = row],
         versions' = versions
           \/ \E row : row.doc = job[w].doc /\ versions' = BagAdd(versions, row),
         job' = [job EXCEPT ![w] = Idle] \/ \E step : job' = [job EXCEPT ![w].step = step]
  PROVE  Frozen(d)
<1>1. doc'[d] = doc[d]
  BY DEF Untouched, TypeInv, TypeOK
<1>2. VersionsOf(d)' = VersionsOf(d)
  <2>1. CASE versions' = versions
    BY <2>1 DEF VersionsOf
  <2>2. ASSUME NEW row, row.doc = job[w].doc, versions' = BagAdd(versions, row)
        PROVE  VersionsOf(d)' = VersionsOf(d)
    <3>1. DOMAIN versions' = DOMAIN versions \cup {row} /\ row.doc # d
      BY <2>2, BagAddFacts DEF Untouched
    <3>. QED BY <3>1 DEF VersionsOf
  <2>. QED BY <2>1, <2>2
<1>3. \A v \in Workers : job'[v].doc # d
  <2>1. Idle.doc = None /\ None # d
    BY NoneAssumption DEF Idle
  <2>2. \A v \in Workers : job[v] \in Jobs /\ job[v].doc # d
    BY DEF Untouched, TypeInv, TypeOK
  <2>3. CASE job' = [job EXCEPT ![w] = Idle]
    BY <2>1, <2>2, <2>3 DEF TypeInv, TypeOK
  <2>4. ASSUME NEW step, job' = [job EXCEPT ![w].step = step]
        PROVE  \A v \in Workers : job'[v].doc # d
    <3>1. \A v \in Workers \ {w} : job'[v] = job[v]
      BY <2>4 DEF TypeInv, TypeOK
    <3>2. job'[w] = [job[w] EXCEPT !.step = step]
      BY <2>4 DEF TypeInv, TypeOK
    <3>3. job'[w].doc = job[w].doc
      BY <2>2, <3>2 DEF Jobs
    <3>. QED BY <2>2, <3>1, <3>3
  <2>. QED BY <2>3, <2>4
<1>. QED BY <1>1, <1>2, <1>3 DEF Frozen

LEMMA BeginFreezes ==
  ASSUME TypeInv, NEW d \in Docs, Exists(d), doc[d].deleted \/ archived, Untouched(d),
         NEW w \in Workers, Begin(w)
  PROVE  Frozen(d)
<1>1. UNCHANGED <<doc, versions>>
  BY DEF Begin, BeginUpload, BeginReview, BeginApprove, BeginReject, BeginDelete,
         BeginDownload
<1>2. PICK e \in Docs, u \in Users :
        \/ \E f \in Files, n \in Names : BeginUpload(w, e, u, f, n)
        \/ BeginReview(w, e, u) \/ BeginApprove(w, e, u) \/ BeginReject(w, e, u)
        \/ BeginDelete(w, e, u) \/ BeginDownload(w, e, u)
  BY DEF Begin
<1>3. ASSUME NEW j, job' = [job EXCEPT ![w] = j], j.doc = e,
             Visible(e) \/ (j.op = "delete" /\ ~doc[e].deleted)
      PROVE  \A v \in Workers : job'[v].doc = d => job'[v].op = "delete" /\ ~doc[d].deleted
  BY <1>3 DEF Untouched, Visible, TypeInv, TypeOK
<1>4. CASE \E f \in Files, n \in Names : BeginUpload(w, e, u, f, n)
  <2>. PICK f \in Files, n \in Names : BeginUpload(w, e, u, f, n)
    BY <1>4
  <2>. DEFINE j == [op |-> "upload", step |-> "loaded", doc |-> e, actor |-> u,
                    seen |-> doc[e], version |-> doc[e].current + 1, file |-> f,
                    name |-> n]
  <2>1. job' = [job EXCEPT ![w] = j] /\ j.doc = e /\ Visible(e)
    BY DEF BeginUpload
  <2>. HIDE DEF j
  <2>. QED BY <1>1, <1>3, <2>1 DEF Frozen, VersionsOf
<1>5. CASE BeginDownload(w, e, u)
  <2>1. PICK r \in DOMAIN versions :
          job' = [job EXCEPT ![w] =
                   [op |-> "download", step |-> "loaded", doc |-> e, actor |-> u,
                    seen |-> doc[e], version |-> r.version, file |-> objects[r.key],
                    name |-> r.key[3]]]
    BY <1>5 DEF BeginDownload
  <2>. DEFINE j == [op |-> "download", step |-> "loaded", doc |-> e, actor |-> u,
                    seen |-> doc[e], version |-> r.version, file |-> objects[r.key],
                    name |-> r.key[3]]
  <2>2. job' = [job EXCEPT ![w] = j] /\ j.doc = e /\ Visible(e)
    BY <1>5, <2>1 DEF BeginDownload
  <2>. HIDE DEF j
  <2>. QED BY <1>1, <1>3, <2>2 DEF Frozen, VersionsOf
<1>6. ASSUME NEW op, Load(w, op, e, u), Visible(e) \/ (op = "delete" /\ ~doc[e].deleted)
      PROVE  Frozen(d)
  <2>. DEFINE j == [Idle EXCEPT !.op = op, !.step = "loaded", !.doc = e, !.actor = u,
                                !.seen = doc[e]]
  <2>1. job' = [job EXCEPT ![w] = j] /\ j.doc = e /\ j.op = op
    BY <1>6 DEF Load, Idle
  <2>. HIDE DEF j
  <2>. QED BY <1>1, <1>3, <1>6, <2>1 DEF Frozen, VersionsOf
<1>. QED BY <1>2, <1>4, <1>5, <1>6 DEF BeginReview, BeginApprove, BeginReject, BeginDelete

LEMMA StepFreezes ==
  ASSUME TypeInv, [Next]_vars, NEW d \in Docs, Exists(d), doc[d].deleted \/ archived,
         Untouched(d)
  PROVE  Frozen(d)
<1>1. CASE UNCHANGED <<doc, versions, job>>
  BY <1>1 DEF Frozen, VersionsOf, Untouched
<1>2. ASSUME NEW e \in Docs, NEW u \in Users, CreateDocument(e, u) PROVE Frozen(d)
  <2>1. doc'[d] = doc[d]
    BY <1>2 DEF CreateDocument, TypeInv, TypeOK
  <2>. QED BY <1>2, <2>1 DEF CreateDocument, Frozen, VersionsOf, Untouched
<1>3. ASSUME NEW w \in Workers, PutObject(w) \/ CommitTrail(w) \/ CommitDownload(w) \/ Abort(w)
      PROVE  Frozen(d)
  BY <1>3, OthersFreeze DEF PutObject, CommitTrail, CommitDownload, Abort, Finish, Advance
<1>4. ASSUME NEW w \in Workers, CommitVersion(w) PROVE Frozen(d)
  <2>. DEFINE row == [doc |-> job[w].doc, version |-> job[w].version, key |-> ObjectKey(w),
                      file |-> job[w].file, by |-> job[w].actor]
              new == Flush(doc[job[w].doc], job[w].seen,
                           ResetForNewVersion([job[w].seen EXCEPT !.current = job[w].version]))
  <2>1. /\ row.doc = job[w].doc /\ versions' = BagAdd(versions, row)
        /\ doc' = [doc EXCEPT ![job[w].doc] = new]
        /\ job' = [job EXCEPT ![w].step = "recorded"]
    BY <1>4 DEF CommitVersion, Advance
  <2>. HIDE DEF row, new
  <2>. QED BY <2>1, OthersFreeze
<1>5. ASSUME NEW w \in Workers, NEW action, NEW new, NEW v, CommitChange(w, action, new, v)
      PROVE  Frozen(d)
  <2>. DEFINE row == Flush(doc[job[w].doc], job[w].seen, new)
  <2>1. /\ doc' = [doc EXCEPT ![job[w].doc] = row] /\ versions' = versions
        /\ job' = [job EXCEPT ![w] = Idle]
    BY <1>5 DEF CommitChange, Finish
  <2>. HIDE DEF row
  <2>. QED BY <2>1, OthersFreeze
<1>6. ASSUME NEW w \in Workers,
             CommitReview(w) \/ CommitApprove(w) \/ CommitReject(w) \/ CommitDelete(w)
      PROVE  Frozen(d)
  BY <1>5, <1>6 DEF CommitReview, CommitApprove, CommitReject, CommitDelete
<1>. QED BY <1>1, <1>2, <1>3, <1>4, <1>6, BeginFreezes
         DEF Next, Continue, Archive, Restore, SetArchived, vars

\* Once a document is deleted or its obra archived, and the calls that had it
\* are over, its row and versions stay as they are and only a deletion of what
\* is archived can take it up.
THEOREM HiddenIsFrozenHolds == Spec => HiddenIsFrozen
<1>1. TypeInv /\ [Next]_vars =>
        [\A d \in Docs :
           Exists(d) /\ (doc[d].deleted \/ archived) /\ Untouched(d) =>
             /\ doc'[d] = doc[d] /\ VersionsOf(d)' = VersionsOf(d)
             /\ \A w \in Workers : job'[w].doc = d =>
                  job'[w].op = "delete" /\ ~doc[d].deleted]_vars
  BY StepFreezes DEF Frozen
<1>. QED BY <1>1, TypeCorrect, PTL DEF Spec, HiddenIsFrozen

-----------------------------------------------------------------------------
(* The trail and the uploads.  For one document, user and version, the     *)
(* records of upload and the calls that have yet to write theirs never     *)
(* outnumber the rows.  CommitVersion adds a row and a call that owes its   *)
(* record, CommitTrail turns that debt into a record, Abort drops it.      *)

Balanced(d, v, u) ==
  /\ IsFiniteSet(Stored(d, v, u)) /\ IsFiniteSet(Unrecorded(d, v, u))
  /\ Uploads(d, v, u) \in Nat
  /\ Uploads(d, v, u) + Cardinality(Unrecorded(d, v, u)) <= Cardinality(Stored(d, v, u))

TrailInv ==
  /\ TypeInv
  /\ \A d \in Docs, u \in Users, v \in Nat : Balanced(d, v, u)

LEMMA CopiesAdded ==
  ASSUME NEW B, IsABag(B), NEW x, NEW e
  PROVE  /\ Copies(e, B) \in Nat
         /\ Copies(e, BagAdd(B, x)) = Copies(e, B) + (IF e = x THEN 1 ELSE 0)
BY DEF Copies, BagAdd, IsABag

LEMMA SubsetCount ==
  ASSUME NEW S, IsFiniteSet(S), NEW T, T \subseteq S
  PROVE  /\ IsFiniteSet(T) /\ Cardinality(T) \in Nat /\ Cardinality(S) \in Nat
         /\ Cardinality(T) <= Cardinality(S)
<1>1. T \in SUBSET S
  OBVIOUS
<1>2. IsFiniteSet(T) /\ Cardinality(T) <= Cardinality(S)
  BY <1>1, FS_Subset
<1>. QED BY <1>2, FS_CardinalityType

LEMMA AddedCount ==
  ASSUME NEW S, IsFiniteSet(S), NEW x, x \notin S
  PROVE  /\ IsFiniteSet(S \cup {x}) /\ Cardinality(S) \in Nat
         /\ Cardinality(S \cup {x}) = Cardinality(S) + 1
BY FS_AddElement, FS_CardinalityType

\* A step that touches neither this version's rows nor its records can only
\* take calls off those that owe one.
LEMMA BalanceQuiet ==
  ASSUME NEW d, NEW v, NEW u, Balanced(d, v, u),
         Stored(d, v, u)' = Stored(d, v, u), Uploads(d, v, u)' = Uploads(d, v, u),
         Unrecorded(d, v, u)' \subseteq Unrecorded(d, v, u)
  PROVE  Balanced(d, v, u)'
<1>. DEFINE owed == Unrecorded(d, v, u)
            owes == Unrecorded(d, v, u)'
<1>1. IsFiniteSet(owed) /\ owes \subseteq owed
  BY DEF Balanced
<1>. HIDE DEF owed, owes
<1>2. /\ IsFiniteSet(owes) /\ Cardinality(owes) \in Nat /\ Cardinality(owed) \in Nat
      /\ Cardinality(owes) <= Cardinality(owed)
  BY <1>1, SubsetCount
<1>3. IsFiniteSet(Stored(d, v, u)) /\ Cardinality(Stored(d, v, u)) \in Nat
  BY FS_CardinalityType DEF Balanced
<1>. QED BY <1>2, <1>3 DEF Balanced, owed, owes

\* Inserting a row adds one copy to the version, user and document it is of.
LEMMA StoredAdded ==
  ASSUME IsABag(versions), NEW row, versions' = BagAdd(versions, row),
         NEW d, NEW v, NEW u
  PROVE  IF row.doc = d /\ row.version = v /\ row.by = u
           THEN \E x : x \notin Stored(d, v, u) /\ Stored(d, v, u)' = Stored(d, v, u) \cup {x}
           ELSE Stored(d, v, u)' = Stored(d, v, u)
<1>. DEFINE n == Copies(row, versions)
            Of(r) == r.doc = d /\ r.version = v /\ r.by = u
<1>1. /\ n \in Nat /\ DOMAIN versions' = DOMAIN versions \cup {row}
      /\ \A r \in DOMAIN versions : versions[r] \in Nat
      /\ row \in DOMAIN versions => n = versions[row]
      /\ row \notin DOMAIN versions => n = 0
      /\ versions'[row] = n + 1
      /\ \A r \in DOMAIN versions : r # row => versions'[r] = versions[r]
  BY BagAddFacts DEF Copies, BagAdd, IsABag
<1>2. \A p : p \in Stored(d, v, u) <=>
        \E r \in DOMAIN versions, i \in Nat :
          Of(r) /\ i \in 1 .. versions[r] /\ p = <<r, i>>
  BY <1>1 DEF Stored, RowsOf
<1>3. \A p : p \in Stored(d, v, u)' <=>
        \E r \in DOMAIN versions', i \in Nat :
          Of(r) /\ i \in 1 .. versions'[r] /\ p = <<r, i>>
  BY <1>1 DEF Stored, RowsOf
<1>4. CASE ~Of(row)
  <2>1. \A r, i : r \in DOMAIN versions' /\ Of(r) /\ i \in 1 .. versions'[r] <=>
                  r \in DOMAIN versions /\ Of(r) /\ i \in 1 .. versions[r]
    BY <1>1, <1>4
  <2>2. \A p : p \in Stored(d, v, u)' <=> p \in Stored(d, v, u)
    BY <1>2, <1>3, <2>1
  <2>. QED BY <1>4, <2>2
<1>5. CASE Of(row)
  <2>1. \A r, i : r \in DOMAIN versions' /\ Of(r) /\ i \in 1 .. versions'[r] <=>
                  \/ r \in DOMAIN versions /\ Of(r) /\ i \in 1 .. versions[r]
                  \/ r = row /\ i = n + 1
    BY <1>1, <1>5
  <2>2. \A p : p \in Stored(d, v, u)' <=> p \in Stored(d, v, u) \/ p = <<row, n + 1>>
    BY <1>1, <1>2, <1>3, <1>5, <2>1
  <2>3. <<row, n + 1>> \notin Stored(d, v, u)
    BY <1>1, <1>2
  <2>4. Stored(d, v, u)' = Stored(d, v, u) \cup {<<row, n + 1>>}
    BY <2>2
  <2>. QED BY <1>5, <2>3, <2>4
<1>. QED BY <1>4, <1>5

\* The steps that write no record of upload and insert no row.
LEMMA TrailQuiet ==
  ASSUME TrailInv, TypeInv', UNCHANGED versions,
         \A a \in {"upload", "new_version"}, d \in Docs, u \in Users, v \in Nat :
           Copies(Entry(a, u, d, v), audit') = Copies(Entry(a, u, d, v), audit),
         \A w \in Workers : job'[w].step = "recorded" => job'[w] = job[w]
  PROVE  TrailInv'
<1>1. ASSUME NEW d \in Docs, NEW u \in Users, NEW v \in Nat
      PROVE  Balanced(d, v, u)'
  <2>1. Stored(d, v, u)' = Stored(d, v, u)
    BY DEF Stored, RowsOf
  <2>2. Uploads(d, v, u)' = Uploads(d, v, u)
    BY DEF Uploads
  <2>3. Unrecorded(d, v, u)' \subseteq Unrecorded(d, v, u)
    BY DEF Unrecorded, Holds
  <2>. QED BY <2>1, <2>2, <2>3, BalanceQuiet DEF TrailInv
<1>. QED BY <1>1 DEF TrailInv

LEMMA InitTrail == Init => TrailInv
<1>. SUFFICES ASSUME Init PROVE TrailInv
  OBVIOUS
<1>1. DOMAIN versions = {} /\ DOMAIN audit = {}
  BY DEF Init, EmptyBag, SetToBag
<1>2. \A w \in Workers : job[w].op = "idle"
  BY DEF Init, Idle
<1>3. ASSUME NEW d \in Docs, NEW u \in Users, NEW v \in Nat
      PROVE  Balanced(d, v, u)
  <2>1. Stored(d, v, u) = {}
    BY <1>1 DEF Stored, RowsOf
  <2>2. Unrecorded(d, v, u) = {}
    BY <1>2 DEF Unrecorded, Holds
  <2>3. Uploads(d, v, u) = 0
    BY <1>1 DEF Uploads, Copies
  <2>. QED BY <2>1, <2>2, <2>3, FS_EmptySet DEF Balanced
<1>. QED BY <1>3, InitType DEF TrailInv

\* The commit of a version: one more row, one more record owed.
LEMMA VersionTrail ==
  ASSUME TrailInv, TypeInv', NEW w \in Workers, CommitVersion(w)
  PROVE  TrailInv'
<1>. DEFINE row == [doc |-> job[w].doc, version |-> job[w].version, key |-> ObjectKey(w),
                    file |-> job[w].file, by |-> job[w].actor]
<1>1. /\ versions' = BagAdd(versions, row) /\ audit' = audit
      /\ job' = [job EXCEPT ![w].step = "recorded"]
      /\ Holds(w, "upload", "stored")
      /\ row.doc = job[w].doc /\ row.version = job[w].version /\ row.by = job[w].actor
  BY DEF CommitVersion, Advance
<1>. HIDE DEF row
<1>2. IsABag(versions) /\ job \in [Workers -> Jobs] /\ job[w] \in Jobs
  BY DEF TrailInv, TypeInv, TypeOK
<1>3. /\ \A x \in Workers \ {w} : job'[x] = job[x]
      /\ job'[w].op = "upload" /\ job'[w].step = "recorded"
      /\ job'[w].doc = row.doc /\ job'[w].version = row.version /\ job'[w].actor = row.by
  BY <1>1, <1>2 DEF Holds, Jobs
<1>4. ASSUME NEW d \in Docs, NEW u \in Users, NEW v \in Nat
      PROVE  Balanced(d, v, u)'
  <2>1. Uploads(d, v, u)' = Uploads(d, v, u)
    BY <1>1 DEF Uploads
  <2>2. w \notin Unrecorded(d, v, u)
    BY <1>1 DEF Unrecorded, Holds
  <2>3. CASE row.doc = d /\ row.version = v /\ row.by = u
    <3>1. PICK x : x \notin Stored(d, v, u) /\ Stored(d, v, u)' = Stored(d, v, u) \cup {x}
      BY <1>1, <1>2, <2>3, StoredAdded
    <3>2. Unrecorded(d, v, u)' = Unrecorded(d, v, u) \cup {w}
      BY <1>3, <2>3 DEF Unrecorded, Holds
    <3>3. Balanced(d, v, u)
      BY DEF TrailInv
    <3>4. /\ IsFiniteSet(Stored(d, v, u)') /\ Cardinality(Stored(d, v, u)) \in Nat
          /\ Cardinality(Stored(d, v, u)') = Cardinality(Stored(d, v, u)) + 1
      BY <3>1, <3>3, AddedCount DEF Balanced
    <3>5. /\ IsFiniteSet(Unrecorded(d, v, u)') /\ Cardinality(Unrecorded(d, v, u)) \in Nat
          /\ Cardinality(Unrecorded(d, v, u)') = Cardinality(Unrecorded(d, v, u)) + 1
      BY <2>2, <3>2, <3>3, AddedCount DEF Balanced
    <3>. QED BY <2>1, <3>3, <3>4, <3>5 DEF Balanced
  <2>4. CASE ~(row.doc = d /\ row.version = v /\ row.by = u)
    <3>1. Stored(d, v, u)' = Stored(d, v, u)
      BY <1>1, <1>2, <2>4, StoredAdded
    <3>2. Unrecorded(d, v, u)' \subseteq Unrecorded(d, v, u)
      BY <1>3, <2>4 DEF Unrecorded, Holds
    <3>. QED BY <2>1, <3>1, <3>2, BalanceQuiet DEF TrailInv
  <2>. QED BY <2>3, <2>4
<1>. QED BY <1>4 DEF TrailInv

\* The second transaction of an upload: the record owed is written.
LEMMA RecordTrail ==
  ASSUME TrailInv, TypeInv', NEW w \in Workers, CommitTrail(w)
  PROVE  TrailInv'
<1>. DEFINE j == job[w]
            a == IF j.version = 1 THEN "upload" ELSE "new_version"
            e == Entry(a, j.actor, j.doc, j.version)
<1>1. /\ audit' = BagAdd(audit, e) /\ versions' = versions
      /\ job' = [job EXCEPT ![w] = Idle]
      /\ Holds(w, "upload", "recorded")
  BY DEF CommitTrail, Record, Finish
<1>2. IsABag(audit) /\ job \in [Workers -> Jobs]
  BY DEF TrailInv, TypeInv, TypeOK
<1>3. \A x \in Workers : job'[x] = IF x = w THEN Idle ELSE job[x]
  BY <1>1, <1>2
<1>4. ASSUME NEW d \in Docs, NEW u \in Users, NEW v \in Nat
      PROVE  Balanced(d, v, u)'
  <2>. DEFINE first == Entry("upload", u, d, v)
              next == Entry("new_version", u, d, v)
              mine == j.doc = d /\ j.version = v /\ j.actor = u
  <2>1. Balanced(d, v, u)
    BY DEF TrailInv
  <2>2. Stored(d, v, u)' = Stored(d, v, u)
    BY <1>1 DEF Stored, RowsOf
  <2>3. first # next /\ (mine <=> e = first \/ e = next)
    BY DEF Entry
  <2>. HIDE DEF first, next, e
  <2>4. /\ Copies(first, audit) \in Nat /\ Copies(next, audit) \in Nat
        /\ Copies(first, audit') = Copies(first, audit) + (IF first = e THEN 1 ELSE 0)
        /\ Copies(next, audit') = Copies(next, audit) + (IF next = e THEN 1 ELSE 0)
    BY <1>1, <1>2, CopiesAdded
  <2>5. /\ Uploads(d, v, u) = Copies(first, audit) + Copies(next, audit)
        /\ Uploads(d, v, u)' = Copies(first, audit') + Copies(next, audit')
    BY DEF Uploads, first, next
  <2>6. Uploads(d, v, u)' = Uploads(d, v, u) + (IF mine THEN 1 ELSE 0)
    BY <2>3, <2>4, <2>5
  <2>7. CASE mine
    <3>1. w \in Unrecorded(d, v, u)
      BY <1>1, <2>7 DEF Unrecorded
    <3>2. Unrecorded(d, v, u)' = Unrecorded(d, v, u) \ {w}
      BY <1>3 DEF Unrecorded, Holds, Idle
    <3>3. /\ IsFiniteSet(Unrecorded(d, v, u)')
          /\ Cardinality(Unrecorded(d, v, u)') = Cardinality(Unrecorded(d, v, u)) - 1
      BY <2>1, <3>1, <3>2, FS_RemoveElement DEF Balanced
    <3>4. /\ Cardinality(Unrecorded(d, v, u)) \in Nat /\ Cardinality(Stored(d, v, u)) \in Nat
          /\ Cardinality(Unrecorded(d, v, u)') \in Nat
      BY <2>1, <3>3, FS_CardinalityType DEF Balanced
    <3>. HIDE DEF mine
    <3>. QED BY <2>1, <2>2, <2>6, <2>7, <3>3, <3>4 DEF Balanced
  <2>8. CASE ~mine
    <3>1. Unrecorded(d, v, u)' \subseteq Unrecorded(d, v, u)
      BY <1>3 DEF Unrecorded, Holds, Idle
    <3>2. Uploads(d, v, u)' = Uploads(d, v, u)
      BY <2>1, <2>6, <2>8 DEF Balanced
    <3>. QED BY <2>1, <2>2, <3>1, <3>2, BalanceQuiet
  <2>. QED BY <2>7, <2>8
<1>. QED BY <1>4 DEF TrailInv

LEMMA StepTrail == TrailInv /\ [Next]_vars => TrailInv'
<1>. SUFFICES ASSUME TrailInv, [Next]_vars PROVE TrailInv'
  OBVIOUS
<1>1. TypeInv /\ TypeInv' /\ job \in [Workers -> Jobs] /\ IsABag(audit)
  BY StepType DEF TrailInv, TypeInv, TypeOK
<1>2. CASE UNCHANGED vars
  BY <1>1, <1>2, TrailQuiet DEF vars
<1>3. ASSUME NEW d \in Docs, NEW u \in Users, CreateDocument(d, u) PROVE TrailInv'
  BY <1>1, <1>3, TrailQuiet DEF CreateDocument
<1>4. CASE Archive \/ Restore
  BY <1>1, <1>4, TrailQuiet DEF Archive, Restore, SetArchived
<1>5. ASSUME NEW w \in Workers, Begin(w) PROVE TrailInv'
  <2>. DEFINE Loads == \A x \in Workers : job'[x] = job[x] \/ job'[x].step = "loaded"
  <2>1. UNCHANGED <<versions, audit>>
    BY <1>5 DEF Begin, BeginUpload, BeginReview, BeginApprove, BeginReject, BeginDelete,
                BeginDownload
  <2>2. ASSUME NEW d \in Docs, NEW u \in Users, NEW f \in Files, NEW n \in Names,
               BeginUpload(w, d, u, f, n)
        PROVE  Loads
    BY <1>1, <2>2 DEF BeginUpload
  <2>3. ASSUME NEW d \in Docs, NEW u \in Users, NEW op, Load(w, op, d, u)
        PROVE  Loads
    BY <1>1, <2>3 DEF Load, Idle
  <2>4. ASSUME NEW d \in Docs, NEW u \in Users, BeginDownload(w, d, u)
        PROVE  Loads
    BY <1>1, <2>4 DEF BeginDownload
  <2>5. Loads
    <3>. HIDE DEF Loads
    <3>. QED BY <1>5, <2>2, <2>3, <2>4 DEF Begin, BeginReview, BeginApprove, BeginReject, BeginDelete
  <2>6. \A x \in Workers : job'[x].step = "recorded" => job'[x] = job[x]
    BY <2>5
  <2>. QED BY <1>1, <2>1, <2>6, TrailQuiet
<1>6. ASSUME NEW w \in Workers, PutObject(w) PROVE TrailInv'
  <2>1. \A x \in Workers : job'[x].step = "recorded" => job'[x] = job[x]
    BY <1>1, <1>6 DEF PutObject, Advance, Jobs
  <2>. QED BY <1>1, <1>6, <2>1, TrailQuiet DEF PutObject
<1>7. ASSUME NEW w \in Workers, Finish(w), UNCHANGED versions,
             \/ audit' = audit
             \/ \E a, u, d, v : /\ a \notin {"upload", "new_version"}
                               /\ audit' = BagAdd(audit, Entry(a, u, d, v))
      PROVE  TrailInv'
  <2>1. \A x \in Workers : job'[x].step = "recorded" => job'[x] = job[x]
    BY <1>1, <1>7 DEF Finish, Idle
  <2>2. ASSUME NEW b \in {"upload", "new_version"}, NEW e \in Docs, NEW y \in Users, NEW n \in Nat
        PROVE  Copies(Entry(b, y, e, n), audit') = Copies(Entry(b, y, e, n), audit)
    <3>1. ASSUME NEW a, NEW u, NEW d, NEW v, a \notin {"upload", "new_version"},
                 audit' = BagAdd(audit, Entry(a, u, d, v))
          PROVE  Copies(Entry(b, y, e, n), audit') = Copies(Entry(b, y, e, n), audit)
      <4>1. Entry(b, y, e, n) # Entry(a, u, d, v)
        BY <3>1 DEF Entry
      <4>2. /\ Copies(Entry(b, y, e, n), audit) \in Nat
            /\ Copies(Entry(b, y, e, n), audit') = Copies(Entry(b, y, e, n), audit) + 0
        BY <1>1, <3>1, <4>1, CopiesAdded
      <4>. QED BY <4>2
    <3>. QED BY <1>7, <3>1
  <2>. QED BY <1>1, <1>7, <2>1, <2>2, TrailQuiet
<1>8. ASSUME NEW w \in Workers, \/ CommitReview(w) \/ CommitApprove(w) \/ CommitReject(w)
                                \/ CommitDelete(w) \/ CommitDownload(w) \/ Abort(w)
      PROVE  TrailInv'
  BY <1>7, <1>8 DEF CommitReview, CommitApprove, CommitReject, CommitDelete, CommitDownload,
                    CommitChange, Abort, Record
<1>9. ASSUME NEW w \in Workers, CommitVersion(w) PROVE TrailInv'
  BY <1>1, <1>9, VersionTrail
<1>10. ASSUME NEW w \in Workers, CommitTrail(w) PROVE TrailInv'
  BY <1>1, <1>10, RecordTrail
<1>. QED
  BY <1>2, <1>3, <1>4, <1>5, <1>6, <1>8, <1>9, <1>10 DEF Next, Continue

\* The trail never speaks of an upload that is not stored, however uploads
\* interleave and wherever they fail between their two transactions.
THEOREM TrailNeverAheadHolds == Spec => []TrailNeverAhead
<1>1. TrailInv => TrailNeverAhead
  BY DEF TrailInv, Balanced, TrailNeverAhead
<1>. QED BY <1>1, InitTrail, StepTrail, PTL DEF Spec
=============================================================================
