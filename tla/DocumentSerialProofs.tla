----------------------- MODULE DocumentSerialProofs -----------------------
(***************************************************************************)
(* Proofs about DocumentFlow: as long as no two calls in progress get in   *)
(* each other's way (Apart), with failures anywhere, the document          *)
(* endpoints keep one intact file per version and implement                *)
(* DocumentLifecycle, for any documents, users, files and threads.         *)
(***************************************************************************)
EXTENDS DocumentFlowProofs, Integers, SequenceTheorems

\* Nothing changed since its load, so what it checked still holds.
UpToDate(j) ==
  /\ j.seen = doc[j.doc] /\ Exists(j.doc) /\ ~doc[j.doc].deleted
  /\ j.op = "upload" => /\ \A r \in DOMAIN versions : r.file # j.file
                        /\ j.step = "stored" =>
                             objects[<<j.doc, j.version, j.name>>] = j.file
  /\ j.op = "review" => doc[j.doc].status = "enviado"
  /\ j.op \in {"approve", "reject"} => doc[j.doc].status = "em_analise"
  /\ j.op = "approve" => j.actor \in Approvers /\ j.actor # doc[j.doc].creator

\* The rows of versions: the keys of their objects, their numbers, one row for
\* each number up to the current one.
Keyed == \A r \in DOMAIN versions : r.key[1] = r.doc /\ r.key[2] = r.version
Ranged == \A r \in DOMAIN versions : r.version \in 1 .. doc[r.doc].current
Single == \A r, s \in DOMAIN versions : r.doc = s.doc /\ r.version = s.version => r = s
Once == \A r \in DOMAIN versions : versions[r] = 1
Numbered == \A d \in Docs : \A v \in 1 .. doc[d].current : HasVersion(d, v)

RowInv == Keyed /\ Ranged /\ Single /\ Once /\ Numbered /\ NoDuplicateFile /\ FileIntact

DocInv ==
  /\ \A d \in Docs : doc[d].creator = None => doc[d] = Absent
  /\ StatusMatchesApproval

\* What the call of thread v checked still holds, until it commits.
Fresh(v) == Working(job[v]) => UpToDate(job[v])
AllFresh == \A v \in Workers : Fresh(v)

SerialInv == VersionInv /\ RowInv /\ DocInv /\ AllFresh

LEMMA SerialTypes ==
  ASSUME SerialInv
  PROVE  /\ job \in [Workers -> Jobs] /\ doc \in [Docs -> Rows]
         /\ \A w \in Workers : job[w] \in Jobs /\ WellFormed(job[w])
         /\ DOMAIN versions \subseteq VersionRows /\ IsABag(versions)
         /\ TypeInv /\ VersionFileStored
  BY DEF SerialInv, VersionInv, TypeInv, TypeOK, JobShape

\* A step leaves the call of thread v as it was, and what it goes by.
Spared(v) ==
  /\ job'[v] = job[v]
  /\ Working(job[v]) =>
       /\ doc'[job[v].doc] = doc[job[v].doc]
       /\ job[v].op = "upload" =>
            /\ \A r \in DOMAIN versions' : r \in DOMAIN versions \/ r.file # job[v].file
            /\ job[v].step = "stored" => objects'[ObjectKey(v)] = objects[ObjectKey(v)]

LEMMA SparedFresh ==
  ASSUME SerialInv, NEW v \in Workers, Spared(v)
  PROVE  Fresh(v)'
<1>. SUFFICES ASSUME Working(job[v]), UpToDate(job[v]) PROVE UpToDate(job[v])'
  BY DEF Spared, Fresh, SerialInv, AllFresh, Working
<1>. QED BY DEF Spared, UpToDate, Exists, ObjectKey

LEMMA OthersFresh ==
  ASSUME SerialInv, NEW w \in Workers, Fresh(w)', \A v \in Workers \ {w} : Spared(v)
  PROVE  AllFresh'
<1>1. ASSUME NEW v \in Workers PROVE Fresh(v)'
  BY SparedFresh
<1>. QED BY <1>1 DEF AllFresh

\* A step of one thread that changes no row and no object, and leaves it where
\* it was or with nothing to write.
LEMMA QuietSerial ==
  ASSUME SerialInv, VersionInv', UNCHANGED <<doc, versions, objects>>, NEW w \in Workers,
         \A v \in Workers \ {w} : job'[v] = job[v],
         job'[w] = job[w] \/ ~Working(job'[w]) \/ UpToDate(job'[w])
  PROVE  SerialInv'
<1>1. RowInv' /\ DocInv'
  BY DEF SerialInv, RowInv, DocInv, Keyed, Ranged, Single, Once, Numbered, HasVersion, RowsOf,
         NoDuplicateFile, FileIntact, StatusMatchesApproval
<1>2. Fresh(w)'
  <2>1. Working(job'[w]) => UpToDate(job'[w])
    BY DEF SerialInv, AllFresh, Fresh
  <2>. QED BY <2>1 DEF Fresh, UpToDate, Exists
<1>3. \A v \in Workers \ {w} : Spared(v)
  BY DEF Spared
<1>. QED BY <1>1, <1>2, <1>3, OthersFresh DEF SerialInv

LEMMA BeginSerial ==
  ASSUME NEW w \in Workers, SerialInv, VersionInv', Begin(w)
  PROVE  UNCHANGED <<doc, versions, objects>> /\ SerialInv'
<1>1. UNCHANGED <<doc, versions, objects>>
  BY DEF Begin, BeginUpload, BeginReview, BeginApprove, BeginReject, BeginDelete,
         BeginDownload
<1>2. ASSUME NEW d \in Docs, NEW u \in Users, NEW f \in Files, NEW n \in Names,
             BeginUpload(w, d, u, f, n)
      PROVE  UpToDate(job'[w])
  BY <1>2, SerialTypes DEF BeginUpload, UpToDate, Visible, IsDuplicateInObra
<1>3. ASSUME NEW d \in Docs, NEW u \in Users, NEW op \in {"review", "approve", "reject", "delete"},
             Load(w, op, d, u)
      PROVE  /\ job'[w].op = op /\ job'[w].doc = d /\ job'[w].actor = u
             /\ job'[w].seen = doc[d]
  BY <1>3, SerialTypes DEF Load, Idle
<1>4. ASSUME NEW d \in Docs, NEW u \in Users, BeginReview(w, d, u) PROVE UpToDate(job'[w])
  BY <1>3, <1>4 DEF UpToDate, BeginReview, MayMoveTo, AllowedTransitions, Visible
<1>5. ASSUME NEW d \in Docs, NEW u \in Users, BeginApprove(w, d, u) PROVE UpToDate(job'[w])
  BY <1>3, <1>5 DEF UpToDate, BeginApprove, MayMoveTo, AllowedTransitions, Visible
<1>6. ASSUME NEW d \in Docs, NEW u \in Users, BeginReject(w, d, u) PROVE UpToDate(job'[w])
  BY <1>3, <1>6 DEF UpToDate, BeginReject, MayMoveTo, AllowedTransitions, Visible
<1>7. ASSUME NEW d \in Docs, NEW u \in Users, BeginDelete(w, d, u) PROVE UpToDate(job'[w])
  BY <1>3, <1>7 DEF UpToDate, BeginDelete
<1>8. ASSUME NEW d \in Docs, NEW u \in Users, BeginDownload(w, d, u) PROVE ~Working(job'[w])
  BY <1>8, SerialTypes DEF BeginDownload, Working
<1>9. ~Working(job'[w]) \/ UpToDate(job'[w])
  BY <1>2, <1>4, <1>5, <1>6, <1>7, <1>8 DEF Begin
<1>10. \A v \in Workers \ {w} : job'[v] = job[v]
  BY SerialTypes DEF Begin, BeginUpload, BeginReview, BeginApprove, BeginReject, BeginDelete,
                     BeginDownload, Load
<1>. QED BY <1>1, <1>9, <1>10, QuietSerial

-----------------------------------------------------------------------------
(* What each step writes, knowing that the row is as it was loaded.        *)

\* With the row as it was loaded, an UPDATE of the changed columns writes the
\* whole new row.
LEMMA FlushWrites ==
  ASSUME NEW seen \in Rows, NEW new \in Rows, new.creator = seen.creator
  PROVE  Flush(seen, seen, new) = new
<1>1. Flush(seen, seen, new) \in Rows
  BY FlushType
<1>2. /\ Flush(seen, seen, new).creator = new.creator
      /\ Flush(seen, seen, new).status = new.status
      /\ Flush(seen, seen, new).current = new.current
      /\ Flush(seen, seen, new).approved = new.approved
      /\ Flush(seen, seen, new).deleted = new.deleted
  BY DEF Flush, Column, Rows
<1>. QED BY <1>1, <1>2 DEF Rows

LEMMA CreateSerial ==
  ASSUME SerialInv, VersionInv', NEW d \in Docs, NEW u \in Users, CreateDocument(d, u)
  PROVE  SerialInv'
<1>1. /\ doc' = [doc EXCEPT ![d] = [Absent EXCEPT !.creator = u]]
      /\ UNCHANGED <<versions, objects, job>> /\ ~Exists(d) /\ u # None
  BY NoneAssumption DEF CreateDocument
<1>2. /\ doc \in [Docs -> Rows] /\ doc[d] = Absent
      /\ DOMAIN versions \subseteq VersionRows
  BY <1>1, SerialTypes DEF SerialInv, DocInv, Exists
<1>3. \A e \in Docs : doc'[e].current = doc[e].current
  BY <1>1, <1>2 DEF Absent
<1>4. RowInv'
  <2>1. Ranged'
    BY <1>1, <1>2, <1>3 DEF SerialInv, RowInv, Ranged, VersionRows
  <2>2. Numbered'
    BY <1>1, <1>3 DEF SerialInv, RowInv, Numbered, HasVersion, RowsOf
  <2>. QED BY <1>1, <2>1, <2>2
           DEF SerialInv, RowInv, Keyed, Single, Once, NoDuplicateFile, FileIntact
<1>5. DocInv'
  BY <1>1, <1>2 DEF SerialInv, DocInv, StatusMatchesApproval, Absent
<1>6. AllFresh'
  <2>1. ASSUME NEW v \in Workers PROVE Spared(v)
    <3>1. Working(job[v]) => job[v].doc \in Docs \ {d}
      BY <1>1, SerialTypes
         DEF SerialInv, AllFresh, Fresh, UpToDate, Working, WellFormed
    <3>. QED BY <1>1, <1>2, <3>1 DEF Spared
  <2>2. ASSUME NEW v \in Workers PROVE Fresh(v)'
    BY <2>1, <2>2, SparedFresh
  <2>. QED BY <2>2 DEF AllFresh
<1>. QED BY <1>4, <1>5, <1>6 DEF SerialInv

\* The key of the object is of a number that has no row yet, so no object that
\* a row points at is overwritten.
LEMMA PutSerial ==
  ASSUME NEW w \in Workers, SerialInv, Apart, VersionInv', PutObject(w)
  PROVE  SerialInv'
<1>. DEFINE j == job[w]
            k == ObjectKey(w)
<1>1. /\ job \in [Workers -> Jobs] /\ j \in Jobs
      /\ DOMAIN versions \subseteq VersionRows /\ VersionFileStored
      /\ doc \in [Docs -> Rows]
  BY SerialTypes
<1>2. /\ UNCHANGED <<doc, versions>> /\ j.op = "upload" /\ j.step = "loaded"
      /\ objects' = [x \in DOMAIN objects \cup {k} |->
                       IF x = k THEN j.file ELSE objects[x]]
      /\ job' = [job EXCEPT ![w].step = "stored"]
  BY DEF PutObject, Advance, Holds
<1>3. /\ UpToDate(j) /\ j.doc \in Docs /\ j.version = doc[j.doc].current + 1
      /\ doc[j.doc].current \in Nat
  BY <1>1, <1>2, SerialTypes DEF SerialInv, AllFresh, Fresh, Working, UpToDate, WellFormed, Rows
<1>4. \A r \in DOMAIN versions : r.key # k
  BY <1>1, <1>3 DEF SerialInv, RowInv, Keyed, Ranged, ObjectKey, VersionRows
<1>5. FileIntact'
  BY <1>1, <1>2, <1>4 DEF SerialInv, RowInv, FileIntact, VersionFileStored
<1>6. RowInv' /\ DocInv'
  BY <1>2, <1>5 DEF SerialInv, RowInv, DocInv, Keyed, Ranged, Single, Once, Numbered,
     HasVersion, RowsOf, NoDuplicateFile, StatusMatchesApproval
<1>7. job'[w] = [j EXCEPT !.step = "stored"]
  BY <1>1, <1>2
<1>8. /\ job'[w].op = "upload" /\ job'[w].seen = j.seen /\ job'[w].doc = j.doc
      /\ job'[w].file = j.file /\ job'[w].version = j.version /\ job'[w].name = j.name
  BY <1>1, <1>2, <1>7 DEF Jobs
<1>9. Fresh(w)'
  <2>1. UpToDate(job[w])'
    BY <1>2, <1>3, <1>8 DEF UpToDate, Exists, ObjectKey
  <2>. QED BY <2>1 DEF Fresh
<1>10. ASSUME NEW v \in Workers \ {w} PROVE Spared(v)
  <2>1. job'[v] = job[v]
    BY <1>1, <1>2
  <2>2. ASSUME Working(job[v]), job[v].op = "upload", job[v].step = "stored"
        PROVE  objects'[ObjectKey(v)] = objects[ObjectKey(v)]
    <3>1. ObjectKey(v) \in DOMAIN objects
      BY <2>2 DEF SerialInv, VersionInv, Holds
    <3>2. job[v].doc # j.doc
      BY <1>2, <2>2 DEF Apart, Conflict, Working
    <3>. QED BY <1>2, <3>1, <3>2 DEF ObjectKey
  <2>. QED BY <1>2, <2>1, <2>2 DEF Spared
<1>. QED BY <1>6, <1>9, <1>10, OthersFresh DEF SerialInv

\* What store_new_version writes.
NewRow(w) == [doc |-> job[w].doc, version |-> job[w].version, key |-> ObjectKey(w),
              file |-> job[w].file, by |-> job[w].actor]
Renewed(w) == ResetForNewVersion([job[w].seen EXCEPT !.current = job[w].version])

\* The row inserted is the one of the next number, with the file in place.
LEMMA InsertWrites ==
  ASSUME NEW w \in Workers, SerialInv, CommitVersion(w)
  PROVE  /\ job[w].doc \in Docs /\ job[w].seen = doc[job[w].doc]
         /\ job[w].version = doc[job[w].doc].current + 1
         /\ doc[job[w].doc].current \in Nat
         /\ Exists(job[w].doc) /\ ~doc[job[w].doc].deleted
         /\ doc' = [doc EXCEPT ![job[w].doc] = Renewed(w)]
         /\ Renewed(w).current = job[w].version
         /\ Renewed(w).status = "enviado" /\ Renewed(w).approved = None
         /\ Renewed(w).creator = doc[job[w].doc].creator
         /\ \A r \in DOMAIN versions : r.file # job[w].file
         /\ objects' = objects /\ objects[ObjectKey(w)] = job[w].file
         /\ DOMAIN versions' = DOMAIN versions \cup {NewRow(w)}
         /\ NewRow(w) \notin DOMAIN versions
         /\ versions'[NewRow(w)] = 1
         /\ \A r \in DOMAIN versions : versions'[r] = versions[r]
         /\ job' = [job EXCEPT ![w].step = "recorded"]
<1>. DEFINE j == job[w]
            d == job[w].doc
            n == job[w].version
            row == NewRow(w)
            new == Renewed(w)
<1>1. /\ job \in [Workers -> Jobs] /\ j \in Jobs
      /\ DOMAIN versions \subseteq VersionRows /\ doc \in [Docs -> Rows]
  BY SerialTypes
<1>2. /\ versions' = BagAdd(versions, row) /\ objects' = objects
      /\ doc' = [doc EXCEPT ![d] = Flush(doc[d], j.seen, new)]
      /\ job' = [job EXCEPT ![w].step = "recorded"]
      /\ j.op = "upload" /\ j.step = "stored"
  BY DEF CommitVersion, Advance, Holds, NewRow, Renewed
<1>3. /\ UpToDate(j) /\ d \in Docs /\ n = doc[d].current + 1 /\ doc[d].current \in Nat
      /\ j.seen = doc[d] /\ Exists(d) /\ ~doc[d].deleted
      /\ \A r \in DOMAIN versions : r.file # j.file
      /\ objects[ObjectKey(w)] = j.file
  <2>1. UpToDate(j)
    BY <1>2 DEF SerialInv, AllFresh, Fresh, Working
  <2>2. d \in Docs /\ n = j.seen.current + 1
    BY <1>2, SerialTypes DEF WellFormed
  <2>3. doc[d].current \in Nat
    BY <1>1, <2>2 DEF Rows
  <2>4. objects[<<j.doc, j.version, j.name>>] = j.file
    BY <1>2, <2>1 DEF UpToDate
  <2>. QED BY <1>2, <2>1, <2>2, <2>3, <2>4 DEF UpToDate, ObjectKey
<1>4. /\ doc' = [doc EXCEPT ![d] = new] /\ new.current = n /\ new.status = "enviado"
      /\ new.approved = None /\ new.creator = doc[d].creator
  <2>1. new \in Rows /\ new.current = n /\ new.status = "enviado" /\ new.approved = None
        /\ new.creator = doc[d].creator
    <3>1. j.seen \in Rows /\ n \in Nat /\ j.seen.creator = doc[d].creator
      BY <1>1, <1>3
    <3>. QED BY <3>1 DEF Renewed, ResetForNewVersion, Rows, Statuses
  <2>2. Flush(doc[d], j.seen, new) = new
    BY <1>1, <1>3, <2>1, FlushWrites
  <2>. QED BY <1>1, <1>2, <1>3, <2>1, <2>2
<1>5. /\ DOMAIN versions' = DOMAIN versions \cup {row} /\ row \notin DOMAIN versions
      /\ versions'[row] = 1 /\ \A r \in DOMAIN versions : versions'[r] = versions[r]
  <2>1. row \notin DOMAIN versions
    BY <1>3 DEF NewRow
  <2>. QED BY <1>2, <2>1 DEF BagAdd
<1>. QED BY <1>2, <1>3, <1>4, <1>5

LEMMA InsertSerial ==
  ASSUME NEW w \in Workers, SerialInv, Apart, VersionInv', CommitVersion(w)
  PROVE  SerialInv'
<1>. DEFINE j == job[w]
            d == job[w].doc
            n == job[w].version
            row == NewRow(w)
            new == Renewed(w)
<1>1. /\ job \in [Workers -> Jobs]
      /\ DOMAIN versions \subseteq VersionRows /\ doc \in [Docs -> Rows]
  BY SerialTypes
<1>2. objects' = objects /\ job' = [job EXCEPT ![w].step = "recorded"]
  BY InsertWrites
<1>3. /\ d \in Docs /\ n = doc[d].current + 1 /\ doc[d].current \in Nat
      /\ Exists(d) /\ \A r \in DOMAIN versions : r.file # j.file
      /\ objects[ObjectKey(w)] = j.file
  BY InsertWrites
<1>4. /\ doc'[d] = new /\ new.current = n /\ new.status = "enviado" /\ new.approved = None
      /\ new.creator = doc[d].creator
  BY <1>1, InsertWrites
<1>5. \A e \in Docs \ {d} : doc'[e] = doc[e]
  <2>1. doc' = [doc EXCEPT ![d] = new]
    BY InsertWrites
  <2>. QED BY <1>1, <2>1
<1>6. /\ DOMAIN versions' = DOMAIN versions \cup {row} /\ row \notin DOMAIN versions
      /\ versions'[row] = 1 /\ \A r \in DOMAIN versions : versions'[r] = versions[r]
  BY InsertWrites
<1>. row.doc = d /\ row.version = n /\ row.file = j.file /\ row.key = ObjectKey(w)
  BY DEF NewRow
<1>. HIDE DEF row, new
<1>7. \A r \in DOMAIN versions : ~(r.doc = d /\ r.version = n)
  BY <1>1, <1>3 DEF SerialInv, RowInv, Ranged, VersionRows
<1>8. row.key[1] = d /\ row.key[2] = n
  BY DEF ObjectKey
<1>9. Keyed'
  BY <1>6, <1>8 DEF SerialInv, RowInv, Keyed
<1>10. Ranged'
  <2>1. ASSUME NEW r \in DOMAIN versions PROVE r.version \in 1 .. doc'[r.doc].current
    BY <1>1, <1>3, <1>4, <1>5 DEF SerialInv, RowInv, Ranged, VersionRows
  <2>2. row.version \in 1 .. doc'[row.doc].current
    BY <1>3, <1>4
  <2>. QED BY <1>6, <2>1, <2>2 DEF Ranged
<1>11. Single'
  BY <1>6, <1>7 DEF SerialInv, RowInv, Single
<1>12. Once'
  BY <1>6 DEF SerialInv, RowInv, Once
<1>13. Numbered'
  <2>1. \A e, v : HasVersion(e, v) => HasVersion(e, v)'
    BY <1>6, HasVersionGrows
  <2>2. \A e, v : e = d /\ v = n => HasVersion(e, v)'
    BY <1>6 DEF HasVersion, RowsOf
  <2>3. ASSUME NEW e \in Docs, NEW v \in 1 .. doc'[e].current PROVE HasVersion(e, v)'
    <3>1. CASE e = d /\ v = n
      BY <2>2, <3>1
    <3>2. CASE v \in 1 .. doc[e].current
      BY <2>1, <3>2 DEF SerialInv, RowInv, Numbered
    <3>. QED BY <1>3, <1>4, <1>5, <3>1, <3>2
  <2>. QED BY <2>3 DEF Numbered
<1>14. NoDuplicateFile'
  BY <1>3, <1>6 DEF SerialInv, RowInv, NoDuplicateFile
<1>15. FileIntact'
  BY <1>2, <1>3, <1>6 DEF SerialInv, RowInv, FileIntact
<1>16. DocInv'
  BY <1>3, <1>4, <1>5 DEF SerialInv, DocInv, StatusMatchesApproval, Exists
<1>17. Fresh(w)'
  <2>1. ~Working(job'[w])
    BY <1>1, <1>2 DEF Working, Jobs
  <2>. QED BY <2>1 DEF Fresh
<1>18. ASSUME NEW v \in Workers \ {w} PROVE Spared(v)
  <2>1. job'[v] = job[v]
    BY <1>1, <1>2
  <2>2. ASSUME Working(job[v])
        PROVE  /\ job[v].doc \in Docs \ {d}
               /\ job[v].op = "upload" => job[v].file # j.file
    <3>1. Working(j)
      BY DEF CommitVersion, Holds, Working
    <3>2. ~Conflict(job[v], j)
      BY DEF Apart
    <3>3. j.op = "upload" /\ job[v].doc \in Docs
      BY <2>2, SerialTypes DEF CommitVersion, Holds, Working, WellFormed
    <3>. QED BY <2>2, <3>1, <3>2, <3>3 DEF Conflict
  <2>. QED BY <1>2, <1>5, <1>6, <2>1, <2>2 DEF Spared
<1>19. AllFresh'
  BY <1>17, <1>18, OthersFresh
<1>. QED BY <1>9, <1>10, <1>11, <1>12, <1>13, <1>14, <1>15, <1>16, <1>19
         DEF SerialInv, RowInv

\* A commit of the workflow writes the row it decided on, and what it decided
\* still holds.
Decided(w, new) ==
  /\ UpToDate(job[w]) /\ job[w].doc \in Docs /\ job[w].seen = doc[job[w].doc]
  /\ doc' = [doc EXCEPT ![job[w].doc] = new]
  /\ UNCHANGED <<versions, objects>> /\ job' = [job EXCEPT ![w] = Idle]
  /\ Working(job[w])

LEMMA ChangeWrites ==
  ASSUME NEW w \in Workers, SerialInv, NEW action \in Operations \ {"upload", "download"},
         NEW new \in Rows, NEW v, CommitChange(w, action, new, v),
         new.creator = job[w].seen.creator
  PROVE  Decided(w, new)
<1>1. /\ job \in [Workers -> Jobs] /\ doc \in [Docs -> Rows]
  BY SerialTypes
<1>2. /\ UNCHANGED <<versions, objects>> /\ job' = [job EXCEPT ![w] = Idle]
      /\ doc' = [doc EXCEPT ![job[w].doc] = Flush(doc[job[w].doc], job[w].seen, new)]
      /\ job[w].op = action /\ job[w].step = "loaded"
  BY <1>1 DEF CommitChange, Finish, Holds
<1>3. Working(job[w]) /\ UpToDate(job[w]) /\ job[w].doc \in Docs
  BY <1>2, SerialTypes DEF SerialInv, AllFresh, Fresh, Working, Operations, WellFormed
<1>4. job[w].seen = doc[job[w].doc] /\ job[w].seen \in Rows
  BY <1>1, <1>3 DEF UpToDate
<1>. QED BY <1>2, <1>3, <1>4, FlushWrites DEF Decided

\* The four commits, each with the row it writes.
LEMMA CommitWrites ==
  ASSUME NEW w \in Workers, SerialInv
  PROVE  /\ CommitReview(w) =>
              Decided(w, Reviewed(job[w].seen)) /\ job[w].seen.status = "enviado"
         /\ CommitApprove(w) =>
              /\ Decided(w, Approved(job[w].seen)) /\ job[w].seen.status = "em_analise"
              /\ job[w].actor \in Approvers /\ job[w].actor # job[w].seen.creator
         /\ CommitReject(w) =>
              Decided(w, Rejected(job[w].seen)) /\ job[w].seen.status = "em_analise"
         /\ CommitDelete(w) => Decided(w, [job[w].seen EXCEPT !.deleted = TRUE])
<1>. DEFINE seen == job[w].seen
            Row(new) == new \in Rows /\ new.creator = seen.creator
<1>1. seen \in Rows
  BY SerialTypes DEF Jobs
<1>2. /\ Row(Reviewed(seen)) /\ Row(Approved(seen)) /\ Row(Rejected(seen))
      /\ Row([seen EXCEPT !.deleted = TRUE])
  BY <1>1 DEF Reviewed, Approved, Rejected, Rows, Statuses
<1>3. ASSUME CommitReview(w)
      PROVE  Decided(w, Reviewed(seen)) /\ seen.status = "enviado"
  <2>1. Decided(w, Reviewed(seen)) /\ job[w].op = "review"
    BY <1>2, <1>3, ChangeWrites DEF CommitReview, CommitChange, Holds, Operations
  <2>. QED BY <2>1 DEF Decided, UpToDate
<1>4. ASSUME CommitApprove(w)
      PROVE  /\ Decided(w, Approved(seen)) /\ seen.status = "em_analise"
             /\ job[w].actor \in Approvers /\ job[w].actor # seen.creator
  <2>1. Decided(w, Approved(seen)) /\ job[w].op = "approve"
    BY <1>2, <1>4, ChangeWrites DEF CommitApprove, CommitChange, Holds, Operations
  <2>. QED BY <2>1 DEF Decided, UpToDate
<1>5. ASSUME CommitReject(w)
      PROVE  Decided(w, Rejected(seen)) /\ seen.status = "em_analise"
  <2>1. Decided(w, Rejected(seen)) /\ job[w].op = "reject"
    BY <1>2, <1>5, ChangeWrites DEF CommitReject, CommitChange, Holds, Operations
  <2>. QED BY <2>1 DEF Decided, UpToDate
<1>6. ASSUME CommitDelete(w) PROVE Decided(w, [seen EXCEPT !.deleted = TRUE])
  BY <1>2, <1>6, ChangeWrites DEF CommitDelete, Operations
<1>. QED BY <1>3, <1>4, <1>5, <1>6

LEMMA ChangeSerial ==
  ASSUME NEW w \in Workers, SerialInv, Apart, VersionInv', NEW new \in Rows, Decided(w, new),
         new.creator = job[w].seen.creator, new.current = job[w].seen.current,
         new.status = "aprovado" <=> new.approved # None,
         new.approved # None => new.approved = new.current
  PROVE  SerialInv'
<1>. DEFINE d == job[w].doc
<1>1. /\ DOMAIN versions \subseteq VersionRows /\ doc \in [Docs -> Rows]
      /\ job \in [Workers -> Jobs]
  BY SerialTypes
<1>2. /\ UNCHANGED <<versions, objects>> /\ d \in Docs
      /\ job' = [job EXCEPT ![w] = Idle] /\ Working(job[w])
      /\ doc' = [doc EXCEPT ![d] = new] /\ job[w].seen = doc[d] /\ Exists(d)
  BY DEF Decided, UpToDate
<1>3. doc'[d] = new /\ \A e \in Docs \ {d} : doc'[e] = doc[e]
  BY <1>1, <1>2
<1>4. \A e \in Docs : doc'[e].current = doc[e].current
  BY <1>2, <1>3
<1>5. RowInv'
  <2>1. Ranged'
    BY <1>1, <1>2, <1>4 DEF SerialInv, RowInv, Ranged, VersionRows
  <2>2. Numbered'
    BY <1>2, <1>4 DEF SerialInv, RowInv, Numbered, HasVersion, RowsOf
  <2>. QED BY <1>2, <2>1, <2>2
           DEF SerialInv, RowInv, Keyed, Single, Once, NoDuplicateFile, FileIntact
<1>6. DocInv'
  BY <1>2, <1>3 DEF SerialInv, DocInv, StatusMatchesApproval, Exists
<1>7. Fresh(w)'
  <2>1. ~Working(job'[w])
    BY <1>1, <1>2 DEF Working, Idle
  <2>. QED BY <2>1 DEF Fresh
<1>8. ASSUME NEW v \in Workers \ {w} PROVE Spared(v)
  <2>1. job'[v] = job[v]
    BY <1>1, <1>2
  <2>2. Working(job[v]) => job[v].doc \in Docs \ {d}
    BY <1>2, SerialTypes DEF Apart, Conflict, Working, WellFormed
  <2>. QED BY <1>2, <1>3, <2>1, <2>2 DEF Spared
<1>. QED BY <1>5, <1>6, <1>7, <1>8, OthersFresh DEF SerialInv

LEMMA CommitSerial ==
  ASSUME NEW w \in Workers, SerialInv, Apart, VersionInv',
         CommitReview(w) \/ CommitApprove(w) \/ CommitReject(w) \/ CommitDelete(w)
  PROVE  SerialInv'
<1>. DEFINE seen == job[w].seen
            Safe(new) == /\ new \in Rows /\ new.creator = seen.creator
                         /\ new.current = seen.current
                         /\ new.status = "aprovado" <=> new.approved # None
                         /\ new.approved # None => new.approved = new.current
<1>1. ASSUME NEW new, Decided(w, new), Safe(new) PROVE SerialInv'
  BY <1>1, ChangeSerial
<1>2. ASSUME NEW new, Decided(w, new)
      PROVE  /\ seen \in Rows /\ seen.current # None
             /\ seen.status = "aprovado" <=> seen.approved # None
             /\ seen.approved # None => seen.approved = seen.current
  BY <1>2, SerialTypes, NoneAssumption
     DEF Decided, SerialInv, DocInv, StatusMatchesApproval, Rows
<1>3. CASE CommitReview(w)
  <2>1. Decided(w, Reviewed(seen)) /\ seen.status = "enviado"
    BY <1>3, CommitWrites
  <2>2. Safe(Reviewed(seen))
    BY <1>2, <2>1 DEF Reviewed, Rows, Statuses
  <2>. QED BY <1>1, <2>1, <2>2
<1>4. CASE CommitApprove(w)
  <2>1. Decided(w, Approved(seen))
    BY <1>4, CommitWrites
  <2>2. Safe(Approved(seen))
    BY <1>2, <2>1 DEF Approved, Rows, Statuses
  <2>. QED BY <1>1, <2>1, <2>2
<1>5. CASE CommitReject(w)
  <2>1. Decided(w, Rejected(seen)) /\ seen.status = "em_analise"
    BY <1>5, CommitWrites
  <2>2. Safe(Rejected(seen))
    BY <1>2, <2>1 DEF Rejected, Rows, Statuses
  <2>. QED BY <1>1, <2>1, <2>2
<1>6. CASE CommitDelete(w)
  <2>1. Decided(w, [seen EXCEPT !.deleted = TRUE])
    BY <1>6, CommitWrites
  <2>2. Safe([seen EXCEPT !.deleted = TRUE])
    BY <1>2, <2>1 DEF Rows, Statuses
  <2>. QED BY <1>1, <2>1, <2>2
<1>. QED
  <2>. HIDE DEF Safe
  <2>. QED BY <1>3, <1>4, <1>5, <1>6

LEMMA InitSerial == Init => SerialInv
<1>. SUFFICES ASSUME Init PROVE SerialInv
  OBVIOUS
<1>1. DOMAIN versions = {}
  BY DEF Init, EmptyBag, SetToBag
<1>2. (\A w \in Workers : job[w] = Idle) /\ \A d \in Docs : doc[d] = Absent
  BY DEF Init
<1>3. RowInv
  BY <1>1, <1>2 DEF RowInv, Keyed, Ranged, Single, Once, Numbered, NoDuplicateFile,
     FileIntact, Absent
<1>4. DocInv
  <2>1. \A d \in Docs : doc[d].status = "enviado" /\ doc[d].approved = None
    BY <1>2 DEF Absent
  <2>. QED BY <1>2, <2>1 DEF DocInv, StatusMatchesApproval
<1>. QED BY <1>2, <1>3, <1>4, InitVersion DEF SerialInv, AllFresh, Fresh, Working, Idle

LEMMA StepSerial ==
  ASSUME SerialInv, Apart, [Next]_vars
  PROVE  SerialInv'
<1>1. VersionInv'
  BY StepVersion DEF SerialInv
<1>2. CASE UNCHANGED <<doc, versions, objects, job>>
  <2>1. AllFresh' /\ RowInv' /\ DocInv'
    BY <1>2 DEF SerialInv, AllFresh, Fresh, UpToDate, Exists, RowInv, DocInv, Keyed, Ranged,
       Single, Once, Numbered, HasVersion, RowsOf, NoDuplicateFile, FileIntact,
       StatusMatchesApproval
  <2>. QED BY <1>1, <2>1 DEF SerialInv
<1>3. CASE UNCHANGED vars
  BY <1>2, <1>3 DEF vars
<1>4. ASSUME NEW d \in Docs, NEW u \in Users, CreateDocument(d, u) PROVE SerialInv'
  BY <1>1, <1>4, CreateSerial
<1>5. CASE Archive \/ Restore
  BY <1>2, <1>5 DEF Archive, Restore, SetArchived
<1>6. ASSUME NEW w \in Workers, Begin(w) PROVE SerialInv'
  BY <1>1, <1>6, BeginSerial
<1>7. ASSUME NEW w \in Workers, PutObject(w) PROVE SerialInv'
  BY <1>1, <1>7, PutSerial
<1>8. ASSUME NEW w \in Workers, CommitVersion(w) PROVE SerialInv'
  BY <1>1, <1>8, InsertSerial
<1>9. ASSUME NEW w \in Workers,
             CommitReview(w) \/ CommitApprove(w) \/ CommitReject(w) \/ CommitDelete(w)
      PROVE  SerialInv'
  BY <1>1, <1>9, CommitSerial
<1>10. ASSUME NEW w \in Workers, CommitTrail(w) \/ CommitDownload(w) \/ Abort(w)
       PROVE  SerialInv'
  <2>1. Finish(w) /\ UNCHANGED <<doc, versions, objects>>
    BY <1>10 DEF CommitTrail, CommitDownload, Abort
  <2>2. job'[w] = Idle /\ \A v \in Workers \ {w} : job'[v] = job[v]
    BY <2>1, SerialTypes DEF Finish
  <2>3. ~Working(job'[w])
    BY <2>2 DEF Working, Idle
  <2>. QED BY <1>1, <2>1, <2>2, <2>3, QuietSerial
<1>. QED BY <1>3, <1>4, <1>5, <1>6, <1>7, <1>8, <1>9, <1>10 DEF Next, Continue

LEMMA SerialCorrect == Spec /\ []Apart => []SerialInv
<1>1. SerialInv /\ Apart /\ [Next]_vars => SerialInv'
  BY StepSerial
<1>. QED BY InitSerial, <1>1, PTL DEF Spec

-----------------------------------------------------------------------------
(* The theorems.  Without Apart each of them fails: FileIntact by two      *)
(* uploads of one version, the others by the races README.md describes.    *)

\* While no two calls in progress write one row, a document shows as approved
\* exactly when its current version is the approved one, wherever calls fail.
THEOREM StatusMatchesApprovalHolds == Spec /\ []Apart => []StatusMatchesApproval
<1>1. SerialInv => StatusMatchesApproval
  BY DEF SerialInv, DocInv
<1>. QED BY <1>1, SerialCorrect, PTL

\* While no two calls in progress write one row, the stored object of a version
\* is the file its row records: no later version, retry or equal name
\* overwrites it.
THEOREM FileIntactHolds == Spec /\ []Apart => []FileIntact
<1>1. SerialInv => FileIntact
  BY DEF SerialInv, RowInv
<1>. QED BY <1>1, SerialCorrect, PTL

\* While no two calls in progress write one row, every number up to the current
\* one has one row, and no other number has any, also after uploads that
\* failed half-way.
THEOREM OneRowPerVersionHolds == Spec /\ []Apart => []OneRowPerVersion
<1>1. SerialInv => OneRowPerVersion
  BY DEF SerialInv, RowInv, OneRowPerVersion, Single, Once, Ranged, RowsOf
<1>. QED BY <1>1, SerialCorrect, PTL

\* While no two uploads in progress carry one file, no file is stored twice in
\* the obra, whatever the documents.
THEOREM NoDuplicateFileHolds == Spec /\ []Apart => []NoDuplicateFile
<1>1. SerialInv => NoDuplicateFile
  BY DEF SerialInv, RowInv
<1>. QED BY <1>1, SerialCorrect, PTL

-----------------------------------------------------------------------------
(* The lifecycle.  What clients are served is a function of the rows and   *)
(* the bucket, here for any rows D, version rows V and bucket O.           *)

Content(D, V, O) ==
  [d \in Docs |-> [v \in 1 .. D[d].current |->
     O[(CHOOSE r \in V : r.doc = d /\ r.version = v).key]]]

\* The rows of versions fit the documents and the bucket.
Fits(D, V, O) ==
  /\ D \in [Docs -> Rows] /\ V \subseteq VersionRows
  /\ \A r \in V : r.version \in 1 .. D[r.doc].current /\ O[r.key] = r.file
  /\ \A r, s \in V : r.doc = s.doc /\ r.version = s.version => r = s
  /\ \A d \in Docs : \A v \in 1 .. D[d].current : \E r \in V : r.doc = d /\ r.version = v

LEMMA ContentShape ==
  ASSUME NEW D, NEW V, NEW O, Fits(D, V, O)
  PROVE  /\ \A d \in Docs : /\ D[d].current \in Nat
                            /\ Content(D, V, O)[d] \in Seq(Files)
                            /\ Len(Content(D, V, O)[d]) = D[d].current
         /\ \A r \in V : Content(D, V, O)[r.doc][r.version] = r.file
         /\ DOMAIN Content(D, V, O) = Docs
<1>1. ASSUME NEW d \in Docs, NEW v \in 1 .. D[d].current, NEW r \in V,
             r.doc = d, r.version = v
      PROVE  Content(D, V, O)[d][v] = r.file
  <2>. DEFINE s == CHOOSE q \in V : q.doc = d /\ q.version = v
  <2>1. s \in V /\ s.doc = d /\ s.version = v
    BY <1>1
  <2>2. s = r /\ O[r.key] = r.file
    BY <1>1, <2>1 DEF Fits
  <2>3. Content(D, V, O)[d][v] = O[s.key]
    BY DEF Content
  <2>. QED BY <2>2, <2>3
<1>2. ASSUME NEW d \in Docs
      PROVE  /\ D[d].current \in Nat /\ Content(D, V, O)[d] \in Seq(Files)
             /\ Len(Content(D, V, O)[d]) = D[d].current
  <2>1. D[d].current \in Nat
    BY DEF Fits, Rows
  <2>2. ASSUME NEW v \in 1 .. D[d].current PROVE Content(D, V, O)[d][v] \in Files
    BY <1>1, <2>2 DEF Fits, VersionRows
  <2>3. Content(D, V, O)[d] \in [1 .. D[d].current -> Files]
    BY <2>2 DEF Content
  <2>. QED BY <2>1, <2>3
<1>3. ASSUME NEW r \in V PROVE Content(D, V, O)[r.doc][r.version] = r.file
  BY <1>1, <1>3 DEF Fits, VersionRows
<1>. QED BY <1>2, <1>3 DEF Content

\* The same version rows serve the same contents.
LEMMA SameContent ==
  ASSUME NEW D, NEW E, NEW V, NEW O, NEW P, Fits(D, V, O), Fits(E, V, P),
         \A d \in Docs : E[d].current = D[d].current
  PROVE  Content(E, V, P) = Content(D, V, O)
<1>1. ASSUME NEW d \in Docs PROVE Content(E, V, P)[d] = Content(D, V, O)[d]
  <2>1. ASSUME NEW v \in 1 .. D[d].current
        PROVE  Content(E, V, P)[d][v] = Content(D, V, O)[d][v]
    <3>1. PICK r \in V : r.doc = d /\ r.version = v
      BY DEF Fits
    <3>. QED BY <3>1, ContentShape
  <2>2. /\ Content(E, V, P)[d] \in Seq(Files) /\ Content(D, V, O)[d] \in Seq(Files)
        /\ Len(Content(E, V, P)[d]) = D[d].current
        /\ Len(Content(D, V, O)[d]) = D[d].current
    BY ContentShape
  <2>. QED BY <2>1, <2>2, SeqEqual
<1>. QED BY <1>1 DEF Content

\* One more version row, of the next number of its document.
OneMore(D, E, V, W, row) ==
  /\ \A r : r \in W <=> r \in V \/ r = row
  /\ row.version = D[row.doc].current + 1 /\ E[row.doc].current = row.version
  /\ \A d \in Docs \ {row.doc} : E[d].current = D[d].current

\* It appends its file.
Appended(served, row) == [served EXCEPT ![row.doc] = Append(@, row.file)]

LEMMA MoreContent ==
  ASSUME NEW D, NEW E, NEW V, NEW W, NEW O, NEW row, OneMore(D, E, V, W, row),
         Fits(D, V, O), Fits(E, W, O)
  PROVE  Content(E, W, O) = Appended(Content(D, V, O), row)
<1>. DEFINE old == Content(D, V, O)
            more == Content(E, W, O)
<1>1. row.doc \in Docs /\ row.file \in Files
  BY DEF Fits, VersionRows, OneMore
<1>2. /\ \A d \in Docs : /\ D[d].current \in Nat /\ E[d].current \in Nat
                         /\ old[d] \in Seq(Files) /\ more[d] \in Seq(Files)
                         /\ Len(old[d]) = D[d].current /\ Len(more[d]) = E[d].current
      /\ \A r \in V : old[r.doc][r.version] = r.file /\ more[r.doc][r.version] = r.file
      /\ more[row.doc][row.version] = row.file
      /\ DOMAIN old = Docs /\ DOMAIN more = Docs
  <2>1. /\ \A d \in Docs : /\ D[d].current \in Nat /\ old[d] \in Seq(Files)
                           /\ Len(old[d]) = D[d].current
        /\ \A r \in V : old[r.doc][r.version] = r.file
        /\ DOMAIN old = Docs
    BY ContentShape
  <2>2. /\ \A d \in Docs : /\ E[d].current \in Nat /\ more[d] \in Seq(Files)
                           /\ Len(more[d]) = E[d].current
        /\ \A r \in W : more[r.doc][r.version] = r.file
        /\ DOMAIN more = Docs
    BY ContentShape
  <2>. QED BY <2>1, <2>2 DEF OneMore
<1>. HIDE DEF old, more
<1>3. \A d \in Docs : \A v \in 1 .. D[d].current : more[d][v] = old[d][v]
  <2>. SUFFICES ASSUME NEW d \in Docs, NEW v \in 1 .. D[d].current
                PROVE  more[d][v] = old[d][v]
    OBVIOUS
  <2>1. PICK r \in V : r.doc = d /\ r.version = v
    BY DEF Fits
  <2>. QED BY <1>2, <2>1
<1>4. \A d \in Docs \ {row.doc} : more[d] = old[d]
  <2>. SUFFICES ASSUME NEW d \in Docs \ {row.doc} PROVE more[d] = old[d]
    OBVIOUS
  <2>. QED BY <1>2, <1>3, SeqEqual DEF OneMore
<1>5. more[row.doc] = Append(old[row.doc], row.file)
  <2>1. /\ Append(old[row.doc], row.file) \in Seq(Files)
        /\ Len(Append(old[row.doc], row.file)) = Len(old[row.doc]) + 1
        /\ \A i \in 1 .. Len(old[row.doc]) :
             Append(old[row.doc], row.file)[i] = old[row.doc][i]
        /\ Append(old[row.doc], row.file)[Len(old[row.doc]) + 1] = row.file
    BY <1>1, <1>2, AppendProperties
  <2>2. \A i \in 1 .. Len(more[row.doc]) :
          more[row.doc][i] = Append(old[row.doc], row.file)[i]
    <3>. SUFFICES ASSUME NEW i \in 1 .. Len(more[row.doc])
                  PROVE  more[row.doc][i] = Append(old[row.doc], row.file)[i]
      OBVIOUS
    <3>1. /\ Len(more[row.doc]) = Len(old[row.doc]) + 1 /\ Len(old[row.doc]) \in Nat
          /\ Len(old[row.doc]) = D[row.doc].current
          /\ Len(old[row.doc]) + 1 = row.version
      BY <1>1, <1>2 DEF OneMore
    <3>2. CASE i = Len(old[row.doc]) + 1
      BY <1>1, <1>2, <2>1, <3>1, <3>2
    <3>3. CASE i \in 1 .. Len(old[row.doc])
      BY <1>1, <1>3, <2>1, <3>1, <3>3
    <3>. QED BY <3>1, <3>2, <3>3
  <2>3. Len(more[row.doc]) = Len(Append(old[row.doc], row.file))
    BY <1>1, <1>2, <2>1 DEF OneMore
  <2>4. more[row.doc] \in Seq(Files)
    BY <1>1, <1>2
  <2>. QED BY <2>1, <2>2, <2>3, <2>4, SeqEqual
<1>6. more = [old EXCEPT ![row.doc] = Append(@, row.file)]
  <2>1. more = [d \in Docs |-> more[d]]
    BY DEF more, Content
  <2>2. [old EXCEPT ![row.doc] = Append(@, row.file)] =
          [d \in Docs |-> IF d = row.doc THEN Append(old[d], row.file) ELSE old[d]]
    BY <1>1, <1>2
  <2>. QED BY <1>4, <1>5, <2>1, <2>2
<1>. QED BY <1>6 DEF old, more, Appended

\* What SerialInv says of Served, before and after a step.
LEMMA ServedFits ==
  ASSUME SerialInv, SerialInv'
  PROVE  /\ Fits(doc, DOMAIN versions, objects)
         /\ Fits(doc', DOMAIN versions', objects')
         /\ Served = Content(doc, DOMAIN versions, objects)
         /\ Served' = Content(doc', DOMAIN versions', objects')
<1>1. Fits(doc, DOMAIN versions, objects)
  BY DEF SerialInv, VersionInv, TypeInv, TypeOK, RowInv, Ranged, Single, Numbered,
     FileIntact, HasVersion, RowsOf, Fits
<1>2. Fits(doc', DOMAIN versions', objects')
  BY DEF SerialInv, VersionInv, TypeInv, TypeOK, RowInv, Ranged, Single, Numbered,
     FileIntact, HasVersion, RowsOf, Fits
<1>3. Served = Content(doc, DOMAIN versions, objects)
  BY DEF Served, Content
<1>4. Served' = Content(doc', DOMAIN versions', objects')
  BY DEF Served, Content
<1>. QED BY <1>1, <1>2, <1>3, <1>4

LEMMA ServedStays ==
  ASSUME SerialInv, SerialInv', versions' = versions,
         \A d \in Docs : doc'[d].current = doc[d].current
  PROVE  Served' = Served
<1>1. /\ Fits(doc, DOMAIN versions, objects) /\ Fits(doc', DOMAIN versions, objects')
      /\ Served = Content(doc, DOMAIN versions, objects)
      /\ Served' = Content(doc', DOMAIN versions, objects')
  BY ServedFits
<1>. QED BY <1>1, SameContent

\* Each commit is one step of the lifecycle.
LEMMA DecidedImplements ==
  ASSUME NEW w \in Workers, SerialInv, SerialInv',
         CommitReview(w) \/ CommitApprove(w) \/ CommitReject(w) \/ CommitDelete(w)
  PROVE  Lifecycle!Next
<1>. DEFINE d == job[w].doc
            seen == job[w].seen
<1>1. ASSUME NEW new, Decided(w, new), new.current = seen.current
      PROVE  /\ d \in Docs /\ seen = doc[d] /\ doc' = [doc EXCEPT ![d] = new]
             /\ doc[d] \in Rows /\ Lifecycle!Live(d) /\ Served' = Served
  <2>1. /\ d \in Docs /\ seen = doc[d] /\ doc' = [doc EXCEPT ![d] = new]
        /\ versions' = versions /\ UpToDate(job[w]) /\ doc \in [Docs -> Rows]
    BY <1>1, SerialTypes DEF Decided
  <2>2. Served' = Served
    BY <1>1, <2>1, ServedStays
  <2>. QED BY <2>1, <2>2 DEF UpToDate, Exists, Lifecycle!Live
<1>2. CASE CommitReview(w)
  <2>1. Decided(w, Reviewed(seen)) /\ seen.status = "enviado"
    BY <1>2, CommitWrites
  <2>2. Reviewed(seen).current = seen.current
    BY SerialTypes DEF Reviewed, Jobs, Rows
  <2>3. Lifecycle!StartReview(d)
    BY <1>1, <2>1, <2>2 DEF Lifecycle!StartReview, Reviewed
  <2>. QED BY <1>1, <2>1, <2>2, <2>3 DEF Lifecycle!Next
<1>3. CASE CommitApprove(w)
  <2>1. /\ Decided(w, Approved(seen)) /\ seen.status = "em_analise"
        /\ job[w].actor \in Approvers /\ job[w].actor # seen.creator
    BY <1>3, CommitWrites
  <2>2. Approved(seen).current = seen.current
    BY SerialTypes DEF Approved, Jobs, Rows
  <2>3. Lifecycle!Approve(d)
    BY <1>1, <2>1, <2>2 DEF Lifecycle!Approve, Approved
  <2>. QED BY <1>1, <2>1, <2>2, <2>3 DEF Lifecycle!Next
<1>4. CASE CommitReject(w)
  <2>1. Decided(w, Rejected(seen)) /\ seen.status = "em_analise"
    BY <1>4, CommitWrites
  <2>2. Rejected(seen).current = seen.current
    BY SerialTypes DEF Rejected, Jobs, Rows
  <2>3. Lifecycle!Reject(d)
    BY <1>1, <2>1, <2>2 DEF Lifecycle!Reject, Rejected
  <2>. QED BY <1>1, <2>1, <2>2, <2>3 DEF Lifecycle!Next
<1>5. CASE CommitDelete(w)
  <2>. DEFINE new == [seen EXCEPT !.deleted = TRUE]
  <2>1. Decided(w, new)
    BY <1>5, CommitWrites
  <2>2. new.current = seen.current
    BY SerialTypes DEF Jobs, Rows
  <2>3. Lifecycle!Delete(d)
    BY <1>1, <2>1, <2>2 DEF Lifecycle!Delete
  <2>. QED BY <1>1, <2>1, <2>2, <2>3 DEF Lifecycle!Next
<1>. QED BY <1>2, <1>3, <1>4, <1>5

\* The commit of a version appends its file.
LEMMA InsertImplements ==
  ASSUME NEW w \in Workers, SerialInv, SerialInv', CommitVersion(w)
  PROVE  Lifecycle!Next
<1>. DEFINE d == job[w].doc
            f == job[w].file
            row == NewRow(w)
            new == Renewed(w)
<1>1. /\ d \in Docs /\ job[w].seen = doc[d] /\ doc[d].current \in Nat
      /\ job[w].version = doc[d].current + 1
      /\ Exists(d) /\ ~doc[d].deleted /\ doc' = [doc EXCEPT ![d] = new]
      /\ new.current = job[w].version /\ objects' = objects
      /\ DOMAIN versions' = DOMAIN versions \cup {row}
      /\ \A r \in DOMAIN versions : r.file # f
  BY InsertWrites
<1>2. row.doc = d /\ row.version = job[w].version /\ row.file = f
  BY DEF NewRow
<1>3. /\ doc \in [Docs -> Rows] /\ Fits(doc, DOMAIN versions, objects)
      /\ Fits(doc', DOMAIN versions', objects)
      /\ Served = Content(doc, DOMAIN versions, objects)
      /\ Served' = Content(doc', DOMAIN versions', objects)
  BY <1>1, SerialTypes, ServedFits
<1>4. f \in Files
  BY <1>1, <1>2, <1>3 DEF Fits, VersionRows
<1>5. Served' = [Served EXCEPT ![d] = Append(@, f)]
  <2>1. /\ doc'[d].current = row.version
        /\ \A e \in Docs \ {d} : doc'[e].current = doc[e].current
    BY <1>1, <1>2, <1>3
  <2>2. OneMore(doc, doc', DOMAIN versions, DOMAIN versions', row)
    BY <1>1, <1>2, <2>1 DEF OneMore
  <2>3. Content(doc', DOMAIN versions', objects) =
          Appended(Content(doc, DOMAIN versions, objects), row)
    <3>. HIDE DEF row
    <3>. QED BY <1>3, <2>2, MoreContent
  <2>. QED BY <1>1, <1>2, <1>3, <2>3 DEF Appended
<1>6. \A e \in Docs : \A v \in DOMAIN Served[e] : Served[e][v] # f
  <2>. SUFFICES ASSUME NEW e \in Docs, NEW v \in DOMAIN Served[e] PROVE Served[e][v] # f
    OBVIOUS
  <2>1. v \in 1 .. doc[e].current
    BY DEF Served
  <2>2. PICK r \in DOMAIN versions : r.doc = e /\ r.version = v
    BY <1>3, <2>1 DEF Fits
  <2>3. Served[r.doc][r.version] = r.file
    BY <1>3, ContentShape
  <2>. QED BY <1>1, <2>2, <2>3
<1>7. doc' = [doc EXCEPT ![d].status = "enviado", ![d].approved = None, ![d].current = @ + 1]
  <2>1. doc[d] \in Rows
    BY <1>1, <1>3
  <2>2. new = [doc[d] EXCEPT !.status = "enviado", !.approved = None,
                             !.current = doc[d].current + 1]
    BY <1>1, <2>1 DEF Renewed, ResetForNewVersion, Rows
  <2>. QED BY <1>1, <1>3, <2>2
<1>8. Lifecycle!NewVersion(d, f)
  BY <1>1, <1>5, <1>6, <1>7 DEF Lifecycle!NewVersion, Lifecycle!Live, Exists
<1>. QED BY <1>1, <1>4, <1>8 DEF Lifecycle!Next

LEMMA StepImplements ==
  ASSUME SerialInv, SerialInv', [Next]_vars
  PROVE  [Lifecycle!Next]_<<doc, Served>>
<1>1. ASSUME UNCHANGED <<doc, versions>> PROVE UNCHANGED <<doc, Served>>
  BY <1>1, ServedStays
<1>2. CASE UNCHANGED vars
  BY <1>1, <1>2 DEF vars
<1>3. ASSUME NEW d \in Docs, NEW u \in Users, CreateDocument(d, u) PROVE Lifecycle!Next
  <2>1. /\ doc' = [doc EXCEPT ![d] = [Absent EXCEPT !.creator = u]] /\ versions' = versions
        /\ doc[d] = Absent /\ doc \in [Docs -> Rows]
    BY <1>3, SerialTypes DEF CreateDocument, Exists, SerialInv, DocInv
  <2>2. \A e \in Docs : doc'[e].current = doc[e].current
    BY <2>1 DEF Absent
  <2>3. Served' = Served
    BY <2>1, <2>2, ServedStays
  <2>4. doc' = [doc EXCEPT ![d].creator = u] /\ doc[d].creator = None
    BY <2>1 DEF Absent
  <2>5. Lifecycle!Create(d)
    BY <2>3, <2>4 DEF Lifecycle!Create
  <2>. QED BY <2>5 DEF Lifecycle!Next
<1>4. CASE Archive \/ Restore
  BY <1>1, <1>4 DEF Archive, Restore, SetArchived
<1>5. ASSUME NEW w \in Workers, Begin(w) PROVE UNCHANGED <<doc, Served>>
  BY <1>1, <1>5 DEF Begin, BeginUpload, BeginReview, BeginApprove, BeginReject,
     BeginDelete, BeginDownload
<1>6. ASSUME NEW w \in Workers,
             PutObject(w) \/ CommitTrail(w) \/ CommitDownload(w) \/ Abort(w)
      PROVE  UNCHANGED <<doc, Served>>
  BY <1>1, <1>6 DEF PutObject, CommitTrail, CommitDownload, Abort
<1>7. ASSUME NEW w \in Workers, CommitVersion(w) PROVE Lifecycle!Next
  BY <1>7, InsertImplements
<1>8. ASSUME NEW w \in Workers,
             CommitReview(w) \/ CommitApprove(w) \/ CommitReject(w) \/ CommitDelete(w)
      PROVE  Lifecycle!Next
  BY <1>8, DecidedImplements
<1>. QED BY <1>2, <1>3, <1>4, <1>5, <1>6, <1>7, <1>8 DEF Next, Continue

LEMMA InitImplements == Init => Lifecycle!Init
<1>. SUFFICES ASSUME Init PROVE Lifecycle!Init
  OBVIOUS
<1>1. doc = [d \in Docs |-> Lifecycle!Uncreated]
  BY DEF Init, Absent, Lifecycle!Uncreated
<1>2. Fits(doc, {}, objects) /\ \A d \in Docs : doc[d].current = 0
  <2>1. doc \in [Docs -> Rows]
    BY InitType DEF TypeInv, TypeOK
  <2>2. \A d \in Docs : doc[d].current = 0
    BY DEF Init, Absent
  <2>. QED BY <2>1, <2>2 DEF Fits
<1>3. Served = Content(doc, {}, objects)
  <2>1. DOMAIN versions = {}
    BY DEF Init, EmptyBag, SetToBag
  <2>. QED BY <2>1 DEF Served, Content
<1>4. ASSUME NEW d \in Docs PROVE Served[d] = <<>>
  <2>1. Served[d] \in Seq(Files) /\ Len(Served[d]) = 0
    BY <1>2, <1>3, ContentShape
  <2>. QED BY <2>1, EmptySeq
<1>5. Served = [d \in Docs |-> <<>>]
  BY <1>4 DEF Served
<1>. QED BY <1>1, <1>5 DEF Lifecycle!Init

\* While no two calls in progress get in each other's way, with failures
\* anywhere, the document endpoints are the lifecycle promised to clients: each
\* commit is one of its steps, and loads, object writes, the trail and crashes
\* are invisible to it.
THEOREM ImplementsLifecycleHolds == Spec /\ []Apart => ImplementsLifecycle
<1>1. Init => Lifecycle!Init
  BY InitImplements
<1>2. SerialInv /\ SerialInv' /\ [Next]_vars => [Lifecycle!Next]_<<doc, Served>>
  BY StepImplements
<1>. QED BY <1>1, <1>2, SerialCorrect, PTL DEF Spec, ImplementsLifecycle, Lifecycle!Spec

-----------------------------------------------------------------------------
(* What a client can rely on, read off the lifecycle.                      *)

\* No step takes a served version back or changes its content, a deleted document
\* stays as it was, and a document becomes approved only out of a review and
\* in the version that was reviewed.
Reliable(d) ==
  /\ \A v \in DOMAIN Served[d] : v \in DOMAIN Served'[d] /\ Served'[d][v] = Served[d][v]
  /\ doc[d].deleted => doc'[d] = doc[d] /\ Served'[d] = Served[d]
  /\ doc[d].status # "aprovado" /\ doc'[d].status = "aprovado" =>
       doc[d].status = "em_analise" /\ doc'[d].approved = doc[d].current

LEMMA LifecycleReliable ==
  ASSUME doc \in [Docs -> Rows], \A d \in Docs : Served[d] \in Seq(Files),
         \A d \in Docs : doc[d].creator = None => doc[d] = Absent,
         [Lifecycle!Next]_<<doc, Served>>, NEW d \in Docs
  PROVE  Reliable(d)
<1>1. CASE UNCHANGED <<doc, Served>>
  BY <1>1 DEF Reliable
<1>2. ASSUME NEW e \in Docs, Served' = Served, doc[e].creator = None \/ ~doc[e].deleted,
             NEW new, doc' = [doc EXCEPT ![e] = new],
             new.status # doc[e].status /\ new.status = "aprovado" =>
               doc[e].status = "em_analise" /\ new.approved = doc[e].current
      PROVE  Reliable(d)
  BY <1>2 DEF Reliable, Absent
<1>3. ASSUME NEW e \in Docs,
             \/ Lifecycle!Create(e) \/ Lifecycle!StartReview(e) \/ Lifecycle!Approve(e)
             \/ Lifecycle!Reject(e) \/ Lifecycle!Delete(e)
      PROVE  Reliable(d)
  <2>1. doc[e] \in Rows
    OBVIOUS
  <2>2. CASE Lifecycle!Create(e)
    <3>1. PICK u \in Users : doc' = [doc EXCEPT ![e] = [doc[e] EXCEPT !.creator = u]]
      BY <2>2 DEF Lifecycle!Create
    <3>. QED BY <1>2, <2>1, <2>2, <3>1 DEF Lifecycle!Create, Rows
  <2>3. CASE Lifecycle!StartReview(e)
    <3>1. doc' = [doc EXCEPT ![e] = [doc[e] EXCEPT !.status = "em_analise"]]
      BY <2>3 DEF Lifecycle!StartReview
    <3>. QED BY <1>2, <2>1, <2>3, <3>1 DEF Lifecycle!StartReview, Lifecycle!Live, Rows
  <2>4. CASE Lifecycle!Approve(e)
    <3>1. doc' = [doc EXCEPT ![e] = [doc[e] EXCEPT !.status = "aprovado",
                                                   !.approved = doc[e].current]]
      BY <2>4 DEF Lifecycle!Approve
    <3>. QED BY <1>2, <2>1, <2>4, <3>1 DEF Lifecycle!Approve, Lifecycle!Live, Rows
  <2>5. CASE Lifecycle!Reject(e)
    <3>1. doc' = [doc EXCEPT ![e] = [doc[e] EXCEPT !.status = "rejeitado"]]
      BY <2>5 DEF Lifecycle!Reject
    <3>. QED BY <1>2, <2>1, <2>5, <3>1 DEF Lifecycle!Reject, Lifecycle!Live, Rows
  <2>6. CASE Lifecycle!Delete(e)
    <3>1. doc' = [doc EXCEPT ![e] = [doc[e] EXCEPT !.deleted = TRUE]]
      BY <2>6 DEF Lifecycle!Delete
    <3>. QED BY <1>2, <2>1, <2>6, <3>1 DEF Lifecycle!Delete, Lifecycle!Live, Rows
  <2>. QED BY <1>3, <2>2, <2>3, <2>4, <2>5, <2>6
<1>4. ASSUME NEW e \in Docs, NEW f \in Files, Lifecycle!NewVersion(e, f)
      PROVE  Reliable(d)
  <2>1. /\ ~doc[e].deleted /\ \A c \in Docs \ {e} : doc'[c] = doc[c] /\ Served'[c] = Served[c]
        /\ doc'[e].status = "enviado"
        /\ DOMAIN Served = Docs => Served'[e] = Append(Served[e], f)
    BY <1>4 DEF Lifecycle!NewVersion, Lifecycle!Live, Rows
  <2>2. DOMAIN Served = Docs
    BY DEF Served
  <2>3. \A v \in DOMAIN Served[e] :
          v \in DOMAIN Append(Served[e], f) /\ Append(Served[e], f)[v] = Served[e][v]
    BY AppendProperties
  <2>. QED BY <2>1, <2>2, <2>3 DEF Reliable
<1>. QED BY <1>1, <1>3, <1>4 DEF Lifecycle!Next

\* While no two calls in progress get in each other's way, what a client was
\* given for a version is what every client is given for it from then on, and
\* an approval follows a review of that same version.
THEOREM ClientsRely == Spec /\ []Apart => [][\A d \in Docs : Reliable(d)]_vars
<1>1. ASSUME SerialInv, SerialInv', [Next]_vars
      PROVE  [\A d \in Docs : Reliable(d)]_vars
  <2>1. [Lifecycle!Next]_<<doc, Served>>
    BY <1>1, StepImplements
  <2>2. doc \in [Docs -> Rows] /\ \A d \in Docs : Served[d] \in Seq(Files)
    BY <1>1, SerialTypes, ServedFits, ContentShape
  <2>. QED BY <1>1, <2>1, <2>2, LifecycleReliable DEF SerialInv, DocInv
<1>. QED BY <1>1, SerialCorrect, PTL DEF Spec

\* A document that shows as approved has its current version approved, as
\* approval.py:45 says, unless a second call on it is in progress.
THEOREM ApprovedIsCurrentApart == Spec /\ []Apart => []ApprovedIsCurrent
<1>1. StatusMatchesApproval => ApprovedIsCurrent
  BY DEF StatusMatchesApproval, ApprovedIsCurrent
<1>. QED BY <1>1, StatusMatchesApprovalHolds, PTL

\* A single thread is never in its own way: one worker process with one thread
\* keeps all of the above, wherever calls fail.
THEOREM AloneIsSafe ==
  ASSUME NEW w, Workers = {w}
  PROVE  Spec => /\ [](StatusMatchesApproval /\ FileIntact /\ OneRowPerVersion)
                 /\ [](NoDuplicateFile /\ ApprovedIsCurrent)
                 /\ ImplementsLifecycle
<1>1. Apart
  BY DEF Apart
<1>. QED BY <1>1, StatusMatchesApprovalHolds, FileIntactHolds, OneRowPerVersionHolds,
            NoDuplicateFileHolds, ApprovedIsCurrentApart, ImplementsLifecycleHolds, PTL
=============================================================================
