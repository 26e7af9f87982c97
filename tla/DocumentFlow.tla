---------------------------- MODULE DocumentFlow ----------------------------
(***************************************************************************)
(* The life of the documents of one obra: creation, versioned upload, the  *)
(* approval workflow, download, soft deletion and the audit trail          *)
(* (app/api/documents.py, app/services/uploads.py and approval.py).        *)
(*                                                                         *)
(* Every endpoint is a synchronous function that the server runs in a      *)
(* thread pool, one database session per request.  A handler reads the     *)
(* document row, decides on what it read and commits later, so a handler   *)
(* is modelled by the steps between which other handlers can commit: the   *)
(* load, each write to the object store, each commit.  Nothing locks a     *)
(* row, and the ORM's UPDATE names only the columns whose value differs    *)
(* from the loaded one: Flush below.                                       *)
(***************************************************************************)
EXTENDS Naturals, FiniteSets, BagsExt, Bags

CONSTANTS
  Docs,          \* document ids, all of one obra
  Users,         \* users who reach the obra
  Approvers,     \* those whose role is administrador or diretor
  Admins,        \* those whose role is administrador
  Files,         \* file contents; SHA-256 is taken as injective on them
  Names,         \* file names a client may send
  Workers,       \* handler threads
  None,          \* SQL NULL, and a field that is not in use
  MaxCalls    \* bound on the requests accepted

ASSUME RolesAssumption == Admins \subseteq Approvers /\ Approvers \subseteq Users
ASSUME BoundsAssumption == MaxCalls \in Nat
ASSUME NoneAssumption == None \notin Nat \cup Users \cup Docs \cup Files \cup Names

VARIABLES
  doc,       \* doc[d]: the row of table documents
  versions,  \* table document_versions: a bag of rows
  objects,   \* the bucket: object key -> content
  audit,     \* table audit_log: a bag of records
  archived,  \* obra.is_deleted
  job,       \* job[w]: the request that thread w is handling
  calls     \* how many requests were accepted so far

vars == <<doc, versions, objects, audit, archived, job, calls>>

Statuses == {"enviado", "em_analise", "aprovado", "rejeitado"}
Operations == {"upload", "review", "approve", "reject", "delete", "download"}
TrailActions ==
  {"upload", "new_version", "review", "approve", "reject", "delete", "download"}

Keys == Docs \X Nat \X Names

Rows == [creator: Users \cup {None}, status: Statuses,
         current: Nat, approved: Nat \cup {None},
         deleted: BOOLEAN]
VersionRows == [doc: Docs, version: Nat, key: Keys, file: Files,
                by: Users]
Entries == [action: TrailActions, actor: Users, doc: Docs,
            version: Nat \cup {None}]
Jobs == [op: Operations \cup {"idle"}, step: {"none", "loaded", "stored", "recorded"},
         doc: Docs \cup {None}, actor: Users \cup {None}, seen: Rows,
         version: Nat, file: Files \cup {None}, name: Names \cup {None}]

\* A row that does not exist yet, and a worker that handles nothing.
Absent == [creator |-> None, status |-> "enviado", current |-> 0,
           approved |-> None, deleted |-> FALSE]
Idle == [op |-> "idle", step |-> "none", doc |-> None, actor |-> None,
         seen |-> Absent, version |-> 0, file |-> None, name |-> None]

Init ==
  /\ doc = [d \in Docs |-> Absent]
  /\ versions = EmptyBag
  /\ objects = [k \in {} |-> None]
  /\ audit = EmptyBag
  /\ archived = FALSE
  /\ job = [w \in Workers |-> Idle]
  /\ calls = 0

-----------------------------------------------------------------------------
(* The pure part of approval.py, on the row a handler holds. *)

AllowedTransitionsReopened ==
  {<<"enviado", "em_analise">>, <<"em_analise", "aprovado">>,
   <<"em_analise", "rejeitado">>, <<"rejeitado", "em_analise">>}
AllowedTransitions ==
  {<<"enviado", "em_analise">>, <<"em_analise", "aprovado">>,
   <<"em_analise", "rejeitado">>}

MayMoveTo(row, status) == <<row.status, status>> \in AllowedTransitions

Reviewed(row) == [row EXCEPT !.status = "em_analise"]
Approved(row) == [row EXCEPT !.status = "aprovado", !.approved = row.current]
RejectedUnknown(row) == [row EXCEPT !.status = "recusada"]
Rejected(row) == [row EXCEPT !.status = "rejeitado"]

ResetStatusOnly(row) == [row EXCEPT !.status = "enviado"]
ResetForNewVersion(row) == [row EXCEPT !.status = "enviado", !.approved = None]

-----------------------------------------------------------------------------
(* What the session and the queries do. *)

\* One column of an UPDATE: written only when it changed since the load.
Column(stored, seen, new) == IF new = seen THEN stored ELSE new

FlushIncrement(stored, seen, new) ==
  [stored EXCEPT !.status   = Column(stored.status, seen.status, new.status),
                 !.current  = stored.current + (new.current - seen.current),
                 !.approved = Column(stored.approved, seen.approved, new.approved),
                 !.deleted  = Column(stored.deleted, seen.deleted, new.deleted)]
FlushWithoutVersion(stored, seen, new) ==
  [stored EXCEPT !.status   = Column(stored.status, seen.status, new.status),
                 !.approved = Column(stored.approved, seen.approved, new.approved),
                 !.deleted  = Column(stored.deleted, seen.deleted, new.deleted)]
\* The row after the UPDATE of a handler that loaded `seen` and left `new`.
Flush(stored, seen, new) ==
  [stored EXCEPT !.status   = Column(stored.status, seen.status, new.status),
                 !.current  = Column(stored.current, seen.current, new.current),
                 !.approved = Column(stored.approved, seen.approved, new.approved),
                 !.deleted  = Column(stored.deleted, seen.deleted, new.deleted)]

Exists(d) == doc[d].creator # None

VisibleWithDeleted(d) == Exists(d) /\ ~archived
Visible(d) == Exists(d) /\ ~doc[d].deleted /\ ~archived

RowsOf(d, v) ==
  {r \in DOMAIN versions : r.doc = d /\ r.version = v}

HasVersion(d, v) == RowsOf(d, v) # {}

IsDuplicateOfCurrentOnly(f) ==
  \E r \in DOMAIN versions : r.file = f /\ r.version = doc[r.doc].current
IsDuplicateInObra(f) == \E r \in DOMAIN versions : r.file = f

\* How many times a row is in a table.
Copies(row, table) == IF row \in DOMAIN table THEN table[row] ELSE 0

Entry(action, actor, d, v) ==
  [action |-> action, actor |-> actor, doc |-> d, version |-> v]

Record(action, actor, d, v) == audit' = BagAdd(audit, Entry(action, actor, d, v))

Holds(w, op, step) == job[w].op = op /\ job[w].step = step
Finish(w) == job' = [job EXCEPT ![w] = Idle]
Advance(w, step) == job' = [job EXCEPT ![w].step = step]

\* A new request, taken by an idle worker; Archive, Restore and CreateDocument
\* need none, they are over in one step.
Count == calls < MaxCalls /\ calls' = calls + 1
Accept(w) == job[w] = Idle /\ Count

\* The load: the handler keeps the row as it is now.
Load(w, op, d, u) ==
  job' = [job EXCEPT ![w] = [Idle EXCEPT !.op = op, !.step = "loaded", !.doc = d,
                                         !.actor = u, !.seen = doc[d]]]

-----------------------------------------------------------------------------
(* Obra and document rows.  These handlers read and commit with nothing a  *)
(* property could tell apart in between, so each is one step.              *)

CreateDocument(d, u) ==
  /\ Count
  /\ ~Exists(d)
  /\ ~archived
  /\ doc' = [doc EXCEPT ![d] = [Absent EXCEPT !.creator = u]]
  /\ UNCHANGED <<versions, objects, audit, archived, job>>

SetArchived(flag) ==
  /\ Count
  /\ archived' = flag
  /\ UNCHANGED <<doc, versions, objects, audit, job>>

Archive == SetArchived(TRUE)
Restore == SetArchived(FALSE)

-----------------------------------------------------------------------------
(* Upload.  The load and the duplicate query are one step: version rows    *)
(* are never deleted, so a later query can only refuse more, and a refusal *)
(* changes nothing, like Abort.                                            *)

BeginUpload(w, d, u, f, n) ==
  /\ Accept(w)
  /\ Visible(d)
  /\ ~IsDuplicateInObra(f)
  /\ job' = [job EXCEPT ![w] =
               [op |-> "upload", step |-> "loaded", doc |-> d, actor |-> u,
                seen |-> doc[d], version |-> doc[d].current + 1, file |-> f,
                name |-> n]]
  /\ UNCHANGED <<doc, versions, objects, audit, archived>>

ObjectKeyUnversioned(w) == <<job[w].doc, 1, job[w].name>>
ObjectKey(w) == <<job[w].doc, job[w].version, job[w].name>>

PutObjectSwallowed(w) ==
  /\ Holds(w, "upload", "loaded")
  /\ Advance(w, "stored")
  /\ UNCHANGED <<doc, versions, objects, audit, archived, calls>>
PutObject(w) ==
  /\ Holds(w, "upload", "loaded")
  /\ objects' = [k \in DOMAIN objects \cup {ObjectKey(w)} |->
                   IF k = ObjectKey(w) THEN job[w].file ELSE objects[k]]
  /\ Advance(w, "stored")
  /\ UNCHANGED <<doc, versions, audit, archived, calls>>

\* store_new_version commits: the row of the version and the document's row.
CommitVersion(w) ==
  LET d == job[w].doc
      new == ResetForNewVersion([job[w].seen EXCEPT !.current = job[w].version])
  IN  /\ Holds(w, "upload", "stored")
      /\ versions' = BagAdd(versions,
                        [doc |-> d, version |-> job[w].version, key |-> ObjectKey(w),
                         file |-> job[w].file, by |-> job[w].actor])
      /\ doc' = [doc EXCEPT ![d] = Flush(doc[d], job[w].seen, new)]
      /\ Advance(w, "recorded")
      /\ UNCHANGED <<objects, audit, archived, calls>>

CommitTrailEarly(w) ==
  /\ Holds(w, "upload", "stored") \/ Holds(w, "upload", "recorded")
  /\ Record(IF job[w].version = 1 THEN "upload" ELSE "new_version",
            job[w].actor, job[w].doc, job[w].version)
  /\ Finish(w)
  /\ UNCHANGED <<doc, versions, objects, archived, calls>>
\* The second transaction of upload_version: the trail.  The cancellations
\* it also commits are in SignatureFlow.
CommitTrail(w) ==
  /\ Holds(w, "upload", "recorded")
  /\ Record(IF job[w].version = 1 THEN "upload" ELSE "new_version",
            job[w].actor, job[w].doc, job[w].version)
  /\ Finish(w)
  /\ UNCHANGED <<doc, versions, objects, archived, calls>>

-----------------------------------------------------------------------------
(* The approval workflow: the checks are made on the loaded row.           *)

BeginReview(w, d, u) ==
  /\ Accept(w)
  /\ u \in Approvers
  /\ Visible(d)
  /\ MayMoveTo(doc[d], "em_analise")
  /\ Load(w, "review", d, u)
  /\ UNCHANGED <<doc, versions, objects, audit, archived>>

BeginApproveOwn(w, d, u) ==
  /\ Accept(w)
  /\ u \in Approvers
  /\ Visible(d)
  /\ MayMoveTo(doc[d], "aprovado")
  /\ Load(w, "approve", d, u)
  /\ UNCHANGED <<doc, versions, objects, audit, archived>>
BeginApprove(w, d, u) ==
  /\ Accept(w)
  /\ u \in Approvers
  /\ Visible(d)
  /\ doc[d].creator # u
  /\ MayMoveTo(doc[d], "aprovado")
  /\ Load(w, "approve", d, u)
  /\ UNCHANGED <<doc, versions, objects, audit, archived>>

BeginReject(w, d, u) ==
  /\ Accept(w)
  /\ u \in Approvers
  /\ Visible(d)
  /\ MayMoveTo(doc[d], "rejeitado")
  /\ Load(w, "reject", d, u)
  /\ UNCHANGED <<doc, versions, objects, audit, archived>>

\* One commit for the document's row and its record in the trail.
CommitChange(w, action, new, v) ==
  LET d == job[w].doc
  IN  /\ Holds(w, action, "loaded")
      /\ doc' = [doc EXCEPT ![d] = Flush(doc[d], job[w].seen, new)]
      /\ Record(action, job[w].actor, d, v)
      /\ Finish(w)
      /\ UNCHANGED <<versions, objects, archived, calls>>

CommitReview(w) ==
  CommitChange(w, "review", Reviewed(job[w].seen), job[w].seen.current)
CommitApprove(w) ==
  CommitChange(w, "approve", Approved(job[w].seen), job[w].seen.current)
CommitReject(w) == CommitChange(w, "reject", Rejected(job[w].seen), None)

-----------------------------------------------------------------------------
(* Deletion and download.                                                  *)

\* delete_document does not ask for the obra to be active.
BeginDelete(w, d, u) ==
  /\ Accept(w)
  /\ u \in Admins
  /\ Exists(d)
  /\ ~doc[d].deleted
  /\ Load(w, "delete", d, u)
  /\ UNCHANGED <<doc, versions, objects, audit, archived>>

CommitDelete(w) ==
  CommitChange(w, "delete", [job[w].seen EXCEPT !.deleted = TRUE], None)

\* scalar_one_or_none: an error when two rows carry the same number.
BeginDownload(w, d, u) ==
  /\ Accept(w)
  /\ Visible(d)
  /\ \E r \in DOMAIN versions :
       /\ RowsOf(d, r.version) = {r} /\ versions[r] = 1
       /\ r.key \in DOMAIN objects
       /\ job' = [job EXCEPT ![w] =
                   [op |-> "download", step |-> "loaded", doc |-> d, actor |-> u,
                    seen |-> doc[d], version |-> r.version, file |-> objects[r.key],
                    name |-> r.key[3]]]
  /\ UNCHANGED <<doc, versions, objects, audit, archived>>

CommitDownload(w) ==
  /\ Holds(w, "download", "loaded")
  /\ Record("download", job[w].actor, job[w].doc, job[w].version)
  /\ Finish(w)
  /\ UNCHANGED <<doc, versions, objects, archived, calls>>

-----------------------------------------------------------------------------
\* An exception, a lost connection or a crash of the process: the session is
\* rolled back, what was committed or put in the bucket stays.
Abort(w) ==
  /\ job[w] # Idle
  /\ Finish(w)
  /\ UNCHANGED <<doc, versions, objects, audit, archived, calls>>

Begin(w) ==
  \E d \in Docs, u \in Users :
    \/ \E f \in Files, n \in Names : BeginUpload(w, d, u, f, n)
    \/ BeginReview(w, d, u)
    \/ BeginApprove(w, d, u)
    \/ BeginReject(w, d, u)
    \/ BeginDelete(w, d, u)
    \/ BeginDownload(w, d, u)

Continue(w) ==
  \/ PutObject(w)
  \/ CommitVersion(w)
  \/ CommitTrail(w)
  \/ CommitReview(w)
  \/ CommitApprove(w)
  \/ CommitReject(w)
  \/ CommitDelete(w)
  \/ CommitDownload(w)

Next ==
  \/ \E d \in Docs, u \in Users : CreateDocument(d, u)
  \/ Archive
  \/ Restore
  \/ \E w \in Workers : Begin(w) \/ Continue(w) \/ Abort(w)

Spec == Init /\ [][Next]_vars

-----------------------------------------------------------------------------
(* Properties that hold whatever handlers interleave and wherever they     *)
(* fail.                                                                   *)

\* The variables hold rows, records, keys and requests of the right shape.
TypeOK ==
  /\ doc \in [Docs -> Rows]
  /\ IsABag(versions) /\ DOMAIN versions \subseteq VersionRows
  /\ DOMAIN objects \subseteq Keys
  /\ \A k \in DOMAIN objects : objects[k] \in Files
  /\ IsABag(audit) /\ DOMAIN audit \subseteq Entries
  /\ archived \in BOOLEAN
  /\ job \in [Workers -> Jobs]
  /\ calls \in 0 .. MaxCalls

\* A version row never points at a missing object: put_object comes before the
\* insert in store_new_version, and nothing deletes a document's object.
VersionFileStored == \A r \in DOMAIN versions : r.key \in DOMAIN objects

\* Version numbers have no gap and the current one names a row, although each
\* upload computes its number from a row that others may have changed since.
NoVersionGap ==
  /\ \A d \in Docs : doc[d].current = 0 \/ HasVersion(d, doc[d].current)
  /\ \A r \in DOMAIN versions : r.version = 1 \/ HasVersion(r.doc, r.version - 1)

\* Whatever version a document shows as approved, that version was uploaded (or
\* is 0: the code lets a document without a file be approved) and the trail
\* shows who approved it: an approver who did not create the document.
ApprovalBacked ==
  \A d \in Docs :
    doc[d].approved # None =>
      /\ doc[d].approved = 0 \/ HasVersion(d, doc[d].approved)
      /\ \E u \in Approvers \ {doc[d].creator} :
           Entry("approve", u, d, doc[d].approved) \in DOMAIN audit

\* Once a document is deleted or its obra archived, and the handlers that had
\* loaded it are done, no handler takes it up again and its row and versions
\* stay as they are: what is archived can still be deleted, what is deleted is
\* frozen for good (get_visible_document, delete_document).
VersionsOf(d) == {r \in DOMAIN versions : r.doc = d}
Untouched(d) == \A w \in Workers : job[w].doc # d
HiddenIsFrozen ==
  [][\A d \in Docs :
       Exists(d) /\ (doc[d].deleted \/ archived) /\ Untouched(d) =>
         /\ doc'[d] = doc[d] /\ VersionsOf(d)' = VersionsOf(d)
         /\ \A w \in Workers : job'[w].doc = d =>
              job'[w].op = "delete" /\ ~doc[d].deleted]_vars

\* The trail never speaks of an upload that is not stored: for every user and
\* version, no more records of upload than rows, counting the handlers that
\* stored theirs and have yet to record it.
Uploads(d, v, u) ==
  Copies(Entry("upload", u, d, v), audit) + Copies(Entry("new_version", u, d, v), audit)
Stored(d, v, u) ==
  UNION {{r} \X (1 .. versions[r]) : r \in {r \in RowsOf(d, v) : r.by = u}}
Unrecorded(d, v, u) ==
  {w \in Workers : /\ Holds(w, "upload", "recorded")
                   /\ job[w].doc = d /\ job[w].version = v /\ job[w].actor = u}
TrailNeverAhead ==
  \A d \in Docs, u \in Users : \A v \in 1 .. MaxCalls :
    Uploads(d, v, u) + Cardinality(Unrecorded(d, v, u)) <= Cardinality(Stored(d, v, u))

-----------------------------------------------------------------------------
(* Properties that hold when no two calls in progress get in each other's  *)
(* way, crashes included.                                                  *)

\* A call between its load and the commit that writes the document's row.
Working(j) ==
  j.op \in {"upload", "review", "approve", "reject", "delete"} /\ j.step \in {"loaded", "stored"}

\* Two calls that would write one row, or store one file twice.
Conflict(i, j) ==
  /\ Working(i) /\ Working(j)
  /\ i.doc = j.doc \/ (i.op = "upload" /\ j.op = "upload" /\ i.file = j.file)

\* What the code would have by a lock on the row of the document and a unique
\* hash in the obra, and always has when one thread serves all calls.
Apart == \A v, w \in Workers : v # w => ~Conflict(job[v], job[w])

\* The status says approved exactly when the current version is the approved
\* one, and no other version is ever marked approved.
StatusMatchesApproval ==
  \A d \in Docs :
    /\ doc[d].status = "aprovado" <=> doc[d].approved # None
    /\ doc[d].approved # None => doc[d].approved = doc[d].current

\* The stored object of a version is the file whose hash its row records:
\* later versions, retries after a crash and equal file names overwrite nothing
\* a row points at.
FileIntact == \A r \in DOMAIN versions : objects[r.key] = r.file

\* Every number from 1 to the current one has one row, and no other has any.
OneRowPerVersion ==
  \A r \in DOMAIN versions :
    /\ RowsOf(r.doc, r.version) = {r} /\ versions[r] = 1
    /\ r.version \in 1 .. doc[r.doc].current

\* No file is stored twice in the obra.
NoDuplicateFile ==
  \A r, s \in DOMAIN versions : r.file = s.file => r = s

\* The content a client gets for each version up to the current one.
Served ==
  [d \in Docs |-> [v \in 1 .. doc[d].current |->
     objects[(CHOOSE r \in DOMAIN versions : r.doc = d /\ r.version = v).key]]]

\* Each commit is one step of the lifecycle promised to clients, and loads,
\* object writes, the trail and crashes are invisible to it.
Lifecycle == INSTANCE DocumentLifecycle WITH life <- doc, content <- Served
ImplementsLifecycle == Lifecycle!Spec

-----------------------------------------------------------------------------
(* What the repository says of the program and the code does not do.       *)

\* "A newly uploaded version returns the document to Enviado, pending
\* re-approval" (approval.py:45): a document that shows as approved has its
\* current version approved.
ApprovedIsCurrent ==
  \A d \in Docs : doc[d].status = "aprovado" => doc[d].approved = doc[d].current
=============================================================================
