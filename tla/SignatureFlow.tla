---------------------------- MODULE SignatureFlow ----------------------------
(***************************************************************************)
(* Signature requests on one document: asking, signing, declining,         *)
(* cancelling, and the cancellation of what is pending when a new version  *)
(* arrives (app/services/signature_requests.py and signing.py, the         *)
(* handlers of app/api/documents.py).                                      *)
(*                                                                         *)
(* Every handler loads, commits the service's transaction, commits the     *)
(* trail in a second one, and only then sends mail.  Other handlers can    *)
(* commit between any two of these, and a failure can end the handler      *)
(* there.  A status is always written over the loaded value pendente, so   *)
(* the UPDATE always carries it, whatever the row says by then.            *)
(***************************************************************************)
EXTENDS Naturals, Sequences, FiniteSets, BagsExt, Bags

CONSTANTS
  Requests,      \* ids of signature requests
  Signatories,   \* users who reach the document's obra
  MayRequest,    \* its creator, the diretores and the administradores
  Admins,        \* the administradores
  Workers,       \* handler threads
  None,          \* a field that is not in use
  MaxCalls,      \* bound on the requests accepted by the API
  MaxCrashes     \* bound on the handlers that end half-way

Users == Signatories \cup MayRequest \cup Admins

ASSUME NoneAssumption ==
  None \notin Users \cup Requests /\ None \notin [row: Nat, signer: Users]
ASSUME BoundsAssumption == MaxCalls \in Nat /\ MaxCrashes \in Nat

VARIABLES
  rows,      \* document_versions of the document, in commit order
  current,   \* document.current_version
  deleted,   \* document.is_deleted
  request,   \* request[r]: the row of signature_requests
  applied,   \* applied[r]: the row of applied_signatures that names r
  audit,     \* the trail's records of signature actions, a bag
  mails,     \* the e-mails that were handed over to the SMTP server
  job,       \* job[w]: the call that thread w is handling
  calls,     \* how many calls were accepted so far
  crashes    \* how many handlers ended half-way so far

vars == <<rows, current, deleted, request, applied, audit, mails, job, calls,
          crashes>>
database == <<rows, current, deleted, request, applied, audit>>

Ended == {"assinada", "recusada", "cancelada"}
Statuses == Ended \cup {"pendente"}

RequestRows == [status: Statuses \cup {"none"}, row: Nat,
                signer: Users \cup {None}, requester: Users \cup {None}]
Signatures == [row: Nat, signer: Users]
\* "superseded" is a record of cancellation whose detail names a new version.
Entries == [action: {"requested", "signed", "declined", "cancelled", "superseded"},
            req: Requests, by: Users]
Mails == [kind: {"request", "declined", "cancelled"}, req: Requests]
Jobs == [op: {"idle", "upload", "request", "sign", "decline", "cancel"},
         step: {"none", "loaded", "checked", "committed", "selected", "recorded"},
         actor: Users \cup {None}, req: Requests \cup {None}, row: Nat,
         signer: Users \cup {None}, pdf: BOOLEAN, pending: SUBSET Requests]

NoRequest == [status |-> "none", row |-> 0, signer |-> None, requester |-> None]
Idle == [op |-> "idle", step |-> "none", actor |-> None, req |-> None, row |-> 0,
         signer |-> None, pdf |-> FALSE, pending |-> {}]

Init ==
  /\ rows = <<>> /\ current = 0 /\ deleted = FALSE
  /\ request = [r \in Requests |-> NoRequest]
  /\ applied = [r \in Requests |-> None]
  /\ audit = EmptyBag
  /\ mails = {}
  /\ job = [w \in Workers |-> Idle]
  /\ calls = 0 /\ crashes = 0

-----------------------------------------------------------------------------
Unused == {r \in Requests : request[r].status = "none"}   \* bounds the calls
Pending == {r \in Requests : request[r].status = "pendente"}

Count == calls < MaxCalls /\ calls' = calls + 1
Accept(w) == job[w] = Idle /\ Count /\ UNCHANGED <<mails, crashes>>
Start(w, call) == job' = [job EXCEPT ![w] = call]
Holds(w, op, step) == job[w].op = op /\ job[w].step = step
Advance(w, step) ==
  job' = [job EXCEPT ![w].step = step] /\ UNCHANGED <<mails, calls, crashes>>
Finish(w) ==
  job' = [job EXCEPT ![w] = Idle] /\ UNCHANGED <<mails, calls, crashes>>

\* How many times a row is in a table.
Copies(row, table) == IF row \in DOMAIN table THEN table[row] ELSE 0

Entry(action, r, by) == [action |-> action, req |-> r, by |-> by]

\* The second commit of a handler: one record of what the first one did.
Trail(w, op, action, next) ==
  /\ Holds(w, op, "committed")
  /\ audit' = BagAdd(audit, Entry(action, job[w].req, job[w].actor))
  /\ IF next = "none" THEN Finish(w) ELSE Advance(w, next)
  /\ UNCHANGED <<rows, current, deleted, request, applied>>

-----------------------------------------------------------------------------
(* Asking for a signature.                                                 *)

BeginRequest(w, u, s) ==
  /\ Accept(w)
  /\ ~deleted
  /\ u \in MayRequest /\ s \in Signatories
  /\ Cardinality(Unused) > Cardinality({v \in Workers : job[v].op = "request"})
  /\ \E i \in DOMAIN rows :
       /\ rows[i].number = current /\ rows[i].pdf
       /\ Start(w, [Idle EXCEPT !.op = "request", !.step = "loaded", !.actor = u,
                                !.row = i, !.signer = s])
  /\ UNCHANGED database

PendingFor(row, s) ==
  {r \in Pending : request[r].row = row /\ request[r].signer = s}

CheckPendingNothing(w) ==
  /\ Holds(w, "request", "loaded")
  /\ Advance(w, "checked")
  /\ UNCHANGED database
\* After the page count was read from the bucket: the duplicate query.
CheckPending(w) ==
  /\ Holds(w, "request", "loaded")
  /\ IF PendingFor(job[w].row, job[w].signer) = {} THEN Advance(w, "checked")
                                                   ELSE Finish(w)
  /\ UNCHANGED database

CommitRequestUpsert(w) ==
  /\ Holds(w, "request", "checked")
  /\ \E r \in Requests :
       /\ \/ request[r].status = "none"
          \/ request[r].row = job[w].row /\ request[r].signer = job[w].signer
       /\ request' = [request EXCEPT ![r] =
                       [status |-> "pendente", row |-> job[w].row,
                        signer |-> job[w].signer, requester |-> job[w].actor]]
       /\ job' = [job EXCEPT ![w].step = "committed", ![w].req = r]
  /\ UNCHANGED <<rows, current, deleted, applied, audit, mails, calls, crashes>>
CommitRequest(w) ==
  /\ Holds(w, "request", "checked")
  /\ \E r \in Requests :
       /\ request[r].status = "none"
       /\ request' = [request EXCEPT ![r] =
                       [status |-> "pendente", row |-> job[w].row,
                        signer |-> job[w].signer, requester |-> job[w].actor]]
       /\ job' = [job EXCEPT ![w].step = "committed", ![w].req = r]
  /\ UNCHANGED <<rows, current, deleted, applied, audit, mails, calls, crashes>>

TrailRequest(w) == Trail(w, "request", "requested", "recorded")

-----------------------------------------------------------------------------
(* Signing, declining, cancelling: the checks are made on the loaded row.  *)

Take(w, op, u, r) ==
  /\ Accept(w)
  /\ ~deleted
  /\ Start(w, [Idle EXCEPT !.op = op, !.step = "loaded", !.actor = u, !.req = r])
  /\ UNCHANGED database

IsOpen(r) == request[r].status = "pendente"

BeginSign(w, u, r) == request[r].signer = u /\ IsOpen(r) /\ Take(w, "sign", u, r)
BeginDecline(w, u, r) ==
  request[r].signer = u /\ IsOpen(r) /\ Take(w, "decline", u, r)
BeginCancel(w, u, r) ==
  /\ request[r].requester = u \/ u \in Admins
  /\ IsOpen(r)
  /\ Take(w, "cancel", u, r)

End(w, status) == request' = [request EXCEPT ![job[w].req].status = status]

CommitSignCurrent(w) ==
  LET r == job[w].req
  IN  /\ Holds(w, "sign", "loaded")
      /\ IF applied[r] # None
         THEN Finish(w) /\ UNCHANGED <<request, applied>>
         ELSE /\ applied' = [applied EXCEPT ![r] =
                              [row |-> Len(rows), signer |-> job[w].actor]]
              /\ End(w, "assinada")
              /\ Advance(w, "committed")
      /\ UNCHANGED <<rows, current, deleted, audit>>
CommitSignStatusOnly(w) ==
  /\ Holds(w, "sign", "loaded")
  /\ End(w, "assinada")
  /\ Advance(w, "committed")
  /\ UNCHANGED <<rows, current, deleted, applied, audit>>
\* The unique constraint on signature_request_id rolls a second one back.
CommitSign(w) ==
  LET r == job[w].req
  IN  /\ Holds(w, "sign", "loaded")
      /\ IF applied[r] # None
         THEN Finish(w) /\ UNCHANGED <<request, applied>>
         ELSE /\ applied' = [applied EXCEPT ![r] =
                              [row |-> request[r].row, signer |-> job[w].actor]]
              /\ End(w, "assinada")
              /\ Advance(w, "committed")
      /\ UNCHANGED <<rows, current, deleted, audit>>

CommitDeclineUnknown(w) ==
  /\ Holds(w, "decline", "loaded")
  /\ End(w, "rejeitado")
  /\ Advance(w, "committed")
  /\ UNCHANGED <<rows, current, deleted, applied, audit>>
CommitDecline(w) ==
  /\ Holds(w, "decline", "loaded")
  /\ End(w, "recusada")
  /\ Advance(w, "committed")
  /\ UNCHANGED <<rows, current, deleted, applied, audit>>

CommitCancel(w) ==
  /\ Holds(w, "cancel", "loaded")
  /\ End(w, "cancelada")
  /\ Advance(w, "committed")
  /\ UNCHANGED <<rows, current, deleted, applied, audit>>

TrailSignEarly(w) ==
  /\ Holds(w, "sign", "loaded") \/ Holds(w, "sign", "committed")
  /\ audit' = BagAdd(audit, Entry("signed", job[w].req, job[w].actor))
  /\ Finish(w)
  /\ UNCHANGED <<rows, current, deleted, request, applied>>
TrailSign(w) == Trail(w, "sign", "signed", "none")
TrailDecline(w) == Trail(w, "decline", "declined", "recorded")
TrailCancel(w) == Trail(w, "cancel", "cancelled", "none")

-----------------------------------------------------------------------------
(* A new version.  DocumentFlow has the upload itself; here it is the      *)
(* commit of the version, then the query and the commit that cancel.       *)

BeginUpload(w, u, isPdf) ==
  /\ Accept(w)
  /\ ~deleted
  /\ Start(w, [Idle EXCEPT !.op = "upload", !.step = "loaded", !.actor = u,
                           !.row = current + 1, !.pdf = isPdf])
  /\ UNCHANGED database

CommitVersion(w) ==
  /\ Holds(w, "upload", "loaded")
  /\ rows' = Append(rows, [number |-> job[w].row, pdf |-> job[w].pdf])
  /\ current' = job[w].row
  /\ Advance(w, "committed")
  /\ UNCHANGED <<deleted, request, applied, audit>>

SelectOwnPending(w) ==
  /\ Holds(w, "upload", "committed")
  /\ job' = [job EXCEPT ![w].step = "selected",
                        ![w].pending = {r \in Pending : request[r].row = Len(rows)}]
  /\ UNCHANGED database /\ UNCHANGED <<mails, calls, crashes>>
SelectPending(w) ==
  /\ Holds(w, "upload", "committed")
  /\ job' = [job EXCEPT ![w].step = "selected", ![w].pending = Pending]
  /\ UNCHANGED database /\ UNCHANGED <<mails, calls, crashes>>

CancelSelectedSilently(w) ==
  /\ Holds(w, "upload", "selected")
  /\ request' = [r \in Requests |-> IF r \in job[w].pending
                                    THEN [request[r] EXCEPT !.status = "cancelada"]
                                    ELSE request[r]]
  /\ Advance(w, "recorded")
  /\ UNCHANGED <<rows, current, deleted, applied, audit>>
CancelSelected(w) ==
  /\ Holds(w, "upload", "selected")
  /\ request' = [r \in Requests |-> IF r \in job[w].pending
                                    THEN [request[r] EXCEPT !.status = "cancelada"]
                                    ELSE request[r]]
  /\ audit' = audit (+) SetToBag({Entry("superseded", r, job[w].actor) :
                                   r \in job[w].pending})
  /\ Advance(w, "recorded")
  /\ UNCHANGED <<rows, current, deleted, applied>>

-----------------------------------------------------------------------------
(* Mail: after the last commit, and any of it may fail without a trace.    *)

Owed(w) ==
  CASE job[w].op = "upload"  -> [kind: {"cancelled"}, req: job[w].pending]
    [] job[w].op = "request" -> [kind: {"request"}, req: {job[w].req}]
    [] job[w].op = "decline" -> [kind: {"declined"}, req: {job[w].req}]
    [] OTHER -> {}

NotifyEarly(w) ==
  /\ job[w].step \in {"selected", "committed", "recorded"}
  /\ \E sent \in SUBSET Owed(w) : mails' = mails \cup sent
  /\ job' = [job EXCEPT ![w] = Idle]
  /\ UNCHANGED database /\ UNCHANGED <<calls, crashes>>
Notify(w) ==
  /\ job[w].step = "recorded"
  /\ \E sent \in SUBSET Owed(w) : mails' = mails \cup sent
  /\ job' = [job EXCEPT ![w] = Idle]
  /\ UNCHANGED database /\ UNCHANGED <<calls, crashes>>

-----------------------------------------------------------------------------
DeleteDocument ==
  /\ Count
  /\ ~deleted
  /\ deleted' = TRUE
  /\ UNCHANGED <<rows, current, request, applied, audit, mails, job, crashes>>

\* An exception or a crash: what is not committed is rolled back.
Abort(w) ==
  /\ job[w] # Idle
  /\ crashes < MaxCrashes /\ crashes' = crashes + 1
  /\ job' = [job EXCEPT ![w] = Idle]
  /\ UNCHANGED database /\ UNCHANGED <<mails, calls>>

Begin(w) ==
  \E u \in Users :
    \/ \E isPdf \in BOOLEAN : BeginUpload(w, u, isPdf)
    \/ \E s \in Signatories : BeginRequest(w, u, s)
    \/ \E r \in Requests :
         BeginSign(w, u, r) \/ BeginDecline(w, u, r) \/ BeginCancel(w, u, r)

Continue(w) ==
  \/ CheckPending(w) \/ CommitRequest(w) \/ TrailRequest(w)
  \/ CommitSign(w) \/ TrailSign(w)
  \/ CommitDecline(w) \/ TrailDecline(w)
  \/ CommitCancel(w) \/ TrailCancel(w)
  \/ CommitVersion(w) \/ SelectPending(w) \/ CancelSelected(w)
  \/ Notify(w)

Next ==
  \/ DeleteDocument
  \/ \E w \in Workers : Begin(w) \/ Continue(w) \/ Abort(w)

Spec == Init /\ [][Next]_vars

\* A thread that handles a call goes on with it until it is over.
FairSpec == Spec /\ \A w \in Workers : WF_vars(Continue(w))

-----------------------------------------------------------------------------
(* Properties that hold whatever handlers interleave and wherever they     *)
(* fail.                                                                   *)

\* The variables hold rows, records and calls of the right shape.
TypeOK ==
  /\ rows \in Seq([number: Nat, pdf: BOOLEAN])
  /\ current \in Nat /\ deleted \in BOOLEAN
  /\ request \in [Requests -> RequestRows]
  /\ applied \in [Requests -> Signatures \cup {None}]
  /\ IsABag(audit) /\ DOMAIN audit \subseteq Entries
  /\ mails \subseteq Mails
  /\ job \in [Workers -> Jobs]
  /\ calls \in 0 .. MaxCalls /\ crashes \in 0 .. MaxCrashes

\* A request shows as signed only if the signature exists, and one that carries
\* a signature is never open again, even when a cancellation that read it as
\* pending commits after the signature (sign commits both in one transaction).
SignedHasSignature ==
  \A r \in Requests :
    /\ request[r].status = "assinada" => applied[r] # None
    /\ applied[r] # None => request[r].status \in Ended

\* A signature attests the version the request was made on, a PDF, by the person
\* the request names, whatever was uploaded while it was being signed.
SignatureBound ==
  \A r \in Requests : applied[r] # None =>
    /\ applied[r] = [row |-> request[r].row, signer |-> request[r].signer]
    /\ applied[r].row \in DOMAIN rows /\ rows[applied[r].row].pdf

\* A request never becomes pending twice, what it asks for never changes, and an
\* applied signature is never replaced or removed ("events do not change",
\* signature_applied.py:13).
NeverReopened ==
  [][\A r \in Requests :
       /\ request[r].status # "none" =>
            /\ request'[r] = [request[r] EXCEPT !.status = request'[r].status]
            /\ request'[r].status = "pendente" => request[r].status = "pendente"
       /\ applied[r] # None => applied'[r] = applied[r]]_vars

\* The trail never tells of something that did not happen: one signed record
\* per signature at most and none without it, one requested record at most, and
\* a declined or cancelled record only for a request that ended.
TrailBacked ==
  \A e \in DOMAIN audit :
    /\ e.action \in {"requested", "signed"} => audit[e] = 1
    /\ e.action = "signed" => applied[e.req] # None /\ e.by = applied[e.req].signer
    /\ e.action # "requested" => request[e.req].status \in Ended
    /\ e.action = "requested" => e.by = request[e.req].requester

\* No mail tells of something the database does not hold: mail is sent after the
\* last commit, so each message has its record in the trail.
NoticeAfterFact ==
  \A m \in mails :
    \E e \in DOMAIN audit :
      /\ e.req = m.req
      /\ CASE m.kind = "request"   -> e.action = "requested"
           [] m.kind = "declined"  -> e.action = "declined"
           [] m.kind = "cancelled" -> e.action = "superseded"

-----------------------------------------------------------------------------
(* Properties that hold when no two calls in progress get in each other's  *)
(* way, crashes included.                                                  *)

\* A call about to commit on the strength of what it found: a request that was
\* open, a pair without an open request, all that was pending.
Ending(j) == j.op \in {"sign", "decline", "cancel"} /\ j.step = "loaded"
Checked(j) == j.op = "request" /\ j.step = "checked"
Selected(j) == j.op = "upload" /\ j.step = "selected"

\* Two calls that would end one request, ask one person about one version, or
\* change what is pending while an upload is about to cancel it.
Conflict(i, j) ==
  \/ Ending(i) /\ Ending(j) /\ i.req = j.req
  \/ Checked(i) /\ Checked(j) /\ i.row = j.row /\ i.signer = j.signer
  \/ Selected(i) /\ (Selected(j) \/ Checked(j) \/ Ending(j))

\* What the code would have by locking the rows it decides on, and always has
\* when one thread serves all calls.
Apart == \A v, w \in Workers : v # w => ~Conflict(job[v], job[w])

\* Each commit is one step of the life of a request; everything else is
\* invisible to it.
Lifecycle == INSTANCE RequestLifecycle WITH
  VersionRows <- 1 .. MaxCalls, ask <- request, signature <- applied
ImplementsRequestLifecycle == Lifecycle!Spec

\* Without a crash, when no call is in progress, every step of a request has left
\* exactly one record ("each action produces exactly one record",
\* tests/test_document_timeline.py:171).
Records(r, actions) == {e \in DOMAIN audit : e.req = r /\ e.action \in actions}
Written(r, actions, once) ==
  IF once THEN \E e \in Records(r, actions) :
                 Records(r, actions) = {e} /\ audit[e] = 1
          ELSE Records(r, actions) = {}
TrailExact ==
  crashes = 0 /\ (\A w \in Workers : job[w] = Idle) =>
    \A r \in Requests :
      LET status == request[r].status IN
      /\ Written(r, {"requested"}, status # "none")
      /\ Written(r, {"signed"}, status = "assinada")
      /\ Written(r, {"declined"}, status = "recusada")
      /\ Written(r, {"cancelled", "superseded"}, status = "cancelada")

-----------------------------------------------------------------------------
(* A property that holds when calls are served one at a time.              *)

\* A request on a version that is no longer the current one is closed, unless a
\* handler crashed: "a pending request from an older version can no longer be
\* honoured" (signature_request.py:16).  A second thread could still ask about
\* the version it loaded before an upload that closed what was pending.
Superseded(r) == r \in Pending /\ rows[request[r].row].number # current
SupersededIsClosed ==
  \A r \in Requests : Superseded(r) ~> (r \notin Pending \/ crashes > 0)

-----------------------------------------------------------------------------
(* What the repository says of the program and the code does not do.       *)

\* "A request that already reached an end state cannot change again"
\* (signing.py:110).
EndStateFinal ==
  [][\A r \in Requests :
       request[r].status \in Ended => request'[r] = request[r]]_vars
=============================================================================
