------------------------ MODULE SignatureFlowProofs ------------------------
(***************************************************************************)
(* Proofs about SignatureFlow, for any number of requests, users and       *)
(* handler threads, whatever interleaves and fails.                        *)
(***************************************************************************)
EXTENDS SignatureFlow, Integers, TLAPS

(***************************************************************************)
(* The trail is a bag.                                                     *)
(***************************************************************************)

LEMMA BagAddFacts ==
  ASSUME NEW B, IsABag(B), NEW x
  PROVE  /\ IsABag(BagAdd(B, x)) /\ DOMAIN BagAdd(B, x) = DOMAIN B \cup {x}
         /\ \A e \in DOMAIN B : e # x => BagAdd(B, x)[e] = B[e]
         /\ x \notin DOMAIN B => BagAdd(B, x)[x] = 1
  BY DEF IsABag, BagAdd

LEMMA BagSumFacts ==
  ASSUME NEW B, IsABag(B), NEW S
  PROVE  /\ IsABag(B (+) SetToBag(S)) /\ DOMAIN (B (+) SetToBag(S)) = DOMAIN B \cup S
         /\ \A e \in DOMAIN B : e \notin S => (B (+) SetToBag(S))[e] = B[e]
         /\ \A e \in S : e \notin DOMAIN B => (B (+) SetToBag(S))[e] = 1
<1>. DEFINE T == SetToBag(S)
<1>1. DOMAIN T = S /\ \A e \in S : T[e] = 1
  BY DEF SetToBag
<1>2. B \in [DOMAIN B -> {n \in Nat : n > 0}]
  BY DEF IsABag
<1>. HIDE DEF T
<1>3. B (+) T = [e \in DOMAIN B \cup S |->
                  (IF e \in DOMAIN B THEN B[e] ELSE 0) + (IF e \in S THEN T[e] ELSE 0)]
  BY <1>1 DEF (+)
<1>4. \A e \in DOMAIN B \cup S :
        (IF e \in DOMAIN B THEN B[e] ELSE 0) + (IF e \in S THEN T[e] ELSE 0) \in {n \in Nat : n > 0}
  BY <1>1, <1>2
<1>5. IsABag(B (+) T) /\ DOMAIN (B (+) T) = DOMAIN B \cup S
  BY <1>3, <1>4 DEF IsABag
<1>6. \A e \in DOMAIN B : e \notin S => (B (+) T)[e] = B[e]
  BY <1>2, <1>3
<1>7. \A e \in S : e \notin DOMAIN B => (B (+) T)[e] = 1
  BY <1>1, <1>3
<1>. QED BY <1>5, <1>6, <1>7 DEF T

(***************************************************************************)
(* Types.                                                                  *)
(***************************************************************************)

\* What a call in progress carries.
Asks(j) == j.op = "request" =>
  /\ j.actor \in Users /\ j.signer \in Signatories
  /\ j.row \in DOMAIN rows /\ rows[j.row].pdf
  /\ j.step \in {"committed", "recorded"} => j.req \in Requests
Acts(j) ==
  /\ j.op \in {"sign", "decline", "cancel"} => j.req \in Requests /\ j.actor \in Users
  /\ j.op = "upload" => j.actor \in Users
JobShape == \A w \in Workers : Asks(job[w]) /\ Acts(job[w])

TypeInv == TypeOK /\ JobShape

\* Versions are only added.
Grown == /\ rows' \in Seq([number: Nat, pdf: BOOLEAN])
         /\ \A i \in DOMAIN rows : i \in DOMAIN rows' /\ rows'[i] = rows[i]

LEMMA IdleShape == Idle \in Jobs /\ Asks(Idle) /\ Acts(Idle)
  BY DEF Idle, Jobs, Asks, Acts

LEMMA NoRequestRow == NoRequest \in RequestRows
  BY DEF NoRequest, RequestRows

\* A step of one thread, over a database that keeps its types.
LEMMA JobKeeps ==
  ASSUME TypeInv, NEW w \in Workers, NEW j \in Jobs, job' = [job EXCEPT ![w] = j],
         Grown, Asks(j), Acts(j)
  PROVE  job' \in [Workers -> Jobs] /\ JobShape'
<1>1. job \in [Workers -> Jobs]
  BY DEF TypeInv, TypeOK
<1>2. \A v \in Workers : Asks(job'[v]) /\ Acts(job'[v])
  BY <1>1 DEF TypeInv, JobShape
<1>3. \A v \in Workers : Asks(job[v])' /\ Acts(job[v])'
  BY <1>2 DEF Asks, Acts, Grown
<1>. QED BY <1>1, <1>3 DEF JobShape

LEMMA SameRows == TypeInv /\ rows' = rows => Grown
  BY DEF TypeInv, TypeOK, Grown

LEMMA EmptySeq == ASSUME NEW T PROVE <<>> \in Seq(T)
  OBVIOUS

LEMMA InitType == Init => TypeInv
<1>. SUFFICES ASSUME Init PROVE TypeInv
  OBVIOUS
<1>1. IsABag(audit) /\ DOMAIN audit = {}
  BY DEF Init, IsABag, EmptyBag, SetToBag
<1>2. rows \in Seq([number: Nat, pdf: BOOLEAN]) /\ current \in Nat /\ deleted \in BOOLEAN
  BY EmptySeq DEF Init
<1>3. request \in [Requests -> RequestRows]
  BY NoRequestRow DEF Init
<1>4. applied \in [Requests -> Signatures \cup {None}]
  BY DEF Init
<1>5. \A w \in Workers : job[w] = Idle
  BY DEF Init
<1>6. job \in [Workers -> Jobs]
  BY IdleShape DEF Init
<1>7. mails \subseteq Mails /\ calls \in 0 .. MaxCalls /\ crashes \in 0 .. MaxCrashes
  BY BoundsAssumption DEF Init
<1>8. JobShape
  BY <1>5, IdleShape DEF JobShape
<1>. QED BY <1>1, <1>2, <1>3, <1>4, <1>6, <1>7, <1>8 DEF TypeInv, TypeOK

LEMMA FinishKeeps ==
  ASSUME TypeInv, NEW w \in Workers, job' = [job EXCEPT ![w] = Idle], Grown
  PROVE  job' \in [Workers -> Jobs] /\ JobShape'
  BY IdleShape, JobKeeps

LEMMA AdvanceKeeps ==
  ASSUME TypeInv, NEW w \in Workers, Grown,
         NEW step \in {"checked", "committed", "selected", "recorded"},
         job' = [job EXCEPT ![w].step = step],
         job[w].op = "request" => step = "checked" \/ job[w].req \in Requests
  PROVE  job' \in [Workers -> Jobs] /\ JobShape'
<1>. DEFINE j == [job[w] EXCEPT !.step = step]
<1>1. job[w] \in Jobs /\ Asks(job[w]) /\ Acts(job[w])
  BY DEF TypeInv, TypeOK, JobShape
<1>2. j \in Jobs
  BY <1>1 DEF Jobs
<1>3. Asks(j) /\ Acts(j)
  BY <1>1 DEF Asks, Acts, Jobs
<1>4. job' = [job EXCEPT ![w] = j]
  BY DEF TypeInv, TypeOK
<1>. HIDE DEF j
<1>. QED BY <1>2, <1>3, <1>4, JobKeeps

\* The parts of TypeOK that are not about the threads.
StoreOK ==
  /\ rows \in Seq([number: Nat, pdf: BOOLEAN])
  /\ current \in Nat /\ deleted \in BOOLEAN
  /\ request \in [Requests -> RequestRows]
  /\ applied \in [Requests -> Signatures \cup {None}]
  /\ IsABag(audit) /\ DOMAIN audit \subseteq Entries
  /\ mails \subseteq Mails
  /\ calls \in 0 .. MaxCalls /\ crashes \in 0 .. MaxCrashes

LEMMA EntryTyped ==
  ASSUME NEW a \in {"requested", "signed", "declined", "cancelled", "superseded"},
         NEW r \in Requests, NEW u \in Users
  PROVE  /\ Entry(a, r, u) \in Entries
         /\ Entry(a, r, u).action = a /\ Entry(a, r, u).req = r /\ Entry(a, r, u).by = u
  BY DEF Entry, Entries

LEMMA AcceptType ==
  ASSUME TypeInv, NEW w \in Workers, NEW j \in Jobs, Asks(j), Acts(j),
         Accept(w), Start(w, j), UNCHANGED database
  PROVE  TypeInv'
<1>1. StoreOK'
  BY BoundsAssumption DEF TypeInv, TypeOK, StoreOK, Accept, Count, database
<1>2. job' \in [Workers -> Jobs] /\ JobShape'
  BY JobKeeps, SameRows DEF Start, database
<1>. QED BY <1>1, <1>2 DEF TypeInv, TypeOK, StoreOK

LEMMA BeginType ==
  ASSUME TypeInv, NEW w \in Workers, Begin(w)
  PROVE  TypeInv'
<1>. PICK u \in Users :
       \/ \E isPdf \in BOOLEAN : BeginUpload(w, u, isPdf)
       \/ \E s \in Signatories : BeginRequest(w, u, s)
       \/ \E r \in Requests :
            BeginSign(w, u, r) \/ BeginDecline(w, u, r) \/ BeginCancel(w, u, r)
  BY DEF Begin
<1>1. CASE \E isPdf \in BOOLEAN : BeginUpload(w, u, isPdf)
  <2>. PICK isPdf \in BOOLEAN : BeginUpload(w, u, isPdf)
    BY <1>1
  <2>. DEFINE j == [Idle EXCEPT !.op = "upload", !.step = "loaded", !.actor = u,
                           !.row = current + 1, !.pdf = isPdf]
  <2>1. current + 1 \in Nat
    BY DEF TypeInv, TypeOK
  <2>4. j \in Jobs /\ Asks(j) /\ Acts(j)
    BY <2>1 DEF Idle, Jobs, Asks, Acts
  <2>2. Accept(w) /\ Start(w, j) /\ UNCHANGED database
    BY DEF BeginUpload
  <2>. HIDE DEF j
  <2>. QED BY <2>4, <2>2, AcceptType
<1>2. CASE \E s \in Signatories : BeginRequest(w, u, s)
  <2>. PICK s \in Signatories : BeginRequest(w, u, s)
    BY <1>2
  <2>. PICK i \in DOMAIN rows :
         /\ rows[i].number = current /\ rows[i].pdf
         /\ Start(w, [Idle EXCEPT !.op = "request", !.step = "loaded", !.actor = u,
                                !.row = i, !.signer = s])
    BY DEF BeginRequest
  <2>. DEFINE j == [Idle EXCEPT !.op = "request", !.step = "loaded", !.actor = u,
                                !.row = i, !.signer = s]
  <2>1. i \in Nat /\ s \in Users
    BY DEF TypeInv, TypeOK, Users
  <2>2. j \in Jobs /\ Asks(j) /\ Acts(j)
    BY <2>1 DEF Idle, Jobs, Asks, Acts
  <2>3. Accept(w) /\ Start(w, j) /\ UNCHANGED database
    BY DEF BeginRequest
  <2>. HIDE DEF j
  <2>. QED BY <2>2, <2>3, AcceptType
<1>3. ASSUME NEW op \in {"sign", "decline", "cancel"}, NEW r \in Requests, Take(w, op, u, r)
      PROVE  TypeInv'
  <2>. DEFINE j == [Idle EXCEPT !.op = op, !.step = "loaded", !.actor = u, !.req = r]
  <2>1. j \in Jobs /\ Asks(j) /\ Acts(j)
    BY DEF Idle, Jobs, Asks, Acts
  <2>2. Accept(w) /\ Start(w, j) /\ UNCHANGED database
    BY <1>3 DEF Take
  <2>. HIDE DEF j
  <2>. QED BY <2>1, <2>2, AcceptType
<1>. QED BY <1>1, <1>2, <1>3 DEF BeginSign, BeginDecline, BeginCancel

LEMMA EndTyped ==
  ASSUME TypeInv, NEW w \in Workers, NEW status \in Statuses, End(w, status)
  PROVE  request' \in [Requests -> RequestRows]
  BY DEF TypeInv, TypeOK, End, RequestRows

LEMMA TrailType ==
  ASSUME TypeInv, NEW w \in Workers, NEW op \in {"request", "sign", "decline", "cancel"},
         NEW action \in {"requested", "signed", "declined", "cancelled", "superseded"},
         NEW next \in {"none", "recorded"}, Trail(w, op, action, next)
  PROVE  TypeInv'
<1>1. job[w].actor \in Users /\ job[w].req \in Requests
  BY DEF TypeInv, JobShape, Asks, Acts, Trail, Holds
<1>2. Entry(action, job[w].req, job[w].actor) \in Entries
  BY <1>1, EntryTyped
<1>3. IsABag(audit') /\ DOMAIN audit' \subseteq Entries
  <2>. DEFINE x == Entry(action, job[w].req, job[w].actor)
  <2>1. IsABag(audit) /\ DOMAIN audit \subseteq Entries /\ audit' = BagAdd(audit, x)
    BY DEF Trail, TypeInv, TypeOK
  <2>. HIDE DEF x
  <2>2. IsABag(BagAdd(audit, x)) /\ DOMAIN BagAdd(audit, x) = DOMAIN audit \cup {x}
    BY <2>1, BagAddFacts
  <2>. QED BY <1>2, <2>1, <2>2 DEF x
<1>4. StoreOK'
  BY <1>3 DEF StoreOK, Trail, TypeInv, TypeOK, Finish, Advance
<1>5. Grown
  BY SameRows DEF Trail
<1>6. CASE next = "none"
  BY <1>4, <1>5, <1>6, FinishKeeps DEF Trail, Finish, TypeInv, TypeOK, StoreOK
<1>7. CASE next = "recorded"
  <2>1. job' = [job EXCEPT ![w].step = "recorded"]
    BY <1>7 DEF Trail, Advance
  <2>2. job' \in [Workers -> Jobs] /\ JobShape'
    BY <1>1, <1>5, <2>1, AdvanceKeeps
  <2>. QED BY <1>4, <2>2 DEF TypeInv, TypeOK, StoreOK
<1>. QED BY <1>6, <1>7

LEMMA AppendFacts ==
  ASSUME NEW T, NEW s \in Seq(T), NEW x \in T
  PROVE  /\ Append(s, x) \in Seq(T)
         /\ DOMAIN Append(s, x) = 1 .. Len(s) + 1
         /\ \A i \in DOMAIN s : i \in DOMAIN Append(s, x) /\ Append(s, x)[i] = s[i]
  OBVIOUS

LEMMA SameStep ==
  ASSUME TypeInv, NEW w \in Workers, Finish(w) \/ Advance(w, "checked"),
         UNCHANGED database
  PROVE  TypeInv'
<1>1. StoreOK' /\ Grown
  BY SameRows DEF TypeInv, TypeOK, StoreOK, database, Finish, Advance
<1>2. job' \in [Workers -> Jobs] /\ JobShape'
  BY <1>1, FinishKeeps, AdvanceKeeps DEF Finish, Advance
<1>. QED BY <1>1, <1>2 DEF TypeInv, TypeOK, StoreOK

LEMMA CommitRequestType ==
  ASSUME TypeInv, NEW w \in Workers, CommitRequest(w)
  PROVE  TypeInv'
<1>. PICK r \in Requests :
       /\ request[r].status = "none"
       /\ request' = [request EXCEPT ![r] =
                       [status |-> "pendente", row |-> job[w].row,
                        signer |-> job[w].signer, requester |-> job[w].actor]]
       /\ job' = [job EXCEPT ![w].step = "committed", ![w].req = r]
  BY DEF CommitRequest
<1>. DEFINE j == [job[w] EXCEPT !.step = "committed", !.req = r]
<1>1. job[w] \in Jobs /\ Asks(job[w]) /\ job[w].op = "request"
  BY DEF TypeInv, TypeOK, JobShape, CommitRequest, Holds
<1>2. j \in Jobs /\ Asks(j) /\ Acts(j)
  BY <1>1 DEF Jobs, Asks, Acts
<1>3. job' = [job EXCEPT ![w] = j]
  BY DEF TypeInv, TypeOK
<1>. HIDE DEF j
<1>4. job' \in [Workers -> Jobs] /\ JobShape'
  BY <1>2, <1>3, JobKeeps, SameRows DEF CommitRequest
<1>5. request' \in [Requests -> RequestRows]
  BY <1>1 DEF TypeInv, TypeOK, RequestRows, Statuses, Jobs
<1>. QED BY <1>4, <1>5 DEF TypeInv, TypeOK, CommitRequest

LEMMA CommitEndType ==
  ASSUME TypeInv, NEW w \in Workers, CommitSign(w) \/ CommitDecline(w) \/ CommitCancel(w)
  PROVE  TypeInv'
<1>1. job[w] \in Jobs /\ job[w].req \in Requests /\ job[w].actor \in Users
  BY DEF TypeInv, TypeOK, JobShape, Acts, CommitSign, CommitDecline, CommitCancel, Holds
<1>2. request' \in [Requests -> RequestRows]
  BY EndTyped DEF CommitSign, CommitDecline, CommitCancel, Statuses, Ended, TypeInv, TypeOK
<1>3. applied' \in [Requests -> Signatures \cup {None}]
  <2>1. [row |-> request[job[w].req].row, signer |-> job[w].actor] \in Signatures
    BY <1>1 DEF TypeInv, TypeOK, RequestRows, Signatures
  <2>. QED BY <2>1 DEF TypeInv, TypeOK, CommitSign, CommitDecline, CommitCancel
<1>4. StoreOK' /\ Grown
  BY <1>2, <1>3, SameRows
     DEF TypeInv, TypeOK, StoreOK, CommitSign, CommitDecline, CommitCancel, Advance, Finish
<1>5. job' \in [Workers -> Jobs] /\ JobShape'
  BY <1>1, <1>4, FinishKeeps, AdvanceKeeps
     DEF CommitSign, CommitDecline, CommitCancel, Advance, Finish
<1>. QED BY <1>4, <1>5 DEF TypeInv, TypeOK, StoreOK

LEMMA CommitVersionType ==
  ASSUME TypeInv, NEW w \in Workers, CommitVersion(w)
  PROVE  TypeInv' /\ Grown
<1>. DEFINE x == [number |-> job[w].row, pdf |-> job[w].pdf]
            T == [number: Nat, pdf: BOOLEAN]
<1>1. job[w] \in Jobs /\ job[w].row \in Nat /\ job[w].op = "upload"
  BY DEF TypeInv, TypeOK, Jobs, CommitVersion, Holds
<1>2. x \in T /\ rows \in Seq(T) /\ rows' = Append(rows, x)
  BY <1>1 DEF TypeInv, TypeOK, CommitVersion, Jobs
<1>. HIDE DEF x, T
<1>3. rows' \in Seq(T) /\ \A i \in DOMAIN rows : i \in DOMAIN rows' /\ rows'[i] = rows[i]
  BY <1>2, AppendFacts
<1>4. Grown
  BY <1>3 DEF Grown, T
<1>5. StoreOK'
  BY <1>1, <1>3 DEF T, StoreOK, TypeInv, TypeOK, CommitVersion, Advance
<1>6. job' \in [Workers -> Jobs] /\ JobShape'
  BY <1>1, <1>4, AdvanceKeeps DEF CommitVersion, Advance
<1>. QED BY <1>4, <1>5, <1>6 DEF TypeInv, TypeOK, StoreOK

LEMMA SelectPendingType ==
  ASSUME TypeInv, NEW w \in Workers, SelectPending(w)
  PROVE  TypeInv'
<1>. DEFINE j == [job[w] EXCEPT !.step = "selected", !.pending = Pending]
<1>1. job[w] \in Jobs /\ Asks(job[w]) /\ Acts(job[w]) /\ job[w].op = "upload"
  BY DEF TypeInv, TypeOK, JobShape, SelectPending, Holds
<1>2. j \in Jobs /\ Asks(j) /\ Acts(j)
  BY <1>1 DEF Jobs, Asks, Acts, Pending
<1>3. job' = [job EXCEPT ![w] = j]
  BY DEF TypeInv, TypeOK, SelectPending
<1>. HIDE DEF j
<1>4. job' \in [Workers -> Jobs] /\ JobShape'
  BY <1>2, <1>3, JobKeeps, SameRows DEF SelectPending, database
<1>. QED BY <1>4 DEF TypeInv, TypeOK, SelectPending, database

LEMMA CancelSelectedAudit ==
  ASSUME TypeInv, NEW w \in Workers, CancelSelected(w)
  PROVE  /\ IsABag(audit') /\ DOMAIN audit' \subseteq Entries
         /\ DOMAIN audit' = DOMAIN audit \cup {Entry("superseded", r, job[w].actor) :
                                                r \in job[w].pending}
         /\ \A e \in DOMAIN audit : e.action # "superseded" => audit'[e] = audit[e]
<1>. DEFINE S == {Entry("superseded", r, job[w].actor) : r \in job[w].pending}
<1>1. job[w] \in Jobs /\ job[w].actor \in Users /\ job[w].pending \subseteq Requests
  BY DEF TypeInv, TypeOK, JobShape, Acts, Jobs, CancelSelected, Holds
<1>2. S \subseteq Entries /\ \A e \in S : e.action = "superseded"
  BY <1>1, EntryTyped
<1>3. IsABag(audit) /\ DOMAIN audit \subseteq Entries /\ audit' = audit (+) SetToBag(S)
  BY DEF TypeInv, TypeOK, CancelSelected
<1>. HIDE DEF S
<1>4. /\ IsABag(audit') /\ DOMAIN audit' = DOMAIN audit \cup S
      /\ \A e \in DOMAIN audit : e \notin S => audit'[e] = audit[e]
  BY <1>3, BagSumFacts
<1>. QED BY <1>2, <1>3, <1>4 DEF S

LEMMA CancelSelectedType ==
  ASSUME TypeInv, NEW w \in Workers, CancelSelected(w)
  PROVE  TypeInv'
<1>1. job[w].op = "upload" /\ job[w] \in Jobs
  BY DEF TypeInv, TypeOK, CancelSelected, Holds
<1>2. request' \in [Requests -> RequestRows]
  BY DEF TypeInv, TypeOK, RequestRows, Statuses, Ended, CancelSelected
<1>3. StoreOK' /\ Grown
  BY <1>2, CancelSelectedAudit, SameRows DEF TypeInv, TypeOK, StoreOK, CancelSelected, Advance
<1>4. job' \in [Workers -> Jobs] /\ JobShape'
  BY <1>1, <1>3, AdvanceKeeps DEF CancelSelected, Advance
<1>. QED BY <1>3, <1>4 DEF TypeInv, TypeOK, StoreOK

LEMMA OwedTyped ==
  ASSUME TypeInv, NEW w \in Workers, job[w].step = "recorded"
  PROVE  /\ Owed(w) \subseteq Mails
         /\ \A m \in Owed(w) :
              \/ job[w].op = "upload" /\ m.kind = "cancelled" /\ m.req \in job[w].pending
              \/ job[w].op = "request" /\ m.kind = "request" /\ m.req = job[w].req
              \/ job[w].op = "decline" /\ m.kind = "declined" /\ m.req = job[w].req
<1>1. job[w] \in Jobs /\ Asks(job[w]) /\ Acts(job[w])
  BY DEF TypeInv, TypeOK, JobShape
<1>2. CASE job[w].op = "upload"
  BY <1>1, <1>2 DEF Owed, Jobs, Mails
<1>3. CASE job[w].op = "request"
  BY <1>1, <1>3 DEF Owed, Jobs, Mails, Asks
<1>4. CASE job[w].op = "decline"
  BY <1>1, <1>4 DEF Owed, Jobs, Mails, Acts
<1>. QED BY <1>2, <1>3, <1>4 DEF Owed

LEMMA NotifyType ==
  ASSUME TypeInv, NEW w \in Workers, Notify(w)
  PROVE  TypeInv'
<1>1. mails' \subseteq Mails
  BY OwedTyped DEF Notify, TypeInv, TypeOK
<1>2. job' \in [Workers -> Jobs] /\ JobShape'
  BY FinishKeeps, SameRows DEF Notify, database
<1>. QED BY <1>1, <1>2 DEF TypeInv, TypeOK, Notify, database

LEMMA StepType == TypeInv /\ [Next]_vars => TypeInv'
<1>. SUFFICES ASSUME TypeInv, [Next]_vars PROVE TypeInv'
  OBVIOUS
<1>1. CASE DeleteDocument
  <2>1. StoreOK' /\ UNCHANGED <<job, rows>>
    BY <1>1, BoundsAssumption DEF DeleteDocument, Count, StoreOK, TypeInv, TypeOK
  <2>. QED BY <2>1 DEF TypeInv, TypeOK, StoreOK, JobShape, Asks, Acts
<1>2. CASE UNCHANGED vars
  BY <1>2 DEF vars, TypeInv, TypeOK, JobShape, Asks, Acts
<1>3. ASSUME NEW w \in Workers, Abort(w) PROVE TypeInv'
  <2>1. StoreOK'
    BY <1>3, BoundsAssumption DEF Abort, database, StoreOK, TypeInv, TypeOK
  <2>2. job' \in [Workers -> Jobs] /\ JobShape'
    BY <1>3, FinishKeeps, SameRows DEF Abort, database
  <2>. QED BY <2>1, <2>2 DEF TypeInv, TypeOK, StoreOK
<1>4. ASSUME NEW w \in Workers, Continue(w) PROVE TypeInv'
  <2>1. CASE CheckPending(w)
    BY <2>1, SameStep DEF CheckPending
  <2>2. CASE CommitRequest(w)
    BY <2>2, CommitRequestType
  <2>3. CASE CommitSign(w) \/ CommitDecline(w) \/ CommitCancel(w)
    BY <2>3, CommitEndType
  <2>4. CASE TrailRequest(w) \/ TrailSign(w) \/ TrailDecline(w) \/ TrailCancel(w)
    BY <2>4, TrailType DEF TrailRequest, TrailSign, TrailDecline, TrailCancel
  <2>5. CASE CommitVersion(w)
    BY <2>5, CommitVersionType
  <2>6. CASE SelectPending(w)
    BY <2>6, SelectPendingType
  <2>7. CASE CancelSelected(w)
    BY <2>7, CancelSelectedType
  <2>8. CASE Notify(w)
    BY <2>8, NotifyType
  <2>. QED BY <1>4, <2>1, <2>2, <2>3, <2>4, <2>5, <2>6, <2>7, <2>8 DEF Continue
<1>. QED BY <1>1, <1>2, <1>3, <1>4, BeginType DEF Next

\* TypeOK is inductive with the shape of the calls in progress.
THEOREM TypeCorrect == Spec => []TypeInv
BY InitType, StepType, PTL DEF Spec

\* The tables, the trail and the threads hold values of the right shape, and a
\* call in progress names a row, a request and a person that exist.
THEOREM TypeOKHolds == Spec => []TypeOK
<1>1. TypeInv => TypeOK
  BY DEF TypeInv
<1>. QED BY <1>1, TypeCorrect, PTL

(***************************************************************************)
(* Requests and signatures.                                                *)
(***************************************************************************)

\* What one commit may do to the rows of requests and signatures.
Goes ==
  \A r \in Requests :
    /\ request[r].status # "none" =>
         /\ request'[r] = [request[r] EXCEPT !.status = request'[r].status]
         /\ request'[r].status \in Statuses
         /\ request'[r].status = "pendente" => request[r].status = "pendente"
    /\ applied[r] # None => applied'[r] = applied[r]

LEMMA GoesIfSame == TypeInv /\ request' = request /\ applied' = applied => Goes
  BY DEF Goes, TypeInv, TypeOK, RequestRows

LEMMA EndGoes ==
  ASSUME TypeInv, NEW w \in Workers, NEW status \in Ended, End(w, status),
         \A r \in Requests : applied[r] # None => applied'[r] = applied[r]
  PROVE  Goes
  BY DEF End, Goes, TypeInv, TypeOK, RequestRows, Ended, Statuses

LEMMA StepGoes == TypeInv /\ [Next]_vars => Goes
<1>. SUFFICES ASSUME TypeInv, [Next]_vars PROVE Goes
  OBVIOUS
<1>1. CASE request' = request /\ applied' = applied
  BY <1>1, GoesIfSame
<1>2. ASSUME NEW w \in Workers, CommitRequest(w) PROVE Goes
  BY <1>2 DEF CommitRequest, Goes, TypeInv, TypeOK, RequestRows, Statuses
<1>3. ASSUME NEW w \in Workers, CommitSign(w) PROVE Goes
  BY <1>3, GoesIfSame, EndGoes DEF CommitSign, TypeInv, TypeOK, Ended
<1>4. ASSUME NEW w \in Workers, CommitDecline(w) \/ CommitCancel(w) PROVE Goes
  BY <1>4, EndGoes DEF CommitDecline, CommitCancel, Ended
<1>5. ASSUME NEW w \in Workers, CancelSelected(w) PROVE Goes
  BY <1>5 DEF CancelSelected, Goes, TypeInv, TypeOK, RequestRows, Ended, Statuses
<1>6. ASSUME NEW w \in Workers, Begin(w) PROVE request' = request /\ applied' = applied
  BY <1>6 DEF Begin, BeginUpload, BeginRequest, BeginSign, BeginDecline, BeginCancel,
              Take, database
<1>7. ASSUME NEW w \in Workers, Abort(w) PROVE request' = request /\ applied' = applied
  BY <1>7 DEF Abort, database
<1>8. ASSUME NEW w \in Workers,
             \/ CheckPending(w) \/ TrailRequest(w) \/ TrailSign(w) \/ TrailDecline(w)
             \/ TrailCancel(w) \/ CommitVersion(w) \/ SelectPending(w) \/ Notify(w)
      PROVE  request' = request /\ applied' = applied
  BY <1>8 DEF CheckPending, TrailRequest, TrailSign, TrailDecline, TrailCancel, Trail,
              CommitVersion, SelectPending, Notify, database
<1>9. CASE UNCHANGED vars \/ DeleteDocument
  BY <1>1, <1>9 DEF vars, DeleteDocument
<1>. QED BY <1>1, <1>2, <1>3, <1>4, <1>5, <1>6, <1>7, <1>8, <1>9 DEF Next, Continue

\* A request that was made names a version row, a PDF, and two people.
RequestWhole ==
  \A r \in Requests : request[r].status # "none" =>
    /\ request[r].row \in DOMAIN rows /\ rows[request[r].row].pdf
    /\ request[r].signer \in Users /\ request[r].requester \in Users

\* A call in progress is about requests that were made, and a signature is
\* being put by the person the request names.
Linked(j) ==
  /\ j.op \in {"sign", "decline", "cancel"} => request[j.req].status # "none"
  /\ j.op = "sign" => j.actor = request[j.req].signer
  /\ \A r \in j.pending : r \in Requests /\ request[r].status # "none"

SignInv ==
  /\ RequestWhole
  /\ \A w \in Workers : Linked(job[w])
  /\ SignedHasSignature
  /\ SignatureBound

SameCall(i, j) ==
  i.op = j.op /\ i.actor = j.actor /\ i.req = j.req /\ i.pending = j.pending

LEMMA OneThreadGoesOn ==
  ASSUME TypeInv, NEW w \in Workers, NEW step,
         job' = [job EXCEPT ![w] = Idle] \/ job' = [job EXCEPT ![w].step = step]
  PROVE  \A v \in Workers : SameCall(job[v], job'[v]) \/ job'[v] = Idle
<1>1. \A v \in Workers :
        job'[v] = job[v] \/ job'[v] = Idle \/ job'[v] = [job[v] EXCEPT !.step = step]
  BY DEF TypeInv, TypeOK
<1>2. \A v \in Workers : job[v] \in Jobs
  BY DEF TypeInv, TypeOK
<1>3. ASSUME NEW j \in Jobs PROVE SameCall(j, j) /\ SameCall(j, [j EXCEPT !.step = step])
  BY DEF SameCall, Jobs
<1>. QED BY <1>1, <1>2, <1>3

LEMMA IdleLinked == Linked(Idle)
  BY DEF Linked, Idle

LEMMA LinkedGoesOn ==
  ASSUME TypeInv, TypeInv', Goes, \A v \in Workers : Linked(job'[v])
  PROVE  (\A w \in Workers : Linked(job[w]))'
<1>. SUFFICES ASSUME NEW v \in Workers PROVE Linked(job[v])'
  OBVIOUS
<1>1. Acts(job[v])' /\ Linked(job'[v]) /\ (job[v] \in Jobs)'
  BY DEF TypeInv, TypeOK, JobShape
<1>2. \A r \in Requests : request[r].status # "none" =>
        request'[r].status # "none" /\ request'[r].signer = request[r].signer
  BY DEF Goes, TypeInv, TypeOK, RequestRows, Statuses, Ended
<1>. QED BY <1>1, <1>2 DEF Linked, Acts

LEMMA SameCallLinked ==
  ASSUME NEW i, NEW j, SameCall(i, j), Linked(i)
  PROVE  Linked(j)
  BY DEF SameCall, Linked

\* A step of one thread that changes no request, no signature and no version.
LEMMA QuietSign ==
  ASSUME TypeInv, TypeInv', SignInv, UNCHANGED <<request, applied>>, Grown,
         \A v \in Workers : SameCall(job[v], job'[v]) \/ Linked(job'[v])
  PROVE  SignInv'
<1>1. (\A w \in Workers : Linked(job[w]))'
  BY GoesIfSame, LinkedGoesOn, SameCallLinked DEF SignInv
<1>2. RequestWhole'
  BY DEF SignInv, RequestWhole, Grown
<1>3. SignedHasSignature'
  BY DEF SignInv, SignedHasSignature
<1>4. SignatureBound'
  BY DEF SignInv, SignatureBound, Grown
<1>. QED BY <1>1, <1>2, <1>3, <1>4 DEF SignInv

LEMMA BeginLoads ==
  ASSUME TypeInv, NEW w \in Workers, Begin(w)
  PROVE  (\A v \in Workers \ {w} : job'[v] = job[v]) /\ job'[w].step = "loaded"
<1>1. ASSUME NEW u \in Users, NEW isPdf \in BOOLEAN, BeginUpload(w, u, isPdf)
      PROVE  (\A v \in Workers \ {w} : job'[v] = job[v]) /\ job'[w].step = "loaded"
  BY <1>1 DEF BeginUpload, Start, Idle, TypeInv, TypeOK
<1>2. ASSUME NEW u \in Users, NEW s \in Signatories, BeginRequest(w, u, s)
      PROVE  (\A v \in Workers \ {w} : job'[v] = job[v]) /\ job'[w].step = "loaded"
  BY <1>2 DEF BeginRequest, Start, Idle, TypeInv, TypeOK
<1>3. ASSUME NEW u \in Users, NEW r \in Requests, NEW op, Take(w, op, u, r)
      PROVE  (\A v \in Workers \ {w} : job'[v] = job[v]) /\ job'[w].step = "loaded"
  BY <1>3 DEF Take, Start, Idle, TypeInv, TypeOK
<1>. QED BY <1>1, <1>2, <1>3 DEF Begin, BeginSign, BeginDecline, BeginCancel

LEMMA BeginLinked ==
  ASSUME TypeInv, NEW w \in Workers, Begin(w)
  PROVE  /\ UNCHANGED database
         /\ \A v \in Workers : job'[v] = job[v] \/ Linked(job'[v])
<1>1. UNCHANGED database
  BY DEF Begin, BeginUpload, BeginRequest, BeginSign, BeginDecline, BeginCancel, Take
<1>2. ASSUME NEW u \in Users, NEW isPdf \in BOOLEAN, BeginUpload(w, u, isPdf)
      PROVE  \A v \in Workers : job'[v] = job[v] \/ Linked(job'[v])
  BY <1>2 DEF BeginUpload, Start, Idle, Linked, TypeInv, TypeOK
<1>3. ASSUME NEW u \in Users, NEW s \in Signatories, BeginRequest(w, u, s)
      PROVE  \A v \in Workers : job'[v] = job[v] \/ Linked(job'[v])
  BY <1>3 DEF BeginRequest, Start, Idle, Linked, TypeInv, TypeOK
<1>4. ASSUME NEW u \in Users, NEW r \in Requests, NEW op \in {"sign", "decline", "cancel"},
             Take(w, op, u, r), IsOpen(r), op = "sign" => request[r].signer = u
      PROVE  \A v \in Workers : job'[v] = job[v] \/ Linked(job'[v])
  BY <1>4 DEF Take, IsOpen, Start, Idle, Linked, TypeInv, TypeOK
<1>. QED BY <1>1, <1>2, <1>3, <1>4 DEF Begin, BeginSign, BeginDecline, BeginCancel

LEMMA RequestSign ==
  ASSUME TypeInv, TypeInv', SignInv, Goes, NEW w \in Workers, CommitRequest(w)
  PROVE  SignInv'
<1>. PICK r \in Requests :
       /\ request[r].status = "none"
       /\ request' = [request EXCEPT ![r] =
                       [status |-> "pendente", row |-> job[w].row,
                        signer |-> job[w].signer, requester |-> job[w].actor]]
       /\ job' = [job EXCEPT ![w].step = "committed", ![w].req = r]
  BY DEF CommitRequest
<1>1. Asks(job[w]) /\ job[w].op = "request"
  BY DEF TypeInv, JobShape, CommitRequest, Holds
<1>2. UNCHANGED <<rows, applied>>
  BY DEF CommitRequest
<1>3. \A v \in Workers : Linked(job'[v])
  BY <1>1 DEF SignInv, Linked, TypeInv, TypeOK
<1>4. (\A v \in Workers : Linked(job[v]))'
  BY <1>3, LinkedGoesOn
<1>5. RequestWhole'
  BY <1>1, <1>2 DEF SignInv, RequestWhole, Asks, TypeInv, TypeOK, Users
<1>6. applied[r] = None
  BY DEF SignInv, SignedHasSignature, Ended
<1>7. SignedHasSignature' /\ SignatureBound'
  BY <1>2, <1>6 DEF SignInv, SignedHasSignature, SignatureBound, TypeInv, TypeOK
<1>. QED BY <1>4, <1>5, <1>7 DEF SignInv

LEMMA EndSign ==
  ASSUME TypeInv, TypeInv', SignInv, Goes, NEW w \in Workers,
         CommitSign(w) \/ CommitDecline(w) \/ CommitCancel(w)
  PROVE  SignInv'
<1>. DEFINE r == job[w].req
<1>1. /\ r \in Requests /\ request[r].status # "none" /\ UNCHANGED rows
      /\ job[w].op = "sign" => job[w].actor = request[r].signer
  BY DEF TypeInv, JobShape, Acts, SignInv, Linked, CommitSign, CommitDecline,
         CommitCancel, Holds
<1>2. \A v \in Workers : SameCall(job[v], job'[v]) \/ job'[v] = Idle
  BY OneThreadGoesOn DEF CommitSign, CommitDecline, CommitCancel, Advance, Finish
<1>3. (\A v \in Workers : Linked(job[v]))'
  BY <1>2, LinkedGoesOn, SameCallLinked, IdleLinked DEF SignInv
<1>. HIDE DEF r
<1>4. RequestWhole'
  <2>1. \A q \in Requests : request'[q].status # "none" => request[q].status # "none"
    BY <1>1 DEF CommitSign, CommitDecline, CommitCancel, End, TypeInv, TypeOK, r
  <2>2. \A q \in Requests : request[q].status # "none" =>
          /\ request'[q].row = request[q].row /\ request'[q].signer = request[q].signer
          /\ request'[q].requester = request[q].requester
    BY DEF Goes, TypeInv, TypeOK, RequestRows
  <2>. QED BY <1>1, <2>1, <2>2 DEF SignInv, RequestWhole
<1>5. CASE UNCHANGED <<request, applied>>
  BY <1>1, <1>3, <1>4, <1>5 DEF SignInv, SignedHasSignature, SignatureBound
<1>6. CASE \E status \in {"recusada", "cancelada"} : End(w, status) /\ applied' = applied
  <2>1. \A q \in Requests :
          /\ request'[q].row = request[q].row /\ request'[q].signer = request[q].signer
          /\ request'[q].status = request[q].status \/ request'[q].status \in {"recusada", "cancelada"}
    BY <1>6 DEF End, TypeInv, TypeOK, RequestRows
  <2>2. SignedHasSignature' /\ SignatureBound'
    BY <1>1, <1>6, <2>1 DEF SignInv, SignedHasSignature, SignatureBound, Ended
  <2>. QED BY <1>3, <1>4, <2>2 DEF SignInv
<1>7. CASE /\ applied[r] = None
           /\ applied' = [applied EXCEPT ![r] = [row |-> request[r].row, signer |-> job[w].actor]]
           /\ End(w, "assinada")
           /\ job[w].op = "sign"
  <2>1. \A q \in Requests :
          /\ request'[q].row = request[q].row /\ request'[q].signer = request[q].signer
          /\ request'[q].status = IF q = r THEN "assinada" ELSE request[q].status
    BY <1>7 DEF End, TypeInv, TypeOK, RequestRows, r
  <2>2. [row |-> request[r].row, signer |-> job[w].actor] \in Signatures
    BY <1>1, <1>7 DEF TypeInv, TypeOK, RequestRows, Signatures, SignInv, RequestWhole
  <2>3. \A q \in Requests : applied'[q] =
          IF q = r THEN [row |-> request[r].row, signer |-> job[w].actor] ELSE applied[q]
    BY <1>7 DEF TypeInv, TypeOK
  <2>4. SignedHasSignature'
    BY <1>1, <2>1, <2>2, <2>3, NoneAssumption
       DEF SignInv, SignedHasSignature, Ended, Signatures
  <2>5. SignatureBound'
    BY <1>1, <1>7, <2>1, <2>3 DEF SignInv, SignatureBound, RequestWhole
  <2>. QED BY <1>3, <1>4, <2>4, <2>5 DEF SignInv
<1>. QED BY <1>5, <1>6, <1>7 DEF CommitSign, CommitDecline, CommitCancel, Holds, r

LEMMA SupersedeSign ==
  ASSUME TypeInv, TypeInv', SignInv, Goes, NEW w \in Workers, CancelSelected(w)
  PROVE  SignInv'
<1>1. \A v \in Workers : SameCall(job[v], job'[v])
  BY DEF CancelSelected, Advance, SameCall, TypeInv, TypeOK
<1>2. (\A v \in Workers : Linked(job[v]))'
  BY <1>1, LinkedGoesOn, SameCallLinked DEF SignInv
<1>3. /\ \A q \in Requests :
           /\ request'[q].row = request[q].row /\ request'[q].signer = request[q].signer
           /\ request'[q].requester = request[q].requester
           /\ request'[q].status =
                IF q \in job[w].pending THEN "cancelada" ELSE request[q].status
      /\ \A q \in job[w].pending : request[q].status # "none"
      /\ UNCHANGED <<rows, applied>>
  BY DEF CancelSelected, TypeInv, TypeOK, RequestRows, SignInv, Linked
<1>4. RequestWhole'
  BY <1>3 DEF SignInv, RequestWhole
<1>5. SignedHasSignature' /\ SignatureBound'
  BY <1>3 DEF SignInv, SignedHasSignature, SignatureBound, Ended
<1>. QED BY <1>2, <1>4, <1>5 DEF SignInv

LEMMA InitSign == Init => SignInv
<1>. SUFFICES ASSUME Init PROVE SignInv
  OBVIOUS
<1>1. \A r \in Requests : request[r] = NoRequest /\ applied[r] = None
  BY DEF Init
<1>2. \A w \in Workers : Linked(job[w])
  BY IdleLinked DEF Init
<1>3. RequestWhole /\ SignedHasSignature /\ SignatureBound
  BY <1>1 DEF NoRequest, RequestWhole, SignedHasSignature, SignatureBound
<1>. QED BY <1>2, <1>3 DEF SignInv

LEMMA StepSign == TypeInv /\ TypeInv' /\ SignInv /\ [Next]_vars => SignInv'
<1>. SUFFICES ASSUME TypeInv, TypeInv', SignInv, [Next]_vars PROVE SignInv'
  OBVIOUS
<1>1. Goes
  BY StepGoes
<1>2. CASE UNCHANGED <<request, applied, rows, job>>
  BY <1>2, QuietSign, SameRows DEF SameCall
<1>3. ASSUME NEW w \in Workers, Begin(w) PROVE SignInv'
  BY <1>3, BeginLinked, QuietSign, SameRows DEF database, SameCall
<1>4. ASSUME NEW w \in Workers, UNCHANGED <<request, applied>>, Grown,
             NEW step, job' = [job EXCEPT ![w] = Idle] \/ job' = [job EXCEPT ![w].step = step]
      PROVE  SignInv'
  <2>1. \A v \in Workers : SameCall(job[v], job'[v]) \/ job'[v] = Idle
    BY <1>4, OneThreadGoesOn
  <2>. QED BY <1>4, <2>1, IdleLinked, QuietSign
<1>5. ASSUME NEW w \in Workers,
             \/ CheckPending(w) \/ TrailRequest(w) \/ TrailSign(w) \/ TrailDecline(w)
             \/ TrailCancel(w) \/ Notify(w) \/ Abort(w)
      PROVE  SignInv'
  BY <1>4, <1>5, SameRows DEF CheckPending, TrailRequest, TrailSign, TrailDecline,
     TrailCancel, Trail, Notify, Abort, Finish, Advance, database
<1>6. ASSUME NEW w \in Workers, CommitVersion(w) PROVE SignInv'
  BY <1>4, <1>6, CommitVersionType DEF CommitVersion, Advance
<1>7. ASSUME NEW w \in Workers, SelectPending(w) PROVE SignInv'
  <2>1. \A v \in Workers : Linked(job'[v])
    BY <1>7 DEF SignInv, SelectPending, Holds, Linked, Pending, TypeInv, TypeOK
  <2>. QED BY <1>7, <2>1, QuietSign, SameRows DEF SelectPending, database
<1>. QED BY <1>1, <1>2, <1>3, <1>5, <1>6, <1>7, RequestSign, EndSign, SupersedeSign
         DEF Next, Continue, vars, DeleteDocument

\* The inductive invariant of requests and signatures.
THEOREM SignCorrect == Spec => [](TypeInv /\ SignInv)
<1>1. Init => TypeInv /\ SignInv
  BY InitType, InitSign
<1>2. (TypeInv /\ SignInv) /\ [Next]_vars => (TypeInv /\ SignInv)'
  BY StepType, StepSign
<1>. QED BY <1>1, <1>2, PTL DEF Spec

\* No request shows as signed without its signature, and one that carries a
\* signature is never open again, even when a decline or a cancellation that
\* read it as pending commits after the signature.
THEOREM SignedHasSignatureHolds == Spec => []SignedHasSignature
<1>1. SignInv => SignedHasSignature
  BY DEF SignInv
<1>. QED BY <1>1, SignCorrect, PTL

\* A signature attests a PDF version that exists, the one the request was made
\* on, and is by the person the request names.
THEOREM SignatureBoundHolds == Spec => []SignatureBound
<1>1. SignInv => SignatureBound
  BY DEF SignInv
<1>. QED BY <1>1, SignCorrect, PTL

\* No commit reopens a request, changes what it asks for, or replaces a
\* signature.
THEOREM NeverReopenedHolds == Spec => NeverReopened
<1>1. TypeInv /\ [Next]_vars =>
        [\A r \in Requests :
           /\ request[r].status # "none" =>
                /\ request'[r] = [request[r] EXCEPT !.status = request'[r].status]
                /\ request'[r].status = "pendente" => request[r].status = "pendente"
           /\ applied[r] # None => applied'[r] = applied[r]]_vars
  BY StepGoes DEF Goes
<1>. QED BY <1>1, TypeCorrect, PTL DEF Spec, NeverReopened

(***************************************************************************)
(* The trail.  A record is written after the commit it tells of, so the    *)
(* thread that owes it carries the proof that it is due, and that no other *)
(* thread owes or wrote the same one.                                      *)
(***************************************************************************)

Asking(j) == j.op = "request" /\ j.step = "committed"
Signing(j) == j.op = "sign" /\ j.step = "committed"

\* What is true of the database when a thread owes a record.
Done(j) ==
  /\ Asking(j) => request[j.req].status # "none" /\ j.actor = request[j.req].requester
  /\ Signing(j) => applied[j.req] # None /\ j.actor = applied[j.req].signer
  /\ j.op \in {"decline", "cancel"} /\ j.step = "committed" => request[j.req].status \in Ended

Recorded(action, r) == \E e \in DOMAIN audit : e.req = r /\ e.action = action

\* The record a thread owes was not written yet, and no other thread owes it.
Due ==
  \A w \in Workers :
    /\ Asking(job[w]) => ~ Recorded("requested", job[w].req)
    /\ Signing(job[w]) => ~ Recorded("signed", job[w].req)
    /\ \A v \in Workers : v # w =>
         /\ Asking(job[v]) /\ Asking(job[w]) => job[v].req # job[w].req
         /\ Signing(job[v]) /\ Signing(job[w]) => job[v].req # job[w].req

AllMade == \A e \in DOMAIN audit : request[e.req].status # "none"

TrailInv == /\ TrailBacked
            /\ AllMade
            /\ \A w \in Workers : Done(job[w])
            /\ Due

LEMMA GoesFacts ==
  ASSUME TypeInv, Goes, NEW r \in Requests
  PROVE  /\ request[r].status # "none" =>
              /\ request'[r].status # "none"
              /\ request'[r].requester = request[r].requester
         /\ request[r].status \in Ended => request'[r].status \in Ended
         /\ applied[r] # None => applied'[r] = applied[r]
<1>1. request[r] \in RequestRows
  BY DEF TypeInv, TypeOK
<1>2. request[r].status # "none" =>
        /\ request'[r].requester = request[r].requester
        /\ request'[r].status \in Statuses
  BY <1>1 DEF Goes, RequestRows
<1>3. request[r].status \in Ended => request[r].status # "none" /\ request[r].status # "pendente"
  BY DEF Ended
<1>4. request[r].status \in Ended => request'[r].status \in Ended
  BY <1>2, <1>3 DEF Goes, Statuses
<1>5. "none" \notin Statuses
  BY DEF Statuses, Ended
<1>. QED BY <1>2, <1>4, <1>5 DEF Goes

LEMMA SameAuditBacked ==
  ASSUME TypeInv, Goes, TrailBacked, AllMade, audit' = audit
  PROVE  TrailBacked' /\ AllMade'
<1>1. \A e \in DOMAIN audit : e.req \in Requests
  BY DEF TypeInv, TypeOK, Entries
<1>2. AllMade'
  BY <1>1, GoesFacts DEF AllMade
<1>3. ASSUME NEW e \in DOMAIN audit
      PROVE  /\ e.action \in {"requested", "signed"} => audit'[e] = 1
             /\ e.action = "signed" => applied'[e.req] # None /\ e.by = applied'[e.req].signer
             /\ e.action # "requested" => request'[e.req].status \in Ended
             /\ e.action = "requested" => e.by = request'[e.req].requester
  BY <1>1, GoesFacts DEF TrailBacked, AllMade
<1>. QED BY <1>2, <1>3 DEF TrailBacked

LEMMA StillDone ==
  ASSUME TypeInv, Goes, NEW v \in Workers, Done(job[v]), job'[v] = job[v]
  PROVE  Done(job[v])'
<1>1. /\ Asking(job[v]) \/ Signing(job[v]) \/ job[v].op \in {"decline", "cancel"}
           => job[v].req \in Requests
  BY DEF TypeInv, JobShape, Asks, Acts, Asking, Signing
<1>. QED BY <1>1, GoesFacts DEF Done, Asking, Signing

\* A step that writes no record and after which no new one is owed, except that
\* of a decline or a cancellation.
LEMMA QuietTrail ==
  ASSUME TypeInv, Goes, TrailInv, audit' = audit,
         \A v \in Workers :
           \/ job'[v] = job[v]
           \/ ~ Asking(job'[v]) /\ ~ Signing(job'[v]) /\ Done(job[v])'
  PROVE  TrailInv'
<1>1. TrailBacked' /\ AllMade'
  BY SameAuditBacked DEF TrailInv
<1>2. (\A v \in Workers : Done(job[v]))'
  BY StillDone DEF TrailInv
<1>3. Due'
  BY DEF TrailInv, Due, Recorded
<1>. QED BY <1>1, <1>2, <1>3 DEF TrailInv

LEMMA NothingOwed ==
  ASSUME NEW j, j.step # "committed"
  PROVE  ~ Asking(j) /\ ~ Signing(j)
  BY DEF Asking, Signing

LEMMA RequestTrail ==
  ASSUME TypeInv, SignInv, TrailInv, Goes, NEW w \in Workers, CommitRequest(w)
  PROVE  TrailInv'
<1>. PICK r \in Requests :
       /\ request[r].status = "none"
       /\ request' = [request EXCEPT ![r] =
                       [status |-> "pendente", row |-> job[w].row,
                        signer |-> job[w].signer, requester |-> job[w].actor]]
       /\ job' = [job EXCEPT ![w].step = "committed", ![w].req = r]
  BY DEF CommitRequest
<1>1. /\ audit' = audit
      /\ \A v \in Workers \ {w} : job'[v] = job[v]
      /\ job'[w].op = "request" /\ job'[w].req = r /\ job'[w].actor = job[w].actor
  BY DEF CommitRequest, Holds, TypeInv, TypeOK, Jobs
<1>2. TrailBacked' /\ AllMade'
  BY <1>1, SameAuditBacked DEF TrailInv
<1>3. Done(job[w])'
  BY <1>1 DEF Done, Signing, TypeInv, TypeOK
<1>4. (\A v \in Workers : Done(job[v]))'
  BY <1>1, <1>3, StillDone DEF TrailInv
<1>5. ~ Recorded("requested", r)
  BY DEF TrailInv, AllMade, Recorded
<1>6. \A v \in Workers : Asking(job[v]) => job[v].req # r
  BY DEF TrailInv, Done
<1>7. ~ Signing(job'[w])
  BY <1>1 DEF Signing
<1>9. \A v \in Workers : Signing(job'[v]) => v # w /\ job'[v] = job[v]
  BY <1>1, <1>7
<1>10. \A v \in Workers : Asking(job'[v]) =>
          \/ v = w /\ job'[v].req = r
          \/ v # w /\ job'[v] = job[v] /\ Asking(job[v]) /\ job[v].req # r
  BY <1>1, <1>6
<1>11. Due'
  <2>. SUFFICES ASSUME NEW v \in Workers
       PROVE  /\ Asking(job'[v]) => ~ Recorded("requested", job[v].req)'
              /\ Signing(job'[v]) => ~ Recorded("signed", job[v].req)'
              /\ \A u \in Workers : u # v =>
                   /\ Asking(job'[u]) /\ Asking(job'[v]) => job'[u].req # job'[v].req
                   /\ Signing(job'[u]) /\ Signing(job'[v]) => job'[u].req # job'[v].req
    BY DEF Due
  <2>1. \A a : Recorded(a, job[v].req)' <=> Recorded(a, job'[v].req)
    BY <1>1 DEF Recorded
  <2>. QED BY <1>5, <1>9, <1>10, <2>1 DEF TrailInv, Due
<1>. QED BY <1>2, <1>4, <1>11 DEF TrailInv

LEMMA EndTrail ==
  ASSUME TypeInv, SignInv, TrailInv, Goes, NEW w \in Workers,
         CommitSign(w) \/ CommitDecline(w) \/ CommitCancel(w)
  PROVE  TrailInv'
<1>. DEFINE r == job[w].req
<1>1. /\ r \in Requests /\ job[w] \in Jobs /\ audit' = audit
      /\ job[w].op = "sign" => job[w].actor = request[r].signer
      /\ \A v \in Workers \ {w} : job'[v] = job[v]
  BY DEF TypeInv, TypeOK, JobShape, Acts, SignInv, Linked, CommitSign, CommitDecline,
         CommitCancel, Holds, Advance, Finish
<1>2. CASE job'[w] = Idle
  <2>1. ~ Asking(Idle) /\ ~ Signing(Idle)
    BY DEF Idle, Asking, Signing
  <2>2. Done(job[w])'
    BY <1>2 DEF Done, Idle, Asking, Signing
  <2>. QED BY <1>1, <1>2, <2>1, <2>2, QuietTrail
<1>3. CASE CommitDecline(w) \/ CommitCancel(w)
  <2>1. /\ job'[w].op \in {"decline", "cancel"} /\ job'[w].req = r
        /\ request'[r].status \in Ended
    BY <1>1, <1>3 DEF CommitDecline, CommitCancel, Holds, Advance, End, Ended, Jobs,
                      TypeInv, TypeOK, RequestRows
  <2>2. ~ Asking(job'[w]) /\ ~ Signing(job'[w]) /\ Done(job[w])'
    BY <2>1 DEF Asking, Signing, Done
  <2>. QED BY <1>1, <2>2, QuietTrail
<1>4. CASE CommitSign(w) /\ applied[r] = None
  <2>1. /\ job'[w].op = "sign" /\ job'[w].req = r /\ job'[w].actor = job[w].actor
        /\ applied'[r] = [row |-> request[r].row, signer |-> job[w].actor]
    BY <1>1, <1>4 DEF CommitSign, Holds, Advance, Jobs, TypeInv, TypeOK
  <2>2. applied'[r] # None
    <3>1. request[r].row \in Nat /\ job[w].actor \in Users
      BY <1>1, <1>4 DEF TypeInv, TypeOK, JobShape, Acts, RequestRows, CommitSign, Holds
    <3>. QED BY <2>1, <3>1, NoneAssumption
  <2>3. Done(job[w])'
    BY <2>1, <2>2 DEF Done, Asking
  <2>4. (\A v \in Workers : Done(job[v]))'
    BY <1>1, <2>3, StillDone DEF TrailInv
  <2>5. TrailBacked' /\ AllMade'
    BY <1>1, SameAuditBacked DEF TrailInv
  <2>6. ~ Recorded("signed", r)
    BY <1>4 DEF TrailInv, TrailBacked, Recorded
  <2>7. \A v \in Workers : Signing(job[v]) => job[v].req # r
    BY <1>4 DEF TrailInv, Done
  <2>8. ~ Asking(job'[w])
    BY <2>1 DEF Asking
  <2>9. Due'
    BY <1>1, <2>1, <2>6, <2>7, <2>8 DEF TrailInv, Due, Recorded
  <2>. QED BY <2>4, <2>5, <2>9 DEF TrailInv
<1>. QED BY <1>2, <1>3, <1>4 DEF CommitSign, Finish, TypeInv, TypeOK

LEMMA RecordTrail ==
  ASSUME TypeInv, SignInv, TrailInv, Goes, NEW w \in Workers,
         \/ Trail(w, "request", "requested", "recorded") \/ Trail(w, "sign", "signed", "none")
         \/ Trail(w, "decline", "declined", "recorded") \/ Trail(w, "cancel", "cancelled", "none")
  PROVE  TrailInv'
<1>. PICK op \in {"request", "sign", "decline", "cancel"},
          action \in {"requested", "signed", "declined", "cancelled"},
          next \in {"none", "recorded"} :
       /\ Trail(w, op, action, next)
       /\ op = "request" <=> action = "requested"
       /\ op = "sign" <=> action = "signed"
  OBVIOUS
<1>. DEFINE r == job[w].req
            x == Entry(action, r, job[w].actor)
<1>1. /\ job[w] \in Jobs /\ r \in Requests /\ job[w].actor \in Users
      /\ job[w].op = op /\ job[w].step = "committed"
  BY DEF TypeInv, TypeOK, JobShape, Asks, Acts, Trail, Holds
<1>2. x.action = action /\ x.req = r /\ x.by = job[w].actor
  BY <1>1, EntryTyped
<1>3. UNCHANGED <<request, applied>> /\ IsABag(audit) /\ audit' = BagAdd(audit, x)
  BY DEF Trail, TypeInv, TypeOK
<1>4. /\ \A v \in Workers \ {w} : job'[v] = job[v]
      /\ job'[w].step # "committed"
  BY <1>1 DEF Trail, Finish, Advance, Idle, TypeInv, TypeOK, Jobs
<1>. HIDE DEF x
<1>5. /\ DOMAIN audit' = DOMAIN audit \cup {x}
      /\ \A e \in DOMAIN audit : e # x => audit'[e] = audit[e]
      /\ x \notin DOMAIN audit => audit'[x] = 1
  <2>1. /\ DOMAIN BagAdd(audit, x) = DOMAIN audit \cup {x}
        /\ \A e \in DOMAIN audit : e # x => BagAdd(audit, x)[e] = audit[e]
        /\ x \notin DOMAIN audit => BagAdd(audit, x)[x] = 1
    BY <1>3 DEF IsABag, BagAdd
  <2>. QED BY <1>3, <2>1
<1>6. Done(job[w]) /\ (op \in {"request", "sign"} => ~ Recorded(action, r))
  BY <1>1 DEF TrailInv, Due, Asking, Signing
<1>7. action \in {"requested", "signed"} => audit'[x] = 1
  BY <1>2, <1>5, <1>6 DEF Recorded
<1>8. request[r].status # "none"
  <2>1. CASE op = "request"
    BY <1>1, <1>6, <2>1 DEF Done, Asking
  <2>2. CASE op # "request"
    BY <1>1, <2>2 DEF SignInv, Linked
  <2>. QED BY <2>1, <2>2
<1>9. /\ action = "signed" => applied[r] # None /\ x.by = applied[r].signer
      /\ action = "requested" => x.by = request[r].requester
  BY <1>1, <1>2, <1>6 DEF Done, Asking, Signing
<1>10. action # "requested" => request[r].status \in Ended
  <2>1. CASE op = "sign"
    BY <1>1, <1>9, <2>1 DEF SignInv, SignedHasSignature
  <2>2. CASE op \in {"decline", "cancel"}
    BY <1>1, <1>6, <2>2 DEF Done
  <2>. QED BY <2>1, <2>2
<1>11. TrailBacked'
  BY <1>2, <1>3, <1>5, <1>7, <1>9, <1>10 DEF TrailInv, TrailBacked
<1>12. AllMade'
  BY <1>2, <1>3, <1>5, <1>8 DEF TrailInv, AllMade
<1>13. Done(job[w])'
  BY <1>4 DEF Done, Asking, Signing
<1>14. (\A v \in Workers : Done(job[v]))'
  BY <1>4, <1>13, StillDone DEF TrailInv
<1>15. \A q, a : Recorded(a, q)' => Recorded(a, q) \/ (a = action /\ q = r)
  BY <1>2, <1>5 DEF Recorded
<1>16. ~ Asking(job'[w]) /\ ~ Signing(job'[w])
  BY <1>4 DEF Asking, Signing
<1>17. \A v \in Workers \ {w} :
         /\ Asking(job[v]) => ~ Recorded("requested", job[v].req)'
         /\ Signing(job[v]) => ~ Recorded("signed", job[v].req)'
  <2>. SUFFICES ASSUME NEW v \in Workers \ {w}
       PROVE /\ Asking(job[v]) => ~ Recorded("requested", job[v].req)'
             /\ Signing(job[v]) => ~ Recorded("signed", job[v].req)'
    OBVIOUS
  <2>1. /\ Asking(job[v]) => ~ Recorded("requested", job[v].req)
        /\ Signing(job[v]) => ~ Recorded("signed", job[v].req)
        /\ Asking(job[v]) /\ op = "request" => job[v].req # r
        /\ Signing(job[v]) /\ op = "sign" => job[v].req # r
    BY <1>1 DEF TrailInv, Due, Asking, Signing
  <2>2. job'[v] = job[v]
    BY <1>4
  <2>. QED BY <1>2, <1>5, <2>1, <2>2 DEF Recorded
<1>18. Due'
  BY <1>4, <1>16, <1>17 DEF TrailInv, Due, Recorded
<1>. QED BY <1>11, <1>12, <1>14, <1>18 DEF TrailInv

LEMMA SupersedeTrail ==
  ASSUME TypeInv, SignInv, TrailInv, Goes, NEW w \in Workers, CancelSelected(w)
  PROVE  TrailInv'
<1>. DEFINE S == {Entry("superseded", r, job[w].actor) : r \in job[w].pending}
<1>1. /\ job[w] \in Jobs /\ job[w].op = "upload" /\ job[w].actor \in Users
      /\ \A r \in job[w].pending : r \in Requests
  BY DEF TypeInv, TypeOK, JobShape, Acts, SignInv, Linked, CancelSelected, Holds
<1>2. \A e \in S : e.action = "superseded" /\ e.req \in job[w].pending
  BY <1>1, EntryTyped
<1>3. \A r \in job[w].pending : request'[r].status \in Ended
  BY <1>1 DEF CancelSelected, TypeInv, TypeOK, RequestRows, Ended
<1>4. /\ DOMAIN audit' = DOMAIN audit \cup S
      /\ \A e \in DOMAIN audit : e.action # "superseded" => audit'[e] = audit[e]
  BY CancelSelectedAudit
<1>5. /\ \A v \in Workers \ {w} : job'[v] = job[v]
      /\ job'[w].step = "recorded" /\ job'[w].op = "upload"
  BY <1>1 DEF CancelSelected, Advance, TypeInv, TypeOK, Jobs
<1>. HIDE DEF S
<1>6. \A e \in DOMAIN audit : e.req \in Requests
  BY DEF TypeInv, TypeOK, Entries
<1>7. AllMade'
  BY <1>2, <1>3, <1>4, <1>6, GoesFacts DEF TrailInv, AllMade, Ended
<1>8. ASSUME NEW e \in DOMAIN audit'
      PROVE  /\ e.action \in {"requested", "signed"} => audit'[e] = 1
             /\ e.action = "signed" => applied'[e.req] # None /\ e.by = applied'[e.req].signer
             /\ e.action # "requested" => request'[e.req].status \in Ended
             /\ e.action = "requested" => e.by = request'[e.req].requester
  <2>1. CASE e \in S
    BY <1>2, <1>3, <2>1
  <2>2. CASE e \in DOMAIN audit
    BY <1>4, <1>6, <2>2, GoesFacts DEF TrailInv, TrailBacked, AllMade
  <2>. QED BY <1>4, <1>8, <2>1, <2>2
<1>9. TrailBacked'
  BY <1>8 DEF TrailBacked
<1>10. Done(job[w])'
  BY <1>5 DEF Done, Asking, Signing
<1>11. (\A v \in Workers : Done(job[v]))'
  BY <1>5, <1>10, StillDone DEF TrailInv
<1>12. ~ Asking(job'[w]) /\ ~ Signing(job'[w])
  BY <1>5 DEF Asking, Signing
<1>13. Due'
  BY <1>2, <1>4, <1>5, <1>12 DEF TrailInv, Due, Recorded
<1>. QED BY <1>7, <1>9, <1>11, <1>13 DEF TrailInv

LEMMA InitTrail == Init => TrailInv
<1>. SUFFICES ASSUME Init PROVE TrailInv
  OBVIOUS
<1>1. DOMAIN audit = {}
  BY DEF Init, EmptyBag, SetToBag
<1>2. \A w \in Workers : Done(job[w]) /\ ~ Asking(job[w]) /\ ~ Signing(job[w])
  BY DEF Init, Idle, Done, Asking, Signing
<1>. QED BY <1>1, <1>2 DEF TrailInv, TrailBacked, AllMade, Due

LEMMA StepTrail == TypeInv /\ SignInv /\ TrailInv /\ [Next]_vars => TrailInv'
<1>. SUFFICES ASSUME TypeInv, SignInv, TrailInv, [Next]_vars PROVE TrailInv'
  OBVIOUS
<1>1. Goes
  BY StepGoes
<1>2. ASSUME audit' = audit, NEW w \in Workers,
             \A v \in Workers \ {w} : job'[v] = job[v],
             job'[w].step # "committed" \/ job'[w].op = "upload"
      PROVE  TrailInv'
  <2>1. ~ Asking(job'[w]) /\ ~ Signing(job'[w]) /\ Done(job[w])'
    BY <1>2 DEF Asking, Signing, Done
  <2>. QED BY <1>1, <1>2, <2>1, QuietTrail
<1>3. ASSUME NEW w \in Workers, Begin(w) PROVE TrailInv'
  <2>1. audit' = audit
    BY <1>3, BeginLinked DEF database
  <2>2. /\ \A v \in Workers \ {w} : job'[v] = job[v]
        /\ job'[w].step = "loaded"
    BY <1>3, BeginLoads
  <2>. QED BY <1>2, <2>1, <2>2
<1>4. ASSUME NEW w \in Workers, CheckPending(w) \/ SelectPending(w) PROVE TrailInv'
  <2>1. /\ audit' = audit /\ \A v \in Workers \ {w} : job'[v] = job[v]
        /\ job'[w].step # "committed"
    BY <1>4 DEF CheckPending, SelectPending, Advance, Finish, Idle, database, TypeInv,
                TypeOK, Jobs
  <2>. QED BY <1>2, <2>1
<1>5. ASSUME NEW w \in Workers, Notify(w) \/ Abort(w) PROVE TrailInv'
  <2>1. /\ audit' = audit /\ \A v \in Workers \ {w} : job'[v] = job[v]
        /\ job'[w].step # "committed"
    BY <1>5 DEF Notify, Abort, Idle, database, TypeInv, TypeOK
  <2>. QED BY <1>2, <2>1
<1>6. ASSUME NEW w \in Workers, CommitVersion(w) PROVE TrailInv'
  <2>1. /\ audit' = audit /\ \A v \in Workers \ {w} : job'[v] = job[v]
        /\ job'[w].op = "upload"
    BY <1>6 DEF CommitVersion, Holds, Advance, TypeInv, TypeOK, Jobs
  <2>. QED BY <1>2, <2>1
<1>7. CASE UNCHANGED vars \/ DeleteDocument
  BY <1>1, <1>7, QuietTrail DEF vars, DeleteDocument
<1>. QED BY <1>1, <1>3, <1>4, <1>5, <1>6, <1>7, RequestTrail, EndTrail, RecordTrail,
            SupersedeTrail
         DEF Next, Continue, TrailRequest, TrailSign, TrailDecline, TrailCancel

\* The inductive invariant of the trail: what is recorded, owed and done.
THEOREM TrailCorrect == Spec => []TrailInv
<1>1. Init => TypeInv /\ SignInv /\ TrailInv
  BY InitType, InitSign, InitTrail
<1>2. (TypeInv /\ SignInv /\ TrailInv) /\ [Next]_vars => (TypeInv /\ SignInv /\ TrailInv)'
  BY StepType, StepSign, StepTrail
<1>. QED BY <1>1, <1>2, PTL DEF Spec

\* Whatever interleaves and fails, the trail tells of nothing that did not
\* happen, and tells of no request or signature twice.
THEOREM TrailBackedHolds == Spec => []TrailBacked
<1>1. TrailInv => TrailBacked
  BY DEF TrailInv
<1>. QED BY <1>1, TrailCorrect, PTL

(***************************************************************************)
(* Mail.  A thread sends only once its records are in the trail, and the   *)
(* trail loses nothing.                                                    *)
(***************************************************************************)

Told(j) == j.step = "recorded" =>
  /\ j.op = "request" => Recorded("requested", j.req)
  /\ j.op = "decline" => Recorded("declined", j.req)
  /\ j.op = "upload" => \A r \in j.pending : Recorded("superseded", r)

FactOf(m) ==
  /\ m.kind = "request" => Recorded("requested", m.req)
  /\ m.kind = "declined" => Recorded("declined", m.req)
  /\ m.kind = "cancelled" => Recorded("superseded", m.req)

NoticeInv == (\A m \in mails : FactOf(m)) /\ \A w \in Workers : Told(job[w])

LEMMA RecordsStay ==
  ASSUME DOMAIN audit \subseteq DOMAIN audit', NEW a, NEW r, Recorded(a, r)
  PROVE  Recorded(a, r)'
  BY DEF Recorded

\* Records are only added, no mail is sent, and whoever is done told the trail.
LEMMA ToldStep ==
  ASSUME TypeInv, NoticeInv, DOMAIN audit \subseteq DOMAIN audit', mails' = mails,
         NEW w \in Workers, \A v \in Workers \ {w} : job'[v] = job[v], Told(job[w])'
  PROVE  NoticeInv'
<1>1. ASSUME NEW m \in mails PROVE FactOf(m)'
  BY RecordsStay DEF NoticeInv, FactOf
<1>2. ASSUME NEW v \in Workers \ {w} PROVE Told(job[v])'
  <2>1. Told(job[v]) /\ job'[v] = job[v]
    BY DEF NoticeInv
  <2>2. \A r : /\ Recorded("requested", r) => Recorded("requested", r)'
               /\ Recorded("declined", r) => Recorded("declined", r)'
               /\ Recorded("superseded", r) => Recorded("superseded", r)'
    BY DEF Recorded
  <2>. QED BY <2>1, <2>2 DEF Told, Recorded
<1>. QED BY <1>1, <1>2 DEF NoticeInv

LEMMA TrailNotice ==
  ASSUME TypeInv, NoticeInv, NEW w \in Workers,
         NEW op \in {"request", "sign", "decline", "cancel"},
         NEW action \in {"requested", "signed", "declined", "cancelled"},
         NEW next \in {"none", "recorded"}, Trail(w, op, action, next),
         op = "request" => action = "requested", op = "decline" => action = "declined"
  PROVE  NoticeInv'
<1>. DEFINE x == Entry(action, job[w].req, job[w].actor)
<1>1. job[w] \in Jobs /\ job[w].op = op /\ job[w].req \in Requests /\ job[w].actor \in Users
  BY DEF TypeInv, TypeOK, JobShape, Asks, Acts, Trail, Holds
<1>2. x.action = action /\ x.req = job[w].req
  BY <1>1, EntryTyped
<1>3. IsABag(audit) /\ audit' = BagAdd(audit, x)
  BY DEF Trail, TypeInv, TypeOK
<1>. HIDE DEF x
<1>4. DOMAIN audit' = DOMAIN audit \cup {x}
  BY <1>3 DEF IsABag, BagAdd
<1>5. \E e \in DOMAIN audit' : e.req = job[w].req /\ e.action = action
  BY <1>2, <1>4
<1>6. CASE next = "none"
  <2>1. job'[w].step # "recorded" /\ \A v \in Workers \ {w} : job'[v] = job[v]
    BY <1>6 DEF Trail, Finish, Idle, TypeInv, TypeOK
  <2>2. Told(job[w])'
    BY <2>1 DEF Told
  <2>3. mails' = mails
    BY <1>6 DEF Trail, Finish
  <2>. QED BY <1>4, <2>1, <2>2, <2>3, ToldStep
<1>7. CASE next = "recorded"
  <2>1. /\ job'[w].op = op /\ job'[w].req = job[w].req
        /\ \A v \in Workers \ {w} : job'[v] = job[v]
    BY <1>1, <1>7 DEF Trail, Advance, TypeInv, TypeOK, Jobs
  <2>2. Told(job[w])'
    BY <1>5, <2>1 DEF Told, Recorded
  <2>3. mails' = mails
    BY <1>7 DEF Trail, Advance
  <2>. QED BY <1>4, <2>1, <2>2, <2>3, ToldStep
<1>. QED BY <1>6, <1>7

LEMMA SupersedeNotice ==
  ASSUME TypeInv, SignInv, NoticeInv, NEW w \in Workers, CancelSelected(w)
  PROVE  NoticeInv'
<1>1. /\ job[w] \in Jobs /\ job[w].op = "upload" /\ job[w].actor \in Users
      /\ \A r \in job[w].pending : r \in Requests
  BY DEF TypeInv, TypeOK, JobShape, Acts, SignInv, Linked, CancelSelected, Holds
<1>2. /\ job'[w].op = "upload" /\ job'[w].pending = job[w].pending /\ mails' = mails
      /\ \A v \in Workers \ {w} : job'[v] = job[v]
  BY <1>1 DEF CancelSelected, Advance, TypeInv, TypeOK, Jobs
<1>3. /\ DOMAIN audit \subseteq DOMAIN audit'
      /\ \A r \in job[w].pending : Entry("superseded", r, job[w].actor) \in DOMAIN audit'
  BY CancelSelectedAudit
<1>4. ASSUME NEW r \in job[w].pending
      PROVE  \E e \in DOMAIN audit' : e.req = r /\ e.action = "superseded"
  BY <1>1, <1>3, EntryTyped
<1>5. Told(job[w])'
  BY <1>2, <1>4 DEF Told, Recorded
<1>. QED BY <1>2, <1>3, <1>5, ToldStep

LEMMA NotifyNotice ==
  ASSUME TypeInv, NoticeInv, NEW w \in Workers, Notify(w)
  PROVE  NoticeInv'
<1>1. PICK sent \in SUBSET Owed(w) : mails' = mails \cup sent
  BY DEF Notify
<1>2. \A m \in Owed(w) : FactOf(m)
  BY OwedTyped DEF Notify, NoticeInv, Told, FactOf
<1>3. audit' = audit /\ \A m : FactOf(m)' <=> FactOf(m)
  BY DEF Notify, database, FactOf, Recorded
<1>4. \A m \in mails' : FactOf(m)'
  BY <1>1, <1>2, <1>3 DEF NoticeInv
<1>5. ASSUME NEW v \in Workers PROVE Told(job[v])'
  <2>1. job'[v] = job[v] \/ job'[v].step # "recorded"
    BY DEF Notify, Idle, TypeInv, TypeOK
  <2>. QED BY <1>3, <2>1 DEF NoticeInv, Told, Recorded
<1>. QED BY <1>4, <1>5 DEF NoticeInv

LEMMA StepNotice == TypeInv /\ SignInv /\ NoticeInv /\ [Next]_vars => NoticeInv'
<1>. SUFFICES ASSUME TypeInv, SignInv, NoticeInv, [Next]_vars PROVE NoticeInv'
  OBVIOUS
<1>1. ASSUME audit' = audit, mails' = mails, NEW w \in Workers,
             \A v \in Workers \ {w} : job'[v] = job[v], job'[w].step # "recorded"
      PROVE  NoticeInv'
  <2>1. Told(job[w])'
    BY <1>1 DEF Told
  <2>. QED BY <1>1, <2>1, ToldStep
<1>2. ASSUME NEW w \in Workers, Begin(w) PROVE NoticeInv'
  <2>1. audit' = audit /\ mails' = mails
    BY <1>2 DEF Begin, BeginUpload, BeginRequest, BeginSign, BeginDecline, BeginCancel,
                Take, Accept, database
  <2>. QED BY <1>1, <1>2, <2>1, BeginLoads
<1>3. ASSUME NEW w \in Workers, CheckPending(w) \/ SelectPending(w) \/ CommitVersion(w)
      PROVE  NoticeInv'
  <2>1. /\ audit' = audit /\ mails' = mails /\ \A v \in Workers \ {w} : job'[v] = job[v]
        /\ job'[w].step # "recorded"
    BY <1>3 DEF CheckPending, SelectPending, CommitVersion, Advance, Finish, Idle, database,
                TypeInv, TypeOK, Jobs
  <2>. QED BY <1>1, <2>1
<1>4. ASSUME NEW w \in Workers, CommitRequest(w) PROVE NoticeInv'
  <2>1. /\ audit' = audit /\ mails' = mails /\ \A v \in Workers \ {w} : job'[v] = job[v]
        /\ job'[w].step # "recorded"
    BY <1>4 DEF CommitRequest, TypeInv, TypeOK, Jobs
  <2>. QED BY <1>1, <2>1
<1>5. ASSUME NEW w \in Workers, CommitSign(w) \/ CommitDecline(w) \/ CommitCancel(w)
      PROVE  NoticeInv'
  <2>1. /\ audit' = audit /\ mails' = mails /\ \A v \in Workers \ {w} : job'[v] = job[v]
        /\ job'[w].step # "recorded"
    BY <1>5 DEF CommitSign, CommitDecline, CommitCancel, Advance, Finish, Idle, TypeInv,
                TypeOK, Jobs
  <2>. QED BY <1>1, <2>1
<1>6. ASSUME NEW w \in Workers, Abort(w) PROVE NoticeInv'
  <2>1. /\ audit' = audit /\ mails' = mails /\ \A v \in Workers \ {w} : job'[v] = job[v]
        /\ job'[w].step # "recorded"
    BY <1>6 DEF Abort, Idle, database, TypeInv, TypeOK
  <2>. QED BY <1>1, <2>1
<1>7. CASE UNCHANGED vars \/ DeleteDocument
  BY <1>7 DEF vars, DeleteDocument, NoticeInv, FactOf, Told, Recorded
<1>8. ASSUME NEW w \in Workers,
             TrailRequest(w) \/ TrailSign(w) \/ TrailDecline(w) \/ TrailCancel(w)
      PROVE  NoticeInv'
  BY <1>8, TrailNotice DEF TrailRequest, TrailSign, TrailDecline, TrailCancel
<1>. QED BY <1>2, <1>3, <1>4, <1>5, <1>6, <1>7, <1>8, SupersedeNotice, NotifyNotice
         DEF Next, Continue

LEMMA InitNotice == Init => NoticeInv
<1>. SUFFICES ASSUME Init PROVE NoticeInv
  OBVIOUS
<1>1. mails = {} /\ \A w \in Workers : Told(job[w])
  BY DEF Init, Idle, Told
<1>. QED BY <1>1 DEF NoticeInv

LEMMA NoticeInvImplies == TypeInv /\ NoticeInv => NoticeAfterFact
<1>. SUFFICES ASSUME TypeInv, NoticeInv, NEW m \in mails
     PROVE  \E e \in DOMAIN audit :
              /\ e.req = m.req
              /\ CASE m.kind = "request"   -> e.action = "requested"
                   [] m.kind = "declined"  -> e.action = "declined"
                   [] m.kind = "cancelled" -> e.action = "superseded"
  BY DEF NoticeAfterFact
<1>1. m.kind \in {"request", "declined", "cancelled"} /\ FactOf(m)
  BY DEF TypeInv, TypeOK, Mails, NoticeInv
<1>2. CASE m.kind = "request"
  BY <1>1, <1>2 DEF FactOf, Recorded
<1>3. CASE m.kind = "declined"
  BY <1>1, <1>3 DEF FactOf, Recorded
<1>4. CASE m.kind = "cancelled"
  BY <1>1, <1>4 DEF FactOf, Recorded
<1>. QED BY <1>1, <1>2, <1>3, <1>4

\* No mail is sent before the trail holds the record of what it tells, wherever
\* the handler that sends it, or another one, fails.
THEOREM NoticeAfterFactHolds == Spec => []NoticeAfterFact
<1>1. Init => TypeInv /\ SignInv /\ NoticeInv
  BY InitType, InitSign, InitNotice
<1>2. (TypeInv /\ SignInv /\ NoticeInv) /\ [Next]_vars => (TypeInv /\ SignInv /\ NoticeInv)'
  BY StepType, StepSign, StepNotice
<1>. QED BY <1>1, <1>2, NoticeInvImplies, PTL DEF Spec
=============================================================================
