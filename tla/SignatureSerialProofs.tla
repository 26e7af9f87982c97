----------------------- MODULE SignatureSerialProofs -----------------------
(***************************************************************************)
(* Proofs about SignatureFlow: as long as no two calls in progress get in  *)
(* each other's way (Apart), with failures anywhere, the signature         *)
(* endpoints implement RequestLifecycle, for any requests, users, threads  *)
(* and bounds.                                                             *)
(***************************************************************************)
EXTENDS SignatureFlowProofs, FiniteSetTheorems

\* A request that was not made is empty.
Fresh == \A r \in Requests : request[r].status = "none" => request[r] = NoRequest

\* Each version was uploaded by a call of its own.
Uploading == {w \in Workers : Holds(w, "upload", "loaded")}
Counted == IsFiniteSet(Uploading) /\ Len(rows) + Cardinality(Uploading) <= calls

\* What the call of thread w loaded or found still holds until it commits.
UpToDate(w) ==
  /\ Ending(job[w]) => IsOpen(job[w].req)
  /\ Checked(job[w]) => PendingFor(job[w].row, job[w].signer) = {}
  /\ Selected(job[w]) => job[w].pending = Pending
AllUpToDate == \A w \in Workers : UpToDate(w)

Sound == TypeInv /\ SignInv
SerialInv == Sound /\ Fresh /\ Counted /\ AllUpToDate

\* A call past its first commit, or over, has nothing left to decide on.
Settled(j) == j.step \in {"none", "committed", "recorded"}

LEMMA SerialTypes ==
  ASSUME SerialInv
  PROVE  /\ job \in [Workers -> Jobs]
         /\ request \in [Requests -> RequestRows]
         /\ applied \in [Requests -> Signatures \cup {None}]
         /\ rows \in Seq([number: Nat, pdf: BOOLEAN]) /\ Len(rows) \in Nat
         /\ calls \in Nat /\ MaxCalls \in Nat /\ calls <= MaxCalls /\ Len(rows) <= calls
         /\ \A w \in Workers : /\ job[w] \in Jobs
                               /\ Asks(job[w]) /\ Acts(job[w]) /\ Linked(job[w])
<1>1. TypeOK /\ JobShape /\ SignInv /\ MaxCalls \in Nat
  BY BoundsAssumption DEF SerialInv, Sound, TypeInv
<1>2. calls \in Nat /\ calls <= MaxCalls /\ Len(rows) \in Nat
  BY <1>1 DEF TypeOK
<1>3. Cardinality(Uploading) \in Nat
  BY FS_CardinalityType DEF SerialInv, Counted
<1>4. Len(rows) <= calls
  BY <1>2, <1>3 DEF SerialInv, Counted
<1>. QED BY <1>1, <1>2, <1>4 DEF TypeOK, JobShape, SignInv

-----------------------------------------------------------------------------
(* One step, one thread: the other calls stay as they were.                *)

OthersStay(w) == \A v \in Workers \ {w} : job'[v] = job[v]

LEMMA OnlyMine ==
  ASSUME SerialInv, NEW w \in Workers, NEW j, NEW step,
         \/ job' = [job EXCEPT ![w] = j]
         \/ job' = [job EXCEPT ![w].step = step]
         \/ \E r : job' = [job EXCEPT ![w].step = step, ![w].req = r]
         \/ \E S : job' = [job EXCEPT ![w].step = step, ![w].pending = S]
  PROVE  OthersStay(w)
BY SerialTypes DEF OthersStay

\* The uploads in progress, when this one neither starts nor commits a version.
LEMMA CountStays ==
  ASSUME SerialInv, NEW w \in Workers, OthersStay(w), rows' = rows, calls' \in Nat,
         calls <= calls', ~Holds(w, "upload", "loaded")' \/ job'[w] = job[w]
  PROVE  Counted'
<1>1. Uploading' \subseteq Uploading
  BY DEF Uploading, Holds, OthersStay
<1>2. /\ IsFiniteSet(Uploading') /\ Cardinality(Uploading') <= Cardinality(Uploading)
      /\ Cardinality(Uploading) \in Nat /\ Cardinality(Uploading') \in Nat
  <2>1. IsFiniteSet(Uploading)
    BY DEF SerialInv, Counted
  <2>. HIDE DEF Uploading
  <2>2. IsFiniteSet(Uploading') /\ Cardinality(Uploading') <= Cardinality(Uploading)
    BY <1>1, <2>1, FS_Subset
  <2>. QED BY <2>1, <2>2, FS_CardinalityType
<1>3. Len(rows) + Cardinality(Uploading) <= calls /\ Len(rows) \in Nat /\ calls \in Nat
  BY SerialTypes DEF SerialInv, Counted
<1>4. Len(rows') + Cardinality(Uploading') <= calls'
  <2>. HIDE DEF Uploading
  <2>. QED BY <1>2, <1>3
<1>. QED BY <1>2, <1>4 DEF Counted

\* What thread v goes by is left alone.
Spared(v) ==
  /\ job'[v] = job[v]
  /\ Ending(job[v]) => request'[job[v].req].status = request[job[v].req].status
  /\ Checked(job[v]) =>
       PendingFor(job[v].row, job[v].signer)' \subseteq PendingFor(job[v].row, job[v].signer)
  /\ Selected(job[v]) => Pending' = Pending

LEMMA KeepSerial ==
  ASSUME SerialInv, Sound', Fresh', Counted', NEW w \in Workers, UpToDate(w)',
         \A v \in Workers \ {w} : Spared(v)
  PROVE  SerialInv'
<1>1. ASSUME NEW v \in Workers \ {w} PROVE UpToDate(v)'
  BY DEF Spared, SerialInv, AllUpToDate, UpToDate, Ending, Checked, Selected, IsOpen,
         PendingFor
<1>2. AllUpToDate'
  BY <1>1 DEF AllUpToDate
<1>. QED BY <1>2 DEF SerialInv

\* A step that leaves the requests alone.
LEMMA SameRequests ==
  ASSUME SerialInv, Sound', Counted', NEW w \in Workers, UpToDate(w)', OthersStay(w),
         request' = request
  PROVE  SerialInv'
<1>1. Fresh'
  BY DEF SerialInv, Fresh
<1>2. \A v \in Workers \ {w} : Spared(v)
  BY DEF Spared, OthersStay, PendingFor, Pending
<1>. QED BY <1>1, <1>2, KeepSerial

LEMMA SettledUpToDate ==
  ASSUME NEW w, Settled(job'[w])
  PROVE  UpToDate(w)' /\ ~Holds(w, "upload", "loaded")'
BY DEF Settled, UpToDate, Ending, Checked, Selected, Holds

LEMMA IdleStep == Idle.step = "none" /\ Idle.op = "idle"
  BY DEF Idle

LEMMA BeginSerial ==
  ASSUME NEW w \in Workers, SerialInv, Sound', Begin(w)
  PROVE  SerialInv' /\ UNCHANGED <<request, applied>>
<1>1. /\ UNCHANGED database /\ job[w] = Idle /\ calls' = calls + 1
  BY DEF Begin, BeginUpload, BeginRequest, BeginSign, BeginDecline, BeginCancel, Take,
         Accept, Count
<1>2. OthersStay(w)
  BY OnlyMine DEF Begin, BeginUpload, BeginRequest, BeginSign, BeginDecline, BeginCancel,
                  Take, Start
<1>3. ASSUME NEW u \in Users, NEW isPdf \in BOOLEAN, BeginUpload(w, u, isPdf)
      PROVE  job'[w].op = "upload" /\ job'[w].step = "loaded"
  BY <1>3, SerialTypes DEF BeginUpload, Start, Idle
<1>4. ASSUME NEW u \in Users, NEW s \in Signatories, BeginRequest(w, u, s)
      PROVE  job'[w].op = "request" /\ job'[w].step = "loaded"
  BY <1>4, SerialTypes DEF BeginRequest, Start, Idle
<1>5. ASSUME NEW u \in Users, NEW r \in Requests,
             BeginSign(w, u, r) \/ BeginDecline(w, u, r) \/ BeginCancel(w, u, r)
      PROVE  /\ job'[w].op \in {"sign", "decline", "cancel"}
             /\ IsOpen(job'[w].req)
  BY <1>5, SerialTypes DEF BeginSign, BeginDecline, BeginCancel, Take, Start, Idle
<1>6. \/ job'[w].op \in {"upload", "request"} /\ job'[w].step = "loaded"
      \/ job'[w].op \in {"sign", "decline", "cancel"} /\ IsOpen(job'[w].req)
  BY <1>3, <1>4, <1>5 DEF Begin
<1>7. UpToDate(w)'
  BY <1>1, <1>6 DEF UpToDate, Ending, Checked, Selected, IsOpen, database
<1>8. Counted'
  <2>1. /\ IsFiniteSet(Uploading) /\ Len(rows) + Cardinality(Uploading) <= calls
        /\ Len(rows) \in Nat /\ calls \in Nat /\ rows' = rows
    BY <1>1, SerialTypes DEF SerialInv, Counted, database
  <2>2. w \notin Uploading
    BY <1>1 DEF Uploading, Holds, Idle
  <2>3. Uploading' = Uploading \/ Uploading' = Uploading \cup {w}
    BY <1>2, <2>2 DEF Uploading, Holds, OthersStay
  <2>. HIDE DEF Uploading
  <2>4. /\ Cardinality(Uploading) \in Nat /\ IsFiniteSet(Uploading \cup {w})
        /\ Cardinality(Uploading \cup {w}) = Cardinality(Uploading) + 1
    BY <2>1, <2>2, FS_AddElement, FS_CardinalityType
  <2>5. IsFiniteSet(Uploading') /\ Len(rows') + Cardinality(Uploading') <= calls'
    <3>1. CASE Uploading' = Uploading
      BY <1>1, <2>1, <2>4, <3>1
    <3>2. CASE Uploading' = Uploading \cup {w}
      BY <1>1, <2>1, <2>4, <3>2
    <3>. QED BY <2>3, <3>1, <3>2
  <2>. QED BY <2>5 DEF Counted
<1>. QED BY <1>1, <1>2, <1>7, <1>8, SameRequests DEF database

\* The steps that touch neither the requests nor the signatures.
LEMMA CheckSerial ==
  ASSUME NEW w \in Workers, SerialInv, Sound', CheckPending(w)
  PROVE  SerialInv'
<1>1. UNCHANGED database /\ calls' = calls /\ OthersStay(w)
  BY OnlyMine DEF CheckPending, Advance, Finish
<1>2. CASE PendingFor(job[w].row, job[w].signer) = {} /\ Advance(w, "checked")
  <2>1. /\ job'[w].op = "request" /\ job'[w].step = "checked"
        /\ job'[w].row = job[w].row /\ job'[w].signer = job[w].signer
    BY <1>2, SerialTypes DEF CheckPending, Holds, Advance, Jobs
  <2>2. UpToDate(w)'
    BY <1>1, <1>2, <2>1
       DEF UpToDate, Ending, Checked, Selected, PendingFor, Pending, database
  <2>3. ~Holds(w, "upload", "loaded")'
    BY <2>1 DEF Holds
  <2>. QED BY <1>1, <2>2, <2>3, SerialTypes, CountStays, SameRequests DEF database
<1>3. CASE Finish(w)
  <2>1. Settled(job'[w])
    BY <1>3, SerialTypes, IdleStep DEF Finish, Settled
  <2>. QED BY <1>1, <2>1, SettledUpToDate, SerialTypes, CountStays, SameRequests DEF database
<1>. QED BY <1>2, <1>3 DEF CheckPending

LEMMA SelectSerial ==
  ASSUME NEW w \in Workers, SerialInv, Sound', SelectPending(w)
  PROVE  SerialInv'
<1>1. UNCHANGED database /\ calls' = calls /\ OthersStay(w)
  BY OnlyMine DEF SelectPending
<1>2. job'[w].op = "upload" /\ job'[w].step = "selected" /\ job'[w].pending = Pending
  BY SerialTypes DEF SelectPending, Holds, Jobs
<1>3. UpToDate(w)' /\ ~Holds(w, "upload", "loaded")'
  BY <1>1, <1>2 DEF UpToDate, Ending, Checked, Selected, Holds, Pending, database
<1>. QED BY <1>1, <1>3, SerialTypes, CountStays, SameRequests DEF database

LEMMA QuietSerial ==
  ASSUME NEW w \in Workers, SerialInv, Sound',
         \/ TrailRequest(w) \/ TrailSign(w) \/ TrailDecline(w) \/ TrailCancel(w)
         \/ Notify(w) \/ Abort(w)
  PROVE  SerialInv' /\ UNCHANGED <<request, applied>>
<1>1. /\ UNCHANGED <<rows, request, applied, calls>>
      /\ job' = [job EXCEPT ![w] = Idle] \/ job' = [job EXCEPT ![w].step = "recorded"]
  BY DEF TrailRequest, TrailSign, TrailDecline, TrailCancel, Trail, Notify, Abort,
         Finish, Advance, database
<1>2. Settled(job'[w]) /\ OthersStay(w)
  BY <1>1, SerialTypes, IdleStep, OnlyMine DEF Settled, Jobs
<1>. QED BY <1>1, <1>2, SettledUpToDate, SerialTypes, CountStays, SameRequests

\* A version is committed by the call that was counted for it.
LEMMA VersionSerial ==
  ASSUME NEW w \in Workers, SerialInv, Sound', CommitVersion(w)
  PROVE  SerialInv' /\ UNCHANGED <<request, applied>>
<1>1. /\ UNCHANGED <<request, applied, calls>> /\ Holds(w, "upload", "loaded")
      /\ rows' = Append(rows, [number |-> job[w].row, pdf |-> job[w].pdf])
      /\ job' = [job EXCEPT ![w].step = "committed"]
  BY DEF CommitVersion, Advance
<1>2. Len(rows') = Len(rows) + 1
  <2>1. [number |-> job[w].row, pdf |-> job[w].pdf] \in [number: Nat, pdf: BOOLEAN]
    BY SerialTypes DEF Jobs
  <2>. QED BY <1>1, <2>1, SerialTypes
<1>3. Settled(job'[w]) /\ OthersStay(w)
  BY <1>1, SerialTypes, OnlyMine DEF Settled, Jobs
<1>4. Counted'
  <2>1. /\ IsFiniteSet(Uploading) /\ Len(rows) + Cardinality(Uploading) <= calls
        /\ Len(rows) \in Nat /\ calls \in Nat
    BY SerialTypes DEF SerialInv, Counted
  <2>2. w \in Uploading /\ Uploading' = Uploading \ {w}
    BY <1>1, <1>3, SettledUpToDate DEF Uploading, Holds, OthersStay
  <2>. HIDE DEF Uploading
  <2>3. /\ IsFiniteSet(Uploading \ {w}) /\ Cardinality(Uploading) \in Nat
        /\ Cardinality(Uploading \ {w}) = Cardinality(Uploading) - 1
    BY <2>1, <2>2, FS_RemoveElement, FS_CardinalityType
  <2>4. IsFiniteSet(Uploading') /\ Len(rows') + Cardinality(Uploading') <= calls'
    BY <1>1, <1>2, <2>1, <2>2, <2>3
  <2>. QED BY <2>4 DEF Counted
<1>. QED BY <1>1, <1>3, <1>4, SettledUpToDate, SameRequests

-----------------------------------------------------------------------------
(* The commits that change a request are the steps of RequestLifecycle.    *)

LEMMA RequestSerial ==
  ASSUME NEW w \in Workers, SerialInv, Apart, Sound', CommitRequest(w)
  PROVE  SerialInv' /\ Lifecycle!Next
<1>1. PICK r \in Requests :
        /\ request[r].status = "none"
        /\ request' = [request EXCEPT ![r] =
                        [status |-> "pendente", row |-> job[w].row,
                         signer |-> job[w].signer, requester |-> job[w].actor]]
        /\ job' = [job EXCEPT ![w].step = "committed", ![w].req = r]
  BY DEF CommitRequest
<1>2. UNCHANGED <<rows, applied, calls>> /\ Checked(job[w])
  BY DEF CommitRequest, Holds, Checked
<1>3. /\ job[w].row \in 1 .. MaxCalls /\ job[w].signer \in Users /\ job[w].actor \in Users
      /\ PendingFor(job[w].row, job[w].signer) = {}
  <2>1. job[w].row \in DOMAIN rows /\ job[w].signer \in Users /\ job[w].actor \in Users
    BY <1>2, SerialTypes DEF Asks, Checked, Users
  <2>2. job[w].row \in 1 .. MaxCalls
    BY <2>1, SerialTypes
  <2>. QED BY <1>2, <2>1, <2>2 DEF SerialInv, AllUpToDate, UpToDate
<1>4. Settled(job'[w]) /\ OthersStay(w)
  BY <1>1, SerialTypes, OnlyMine DEF Settled, Jobs
<1>5. Fresh'
  BY <1>1, SerialTypes DEF SerialInv, Fresh
<1>6. ASSUME NEW v \in Workers \ {w} PROVE Spared(v)
  <2>1. UpToDate(v) /\ ~Conflict(job[v], job[w])
    BY DEF SerialInv, AllUpToDate, Apart
  <2>2. Ending(job[v]) => job[v].req \in Requests \ {r}
    BY <1>1, <2>1, SerialTypes DEF UpToDate, IsOpen, Acts, Ending
  <2>3. \A q \in Pending' : q \in Pending \/ q = r
    BY <1>1 DEF Pending
  <2>4. Checked(job[v]) => r \notin PendingFor(job[v].row, job[v].signer)'
    BY <1>1, <1>2, <2>1, SerialTypes DEF Conflict, PendingFor
  <2>5. \A q \in Requests \ {r} : request'[q] = request[q]
    BY <1>1
  <2>6. Checked(job[v]) =>
          PendingFor(job[v].row, job[v].signer)' \subseteq PendingFor(job[v].row, job[v].signer)
    BY <1>4, <2>3, <2>4, <2>5 DEF PendingFor, Pending, OthersStay
  <2>. QED BY <1>2, <1>4, <2>1, <2>2, <2>5, <2>6 DEF Spared, Conflict, OthersStay
<1>7. SerialInv'
  BY <1>2, <1>4, <1>5, <1>6, SettledUpToDate, SerialTypes, CountStays, KeepSerial
<1>8. request[r] = Lifecycle!Unasked
  BY <1>1 DEF SerialInv, Fresh, NoRequest, Lifecycle!Unasked
<1>9. \A o \in Lifecycle!Open :
        <<request[o].row, request[o].signer>> # <<job[w].row, job[w].signer>>
  BY <1>3 DEF Lifecycle!Open, PendingFor, Pending
<1>10. Lifecycle!Ask(r, job[w].row, job[w].signer, job[w].actor)
  BY <1>1, <1>2, <1>8, <1>9 DEF Lifecycle!Ask
<1>. QED BY <1>3, <1>7, <1>10 DEF Lifecycle!Next

\* The commit that ends a request writes over what is still pending, and no other
\* call is about to.
LEMMA EndSerial ==
  ASSUME NEW w \in Workers, SerialInv, Apart, Sound', NEW status \in Ended,
         Ending(job[w]), End(w, status), Advance(w, "committed"), rows' = rows
  PROVE  SerialInv' /\ job[w].req \in Lifecycle!Open
<1>. DEFINE r == job[w].req
<1>1. r \in Requests /\ request[r].status = "pendente"
  BY SerialTypes DEF Acts, SerialInv, AllUpToDate, UpToDate, IsOpen, Ending
<1>2. request' = [request EXCEPT ![r].status = status] /\ status \notin {"none", "pendente"}
  BY DEF End, Ended
<1>3. Fresh'
  BY <1>1, <1>2, SerialTypes DEF SerialInv, Fresh, RequestRows
<1>4. Settled(job'[w]) /\ calls' = calls /\ OthersStay(w)
  BY SerialTypes, OnlyMine DEF Advance, Settled, Jobs
<1>5. ASSUME NEW v \in Workers \ {w} PROVE Spared(v)
  <2>1. ~Conflict(job[v], job[w])
    BY DEF Apart
  <2>2. \A q \in Requests : /\ q # r => request'[q] = request[q]
                            /\ request'[q].row = request[q].row
                            /\ request'[q].signer = request[q].signer
    BY <1>1, <1>2, SerialTypes DEF RequestRows
  <2>3. Pending' \subseteq Pending
    BY <1>1, <2>2 DEF Pending
  <2>4. Ending(job[v]) => job[v].req \in Requests \ {r}
    BY <2>1, SerialTypes DEF Conflict, Acts, Ending
  <2>5. PendingFor(job[v].row, job[v].signer)' \subseteq PendingFor(job[v].row, job[v].signer)
    BY <1>4, <2>2, <2>3 DEF PendingFor, Pending, OthersStay
  <2>. QED BY <1>4, <2>1, <2>2, <2>4, <2>5 DEF Spared, Conflict, OthersStay
<1>6. SerialInv'
  BY <1>3, <1>4, <1>5, SettledUpToDate, SerialTypes, CountStays, KeepSerial
<1>. QED BY <1>1, <1>6 DEF Lifecycle!Open

LEMMA SignSerial ==
  ASSUME NEW w \in Workers, SerialInv, Apart, Sound', CommitSign(w)
  PROVE  SerialInv' /\ (Lifecycle!Next \/ UNCHANGED <<request, applied>>)
<1>. DEFINE r == job[w].req
<1>1. Ending(job[w]) /\ job[w].op = "sign" /\ rows' = rows
  BY DEF CommitSign, Holds, Ending
<1>2. CASE applied[r] # None
  <2>1. UNCHANGED <<request, applied, calls>> /\ job' = [job EXCEPT ![w] = Idle]
    BY <1>2 DEF CommitSign, Finish
  <2>2. Settled(job'[w]) /\ OthersStay(w)
    BY <2>1, SerialTypes, IdleStep, OnlyMine DEF Settled
  <2>. QED BY <1>1, <2>1, <2>2, SettledUpToDate, SerialTypes, CountStays, SameRequests
<1>3. CASE applied[r] = None
  <2>1. /\ applied' = [applied EXCEPT ![r] = [row |-> request[r].row, signer |-> job[w].actor]]
        /\ End(w, "assinada") /\ Advance(w, "committed")
    BY <1>3 DEF CommitSign
  <2>2. SerialInv' /\ r \in Lifecycle!Open
    BY <1>1, <2>1, EndSerial DEF Ended
  <2>3. job[w].actor = request[r].signer
    BY <1>1, SerialTypes DEF Linked
  <2>4. Lifecycle!Sign(r)
    BY <2>1, <2>2, <2>3 DEF Lifecycle!Sign, End
  <2>. QED BY <2>2, <2>4 DEF Lifecycle!Next, Lifecycle!Open
<1>. QED BY <1>2, <1>3

LEMMA DeclineSerial ==
  ASSUME NEW w \in Workers, SerialInv, Apart, Sound', CommitDecline(w)
  PROVE  SerialInv' /\ Lifecycle!Next
<1>. DEFINE r == job[w].req
<1>1. /\ Ending(job[w]) /\ UNCHANGED <<rows, applied>>
      /\ End(w, "recusada") /\ Advance(w, "committed")
  BY DEF CommitDecline, Holds, Ending
<1>2. SerialInv' /\ r \in Lifecycle!Open
  BY <1>1, EndSerial DEF Ended
<1>3. Lifecycle!Decline(r)
  BY <1>1, <1>2 DEF Lifecycle!Decline, End
<1>. QED BY <1>2, <1>3 DEF Lifecycle!Next, Lifecycle!Open

LEMMA CancelSerial ==
  ASSUME NEW w \in Workers, SerialInv, Apart, Sound', CommitCancel(w)
  PROVE  SerialInv' /\ Lifecycle!Next
<1>. DEFINE r == job[w].req
<1>1. /\ Ending(job[w]) /\ UNCHANGED <<rows, applied>>
      /\ End(w, "cancelada") /\ Advance(w, "committed")
  BY DEF CommitCancel, Holds, Ending
<1>2. SerialInv' /\ r \in Lifecycle!Open
  BY <1>1, EndSerial DEF Ended
<1>3. request' = [q \in Requests |-> IF q \in {r} THEN [request[q] EXCEPT !.status = "cancelada"]
                                                  ELSE request[q]]
  BY <1>1, <1>2, SerialTypes DEF End
<1>4. Lifecycle!Cancel({r})
  BY <1>1, <1>2, <1>3 DEF Lifecycle!Cancel
<1>. QED BY <1>2, <1>4 DEF Lifecycle!Next, Lifecycle!Open

LEMMA SupersedeSerial ==
  ASSUME NEW w \in Workers, SerialInv, Apart, Sound', CancelSelected(w)
  PROVE  SerialInv' /\ Lifecycle!Next
<1>1. /\ UNCHANGED <<rows, applied, calls>>
      /\ request' = [r \in Requests |-> IF r \in job[w].pending
                                        THEN [request[r] EXCEPT !.status = "cancelada"]
                                        ELSE request[r]]
      /\ job' = [job EXCEPT ![w].step = "recorded"]
      /\ Selected(job[w])
  BY DEF CancelSelected, Advance, Holds, Selected
<1>2. job[w].pending = Lifecycle!Open
  BY <1>1 DEF SerialInv, AllUpToDate, UpToDate, Pending, Lifecycle!Open
<1>3. Fresh'
  BY <1>1, SerialTypes DEF SerialInv, Fresh, RequestRows
<1>4. Settled(job'[w]) /\ OthersStay(w)
  BY <1>1, SerialTypes, OnlyMine DEF Settled, Jobs
<1>5. \A v \in Workers \ {w} : Spared(v)
  BY <1>1, <1>4 DEF Spared, OthersStay, Apart, Conflict
<1>6. SerialInv'
  BY <1>1, <1>3, <1>4, <1>5, SettledUpToDate, SerialTypes, CountStays, KeepSerial
<1>7. Lifecycle!Cancel(Lifecycle!Open)
  BY <1>1, <1>2 DEF Lifecycle!Cancel
<1>. QED BY <1>6, <1>7 DEF Lifecycle!Next

-----------------------------------------------------------------------------
LEMMA InitSerial == Init => SerialInv
<1>. SUFFICES ASSUME Init PROVE SerialInv
  OBVIOUS
<1>1. /\ Len(rows) = 0 /\ calls = 0 /\ \A w \in Workers : job[w] = Idle
      /\ \A r \in Requests : request[r] = NoRequest
  BY DEF Init
<1>2. Uploading = {}
  BY <1>1, IdleStep DEF Uploading, Holds
<1>3. Counted
  BY <1>1, <1>2, FS_EmptySet DEF Counted
<1>4. AllUpToDate
  BY <1>1, IdleStep DEF AllUpToDate, UpToDate, Ending, Checked, Selected
<1>. QED BY <1>1, <1>3, <1>4, InitType, InitSign DEF SerialInv, Sound, Fresh

\* Every step keeps the invariant and is a step of the lifecycle, or one that
\* the lifecycle does not see.
LEMMA StepSerial ==
  ASSUME SerialInv, Apart, [Next]_vars
  PROVE  SerialInv' /\ [Lifecycle!Next]_<<request, applied>>
<1>1. Sound'
  BY StepType, StepSign DEF SerialInv, Sound
<1>2. ASSUME UNCHANGED <<rows, request, applied, job>>, calls' \in Nat, calls <= calls'
      PROVE  SerialInv'
  <2>1. Uploading' = Uploading
    BY <1>2 DEF Uploading, Holds
  <2>2. Counted'
    <3>1. /\ IsFiniteSet(Uploading) /\ Len(rows) + Cardinality(Uploading) <= calls
          /\ Len(rows) \in Nat /\ calls \in Nat
      BY SerialTypes DEF SerialInv, Counted
    <3>. HIDE DEF Uploading
    <3>2. Cardinality(Uploading) \in Nat
      BY <3>1, FS_CardinalityType
    <3>3. IsFiniteSet(Uploading') /\ Len(rows') + Cardinality(Uploading') <= calls'
      BY <1>2, <2>1, <3>1, <3>2
    <3>. QED BY <3>3 DEF Counted
  <2>3. Fresh' /\ AllUpToDate'
    BY <1>2 DEF SerialInv, Fresh, AllUpToDate, UpToDate, Ending, Checked, Selected, IsOpen,
                PendingFor, Pending
  <2>. QED BY <1>1, <2>2, <2>3 DEF SerialInv
<1>3. CASE UNCHANGED vars
  BY <1>2, <1>3, SerialTypes DEF vars
<1>4. CASE DeleteDocument
  BY <1>2, <1>4, SerialTypes DEF DeleteDocument, Count
<1>5. ASSUME NEW w \in Workers, Begin(w) \/ Continue(w) \/ Abort(w)
      PROVE  SerialInv' /\ [Lifecycle!Next]_<<request, applied>>
  <2>1. CASE Begin(w)
    BY <1>1, <2>1, BeginSerial
  <2>2. CASE CheckPending(w)
    BY <1>1, <2>2, CheckSerial DEF CheckPending, database
  <2>3. CASE SelectPending(w)
    BY <1>1, <2>3, SelectSerial DEF SelectPending, database
  <2>4. CASE \/ TrailRequest(w) \/ TrailSign(w) \/ TrailDecline(w) \/ TrailCancel(w)
             \/ Notify(w) \/ Abort(w)
    BY <1>1, <2>4, QuietSerial
  <2>5. CASE CommitVersion(w)
    BY <1>1, <2>5, VersionSerial
  <2>6. CASE CommitRequest(w)
    BY <1>1, <2>6, RequestSerial
  <2>7. CASE CommitSign(w)
    BY <1>1, <2>7, SignSerial
  <2>8. CASE CommitDecline(w)
    BY <1>1, <2>8, DeclineSerial
  <2>9. CASE CommitCancel(w)
    BY <1>1, <2>9, CancelSerial
  <2>10. CASE CancelSelected(w)
    BY <1>1, <2>10, SupersedeSerial
  <2>. QED BY <1>5, <2>1, <2>2, <2>3, <2>4, <2>5, <2>6, <2>7, <2>8, <2>9, <2>10 DEF Continue
<1>. QED BY <1>3, <1>4, <1>5 DEF Next, DeleteDocument

\* While no two calls in progress get in each other's way, with failures anywhere,
\* a signature request lives as promised: one open request per person and version,
\* one end, and a signature exactly when it is signed, by the person and on the
\* version it names.
THEOREM ImplementsRequestLifecycleHolds == Spec /\ []Apart => ImplementsRequestLifecycle
<1>1. Init => Lifecycle!Init
  BY DEF Init, NoRequest, Lifecycle!Init, Lifecycle!Unasked
<1>2. SerialInv /\ Apart /\ [Next]_vars => SerialInv' /\ [Lifecycle!Next]_<<request, applied>>
  BY StepSerial
<1>. QED BY <1>1, InitSerial, <1>2, PTL
         DEF Spec, ImplementsRequestLifecycle, Lifecycle!Spec

-----------------------------------------------------------------------------
(* The trail.  Each commit of a request owes one record, and the call that *)
(* made it writes that record before it goes on: the only requests whose   *)
(* records are behind their status are those in debt, each to one call.    *)

Owes(w, op, r) == Holds(w, op, "committed") /\ job[w].req = r
Behind(op, r) == \E w \in Workers : Owes(w, op, r)
Owing == {"request", "sign", "decline", "cancel"}
InDebt(j) == j.op \in Owing /\ j.step = "committed"

\* What the commit of a call left the request as, until the record is written;
\* a request just made may go on to be signed before its record is.
Outcome(w) ==
  LET status == request[job[w].req].status IN
  /\ Holds(w, "request", "committed") => status # "none"
  /\ Holds(w, "sign", "committed") => status = "assinada"
  /\ Holds(w, "decline", "committed") => status = "recusada"
  /\ Holds(w, "cancel", "committed") => status = "cancelada"

\* No two calls owe the same record.
OneDebt ==
  \A v, w \in Workers : \A op \in Owing : \A r \in Requests :
    Owes(v, op, r) /\ Owes(w, op, r) => v = w

Kept(r) ==
  LET status == request[r].status IN
  /\ Written(r, {"requested"}, status # "none" /\ ~Behind("request", r))
  /\ Written(r, {"signed"}, status = "assinada" /\ ~Behind("sign", r))
  /\ Written(r, {"declined"}, status = "recusada" /\ ~Behind("decline", r))
  /\ Written(r, {"cancelled", "superseded"}, status = "cancelada" /\ ~Behind("cancel", r))

Exact == (\A w \in Workers : Outcome(w)) /\ OneDebt /\ \A r \in Requests : Kept(r)

RecordsInv == SerialInv /\ (crashes = 0 => Exact)

\* The records of a request and these actions, and how often each is written,
\* are as they were.
SameRecords(r, actions) ==
  /\ Records(r, actions)' = Records(r, actions)
  /\ \A e \in Records(r, actions) : audit'[e] = audit[e]

Unwritten(r, actions) == Records(r, actions) = {}
WrittenOnce(r, actions) ==
  \E e \in Records(r, actions) : Records(r, actions) = {e} /\ audit[e] = 1

LEMMA SameRecordsStay ==
  ASSUME NEW r, NEW actions, SameRecords(r, actions)
  PROVE  /\ Unwritten(r, actions)' <=> Unwritten(r, actions)
         /\ WrittenOnce(r, actions)' <=> WrittenOnce(r, actions)
BY DEF SameRecords, Unwritten, WrittenOnce

\* One record more, and what that changes for each request.
LEMMA OneRecordMore ==
  ASSUME IsABag(audit), NEW x, audit' = BagAdd(audit, x), NEW r, NEW actions
  PROVE  /\ x.req # r \/ x.action \notin actions => SameRecords(r, actions)
         /\ x.req = r /\ x.action \in actions /\ Unwritten(r, actions) => WrittenOnce(r, actions)'
<1>1. /\ DOMAIN audit' = DOMAIN audit \cup {x}
      /\ \A e \in DOMAIN audit : e # x => audit'[e] = audit[e]
      /\ x \notin DOMAIN audit => audit'[x] = 1
  BY BagAddFacts
<1>2. ASSUME x.req # r \/ x.action \notin actions PROVE SameRecords(r, actions)
  BY <1>1, <1>2 DEF SameRecords, Records
<1>3. ASSUME x.req = r, x.action \in actions, Unwritten(r, actions) PROVE WrittenOnce(r, actions)'
  <2>1. x \notin DOMAIN audit
    BY <1>3 DEF Unwritten, Records
  <2>2. Records(r, actions)' = {x} /\ audit'[x] = 1
    BY <1>1, <1>3, <2>1 DEF Unwritten, Records
  <2>. QED BY <2>2 DEF WrittenOnce
<1>. QED BY <1>2, <1>3

KeptFacts(r) ==
  LET status == request[r].status
      Kind(actions, once) == /\ once => WrittenOnce(r, actions)
                             /\ ~once => Unwritten(r, actions)
  IN  /\ Kind({"requested"}, status # "none" /\ ~Behind("request", r))
      /\ Kind({"signed"}, status = "assinada" /\ ~Behind("sign", r))
      /\ Kind({"declined"}, status = "recusada" /\ ~Behind("decline", r))
      /\ Kind({"cancelled", "superseded"}, status = "cancelada" /\ ~Behind("cancel", r))

LEMMA KeptReads == ASSUME NEW r PROVE Kept(r) <=> KeptFacts(r)
  BY DEF Kept, KeptFacts, Written, WrittenOnce, Unwritten

LEMMA KeptReadsNext == ASSUME NEW r PROVE Kept(r)' <=> KeptFacts(r)'
  BY DEF Kept, KeptFacts, Written, WrittenOnce, Unwritten

\* The commits change the status of what is not made or open, so what another
\* call did to a request stands.
LEMMA OutcomeStays ==
  ASSUME NEW v \in Workers, Outcome(v), job'[v] = job[v],
         \/ request'[job[v].req].status = request[job[v].req].status
         \/ request[job[v].req].status = "none"
         \/ /\ request[job[v].req].status = "pendente"
            /\ request'[job[v].req].status # "none"
  PROVE  Outcome(v)'
BY DEF Outcome, Holds

\* The steps that commit nothing about a request and write no record.
LEMMA QuietRecords ==
  ASSUME RecordsInv, SerialInv', UNCHANGED <<request, audit, crashes>>, NEW w \in Workers,
         OthersStay(w), job'[w] = job[w] \/ (~InDebt(job[w]) /\ ~InDebt(job'[w]))
  PROVE  RecordsInv'
<1>. SUFFICES ASSUME crashes = 0, Exact PROVE Exact'
  BY DEF RecordsInv
<1>1. ASSUME NEW v \in Workers
      PROVE  job'[v] = job[v] \/ (~InDebt(job[v]) /\ ~InDebt(job'[v]))
  BY DEF OthersStay
<1>2. ASSUME NEW v \in Workers PROVE Outcome(v)'
  BY <1>1 DEF Exact, Outcome, Holds, InDebt, Owing
<1>3. ASSUME NEW v \in Workers, NEW op \in Owing, NEW r PROVE Owes(v, op, r)' <=> Owes(v, op, r)
  BY <1>1 DEF Owes, Holds, InDebt
<1>4. OneDebt'
  BY <1>3 DEF Exact, OneDebt
<1>5. ASSUME NEW r \in Requests PROVE Kept(r)'
  <2>1. ASSUME NEW op \in Owing PROVE Behind(op, r)' <=> Behind(op, r)
    BY <1>3 DEF Behind
  <2>2. \A actions : Records(r, actions)' = Records(r, actions)
    BY DEF Records
  <2>. QED BY <2>1, <2>2 DEF Exact, Kept, Written, Owing
<1>. QED BY <1>2, <1>4, <1>5 DEF Exact

\* How each commit changes the status of the request it is about.
Turns == {<<"request", "none", "pendente">>, <<"sign", "pendente", "assinada">>,
          <<"decline", "pendente", "recusada">>, <<"cancel", "pendente", "cancelada">>}

LEMMA CommitRecords ==
  ASSUME RecordsInv, SerialInv', UNCHANGED <<audit, crashes>>, NEW w \in Workers,
         OthersStay(w), ~InDebt(job[w]), NEW r \in Requests,
         <<job'[w].op, request[r].status, request'[r].status>> \in Turns,
         job'[w].step = "committed", job'[w].req = r,
         \A q \in Requests \ {r} : request'[q].status = request[q].status
  PROVE  RecordsInv'
<1>. SUFFICES ASSUME crashes = 0, Exact PROVE Exact'
  BY DEF RecordsInv
<1>. DEFINE did == job'[w].op
<1>1. did \in Owing /\ request[r].status \in {"none", "pendente"} /\ request'[r].status # "none"
  BY DEF Turns, Owing
<1>2. ASSUME NEW v \in Workers \ {w}, NEW op \in Owing, NEW q
      PROVE  Owes(v, op, q)' <=> Owes(v, op, q)
  BY DEF Owes, Holds, OthersStay
<1>3. ASSUME NEW op \in Owing, NEW q
      PROVE  ~Owes(w, op, q) /\ (Owes(w, op, q)' <=> op = did /\ q = r)
  BY <1>1 DEF Owes, Holds, InDebt
\* Nobody else did to this request what this commit does.
<1>4. ~Behind(did, r)
  <2>1. ASSUME NEW v \in Workers PROVE ~Owes(v, did, r)
    BY <1>1 DEF Exact, Outcome, Owes, Holds, Turns
  <2>. QED BY <2>1 DEF Behind
<1>5. ASSUME NEW v \in Workers PROVE Outcome(v)'
  <2>1. CASE v = w
    BY <2>1 DEF Outcome, Holds, Turns
  <2>2. CASE v # w
    <3>1. job'[v] = job[v]
      BY <2>2 DEF OthersStay
    <3>2. CASE job[v].req \in Requests
      <4>1. Outcome(v)
        BY DEF Exact
      <4>2. CASE job[v].req = r
        BY <1>1, <3>1, <4>1, <4>2, OutcomeStays
      <4>3. CASE job[v].req # r
        <5>1. request'[job[v].req].status = request[job[v].req].status
          BY <3>2, <4>3
        <5>. QED BY <3>1, <4>1, <5>1 DEF Outcome, Holds
      <4>. QED BY <4>2, <4>3
    <3>3. CASE job[v].req \notin Requests
      <4>1. ~InDebt(job[v])
        BY <3>3, SerialTypes DEF InDebt, Owing, Asks, Acts, RecordsInv
      <4>. QED BY <3>1, <4>1 DEF Outcome, Holds, InDebt, Owing
    <3>. QED BY <3>2, <3>3
  <2>. QED BY <2>1, <2>2
<1>6. OneDebt'
  <2>1. ASSUME NEW u \in Workers, NEW v \in Workers, NEW op \in Owing, NEW q \in Requests,
               Owes(u, op, q)', Owes(v, op, q)'
        PROVE  u = v
    <3>1. CASE u # w /\ v # w
      BY <1>2, <2>1, <3>1 DEF Exact, OneDebt
    <3>2. ASSUME NEW x \in Workers \ {w}, Owes(x, op, q)', Owes(w, op, q)' PROVE FALSE
      BY <1>2, <1>3, <1>4, <3>2 DEF Behind
    <3>. QED BY <2>1, <3>1, <3>2
  <2>. QED BY <2>1 DEF OneDebt
<1>7. ASSUME NEW q \in Requests PROVE Kept(q)'
  <2>1. ASSUME NEW op \in Owing
        PROVE  Behind(op, q)' <=> Behind(op, q) \/ (op = did /\ q = r)
    BY <1>2, <1>3 DEF Behind
  <2>2. \A actions : Records(q, actions)' = Records(q, actions)
    BY DEF Records
  <2>3. Kept(q)
    BY DEF Exact
  <2>4. CASE q = r
    BY <1>4, <2>1, <2>2, <2>3, <2>4 DEF Kept, Written, Turns, Owing
  <2>5. CASE q # r
    BY <2>1, <2>2, <2>3, <2>5 DEF Kept, Written, Owing
  <2>. QED BY <2>4, <2>5
<1>. QED BY <1>5, <1>6, <1>7 DEF Exact

\* The record of the last commit is written: of this kind, the request's records
\* are complete.
LEMMA TrailRecords ==
  ASSUME RecordsInv, SerialInv', NEW w \in Workers, NEW op \in Owing, NEW action,
         <<op, action>> \in {<<"request", "requested">>, <<"sign", "signed">>,
                            <<"decline", "declined">>, <<"cancel", "cancelled">>},
         NEW next \in {"none", "recorded"}, Trail(w, op, action, next)
  PROVE  RecordsInv'
<1>. DEFINE r == job[w].req
            x == Entry(action, r, job[w].actor)
<1>1. /\ Holds(w, op, "committed") /\ audit' = BagAdd(audit, x)
      /\ request' = request /\ crashes' = crashes
      /\ job' = [job EXCEPT ![w] = Idle] \/ job' = [job EXCEPT ![w].step = next]
      /\ next = "none" => job' = [job EXCEPT ![w] = Idle]
  BY DEF Trail, Finish, Advance
<1>2. x.req = r /\ x.action = action
  BY DEF Entry
<1>. HIDE DEF x
<1>3. SerialInv /\ IsABag(audit)
  BY DEF RecordsInv, SerialInv, Sound, TypeInv, TypeOK
<1>4. job'[w].step # "committed" /\ OthersStay(w) /\ r \in Requests
  <2>1. r \in Requests
    BY <1>1, <1>3, SerialTypes DEF Asks, Acts, Holds, Owing
  <2>. QED BY <1>1, <1>3, <2>1, SerialTypes, IdleStep, OnlyMine DEF Jobs
<1>. SUFFICES ASSUME crashes = 0, Exact PROVE Exact'
  BY <1>1 DEF RecordsInv
<1>5. ASSUME NEW v \in Workers PROVE Outcome(v)'
  <2>1. CASE v = w
    BY <1>4, <2>1 DEF Outcome, Holds
  <2>2. CASE v # w
    BY <1>1, <1>4, <2>2 DEF Exact, Outcome, Holds, OthersStay
  <2>. QED BY <2>1, <2>2
<1>6. ASSUME NEW v \in Workers, NEW o \in Owing, NEW q
      PROVE  Owes(v, o, q)' <=> Owes(v, o, q) /\ v # w
  BY <1>4 DEF Owes, Holds, OthersStay
<1>7. OneDebt'
  BY <1>6 DEF Exact, OneDebt
<1>8. ASSUME NEW o \in Owing, NEW q \in Requests
      PROVE  /\ Behind(o, q)' <=> Behind(o, q) /\ ~(o = op /\ q = r)
             /\ o = op /\ q = r => Behind(o, q)
  <2>1. Owes(w, o, q) <=> o = op /\ q = r
    BY <1>1 DEF Owes, Holds
  <2>2. \A v \in Workers : Owes(v, o, q) /\ Owes(w, o, q) => v = w
    BY DEF Exact, OneDebt
  <2>. QED BY <1>6, <2>1, <2>2 DEF Behind
<1>9. ASSUME NEW q \in Requests PROVE Kept(q)'
  <2>1. KeptFacts(q) /\ Outcome(w)
    BY KeptReads DEF Exact
  <2>2. q = r =>
          /\ op = "request" => request[q].status # "none"
          /\ op = "sign" => request[q].status = "assinada"
          /\ op = "decline" => request[q].status = "recusada"
          /\ op = "cancel" => request[q].status = "cancelada"
    BY <1>1, <2>1 DEF Outcome, Holds
  <2>3. KeptFacts(q)'
    <3>. DEFINE Kind(actions, before, after) ==
                  ((before => WrittenOnce(q, actions)) /\ (~before => Unwritten(q, actions)))
                  => ((after => WrittenOnce(q, actions)') /\ (~after => Unwritten(q, actions)'))
    <3>1. ASSUME NEW o \in Owing, NEW actions,
                 NEW done \in BOOLEAN, action \in actions <=> o = op, q = r /\ o = op => done
          PROVE  Kind(actions, done /\ ~Behind(o, q), done /\ ~Behind(o, q)')
      <4>1. CASE q = r /\ o = op
        <5>1. Unwritten(q, actions) => WrittenOnce(q, actions)'
          BY <1>1, <1>2, <1>3, <3>1, <4>1, OneRecordMore
        <5>2. Behind(o, q) /\ ~Behind(o, q)'
          BY <1>8, <4>1
        <5>. QED BY <3>1, <4>1, <5>1, <5>2
      <4>2. CASE q # r \/ o # op
        <5>1. SameRecords(q, actions)
          BY <1>1, <1>2, <1>3, <3>1, <4>2, OneRecordMore
        <5>2. /\ Unwritten(q, actions)' <=> Unwritten(q, actions)
              /\ WrittenOnce(q, actions)' <=> WrittenOnce(q, actions)
          BY <5>1, SameRecordsStay
        <5>3. Behind(o, q)' <=> Behind(o, q)
          BY <1>8, <4>2
        <5>. QED BY <5>2, <5>3
      <4>. QED BY <4>1, <4>2
    <3>2. /\ action \in {"requested"} <=> "request" = op
          /\ action \in {"signed"} <=> "sign" = op
          /\ action \in {"declined"} <=> "decline" = op
          /\ action \in {"cancelled", "superseded"} <=> "cancel" = op
          /\ "request" \in Owing /\ "sign" \in Owing /\ "decline" \in Owing
          /\ "cancel" \in Owing
      BY DEF Owing
    <3>. DEFINE status == request[q].status
    <3>. HIDE DEF Kind
    <3>3. Kind({"requested"}, status # "none" /\ ~Behind("request", q),
                              status # "none" /\ ~Behind("request", q)')
      BY <2>2, <3>1, <3>2
    <3>4. Kind({"signed"}, status = "assinada" /\ ~Behind("sign", q),
                           status = "assinada" /\ ~Behind("sign", q)')
      BY <2>2, <3>1, <3>2
    <3>5. Kind({"declined"}, status = "recusada" /\ ~Behind("decline", q),
                             status = "recusada" /\ ~Behind("decline", q)')
      BY <2>2, <3>1, <3>2
    <3>6. Kind({"cancelled", "superseded"}, status = "cancelada" /\ ~Behind("cancel", q),
                                            status = "cancelada" /\ ~Behind("cancel", q)')
      BY <2>2, <3>1, <3>2
    <3>. QED BY <1>1, <2>1, <3>3, <3>4, <3>5, <3>6 DEF KeptFacts, Kind
  <2>. QED BY <2>3, KeptReadsNext
<1>. QED BY <1>5, <1>7, <1>9 DEF Exact

\* The commit that cancels what is pending writes a record for each.
LEMMA SupersedeRecords ==
  ASSUME RecordsInv, SerialInv', NEW w \in Workers, CancelSelected(w)
  PROVE  RecordsInv'
<1>. DEFINE S == {Entry("superseded", r, job[w].actor) : r \in job[w].pending}
<1>1. /\ request' = [r \in Requests |-> IF r \in job[w].pending
                                        THEN [request[r] EXCEPT !.status = "cancelada"]
                                        ELSE request[r]]
      /\ audit' = audit (+) SetToBag(S) /\ crashes' = crashes
      /\ job' = [job EXCEPT ![w].step = "recorded"]
      /\ Selected(job[w])
  BY DEF CancelSelected, Advance, Holds, Selected
<1>2. SerialInv /\ IsABag(audit) /\ job[w].pending = Pending
  BY <1>1 DEF RecordsInv, SerialInv, Sound, TypeInv, TypeOK, AllUpToDate, UpToDate
<1>4. \A e \in S : e.action = "superseded" /\ e.req \in Pending
  BY <1>2 DEF Entry
<1>5. ASSUME NEW r \in Pending
      PROVE  \E e \in S : e.req = r /\ \A f \in S : f.req = r => f = e
  <2>1. Entry("superseded", r, job[w].actor) \in S
    BY <1>2
  <2>2. \A f \in S : f.req = r => f = Entry("superseded", r, job[w].actor)
    BY DEF Entry
  <2>. QED BY <2>1, <2>2 DEF Entry
<1>. HIDE DEF S
<1>3. /\ DOMAIN audit' = DOMAIN audit \cup S
      /\ \A e \in DOMAIN audit : e \notin S => audit'[e] = audit[e]
      /\ \A e \in S : e \notin DOMAIN audit => audit'[e] = 1
  <2>1. audit' = audit (+) SetToBag(S) /\ IsABag(audit)
    BY <1>1, <1>2
  <2>. QED BY <2>1, BagSumFacts
<1>6. /\ job'[w].step = "recorded" /\ OthersStay(w)
      /\ \A r \in Requests : request'[r].status = IF r \in Pending THEN "cancelada"
                                                               ELSE request[r].status
  BY <1>1, <1>2, SerialTypes, OnlyMine DEF Jobs, RequestRows
<1>. SUFFICES ASSUME crashes = 0, Exact PROVE Exact'
  BY <1>1 DEF RecordsInv
<1>7. ASSUME NEW v \in Workers, NEW op \in Owing, NEW q PROVE Owes(v, op, q)' <=> Owes(v, op, q)
  BY <1>1, <1>6 DEF Owes, Holds, OthersStay, Selected, Owing
<1>8. ASSUME NEW v \in Workers PROVE Outcome(v)'
  <2>1. CASE v = w
    BY <1>6, <2>1 DEF Outcome, Holds
  <2>2. CASE v # w
    <3>1. job'[v] = job[v] /\ Outcome(v)
      BY <1>6, <2>2 DEF OthersStay, Exact
    <3>2. InDebt(job[v]) => job[v].req \in Requests
      BY <1>2, SerialTypes DEF InDebt, Owing, Asks, Acts
    <3>3. CASE InDebt(job[v])
      <4>1. CASE job[v].req \in Pending
        <5>1. request[job[v].req].status = "pendente"
          BY <4>1 DEF Pending
        <5>2. request'[job[v].req].status = "cancelada"
          BY <1>6, <3>2, <3>3, <4>1
        <5>. QED BY <3>1, <5>1, <5>2, OutcomeStays
      <4>2. CASE job[v].req \notin Pending
        <5>1. request'[job[v].req].status = request[job[v].req].status
          BY <1>6, <3>2, <3>3, <4>2
        <5>. QED BY <3>1, <5>1 DEF Outcome, Holds
      <4>. QED BY <4>1, <4>2
    <3>4. CASE ~InDebt(job[v])
      BY <3>1, <3>4 DEF Outcome, Holds, InDebt, Owing
    <3>. QED BY <3>3, <3>4
  <2>. QED BY <2>1, <2>2
<1>9. OneDebt'
  BY <1>7 DEF Exact, OneDebt
<1>10. ASSUME NEW q \in Requests PROVE Kept(q)'
  <2>1. KeptFacts(q)
    BY KeptReads DEF Exact
  <2>2. ASSUME NEW op \in Owing PROVE Behind(op, q)' <=> Behind(op, q)
    BY <1>7 DEF Behind
  <2>8. q \in Pending => ~Behind("cancel", q)
    BY DEF Pending, Behind, Owes, Holds, Exact, Outcome
  <2>9. q \in Pending => ~Behind("sign", q) /\ ~Behind("decline", q)
    BY DEF Pending, Behind, Owes, Holds, Exact, Outcome
  <2>3. \A actions : SameRecords(q, actions) =>
          /\ Unwritten(q, actions)' <=> Unwritten(q, actions)
          /\ WrittenOnce(q, actions)' <=> WrittenOnce(q, actions)
    BY SameRecordsStay
  <2>4. \A actions : q \notin Pending \/ "superseded" \notin actions => SameRecords(q, actions)
    BY <1>3, <1>4 DEF SameRecords, Records
  <2>5. CASE q \in Pending
    <3>. DEFINE A == {"cancelled", "superseded"}
    <3>1. request[q].status = "pendente" /\ request'[q].status = "cancelada"
      BY <1>6, <2>5 DEF Pending
    <3>2. Unwritten(q, A)
      BY <2>1, <3>1 DEF KeptFacts
    <3>3. PICK e \in S : e.req = q /\ \A f \in S : f.req = q => f = e
      BY <1>5, <2>5
    <3>4. e \notin DOMAIN audit
      BY <1>4, <3>2, <3>3 DEF Unwritten, Records
    <3>5. Records(q, A)' = {e} /\ audit'[e] = 1
      BY <1>3, <1>4, <3>2, <3>3, <3>4 DEF Unwritten, Records
    <3>6. WrittenOnce(q, A)'
      BY <3>5 DEF WrittenOnce
    <3>7. KeptFacts(q)'
      BY <2>1, <2>2, <2>3, <2>4, <2>8, <2>9, <3>1, <3>6 DEF KeptFacts, Owing
    <3>. QED BY <3>7, KeptReadsNext
  <2>6. CASE q \notin Pending
    <3>1. request'[q].status = request[q].status
      BY <1>6, <2>6
    <3>2. KeptFacts(q)'
      BY <2>1, <2>2, <2>3, <2>4, <2>6, <3>1 DEF KeptFacts, Owing
    <3>. QED BY <3>2, KeptReadsNext
  <2>. QED BY <2>5, <2>6
<1>. QED BY <1>8, <1>9, <1>10 DEF Exact

LEMMA InitRecords == Init => RecordsInv
<1>. SUFFICES ASSUME Init PROVE RecordsInv
  OBVIOUS
<1>1. /\ \A w \in Workers : job[w] = Idle
      /\ DOMAIN audit = {} /\ \A r \in Requests : request[r].status = "none"
  BY DEF Init, NoRequest, EmptyBag, SetToBag
<1>2. \A w \in Workers : Outcome(w) /\ \A op \in Owing : \A r : ~Owes(w, op, r)
  BY <1>1, IdleStep DEF Outcome, Owes, Holds
<1>3. OneDebt
  BY <1>2 DEF OneDebt
<1>4. \A r \in Requests : Kept(r)
  BY <1>1 DEF Kept, Written, Records
<1>. QED BY <1>2, <1>3, <1>4, InitSerial DEF RecordsInv, Exact

LEMMA StepRecords ==
  ASSUME RecordsInv, Apart, [Next]_vars
  PROVE  RecordsInv'
<1>1. SerialInv /\ SerialInv'
  BY StepSerial DEF RecordsInv
<1>2. /\ job \in [Workers -> Jobs] /\ request \in [Requests -> RequestRows]
      /\ \A w \in Workers : job[w] \in Jobs /\ Acts(job[w])
  BY <1>1, SerialTypes
<1>3. CASE UNCHANGED vars \/ DeleteDocument
  <2>1. UNCHANGED <<request, audit, crashes, job>>
    BY <1>3 DEF vars, DeleteDocument
  <2>2. CASE Workers = {}
    BY <1>1, <2>1, <2>2 DEF RecordsInv, Exact, OneDebt, Kept, Written, Records, Behind
  <2>3. ASSUME NEW w \in Workers PROVE RecordsInv'
    BY <1>1, <2>1, QuietRecords DEF OthersStay
  <2>. QED BY <2>2, <2>3
<1>4. ASSUME NEW w \in Workers, Begin(w) \/ Continue(w) \/ Abort(w) PROVE RecordsInv'
  <2>1. SerialInv /\ SerialInv' /\ job[w] \in Jobs /\ Acts(job[w])
    BY <1>1, <1>2
  <2>2. job \in [Workers -> Jobs] /\ request \in [Requests -> RequestRows]
    BY <1>2
  <2>3. OthersStay(w)
    BY <2>1, <1>4, OnlyMine
       DEF Begin, BeginUpload, BeginRequest, BeginSign, BeginDecline, BeginCancel, Take,
           Accept, Start, Continue, CheckPending, SelectPending, Notify, CommitVersion,
           CommitRequest, CommitSign, CommitDecline, CommitCancel, CancelSelected,
           TrailRequest, TrailSign, TrailDecline, TrailCancel, Trail, Advance, Finish, Abort
  <2>4. CASE Begin(w)
    <3>1. UNCHANGED <<request, audit, crashes>> /\ ~InDebt(job[w])
      BY <2>4, IdleStep
         DEF Begin, BeginUpload, BeginRequest, BeginSign, BeginDecline, BeginCancel, Take,
             Accept, InDebt, database
    <3>2. ASSUME NEW j, Start(w, j), j.step = "loaded" PROVE job'[w].step = "loaded"
      BY <2>2, <3>2 DEF Start
    <3>3. job'[w].step = "loaded"
      BY <2>4, <3>2 DEF Begin, BeginUpload, BeginRequest, BeginSign, BeginDecline, BeginCancel,
                        Take, Idle
    <3>. QED BY <2>1, <2>3, <3>1, <3>3, QuietRecords DEF InDebt
  <2>5. CASE CheckPending(w) \/ SelectPending(w) \/ Notify(w) \/ CommitVersion(w)
    <3>1. UNCHANGED <<request, audit, crashes>> /\ ~InDebt(job[w])
      BY <2>5 DEF CheckPending, SelectPending, Notify, CommitVersion, Advance, Finish, Holds,
                  InDebt, Owing, database
    <3>2. ~InDebt(job'[w])
      BY <2>2, <2>5, IdleStep
         DEF CheckPending, SelectPending, Notify, CommitVersion, Advance, Finish, Holds,
             InDebt, Owing, Jobs
    <3>. QED BY <2>1, <2>3, <3>1, <3>2, QuietRecords
  <2>6. CASE Abort(w)
    <3>1. crashes' = crashes + 1 /\ crashes \in Nat
      BY <2>1, <2>6, BoundsAssumption DEF Abort, SerialInv, Sound, TypeInv, TypeOK
    <3>. QED BY <2>1, <3>1 DEF RecordsInv
  <2>7. CASE TrailRequest(w) \/ TrailSign(w) \/ TrailDecline(w) \/ TrailCancel(w)
    BY <2>1, <2>7, TrailRecords DEF Owing, TrailRequest, TrailSign, TrailDecline, TrailCancel
  <2>8. CASE CommitRequest(w)
    <3>1. PICK r \in Requests :
            /\ request[r].status = "none"
            /\ request' = [request EXCEPT ![r] =
                            [status |-> "pendente", row |-> job[w].row,
                             signer |-> job[w].signer, requester |-> job[w].actor]]
            /\ job' = [job EXCEPT ![w].step = "committed", ![w].req = r]
      BY <2>8 DEF CommitRequest
    <3>2. /\ UNCHANGED <<audit, crashes>> /\ job[w].op = "request" /\ job[w].step = "checked"
      BY <2>8 DEF CommitRequest, Holds
    <3>3. /\ job'[w].op = "request" /\ job'[w].step = "committed" /\ job'[w].req = r
          /\ request'[r].status = "pendente"
          /\ \A q \in Requests \ {r} : request'[q].status = request[q].status
      BY <2>2, <3>1, <3>2 DEF Jobs
    <3>. QED BY <2>1, <3>1, <3>2, <3>3, <2>3, CommitRecords DEF Turns, InDebt, Owing
  <2>9. ASSUME NEW op \in {"sign", "decline", "cancel"}, NEW status \in Ended,
               <<op, "pendente", status>> \in Turns, Holds(w, op, "loaded"),
               End(w, status), Advance(w, "committed"), audit' = audit
        PROVE  RecordsInv'
    <3>. DEFINE r == job[w].req
    <3>1. r \in Requests /\ request[r].status = "pendente"
      BY <2>1, <2>2, <2>9
         DEF Acts, SerialInv, AllUpToDate, UpToDate, Ending, IsOpen, Holds
    <3>2. /\ job'[w].op = op /\ job'[w].step = "committed" /\ job'[w].req = r
          /\ crashes' = crashes /\ ~InDebt(job[w])
      BY <2>2, <2>9 DEF Advance, Holds, InDebt, Jobs
    <3>3. /\ request'[r].status = status
          /\ \A q \in Requests \ {r} : request'[q].status = request[q].status
      BY <2>2, <2>9, <3>1 DEF End, RequestRows
    <3>. QED BY <2>1, <2>9, <3>1, <3>2, <3>3, <2>3, CommitRecords
  <2>10. CASE CommitSign(w)
    <3>1. CASE applied[job[w].req] # None
      <4>1. /\ UNCHANGED <<request, audit, crashes>> /\ job'[w] = Idle
            /\ job[w].step = "loaded"
        BY <2>2, <2>10, <3>1 DEF CommitSign, Finish, Holds
      <4>. QED BY <2>1, <2>3, <4>1, IdleStep, QuietRecords DEF InDebt
    <3>2. CASE applied[job[w].req] = None
      BY <2>9, <2>10, <3>2 DEF CommitSign, Ended, Turns
    <3>. QED BY <3>1, <3>2
  <2>11. CASE CommitDecline(w) \/ CommitCancel(w)
    BY <2>9, <2>11 DEF CommitDecline, CommitCancel, Ended, Turns
  <2>12. CASE CancelSelected(w)
    BY <2>1, <2>12, SupersedeRecords
  <2>. QED BY <1>4, <2>4, <2>5, <2>6, <2>7, <2>8, <2>10, <2>11, <2>12 DEF Continue
<1>. QED BY <1>3, <1>4 DEF Next

\* While no two calls in progress get in each other's way and none crashes, each
\* step of a request leaves exactly one record in the trail: the two transactions
\* of a handler lose and repeat nothing, and a new version records each request
\* it closes.
THEOREM TrailExactHolds == Spec /\ []Apart => []TrailExact
<1>1. RecordsInv /\ Apart /\ [Next]_vars => RecordsInv'
  BY StepRecords
<1>2. RecordsInv => TrailExact
  <2>. SUFFICES ASSUME RecordsInv, crashes = 0, \A x \in Workers : job[x] = Idle,
                       NEW r \in Requests
                PROVE  LET status == request[r].status IN
                       /\ Written(r, {"requested"}, status # "none")
                       /\ Written(r, {"signed"}, status = "assinada")
                       /\ Written(r, {"declined"}, status = "recusada")
                       /\ Written(r, {"cancelled", "superseded"}, status = "cancelada")
    BY DEF TrailExact
  <2>1. Kept(r) /\ \A op : ~Behind(op, r)
    BY IdleStep DEF RecordsInv, Exact, Behind, Owes, Holds
  <2>. QED BY <2>1 DEF Kept, Written
<1>. QED BY InitRecords, <1>1, <1>2, PTL DEF Spec

-----------------------------------------------------------------------------
(* What the lifecycle promises, and with it the endpoints.                 *)

\* At most one open request per person and version, a signature for exactly the
\* requests that are signed, and every request names a user.
Promised ==
  /\ \A r \in Requests : request[r].status # "none" => request[r].signer \in Users
  /\ \A q, r \in Pending :
       request[q].row = request[r].row /\ request[q].signer = request[r].signer => q = r
  /\ \A r \in Requests : applied[r] # None <=> request[r].status = "assinada"

LEMMA LifecyclePromise ==
  ASSUME request \in [Requests -> RequestRows], applied \in [Requests -> Signatures \cup {None}],
         Promised, [Lifecycle!Next]_<<request, applied>>
  PROVE  /\ Promised'
         /\ \A r \in Requests : request[r].status \in Ended => request'[r] = request[r]
<1>1. CASE UNCHANGED <<request, applied>>
  BY <1>1 DEF Promised, Pending
<1>2. ASSUME NEW r \in Requests, NEW row \in 1 .. MaxCalls, NEW s \in Users, NEW u \in Users,
             Lifecycle!Ask(r, row, s, u)
      PROVE  /\ Promised'
             /\ \A q \in Requests : request[q].status \in Ended => request'[q] = request[q]
  BY <1>2 DEF Lifecycle!Ask, Lifecycle!Unasked, Lifecycle!Open, Promised, Pending, Ended
<1>3. ASSUME NEW r \in Requests, Lifecycle!Sign(r)
      PROVE  /\ Promised'
             /\ \A q \in Requests : request[q].status \in Ended => request'[q] = request[q]
  <2>1. [row |-> request[r].row, signer |-> request[r].signer] \in Signatures
    BY <1>3 DEF Lifecycle!Sign, Lifecycle!Open, Promised, RequestRows, Signatures
  <2>. QED BY <1>3, <2>1, NoneAssumption
           DEF Lifecycle!Sign, Lifecycle!Open, Promised, Pending, Ended, RequestRows, Signatures
<1>4. ASSUME NEW r \in Requests, Lifecycle!Decline(r)
      PROVE  /\ Promised'
             /\ \A q \in Requests : request[q].status \in Ended => request'[q] = request[q]
  BY <1>4 DEF Lifecycle!Decline, Lifecycle!Open, Promised, Pending, Ended, RequestRows
<1>5. ASSUME NEW S, Lifecycle!Cancel(S)
      PROVE  /\ Promised'
             /\ \A q \in Requests : request[q].status \in Ended => request'[q] = request[q]
  BY <1>5 DEF Lifecycle!Cancel, Lifecycle!Open, Promised, Pending, Ended, RequestRows
<1>. QED BY <1>1, <1>2, <1>3, <1>4, <1>5 DEF Lifecycle!Next

LEMMA StepPromise ==
  ASSUME SerialInv, Apart, Promised, [Next]_vars
  PROVE  /\ Promised'
         /\ \A r \in Requests : request[r].status \in Ended => request'[r] = request[r]
BY SerialTypes, StepSerial, LifecyclePromise

LEMMA InitPromise == Init => Promised
  BY DEF Init, Promised, Pending, NoRequest

LEMMA PromiseKept == Spec /\ []Apart => [](SerialInv /\ Promised)
<1>1. SerialInv /\ Promised /\ Apart /\ [Next]_vars => (SerialInv /\ Promised)'
  BY StepSerial, StepPromise
<1>. QED BY InitSerial, InitPromise, <1>1, PTL DEF Spec

\* While no two calls in progress get in each other's way, with failures anywhere,
\* a person is asked once at a time about a version, and a signature exists
\* exactly for the signed requests.
THEOREM PromisedHolds == Spec /\ []Apart => []Promised
<1>. QED BY PromiseKept, PTL

\* A request that reached an end state does not change again, as signing.py:110
\* says, unless a second call about to end it is in progress.
THEOREM EndStateFinalApart == Spec /\ []Apart => EndStateFinal
<1>1. SerialInv /\ Promised /\ Apart /\ [Next]_vars
        => [\A r \in Requests :
              request[r].status \in Ended => request'[r] = request[r]]_vars
  BY StepPromise
<1>. QED BY PromiseKept, <1>1, PTL DEF Spec, EndStateFinal

\* A single thread is never in its own way: one worker process with one thread
\* keeps all of the above, wherever calls fail.
THEOREM AloneIsSafe ==
  ASSUME NEW w, Workers = {w}
  PROVE  Spec => /\ [](TrailExact /\ Promised) /\ EndStateFinal
                 /\ ImplementsRequestLifecycle
<1>1. Apart
  BY DEF Apart
<1>. QED BY <1>1, TrailExactHolds, PromisedHolds, EndStateFinalApart,
            ImplementsRequestLifecycleHolds, PTL
=============================================================================
