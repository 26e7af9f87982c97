------------------------- MODULE RubricStoreProofs -------------------------
(***************************************************************************)
(* Proofs about RubricStore, for any number of threads: types, and what    *)
(* the copies and the bucket hold, whatever fails, as long as no two calls *)
(* in progress change the rubric or sign one request (Apart).              *)
(***************************************************************************)
EXTENDS RubricStore, Integers, TLAPS

ProfileRows == [id: Nat, key: Nat, hash: Images]

\* What a call in progress carries; the key of a store call is its own.
WellFormed(j) ==
  /\ j.op = "store" => j.image \in Images
  /\ j.op = "store" /\ j.step = "dropped" => j.seen # None
  /\ j.op \in {"delete", "sign"} => j.seen # None
  /\ j.op = "sign" => j.req \in Requests
JobShape == \A w \in Workers : WellFormed(job[w])
TypeInv == TypeOK /\ JobShape

LEMMA IdleShape == Idle \in Jobs /\ WellFormed(Idle) /\ Idle.op = "idle"
  BY DEF Idle, Jobs, Profiles, WellFormed

\* A step of one thread's call, over database and bucket that keep their types.
LEMMA JobKeeps ==
  ASSUME TypeInv, NEW w \in Workers, NEW j \in Jobs, WellFormed(j),
         job' = [job EXCEPT ![w] = j],
         profile' \in Profiles, DOMAIN rubrics' \subseteq Nat,
         \A k \in DOMAIN rubrics' : rubrics'[k] \in Images,
         copies' \in [Requests -> Images \cup {None}],
         applied' \in [Requests -> Images \cup {None}],
         calls' \in 0 .. MaxCalls, crashes' \in 0 .. MaxCrashes
  PROVE  TypeInv'
<1>1. job' \in [Workers -> Jobs]
  BY DEF TypeInv, TypeOK
<1>2. \A v \in Workers : WellFormed(job'[v])
  BY DEF TypeInv, TypeOK, JobShape
<1>. QED BY <1>1, <1>2 DEF TypeInv, TypeOK, JobShape, WellFormed

LEMMA InitType == Init => TypeInv
  BY IdleShape, BoundsAssumption DEF Init, TypeInv, TypeOK, JobShape, Profiles

LEMMA StepType == TypeInv /\ [Next]_vars => TypeInv'
<1>. SUFFICES ASSUME TypeInv, [Next]_vars PROVE TypeInv'
  OBVIOUS
<1>1. /\ profile \in Profiles /\ DOMAIN rubrics \subseteq Nat
      /\ \A k \in DOMAIN rubrics : rubrics[k] \in Images
      /\ copies \in [Requests -> Images \cup {None}]
      /\ applied \in [Requests -> Images \cup {None}]
      /\ job \in [Workers -> Jobs] /\ calls \in 0 .. MaxCalls /\ crashes \in 0 .. MaxCrashes
      /\ calls \in Nat
  BY BoundsAssumption DEF TypeInv, TypeOK
<1>2. \A w \in Workers : job[w] \in Jobs /\ WellFormed(job[w])
  BY <1>1 DEF TypeInv, JobShape
<1>3. ASSUME NEW w \in Workers, Accept(w) PROVE calls' \in 0 .. MaxCalls
  BY <1>1, <1>3, BoundsAssumption DEF Accept
<1>4. ASSUME NEW w \in Workers, NEW image \in Images, BeginStore(w, image) PROVE TypeInv'
  <2>. DEFINE j == [Idle EXCEPT !.op = "store", !.step = "loaded", !.seen = profile,
                                !.image = image, !.key = calls]
  <2>1. j \in Jobs /\ WellFormed(j)
    BY <1>1 DEF Idle, Jobs, WellFormed
  <2>. HIDE DEF j
  <2>2. job' = [job EXCEPT ![w] = j]
    BY <1>4 DEF BeginStore, j
  <2>. QED BY <1>1, <1>3, <1>4, <2>1, <2>2, JobKeeps DEF BeginStore, Accept
<1>5. ASSUME NEW w \in Workers, BeginDelete(w) PROVE TypeInv'
  <2>. DEFINE j == [Idle EXCEPT !.op = "delete", !.step = "loaded", !.seen = profile]
  <2>1. j \in Jobs /\ WellFormed(j)
    BY <1>1, <1>5 DEF BeginDelete, Idle, Jobs, WellFormed
  <2>. HIDE DEF j
  <2>2. job' = [job EXCEPT ![w] = j]
    BY <1>5 DEF BeginDelete, j
  <2>. QED BY <1>1, <1>3, <1>5, <2>1, <2>2, JobKeeps DEF BeginDelete, Accept
<1>6. ASSUME NEW w \in Workers, NEW r \in Requests, BeginSign(w, r) PROVE TypeInv'
  <2>. DEFINE j == [Idle EXCEPT !.op = "sign", !.step = "loaded", !.seen = profile, !.req = r]
  <2>1. j \in Jobs /\ WellFormed(j)
    BY <1>1, <1>6 DEF BeginSign, Idle, Jobs, WellFormed
  <2>. HIDE DEF j
  <2>2. job' = [job EXCEPT ![w] = j]
    BY <1>6 DEF BeginSign, j
  <2>. QED BY <1>1, <1>3, <1>6, <2>1, <2>2, JobKeeps DEF BeginSign, Accept
<1>7. ASSUME NEW w \in Workers, Finish(w) PROVE job' = [job EXCEPT ![w] = Idle] /\ calls' = calls
                                                /\ crashes' = crashes
  BY <1>7 DEF Finish
<1>8. ASSUME NEW w \in Workers, NEW step \in {"put", "dropped", "copied"}, Advance(w, step),
             job[w].op = "store" /\ step = "dropped" => job[w].seen # None
      PROVE  /\ [job[w] EXCEPT !.step = step] \in Jobs
             /\ WellFormed([job[w] EXCEPT !.step = step])
             /\ job' = [job EXCEPT ![w] = [job[w] EXCEPT !.step = step]]
             /\ calls' = calls /\ crashes' = crashes
  <2>1. [job[w] EXCEPT !.step = step] \in Jobs /\ WellFormed([job[w] EXCEPT !.step = step])
    BY <1>2, <1>8 DEF Jobs, WellFormed
  <2>. QED BY <1>1, <1>8, <2>1 DEF Advance
<1>9. \A key \in Nat : /\ DOMAIN Without(key) \subseteq DOMAIN rubrics
                       /\ \A k \in DOMAIN Without(key) : Without(key)[k] \in Images
  BY <1>1 DEF Without
<1>10. ASSUME NEW w \in Workers, PutRubric(w) PROVE TypeInv'
  <2>1. job[w].key \in Nat /\ job[w].image \in Images
    BY <1>2, <1>10 DEF PutRubric, Holds, Jobs, WellFormed
  <2>2. DOMAIN rubrics' \subseteq Nat /\ \A k \in DOMAIN rubrics' : rubrics'[k] \in Images
    BY <1>1, <1>10, <2>1 DEF PutRubric
  <2>3. job[w].op = "store" /\ "put" = "dropped" => job[w].seen # None
    OBVIOUS
  <2>4. Advance(w, "put") /\ UNCHANGED <<profile, copies, applied>>
    BY <1>10 DEF PutRubric
  <2>5. /\ [job[w] EXCEPT !.step = "put"] \in Jobs
        /\ WellFormed([job[w] EXCEPT !.step = "put"])
        /\ job' = [job EXCEPT ![w] = [job[w] EXCEPT !.step = "put"]]
        /\ calls' = calls /\ crashes' = crashes
    BY <1>8, <2>3, <2>4
  <2>. QED BY <1>1, <2>2, <2>4, <2>5, JobKeeps
<1>11. ASSUME NEW w \in Workers, CommitFirst(w) PROVE TypeInv'
  <2>1. job[w].key \in Nat /\ job[w].image \in Images
    BY <1>2, <1>11 DEF CommitFirst, Holds, Jobs, WellFormed
  <2>2. profile' \in Profiles
    BY <1>1, <1>11, <2>1 DEF CommitFirst, Profiles
  <2>. QED BY <1>1, <1>7, <1>11, <2>2, IdleShape, JobKeeps DEF CommitFirst
<1>12. ASSUME NEW w \in Workers, DropReplaced(w) \/ DropObject(w) PROVE TypeInv'
  <2>1. /\ job[w].seen # None /\ job[w].seen.key \in Nat
        /\ rubrics' = Without(job[w].seen.key) /\ Advance(w, "dropped")
        /\ profile' = profile /\ copies' = copies /\ applied' = applied
    BY <1>2, <1>12 DEF DropReplaced, DropObject, Holds, Jobs, WellFormed, Profiles
  <2>2. DOMAIN rubrics' \subseteq Nat /\ \A k \in DOMAIN rubrics' : rubrics'[k] \in Images
    BY <1>1, <1>9, <2>1
  <2>. QED BY <1>1, <1>8, <2>1, <2>2, JobKeeps
<1>13. ASSUME NEW w \in Workers, CommitReplace(w) PROVE TypeInv'
  <2>1. job[w].key \in Nat /\ job[w].image \in Images
    BY <1>2, <1>13 DEF CommitReplace, Holds, Jobs, WellFormed
  <2>2. profile' \in Profiles
    BY <1>1, <1>13, <2>1 DEF CommitReplace, Profiles
  <2>. QED BY <1>1, <1>7, <1>13, <2>2, IdleShape, JobKeeps DEF CommitReplace
<1>14. ASSUME NEW w \in Workers, CommitDelete(w) PROVE TypeInv'
  BY <1>1, <1>7, <1>14, IdleShape, JobKeeps DEF CommitDelete, Profiles
<1>15. ASSUME NEW w \in Workers, Copy(w) PROVE TypeInv'
  <2>1. job[w].req \in Requests /\ job[w].op = "sign"
    BY <1>2, <1>15 DEF Copy, Holds, WellFormed
  <2>2. CASE job[w].seen.key \in DOMAIN rubrics
    <3>1. copies' \in [Requests -> Images \cup {None}]
      BY <1>1, <1>15, <2>1, <2>2 DEF Copy
    <3>2. Advance(w, "copied")
      BY <1>15, <2>2 DEF Copy
    <3>. QED BY <1>1, <1>8, <1>15, <2>1, <3>1, <3>2, JobKeeps DEF Copy
  <2>3. CASE job[w].seen.key \notin DOMAIN rubrics
    BY <1>1, <1>7, <1>15, <2>3, IdleShape, JobKeeps DEF Copy
  <2>. QED BY <2>2, <2>3
<1>16. ASSUME NEW w \in Workers, CommitSign(w) PROVE TypeInv'
  <2>1. job[w].req \in Requests /\ job[w].seen.hash \in Images
    BY <1>2, <1>16 DEF CommitSign, Holds, Jobs, WellFormed, Profiles
  <2>2. applied' \in [Requests -> Images \cup {None}]
    BY <1>1, <1>16, <2>1 DEF CommitSign
  <2>. QED BY <1>1, <1>7, <1>16, <2>2, IdleShape, JobKeeps DEF CommitSign
<1>17. ASSUME NEW w \in Workers, Abort(w) PROVE TypeInv'
  <2>1. crashes' \in 0 .. MaxCrashes
    BY <1>1, <1>17, BoundsAssumption DEF Abort
  <2>. QED BY <1>1, <1>17, <2>1, IdleShape, JobKeeps DEF Abort
<1>18. CASE UNCHANGED vars
  BY <1>18 DEF vars, TypeInv, TypeOK, JobShape, WellFormed
<1>. QED BY <1>4, <1>5, <1>6, <1>10, <1>11, <1>12, <1>13, <1>14, <1>15, <1>16, <1>17, <1>18
         DEF Next, Workers

\* Types and calls in progress, for any number of threads.
THEOREM TypeCorrect == Spec => []TypeInv
  BY InitType, StepType, PTL DEF Spec

\* Type correctness: no commit writes the missing value into the user's row.
THEOREM TypeOKHolds == Spec => []TypeOK
<1>1. TypeInv => TypeOK
  BY DEF TypeInv
<1>. QED BY <1>1, TypeCorrect, PTL

-----------------------------------------------------------------------------
(* No two calls in progress in each other's way.                           *)

\* A call is idle, or at one of its steps on a thread of its kind.
Stepped(w) ==
  /\ job[w].op = "idle" => job[w] = Idle
  /\ job[w].op = "store" => job[w].step \in {"loaded", "put", "dropped"}
  /\ job[w].op = "delete" => job[w].step \in {"loaded", "dropped"}
  /\ job[w].op = "sign" => job[w].step \in {"loaded", "copied"}
  /\ Profiling(job[w]) => w \in ProfileWorkers

\* Keys are those of past calls, and the one of a store call in progress is on
\* no row that anybody has seen.
KeysPast ==
  /\ profile # None => profile.key < calls
  /\ \A k \in DOMAIN rubrics : k < calls
Past(w) ==
  /\ job[w].seen # None => job[w].seen.key < calls
  /\ job[w].op = "store" => job[w].key < calls
OwnKey(w) == job[w].op = "store" =>
  /\ profile # None => profile.key # job[w].key
  /\ \A v \in Workers : job[v].op = "sign" => job[v].seen.key # job[w].key
  /\ job[w].step = "loaded" => job[w].key \notin DOMAIN rubrics
  /\ job[w].step # "loaded" => /\ job[w].key \in DOMAIN rubrics
                               /\ rubrics[job[w].key] = job[w].image

\* A call that changes the rubric sees the row as it is; a sign call one whose
\* object, while it is there, is what the row recorded.
SeenRow(w) ==
  /\ Profiling(job[w]) => job[w].seen = profile
  /\ job[w].op = "sign" /\ job[w].seen.key \in DOMAIN rubrics =>
       rubrics[job[w].seen.key] = job[w].seen.hash
Fits(w) == Stepped(w) /\ Past(w) /\ OwnKey(w) /\ SeenRow(w)

SignsOnce(w) == job[w].op = "sign" =>
  /\ applied[job[w].req] = None
  /\ job[w].step = "copied" => copies[job[w].req] = job[w].seen.hash

\* What the bucket holds at each step when nothing has crashed.
Holding == IF profile = None THEN {} ELSE {profile.key}
Bucket(j) ==
  IF j.op = "store" /\ j.step = "put" THEN Holding \cup {j.key}
  ELSE IF j.op = "store" /\ j.step = "dropped" THEN {j.key}
  ELSE IF j.op = "delete" /\ j.step = "dropped" THEN {}
  ELSE Holding
BucketIs == crashes = 0 =>
  /\ \A w \in Workers : Profiling(job[w]) => DOMAIN rubrics = Bucket(job[w])
  /\ (\A w \in Workers : ~Profiling(job[w])) => DOMAIN rubrics = Holding

RubricInv == (\A w \in Workers : Fits(w)) /\ KeysPast /\ BucketIs /\ RubricNeverSwapped
SignInv == (\A w \in Workers : SignsOnce(w)) /\ MarkMatchesHash
SerialInv == TypeInv /\ RubricInv /\ SignInv

LEMMA InitSerial == Init => SerialInv
<1>. SUFFICES ASSUME Init PROVE SerialInv
  OBVIOUS
<1>1. /\ \A w \in Workers : job[w] = Idle
      /\ Idle.op = "idle" /\ Idle.seen = None
  BY DEF Init, Idle
<1>2. RubricInv
  BY <1>1 DEF Init, RubricInv, Fits, Stepped, KeysPast, Past, OwnKey, SeenRow, BucketIs,
              Holding, Profiling, RubricNeverSwapped
<1>3. SignInv
  BY <1>1 DEF Init, SignInv, SignsOnce, MarkMatchesHash
<1>. QED BY <1>2, <1>3, InitType DEF SerialInv

LEMMA SerialFacts ==
  ASSUME SerialInv
  PROVE  /\ job \in [Workers -> Jobs]
         /\ calls \in Nat /\ crashes \in Nat
         /\ profile \in ProfileRows \cup {None} /\ None \notin ProfileRows
         /\ DOMAIN rubrics \subseteq Nat
         /\ copies \in [Requests -> Images \cup {None}]
         /\ applied \in [Requests -> Images \cup {None}]
         /\ \A w \in Workers :
              /\ job[w] \in Jobs /\ job[w].key \in Nat
              /\ job[w].seen \in ProfileRows \cup {None}
              /\ job[w].op = "store" => job[w].image \in Images
              /\ job[w].op = "store" /\ job[w].step = "dropped" => job[w].seen # None
              /\ job[w].op \in {"delete", "sign"} => job[w].seen # None
              /\ job[w].op = "sign" => job[w].req \in Requests
              /\ Fits(w) /\ SignsOnce(w)
         /\ Idle \in Jobs /\ Idle.op = "idle" /\ Idle.seen = None /\ None \notin Images
<1>1. TypeOK /\ JobShape
  BY DEF SerialInv, TypeInv
<1>2. ASSUME NEW w \in Workers
      PROVE  job[w] \in Jobs /\ WellFormed(job[w]) /\ Fits(w) /\ SignsOnce(w)
  BY <1>1 DEF TypeOK, JobShape, SerialInv, RubricInv, SignInv
<1>3. \A j \in Jobs : j.key \in Nat /\ j.seen \in ProfileRows \cup {None}
  BY DEF Jobs, Profiles, ProfileRows
<1>4. None \notin ProfileRows /\ None \notin Images
  BY NoneAssumption DEF ProfileRows
<1>5. /\ job \in [Workers -> Jobs]
      /\ calls \in Nat /\ crashes \in Nat /\ profile \in ProfileRows \cup {None}
      /\ DOMAIN rubrics \subseteq Nat
      /\ copies \in [Requests -> Images \cup {None}]
      /\ applied \in [Requests -> Images \cup {None}]
  BY <1>1, BoundsAssumption DEF TypeOK, Profiles, ProfileRows
<1>6. Idle.seen = None
  BY DEF Idle
<1>. QED BY <1>2, <1>3, <1>4, <1>5, <1>6, IdleShape DEF WellFormed

OthersStay(w) == \A v \in Workers \ {w} : job'[v] = job[v]

\* Nobody else changes the rubric.
OnlyProfiling(w) == \A v \in Workers \ {w} : ~Profiling(job[v])

\* A sign call that starts, goes on or ends leaves the rubric as it should be.
LEMMA SignKeepsRubric ==
  ASSUME SerialInv, NEW w \in Workers, OthersStay(w),
         job[w].op \in {"idle", "sign"}, UNCHANGED <<profile, rubrics, crashes>>,
         calls' \in Nat, calls <= calls',
         \/ job'[w] = Idle
         \/ /\ job'[w].op = "sign" /\ job'[w].step \in {"loaded", "copied"}
            /\ job'[w].seen # None
            /\ \/ job'[w].seen = profile
               \/ job'[w].seen = job[w].seen /\ job[w].op = "sign"
  PROVE  RubricInv'
<1>. USE SerialFacts
<1>. DEFINE j == job'[w]
<1>1. j.op \in {"idle", "sign"} /\ (j.op = "idle" => j = Idle)
  OBVIOUS
<1>2. /\ j.seen # None => j.seen.key < calls /\ j.seen \in ProfileRows
      /\ j.op = "sign" /\ j.seen.key \in DOMAIN rubrics => rubrics[j.seen.key] = j.seen.hash
  BY DEF SerialInv, RubricInv, KeysPast, RubricNeverSwapped, Fits, Past, SeenRow
<1>3. ASSUME NEW v \in Workers, job[v].op = "store", j.op = "sign"
      PROVE  j.seen.key # job[v].key
  BY <1>3 DEF Fits, OwnKey
<1>4. Fits(w)'
  <2>1. Stepped(w)'
    BY <1>1 DEF Stepped, Profiling
  <2>2. Past(w)'
    BY <1>1, <1>2 DEF Past, ProfileRows
  <2>3. OwnKey(w)' /\ SeenRow(w)'
    BY <1>1, <1>2 DEF OwnKey, SeenRow, Profiling
  <2>. QED BY <2>1, <2>2, <2>3 DEF Fits
<1>5. ASSUME NEW v \in Workers \ {w} PROVE Fits(v)'
  <2>1. job'[v] = job[v] /\ Fits(v)
    BY <1>1 DEF OthersStay
  <2>2. Stepped(v)' /\ SeenRow(v)'
    BY <2>1 DEF Fits, Stepped, SeenRow
  <2>3. Past(v)'
    BY <2>1 DEF Fits, Past, ProfileRows
  <2>4. OwnKey(v)'
    BY <1>1, <1>3, <2>1 DEF Fits, OwnKey, OthersStay
  <2>. QED BY <2>2, <2>3, <2>4 DEF Fits
<1>6. KeysPast' /\ RubricNeverSwapped'
  BY DEF SerialInv, RubricInv, KeysPast, RubricNeverSwapped, ProfileRows
<1>7. BucketIs'
  <2>1. \A v \in Workers : /\ Profiling(job'[v]) <=> Profiling(job[v])
                           /\ Profiling(job[v]) => job'[v] = job[v]
    BY <1>1 DEF Profiling, OthersStay
  <2>2. Holding' = Holding /\ \A i : Bucket(i)' = Bucket(i)
    BY DEF Holding, Bucket
  <2>. QED BY <2>1, <2>2 DEF SerialInv, RubricInv, BucketIs
<1>. QED BY <1>4, <1>5, <1>6, <1>7 DEF RubricInv

\* The steps of a sign call leave the rubric alone, and what other calls signed.
LEMMA SignStep ==
  ASSUME SerialInv, Apart, NEW w \in Workers,
         (\E r \in Requests : BeginSign(w, r)) \/ Copy(w) \/ CommitSign(w)
  PROVE  /\ RubricInv' /\ SignInv'
         /\ \A r \in Requests : applied[r] # None =>
              applied'[r] = applied[r] /\ copies'[r] = copies[r]
<1>. USE SerialFacts
<1>. DEFINE Mine == job[w].req
<1>1. ASSUME job[w].op = "sign", NEW v \in Workers \ {w}, job[v].op = "sign"
      PROVE  job[v].req # Mine
  BY <1>1 DEF Apart, Conflict
<1>2. ASSUME NEW r \in Requests, BeginSign(w, r)
      PROVE  RubricInv' /\ SignInv' /\ copies' = copies /\ applied' = applied
  <2>. DEFINE j == [Idle EXCEPT !.op = "sign", !.step = "loaded", !.seen = profile, !.req = r]
  <2>1. /\ job[w] = Idle /\ calls' = calls + 1 /\ profile # None /\ applied[r] = None
        /\ job' = [job EXCEPT ![w] = j]
        /\ UNCHANGED <<profile, rubrics, copies, applied, crashes>>
    BY <1>2 DEF BeginSign, Accept
  <2>2. j.op = "sign" /\ j.step = "loaded" /\ j.seen = profile /\ j.req = r
    BY DEF Idle
  <2>. HIDE DEF j
  <2>3. RubricInv'
    <3>1. job'[w] = j /\ OthersStay(w)
      BY <2>1 DEF OthersStay
    <3>. QED BY <2>1, <2>2, <3>1, SignKeepsRubric
  <2>4. \A v \in Workers : SignsOnce(v)'
    BY <2>1, <2>2 DEF SignsOnce
  <2>5. MarkMatchesHash'
    BY <2>1 DEF SerialInv, SignInv, MarkMatchesHash
  <2>. QED BY <2>1, <2>3, <2>4, <2>5 DEF SignInv
<1>3. ASSUME Copy(w)
      PROVE  /\ RubricInv' /\ SignInv' /\ applied' = applied
             /\ \A r \in Requests : applied[r] # None => copies'[r] = copies[r]
  <2>1. /\ job[w].op = "sign" /\ UNCHANGED <<profile, rubrics, applied, calls, crashes>>
        /\ applied[Mine] = None
    BY <1>3 DEF Copy, Holds, Advance, Finish, SignsOnce
  <2>2. CASE job[w].seen.key \in DOMAIN rubrics
    <3>. DEFINE j == [job[w] EXCEPT !.step = "copied"]
    <3>1. /\ copies' = [copies EXCEPT ![Mine] = rubrics[job[w].seen.key]]
          /\ job' = [job EXCEPT ![w] = j]
      BY <1>3, <2>2 DEF Copy, Advance
    <3>2. rubrics[job[w].seen.key] = job[w].seen.hash
      BY <2>1, <2>2 DEF Fits, SeenRow
    <3>3. j.op = "sign" /\ j.step = "copied" /\ j.req = Mine /\ j.seen = job[w].seen
      BY <2>1 DEF Jobs
    <3>. HIDE DEF j
    <3>4. RubricInv'
      <4>1. job'[w] = j /\ OthersStay(w)
        BY <3>1 DEF OthersStay
      <4>. QED BY <2>1, <3>1, <3>3, <4>1, SignKeepsRubric
    <3>5. ASSUME NEW v \in Workers PROVE SignsOnce(v)'
      <4>1. CASE v = w
        BY <2>1, <3>1, <3>2, <3>3, <4>1 DEF SignsOnce
      <4>2. CASE v # w
        BY <1>1, <2>1, <3>1, <4>2 DEF SignsOnce
      <4>. QED BY <4>1, <4>2
    <3>6. \A r \in Requests : applied[r] # None => copies'[r] = copies[r]
      BY <2>1, <3>1
    <3>7. MarkMatchesHash'
      BY <2>1, <3>6 DEF SerialInv, SignInv, MarkMatchesHash
    <3>. QED BY <2>1, <3>4, <3>5, <3>6, <3>7 DEF SignInv
  <2>3. CASE job[w].seen.key \notin DOMAIN rubrics
    <3>1. copies' = copies /\ job' = [job EXCEPT ![w] = Idle]
      BY <1>3, <2>3 DEF Copy, Finish
    <3>2. RubricInv'
      <4>1. job'[w] = Idle /\ OthersStay(w)
        BY <3>1 DEF OthersStay
      <4>. QED BY <2>1, <3>1, <4>1, SignKeepsRubric
    <3>3. \A v \in Workers : SignsOnce(v)'
      BY <2>1, <3>1 DEF SignsOnce
    <3>4. MarkMatchesHash'
      BY <2>1, <3>1 DEF SerialInv, SignInv, MarkMatchesHash
    <3>. QED BY <2>1, <3>1, <3>2, <3>3, <3>4 DEF SignInv
  <2>. QED BY <2>2, <2>3
<1>4. ASSUME CommitSign(w)
      PROVE  /\ RubricInv' /\ SignInv' /\ copies' = copies
             /\ \A r \in Requests : applied[r] # None => applied'[r] = applied[r]
  <2>1. /\ job[w].op = "sign" /\ job[w].step = "copied" /\ applied[Mine] = None
        /\ job' = [job EXCEPT ![w] = Idle]
        /\ UNCHANGED <<profile, rubrics, copies, calls, crashes>>
    BY <1>4 DEF CommitSign, Holds, Finish, SignsOnce
  <2>2. applied' = [applied EXCEPT ![Mine] = job[w].seen.hash]
    BY <1>4, <2>1 DEF CommitSign
  <2>3. copies[Mine] = job[w].seen.hash
    BY <2>1 DEF SignsOnce
  <2>4. RubricInv'
    <3>1. job'[w] = Idle /\ OthersStay(w)
      BY <2>1 DEF OthersStay
    <3>. QED BY <2>1, <3>1, SignKeepsRubric
  <2>5. ASSUME NEW v \in Workers PROVE SignsOnce(v)'
    <3>1. CASE v = w
      BY <2>1, <3>1 DEF SignsOnce
    <3>2. CASE v # w
      BY <1>1, <2>1, <2>2, <3>2 DEF SignsOnce
    <3>. QED BY <3>1, <3>2
  <2>6. MarkMatchesHash'
    BY <2>1, <2>2, <2>3 DEF SerialInv, SignInv, MarkMatchesHash
  <2>. QED BY <2>1, <2>2, <2>4, <2>5, <2>6 DEF SignInv
<1>. QED BY <1>2, <1>3, <1>4

\* The calls that change no rubric, beside one that does: their keys are old, the
\* objects they may read keep their content, and none of them takes a new key.
Beside(w) ==
  \A v \in Workers \ {w} :
    job[v].op = "sign" /\ job[v].seen.key \in DOMAIN rubrics' =>
      /\ job[v].seen.key \in DOMAIN rubrics
      /\ rubrics'[job[v].seen.key] = rubrics[job[v].seen.key]

LEMMA BesideFits ==
  ASSUME SerialInv, NEW w \in Workers, OnlyProfiling(w), OthersStay(w), Beside(w),
         calls' \in Nat, calls <= calls'
  PROVE  \A v \in Workers \ {w} : Fits(v)'
<1>. USE SerialFacts
<1>. SUFFICES ASSUME NEW v \in Workers \ {w} PROVE Fits(v)'
  OBVIOUS
<1>1. job'[v] = job[v] /\ Fits(v) /\ ~Profiling(job[v])
  BY DEF OthersStay, OnlyProfiling
<1>2. Stepped(v)' /\ OwnKey(v)'
  BY <1>1 DEF Fits, Stepped, OwnKey, Profiling
<1>3. Past(v)'
  BY <1>1 DEF Fits, Past, ProfileRows
<1>4. SeenRow(v)'
  BY <1>1 DEF Fits, SeenRow, Beside
<1>. QED BY <1>2, <1>3, <1>4 DEF Fits

\* The bucket is as it should be when it is for the one call that changes it.
LEMMA BesideBucket ==
  ASSUME NEW w \in Workers, OnlyProfiling(w), OthersStay(w),
         crashes' = 0 => DOMAIN rubrics' = (IF Profiling(job[w]) THEN Bucket(job[w])
                                                                 ELSE Holding)'
  PROVE  BucketIs'
<1>1. \A v \in Workers \ {w} : ~Profiling(job'[v])
  BY DEF OnlyProfiling, OthersStay
<1>. QED BY <1>1 DEF BucketIs, Bucket

\* Read off BucketIs for the call that changes the rubric, or will.
LEMMA MyBucket ==
  ASSUME SerialInv, NEW w \in Workers, OnlyProfiling(w), crashes = 0
  PROVE  DOMAIN rubrics = IF Profiling(job[w]) THEN Bucket(job[w]) ELSE Holding
BY DEF SerialInv, RubricInv, BucketIs, OnlyProfiling

\* The steps that change the rubric leave signatures and their copies alone.
LEMMA RubricStep ==
  ASSUME SerialInv, NEW w \in ProfileWorkers, OnlyProfiling(w),
         \/ \E image \in Images : BeginStore(w, image)
         \/ PutRubric(w) \/ CommitFirst(w) \/ DropReplaced(w) \/ CommitReplace(w)
         \/ BeginDelete(w) \/ DropObject(w) \/ CommitDelete(w)
  PROVE  /\ RubricInv' /\ OthersStay(w) /\ job'[w].op # "sign"
         /\ copies' = copies /\ applied' = applied
<1>. USE SerialFacts
<1>. DEFINE Goal == /\ RubricInv' /\ OthersStay(w) /\ job'[w].op # "sign"
                    /\ copies' = copies /\ applied' = applied
<1>1. /\ w \in Workers /\ Fits(w) /\ KeysPast /\ RubricNeverSwapped
      /\ Profiling(job[w]) => job[w].seen = profile
  BY DEF Workers, SerialInv, RubricInv, Fits, SeenRow
<1>2. ASSUME NEW j, job' = [job EXCEPT ![w] = j] PROVE job'[w] = j /\ OthersStay(w)
  BY <1>1, <1>2 DEF OthersStay
<1>3. ASSUME NEW image \in Images, BeginStore(w, image) PROVE Goal
  <2>. DEFINE j == [Idle EXCEPT !.op = "store", !.step = "loaded", !.seen = profile,
                                !.image = image, !.key = calls]
  <2>1. /\ job[w] = Idle /\ calls' = calls + 1 /\ job' = [job EXCEPT ![w] = j]
        /\ UNCHANGED <<profile, rubrics, copies, applied, crashes>>
    BY <1>3 DEF BeginStore, Accept
  <2>2. /\ j.op = "store" /\ j.step = "loaded" /\ j.seen = profile /\ j.key = calls
        /\ j.image = image
    BY DEF Idle
  <2>. HIDE DEF j
  <2>3. job'[w] = j /\ OthersStay(w)
    BY <1>2, <2>1
  <2>4. \A v \in Workers \ {w} : Fits(v)'
    <3>1. Beside(w)
      BY <2>1 DEF Beside
    <3>. QED BY <1>1, <2>1, <2>3, <3>1, BesideFits
  <2>5. Fits(w)'
    <3>1. Stepped(w)' /\ SeenRow(w)'
      BY <2>1, <2>2, <2>3 DEF Stepped, SeenRow, Profiling
    <3>2. Past(w)'
      BY <1>1, <2>1, <2>2, <2>3 DEF Past, KeysPast, ProfileRows
    <3>3. \A v \in Workers : job'[v].op = "sign" => job'[v].seen.key < calls
      BY <2>2, <2>3 DEF OthersStay, Fits, Past
    <3>4. \A v \in Workers : job'[v].op = "sign" => job'[v].seen.key \in Nat
      BY <2>2, <2>3 DEF OthersStay, ProfileRows
    <3>5. calls \notin DOMAIN rubrics /\ (profile # None => profile.key # calls)
      BY <1>1 DEF KeysPast
    <3>6. OwnKey(w)'
      BY <2>1, <2>2, <2>3, <3>3, <3>4, <3>5 DEF OwnKey
    <3>. QED BY <3>1, <3>2, <3>6 DEF Fits
  <2>6. KeysPast' /\ RubricNeverSwapped'
    BY <1>1, <2>1 DEF KeysPast, RubricNeverSwapped, ProfileRows
  <2>7. BucketIs'
    <3>1. crashes = 0 => DOMAIN rubrics = Holding
      BY <1>1, <2>1, MyBucket DEF Profiling
    <3>. QED BY <1>1, <2>1, <2>2, <2>3, <3>1, BesideBucket DEF Bucket, Holding
  <2>. QED BY <2>1, <2>2, <2>3, <2>4, <2>5, <2>6, <2>7 DEF RubricInv
<1>4. ASSUME BeginDelete(w) PROVE Goal
  <2>. DEFINE j == [Idle EXCEPT !.op = "delete", !.step = "loaded", !.seen = profile]
  <2>1. /\ job[w] = Idle /\ calls' = calls + 1 /\ job' = [job EXCEPT ![w] = j]
        /\ profile # None
        /\ UNCHANGED <<profile, rubrics, copies, applied, crashes>>
    BY <1>4 DEF BeginDelete, Accept
  <2>2. j.op = "delete" /\ j.step = "loaded" /\ j.seen = profile
    BY DEF Idle
  <2>. HIDE DEF j
  <2>3. job'[w] = j /\ OthersStay(w)
    BY <1>2, <2>1
  <2>4. \A v \in Workers \ {w} : Fits(v)'
    <3>1. Beside(w)
      BY <2>1 DEF Beside
    <3>. QED BY <1>1, <2>1, <2>3, <3>1, BesideFits
  <2>5. Fits(w)'
    <3>1. Stepped(w)' /\ SeenRow(w)' /\ OwnKey(w)'
      BY <2>1, <2>2, <2>3 DEF Stepped, SeenRow, OwnKey, Profiling
    <3>2. Past(w)'
      BY <1>1, <2>1, <2>2, <2>3 DEF Past, KeysPast, ProfileRows
    <3>. QED BY <3>1, <3>2 DEF Fits
  <2>6. KeysPast' /\ RubricNeverSwapped'
    BY <1>1, <2>1 DEF KeysPast, RubricNeverSwapped, ProfileRows
  <2>7. BucketIs'
    <3>1. crashes = 0 => DOMAIN rubrics = Holding
      BY <1>1, <2>1, MyBucket DEF Profiling
    <3>. QED BY <1>1, <2>1, <2>2, <2>3, <3>1, BesideBucket DEF Bucket, Holding
  <2>. QED BY <2>1, <2>2, <2>3, <2>4, <2>5, <2>6, <2>7 DEF RubricInv
<1>5. ASSUME PutRubric(w) PROVE Goal
  <2>. DEFINE key == job[w].key
              j == [job[w] EXCEPT !.step = "put"]
  <2>1. /\ job[w].op = "store" /\ job[w].step = "loaded" /\ job' = [job EXCEPT ![w] = j]
        /\ rubrics' = [k \in DOMAIN rubrics \cup {key} |-> IF k = key THEN job[w].image
                                                                     ELSE rubrics[k]]
        /\ UNCHANGED <<profile, copies, applied, calls, crashes>>
    BY <1>5 DEF PutRubric, Holds, Advance
  <2>2. /\ j.op = "store" /\ j.step = "put" /\ j.seen = job[w].seen
        /\ j.key = key /\ j.image = job[w].image
    BY <1>1, <2>1 DEF Jobs
  <2>. HIDE DEF j
  <2>3. job'[w] = j /\ OthersStay(w)
    BY <1>2, <2>1
  <2>4. /\ DOMAIN rubrics' = DOMAIN rubrics \cup {key} /\ rubrics'[key] = job[w].image
        /\ \A k \in DOMAIN rubrics : k # key => rubrics'[k] = rubrics[k]
    BY <2>1
  <2>5. /\ profile # None => profile.key # key
        /\ \A v \in Workers : job[v].op = "sign" => job[v].seen.key # key
        /\ key < calls
    BY <1>1, <2>1 DEF Fits, OwnKey, Past
  <2>. HIDE DEF key
  <2>6. \A v \in Workers \ {w} : Fits(v)'
    <3>1. Beside(w)
      BY <2>4, <2>5 DEF Beside
    <3>. QED BY <1>1, <2>1, <2>3, <3>1, BesideFits
  <2>7. Fits(w)'
    <3>1. Stepped(w)' /\ SeenRow(w)' /\ Past(w)'
      BY <1>1, <2>1, <2>2, <2>3, <2>5 DEF Fits, Stepped, SeenRow, Past, Profiling
    <3>2. OwnKey(w)'
      BY <2>1, <2>2, <2>3, <2>4, <2>5 DEF OwnKey, OthersStay
    <3>. QED BY <3>1, <3>2 DEF Fits
  <2>8. KeysPast' /\ RubricNeverSwapped'
    BY <1>1, <2>1, <2>4, <2>5 DEF KeysPast, RubricNeverSwapped
  <2>9. BucketIs'
    <3>1. crashes = 0 => DOMAIN rubrics = Holding
      BY <1>1, <2>1, MyBucket DEF Profiling, Bucket
    <3>. QED BY <1>1, <2>1, <2>2, <2>3, <2>4, <3>1, BesideBucket
             DEF Bucket, Holding, Profiling
  <2>. QED BY <2>1, <2>2, <2>3, <2>6, <2>7, <2>8, <2>9 DEF RubricInv
<1>6. ASSUME DropReplaced(w) \/ DropObject(w) PROVE Goal
  <2>. DEFINE j == [job[w] EXCEPT !.step = "dropped"]
  <2>1. /\ \/ job[w].op = "store" /\ job[w].step = "put"
           \/ job[w].op = "delete" /\ job[w].step = "loaded"
        /\ job[w].seen # None /\ job' = [job EXCEPT ![w] = j]
        /\ rubrics' = Without(job[w].seen.key)
        /\ UNCHANGED <<profile, copies, applied, calls, crashes>>
    BY <1>1, <1>6 DEF DropReplaced, DropObject, Holds, Advance
  <2>2. /\ j.op = job[w].op /\ j.step = "dropped" /\ j.seen = job[w].seen
        /\ j.key = job[w].key /\ j.image = job[w].image
    BY <1>1 DEF Jobs
  <2>. HIDE DEF j
  <2>3. job'[w] = j /\ OthersStay(w)
    BY <1>2, <2>1
  <2>4. profile = job[w].seen /\ profile # None
    BY <1>1, <2>1 DEF Profiling
  <2>5. /\ DOMAIN rubrics' = DOMAIN rubrics \ {profile.key}
        /\ \A k \in DOMAIN rubrics' : rubrics'[k] = rubrics[k]
    BY <2>1, <2>4 DEF Without
  <2>6. \A v \in Workers \ {w} : Fits(v)'
    <3>1. Beside(w)
      BY <2>5 DEF Beside
    <3>. QED BY <1>1, <2>1, <2>3, <3>1, BesideFits
  <2>7. Fits(w)'
    <3>1. Stepped(w)' /\ SeenRow(w)' /\ Past(w)'
      BY <1>1, <2>1, <2>2, <2>3 DEF Fits, Stepped, SeenRow, Past, Profiling
    <3>2. OwnKey(w)'
      BY <1>1, <2>1, <2>2, <2>3, <2>4, <2>5 DEF Fits, OwnKey, OthersStay
    <3>. QED BY <3>1, <3>2 DEF Fits
  <2>8. KeysPast' /\ RubricNeverSwapped'
    BY <1>1, <2>1, <2>5 DEF KeysPast, RubricNeverSwapped
  <2>9. BucketIs'
    <3>1. crashes = 0 => DOMAIN rubrics = Bucket(job[w])
      BY <1>1, <2>1, MyBucket DEF Profiling
    <3>2. job[w].op = "store" => job[w].key # profile.key
      BY <1>1, <2>4 DEF Fits, OwnKey
    <3>. QED BY <1>1, <2>1, <2>2, <2>3, <2>4, <2>5, <3>1, <3>2, BesideBucket
             DEF Bucket, Holding, Profiling
  <2>. QED BY <2>1, <2>2, <2>3, <2>6, <2>7, <2>8, <2>9 DEF RubricInv
\* The commits end the call.
<1>7. ASSUME job' = [job EXCEPT ![w] = Idle],
             UNCHANGED <<rubrics, copies, applied, calls, crashes>>,
             profile' # None => profile'.key < calls, RubricNeverSwapped',
             crashes = 0 => DOMAIN rubrics = Holding'
      PROVE  Goal
  <2>1. job'[w] = Idle /\ OthersStay(w)
    BY <1>2, <1>7
  <2>2. \A v \in Workers \ {w} : Fits(v)'
    <3>1. Beside(w)
      BY <1>7 DEF Beside
    <3>. QED BY <1>1, <1>7, <2>1, <3>1, BesideFits
  <2>3. Fits(w)'
    BY <2>1 DEF Fits, Stepped, Past, OwnKey, SeenRow, Profiling
  <2>4. KeysPast'
    BY <1>1, <1>7 DEF KeysPast
  <2>5. BucketIs'
    BY <1>1, <1>7, <2>1, BesideBucket DEF Profiling
  <2>. QED BY <1>7, <2>1, <2>2, <2>3, <2>4, <2>5 DEF RubricInv
<1>8. ASSUME CommitFirst(w) \/ CommitReplace(w) PROVE Goal
  <2>1. /\ job[w].op = "store" /\ job[w].step \in {"put", "dropped"}
        /\ job' = [job EXCEPT ![w] = Idle]
        /\ UNCHANGED <<rubrics, copies, applied, calls, crashes>>
    BY <1>8 DEF CommitFirst, CommitReplace, Holds, Finish
  <2>2. profile = job[w].seen
    BY <1>1, <2>1 DEF Profiling
  <2>3. profile' # None /\ profile'.key = job[w].key /\ profile'.hash = job[w].image
    <3>1. CASE CommitFirst(w)
      <4>1. profile' = [id |-> job[w].key, key |-> job[w].key, hash |-> job[w].image]
        BY <2>2, <3>1 DEF CommitFirst
      <4>2. profile' \in ProfileRows
        BY <1>1, <2>1, <4>1 DEF ProfileRows
      <4>. QED BY <4>1, <4>2
    <3>2. CASE CommitReplace(w)
      <4>1. profile # None /\ profile \in ProfileRows
        BY <1>1, <2>2, <3>2 DEF CommitReplace, Holds
      <4>2. profile' = [profile EXCEPT !.key = job[w].key, !.hash = job[w].image]
        BY <2>2, <3>2, <4>1 DEF CommitReplace
      <4>3. profile' \in ProfileRows
        BY <1>1, <2>1, <4>1, <4>2 DEF ProfileRows
      <4>. QED BY <4>1, <4>2, <4>3 DEF ProfileRows
    <3>. QED BY <1>8, <3>1, <3>2
  <2>4. job[w].key < calls /\ rubrics[job[w].key] = job[w].image
    BY <1>1, <2>1 DEF Fits, Past, OwnKey
  <2>5. crashes = 0 => DOMAIN rubrics = Bucket(job[w])
    BY <1>1, <2>1, MyBucket DEF Profiling
  <2>6. crashes = 0 => DOMAIN rubrics = {job[w].key}
    BY <1>8, <2>1, <2>2, <2>5 DEF Bucket, Holding, CommitFirst, CommitReplace, Holds
  <2>. QED BY <1>7, <2>1, <2>3, <2>4, <2>6 DEF RubricNeverSwapped, Holding
<1>9. ASSUME CommitDelete(w) PROVE Goal
  <2>1. /\ job[w].op = "delete" /\ job[w].step = "dropped"
        /\ job' = [job EXCEPT ![w] = Idle]
        /\ UNCHANGED <<rubrics, copies, applied, calls, crashes>>
    BY <1>9 DEF CommitDelete, Holds, Finish
  <2>2. profile' = None
    BY <1>1, <1>9, <2>1 DEF CommitDelete, Profiling
  <2>3. crashes = 0 => DOMAIN rubrics = {}
    BY <1>1, <2>1, MyBucket DEF Profiling, Bucket
  <2>. QED BY <1>7, <2>1, <2>2, <2>3 DEF RubricNeverSwapped, Holding
<1>. QED BY <1>3, <1>4, <1>5, <1>6, <1>8, <1>9

\* A call that ends half-way leaves behind what it put or copied.
LEMMA AbortStep ==
  ASSUME SerialInv, NEW w \in Workers, Abort(w)
  PROVE  RubricInv' /\ SignInv' /\ copies' = copies /\ applied' = applied
<1>. USE SerialFacts
<1>1. /\ job' = [job EXCEPT ![w] = Idle] /\ crashes' # 0
      /\ UNCHANGED <<profile, rubrics, copies, applied, calls>>
  BY DEF Abort
<1>2. ASSUME NEW v \in Workers PROVE Fits(v)' /\ SignsOnce(v)'
  <2>1. job'[v] = Idle \/ job'[v] = job[v]
    BY <1>1
  <2>2. \A u \in Workers : job'[u].op = "sign" => job'[u] = job[u]
    BY <1>1
  <2>3. Fits(v)'
    BY <1>1, <2>1, <2>2 DEF Fits, Stepped, Past, OwnKey, SeenRow, Profiling
  <2>4. SignsOnce(v)'
    BY <1>1, <2>1 DEF SignsOnce
  <2>. QED BY <2>3, <2>4
<1>3. KeysPast' /\ BucketIs' /\ RubricNeverSwapped' /\ MarkMatchesHash'
  BY <1>1 DEF SerialInv, RubricInv, SignInv, KeysPast, BucketIs, RubricNeverSwapped,
              MarkMatchesHash
<1>. QED BY <1>1, <1>2, <1>3 DEF RubricInv, SignInv

LEMMA StepSerial ==
  ASSUME SerialInv, Apart, Apart', [Next]_vars
  PROVE  /\ SerialInv'
         /\ \A r \in Requests : applied[r] # None =>
              applied'[r] = applied[r] /\ copies'[r] = copies[r]
<1>1. TypeInv'
  BY StepType DEF SerialInv
<1>2. ASSUME NEW w \in ProfileWorkers,
             \/ \E image \in Images : BeginStore(w, image)
             \/ PutRubric(w) \/ CommitFirst(w) \/ DropReplaced(w) \/ CommitReplace(w)
             \/ BeginDelete(w) \/ DropObject(w) \/ CommitDelete(w)
      PROVE  SerialInv' /\ copies' = copies /\ applied' = applied
  <2>1. w \in Workers /\ job \in [Workers -> Jobs]
    BY SerialFacts DEF Workers
  <2>2. OnlyProfiling(w)
    <3>1. ASSUME NEW j, job' = [job EXCEPT ![w] = j], Profiling(j) PROVE OnlyProfiling(w)
      <4>1. job'[w] = j /\ \A v \in Workers \ {w} : job'[v] = job[v]
        BY <2>1, <3>1
      <4>. QED BY <2>1, <3>1, <4>1 DEF OnlyProfiling, Apart, Conflict
    <3>2. ASSUME Profiling(job[w]) PROVE OnlyProfiling(w)
      BY <2>1, <3>2 DEF OnlyProfiling, Apart, Conflict
    <3>3. ASSUME NEW image \in Images, BeginStore(w, image) PROVE OnlyProfiling(w)
      <4>. DEFINE j == [Idle EXCEPT !.op = "store", !.step = "loaded", !.seen = profile,
                                    !.image = image, !.key = calls]
      <4>1. job' = [job EXCEPT ![w] = j]
        BY <3>3 DEF BeginStore
      <4>2. Profiling(j)
        BY DEF Profiling, Idle
      <4>. HIDE DEF j
      <4>. QED BY <3>1, <4>1, <4>2
    <3>4. ASSUME BeginDelete(w) PROVE OnlyProfiling(w)
      <4>. DEFINE j == [Idle EXCEPT !.op = "delete", !.step = "loaded", !.seen = profile]
      <4>1. job' = [job EXCEPT ![w] = j]
        BY <3>4 DEF BeginDelete
      <4>2. Profiling(j)
        BY DEF Profiling, Idle
      <4>. HIDE DEF j
      <4>. QED BY <3>1, <4>1, <4>2
    <3>5. ASSUME \/ PutRubric(w) \/ CommitFirst(w) \/ DropReplaced(w) \/ CommitReplace(w)
                 \/ DropObject(w) \/ CommitDelete(w)
          PROVE  Profiling(job[w])
      BY <3>5 DEF PutRubric, CommitFirst, DropReplaced, CommitReplace, DropObject,
                  CommitDelete, Holds, Profiling
    <3>. QED BY <1>2, <3>2, <3>3, <3>4, <3>5
  <2>3. /\ RubricInv' /\ OthersStay(w) /\ job'[w].op # "sign"
        /\ copies' = copies /\ applied' = applied
    BY <1>2, <2>2, RubricStep
  <2>4. \A v \in Workers : SignsOnce(v)'
    BY <2>3, SerialFacts DEF SignsOnce, OthersStay
  <2>5. MarkMatchesHash'
    BY <2>3 DEF SerialInv, SignInv, MarkMatchesHash
  <2>. QED BY <1>1, <2>3, <2>4, <2>5 DEF SerialInv, SignInv
<1>3. ASSUME NEW w \in SignWorkers,
             (\E r \in Requests : BeginSign(w, r)) \/ Copy(w) \/ CommitSign(w)
      PROVE  /\ SerialInv'
             /\ \A r \in Requests : applied[r] # None =>
                  applied'[r] = applied[r] /\ copies'[r] = copies[r]
  BY <1>1, <1>3, SignStep DEF SerialInv, Workers
<1>4. ASSUME NEW w \in Workers, Abort(w)
      PROVE  SerialInv' /\ copies' = copies /\ applied' = applied
  BY <1>1, <1>4, AbortStep DEF SerialInv
<1>5. CASE UNCHANGED vars
  <2>1. UNCHANGED <<profile, rubrics, copies, applied, job, calls, crashes>>
    BY <1>5 DEF vars
  <2>2. RubricInv'
    BY <2>1 DEF SerialInv, RubricInv, Fits, Stepped, KeysPast, Past, OwnKey, SeenRow, BucketIs,
                Bucket, Holding, RubricNeverSwapped
  <2>3. SignInv'
    BY <2>1 DEF SerialInv, SignInv, SignsOnce, MarkMatchesHash
  <2>. QED BY <1>1, <2>1, <2>2, <2>3 DEF SerialInv
<1>. QED BY <1>2, <1>3, <1>4, <1>5 DEF Next

LEMMA SerialCorrect == Spec /\ []Apart => []SerialInv
<1>1. SerialInv /\ Apart /\ Apart' /\ [Next]_vars => SerialInv'
  BY StepSerial
<1>. QED BY InitSerial, <1>1, PTL DEF Spec

\* While no two calls in progress change the rubric or sign one request, the copy
\* of an applied signature is the image whose hash it records, although the
\* rubric is replaced between the query, the copy and the commit.
THEOREM MarkMatchesHashHolds == Spec /\ []Apart => []MarkMatchesHash
<1>1. SerialInv => MarkMatchesHash
  BY DEF SerialInv, SignInv
<1>. QED BY <1>1, SerialCorrect, PTL

\* Under the same condition an applied signature and its copy never change.
THEOREM MarkIsImmutableHolds == Spec /\ []Apart => MarkIsImmutable
<1>1. SerialInv /\ Apart /\ Apart' /\ [Next]_vars =>
        [\A r \in Requests : applied[r] # None =>
           applied'[r] = applied[r] /\ copies'[r] = copies[r]]_vars
  BY StepSerial
<1>. QED BY <1>1, SerialCorrect, PTL DEF Spec, MarkIsImmutable

\* Under the same condition the object under the row's key, while it is there, is
\* what the row records, wherever calls fail.
THEOREM RubricNeverSwappedHolds == Spec /\ []Apart => []RubricNeverSwapped
<1>1. SerialInv => RubricNeverSwapped
  BY DEF SerialInv, RubricInv
<1>. QED BY <1>1, SerialCorrect, PTL

\* Under the same condition, and without a crash, the bucket holds the rubric of
\* the row and no other.
THEOREM RubricIsServedHolds == Spec /\ []Apart => []RubricIsServed
<1>1. SerialInv => RubricIsServed
  <2>. SUFFICES ASSUME SerialInv, crashes = 0, \A w \in ProfileWorkers : job[w] = Idle
                PROVE  /\ DOMAIN rubrics = IF profile = None THEN {} ELSE {profile.key}
                       /\ profile # None => rubrics[profile.key] = profile.hash
    BY DEF RubricIsServed
  <2>1. \A w \in Workers : ~Profiling(job[w])
    BY SerialFacts DEF Fits, Stepped, Profiling
  <2>2. DOMAIN rubrics = Holding
    BY <2>1 DEF SerialInv, RubricInv, BucketIs
  <2>. QED BY <2>2 DEF Holding, SerialInv, RubricInv, RubricNeverSwapped
<1>. QED BY <1>1, SerialCorrect, PTL

\* Each thread serves calls of its own kind.
OwnKind ==
  \A w \in Workers : /\ Profiling(job[w]) => w \in ProfileWorkers
                     /\ job[w].op = "sign" => w \in SignWorkers

LEMMA StepKind == TypeInv /\ OwnKind /\ [Next]_vars => OwnKind'
<1>. SUFFICES ASSUME TypeInv, OwnKind, [Next]_vars PROVE OwnKind'
  OBVIOUS
<1>1. job \in [Workers -> Jobs] /\ \A w \in Workers : job[w] \in Jobs
  BY DEF TypeInv, TypeOK
<1>2. ASSUME NEW w \in Workers, \A v \in Workers \ {w} : job'[v] = job[v],
             \/ job'[w].op \in {"idle", job[w].op}
             \/ Profiling(job'[w]) /\ job'[w].op # "sign" /\ w \in ProfileWorkers
             \/ job'[w].op = "sign" /\ w \in SignWorkers
      PROVE  OwnKind'
  BY <1>2 DEF OwnKind, Profiling
<1>3. ASSUME NEW w \in Workers,
             Finish(w) \/ Abort(w) \/ \E step : Advance(w, step)
      PROVE  OwnKind'
  <2>1. \/ job' = [job EXCEPT ![w] = Idle]
        \/ \E step : job' = [job EXCEPT ![w].step = step]
    BY <1>3 DEF Finish, Abort, Advance
  <2>2. job'[w].op \in {"idle", job[w].op} /\ \A v \in Workers \ {w} : job'[v] = job[v]
    BY <1>1, <2>1, IdleShape DEF Jobs
  <2>. QED BY <1>2, <2>2
<1>4. ASSUME NEW w \in ProfileWorkers, (\E image \in Images : BeginStore(w, image)) \/ BeginDelete(w)
      PROVE  OwnKind'
  <2>1. w \in Workers
    BY DEF Workers
  <2>2. /\ Profiling(job'[w]) /\ job'[w].op # "sign"
        /\ \A v \in Workers \ {w} : job'[v] = job[v]
    BY <1>1, <1>4, <2>1 DEF BeginStore, BeginDelete, Profiling, Idle
  <2>. QED BY <1>2, <2>1, <2>2
<1>5. ASSUME NEW w \in SignWorkers, NEW r \in Requests, BeginSign(w, r)
      PROVE  OwnKind'
  <2>1. w \in Workers
    BY DEF Workers
  <2>2. job'[w].op = "sign" /\ \A v \in Workers \ {w} : job'[v] = job[v]
    BY <1>1, <1>5, <2>1 DEF BeginSign, Idle
  <2>. QED BY <1>2, <2>1, <2>2
<1>6. ASSUME NEW w \in ProfileWorkers,
             \/ PutRubric(w) \/ CommitFirst(w) \/ DropReplaced(w) \/ CommitReplace(w)
             \/ DropObject(w) \/ CommitDelete(w)
      PROVE  OwnKind'
  BY <1>3, <1>6 DEF PutRubric, CommitFirst, DropReplaced, CommitReplace, DropObject,
                    CommitDelete, Workers
<1>7. ASSUME NEW w \in SignWorkers, Copy(w) \/ CommitSign(w) PROVE OwnKind'
  BY <1>3, <1>7 DEF Copy, CommitSign, Workers
<1>8. CASE UNCHANGED vars
  BY <1>8 DEF vars, OwnKind
<1>. QED BY <1>3, <1>4, <1>5, <1>6, <1>7, <1>8 DEF Next

\* One thread for the rubric and one for the sign calls are never in each other's
\* way: they keep all of the above, whatever fails.
THEOREM PairIsSafe ==
  ASSUME NEW p, NEW s, ProfileWorkers = {p}, SignWorkers = {s}
  PROVE  Spec => /\ [](MarkMatchesHash /\ RubricNeverSwapped /\ RubricIsServed)
                 /\ MarkIsImmutable
<1>1. Init => OwnKind
  BY IdleShape DEF Init, OwnKind, Profiling
<1>2. OwnKind => Apart
  BY DEF OwnKind, Apart, Conflict
<1>. QED BY <1>1, <1>2, StepKind, TypeCorrect, MarkMatchesHashHolds, RubricNeverSwappedHolds,
            RubricIsServedHolds, MarkIsImmutableHolds, PTL DEF Spec
=============================================================================
