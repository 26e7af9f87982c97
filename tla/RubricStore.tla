---------------------------- MODULE RubricStore ----------------------------
(***************************************************************************)
(* One user's registered rubric and the copies that signing makes of it    *)
(* (app/services/signatures.py and the storage side of signing.py).  A row *)
(* of the database and an object of the bucket change in separate steps,   *)
(* and no transaction spans them.                                          *)
(***************************************************************************)
EXTENDS Naturals, FiniteSets

CONSTANTS
  Images,          \* rubric images; SHA-256 is taken as injective on them
  Requests,        \* signature requests that name the user
  ProfileWorkers,  \* threads that handle the user's rubric endpoints
  SignWorkers,     \* threads that handle the user's sign calls
  None,            \* no row, no object
  MaxCalls,        \* bound on the calls accepted
  MaxCrashes       \* bound on the handlers that end half-way

Workers == ProfileWorkers \cup SignWorkers

ASSUME NoneAssumption ==
  None \notin Images \cup Requests /\ None \notin [id: Nat, key: Nat, hash: Images]
ASSUME BoundsAssumption == MaxCalls \in Nat /\ MaxCrashes \in Nat

VARIABLES
  profile,   \* the user's row of user_signatures: id, object key and hash
  rubrics,   \* rubricas/{user}/{key}.png: key -> image
  copies,    \* assinaturas/{request}/rubrica.png: request -> image or None
  applied,   \* applied_signatures: request -> recorded hash or None
  job,       \* job[w]: the call that thread w is handling
  calls,     \* calls accepted so far; each store call takes it as its uuid4
  crashes    \* handlers that ended half-way so far

vars == <<profile, rubrics, copies, applied, job, calls, crashes>>

Profiles == [id: Nat, key: Nat, hash: Images] \cup {None}
Jobs == [op: {"idle", "store", "delete", "sign"},
         step: {"none", "loaded", "put", "dropped", "copied"},
         seen: Profiles, image: Images \cup {None}, key: Nat,
         req: Requests \cup {None}]

Idle == [op |-> "idle", step |-> "none", seen |-> None, image |-> None, key |-> 0,
         req |-> None]

Init ==
  /\ profile = None
  /\ rubrics = [k \in {} |-> None]
  /\ copies = [r \in Requests |-> None]
  /\ applied = [r \in Requests |-> None]
  /\ job = [w \in Workers |-> Idle]
  /\ calls = 0 /\ crashes = 0

-----------------------------------------------------------------------------
Accept(w) ==
  /\ job[w] = Idle
  /\ calls < MaxCalls /\ calls' = calls + 1
  /\ UNCHANGED <<profile, rubrics, copies, applied, crashes>>
Holds(w, op, step) == job[w].op = op /\ job[w].step = step
Advance(w, step) == job' = [job EXCEPT ![w].step = step] /\ UNCHANGED <<calls, crashes>>
Finish(w) == job' = [job EXCEPT ![w] = Idle] /\ UNCHANGED <<calls, crashes>>

Without(key) == [k \in DOMAIN rubrics \ {key} |-> rubrics[k]]

\* store_signature: the row as it is now, then the new object under a new key.
BeginStore(w, image) ==
  /\ Accept(w)
  /\ job' = [job EXCEPT ![w] = [Idle EXCEPT !.op = "store", !.step = "loaded",
                                  !.seen = profile, !.image = image, !.key = calls]]

PutRubricInPlace(w) ==
  LET key == IF job[w].seen = None THEN job[w].key ELSE job[w].seen.key
  IN  /\ Holds(w, "store", "loaded")
      /\ rubrics' = [k \in DOMAIN rubrics \cup {key} |->
                      IF k = key THEN job[w].image ELSE rubrics[k]]
      /\ Advance(w, "put")
      /\ UNCHANGED <<profile, copies, applied>>
PutRubric(w) ==
  /\ Holds(w, "store", "loaded")
  /\ rubrics' = [k \in DOMAIN rubrics \cup {job[w].key} |->
                  IF k = job[w].key THEN job[w].image ELSE rubrics[k]]
  /\ Advance(w, "put")
  /\ UNCHANGED <<profile, copies, applied>>

\* A first rubric is inserted; user_id is unique, so a second insert fails.
CommitFirst(w) ==
  /\ Holds(w, "store", "put") /\ job[w].seen = None
  /\ profile' = IF profile = None
                THEN [id |-> job[w].key, key |-> job[w].key, hash |-> job[w].image]
                ELSE profile
  /\ Finish(w)
  /\ UNCHANGED <<rubrics, copies, applied>>

DropReplacedNot(w) ==
  /\ Holds(w, "store", "put") /\ job[w].seen # None
  /\ Advance(w, "dropped")
  /\ UNCHANGED <<profile, rubrics, copies, applied>>
\* A replaced one loses its object first.
DropReplaced(w) ==
  /\ Holds(w, "store", "put") /\ job[w].seen # None
  /\ rubrics' = Without(job[w].seen.key)
  /\ Advance(w, "dropped")
  /\ UNCHANGED <<profile, copies, applied>>

\* The UPDATE names the hash only if it differs from the loaded one, and fails
\* when the row is gone.
CommitReplace(w) ==
  LET seen == job[w].seen
      hash == IF job[w].image = seen.hash THEN profile.hash ELSE job[w].image
  IN  /\ Holds(w, "store", "dropped")
      /\ profile' = IF profile # None /\ profile.id = seen.id
                    THEN [profile EXCEPT !.key = job[w].key, !.hash = hash]
                    ELSE profile
      /\ Finish(w)
      /\ UNCHANGED <<rubrics, copies, applied>>

\* delete_signature: the object, then the row.
BeginDelete(w) ==
  /\ Accept(w)
  /\ profile # None
  /\ job' = [job EXCEPT ![w] = [Idle EXCEPT !.op = "delete", !.step = "loaded",
                                            !.seen = profile]]

DropObjectAndCopies(w) ==
  /\ Holds(w, "delete", "loaded")
  /\ rubrics' = Without(job[w].seen.key)
  /\ copies' = [r \in Requests |-> None]
  /\ Advance(w, "dropped")
  /\ UNCHANGED <<profile, applied>>
DropObject(w) ==
  /\ Holds(w, "delete", "loaded")
  /\ rubrics' = Without(job[w].seen.key)
  /\ Advance(w, "dropped")
  /\ UNCHANGED <<profile, copies, applied>>

CommitDeleteAsNull(w) ==
  /\ Holds(w, "delete", "dropped")
  /\ profile' = IF profile # None THEN [profile EXCEPT !.hash = None] ELSE profile
  /\ Finish(w)
  /\ UNCHANGED <<rubrics, copies, applied>>
CommitDelete(w) ==
  /\ Holds(w, "delete", "dropped")
  /\ profile' = IF profile # None /\ profile.id = job[w].seen.id THEN None ELSE profile
  /\ Finish(w)
  /\ UNCHANGED <<rubrics, copies, applied>>

-----------------------------------------------------------------------------
(* sign: the row, a copy of its object, the signature with the row's hash. *)

BeginSign(w, r) ==
  /\ Accept(w)
  /\ applied[r] = None
  /\ profile # None
  /\ job' = [job EXCEPT ![w] = [Idle EXCEPT !.op = "sign", !.step = "loaded",
                                            !.seen = profile, !.req = r]]

CopyCurrent(w) ==
  /\ Holds(w, "sign", "loaded")
  /\ IF profile # None /\ profile.key \in DOMAIN rubrics
     THEN /\ copies' = [copies EXCEPT ![job[w].req] = rubrics[profile.key]]
          /\ Advance(w, "copied")
     ELSE Finish(w) /\ copies' = copies
  /\ UNCHANGED <<profile, rubrics, applied>>
\* get_object fails when the rubric was replaced or deleted meanwhile.
Copy(w) ==
  /\ Holds(w, "sign", "loaded")
  /\ IF job[w].seen.key \in DOMAIN rubrics
     THEN /\ copies' = [copies EXCEPT ![job[w].req] = rubrics[job[w].seen.key]]
          /\ Advance(w, "copied")
     ELSE Finish(w) /\ copies' = copies
  /\ UNCHANGED <<profile, rubrics, applied>>

\* One signature per request: the unique constraint refuses another.
CommitSign(w) ==
  /\ Holds(w, "sign", "copied")
  /\ applied' = IF applied[job[w].req] = None
                THEN [applied EXCEPT ![job[w].req] = job[w].seen.hash]
                ELSE applied
  /\ Finish(w)
  /\ UNCHANGED <<profile, rubrics, copies>>

-----------------------------------------------------------------------------
Abort(w) ==
  /\ job[w] # Idle
  /\ crashes < MaxCrashes /\ crashes' = crashes + 1
  /\ job' = [job EXCEPT ![w] = Idle]
  /\ UNCHANGED <<profile, rubrics, copies, applied, calls>>

Next ==
  \/ \E w \in ProfileWorkers :
       \/ \E image \in Images : BeginStore(w, image)
       \/ PutRubric(w) \/ CommitFirst(w) \/ DropReplaced(w) \/ CommitReplace(w)
       \/ BeginDelete(w) \/ DropObject(w) \/ CommitDelete(w)
  \/ \E w \in SignWorkers :
       (\E r \in Requests : BeginSign(w, r)) \/ Copy(w) \/ CommitSign(w)
  \/ \E w \in Workers : Abort(w)

Spec == Init /\ [][Next]_vars

-----------------------------------------------------------------------------
\* The variables hold rows, objects and calls of the right shape.
TypeOK ==
  /\ profile \in Profiles
  /\ DOMAIN rubrics \subseteq Nat
  /\ \A k \in DOMAIN rubrics : rubrics[k] \in Images
  /\ copies \in [Requests -> Images \cup {None}]
  /\ applied \in [Requests -> Images \cup {None}]
  /\ job \in [Workers -> Jobs]
  /\ calls \in 0 .. MaxCalls /\ crashes \in 0 .. MaxCrashes

-----------------------------------------------------------------------------
(* Properties that hold when no two calls in progress get in each other's  *)
(* way: the user replaces or withdraws the rubric while sign calls of      *)
(* theirs run, and any of them may crash anywhere.  With two sign calls    *)
(* for one request MarkIsImmutable fails: the second overwrites the copy   *)
(* before the unique constraint refuses its row.                           *)

Profiling(j) == j.op \in {"store", "delete"}

\* Two calls that change the user's rubric, or sign one request.
Conflict(i, j) ==
  \/ Profiling(i) /\ Profiling(j)
  \/ i.op = "sign" /\ j.op = "sign" /\ i.req = j.req

\* What the code would have by a lock on the user's row and on the request's.
Apart == \A v, w \in Workers : v # w => ~Conflict(job[v], job[w])

\* "Immutable copy of the rubric as it was at this moment" (signature_applied.py
\* line 57): the copy an applied signature points at exists and is the image
\* whose hash it records, whatever happened to the profile meanwhile, and it
\* stays.
MarkMatchesHash == \A r \in Requests : applied[r] # None => copies[r] = applied[r]
MarkIsImmutable ==
  [][\A r \in Requests : applied[r] # None =>
       applied'[r] = applied[r] /\ copies'[r] = copies[r]]_vars

\* With no crash and no rubric call in progress, the bucket holds the object of
\* the profile's row, with the content the row records, and no other rubric: a
\* replaced or withdrawn image is gone.
RubricIsServed ==
  crashes = 0 /\ (\A w \in ProfileWorkers : job[w] = Idle) =>
    /\ DOMAIN rubrics = IF profile = None THEN {} ELSE {profile.key}
    /\ profile # None => rubrics[profile.key] = profile.hash

\* A rubric object never has another content than the row that names it records:
\* a crash can lose the object or leave one behind, never swap it.
RubricNeverSwapped ==
  profile # None /\ profile.key \in DOMAIN rubrics =>
    rubrics[profile.key] = profile.hash
=============================================================================
