# Formal models of Doc_Manager_DGE

TLA+ models of the document manager in this repository, the TLC runs that check
them on small instances, and TLAPS proofs of what holds on every instance. Paths
are relative to the repository (`src/` in `PROJECT.json`); line numbers are those
of the modelled commit. `PROJECT.json` maps every definition to its lines.

## 1. The system

A FastAPI backend (`app/`) over PostgreSQL and a MinIO bucket, a React frontend
(`frontend/`). Every endpoint is a plain `def` function: the server runs it in a
thread pool, and `get_db` (`app/dependencies.py`) gives each request a database
session of its own. **A handler reads its rows, decides on what it read, and
commits later.** There is no `SELECT ... FOR UPDATE`, no version column, and the
isolation level is PostgreSQL's default, so between a handler's load and its
commit any other handler may commit. Several handlers commit twice (the service's
transaction, then the trail), and all writes to the bucket are outside any
transaction. That is where the hard behaviour of the server is. In the browser it
is the order of answers: nothing queues the calls of a page, a call that is no
longer wanted is aborted or ignored by a generation number in `useApiData`, and not
at all in `AuthContext` and in the action bar.

| Component | State | Operations | Talks to | What makes it correct |
|---|---|---|---|---|
| Documents, versions (`api/documents.py`, `services/uploads.py`) | `documents`, `document_versions`, objects `{obra}/{doc}/v{n}/{name}` | create, upload a version, download, delete (soft) | bucket, trail, approval, signature requests | each version's object exists and is the file its row hashes; numbers have no gap; a file enters an obra once; what is deleted is frozen |
| Approval (`services/approval.py`) | `status`, `approved_version` of a document | start review, approve, reject, reset on upload | documents | only the reviewed, current version is approved; never by the person who sent it; a new version needs approval again |
| Audit trail (`services/audit.py`) | `audit_log`, append-only | record | every handler | never tells what did not happen; one record per action |
| Signature requests, signing (`services/signature_requests.py`, `signing.py`) | `signature_requests`, `applied_signatures` | request, sign, decline, cancel, cancel on new version | documents, rubrics, trail, mail | one open request per signatory and version; an end is final; a signature is bound to version and person; nothing stays open on a superseded version |
| Rubrics (`services/signatures.py`) | `user_signatures`, objects `rubricas/...` and `assinaturas/{request}/...` | register, replace, withdraw, copy on signing | bucket, signing | a signature's copy is the image its hash records and never changes; a withdrawn image is gone |
| Obras and scope (`api/obras.py`, `scope.py`) | `obras`, assignments | create, archive, restore, assign, list | documents, the request form | nothing happens inside an archived obra; the five forms of the access rule agree, so whoever a list offers is accepted |
| Mail (`services/email.py`) | none | notify, best effort | SMTP | no message about what was not committed |
| Accounts, bootstrap (`api/users.py`, `services/bootstrap.py`) | `users` | create, change role or state, seed | everything | somebody can always administer |
| Login, tokens, MFA, reset (`api/auth.py`, `services/password_reset.py`) | tokens, `password_reset_tokens` | login, refresh, forgot, reset | mail | a reset token works once, until it expires |
| Request form, PDF area and stamp (`SolicitarAssinatura.tsx`, `VisualizadorPdf.tsx`, `services/pdf_stamp.py`) | the marked area and the chosen person, in the browser | draw, move, resize, choose, submit; validate, place, stamp | panel, scope, signing | the area is accepted and drawn where it was marked; what is offered is accepted; every signature appears on the copy |
| Frontend data and session (`useApiData.ts`, `AuthContext.tsx`, `RotaProtegida.tsx`) | answers, generation, tokens, user | load, reload, set, act, enter, leave, load the page | API | the newest answer wins; a session is whole or absent; nobody sees what was read for another; every wait ends |

`PROJECT.json` lists the hazards of this code with the properties that cover each
(and the ones not covered yet).

## 2. The modules

| Module | Models | Role |
|---|---|---|
| `DocumentFlow` | documents, versions, bucket, approval, deletion, download, archive, trail | detailed specification |
| `DocumentLifecycle` | what those endpoints promise a client | abstract specification, implemented by `DocumentFlow` |
| `SignatureFlow` | signature requests of one document, signing, new versions, trail, mail | detailed specification |
| `RequestLifecycle` | what a signature request promises | abstract specification, implemented by `SignatureFlow` |
| `RubricStore` | one user's rubric, the copies made by signing | detailed specification |
| `Accounts` | the `users` table and `password_reset_tokens`: administrators, the seed at start-up, password resets | detailed specification |
| `Session` | the session of one browser tab: start-up, entering, leaving, reading the user again, loading the page | part of `Client` |
| `ScreenData` | the document panel: the hook's loads, reloads and aborts, navigation, and the answers of actions | part of `Client` |
| `Client` | the tab: `Session` and `ScreenData` behind the route guard | composition |
| `ObraScope` | obras, assignments, roles, and the five forms of the access rule | part of `SignatureForm` |
| `SignatureArea` | drawing, moving and resizing an area, its validation, its rectangle on the page, the conference page | operators |
| `SignatureForm` | asking for a signature from a panel that may be stale, to the row on the server and the stamped copy | composition of `ObraScope` and `SignatureArea` |
| `DocumentFlowProofs`, `SignatureFlowProofs`, `RubricStoreProofs`, `AccountsProofs`, `ClientProofs`, `SignatureFormProofs` | theorems about the module of that name | TLAPS |
| `DocumentSerialProofs`, `SignatureSerialProofs` | `DocumentFlow` and `SignatureFlow` implement their lifecycles while no two calls in progress get in each other's way | TLAPS |
| `MCDocumentFlow`, `MCSignatureFlow`, `MCRubricStore`, `MCAccounts`, `MCClient`, `MCSignatureForm` | small instances, symmetry sets | TLC |

### How a handler is modelled

`job[w]` is the request that thread `w` is handling. `Begin...` is the load with
every check made on the loaded row; `Put...`, `Copy`, `Drop...` are writes to the
bucket; `Commit...` is the service's commit; `Trail...` the second commit;
`Notify` the mail. `Abort(w)` ends a handler between any two of these: an
exception, a lost connection or a killed process (the session is rolled back, what
was committed or put stays). A request that is refused changes nothing and is no
step.

The ORM's UPDATE names only the columns whose value differs from the loaded one.
`DocumentFlow!Flush(stored, seen, new)` is that: an unchanged column keeps what
others committed since, a changed one overwrites it. In `SignatureFlow` every end
status differs from the loaded `pendente`, so it is always written (`End`).

### How the browser is modelled

JavaScript runs one callback at a time, so a callback is one action; every `await`
on the network is a call in flight that is answered, refused or lost in a step of
its own. In `Session` the chains of calls are variables (`boot`, `entering[i]`,
`reading`) whose steps say which answer they wait for. In `ScreenData` the calls of
the hook are a set of requests with the generation that sent them and, once the
server has read it, the revision they carry; actions are a set as well, and
`orphan` marks those whose button bar is gone. The server is a revision counter per
document. `crossed` is a history variable in both: it marks the tab, or what the
screen shows, when two chains met that the code does not separate. It only appears
in properties, never in a guard.

In `SignatureForm` each load is one step, since their order is the subject of
`ScreenData`; what it adds is that server, panel and form change independently.

### Details worth knowing when reading the modules against the code

* **DocumentFlow.** One obra. `BeginUpload` is the load and the duplicate query
  in one step: version rows are never deleted, so a later query could only refuse
  more, and a refusal has the effect of `Abort`. `CreateDocument`, `Archive` and
  `Restore` read and commit with nothing in between that a property can tell
  apart. SHA-256 is taken as injective on `Files`. A download fails when two rows
  share a number (`scalar_one_or_none`), so `BeginDownload` requires one. What
  `upload_version` does to pending signature requests is in `SignatureFlow`.
* **SignatureFlow.** One document; a version is an index into `rows`, because
  racing uploads can give two rows one number. Password, rubric, page and area
  checks only refuse a call and are not part of the state. `CheckPending` is a
  step of its own since the page count is read from the bucket before it.
  `SelectPending` and `CancelSelected` are the query and the commit of
  `cancel_pending_for_new_version`; the record they write is `superseded`, and
  `cancelled` is the one of a cancellation by hand. Mail is sent to any subset of
  those it is owed to: `Notify`.
* **RubricStore.** `calls` stands for the `uuid4` of a store call: every call has
  another. A row is inserted under a unique `user_id` and updated by id. An UPDATE
  of a row that is gone fails; a DELETE of one does nothing, since SQLAlchemy only
  warns about it.
* **Accounts.** An account is identified with its username and e-mail, so the
  unique constraints are "the row is absent" at commit (`Insert`). `require_admin`
  and `db.get` read in the same step. The seed (`BeginBootstrap`) is decided on
  the role alone, as `ensure_first_admin` does: an inactive administrator counts.
  Time is `Expire(t)`, possible at any moment. A reset does not look at other
  tokens of the user, nor at whether the account is active.
* **Session.** A token is identified with its owner; `storage` is whether the
  browser lets the page use `sessionStorage` (`session.ts` goes on without it).
  Loading the page drops the memory and every call in flight. The login form lets
  one attempt through (`enviando`), but forgets it when its link to the reset of a
  password is followed and the form opened again: up to `Attempts` chains of entering
  run at once.
* **SignatureArea.** Fractions of the page are integers from 0 to `Unit`. Near the
  border doubles agree with them: `limitar` yields `1 - x`, and `x + (1 - x)` is
  exactly 1 in IEEE arithmetic for `x` between 0 and 1.
* **SignatureForm.** One obra has the documents, and one user the browser; the
  others act on the server. `signed` is in order of signing, and a place in it is
  the instant of the signature: the conference page lists an instant when fewer
  than `SheetRows` of the same version come before it. `Submit` is the committed
  request with its answer, which empties the form, or with the answer lost, which
  leaves it filled.
* Every definition named like another with a suffix (`FlushIncrement`,
  `CopyCurrent`, ...) is that definition with a plausible bug, used as a mutant;
  no specification refers to it.

## 3. The runs

Bounds: `MaxCalls` requests are accepted over a behaviour, `MaxCrashes` handlers
end half-way (`DocumentFlow` lets any number of them do so). When a budget is spent
the model stops, hence `CHECK_DEADLOCK FALSE`; no handler waits for another in this
code, so there is no deadlock to find.

| Run | Instance | Shows |
|---|---|---|
| `doc_races` | 1 document, 2 threads, 2 files, 6 calls | what survives every interleaving and failure: no row without object, no gap in the numbers, an approval backed by a version and a record, a trail never ahead of the table, nothing touched once deleted or archived |
| `doc_apart` | 2 documents, 2 threads never in each other's way, 3 files, 6 calls | while no two calls in progress write one row or carry one file, failures included, `DocumentFlow` implements `DocumentLifecycle`; status and approval agree, files intact, one row per number, no file twice |
| `sig_races` | 2 requests, 2 threads, 5 calls, 1 failure | a signature is bound to its version and person, exists whenever the request shows it, is never replaced; trail and mail never tell what did not happen |
| `sig_serial` | 2 requests, 1 thread, 6 calls, 1 failure, fairness | `SignatureFlow` implements `RequestLifecycle`; one record per action; a superseded request is closed unless a handler crashed |
| `rubric` | 2 profile threads, 2 signing threads, never in each other's way, 2 images, 2 requests, 6 calls, 2 failures | a signature's copy is the image it records and stays so; the bucket holds exactly the row's rubric when nothing crashed, and never another image under its key |
| `accounts` | 3 accounts, 2 threads each for administration, resets and start-up, never in each other's way, 6 calls | somebody can always administer; the seed never meets an account; a password changes only by spending a fresh token; no call undoes what another decided after the row was read |
| `client` | 2 people, 2 attempts to enter at once, 2 documents, 2 revisions, 3 generations, fairness | a session is whole or absent, the panel shows the document of the URL, never one read for somebody else, never an older revision after a newer one; every wait ends |
| `signature_form` | 2 people, 3 obras, 2 documents, 2 requests, 1 change by others, pages of 2 units | the area stays on the page and is drawn where it was marked; what an up-to-date form offers is accepted; every signature appears on the stamped copy |
| `doc_stale_approval` | as `doc_races` | **violated**: an approval that commits after an upload it did not see leaves an unreviewed version approved; the shortest case is a document reviewed without a file and its first upload |
| `sig_end_state_changes` | as `sig_races`, no failure | **violated**: a signed request becomes cancelled |
| `rubric_mark_overwritten` | 2 signing threads for 1 request | **violated**: the second writes over the copy of the first |
| `accounts_lockout` | 2 accounts, 2 threads of administration, 4 calls | **violated**: two administrators deactivate each other |

Why the bounds are enough.

* Two threads give every race of a pair of handlers, and all the races listed as
  hazards are between two.
* Six calls hold the longest story of one document the properties speak of
  (create, upload, review, approve, a second upload or a deletion, and one more),
  or with two documents the creation of both and uploads of one file to each. Five calls for signatures hold
  two uploads, two requests and an end, or one upload, a request and three handlers
  that compete for it; the sixth, with one thread, a second upload between them.
  Six calls for accounts hold the seed, two more administrators and what they do to
  each other, the seed, two tokens of one user and both resets, or the seed, an account
  and a promotion of it that meets its deactivation or the reset of its password.
* In `client` three generations are a load, a reload over it and a navigation over
  both, and two revisions are an older and a newer answer. A page load starts the
  count again, so sessions of any length occur. Two people are one who leaves and
  one who enters. `MCClient` allows fewer generations where the properties say less:
  two once chains of the session crossed, one while a chain of entering is in flight
  beside the panel. About 0.7 million states.
* In `signature_form` a page of two units has a border, an inside and a place where
  the least side does not fit; two page sizes are upright and lying; files have no
  page (not a PDF), one or two; one row on the conference page makes the second
  signature overflow it. One change by others makes any part of the panel stale,
  and the initial states range over who the author is, so that both rules that let
  one ask for a signature are used. About 2.5 million states. The least side is the
  width of that page, so every area of this run spans it and only the vertical border
  is exercised (wider grids have more states than a run can hold); the theorem
  `AreaInsideHolds` is about any unit and least side, hence about both borders.

The mutants in `PROJECT.json` (one for each property, each of them a bug in one
piece of code) are all caught within these bounds.

### Fairness

* `SupersededIsClosed` is checked under `WF_vars(Continue(w))`: a thread that
  handles a call goes on with it. Handlers hold no locks and wait for nobody, so
  the pool's scheduling gives that. It does not say that clients send calls, nor
  that a handler cannot crash: the property lets a request stay open when one did,
  because nothing in the code repairs it later.
* `WaitsEnd` is checked under `WF_vars(AnswerBoot)` and `WF_vars(AnswerLoad)`: a
  call of the start-up chain, and some call the panel waits for, is answered or
  fails in the end, and the browser runs what awaits it. `fetch` gives that, since
  a connection that breaks rejects. Nothing is assumed of the people, of actions,
  or of other clients. Somebody who loads the page forever keeps it verifying; the
  property says so (`LoadsForever`). That they stop reloading the panel is the
  bound `MaxGeneration`.

## 4. What the code does not keep

The four violated runs are the findings. The following were met as well. They are
either stated as an exception in a property, so that the rest of it is still
checked, or shown by changing an instance.

* **Races that runs exclude.** With two calls on one document, or two that carry one
  file, numbers and object keys collide, a file is stored twice, an approval is
  overwritten (`doc_apart` has them apart). Two containers that start together both
  seed, and one reset token sets two passwords ("single-use", `password_reset.py:21`):
  without the constraint `Apart`, `Accounts.cfg` violates `ResetSpendsToken`.
* **Self-approval.** Only the creator of a document is kept from approving
  (`documents.py:365`); whoever sent a version of somebody else's document is not.
  The acceptance line of REQ-010 (`delivery-graph/demands/DEM-001/requirements/`)
  speaks of the creator, the message the user gets (`documents.py:368`) and the
  title of `tests/test_approval.py` of the file one sent.
* **A request on what was not seen.** The area and the person chosen outlive a new
  version and a change of document in the tab. The request is recorded on what is
  current then (`signature_requests.py:227`), while `models/signature_request.py:47`
  takes the area to be of that version. `StampShowsAll` shows that the signature at
  least appears on a page that exists.
* **The conference page.** The form shows the stamped copy, which has one page more
  once somebody signed. The editor lets an area be marked there and the server
  refuses it, although `PainelDocumento.tsx:101` says that what would be refused is
  not offered: `OnMissingPage` in `OfferAccepted`.
* **Crossed chains in the tab.** Nothing cancels the start-up chain, nor an attempt
  to enter whose form is gone, when somebody enters or leaves meanwhile: its late
  answer overwrites or clears the newer session (`crossed` in `SessionWhole` and `ScreenOfUser`).
* **Loads against actions.** `definirDados` does not advance the hook's generation,
  so a load that was read before an action and is answered after it puts the older
  document back (`useApiData.ts:71` says a late answer is discarded), and the answer
  of an action is shown whatever document the panel has come to (`crossed` in
  `ScreenNeverGoesBack` and `PanelShowsItsDocument`).
* **The queue of pending signatures** (`signature_requests.py:194`) does not apply
  the scope: requests of an archived obra, or of one the signatory was taken off,
  stay listed, and their link answers 404. `ListedIsReachable` is about the lists
  of obras and of people.

## 5. The proofs

All proofs hold for any sets of documents, users, files, requests and threads and
any bounds, from the named assumptions on the constants. Each inductive step is one
lemma for the actions that leave the relevant part alone, one per action that does
not, and one that splits `Next`.

**`DocumentFlowProofs`** (`RolesAssumption`: administrators approve, approvers are
users; `BoundsAssumption`; `NoneAssumption`: `None` is no value of a column).

* `TypeCorrect`, `TypeOKHolds`. `TypeOK` alone is not inductive: that a record of
  the trail is a record needs the call in progress to carry a document and a user.
  `TypeInv` adds `JobShape`, which says so, and that an upload carries its file and
  the number after the one it loaded.
* `VersionFileStoredHolds`, `NoVersionGapHolds`. A commit writes a number computed
  from a row loaded long before. `VersionInv` adds what makes that harmless: a
  version a call has seen as current has a row (rows are never deleted, so it stays
  so), and an upload about to commit has its object in the bucket.
* `ApprovalBackedHolds`. `ApprovalInv` adds that a call of approval was vetted when
  it began (its actor approves and did not create the document; a creator never
  changes), and that what a call has seen as approved is backed as well, since
  `Flush` may keep or write either value. The trail only grows, and so do the
  version rows, so what backs an approval stays.
* `TrailNeverAheadHolds`. The version is committed before its record is, so an upload
  owes a record in between, and several uploads by one user may owe the same one.
  `TrailInv` (`Balanced`) counts: for each document, number and user the records of
  the trail and the calls that still owe one are together at most the rows stored.
  A commit of a version adds one on both sides, the record moves one from the calls
  to the trail, and a failure only lowers the left side.
* `HiddenIsFrozenHolds`. A commit is about the document its call loaded, so nothing
  reaches a hidden document but a call that already had it, and no handler but the
  deletion of what is archived takes it up.

**`DocumentSerialProofs`**, for any number of threads, while no two calls in progress
get in each other's way: each theorem has the form `Spec /\ []Apart => ...`. `Apart`
(in `DocumentFlow`) says that no two calls between their load and the commit of the
document's row are about one document, and no two such uploads carry one file. It is
what the code would have with a lock on the row and a unique hash in the obra, and
what a single thread always has (`AloneIsSafe`). The properties of the run `doc_apart`
are false without it: these are the races of section 4.

What races break holds under `Apart`, because what a call loaded and checked is still
true when it commits (`UpToDate`, for every thread: `AllFresh`), so that `Flush` writes
the whole new row (`FlushWrites`), and the steps of other threads leave it so
(`Spared`): another upload may commit between the check for a duplicate and this one's
commit, but not with the same file. `SerialInv` adds to `VersionInv` that version rows
are unique, numbered from 1 to the current one without repetition, with their own
objects (`RowInv`). `UpToDate` is claimed only until the commit, and an upload that failed after its object was stored leaves an object of a
number that no row has, which the next upload of the same name may overwrite without
harm.

* `StatusMatchesApprovalHolds`, `FileIntactHolds`, `OneRowPerVersionHolds`,
  `NoDuplicateFileHolds` follow from `SerialInv`.
* `ImplementsLifecycleHolds`: the refinement. What clients are served is a function
  of the rows and the bucket (`Content`); it is the same while the rows are
  (`SameContent`), and one more row of the next number appends its file
  (`MoreContent`). Each of the five commits is then a step of `DocumentLifecycle`.
* `ClientsRely`. What the abstract specification is good for, carried down to the
  code: a version once served stays as it is, a deletion is final, and a document
  becomes approved only out of review, at the version that was current.
* `ApprovedIsCurrentApart`. The property of the violated run `doc_stale_approval`
  holds under `Apart`: it takes two calls on one document to break it.
* `AloneIsSafe`. All of the above for a single thread, where `Apart` is a fact.

**`SignatureFlowProofs`** (`NoneAssumption`, `BoundsAssumption`). No hypothesis on
the threads: these hold under every interleaving and failure.

* `TypeOKHolds`. `TypeInv` adds what a call in progress carries (`Asks`, `Acts`): a
  request being made names a row that is a PDF, and rows are only added (`Grown`).
* `NeverReopenedHolds` is the relation `Goes`, shown for every action
  (`StepGoes`); the other invariants are preserved because of it.
* `SignedHasSignatureHolds`, `SignatureBoundHolds`. `SignInv` adds that a request
  that was made is whole (`RequestWhole`) and that a call in progress is about one
  that was made and, when it signs, by the person the request names (`Linked`).
  Since only the status of a request changes, what a handler loaded is still true
  of everything else when it commits.
* `TrailBackedHolds`. The record is written after the commit it tells of, so
  `TrailInv` says of each thread that what it is about to record is done (`Done`),
  and that no other thread owes or wrote the same record (`Due`).
* `NoticeAfterFactHolds`. A thread past its last commit has its records in the trail
  (`Told`), which loses nothing.

**`SignatureSerialProofs`**, for any number of threads, again under `Apart` (in
`SignatureFlow`): no two calls are about to end one request, none about to make a
request for a person and version for which another is, and while an upload is about
to cancel the pending requests it selected, no call is about to make or end one.

`ImplementsRequestLifecycleHolds`: a request that a call found open, or a pair that it
found without an open request, is so when it commits, and an upload cancels all that
is pending at that moment (`UpToDate`). The other threads' commits leave that alone
(`Spared`): requests that are made or ended meanwhile are others. `Counted` relates
versions and uploads in progress to calls: the refinement maps the version rows to
`1 .. MaxCalls`.

* `TrailExactHolds`. `RecordsInv` says the same while calls are in progress: every
  step of a request has its one record, but for the steps that calls have committed
  and not yet recorded (`Behind`). No two calls owe the same record (`OneDebt`), and
  what a call is about to record is what it did (`Outcome`), even when the request it
  made has been signed by another call since.
* `PromisedHolds`. The promises of `RequestLifecycle` as an invariant of the tables:
  a request that was made names a person, a person has one open request per version,
  and a request shows as signed exactly when it has its signature.
* `EndStateFinalApart`. The property of the violated run `sig_end_state_changes`
  holds under `Apart`.
* `AloneIsSafe`. All of the above for a single thread.

**`RubricStoreProofs`** (`NoneAssumption` and the bounds). `TypeOKHolds` needs no
hypothesis. The others are for any number of threads under `[]Apart` (in
`RubricStore`): no two calls in progress change the rubric, and none sign one request
(`rubric_mark_overwritten` is what two of the latter do). `SerialInv` says which keys
the bucket holds at each step of a replacement (`BucketIs`, `Bucket`: the old object is
deleted before the row changes), that keys are new with each call (`Past`, `OwnKey`),
and what each signing thread has in hand between its query, its read and its write
(`SeenRow`, `SignsOnce`). That a call is alone when it starts needs `Apart` of the
next state too. Theorems: `MarkMatchesHashHolds`, `MarkIsImmutableHolds`,
`RubricNeverSwappedHolds`, `RubricIsServedHolds`, and `PairIsSafe`, all of them for one
thread of each kind, where `Apart` is proved.

**`AccountsProofs`** (`SeedAssumption`, `BoundsAssumption`, `NoneAssumption`).

* `TypeOKHolds` and `NothingUndoneHolds` for any number of threads and every
  interleaving. `TypeInv` adds that a call in progress names rows that exist
  (accounts and tokens are never deleted) and that a token belongs to an account.
  Only the commit of an update or of a reset changes an account that exists
  (`ChangedByItsCall`), and the column-wise UPDATE writes only what that call was
  asked.
* `AdministrableHolds`, under `[]OneReduction`: privileges are taken away one call at
  a time, while any other update, creation, seed and reset goes on. The invariant adds
  `Vetted`: for each change in progress some active administrator keeps the privileges
  whatever it does. A second reduction breaks exactly that (`accounts_lockout`).
* `SeedsOnlyEmptyHolds`, under `[]OneReduction` and `[]OneSeeding`. It rests on
  `Administrable`: where nobody has the role there are no accounts.
* `ResetSpendsTokenHolds`, under `[]TokensApart`: no two resets in progress hold one
  token. `Held` says that the token a reset is about to spend is its user's and
  unspent.
* `OneOfEachIsSafe`. With one thread of administration, one of resets and one
  container the three hypotheses are facts, and all of the above holds.

**`ClientProofs`** (`PeopleAssumption`, `TokenAssumption` and the bounds). All five
safety properties of the tab, from `TabInv`: what the tokens and the user are in
each state of each chain while nothing crossed (`SessionInv`); that calls of older
generations can no longer reach the screen, and that what is current was read at or
after what the screen shows (`ScreenInv`); and that what is on the screen or on its
way there was asked for with the token of the user (`Asked`).

**`SignatureFormProofs`** (`FormAssumption`, `AreaAssumption`). `LimitarBounds`,
`MoverAreaFits`, `DrawnFits` and `FitsOnThePage` are lemmas about the operators: for
any unit, least sides and steps the editor keeps the area inside, and the flip of
the vertical axis does too. `RulesAgree` proves that the five forms of the access
rule agree in every state. From these and `FormInv`: `TypeOKHolds`,
`AreaInsideHolds`, `OfferAcceptedHolds`, and `PagesExistHolds`, which says that
every request made is on a page of the version it is recorded on.
`StampShowsAllHolds` adds the arithmetic of the conference page, for any number of
signatures and of rows: `SheetClosed` (with a signature the sheet lists all earlier
ones) and `SheetFull` (when it leaves one out, exactly `SheetRows` are listed: what
comes before the earliest one left out is the sheet). That the rubric itself appears
follows from `PagesExist`, since versions never lose pages.

What is proved has these limits. Theorems under `[]Apart` or a part of it say so in
their hypothesis, which is in the theorem and not in the model; without it the statement is
false, which the violated runs and section 4 show. Liveness (`SupersededIsClosed`,
`WaitsEnd`) is only model-checked: fairness is stated with ENABLED, out of the
prover's reach. Every other property that a passing run checks is a theorem.

## 6. Not modelled

Texts of messages and logs, templates, schemas of requests and answers, the SMTP
and S3 dialogues, hashing, JWT and TOTP, PDF parsing and rendering, migrations,
containers, backup scripts, test data, the planning records in `delivery-graph/`:
library code, I/O or data without a protocol. The summary only reads. Validation
that refuses a request before any state is read (content type, size, password), or
because the stored PDF cannot be read (`UnreadablePdf`, `signature_requests.py:103`),
is left out of the state machines: a refusal is no step. Of the frontend, the pages
other than the document panel, the request form and the session are forms and lists
over the same hook, with no state that outlives them. Switching MFA on is a single
write, and login checks it with the password.

## 7. Plan

1. **Done:** the twelve modules of section 2, their runs and the theorems of
   section 5.
2. **Models left:** login with a second factor against an account that is being
   deactivated, and the signing page of a request opened from the queue.
3. **Proofs left:** none of the safety properties of the runs. What the models left
   will need comes with them.
