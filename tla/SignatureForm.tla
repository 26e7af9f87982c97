--------------------------- MODULE SignatureForm ---------------------------
(***************************************************************************)
(* Asking for a signature, from the panel of one user (`Me`) in the        *)
(* browser to the row on the server and the stamped PDF:                   *)
(* PainelDocumento.tsx, SolicitarAssinatura.tsx, VisualizadorPdf.tsx,      *)
(* POST signature-requests, GET stamped.                                   *)
(*                                                                         *)
(* The form shows what was loaded earlier: the document, the file of its   *)
(* version, the members of the obra, the user's own role.  All of it       *)
(* changes on the server meanwhile, and the marked area and the chosen     *)
(* person outlive a change of version or of document on the screen.  The   *)
(* order of the answers of one load is in ScreenData; here each answer     *)
(* arrives in one step.                                                    *)
(***************************************************************************)
EXTENDS ObraScope, SignatureArea, Sequences

CONSTANTS
  Me, Home, Docs,  \* the user at the browser, the obra, its documents
  None,
  Points,          \* points of the page where a drag begins or ends
  PageCounts,      \* pages of the files that are uploaded; 0 is not a PDF
  Sizes,           \* pages' widths and heights in points
  MaxChanges, MaxRequests   \* bounds

ASSUME FormAssumption ==
  /\ Me \in Users /\ Home \in Obras /\ None \notin Users
  /\ Points \subseteq Places \X Places /\ PageCounts \subseteq Nat
  /\ Sizes \subseteq Nat \X Nat /\ MaxChanges \in Nat /\ MaxRequests \in Nat

VARIABLES
  versions,    \* server: pages of each version of each document
  pending,     \* server: signature_requests not signed nor cancelled
  signed,      \* server: the signed ones, in order of signing
  author,      \* criado_por of the documents
  changes,     \* changes made on the server so far
  profile,     \* role that the tab read from /auth/me
  url,         \* document selected in the tab
  document,    \* document and version that the panel has loaded
  file,        \* file it shows: of which document and version, of how many pages
  candidates,  \* members it has loaded
  area,        \* marked area, on whatever file was shown then
  chosen       \* signatory selected

server == <<versions, pending, signed, author, changes>>
screen == <<profile, url, document, file, candidates, area, chosen>>
vars == <<scopeVars, server, screen>>

File(d, v) == [doc |-> d, v |-> v]
Files == [doc: Docs, v: Nat \ {0}]
Current(d) == File(d, Len(versions[d]))
Pages(f) == versions[f.doc][f.v]
Stored(f) == f.v \in DOMAIN versions[f.doc]
Requests == [on: Files, signatario: Users, pagina: Nat \ {0}]

Init ==
  /\ ScopeInit /\ obra[Home] = "live"
  /\ versions \in [Docs -> {<<n>> : n \in PageCounts}]
  /\ pending = {} /\ signed = <<>> /\ changes = 0
  /\ author \in Users
  /\ profile = role[Me] /\ url = None /\ document = None /\ file = None
  /\ candidates = {} /\ area = None /\ chosen = None

-----------------------------------------------------------------------------
(* The server.                                                             *)

\* get_current_user and get_visible_document for the user at the browser.
Served == active[Me] /\ CanAccessObra(Me, Home)

MayRequest == role[Me] \in {"administrador", "diretor"} \/ author = Me

Duplicate(d, u) == \E r \in pending : r.on = Current(d) /\ r.signatario = u

\* Mutant of EnsurePageExists: pages counted from zero.
EnsurePageExistsFromZero(d, a) == a.pagina - 1 <= Pages(Current(d))
EnsurePageExists(d, a) == a.pagina <= Pages(Current(d))
EnsureSignable(d) == Pages(Current(d)) > 0

\* create_signature_request and create_request, up to the duplicate.
Accepts(d, u, a) ==
  /\ Served /\ active[u] /\ MayRequest
  /\ EnsureSignable(d) /\ CanAccessObra(u, Home)
  /\ ValidateArea(a) /\ EnsurePageExists(d, a)

\* Mutant of Request: pages counted from zero.
RequestFromZero(d, u, a) == [on |-> Current(d), signatario |-> u, pagina |-> a.pagina - 1]
Request(d, u, a) == [on |-> Current(d), signatario |-> u, pagina |-> a.pagina]

Change == changes < MaxChanges /\ changes' = changes + 1

ChangeScope ==
  /\ Change
  /\ ScopeNext /\ scopeVars' # scopeVars
  /\ UNCHANGED <<versions, pending, signed, author, screen>>

\* A new version, from anybody; it closes what is pending on the document.
Upload(d, n) ==
  /\ Change
  /\ versions' = [versions EXCEPT ![d] = Append(@, n)]
  /\ pending' = {r \in pending : r.on.doc # d}
  /\ UNCHANGED <<scopeVars, signed, author, screen>>

\* The signatory's own screen; SignatureFlow has the steps of these handlers.
Sign(r) ==
  /\ active[r.signatario] /\ CanAccessObra(r.signatario, Home)
  /\ pending' = pending \ {r} /\ signed' = Append(signed, r)
  /\ UNCHANGED <<scopeVars, versions, author, changes, screen>>

Cancel(r) ==
  /\ pending' = pending \ {r}
  /\ UNCHANGED <<scopeVars, versions, signed, author, changes, screen>>

\* _placements_for_version and download_version: what is served is stamped.
SignedOn(f) == {k \in DOMAIN signed : signed[k].on = f}
Placements(f) == [k \in SignedOn(f) |-> signed[k]]
Stamped(f) == StampPdf(Pages(f), IF Pages(f) = 0 THEN <<>> ELSE Placements(f))

-----------------------------------------------------------------------------
(* The panel.                                                              *)

Loads == UNCHANGED <<scopeVars, server>>

\* The form keeps area and signatory for as long as it stays mounted.
FormGone == area' = None /\ chosen' = None

\* A page load reads the profile again, and the panel starts empty.
OpenPage(d) ==
  /\ active[Me]
  /\ profile' = role[Me] /\ url' = d
  /\ document' = None /\ file' = None /\ candidates' = {} /\ FormGone
  /\ Loads

\* The panel is not remounted for another document of the list.
Select(d) ==
  /\ url \notin {None, d}
  /\ url' = d
  /\ Loads /\ UNCHANGED <<profile, document, file, candidates, area, chosen>>

LoadDocument ==
  /\ url # None /\ Served
  /\ document # Current(url) /\ document' = Current(url)
  /\ Loads /\ UNCHANGED <<profile, url, file, candidates, area, chosen>>

\* The panel shows the error in place of everything it had.
DocumentFailed ==
  /\ url # None /\ document # None
  /\ document' = None /\ file' = None /\ candidates' = {} /\ FormGone
  /\ Loads /\ UNCHANGED <<profile, url>>

\* The version of the document on the screen, of the document in the URL.  It is
\* asked for when either changes, so a copy may lack later signatures.
Wanted == File(url, document.v)
Shows(f) == file # None /\ file.of = f
LoadFile ==
  /\ document # None /\ Served /\ Stored(Wanted) /\ ~Shows(Wanted)
  /\ file' = [of |-> Wanted, pages |-> Stamped(Wanted).pages]
  /\ Loads /\ UNCHANGED <<profile, url, document, candidates, area, chosen>>

FileFailed ==
  /\ document # None /\ file # None /\ ~Shows(Wanted)
  /\ file' = None /\ FormGone
  /\ Loads /\ UNCHANGED <<profile, url, document, candidates>>

\* Once per obra: neither a reload nor another document asks again.
LoadMembers ==
  /\ document # None /\ candidates = {} /\ Served
  /\ candidates' = Candidates(Home)
  /\ Loads /\ UNCHANGED <<profile, url, document, file, area, chosen>>

\* Mutant of MayMark: leaves only the role that never asks out.
MayMarkByRole == profile # "financeiro"
MayMark == profile \in {"administrador", "diretor"} \/ author = Me
FormShown == document # None /\ file # None /\ file.pages > 0 /\ MayMark

Edits == Loads /\ UNCHANGED <<profile, url, document, file, candidates>>

Mark(inicio, fim) ==
  /\ FormShown
  /\ \E pagina \in 1..file.pages : LET drawn == Drawn(pagina, inicio, fim) IN
       IsArea(drawn) /\ area' = drawn
  /\ Edits /\ UNCHANGED chosen

PressKey ==
  /\ FormShown /\ area # None
  /\ area' \in moverArea(area)
  /\ Edits /\ UNCHANGED chosen

Choose(u) ==
  /\ FormShown /\ u \in candidates \ {chosen}
  /\ chosen' = u
  /\ Edits /\ UNCHANGED area

MaySubmit == FormShown /\ area # None /\ chosen # None

\* The button: posted for the document on the screen, whose current version the
\* server takes.  A refusal leaves the form as it is, and so does an answer that
\* is lost after the request was committed.
Submit ==
  /\ MaySubmit /\ Cardinality(pending) + Len(signed) < MaxRequests
  /\ Accepts(document.doc, chosen, area) /\ ~Duplicate(document.doc, chosen)
  /\ pending' = pending \cup {Request(document.doc, chosen, area)}
  /\ FormGone \/ UNCHANGED <<area, chosen>>
  /\ UNCHANGED <<scopeVars, versions, signed, author, changes>>
  /\ UNCHANGED <<profile, url, document, file, candidates>>

Next ==
  \/ ChangeScope
  \/ \E d \in Docs, n \in PageCounts : Upload(d, n)
  \/ \E r \in pending : Sign(r) \/ Cancel(r)
  \/ \E d \in Docs : OpenPage(d) \/ Select(d)
  \/ LoadDocument \/ DocumentFailed \/ LoadFile \/ FileFailed \/ LoadMembers
  \/ \E inicio \in Points, fim \in Points : Mark(inicio, fim)
  \/ PressKey \/ Submit
  \/ \E u \in candidates : Choose(u)

Spec == Init /\ [][Next]_vars

-----------------------------------------------------------------------------
\* Type correctness of server and panel.
TypeOK ==
  /\ ScopeTypeOK
  /\ versions \in [Docs -> Seq(PageCounts)]
  /\ pending \subseteq Requests /\ signed \in Seq(Requests)
  /\ author \in Users /\ changes \in 0..MaxChanges
  /\ profile \in Roles /\ url \in Docs \cup {None}
  /\ document \in Files \cup {None}
  /\ file = None \/ file \in [of: Files, pages: Nat]
  /\ candidates \subseteq Users /\ chosen \in Users \cup {None}
  /\ area = None \/ area \in Areas

(***************************************************************************)
(* However it was drawn, moved and resized, the area on the form is one    *)
(* the server accepts, and on a page of any size the rubric is drawn       *)
(* inside it, where it was marked: the flip of the vertical axis and the   *)
(* limits of the editor agree with the server's check, also near the       *)
(* border, where the least side does not fit any more.                     *)
(***************************************************************************)
AreaInside == area # None =>
  /\ ValidateArea(area)
  /\ \A s \in Sizes : OnThePage(area, s[1], s[2])

(***************************************************************************)
(* The interface offers nothing that the server refuses: with a panel that *)
(* shows the state of the server, an enabled button is accepted (or the    *)
(* same was asked before).  The rules of role, access and area are written *)
(* twice, in Python and in TypeScript.  The exception is the code's: the   *)
(* area may be on a page that the stored file has not, because it was      *)
(* marked on another file, or because a version that is signed is shown    *)
(* with its conference page, which the server does not count.              *)
(***************************************************************************)
OnMissingPage == area.pagina > Pages(document)
UpToDate ==
  /\ document = Current(url) /\ Shows(document)
  /\ profile = role[Me] /\ candidates = Candidates(Home) /\ chosen \in candidates /\ Served
OfferAccepted ==
  /\ ListedIsReachable
  /\ MaySubmit /\ UpToDate /\ ~OnMissingPage => Accepts(document.doc, chosen, area)

(***************************************************************************)
(* Whatever the form was showing, an accepted request can be carried out:  *)
(* in the stamped copy of the version it is recorded on, every signature   *)
(* appears on one page that exists, and the conference page lists the      *)
(* earliest ones and leaves somebody out only when it is full.             *)
(***************************************************************************)
StampShowsAll == \A d \in Docs : \A v \in DOMAIN versions[d] :
  LET f == File(d, v)
      copy == Stamped(f)
  IN /\ \A k \in SignedOn(f) : \E p \in 1..Pages(f) : k \in copy.rubrics[p]
     /\ copy.sheet # SignedOn(f) => Cardinality(copy.sheet) = SheetRows
     /\ \A k \in copy.sheet, j \in SignedOn(f) : j < k => j \in copy.sheet
=============================================================================
