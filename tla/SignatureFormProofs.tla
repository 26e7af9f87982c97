----------------------- MODULE SignatureFormProofs -----------------------
(***************************************************************************)
(* Proofs about the signature form, for any users, obras, documents, size  *)
(* of the page and steps of the keyboard: the area stays inside the page,  *)
(* what the form offers is accepted, and a copy shows what was signed.     *)
(***************************************************************************)
EXTENDS SignatureForm, FiniteSetTheorems, TLAPS

(***************************************************************************)
(* The editor.                                                             *)
(***************************************************************************)

\* An area with a place on the page.
Fits(a) == a.pagina \in Nat \ {0} /\ a \in Areas /\ ValidateArea(a)

\* Where the least side does not fit, the limit of the page wins; the result is
\* never zero as long as something is left of the page.
LEMMA LimitarBounds ==
  ASSUME NEW valor \in Int, NEW minimo \in Int, NEW maximo \in Int
  PROVE  /\ limitar(valor, minimo, maximo) \in Int
         /\ limitar(valor, minimo, maximo) <= maximo
         /\ minimo <= maximo => minimo <= limitar(valor, minimo, maximo)
         /\ minimo > 0 /\ maximo > 0 => limitar(valor, minimo, maximo) > 0
  BY SMT DEF limitar, Smaller, Larger

LEMMA DeltasInt == \A d \in Deltas : d \in Int
  BY AreaAssumption DEF Deltas

LEMMA ResizedXFits ==
  ASSUME NEW a, Fits(a), NEW d \in Int
  PROVE  Fits(ResizedX(a, d))
<1>. DEFINE new == limitar(a.largura + d, MinSide, Unit - a.x)
<1>1. a.x \in Places /\ a.y \in Places /\ a.largura \in Places /\ a.altura \in Places
  BY DEF Fits, Areas
<1>2. Unit \in Nat /\ MinSide \in Int /\ MinSide > 0
  BY AreaAssumption
<1>3. a.x + a.largura <= Unit /\ a.largura > 0
  BY DEF Fits, ValidateArea
<1>4. a.largura + d \in Int /\ Unit - a.x \in Int /\ Unit - a.x > 0
  BY <1>1, <1>2, <1>3 DEF Places
<1>5. new \in Int /\ new <= Unit - a.x /\ new > 0
  BY <1>2, <1>4, LimitarBounds
<1>6. new \in Places /\ a.x + new <= Unit
  BY <1>1, <1>2, <1>5 DEF Places
<1>7. ResizedX(a, d) = [a EXCEPT !.largura = new]
  BY DEF ResizedX
<1>. HIDE DEF new
<1>. QED BY <1>5, <1>6, <1>7 DEF Fits, Areas, ValidateArea

LEMMA ResizedYFits ==
  ASSUME NEW a, Fits(a), NEW d \in Int
  PROVE  Fits(ResizedY(a, d))
<1>. DEFINE new == limitar(a.altura + d, MinSide, Unit - a.y)
<1>1. a.x \in Places /\ a.y \in Places /\ a.largura \in Places /\ a.altura \in Places
  BY DEF Fits, Areas
<1>2. Unit \in Nat /\ MinSide \in Int /\ MinSide > 0
  BY AreaAssumption
<1>3. a.y + a.altura <= Unit /\ a.altura > 0
  BY DEF Fits, ValidateArea
<1>4. a.altura + d \in Int /\ Unit - a.y \in Int /\ Unit - a.y > 0
  BY <1>1, <1>2, <1>3 DEF Places
<1>5. new \in Int /\ new <= Unit - a.y /\ new > 0
  BY <1>2, <1>4, LimitarBounds
<1>6. new \in Places /\ a.y + new <= Unit
  BY <1>1, <1>2, <1>5 DEF Places
<1>7. ResizedY(a, d) = [a EXCEPT !.altura = new]
  BY DEF ResizedY
<1>. HIDE DEF new
<1>. QED BY <1>5, <1>6, <1>7 DEF Fits, Areas, ValidateArea

LEMMA MovedXFits ==
  ASSUME NEW a, Fits(a), NEW d \in Int
  PROVE  Fits(MovedX(a, d))
<1>. DEFINE new == limitar(a.x + d, 0, Unit - a.largura)
<1>1. a.x \in Places /\ a.y \in Places /\ a.largura \in Places /\ a.altura \in Places
  BY DEF Fits, Areas
<1>2. Unit \in Nat
  BY AreaAssumption
<1>3. a.x + d \in Int /\ Unit - a.largura \in Int /\ 0 <= Unit - a.largura
  BY <1>1, <1>2 DEF Places
<1>4. new \in Int /\ new <= Unit - a.largura /\ 0 <= new
  BY <1>3 DEF limitar, Smaller, Larger
<1>5. new \in Places /\ new + a.largura <= Unit /\ new >= 0
  BY <1>1, <1>2, <1>4 DEF Places
<1>6. MovedX(a, d) = [a EXCEPT !.x = new]
  BY DEF MovedX
<1>. HIDE DEF new
<1>. QED BY <1>5, <1>6 DEF Fits, Areas, ValidateArea

LEMMA MovedYFits ==
  ASSUME NEW a, Fits(a), NEW d \in Int
  PROVE  Fits(MovedY(a, d))
<1>. DEFINE new == limitar(a.y + d, 0, Unit - a.altura)
<1>1. a.x \in Places /\ a.y \in Places /\ a.largura \in Places /\ a.altura \in Places
  BY DEF Fits, Areas
<1>2. Unit \in Nat
  BY AreaAssumption
<1>3. a.y + d \in Int /\ Unit - a.altura \in Int /\ 0 <= Unit - a.altura
  BY <1>1, <1>2 DEF Places
<1>4. new \in Int /\ new <= Unit - a.altura /\ 0 <= new
  BY <1>3 DEF limitar, Smaller, Larger
<1>5. new \in Places /\ new + a.altura <= Unit /\ new >= 0
  BY <1>1, <1>2, <1>4 DEF Places
<1>6. MovedY(a, d) = [a EXCEPT !.y = new]
  BY DEF MovedY
<1>. HIDE DEF new
<1>. QED BY <1>5, <1>6 DEF Fits, Areas, ValidateArea

\* No key takes the area out of the page.
LEMMA MoverAreaFits ==
  ASSUME NEW a, Fits(a), NEW b \in moverArea(a)
  PROVE  Fits(b)
<1>1. PICK d \in Deltas : b \in {ResizedX(a, d), ResizedY(a, d), MovedX(a, d), MovedY(a, d)}
  BY DEF moverArea
<1>2. d \in Int
  BY DeltasInt
<1>. QED BY <1>1, <1>2, ResizedXFits, ResizedYFits, MovedXFits, MovedYFits

\* Nor does a drag between two points of it.
LEMMA DrawnFits ==
  ASSUME NEW pagina \in Nat \ {0}, NEW p \in Places \X Places, NEW q \in Places \X Places,
         IsArea(Drawn(pagina, p, q))
  PROVE  Fits(Drawn(pagina, p, q))
<1>1. /\ p[1] \in Places /\ p[2] \in Places /\ q[1] \in Places /\ q[2] \in Places
  OBVIOUS
<1>2. Unit \in Nat /\ MinSide \in Int /\ MinSide > 0 /\ MinHeight \in Int /\ MinHeight > 0
  BY AreaAssumption
<1>. DEFINE a == Drawn(pagina, p, q)
<1>3. /\ a.pagina = pagina
      /\ a.x = Smaller(p[1], q[1]) /\ a.y = Smaller(p[2], q[2])
      /\ a.largura = Distance(q[1], p[1]) /\ a.altura = Distance(q[2], p[2])
  BY DEF Drawn
<1>4. /\ a.x \in Places /\ a.y \in Places /\ a.largura \in Places /\ a.altura \in Places
      /\ a.x + a.largura <= Unit /\ a.y + a.altura <= Unit
  <2>1. /\ p[1] \in 0..Unit /\ p[2] \in 0..Unit /\ q[1] \in 0..Unit /\ q[2] \in 0..Unit
    BY <1>1 DEF Places
  <2>2. \A m, n \in 0..Unit : /\ Smaller(m, n) \in 0..Unit /\ Distance(n, m) \in 0..Unit
                              /\ Smaller(m, n) + Distance(n, m) <= Unit
    BY <1>2 DEF Smaller, Distance
  <2>. HIDE DEF a
  <2>. QED BY <1>3, <2>1, <2>2 DEF Places
<1>5. a.largura > 0 /\ a.altura > 0
  BY <1>2, <1>4 DEF IsArea, Places
<1>6. a \in Areas
  BY <1>3, <1>4 DEF Drawn, Areas
<1>7. a.x >= 0 /\ a.y >= 0
  BY <1>4, <1>2 DEF Places
<1>. QED BY <1>3, <1>4, <1>5, <1>6, <1>7 DEF Fits, ValidateArea

\* Products of naturals grow with their factors.
LEMMA Grows ==
  ASSUME NEW a \in Int, NEW b \in Int, a <= b, NEW w \in Nat
  PROVE  a * w <= b * w
<1>1. (b - a) * w >= 0
  OBVIOUS
<1>2. (b - a) * w = b * w - a * w
  OBVIOUS
<1>. QED BY <1>1, <1>2

\* The vertical flip keeps the rubric on the page, where it was drawn.
LEMMA FitsOnThePage ==
  ASSUME NEW a, Fits(a), NEW w \in Nat, NEW h \in Nat
  PROVE  OnThePage(a, w, h)
<1>1. /\ a.x \in Nat /\ a.y \in Nat /\ a.largura \in Nat /\ a.altura \in Nat /\ Unit \in Nat
      /\ a.x + a.largura <= Unit /\ a.y + a.altura <= Unit
  BY AreaAssumption DEF Fits, Areas, Places, ValidateArea
<1>2. a.x * w >= 0
  BY <1>1
<1>3. (a.x + a.largura) * w <= Unit * w
  BY <1>1, Grows
<1>4. a.x * w + a.largura * w = (a.x + a.largura) * w
  BY <1>1
<1>5. (a.y + a.altura) * h <= Unit * h
  BY <1>1, Grows
<1>6. (a.y + a.altura) * h = a.y * h + a.altura * h
  BY <1>1
<1>7. /\ a.x * w \in Int /\ a.largura * w \in Int /\ Unit * w \in Int
      /\ a.y * h \in Int /\ a.altura * h \in Int /\ Unit * h \in Int
      /\ (a.x + a.largura) * w \in Int /\ (a.y + a.altura) * h \in Int
  BY <1>1
<1>. QED BY <1>2, <1>3, <1>4, <1>5, <1>6, <1>7 DEF OnThePage, to_pdf_rect

(***************************************************************************)
(* The scope.                                                              *)
(***************************************************************************)

LEMMA ScopeTypeStep == ScopeTypeOK /\ ScopeNext => ScopeTypeOK'
<1>. SUFFICES ASSUME ScopeTypeOK, ScopeNext PROVE ScopeTypeOK'
  OBVIOUS
<1>. USE DEF ScopeTypeOK
<1>1. ASSUME NEW o \in Obras, CreateObra(o) \/ ArchiveObra(o) \/ RestoreObra(o)
      PROVE  ScopeTypeOK'
  BY <1>1 DEF CreateObra, ArchiveObra, RestoreObra, States
<1>2. ASSUME NEW o \in Obras, NEW u \in Users, AssignUser(o, u) \/ UnassignUser(o, u)
      PROVE  ScopeTypeOK'
  BY <1>2 DEF AssignUser, UnassignUser
<1>3. ASSUME NEW u \in Users, NEW r \in Roles, NEW is \in BOOLEAN, UpdateUser(u, r, is)
      PROVE  ScopeTypeOK'
  BY <1>3 DEF UpdateUser
<1>. QED BY <1>1, <1>2, <1>3 DEF ScopeNext

\* The five forms of the rule of access agree in every state.
LEMMA RulesAgree == ScopeTypeOK => ListedIsReachable
<1>. SUFFICES ASSUME ScopeTypeOK PROVE ListedIsReachable
  OBVIOUS
<1>1. \A o \in Obras : obra[o] = "live" <=> obra[o] \notin {"none", "archived"}
  BY DEF ScopeTypeOK, States
<1>2. ASSUME NEW u \in Users
      PROVE  /\ ScopeObraQuery(u) = {o \in Obras : CanAccessObra(u, o)}
             /\ SearchDocuments(u) = ScopeObraQuery(u)
             /\ \A o \in ListArchived(u) : ~CanAccessObra(u, o)
  BY <1>1 DEF ScopeObraQuery, CanAccessObra, AccessibleObraIds, SearchDocuments,
              ListArchived, Live, AssignedTo
<1>3. ASSUME NEW o \in Live
      PROVE  Candidates(o) = {u \in Users : active[u] /\ CanAccessObra(u, o)}
  BY <1>1, <1>3 DEF Candidates, CanAccessObra, AccessibleObraIds, HasGlobalAccess,
                    GlobalAccessRoles, Live
<1>. QED BY <1>2, <1>3 DEF ListedIsReachable

(***************************************************************************)
(* Types, and what the server and the panel hold.                          *)
(***************************************************************************)

\* Every request lies on a page of the version it is recorded on.
OnPage(r) == Stored(r.on) /\ r.pagina <= Pages(r.on)
PagesExist == /\ \A r \in pending : OnPage(r)
              /\ \A k \in DOMAIN signed : OnPage(signed[k])

\* A document always has a version; what the panel shows was stored, and what it
\* shows as a PDF is one.
Panel ==
  /\ \A d \in Docs : versions[d] # <<>>
  /\ document # None => url \in Docs
  /\ file # None => /\ Stored(file.of)
                    /\ file.pages > 0 => Pages(file.of) > 0
  /\ area # None => Fits(area)

FormInv == TypeOK /\ PagesExist /\ Panel

LEMMA CurrentStored ==
  ASSUME FormInv, NEW d \in Docs
  PROVE  Current(d) \in Files /\ Stored(Current(d)) /\ Pages(Current(d)) \in Nat
<1>1. versions[d] \in Seq(PageCounts) /\ versions[d] # <<>>
  BY DEF FormInv, TypeOK, Panel
<1>2. Len(versions[d]) \in Nat \ {0} /\ Len(versions[d]) \in DOMAIN versions[d]
  BY <1>1
<1>3. versions[d][Len(versions[d])] \in PageCounts
  BY <1>1, <1>2
<1>. QED BY <1>2, <1>3, FormAssumption DEF Current, File, Files, Stored, Pages

\* Versions are only added.
LEMMA UploadKeeps ==
  ASSUME FormInv, NEW d \in Docs, NEW n \in PageCounts,
         versions' = [versions EXCEPT ![d] = Append(@, n)]
  PROVE  /\ versions' \in [Docs -> Seq(PageCounts)]
         /\ \A e \in Docs : versions'[e] # <<>>
         /\ \A f \in Files : Stored(f) => Stored(f)' /\ Pages(f)' = Pages(f)
<1>1. versions \in [Docs -> Seq(PageCounts)]
  BY DEF FormInv, TypeOK
<1>2. Append(versions[d], n) \in Seq(PageCounts) /\ Append(versions[d], n) # <<>>
  BY <1>1
<1>3. versions' \in [Docs -> Seq(PageCounts)]
  BY <1>1, <1>2
<1>4. \A e \in Docs : versions'[e] # <<>>
  BY <1>1, <1>2 DEF FormInv, Panel
<1>5. ASSUME NEW f \in Files, Stored(f) PROVE Stored(f)' /\ Pages(f)' = Pages(f)
  <2>1. f.doc \in Docs /\ f.v \in DOMAIN versions[f.doc]
    BY <1>5 DEF Files, Stored
  <2>2. CASE f.doc = d
    <3>1. versions'[d] = Append(versions[d], n)
      BY <1>1
    <3>2. f.v \in 1..Len(versions[d])
      BY <1>1, <2>1, <2>2
    <3>3. f.v \in DOMAIN Append(versions[d], n) /\ Append(versions[d], n)[f.v] = versions[d][f.v]
      BY <1>1, <3>2
    <3>. QED BY <2>2, <3>1, <3>3 DEF Stored, Pages
  <2>3. CASE f.doc # d
    BY <1>1, <2>1, <2>3 DEF Stored, Pages
  <2>. QED BY <2>2, <2>3
<1>. QED BY <1>3, <1>4, <1>5

LEMMA InitForm == Init => FormInv
<1>. SUFFICES ASSUME Init PROVE FormInv
  OBVIOUS
<1>1. ScopeTypeOK
  BY DEF Init, ScopeInit, ScopeTypeOK
<1>2. versions \in [Docs -> Seq(PageCounts)] /\ \A d \in Docs : versions[d] # <<>>
  <2>1. \A n \in PageCounts : <<n>> \in Seq(PageCounts) /\ <<n>> # <<>>
    OBVIOUS
  <2>2. versions \in [Docs -> {<<n>> : n \in PageCounts}]
    BY DEF Init
  <2>. QED BY <2>1, <2>2
<1>3. profile \in Roles
  BY <1>1, FormAssumption DEF Init, ScopeTypeOK
<1>4. signed \in Seq(Requests) /\ signed = <<>> /\ pending = {}
  BY DEF Init
<1>. QED BY <1>1, <1>2, <1>3, <1>4, FormAssumption DEF Init, FormInv, TypeOK, PagesExist, Panel

LEMMA ChangeBound == FormInv /\ Change => changes' \in 0..MaxChanges
  BY FormAssumption DEF FormInv, TypeOK, Change

\* What the tab loads or edits, in one lemma: the server stays as it is, so only
\* what the panel holds has to be looked at.
LEMMA LoadsKeep ==
  ASSUME FormInv, Loads,
         profile' \in Roles, url' \in Docs \cup {None},
         document' \in Files \cup {None}, document' # None => url' \in Docs,
         file' = None \/ /\ file' \in [of: Files, pages: Nat]
                         /\ Stored(file'.of)
                         /\ file'.pages > 0 => Pages(file'.of) > 0,
         candidates' \subseteq Users, chosen' \in Users \cup {None},
         area' = None \/ Fits(area')
  PROVE  FormInv'
<1>1. UNCHANGED <<role, active, obra, assigned, versions, pending, signed, author, changes>>
  BY DEF Loads, scopeVars, server
<1>2. TypeOK'
  BY <1>1 DEF FormInv, TypeOK, ScopeTypeOK, Fits
<1>3. PagesExist'
  BY <1>1 DEF FormInv, PagesExist, OnPage, Stored, Pages
<1>4. Panel'
  BY <1>1 DEF FormInv, Panel, Stored, Pages
<1>. QED BY <1>2, <1>3, <1>4 DEF FormInv

\* The panel and its form as they are.
LEMMA PanelHolds ==
  ASSUME FormInv
  PROVE  /\ profile \in Roles /\ url \in Docs \cup {None}
         /\ document \in Files \cup {None} /\ (document # None => url \in Docs)
         /\ file = None \/ /\ file \in [of: Files, pages: Nat]
                           /\ Stored(file.of)
                           /\ file.pages > 0 => Pages(file.of) > 0
         /\ candidates \subseteq Users /\ chosen \in Users \cup {None}
         /\ area = None \/ Fits(area)
  BY DEF FormInv, TypeOK, Panel

LEMMA LoadFileForm == FormInv /\ LoadFile => FormInv'
<1>. SUFFICES ASSUME FormInv, LoadFile PROVE FormInv'
  OBVIOUS
<1>1. document \in Files /\ url \in Docs
  BY PanelHolds DEF LoadFile
<1>2. Wanted \in Files /\ Stored(Wanted)
  BY <1>1 DEF Wanted, File, Files, LoadFile
<1>3. Pages(Wanted) \in Nat
  <2>1. Wanted.doc \in Docs /\ Wanted.v \in DOMAIN versions[Wanted.doc]
    BY <1>2 DEF Files, Stored
  <2>2. versions[Wanted.doc] \in Seq(PageCounts)
    BY <2>1 DEF FormInv, TypeOK
  <2>3. versions[Wanted.doc][Wanted.v] \in PageCounts
    BY <2>1, <2>2
  <2>. QED BY <2>3, FormAssumption DEF Pages
<1>4. Stamped(Wanted).pages \in Nat /\ (Stamped(Wanted).pages > 0 => Pages(Wanted) > 0)
  <2>. DEFINE placed == IF Pages(Wanted) = 0 THEN <<>> ELSE Placements(Wanted)
  <2>1. Stamped(Wanted).pages =
          IF DOMAIN placed = {} THEN Pages(Wanted) ELSE Pages(Wanted) + 1
    BY DEF Stamped, StampPdf
  <2>2. Pages(Wanted) = 0 => DOMAIN placed = {}
    OBVIOUS
  <2>. QED BY <1>3, <2>1, <2>2
<1>5. file' = [of |-> Wanted, pages |-> Stamped(Wanted).pages]
  BY DEF LoadFile
<1>6. versions' = versions
  BY DEF LoadFile, Loads, server
<1>7. /\ file' \in [of: Files, pages: Nat] /\ Stored(file'.of)
      /\ file'.pages > 0 => Pages(file'.of) > 0
  BY <1>2, <1>4, <1>5
<1>. QED BY <1>7, PanelHolds, LoadsKeep DEF LoadFile

LEMMA MarkForm ==
  ASSUME FormInv, NEW p \in Points, NEW q \in Points, Mark(p, q)
  PROVE  FormInv'
<1>1. p \in Places \X Places /\ q \in Places \X Places
  BY FormAssumption
<1>2. file \in [of: Files, pages: Nat]
  BY PanelHolds DEF Mark, FormShown
<1>3. PICK pagina \in 1..file.pages :
        IsArea(Drawn(pagina, p, q)) /\ area' = Drawn(pagina, p, q)
  BY DEF Mark
<1>4. pagina \in Nat \ {0}
  BY <1>2
<1>5. Fits(area')
  BY <1>1, <1>3, <1>4, DrawnFits
<1>. QED BY <1>5, PanelHolds, LoadsKeep DEF Mark, Edits

LEMMA PressKeyForm == FormInv /\ PressKey => FormInv'
<1>. SUFFICES ASSUME FormInv, PressKey PROVE FormInv'
  OBVIOUS
<1>1. Fits(area) /\ area' \in moverArea(area)
  BY PanelHolds DEF PressKey
<1>2. Fits(area')
  BY <1>1, MoverAreaFits
<1>. QED BY <1>2, PanelHolds, LoadsKeep DEF PressKey, Edits

LEMMA LoadForm ==
  ASSUME FormInv,
         \/ \E d \in Docs : OpenPage(d) \/ Select(d)
         \/ LoadDocument \/ DocumentFailed \/ FileFailed \/ LoadMembers
         \/ \E u \in candidates : Choose(u)
  PROVE  FormInv'
<1>. USE PanelHolds, LoadsKeep
<1>1. ASSUME NEW d \in Docs, OpenPage(d) PROVE FormInv'
  <2>1. role[Me] \in Roles
    BY FormAssumption DEF FormInv, TypeOK, ScopeTypeOK
  <2>. QED BY <1>1, <2>1 DEF OpenPage, FormGone
<1>2. ASSUME NEW d \in Docs, Select(d) PROVE FormInv'
  BY <1>2 DEF Select
<1>3. ASSUME LoadDocument PROVE FormInv'
  <2>1. url \in Docs /\ Current(url) \in Files
    BY <1>3, CurrentStored DEF LoadDocument
  <2>. QED BY <1>3, <2>1 DEF LoadDocument
<1>4. ASSUME DocumentFailed PROVE FormInv'
  BY <1>4 DEF DocumentFailed, FormGone
<1>5. ASSUME FileFailed PROVE FormInv'
  BY <1>5 DEF FileFailed, FormGone
<1>6. ASSUME LoadMembers PROVE FormInv'
  <2>1. Candidates(Home) \subseteq Users
    BY DEF Candidates
  <2>. QED BY <1>6, <2>1 DEF LoadMembers
<1>7. ASSUME NEW u \in candidates, Choose(u) PROVE FormInv'
  BY <1>7 DEF Choose, Edits
<1>. QED BY <1>1, <1>2, <1>3, <1>4, <1>5, <1>6, <1>7

LEMMA SubmitForm == FormInv /\ Submit => FormInv'
<1>. SUFFICES ASSUME FormInv, Submit PROVE FormInv'
  OBVIOUS
<1>. DEFINE r == Request(document.doc, chosen, area)
<1>1. /\ document \in Files /\ chosen \in Users /\ Fits(area)
      /\ EnsurePageExists(document.doc, area)
  BY PanelHolds DEF Submit, MaySubmit, FormShown, Accepts
<1>2. document.doc \in Docs /\ area.pagina \in Nat \ {0}
  BY <1>1 DEF Files, Fits
<1>3. r \in Requests /\ OnPage(r)
  BY <1>1, <1>2, CurrentStored DEF Request, Requests, OnPage, EnsurePageExists
<1>4. /\ pending' = pending \cup {r} /\ area' \in {None, area} /\ chosen' \in {None, chosen}
      /\ UNCHANGED <<role, active, obra, assigned, versions, signed, author, changes,
                     profile, url, document, file, candidates>>
  BY DEF Submit, FormGone, scopeVars
<1>. HIDE DEF r
<1>5. TypeOK'
  BY <1>3, <1>4 DEF FormInv, TypeOK, ScopeTypeOK
<1>6. PagesExist' /\ Panel'
  BY <1>3, <1>4 DEF FormInv, PagesExist, OnPage, Panel, Stored, Pages
<1>. QED BY <1>5, <1>6 DEF FormInv

LEMMA SignForm ==
  ASSUME FormInv, NEW r \in pending, Sign(r) \/ Cancel(r)
  PROVE  FormInv'
<1>1. r \in Requests /\ OnPage(r) /\ signed \in Seq(Requests)
  BY DEF FormInv, TypeOK, PagesExist
<1>2. /\ UNCHANGED <<role, active, obra, assigned, versions, author, changes,
                     profile, url, document, file, candidates, area, chosen>>
      /\ pending' = pending \ {r} /\ (signed' = Append(signed, r) \/ signed' = signed)
  BY DEF Sign, Cancel, scopeVars, screen
<1>3. TypeOK'
  <2>1. signed' \in Seq(Requests) /\ pending' \subseteq Requests
    BY <1>1, <1>2 DEF FormInv, TypeOK
  <2>. QED BY <1>2, <2>1 DEF FormInv, TypeOK, ScopeTypeOK
<1>4. \A k \in DOMAIN signed' : signed'[k] = r \/ (k \in DOMAIN signed /\ signed'[k] = signed[k])
  BY <1>1, <1>2
<1>5. PagesExist'
  BY <1>1, <1>2, <1>4 DEF FormInv, PagesExist, OnPage, Stored, Pages
<1>6. Panel'
  BY <1>2 DEF FormInv, Panel, Stored, Pages
<1>. QED BY <1>3, <1>5, <1>6 DEF FormInv

LEMMA UploadForm ==
  ASSUME FormInv, NEW d \in Docs, NEW n \in PageCounts, Upload(d, n)
  PROVE  FormInv'
<1>1. /\ UNCHANGED <<role, active, obra, assigned, signed, author,
                     profile, url, document, file, candidates, area, chosen>>
      /\ pending' \subseteq pending
      /\ versions' = [versions EXCEPT ![d] = Append(@, n)]
  BY DEF Upload, scopeVars, screen
<1>2. /\ versions' \in [Docs -> Seq(PageCounts)]
      /\ \A e \in Docs : versions'[e] # <<>>
      /\ \A f \in Files : Stored(f) => Stored(f)' /\ Pages(f)' = Pages(f)
  BY <1>1, UploadKeeps
<1>3. changes' \in 0..MaxChanges
  BY ChangeBound DEF Upload
<1>4. TypeOK'
  BY <1>1, <1>2, <1>3 DEF FormInv, TypeOK, ScopeTypeOK
<1>5. \A r \in Requests : OnPage(r) => OnPage(r)'
  BY <1>2 DEF Requests, OnPage
<1>6. PagesExist'
  <2>1. \A r \in pending' : OnPage(r)'
    BY <1>1, <1>5 DEF FormInv, TypeOK, PagesExist
  <2>2. \A k \in DOMAIN signed : signed[k] \in Requests /\ OnPage(signed[k])
    BY DEF FormInv, TypeOK, PagesExist
  <2>3. \A k \in DOMAIN signed' : OnPage(signed[k])'
    BY <1>1, <1>5, <2>2
  <2>. QED BY <2>1, <2>3 DEF PagesExist
<1>7. Panel'
  <2>1. file # None => file.of \in Files
    BY DEF FormInv, TypeOK
  <2>2. file' # None => Stored(file.of)' /\ (file'.pages > 0 => Pages(file.of)' > 0)
    BY <1>1, <1>2, <2>1 DEF FormInv, Panel
  <2>. QED BY <1>1, <1>2, <2>2 DEF FormInv, Panel
<1>. QED BY <1>4, <1>6, <1>7 DEF FormInv

LEMMA ChangeScopeForm == FormInv /\ ChangeScope => FormInv'
<1>. SUFFICES ASSUME FormInv, ChangeScope PROVE FormInv'
  OBVIOUS
<1>1. ScopeTypeOK' /\ changes' \in 0..MaxChanges
  BY ScopeTypeStep, ChangeBound DEF ChangeScope, FormInv, TypeOK
<1>2. UNCHANGED <<versions, pending, signed, author, profile, url, document, file,
                  candidates, area, chosen>>
  BY DEF ChangeScope, screen
<1>. QED BY <1>1, <1>2 DEF FormInv, TypeOK, PagesExist, OnPage, Panel, Stored, Pages

LEMMA StepForm == FormInv /\ [Next]_vars => FormInv'
<1>. SUFFICES ASSUME FormInv, [Next]_vars PROVE FormInv'
  OBVIOUS
<1>1. CASE Next
  BY <1>1, ChangeScopeForm, UploadForm, SignForm, SubmitForm, LoadForm, LoadFileForm,
     MarkForm, PressKeyForm DEF Next
<1>2. CASE UNCHANGED vars
  BY <1>2, PanelHolds, LoadsKeep DEF vars, screen, Loads
<1>. QED BY <1>1, <1>2

\* Types, the pages of every request, and what the panel holds.
THEOREM FormCorrect == Spec => []FormInv
  BY InitForm, StepForm, PTL DEF Spec

\* Type correctness for any users, obras and documents.
THEOREM TypeOKHolds == Spec => []TypeOK
<1>1. FormInv => TypeOK
  BY DEF FormInv
<1>. QED BY <1>1, FormCorrect, PTL

\* Every request, signed ones included, is on a page of the version it is
\* recorded on, whatever the form showed when it was asked for.
THEOREM PagesExistHolds == Spec => []PagesExist
<1>1. FormInv => PagesExist
  BY DEF FormInv
<1>. QED BY <1>1, FormCorrect, PTL

\* The area on the form is accepted, and drawn on the page where it was marked.
THEOREM AreaInsideHolds == Spec => []AreaInside
<1>1. ASSUME FormInv PROVE AreaInside
  <2>. SUFFICES ASSUME area # None PROVE AreaInside
    BY DEF AreaInside
  <2>1. Fits(area)
    BY <1>1 DEF FormInv, Panel
  <2>2. \A s \in Sizes : OnThePage(area, s[1], s[2])
    BY <2>1, FitsOnThePage, FormAssumption
  <2>. QED BY <2>1, <2>2 DEF AreaInside, Fits
<1>. QED BY <1>1, FormCorrect, PTL

\* What an up-to-date panel offers is accepted, but for the page the property
\* names.
THEOREM OfferAcceptedHolds == Spec => []OfferAccepted
<1>1. ASSUME FormInv PROVE OfferAccepted
  <2>1. ListedIsReachable
    BY <1>1, RulesAgree DEF FormInv, TypeOK
  <2>. SUFFICES ASSUME MaySubmit, UpToDate, ~OnMissingPage
                PROVE  Accepts(document.doc, chosen, area)
    BY <2>1 DEF OfferAccepted
  <2>2. /\ document # None /\ file # None /\ file.pages > 0 /\ MayMark
        /\ area # None /\ chosen # None
    BY DEF MaySubmit, FormShown
  <2>3. url \in Docs /\ document \in Files /\ Fits(area)
    BY <1>1, <2>2, PanelHolds
  <2>4. document = Current(url) /\ document.doc = url
    BY DEF UpToDate, Current, File
  <2>5. EnsureSignable(document.doc)
    BY <1>1, <2>2, <2>4, PanelHolds DEF UpToDate, Shows, EnsureSignable
  <2>6. EnsurePageExists(document.doc, area)
    <3>1. Pages(document) \in Nat /\ area.pagina \in Nat
      BY <1>1, <2>3, <2>4, CurrentStored DEF Fits
    <3>. QED BY <2>4, <3>1 DEF OnMissingPage, EnsurePageExists
  <2>7. Served /\ MayRequest
    BY <2>2 DEF UpToDate, MayMark, MayRequest
  <2>8. Home \in Live
    BY <1>1, <2>7, FormAssumption
       DEF FormInv, TypeOK, ScopeTypeOK, Served, CanAccessObra, AccessibleObraIds, Live, States
  <2>9. active[chosen] /\ CanAccessObra(chosen, Home)
    BY <2>1, <2>8 DEF UpToDate, ListedIsReachable
  <2>. QED BY <2>3, <2>5, <2>6, <2>7, <2>9 DEF Accepts, Fits
<1>. QED BY <1>1, FormCorrect, PTL

(***************************************************************************)
(* The copy.                                                               *)
(***************************************************************************)

\* Facts about finite sets, as they are used below.
LEMMA SubsetCount ==
  ASSUME NEW S, IsFiniteSet(S), NEW T, T \subseteq S
  PROVE  /\ IsFiniteSet(T) /\ Cardinality(T) \in Nat /\ Cardinality(S) \in Nat
         /\ Cardinality(T) <= Cardinality(S)
  BY FS_Subset, FS_CardinalityType

LEMMA WithoutOne ==
  ASSUME NEW S, IsFiniteSet(S), NEW x \in S
  PROVE  Cardinality(S \ {x}) = Cardinality(S) - 1
  BY FS_RemoveElement

LEMMA LeastNat ==
  ASSUME NEW T, T \subseteq Nat, T # {}
  PROVE  \E m \in T : \A k \in T : m <= k
<1>1. PICK m \in T : \A k \in T : <<k, m>> \notin OpToRel(<, Nat)
  BY WFMin, NatLessThanWellFounded
<1>2. ASSUME NEW k \in T PROVE m <= k
  <2>1. k \in Nat /\ m \in Nat
    OBVIOUS
  <2>2. ~(k < m)
    BY <1>1, <2>1 DEF OpToRel
  <2>. QED BY <2>1, <2>2
<1>. QED BY <1>2

LEMMA GreatestBelow ==
  ASSUME NEW T, T \subseteq Nat, T # {}, NEW m \in Nat, \A k \in T : k <= m
  PROVE  \E x \in T : \A k \in T : k <= x
<1>. DEFINE depths == {m - k : k \in T}
<1>1. depths \subseteq Nat /\ depths # {}
  <2>1. PICK k \in T : TRUE
    OBVIOUS
  <2>2. m - k \in depths
    OBVIOUS
  <2>3. \A i \in T : m - i \in Nat
    OBVIOUS
  <2>. QED BY <2>2, <2>3
<1>. HIDE DEF depths
<1>2. PICK least \in depths : \A n \in depths : least <= n
  BY <1>1, LeastNat
<1>3. PICK x \in T : least = m - x
  BY DEF depths
<1>4. ASSUME NEW k \in T PROVE k <= x
  <2>1. m - x <= m - k
    BY <1>2, <1>3 DEF depths
  <2>2. x \in Nat /\ k \in Nat
    OBVIOUS
  <2>. QED BY <2>1, <2>2
<1>. QED BY <1>4

\* The sheet holds a signature together with all earlier ones, and leaves out
\* the later ones only when all its rows are taken.
LEMMA SheetClosed ==
  ASSUME NEW S, S \subseteq Nat, IsFiniteSet(S),
         NEW k \in ConferencePage(S), NEW j \in S, j <= k
  PROVE  j \in ConferencePage(S)
<1>. DEFINE Before(i) == {l \in S : l < i}
<1>1. k \in S /\ Cardinality(Before(k)) < SheetRows
  BY DEF ConferencePage
<1>2. Before(j) \subseteq Before(k) /\ Before(k) \subseteq S
  <2>1. j \in Nat /\ k \in Nat
    BY <1>1
  <2>2. \A l \in S : l \in Nat /\ (l < j => l < k)
    BY <2>1
  <2>. QED BY <2>2
<1>. HIDE DEF Before
<1>3. /\ Cardinality(Before(j)) \in Nat /\ Cardinality(Before(k)) \in Nat
      /\ Cardinality(Before(j)) <= Cardinality(Before(k))
  BY <1>2, SubsetCount
<1>4. Cardinality(Before(j)) < SheetRows
  BY <1>1, <1>3, AreaAssumption
<1>. QED BY <1>4 DEF Before, ConferencePage

LEMMA SheetFull ==
  ASSUME NEW S, S \subseteq Nat, IsFiniteSet(S), ConferencePage(S) # S
  PROVE  Cardinality(ConferencePage(S)) = SheetRows
<1>. DEFINE sheet == ConferencePage(S)
            Before(i) == {l \in S : l < i}
<1>1. /\ sheet \subseteq S /\ sheet # S
      /\ \A k \in S : k \in sheet <=> Cardinality(Before(k)) < SheetRows
  BY DEF ConferencePage
<1>2. \A i : \A k : k \in Before(i) <=> k \in S /\ k < i
  OBVIOUS
<1>3. \A k \in sheet, j \in S : j <= k => j \in sheet
  BY SheetClosed
<1>. HIDE DEF sheet, Before
<1>4. S \ sheet \subseteq Nat /\ S \ sheet # {}
  BY <1>1
<1>5. PICK m \in S \ sheet : \A k \in S \ sheet : m <= k
  BY <1>4, LeastNat
<1>6. sheet = Before(m)
  <2>1. ASSUME NEW k \in Before(m) PROVE k \in sheet
    <3>1. k \in Nat /\ m \in Nat /\ k < m /\ k \in S
      BY <1>2
    <3>. QED BY <1>5, <3>1
  <2>2. ASSUME NEW k \in sheet PROVE k \in Before(m)
    <3>1. k \in Nat /\ m \in Nat /\ k \in S
      BY <1>1
    <3>2. ~(m <= k)
      BY <1>5, <1>3
    <3>. QED BY <1>2, <3>1, <3>2
  <2>. QED BY <2>1, <2>2
<1>7. IsFiniteSet(sheet) /\ Cardinality(sheet) \in Nat
  BY <1>1, SubsetCount
<1>8. Cardinality(sheet) >= SheetRows
  BY <1>1, <1>5, <1>6, <1>7, AreaAssumption
<1>9. ASSUME Cardinality(sheet) > SheetRows PROVE FALSE
  <2>1. sheet # {}
    BY <1>9, FS_EmptySet, AreaAssumption
  <2>2. sheet \subseteq Nat /\ m \in Nat /\ \A k \in sheet : k <= m
    <3>1. m \in Nat /\ sheet \subseteq Nat
      BY <1>1
    <3>2. ASSUME NEW k \in sheet PROVE k <= m
      <4>1. k < m /\ k \in Nat
        BY <1>6, <1>2, <3>1
      <4>. QED BY <3>1, <4>1
    <3>. QED BY <3>1, <3>2
  <2>3. PICK x \in sheet : \A k \in sheet : k <= x
    BY <2>1, <2>2, GreatestBelow
  <2>4. Before(x) = sheet \ {x}
    <3>1. ASSUME NEW k \in Before(x) PROVE k \in sheet \ {x}
      <4>1. k \in S /\ k \in Nat /\ x \in Nat /\ k < x
        BY <1>2, <2>2
      <4>2. k \in sheet
        BY <1>3, <4>1
      <4>. QED BY <4>1, <4>2
    <3>2. ASSUME NEW k \in sheet \ {x} PROVE k \in Before(x)
      <4>1. k \in S /\ k \in Nat /\ x \in Nat /\ k <= x /\ k # x
        BY <1>1, <2>2, <2>3
      <4>. QED BY <1>2, <4>1
    <3>. QED BY <3>1, <3>2
  <2>5. Cardinality(Before(x)) = Cardinality(sheet) - 1
    BY <1>7, <2>4, WithoutOne
  <2>6. Cardinality(Before(x)) < SheetRows
    BY <1>1
  <2>. QED BY <1>7, <1>9, <2>5, <2>6, AreaAssumption
<1>. QED BY <1>7, <1>8, <1>9, AreaAssumption DEF sheet

\* The instants at which one version was signed, and where its rubrics are.
LEMMA SignedInstants ==
  ASSUME FormInv, NEW f
  PROVE  /\ SignedOn(f) \subseteq Nat /\ IsFiniteSet(SignedOn(f))
         /\ \A k \in SignedOn(f) : Stored(f) /\ signed[k].pagina \in 1..Pages(f)
<1>1. signed \in Seq(Requests)
  BY DEF FormInv, TypeOK
<1>2. DOMAIN signed = 1..Len(signed) /\ Len(signed) \in Nat
  BY <1>1
<1>3. SignedOn(f) \subseteq 1..Len(signed)
  BY <1>2 DEF SignedOn
<1>4. IsFiniteSet(1..Len(signed))
  BY <1>2, FS_Interval
<1>5. IsFiniteSet(SignedOn(f))
  BY <1>3, <1>4, SubsetCount
<1>6. ASSUME NEW k \in SignedOn(f) PROVE Stored(f) /\ signed[k].pagina \in 1..Pages(f)
  <2>1. k \in DOMAIN signed /\ signed[k] \in Requests /\ signed[k].on = f
    BY <1>1 DEF SignedOn
  <2>2. OnPage(signed[k]) /\ signed[k].pagina \in Nat \ {0} /\ f \in Files
    BY <2>1 DEF FormInv, PagesExist, Requests
  <2>3. Stored(f) /\ signed[k].pagina <= Pages(f)
    BY <2>1, <2>2 DEF OnPage
  <2>4. Pages(f) \in Nat
    <3>1. f.doc \in Docs /\ f.v \in DOMAIN versions[f.doc]
      BY <2>2, <2>3 DEF Files, Stored
    <3>2. versions[f.doc] \in Seq(PageCounts)
      BY <3>1 DEF FormInv, TypeOK
    <3>3. versions[f.doc][f.v] \in PageCounts
      BY <3>1, <3>2
    <3>. QED BY <3>3, FormAssumption DEF Pages
  <2>. QED BY <2>2, <2>3, <2>4
<1>. QED BY <1>2, <1>3, <1>5, <1>6

\* In the stamped copy of any version every signature appears, on one page that
\* exists; the conference page lists the earliest ones, all of them while they fit.
THEOREM StampShowsAllHolds == Spec => []StampShowsAll
<1>1. ASSUME FormInv PROVE StampShowsAll
  <2>. SUFFICES ASSUME NEW d \in Docs, NEW v \in DOMAIN versions[d]
                PROVE  LET f == File(d, v)
                           copy == Stamped(f)
                       IN /\ \A k \in SignedOn(f) : \E p \in 1..Pages(f) : k \in copy.rubrics[p]
                          /\ copy.sheet # SignedOn(f) => Cardinality(copy.sheet) = SheetRows
                          /\ \A k \in copy.sheet, j \in SignedOn(f) : j < k => j \in copy.sheet
    BY DEF StampShowsAll
  <2>. DEFINE f == File(d, v)
              copy == Stamped(f)
              placed == IF Pages(f) = 0 THEN <<>> ELSE Placements(f)
  <2>. HIDE DEF f
  <2>1. /\ SignedOn(f) \subseteq Nat /\ IsFiniteSet(SignedOn(f))
        /\ \A k \in SignedOn(f) : signed[k].pagina \in 1..Pages(f)
    BY <1>1, SignedInstants
  <2>2. Pages(f) = 0 => SignedOn(f) = {}
    BY <2>1
  <2>3. DOMAIN placed = SignedOn(f) /\ \A k \in SignedOn(f) : placed[k] = signed[k]
    <3>1. CASE Pages(f) = 0
      BY <2>2, <3>1
    <3>2. CASE Pages(f) # 0
      BY <3>2 DEF Placements
    <3>. QED BY <3>1, <3>2
  <2>4. copy = StampPdf(Pages(f), placed)
    BY DEF Stamped
  <2>. HIDE DEF copy, placed
  <2>5. copy.sheet = ConferencePage(SignedOn(f))
    BY <2>3, <2>4 DEF StampPdf
  <2>6. ASSUME NEW k \in SignedOn(f)
        PROVE  k \in copy.rubrics[signed[k].pagina] /\ signed[k].pagina \in 1..Pages(f)
    BY <2>1, <2>3, <2>4, <2>6 DEF StampPdf
  <2>7. copy.sheet # SignedOn(f) => Cardinality(copy.sheet) = SheetRows
    BY <2>1, <2>5, SheetFull
  <2>8. ASSUME NEW k \in copy.sheet, NEW j \in SignedOn(f), j < k PROVE j \in copy.sheet
    <3>1. k \in Nat /\ j \in Nat
      BY <2>1, <2>5 DEF ConferencePage
    <3>2. j <= k
      BY <2>8, <3>1
    <3>. QED BY <2>1, <2>5, <2>8, <3>2, SheetClosed
  <2>. QED BY <2>6, <2>7, <2>8 DEF f, copy
<1>. QED BY <1>1, FormCorrect, PTL
=============================================================================
