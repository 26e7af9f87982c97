--------------------------- MODULE SignatureArea ---------------------------
(***************************************************************************)
(* The area of a signature: how the editor draws and moves it              *)
(* (VisualizadorPdf.tsx), what the server accepts of it                    *)
(* (services/signature_requests.py), and where it ends up on the stamped   *)
(* PDF (services/pdf_stamp.py).                                            *)
(*                                                                         *)
(* Fractions of the page are integers from 0 to Unit.  Doubles agree with  *)
(* them at the border: limitar yields 1 - x, and x + (1 - x) is exactly 1  *)
(* in IEEE arithmetic for x in 0..1, so the server's `x + largura > 1`     *)
(* does not refuse what the editor keeps inside.                           *)
(***************************************************************************)
EXTENDS Integers, FiniteSets

CONSTANTS
  Unit,       \* the side of the page
  MinSide,    \* 0.02: least width, and least height of a resized area
  MinHeight,  \* 0.01: least height of a drawn area
  Passo, PassoGrande,  \* steps of the keyboard
  SheetRows   \* signatures that fit the conference page before y < 20 mm

ASSUME AreaAssumption ==
  /\ Unit \in Nat /\ MinSide \in 1..Unit /\ MinHeight \in 1..MinSide
  /\ Passo \in Nat /\ PassoGrande \in Nat /\ SheetRows \in Nat

Smaller(a, b) == IF a < b THEN a ELSE b
Larger(a, b) == IF a > b THEN a ELSE b
Distance(a, b) == IF a > b THEN a - b ELSE b - a
\* Mutant of limitar: the minimum wins.
limitarMinimo(valor, minimo, maximo) == Larger(minimo, Smaller(maximo, valor))
limitar(valor, minimo, maximo) == Smaller(maximo, Larger(minimo, valor))

Places == 0..Unit
Areas == [pagina: Nat \ {0}, x: Places, y: Places, largura: Places, altura: Places]

\* moverArea: the keys move the area, or resize it with Alt.
ResizedX(a, delta) == [a EXCEPT !.largura = limitar(@ + delta, MinSide, Unit - a.x)]
ResizedY(a, delta) == [a EXCEPT !.altura = limitar(@ + delta, MinSide, Unit - a.y)]
MovedX(a, delta) == [a EXCEPT !.x = limitar(@ + delta, 0, Unit - a.largura)]
MovedY(a, delta) == [a EXCEPT !.y = limitar(@ + delta, 0, Unit - a.altura)]
Deltas == {Passo, -Passo, PassoGrande, -PassoGrande}
moverArea(a) == UNION {{ResizedX(a, d), ResizedY(a, d), MovedX(a, d), MovedY(a, d)} : d \in Deltas}

\* soltar: the rectangle between two points of the page; a loose click is none.
Drawn(pagina, inicio, fim) ==
  [pagina |-> pagina,
   x |-> Smaller(inicio[1], fim[1]), y |-> Smaller(inicio[2], fim[2]),
   largura |-> Distance(fim[1], inicio[1]), altura |-> Distance(fim[2], inicio[2])]
IsArea(a) == a.largura >= MinSide /\ a.altura >= MinHeight

-----------------------------------------------------------------------------
ValidateArea(a) ==
  /\ a.largura > 0 /\ a.altura > 0
  /\ a.x >= 0 /\ a.y >= 0 /\ a.x + a.largura <= Unit /\ a.y + a.altura <= Unit

\* On a page of `width` by `height` points, in Units of a point, origin at the
\* bottom: the vertical axis is flipped here and nowhere else.
to_pdf_rect(a, width, height) ==
  [x |-> a.x * width, y |-> Unit * height - (a.y + a.altura) * height,
   largura |-> a.largura * width, altura |-> a.altura * height]

\* The rubric lies on the page, as far from its top as it was drawn.
OnThePage(a, width, height) ==
  LET rect == to_pdf_rect(a, width, height) IN
  /\ rect.x >= 0 /\ rect.x + rect.largura <= Unit * width
  /\ rect.y >= 0 /\ rect.y + rect.altura = Unit * height - a.y * height

-----------------------------------------------------------------------------
\* The last page lists who signed, earliest first, until it is full.
ConferencePage(instants) ==
  {k \in instants : Cardinality({j \in instants : j < k}) < SheetRows}

\* A copy of a PDF of `pages` pages, for placements by instant of signing: the
\* rubrics of each page, and the sheet that is one page more.  Without
\* signatures it is what was stored.
StampPdf(pages, colocacoes) ==
  [pages |-> IF DOMAIN colocacoes = {} THEN pages ELSE pages + 1,
   rubrics |-> [p \in 1..pages |->
                 {k \in DOMAIN colocacoes : colocacoes[k].pagina = p}],
   sheet |-> ConferencePage(DOMAIN colocacoes)]
=============================================================================
