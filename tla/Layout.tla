--------------------------------- MODULE Layout ---------------------------------
(***************************************************************************)
(* Where the dashboard puts its parts: cmd/leavesafe/layout.go, and how many *)
(* rows the parts of main.go take that are drawn once.                      *)
(*                                                                         *)
(* A room is a window, the code and the grid that have to go in it, and the  *)
(* rows this attempt allows the banner and the command list.  Only rows and  *)
(* columns are here; what is written in them is not.                        *)
(***************************************************************************)
EXTENDS Integers

qrIndent == 2
gap == 3
bannerRows == 8
bannerWidth == 77
shortBannerRows == 2
scanLabelRows == 1
footerRows == 3
minLogRows == 3
minGridWidth == 34
maxGridWidth == 50
floorGridWidth == 12

Least(a, b) == IF a < b THEN a ELSE b
Most(a, b) == IF a > b THEN a ELSE b

LastDrawableRow(termH) == Most(termH - minLogRows, 1)

BannerHeight(termW) == IF termW < bannerWidth THEN shortBannerRows ELSE bannerRows

ClampGridWidth(available) == Most(Least(available, maxGridWidth), floorGridWidth)

BlockRow(r) == r.head + scanLabelRows + 2

\* The parts every shape shares.
NewLayout(r) ==
  [termW |-> r.termW, termH |-> r.termH, headRows |-> r.head, labelRow |-> BlockRow(r) - 1,
   logRow |-> BlockRow(r), footerShown |-> r.foot > 0,
   qrRow |-> 0, qrCol |-> 0, qrBoxW |-> 0, qrBoxH |-> 0,
   gridRow |-> 0, gridCol |-> 0, gridWidth |-> 0, gridRows |-> 0]

FitsSideBySide(r) ==
  /\ r.qrH # 0 /\ qrIndent + r.qrW + gap + minGridWidth <= r.termW
  /\ BlockRow(r) + Most(r.qrH, r.gridH) + r.foot <= LastDrawableRow(r.termH)

\* Each column is centred against the taller of the two.
PlaceSideBySide(r) ==
  LET block == Most(r.qrH, r.gridH)
      col == qrIndent + r.qrW + gap + 1
  IN [NewLayout(r) EXCEPT
        !.qrCol = qrIndent + 1, !.qrBoxW = r.qrW, !.qrBoxH = r.qrH,
        !.gridCol = col, !.gridWidth = ClampGridWidth(r.termW - col),
        !.qrRow = BlockRow(r) + (block - r.qrH) \div 2,
        !.gridRow = BlockRow(r) + (block - r.gridH) \div 2,
        !.logRow = BlockRow(r) + block + r.foot, !.gridRows = r.gridH]

FitsStacked(r) ==
  /\ r.qrH # 0 /\ qrIndent + r.qrW <= r.termW
  /\ BlockRow(r) + r.qrH + 1 + r.gridH + r.foot <= LastDrawableRow(r.termH)

\* Mutant: the log begins where it would without the blank row.
PlaceStackedTight(r) ==
  LET row == BlockRow(r) + r.qrH + 1 IN
  [NewLayout(r) EXCEPT
     !.qrCol = qrIndent + 1, !.qrRow = BlockRow(r), !.qrBoxW = r.qrW, !.qrBoxH = r.qrH,
     !.gridCol = qrIndent + 1, !.gridWidth = ClampGridWidth(r.termW - (qrIndent + 1)),
     !.gridRow = row, !.logRow = row - 1 + r.gridH + r.foot, !.gridRows = r.gridH]

PlaceStacked(r) ==
  LET row == BlockRow(r) + r.qrH + 1 IN
  [NewLayout(r) EXCEPT
     !.qrCol = qrIndent + 1, !.qrRow = BlockRow(r), !.qrBoxW = r.qrW, !.qrBoxH = r.qrH,
     !.gridCol = qrIndent + 1, !.gridWidth = ClampGridWidth(r.termW - (qrIndent + 1)),
     !.gridRow = row, !.logRow = row + r.gridH + r.foot, !.gridRows = r.gridH]

\* The code is dropped, and the command list with it if the grid needs its rows; a grid
\* that still does not fit is cut where the log begins.
PlaceWithoutCode(r) ==
  LET row == BlockRow(r)
      foot == IF row + r.gridH + r.foot > LastDrawableRow(r.termH) THEN 0 ELSE r.foot
      log == Least(row + r.gridH + foot, LastDrawableRow(r.termH) + 1)
  IN [NewLayout(r) EXCEPT
        !.gridCol = qrIndent + 1, !.gridWidth = ClampGridWidth(r.termW - (qrIndent + 1)),
        !.gridRow = row, !.footerShown = foot > 0, !.logRow = log,
        !.gridRows = Most(Least(r.gridH, log - foot - row), 0)]

\* Mutant: the banner stays whatever it costs.
AttemptsTall(r) ==
  LET With(head, foot) == [r EXCEPT !.head = head, !.foot = foot]
      tall == BannerHeight(r.termW)
  IN <<With(tall, footerRows), With(tall, footerRows), With(tall, 0), With(tall, 0)>>

\* In priority order: the banner gives way first, then the command list, then the shape,
\* and only then the code.
Attempts(r) ==
  LET With(head, foot) == [r EXCEPT !.head = head, !.foot = foot]
      tall == BannerHeight(r.termW)
  IN <<With(tall, footerRows), With(shortBannerRows, footerRows),
       With(tall, 0), With(shortBannerRows, 0)>>

ComputeLayout(r) ==
  LET a == Attempts(r)
      first == {i \in 1 .. 4 : FitsSideBySide(a[i]) \/ FitsStacked(a[i])}
  IN IF first = {} THEN PlaceWithoutCode(a[1])
     ELSE LET n == CHOOSE i \in first : \A j \in first : i <= j
          IN IF FitsSideBySide(a[n]) THEN PlaceSideBySide(a[n]) ELSE PlaceStacked(a[n])

-----------------------------------------------------------------------------
(***************************************************************************)
(* The rows and columns each part is drawn in: what drawHeader,              *)
(* drawScanLabel, drawQR, drawGrid, drawFooter and the scrolling region take. *)
(***************************************************************************)
Box(top, rows, left, cols) == [top |-> top, rows |-> rows, left |-> left, cols |-> cols]

Header(l) == Box(1, IF l.headRows >= bannerRows THEN bannerRows ELSE shortBannerRows, 1, l.termW)
ScanLabel(l) == Box(l.labelRow, 1, 1, l.termW)
QR(l) == Box(l.qrRow, l.qrBoxH, l.qrCol, l.qrBoxW)
Grid(l) == Box(l.gridRow, l.gridRows, l.gridCol, l.gridWidth)
Footer(l) == Box(l.logRow - 2, IF l.footerShown THEN 2 ELSE 0, 1, l.termW)
Log(l) == Box(l.logRow, l.termH - l.logRow + 1, 1, l.termW)

Pieces(l) == <<Header(l), ScanLabel(l), QR(l), Grid(l), Footer(l), Log(l)>>

Apart(a, b) ==
  \/ a.rows <= 0 \/ b.rows <= 0
  \/ a.top + a.rows <= b.top \/ b.top + b.rows <= a.top
  \/ a.left + a.cols <= b.left \/ b.left + b.cols <= a.left

InWindow(l, a) ==
  a.rows > 0 => /\ a.top >= 1 /\ a.top + a.rows - 1 <= l.termH
                /\ a.left >= 1 /\ a.left + a.cols - 1 <= l.termW

NoOverlap(l) ==
  LET p == Pieces(l) IN \A i, j \in DOMAIN p : i < j => Apart(p[i], p[j])

AllInWindow(l) == LET p == Pieces(l) IN \A i \in DOMAIN p : InWindow(l, p[i])
=============================================================================
