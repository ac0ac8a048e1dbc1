--------------------------------- MODULE Window ---------------------------------
(***************************************************************************)
(* A window somebody drags, and a dashboard that is laid out for it again:   *)
(* statusBar.wantedLayout over the sizes terminalSize answers.              *)
(***************************************************************************)
EXTENDS Layout

CONSTANTS
  Widths, Heights,  \* those of the window, the input line's row already taken off
  Codes,            \* sizes of the codes the owner may switch between
  Grids             \* heights of the status grid: one row for every address

VARIABLE room

vars == <<room>>

Rooms ==
  [termW : Widths, termH : Heights, qrW : {c[1] : c \in Codes}, qrH : {c[2] : c \in Codes},
   gridH : Grids, head : {0}, foot : {0}]

\* What the theorems about this module ask of its constants.
ConstantsOK ==
  /\ Widths \cup Heights \subseteq Int /\ Grids \subseteq Nat
  /\ \A c \in Codes : c[1] \in Nat /\ c[2] \in Nat

\* A window is dragged from its narrowest, with one of the codes.
Narrowest(r) == <<r.qrW, r.qrH>> \in Codes /\ \A w \in Widths : w >= r.termW

Init == room \in Rooms /\ Narrowest(room)

\* One column or one row at a time.
Drag ==
  \E dw, dh \in {-1, 0, 1} :
    /\ room.termW + dw \in Widths /\ room.termH + dh \in Heights
    /\ dw = 0 \/ dh = 0
    /\ room' = [room EXCEPT !.termW = @ + dw, !.termH = @ + dh]

\* `qr <n>`: the code of another address.
ShowQR == \E c \in Codes : room' = [room EXCEPT !.qrW = c[1], !.qrH = c[2]]

Next == Drag \/ ShowQR

Spec == Init /\ [][Next]_vars

-----------------------------------------------------------------------------
layout == ComputeLayout(room)

TypeOK == room \in Rooms

\* The rule the layout rests on: no two parts that are drawn once share a place, none of
\* them is in the rows the log scrolls, and all are in the window, in every window with
\* room for the header and the log.  (computeLayout and the three placements.)
Roomy == room.termH >= BlockRow([head |-> BannerHeight(room.termW)]) + minLogRows /\ room.termW >= 15

PartsStayApart == LET l == layout IN Roomy => NoOverlap(l) /\ AllInWindow(l)

\* A code is dropped only for want of room: a window that has it goes on having it as it
\* grows, whatever shape that turns the rest into.  (computeLayout.)
GrowingKeepsTheCode ==
  [][room'.termW >= room.termW /\ room'.termH >= room.termH /\ room'.qrW = room.qrW
       /\ room'.qrH = room.qrH /\ room'.gridH = room.gridH
       /\ layout.qrBoxH > 0 => layout'.qrBoxH > 0]_vars

\* A window without a code lists every address: the grid is whole if it fits once the
\* banner and the command list have given way.  (placeWithoutCode.)
AddressesAreListed ==
  LET bare == [room EXCEPT !.head = shortBannerRows, !.foot = 0] IN
  BlockRow(bare) + room.gridH <= LastDrawableRow(room.termH) + 1 => layout.gridRows = room.gridH

\* In every window of ten rows or more nothing that is drawn once is in the log's rows.
NothingReachesIntoTheLog ==
  LET l == layout IN
  room.termW >= 15 /\ room.termH >= 10 => \A i \in 1 .. 5 : Apart(Pieces(l)[i], Log(l))
=============================================================================
