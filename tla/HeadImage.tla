----------------------------- MODULE HeadImage -----------------------------
(***************************************************************************)
(* The head image of a chat room (uchat/special.go): up to nine members'   *)
(* images on a square board of two by two or three by three units.  Which  *)
(* images are drawn, and where.  Coordinates are pixels from the upper     *)
(* left corner; images are numbered from 0 as in the code.                 *)
(***************************************************************************)
EXTENDS Integers, Sequences

CONSTANTS
  Size,    \* DefaultChatRoomHeadSizeUnit: a unit, and the size of an image
  Padding  \* DefaultChatRoomHeadPadding: between the units and around them

ASSUME HeadImageAssumption ==
  /\ Size \in Nat \ {0}
  /\ Padding \in Nat

Unit == Size + Padding
Half == Unit \div 2

\* Where column or row c of the board begins
Cell(c) == c * Unit + Padding

At(x, y) == [x |-> x, y |-> y]

-----------------------------------------------------------------------------
(* One writer per number of images: where image i is drawn.                *)

WriteImage1(i) == At(Padding + Half, Padding + Half)

WriteImage2(i) == At(Cell(i % 2), Padding + Half)

WriteImage3(i) ==
  IF i = 0 THEN At(Cell(i % 2) + Half, Cell(i \div 2))
  ELSE At(Cell((i + 1) % 2), Cell((i + 1) \div 2))

WriteImage4(i) == At(Cell(i % 2), Cell(i \div 2))

WriteImage5(i) ==
  IF i < 2 THEN At(Cell(i % 3) + Half, Cell(i \div 3) + Half)
  ELSE At(Cell((i + 1) % 3), Cell((i + 1) \div 3) + Half)

WriteImage6(i) == At(Cell(i % 3), Cell(i \div 3) + Half)

\* Mutant: the image on top is not moved to the middle.
WriteImage7Left(i) ==
  IF i < 1 THEN At(Cell(i % 3), Cell(i \div 3))
  ELSE At(Cell((i + 2) % 3), Cell((i + 2) \div 3))

WriteImage7(i) ==
  IF i < 1 THEN At(Cell(i % 3) + Unit, Cell(i \div 3))
  ELSE At(Cell((i + 2) % 3), Cell((i + 2) \div 3))

WriteImage8(i) ==
  IF i < 2 THEN At(Cell(i % 3) + Half, Cell(i \div 3))
  ELSE At(Cell((i + 1) % 3), Cell((i + 1) \div 3))

WriteImage9(i) == At(Cell(i % 3), Cell(i \div 3))

\* writeImages: the writer for n images
Place(n, i) ==
  CASE n = 1 -> WriteImage1(i)
    [] n = 2 -> WriteImage2(i)
    [] n = 3 -> WriteImage3(i)
    [] n = 4 -> WriteImage4(i)
    [] n = 5 -> WriteImage5(i)
    [] n = 6 -> WriteImage6(i)
    [] n = 7 -> WriteImage7(i)
    [] n = 8 -> WriteImage8(i)
    [] OTHER -> WriteImage9(i)

\* rectangle_2 and rectangle_3: the side of the board
Rectangle2 == 2 * Size + 3 * Padding
Rectangle3 == 3 * Size + 4 * Padding
Board(n) == IF n <= 4 THEN Rectangle2 ELSE Rectangle3

\* Writer 9 draws the first nine.
Drawn(n) == IF n > 9 THEN 9 ELSE n

-----------------------------------------------------------------------------
(* The images that are fetched, in the order of the members.  The outcome  *)
(* of a fetch is "jpeg", "other" (no JPEG: left out), or "error".          *)

\* Mutant: one image too many.
AddOneMore(images, i, outcome, limit) ==
  IF outcome = "jpeg" /\ ~(limit > 0 /\ Len(images) > limit) THEN Append(images, i) ELSE images

\* SetImages, the loop over AddImage: one more image of the list.
Add(images, i, outcome, limit) ==
  IF outcome = "jpeg" /\ ~(limit > 0 /\ Len(images) = limit) THEN Append(images, i) ELSE images

Fetched(outcomes, limit) ==
  LET f[k \in 0..Len(outcomes)] ==
        IF k = 0 THEN <<>> ELSE Add(f[k - 1], k, outcomes[k], limit)
  IN  f

\* An error of any fetch that is made fails them all.
SetImagesFails(outcomes, limit) ==
  \E k \in DOMAIN outcomes :
    /\ outcomes[k] = "error"
    /\ ~(limit > 0 /\ Len(Fetched(outcomes, limit)[k - 1]) = limit)

SetImages(outcomes, limit) == Fetched(outcomes, limit)[Len(outcomes)]

-----------------------------------------------------------------------------
(* What it is for.                                                         *)

\* Two images do not overlap, with the padding between them, and none leaves
\* the board.
Apart(n, i, j) ==
  LET p == Place(n, i)
      q == Place(n, j)
  IN  \/ p.x + Unit <= q.x \/ q.x + Unit <= p.x
      \/ p.y + Unit <= q.y \/ q.y + Unit <= p.y
Inside(n, i) ==
  LET p == Place(n, i)
  IN  /\ Padding <= p.x /\ p.x + Unit <= Board(n)
      /\ Padding <= p.y /\ p.y + Unit <= Board(n)

\* The reference: rows of two or three, the first row takes what the full rows
\* leave, and every row and the block of rows are centred.
Width(n) == IF n <= 4 THEN 2 ELSE 3
Rows(n) == ((n - 1) \div Width(n)) + 1
Top(n) == n - (Rows(n) - 1) * Width(n)
RowOf(n, i) == IF i < Top(n) THEN 0 ELSE ((i - Top(n)) \div Width(n)) + 1
ColumnOf(n, i) == IF i < Top(n) THEN i ELSE (i - Top(n)) % Width(n)
InRow(n, r) == IF r = 0 THEN Top(n) ELSE Width(n)
Reference(n, i) ==
  LET r == RowOf(n, i)
  IN  At(Cell(ColumnOf(n, i)) + ((Width(n) - InRow(n, r)) * Unit) \div 2,
         Cell(r) + ((Width(n) - Rows(n)) * Unit) \div 2)
=============================================================================
