-------------------------- MODULE SmallPartsProofs --------------------------
(***************************************************************************)
(* The small parts.  A caller who reads the switch of the short links      *)
(* after a whole probe gets what the service deserves, for any number of   *)
(* callers and changes; head images fit on their board, whatever the size  *)
(* of an image; ids below 2^50 and no others are read back; and the bot    *)
(* keeps its hours.                                                        *)
(***************************************************************************)
EXTENDS ShortUrl, MCAlgorithms, FiniteSetTheorems, SequenceTheorems,
        WellFoundedInduction, TLAPS

-----------------------------------------------------------------------------
(* Short links: the inductive invariant.                                   *)

\* The variables the argument reads have their types.
Types ==
  /\ enabled \in BOOLEAN
  /\ site \in BOOLEAN
  /\ current \in BOOLEAN
  /\ begun \in BOOLEAN
  /\ caller \in [Callers -> {"idle", "ask", "hung"}]
  /\ result \in [Callers -> {"none", "long", "short", "dead"}]
  /\ fresh \in [Callers -> BOOLEAN]

\* A probe that began since the last change visits what the service shortened.
VisitsShort == begun /\ probe = "visit" => api = "shorten"

\* After a whole probe, and until the next change, the switch is right, and the
\* next probe began after that change as well.
SwitchRight == current => begun /\ enabled = Works

\* Whoever read the switch since then, and asks, asks a service that works.
AsksWorking ==
  \A c \in Callers :
    /\ fresh[c] => current
    /\ fresh[c] /\ caller[c] = "ask" => Works

Inv == Types /\ VisitsShort /\ SwitchRight /\ AsksWorking /\ FreshAnswers

LEMMA InitInv == Init => Inv
BY DEF Init, Inv, Types, VisitsShort, SwitchRight, AsksWorking, FreshAnswers

\* A panic leaves nothing of what was read before.
LEMMA DieInv ==
  ASSUME Inv, Die, UNCHANGED service
  PROVE  Inv'
BY DEF Inv, Types, VisitsShort, SwitchRight, AsksWorking, FreshAnswers, Die, service

\* A change makes everything that is known out of date.
LEMMA ChangeInv ==
  ASSUME Inv, Change
  PROVE  Inv'
BY DEF Inv, Types, VisitsShort, SwitchRight, AsksWorking, FreshAnswers, Change

\* The probe: what it finds is what the service does, unless that changed since
\* it began.
LEMMA ProbeInv ==
  ASSUME Inv, Probe, UNCHANGED service
  PROVE  Inv'
<1> USE DEF Inv, Types, VisitsShort, SwitchRight, AsksWorking, FreshAnswers, Works, service
<1>1. CASE Timer
  BY <1>1 DEF Timer
<1>2. CASE AskService
  <2>1. CASE api = "shorten" /\ probe' = "visit" /\ UNCHANGED <<enabled, up, current, begun>>
    BY <1>2, <2>1 DEF AskService
  <2>2. CASE api = "fail" /\ Switch(FALSE)
    BY <1>2, <2>2 DEF AskService, Switch
  <2>3. CASE api = "hang" /\ probe' = "hung" /\ UNCHANGED <<enabled, up, current, begun>>
    BY <1>2, <2>3 DEF AskService
  <2> QED
    BY <1>2, <2>1, <2>2, <2>3 DEF AskService
<1>3. CASE Visit
  BY <1>3 DEF Visit, Switch
<1> QED
  BY <1>1, <1>2, <1>3 DEF Probe

\* A caller that comes: it keeps its long link only if the switch is off.
LEMMA BeginInv ==
  ASSUME Inv, NEW c \in Callers, Begin(c), UNCHANGED service
  PROVE  Inv'
<1> USE DEF Inv, Types, VisitsShort, SwitchRight, AsksWorking, FreshAnswers, Works, service
<1>1. CASE enabled
  BY <1>1 DEF Begin
<1>2. CASE ~enabled
  BY <1>2 DEF Begin
<1> QED
  BY <1>1, <1>2

\* An answer: a service that works shortens, and its links lead somewhere.
LEMMA AnswerInv ==
  ASSUME Inv, NEW c \in Callers, Answer(c), UNCHANGED service
  PROVE  Inv'
BY DEF Inv, Types, VisitsShort, SwitchRight, AsksWorking, FreshAnswers, Works, service, Answer

LEMMA NextInv == Inv /\ [Next]_vars => Inv'
<1> SUFFICES ASSUME Inv, [Next]_vars
             PROVE  Inv'
  OBVIOUS
<1>1. CASE Probe /\ UNCHANGED service
  BY <1>1, ProbeInv
<1>2. CASE Panic /\ UNCHANGED service
  BY <1>2, DieInv DEF Panic
<1>3. ASSUME NEW c \in Callers, Begin(c) \/ Answer(c), UNCHANGED service
      PROVE  Inv'
  BY <1>3, BeginInv, AnswerInv
<1>4. CASE Change
  BY <1>4, ChangeInv
<1>5. CASE UNCHANGED vars
  BY <1>5 DEF Inv, Types, VisitsShort, SwitchRight, AsksWorking, FreshAnswers, Works, vars, service
<1> QED
  BY <1>1, <1>2, <1>3, <1>4, <1>5 DEF Next

\* A caller that reads the switch after a whole probe gets a short link exactly
\* if the service works, as long as the service does not change, although the
\* lock is held for the switch only (shorten/t.go 52-85).
THEOREM AnswersFresh == Spec => []FreshAnswers
<1>1. Init => Inv
  BY InitInv
<1>2. Inv /\ [Next]_vars => Inv'
  BY NextInv
<1>3. Inv => FreshAnswers
  BY DEF Inv
<1> QED
  BY <1>1, <1>2, <1>3, PTL DEF Spec

-----------------------------------------------------------------------------
(* Head images.                                                            *)

LEMMA UnitFacts ==
  /\ Unit \in Nat \ {0} /\ Half \in Nat /\ Padding \in Nat /\ Size \in Nat
  /\ Unit = Size + Padding /\ Half = Unit \div 2
  /\ Rectangle2 = 2 * Unit + Padding /\ Rectangle3 = 3 * Unit + Padding
BY HeadImageAssumption DEF Unit, Half, Rectangle2, Rectangle3

LEMMA CellFacts ==
  /\ \A c \in Int : Cell(c) \in Int
  /\ Cell(0) = Padding /\ Cell(1) = Unit + Padding /\ Cell(2) = Unit + Unit + Padding
BY UnitFacts DEF Cell

\* What a row with one or two images less than the board is wide leaves free
LEMMA Halves == (0 * Unit) \div 2 = 0 /\ (1 * Unit) \div 2 = Half /\ (2 * Unit) \div 2 = Unit
BY UnitFacts

\* The reference, row, column and what is free beside them being known
LEMMA ReferenceIs ==
  ASSUME NEW n, NEW i, NEW r, NEW c, NEW k, NEW l,
         RowOf(n, i) = r, ColumnOf(n, i) = c,
         Width(n) - InRow(n, r) = k, Width(n) - Rows(n) = l
  PROVE  Reference(n, i) = At(Cell(c) + (k * Unit) \div 2, Cell(r) + (l * Unit) \div 2)
BY DEF Reference

\* Every image has a place of its own in a row that is not longer than the board.
LEMMA RowFacts ==
  \A n \in 1..9 : \A i \in 0..(n - 1) :
    /\ RowOf(n, i) \in 0..(Rows(n) - 1)
    /\ ColumnOf(n, i) \in 0..(InRow(n, RowOf(n, i)) - 1)
    /\ Rows(n) \in 1..Width(n) /\ InRow(n, RowOf(n, i)) \in 1..Width(n)
    /\ Width(n) \in 2..3
    /\ \A j \in 0..(n - 1) :
         i # j => RowOf(n, i) # RowOf(n, j) \/ ColumnOf(n, i) # ColumnOf(n, j)
BY DEF RowOf, ColumnOf, InRow, Top, Rows, Width

\* A row or column of k cells that is centred on a board of w stays on it.
LEMMA InCell ==
  ASSUME NEW w \in 2..3, NEW k \in 1..w, NEW c \in 0..(k - 1)
  PROVE  LET x == Cell(c) + ((w - k) * Unit) \div 2
         IN  x \in Int /\ Padding <= x /\ x + Unit <= w * Unit + Padding
<1> DEFINE x == Cell(c) + ((w - k) * Unit) \div 2
<1>1. (w - k = 0 \/ w - k = 1 \/ w - k = 2) /\ (c = 0 \/ c = 1 \/ c = 2) /\ (w = 2 \/ w = 3)
  OBVIOUS
<1>2. CASE w - k = 0
  BY <1>1, <1>2, UnitFacts, CellFacts, Halves
<1>3. CASE w - k = 1
  BY <1>1, <1>3, UnitFacts, CellFacts, Halves
<1>4. CASE w - k = 2
  BY <1>1, <1>4, UnitFacts, CellFacts, Halves
<1> QED BY <1>1, <1>2, <1>3, <1>4

LEMMA CellsApart ==
  ASSUME NEW c \in 0..2, NEW d \in 0..2, c < d
  PROVE  Cell(c) + Unit <= Cell(d)
BY UnitFacts, CellFacts

LEMMA OffsetFacts ==
  ASSUME NEW k \in 0..2
  PROVE  (k * Unit) \div 2 \in Nat
BY Halves, UnitFacts

\* Each writer does what the reference says for its number of images.
LEMMA Place1 == \A i \in 0..0 : Place(1, i) = Reference(1, i)
<1> SUFFICES ASSUME NEW i \in 0..0 PROVE Place(1, i) = Reference(1, i)
  OBVIOUS
<1>1. Reference(1, i) = At(Cell(0) + (1 * Unit) \div 2, Cell(0) + (1 * Unit) \div 2)
  BY ReferenceIs DEF RowOf, ColumnOf, InRow, Top, Rows, Width
<1>2. Place(1, i) = WriteImage1(i)
  BY DEF Place
<1> QED BY <1>1, <1>2, Halves, UnitFacts, CellFacts DEF WriteImage1, At

LEMMA Place2 == \A i \in 0..1 : Place(2, i) = Reference(2, i)
<1> SUFFICES ASSUME NEW i \in 0..1 PROVE Place(2, i) = Reference(2, i)
  OBVIOUS
<1>1. Reference(2, i) = At(Cell(i % 2) + (0 * Unit) \div 2, Cell(0) + (1 * Unit) \div 2)
  BY ReferenceIs DEF RowOf, ColumnOf, InRow, Top, Rows, Width
<1>2. Cell(i % 2) \in Int /\ Cell(0) \in Int
  BY CellFacts
<1>3. Place(2, i) = WriteImage2(i)
  BY DEF Place
<1> QED BY <1>1, <1>2, <1>3, Halves, UnitFacts, CellFacts DEF WriteImage2, At

LEMMA Place3 == \A i \in 0..2 : Place(3, i) = Reference(3, i)
<1> SUFFICES ASSUME NEW i \in 0..2 PROVE Place(3, i) = Reference(3, i)
  OBVIOUS
<1>1. CASE i = 0
  <2>1. Reference(3, i) = At(Cell(i % 2) + (1 * Unit) \div 2, Cell(i \div 2) + (0 * Unit) \div 2)
    BY <1>1, ReferenceIs DEF RowOf, ColumnOf, InRow, Top, Rows, Width
  <2>2. Cell(i % 2) \in Int /\ Cell(i \div 2) \in Int
    BY CellFacts
  <2>3. Place(3, i) = WriteImage3(i)
    BY DEF Place
  <2> QED BY <1>1, <2>1, <2>2, <2>3, Halves, UnitFacts, CellFacts DEF WriteImage3, At
<1>2. CASE i # 0
  <2>1. Reference(3, i) = At(Cell((i + 1) % 2) + (0 * Unit) \div 2, Cell((i + 1) \div 2) + (0 * Unit) \div 2)
    BY <1>2, ReferenceIs DEF RowOf, ColumnOf, InRow, Top, Rows, Width
  <2>2. Cell((i + 1) % 2) \in Int /\ Cell((i + 1) \div 2) \in Int
    BY CellFacts
  <2>3. Place(3, i) = WriteImage3(i)
    BY DEF Place
  <2> QED BY <1>2, <2>1, <2>2, <2>3, Halves, UnitFacts, CellFacts DEF WriteImage3, At
<1> QED BY <1>1, <1>2

LEMMA Place4 == \A i \in 0..3 : Place(4, i) = Reference(4, i)
<1> SUFFICES ASSUME NEW i \in 0..3 PROVE Place(4, i) = Reference(4, i)
  OBVIOUS
<1>1. Reference(4, i) = At(Cell(i % 2) + (0 * Unit) \div 2, Cell(i \div 2) + (0 * Unit) \div 2)
  BY ReferenceIs DEF RowOf, ColumnOf, InRow, Top, Rows, Width
<1>2. Cell(i % 2) \in Int /\ Cell(i \div 2) \in Int
  BY CellFacts
<1>3. Place(4, i) = WriteImage4(i)
  BY DEF Place
<1> QED BY <1>1, <1>2, <1>3, Halves, UnitFacts, CellFacts DEF WriteImage4, At

LEMMA Place5 == \A i \in 0..4 : Place(5, i) = Reference(5, i)
<1> SUFFICES ASSUME NEW i \in 0..4 PROVE Place(5, i) = Reference(5, i)
  OBVIOUS
<1>1. CASE i < 2
  <2>1. Reference(5, i) = At(Cell(i % 3) + (1 * Unit) \div 2, Cell(i \div 3) + (1 * Unit) \div 2)
    BY <1>1, ReferenceIs DEF RowOf, ColumnOf, InRow, Top, Rows, Width
  <2>2. Cell(i % 3) \in Int /\ Cell(i \div 3) \in Int
    BY CellFacts
  <2>3. Place(5, i) = WriteImage5(i)
    BY DEF Place
  <2> QED BY <1>1, <2>1, <2>2, <2>3, Halves, UnitFacts, CellFacts DEF WriteImage5, At
<1>2. CASE ~(i < 2)
  <2>1. Reference(5, i) = At(Cell((i + 1) % 3) + (0 * Unit) \div 2, Cell((i + 1) \div 3) + (1 * Unit) \div 2)
    BY <1>2, ReferenceIs DEF RowOf, ColumnOf, InRow, Top, Rows, Width
  <2>2. Cell((i + 1) % 3) \in Int /\ Cell((i + 1) \div 3) \in Int
    BY CellFacts
  <2>3. Place(5, i) = WriteImage5(i)
    BY DEF Place
  <2> QED BY <1>2, <2>1, <2>2, <2>3, Halves, UnitFacts, CellFacts DEF WriteImage5, At
<1> QED BY <1>1, <1>2

LEMMA Place6 == \A i \in 0..5 : Place(6, i) = Reference(6, i)
<1> SUFFICES ASSUME NEW i \in 0..5 PROVE Place(6, i) = Reference(6, i)
  OBVIOUS
<1>1. Reference(6, i) = At(Cell(i % 3) + (0 * Unit) \div 2, Cell(i \div 3) + (1 * Unit) \div 2)
  BY ReferenceIs DEF RowOf, ColumnOf, InRow, Top, Rows, Width
<1>2. Cell(i % 3) \in Int /\ Cell(i \div 3) \in Int
  BY CellFacts
<1>3. Place(6, i) = WriteImage6(i)
  BY DEF Place
<1> QED BY <1>1, <1>2, <1>3, Halves, UnitFacts, CellFacts DEF WriteImage6, At

LEMMA Place7 == \A i \in 0..6 : Place(7, i) = Reference(7, i)
<1> SUFFICES ASSUME NEW i \in 0..6 PROVE Place(7, i) = Reference(7, i)
  OBVIOUS
<1>1. CASE i < 1
  <2>1. Reference(7, i) = At(Cell(i % 3) + (2 * Unit) \div 2, Cell(i \div 3) + (0 * Unit) \div 2)
    BY <1>1, ReferenceIs DEF RowOf, ColumnOf, InRow, Top, Rows, Width
  <2>2. Cell(i % 3) \in Int /\ Cell(i \div 3) \in Int
    BY CellFacts
  <2>3. Place(7, i) = WriteImage7(i)
    BY DEF Place
  <2> QED BY <1>1, <2>1, <2>2, <2>3, Halves, UnitFacts, CellFacts DEF WriteImage7, At
<1>2. CASE ~(i < 1)
  <2>1. Reference(7, i) = At(Cell((i + 2) % 3) + (0 * Unit) \div 2, Cell((i + 2) \div 3) + (0 * Unit) \div 2)
    BY <1>2, ReferenceIs DEF RowOf, ColumnOf, InRow, Top, Rows, Width
  <2>2. Cell((i + 2) % 3) \in Int /\ Cell((i + 2) \div 3) \in Int
    BY CellFacts
  <2>3. Place(7, i) = WriteImage7(i)
    BY DEF Place
  <2> QED BY <1>2, <2>1, <2>2, <2>3, Halves, UnitFacts, CellFacts DEF WriteImage7, At
<1> QED BY <1>1, <1>2

LEMMA Place8 == \A i \in 0..7 : Place(8, i) = Reference(8, i)
<1> SUFFICES ASSUME NEW i \in 0..7 PROVE Place(8, i) = Reference(8, i)
  OBVIOUS
<1>1. CASE i < 2
  <2>1. Reference(8, i) = At(Cell(i % 3) + (1 * Unit) \div 2, Cell(i \div 3) + (0 * Unit) \div 2)
    BY <1>1, ReferenceIs DEF RowOf, ColumnOf, InRow, Top, Rows, Width
  <2>2. Cell(i % 3) \in Int /\ Cell(i \div 3) \in Int
    BY CellFacts
  <2>3. Place(8, i) = WriteImage8(i)
    BY DEF Place
  <2> QED BY <1>1, <2>1, <2>2, <2>3, Halves, UnitFacts, CellFacts DEF WriteImage8, At
<1>2. CASE ~(i < 2)
  <2>1. Reference(8, i) = At(Cell((i + 1) % 3) + (0 * Unit) \div 2, Cell((i + 1) \div 3) + (0 * Unit) \div 2)
    <3>1. RowOf(8, i) = (i + 1) \div 3 /\ ColumnOf(8, i) = (i + 1) % 3 /\ (i + 1) \div 3 # 0
      BY <1>2 DEF RowOf, ColumnOf, Top, Rows, Width
    <3>2. Width(8) - InRow(8, (i + 1) \div 3) = 0 /\ Width(8) - Rows(8) = 0
      BY <3>1 DEF InRow, Rows, Width
    <3> QED BY <3>1, <3>2, ReferenceIs
  <2>2. Cell((i + 1) % 3) \in Int /\ Cell((i + 1) \div 3) \in Int
    BY CellFacts
  <2>3. Place(8, i) = WriteImage8(i)
    BY DEF Place
  <2> QED BY <1>2, <2>1, <2>2, <2>3, Halves, UnitFacts, CellFacts DEF WriteImage8, At
<1> QED BY <1>1, <1>2

LEMMA Place9 == \A i \in 0..8 : Place(9, i) = Reference(9, i)
<1> SUFFICES ASSUME NEW i \in 0..8 PROVE Place(9, i) = Reference(9, i)
  OBVIOUS
<1>1. Reference(9, i) = At(Cell(i % 3) + (0 * Unit) \div 2, Cell(i \div 3) + (0 * Unit) \div 2)
  BY ReferenceIs DEF RowOf, ColumnOf, InRow, Top, Rows, Width
<1>2. Cell(i % 3) \in Int /\ Cell(i \div 3) \in Int
  BY CellFacts
<1>3. Place(9, i) = WriteImage9(i)
  BY DEF Place
<1> QED BY <1>1, <1>2, <1>3, Halves, UnitFacts, CellFacts DEF WriteImage9, At

\* From the ninth image on the layout is that of nine.
LEMMA PlaceFacts ==
  ASSUME NEW n \in Nat \ {0}
  PROVE  /\ Drawn(n) \in 1..9
         /\ \A i \in 0..(Drawn(n) - 1) : Place(n, i) = Reference(Drawn(n), i)
         /\ Board(n) = Width(Drawn(n)) * Unit + Padding
<1>1. CASE n > 9
  <2>1. Drawn(n) = 9 /\ \A i : Place(n, i) = Place(9, i)
    BY <1>1 DEF Drawn, Place
  <2>2. Board(n) = Rectangle3 /\ Width(9) = 3
    BY <1>1 DEF Board, Width
  <2> QED BY <2>1, <2>2, Place9, UnitFacts
<1>2. CASE n \in 1..9
  <2>1. Drawn(n) = n
    BY <1>2 DEF Drawn
  <2>2. Board(n) = Width(n) * Unit + Padding
    BY <1>2, UnitFacts DEF Board, Width
  <2>3. n = 1 \/ n = 2 \/ n = 3 \/ n = 4 \/ n = 5 \/ n = 6 \/ n = 7 \/ n = 8 \/ n = 9
    BY <1>2
  <2> QED BY <1>2, <2>1, <2>2, <2>3, Place1, Place2, Place3, Place4, Place5, Place6, Place7, Place8, Place9
<1> QED BY <1>1, <1>2

LEMMA ReferenceInside ==
  ASSUME NEW n \in 1..9, NEW i \in 0..(n - 1)
  PROVE  LET p == Reference(n, i)
         IN  /\ p.x \in Int /\ Padding <= p.x /\ p.x + Unit <= Width(n) * Unit + Padding
             /\ p.y \in Int /\ Padding <= p.y /\ p.y + Unit <= Width(n) * Unit + Padding
<1> DEFINE r == RowOf(n, i)
           p == Reference(n, i)
<1>1. /\ r \in 0..(Rows(n) - 1)
      /\ ColumnOf(n, i) \in 0..(InRow(n, r) - 1)
      /\ Rows(n) \in 1..Width(n) /\ InRow(n, r) \in 1..Width(n) /\ Width(n) \in 2..3
  BY RowFacts
<1>2. /\ p.x = Cell(ColumnOf(n, i)) + ((Width(n) - InRow(n, r)) * Unit) \div 2
      /\ p.y = Cell(r) + ((Width(n) - Rows(n)) * Unit) \div 2
  BY DEF Reference, At
<1> HIDE DEF r, p
<1>3. p.x \in Int /\ Padding <= p.x /\ p.x + Unit <= Width(n) * Unit + Padding
  BY <1>1, <1>2, InCell
<1>4. p.y \in Int /\ Padding <= p.y /\ p.y + Unit <= Width(n) * Unit + Padding
  BY <1>1, <1>2, InCell
<1> QED BY <1>3, <1>4 DEF p

LEMMA ReferenceApart ==
  ASSUME NEW n \in 1..9, NEW i \in 0..(n - 1), NEW j \in 0..(n - 1), i # j
  PROVE  LET p == Reference(n, i)
             q == Reference(n, j)
         IN  \/ p.x + Unit <= q.x \/ q.x + Unit <= p.x
             \/ p.y + Unit <= q.y \/ q.y + Unit <= p.y
<1> DEFINE r == RowOf(n, i)
           s == RowOf(n, j)
           c == ColumnOf(n, i)
           d == ColumnOf(n, j)
           p == Reference(n, i)
           q == Reference(n, j)
           Free(t) == ((Width(n) - InRow(n, t)) * Unit) \div 2
           top == ((Width(n) - Rows(n)) * Unit) \div 2
<1>1. /\ r \in 0..2 /\ s \in 0..2 /\ c \in 0..2 /\ d \in 0..2
      /\ r # s \/ c # d
      /\ Width(n) - InRow(n, r) \in 0..2 /\ Width(n) - InRow(n, s) \in 0..2
      /\ Width(n) - Rows(n) \in 0..2
  <2>1. /\ r \in 0..(Rows(n) - 1) /\ c \in 0..(InRow(n, r) - 1)
        /\ s \in 0..(Rows(n) - 1) /\ d \in 0..(InRow(n, s) - 1)
        /\ Rows(n) \in 1..Width(n) /\ Width(n) \in 2..3
        /\ InRow(n, r) \in 1..Width(n) /\ InRow(n, s) \in 1..Width(n)
        /\ r # s \/ c # d
    BY RowFacts
  <2> HIDE DEF r, s, c, d
  <2> QED BY <2>1
<1>2. p.x = Cell(c) + Free(r) /\ p.y = Cell(r) + top
  BY DEF Reference, At
<1>3. q.x = Cell(d) + Free(s) /\ q.y = Cell(s) + top
  BY DEF Reference, At
<1>4. Free(r) \in Nat /\ Free(s) \in Nat /\ top \in Nat
  BY <1>1, OffsetFacts
<1>5. /\ Cell(c) \in Int /\ Cell(d) \in Int /\ Cell(r) \in Int /\ Cell(s) \in Int
      /\ Unit \in Nat
  BY <1>1, CellFacts, UnitFacts
<1> HIDE DEF r, s, c, d, p, q, Free, top
<1>6. CASE r # s
  <2>1. Cell(r) + Unit <= Cell(s) \/ Cell(s) + Unit <= Cell(r)
    BY <1>1, <1>6, CellsApart
  <2>2. p.y + Unit <= q.y \/ q.y + Unit <= p.y
    BY <1>2, <1>3, <1>4, <1>5, <2>1
  <2> QED BY <2>2 DEF p, q
<1>7. CASE r = s /\ c # d
  <2>1. Cell(c) + Unit <= Cell(d) \/ Cell(d) + Unit <= Cell(c)
    BY <1>1, <1>7, CellsApart
  <2>2. Free(s) = Free(r)
    BY <1>7
  <2>3. p.x + Unit <= q.x \/ q.x + Unit <= p.x
    BY <1>2, <1>3, <1>4, <1>5, <2>1, <2>2
  <2> QED BY <2>3 DEF p, q
<1> QED BY <1>1, <1>6, <1>7

\* Any number of images of any size is laid out as the reference says, the first
\* nine of them; no two overlap and all are on the board (special.go 201-415).
THEOREM ImagesFit ==
  \A n \in Nat \ {0} :
    LET shown == 0..(Drawn(n) - 1)
    IN  /\ \A i \in shown : Place(n, i) = Reference(Drawn(n), i) /\ Inside(n, i)
        /\ \A i, j \in shown : i # j => Apart(n, i, j)
<1> SUFFICES ASSUME NEW n \in Nat \ {0}
             PROVE  LET shown == 0..(Drawn(n) - 1)
                    IN  /\ \A i \in shown : Place(n, i) = Reference(Drawn(n), i) /\ Inside(n, i)
                        /\ \A i, j \in shown : i # j => Apart(n, i, j)
  OBVIOUS
<1>1. ASSUME NEW i \in 0..(Drawn(n) - 1)
      PROVE  Place(n, i) = Reference(Drawn(n), i) /\ Inside(n, i)
  BY PlaceFacts, ReferenceInside DEF Inside
<1>2. ASSUME NEW i \in 0..(Drawn(n) - 1), NEW j \in 0..(Drawn(n) - 1), i # j
      PROVE  Apart(n, i, j)
  BY <1>2, PlaceFacts, ReferenceApart DEF Apart
<1> QED BY <1>1, <1>2

-----------------------------------------------------------------------------
(* Which images are taken.  The induction over the list is that of its     *)
(* least counterexample.                                                   *)

LEMMA Least ==
  ASSUME NEW T \in SUBSET Nat, T # {}
  PROVE  \E m \in T : \A k \in Nat : k < m => k \notin T
<1>1. PICK m \in T : \A y \in T : <<y, m>> \notin OpToRel(<, Nat)
  BY WFMin, NatLessThanWellFounded
<1> QED BY <1>1 DEF OpToRel

\* What can come of a fetch
Outcomes == {"jpeg", "other", "error"}

\* f is what Fetched computes for the first k images.
Computes(f, o, limit, k) ==
  f = [j \in 0..k |-> IF j = 0 THEN <<>> ELSE Add(f[j - 1], j, o[j], limit)]

\* There is one such function: each k extends that of k - 1.
LEMMA Computed ==
  ASSUME NEW o, NEW limit, NEW n \in Nat
  PROVE  \E f : Computes(f, o, limit, n)
<1> DEFINE T == {k \in 0..n : ~\E f : Computes(f, o, limit, k)}
<1>1. SUFFICES ASSUME T # {} PROVE FALSE
  OBVIOUS
<1>2. PICK m \in T : \A k \in Nat : k < m => k \notin T
  <2>1. T \in SUBSET Nat
    OBVIOUS
  <2> HIDE DEF T
  <2> QED BY <1>1, <2>1, Least
<1>3. m \in 0..n /\ ~\E f : Computes(f, o, limit, m)
  OBVIOUS
<1>4. CASE m = 0
  <2> DEFINE f == [j \in 0..0 |-> <<>>]
  <2>1. f = [j \in 0..0 |-> IF j = 0 THEN <<>> ELSE Add(f[j - 1], j, o[j], limit)]
    OBVIOUS
  <2> HIDE DEF f
  <2>2. Computes(f, o, limit, m)
    BY <1>4, <2>1 DEF Computes
  <2> QED BY <1>3, <2>2
<1>5. CASE m # 0
  <2>1. m - 1 \in Nat /\ m - 1 < m /\ m - 1 \in 0..n
    BY <1>3, <1>5
  <2>2. PICK g : Computes(g, o, limit, m - 1)
    BY <1>2, <2>1
  <2> DEFINE h == [j \in 0..m |-> IF j = m THEN Add(g[m - 1], m, o[m], limit) ELSE g[j]]
  <2>3. ASSUME NEW j \in 0..m
        PROVE  h[j] = IF j = 0 THEN <<>> ELSE Add(h[j - 1], j, o[j], limit)
    <3>1. CASE j = m
      <4>1. h[j - 1] = g[j - 1]
        BY <1>3, <1>5, <3>1
      <4> QED BY <1>5, <3>1, <4>1
    <3>2. CASE j # m
      <4>1. j \in 0..(m - 1) /\ h[j] = g[j]
        BY <1>3, <3>2
      <4>2. g[j] = IF j = 0 THEN <<>> ELSE Add(g[j - 1], j, o[j], limit)
        BY <2>2, <4>1 DEF Computes
      <4>3. j # 0 => h[j - 1] = g[j - 1]
        BY <1>3, <3>2
      <4> QED BY <4>1, <4>2, <4>3
    <3> QED BY <3>1, <3>2
  <2>4. h = [j \in 0..m |-> h[j]]
    OBVIOUS
  <2> HIDE DEF h
  <2>5. Computes(h, o, limit, m)
    BY <2>3, <2>4 DEF Computes
  <2> QED BY <1>3, <2>5
<1> QED BY <1>4, <1>5

LEMMA FetchedFacts ==
  ASSUME NEW o \in Seq(Outcomes), NEW limit \in Nat
  PROVE  LET f == Fetched(o, limit)
         IN  /\ f[0] = <<>>
             /\ \A k \in 1..Len(o) : f[k] = Add(f[k - 1], k, o[k], limit)
<1> DEFINE f == Fetched(o, limit)
<1>1. Computes(f, o, limit, Len(o))
  <2>1. \E g : Computes(g, o, limit, Len(o))
    BY Computed
  <2>2. f = CHOOSE g : Computes(g, o, limit, Len(o))
    BY DEF Fetched, Computes
  <2> QED BY <2>1, <2>2
<1> HIDE DEF f
<1>2. \A k \in 0..Len(o) : f[k] = IF k = 0 THEN <<>> ELSE Add(f[k - 1], k, o[k], limit)
  BY <1>1 DEF Computes
<1>3. f[0] = <<>>
  <2>1. Len(o) \in Nat
    OBVIOUS
  <2> QED BY <1>2, <2>1
<1>4. \A k \in 1..Len(o) : f[k] = Add(f[k - 1], k, o[k], limit)
  BY <1>2
<1> QED BY <1>3, <1>4 DEF f

\* The JPEGs among the first k, and how many they are
Jpegs(o, k) == {j \in 1..k : o[j] = "jpeg"}
Count(o, k) == Cardinality(Jpegs(o, k))

\* They are counted one by one.
LEMMA CountFacts ==
  ASSUME NEW o \in Seq(Outcomes), NEW k \in 0..Len(o)
  PROVE  /\ IsFiniteSet(Jpegs(o, k)) /\ Count(o, k) \in Nat
         /\ k = 0 => Jpegs(o, k) = {} /\ Count(o, k) = 0
         /\ k # 0 => Count(o, k) = Count(o, k - 1) + (IF o[k] = "jpeg" THEN 1 ELSE 0)
         /\ \A j \in 0..k : Count(o, j) <= Count(o, k) /\ Jpegs(o, j) \subseteq Jpegs(o, k)
<1>1. ASSUME NEW j \in 0..Len(o)
      PROVE  IsFiniteSet(Jpegs(o, j)) /\ Count(o, j) \in Nat
  <2>1. IsFiniteSet(1..j)
    BY FS_Interval
  <2> QED BY <2>1, FS_Subset, FS_CardinalityType DEF Jpegs, Count
<1>2. k = 0 => Jpegs(o, k) = {} /\ Count(o, k) = 0
  BY FS_EmptySet DEF Jpegs, Count
<1>3. ASSUME k # 0
      PROVE  Count(o, k) = Count(o, k - 1) + (IF o[k] = "jpeg" THEN 1 ELSE 0)
  <2>1. k - 1 \in 0..Len(o) /\ k \notin Jpegs(o, k - 1)
    BY <1>3 DEF Jpegs
  <2>2. CASE o[k] = "jpeg"
    <3>1. Jpegs(o, k) = Jpegs(o, k - 1) \cup {k}
      BY <1>3, <2>2 DEF Jpegs
    <3> QED BY <1>1, <2>1, <2>2, <3>1, FS_AddElement DEF Count
  <2>3. CASE o[k] # "jpeg"
    <3>1. Jpegs(o, k) = Jpegs(o, k - 1)
      BY <1>3, <2>3 DEF Jpegs
    <3> QED BY <1>1, <2>1, <2>3, <3>1 DEF Count
  <2> QED BY <2>2, <2>3
<1>4. ASSUME NEW j \in 0..k
      PROVE  Count(o, j) <= Count(o, k) /\ Jpegs(o, j) \subseteq Jpegs(o, k)
  <2>1. Jpegs(o, j) \subseteq Jpegs(o, k)
    BY DEF Jpegs
  <2> QED BY <1>1, <2>1, FS_Subset DEF Count
<1> QED BY <1>1, <1>2, <1>3, <1>4

\* s holds the first JPEGs of k images.
Holds(s, o, limit, k) ==
  /\ s \in Seq(Nat)
  /\ Len(s) = IF limit = 0 \/ Count(o, k) <= limit THEN Count(o, k) ELSE limit
  /\ \A i \in 1..Len(s) : s[i] \in Jpegs(o, k)
  /\ \A j \in Jpegs(o, k) :
       limit = 0 \/ Count(o, j) <= limit => Count(o, j) \in 1..Len(s) /\ s[Count(o, j)] = j
  /\ \A i \in 1..Len(s) : Count(o, s[i]) = i

LEMMA HoldsStep ==
  ASSUME NEW o \in Seq(Outcomes), NEW limit \in Nat, NEW k \in 1..Len(o),
         NEW s, Holds(s, o, limit, k - 1)
  PROVE  Holds(Add(s, k, o[k], limit), o, limit, k)
<1> DEFINE t == Add(s, k, o[k], limit)
           m == Count(o, k - 1)
<1>1. k - 1 \in 0..Len(o) /\ k \in 0..Len(o) /\ k \in Nat
  OBVIOUS
<1>2. /\ m \in Nat /\ Count(o, k) = m + (IF o[k] = "jpeg" THEN 1 ELSE 0)
      /\ Jpegs(o, k - 1) \subseteq Jpegs(o, k)
  BY <1>1, CountFacts
<1>3. /\ s \in Seq(Nat) /\ Len(s) \in Nat
      /\ Len(s) = IF limit = 0 \/ m <= limit THEN m ELSE limit
  BY DEF Holds
<1>4. Jpegs(o, k) = IF o[k] = "jpeg" THEN Jpegs(o, k - 1) \cup {k} ELSE Jpegs(o, k - 1)
  BY DEF Jpegs
<1>5. CASE o[k] = "jpeg" /\ ~(limit > 0 /\ Len(s) = limit)
  <2>1. t = Append(s, k) /\ Len(s) = m /\ Count(o, k) = m + 1
    BY <1>2, <1>3, <1>5 DEF Add
  <2>2. t \in Seq(Nat) /\ Len(t) = m + 1 /\ t[m + 1] = k /\ \A i \in 1..m : t[i] = s[i]
    BY <1>1, <1>3, <2>1
  <2>3. limit = 0 \/ m + 1 <= limit
    BY <1>2, <1>3, <1>5
  <2>4. \A j \in Jpegs(o, k - 1) : Count(o, j) <= m
    <3>1. \A j \in 0..(k - 1) : Count(o, j) <= Count(o, k - 1)
      BY <1>1, CountFacts
    <3> QED BY <3>1 DEF Jpegs
  <2> HIDE DEF t, m
  <2>5. \A i \in 1..Len(t) : t[i] \in Jpegs(o, k) /\ Count(o, t[i]) = i
    BY <1>2, <1>4, <1>5, <2>1, <2>2 DEF Holds
  <2>6. \A j \in Jpegs(o, k) :
          limit = 0 \/ Count(o, j) <= limit => Count(o, j) \in 1..Len(t) /\ t[Count(o, j)] = j
    BY <1>2, <1>4, <1>5, <2>1, <2>2 DEF Holds
  <2> QED BY <2>1, <2>2, <2>3, <2>5, <2>6 DEF Holds, t
<1>6. CASE o[k] # "jpeg"
  <2>1. t = s /\ Jpegs(o, k) = Jpegs(o, k - 1) /\ Count(o, k) = m
    BY <1>2, <1>4, <1>6 DEF Add
  <2> HIDE DEF t
  <2> QED BY <2>1 DEF Holds, t
<1>7. CASE o[k] = "jpeg" /\ limit > 0 /\ Len(s) = limit
  <2>1. t = s /\ Count(o, k) = m + 1 /\ m >= limit
    BY <1>2, <1>3, <1>7 DEF Add
  <2>2. Jpegs(o, k) = Jpegs(o, k - 1) \cup {k}
    BY <1>4, <1>7
  <2>3. ~(limit = 0 \/ Count(o, k) <= limit)
    BY <1>2, <1>7, <2>1
  <2> HIDE DEF t
  <2> QED BY <1>3, <1>7, <2>1, <2>2, <2>3 DEF Holds, t
<1> QED BY <1>5, <1>6, <1>7

LEMMA AllHold ==
  ASSUME NEW o \in Seq(Outcomes), NEW limit \in Nat, NEW n \in 0..Len(o)
  PROVE  Holds(Fetched(o, limit)[n], o, limit, n)
<1> DEFINE T == {k \in 0..Len(o) : ~Holds(Fetched(o, limit)[k], o, limit, k)}
<1>1. SUFFICES ASSUME T # {} PROVE FALSE
  OBVIOUS
<1>2. PICK m \in T : \A k \in Nat : k < m => k \notin T
  <2>1. T \in SUBSET Nat
    OBVIOUS
  <2> HIDE DEF T
  <2> QED BY <1>1, <2>1, Least
<1>3. m \in 0..Len(o) /\ ~Holds(Fetched(o, limit)[m], o, limit, m)
  OBVIOUS
<1>4. CASE m = 0
  <2>1. Fetched(o, limit)[0] = <<>>
    BY FetchedFacts
  <2>2. Jpegs(o, 0) = {} /\ Count(o, 0) = 0
    BY <1>3, <1>4, CountFacts
  <2>3. Holds(<<>>, o, limit, 0)
    BY <2>2 DEF Holds
  <2> QED BY <1>3, <1>4, <2>1, <2>3
<1>5. CASE m # 0
  <2>1. m \in 1..Len(o) /\ m - 1 \in Nat /\ m - 1 < m /\ m - 1 \in 0..Len(o)
    BY <1>3, <1>5
  <2>2. Holds(Fetched(o, limit)[m - 1], o, limit, m - 1)
    BY <1>2, <2>1
  <2>3. Fetched(o, limit)[m] = Add(Fetched(o, limit)[m - 1], m, o[m], limit)
    BY <2>1, FetchedFacts
  <2> QED BY <1>3, <2>1, <2>2, <2>3, HoldsStep
<1> QED BY <1>4, <1>5

\* From any list of images, with any limit, the first JPEGs are taken, as many as
\* the limit allows, in the order of the members; an error fails them all exactly
\* if it comes before the last of them (special.go 120-151).
THEOREM FirstImagesTaken ==
  \A o \in Seq(Outcomes), limit \in Nat :
    LET good == {k \in DOMAIN o : o[k] = "jpeg"}
        Rank(k) == Cardinality({j \in good : j <= k})
        images == SetImages(o, limit)
        picked == {k \in good : limit = 0 \/ Rank(k) <= limit}
    IN  /\ {images[i] : i \in DOMAIN images} = picked
        /\ \A k \in picked : images[Rank(k)] = k
        /\ SetImagesFails(o, limit) <=>
             \E k \in DOMAIN o :
               /\ o[k] = "error"
               /\ limit > 0 => Rank(k) < limit
<1> SUFFICES ASSUME NEW o \in Seq(Outcomes), NEW limit \in Nat
             PROVE  LET good == {k \in DOMAIN o : o[k] = "jpeg"}
                        Rank(k) == Cardinality({j \in good : j <= k})
                        images == SetImages(o, limit)
                        picked == {k \in good : limit = 0 \/ Rank(k) <= limit}
                    IN  /\ {images[i] : i \in DOMAIN images} = picked
                        /\ \A k \in picked : images[Rank(k)] = k
                        /\ SetImagesFails(o, limit) <=>
                             \E k \in DOMAIN o :
                               /\ o[k] = "error"
                               /\ limit > 0 => Rank(k) < limit
  OBVIOUS
<1> DEFINE n == Len(o)
           good == {k \in DOMAIN o : o[k] = "jpeg"}
           Rank(k) == Cardinality({j \in good : j <= k})
           images == SetImages(o, limit)
           picked == {k \in good : limit = 0 \/ Rank(k) <= limit}
<1>1. n \in Nat /\ DOMAIN o = 1..n /\ good = Jpegs(o, n)
  BY DEF Jpegs
<1>2. \A k \in 1..n : Rank(k) = Count(o, k)
  <2>1. \A k \in 1..n : {j \in good : j <= k} = Jpegs(o, k)
    BY <1>1 DEF Jpegs
  <2> QED BY <2>1 DEF Count
<1>3. Holds(images, o, limit, n)
  BY <1>1, AllHold DEF SetImages
<1>4. DOMAIN images = 1..Len(images) /\ Len(images) \in Nat
  BY <1>3 DEF Holds
<1>5. good \subseteq 1..n
  BY <1>1
<1>6. picked = {k \in Jpegs(o, n) : limit = 0 \/ Count(o, k) <= limit}
  BY <1>1, <1>2, <1>5
<1>7. SetImagesFails(o, limit) <=> \E k \in 1..n : o[k] = "error" /\ (limit > 0 => Rank(k) < limit)
  <2>1. ASSUME NEW k \in 1..n, o[k] = "error"
        PROVE  (limit > 0 /\ Len(Fetched(o, limit)[k - 1]) = limit) <=> ~(limit > 0 => Rank(k) < limit)
    <3>1. k - 1 \in 0..Len(o) /\ k \in 0..Len(o)
      BY <1>1
    <3>2. Rank(k) = Count(o, k - 1) /\ Count(o, k - 1) \in Nat
      BY <1>2, <2>1, <3>1, CountFacts
    <3>3. Len(Fetched(o, limit)[k - 1])
            = IF limit = 0 \/ Count(o, k - 1) <= limit THEN Count(o, k - 1) ELSE limit
      BY <3>1, AllHold DEF Holds
    <3> HIDE DEF Rank
    <3> QED BY <3>2, <3>3
  <2> HIDE DEF Rank, n
  <2> QED BY <1>1, <2>1 DEF SetImagesFails
<1> HIDE DEF images, picked, Rank, good, n
<1>8. \A k \in picked : k \in 1..n /\ Count(o, k) \in DOMAIN images /\ images[Count(o, k)] = k
  BY <1>3, <1>4, <1>6 DEF Holds, Jpegs
<1>9. \A i \in DOMAIN images : images[i] \in picked
  BY <1>3, <1>4, <1>6, CountFacts DEF Holds
<1>10. {images[i] : i \in DOMAIN images} = picked
  BY <1>8, <1>9
<1>11. \A k \in picked : images[Rank(k)] = k
  BY <1>2, <1>8
<1> QED BY <1>1, <1>7, <1>10, <1>11 DEF images, picked, Rank, good

-----------------------------------------------------------------------------
(* Ids.                                                                    *)

\* The shifts, bit by bit
LEMMA ShlFacts ==
  ASSUME NEW s \in SUBSET Int, NEW k \in Int
  PROVE  Shl(s, k) = {x \in Bits : x - k \in s}
BY DEF Shl, Bits

LEMMA ShrFacts ==
  ASSUME NEW s \in SUBSET Int, NEW k \in Int
  PROVE  /\ Shr(s, k) \in SUBSET Nat
         /\ \A x : x \in Shr(s, k) <=> x \in Nat /\ x + k \in s
BY DEF Shr

\* The highest one bit
LEMMA Largest ==
  ASSUME NEW s \in SUBSET Bits, s # {}
  PROVE  \E b \in s : \A c \in s : c <= b
<1> DEFINE T == {63 - b : b \in s}
<1>1. T \in SUBSET Nat /\ T # {}
  <2>1. \A b \in s : 63 - b \in Nat
    BY DEF Bits
  <2> QED BY <2>1
<1>2. PICK x \in T : \A y \in Nat : y < x => y \notin T
  <2> HIDE DEF T
  <2> QED BY <1>1, Least
<1>3. PICK b \in s : x = 63 - b
  OBVIOUS
<1>4. ASSUME NEW c \in s PROVE c <= b
  <2>1. 63 - c \in T /\ 63 - c \in Nat
    BY <1>1
  <2>2. ~(63 - c < x)
    BY <1>2, <2>1
  <2> QED BY <1>3, <2>2 DEF Bits
<1> QED BY <1>4

\* The groups hold every bit.
LEMMA GroupsFacts ==
  ASSUME NEW s \in SUBSET Bits
  PROVE  /\ Groups(s) \in 0..5
         /\ \A b \in s : b \div 15 \in 0..(Groups(s) - 1)
<1>1. CASE s = {}
  BY <1>1 DEF Groups
<1>2. CASE s # {}
  <2> DEFINE top == CHOOSE b \in s : \A c \in s : c <= b
  <2>1. top \in s /\ \A c \in s : c <= top
    BY <1>2, Largest
  <2>2. Groups(s) = (top \div 3) \div 5 + 1
    <3>1. Digits(s) = top \div 3 + 1
      BY <1>2 DEF Digits
    <3>2. Groups(s) = (Digits(s) - 1) \div 5 + 1
      BY <1>2 DEF Groups
    <3> HIDE DEF top
    <3> QED BY <2>1, <3>1, <3>2 DEF Bits
  <2> HIDE DEF top
  <2> QED BY <2>1, <2>2 DEF Bits
<1> QED BY <1>1, <1>2

\* What is in the obfuscated number
LEMMA MixGroupFacts ==
  ASSUME NEW s \in SUBSET Bits, NEW j \in 0..(Groups(s) - 1)
  PROVE  MixGroup(s, j) =
           {x \in Bits : \/ x - 18 * j \in 0..14 /\ x - 3 * j \in s
                         \/ x - 18 * j \in 15..17 /\ (x - 18 * j - 15) + 3 * (Groups(s) - 1 - j) \in s}
<1> DEFINE md == Groups(s) - 1 - j
           data == Low(Shr(s, 15 * j), 15)
           digit == Low(Shr(s, 3 * md), 3)
<1>1. j \in Int /\ 15 * j \in Int /\ 18 * j \in Int /\ md \in Int /\ 3 * md \in Int /\ s \in SUBSET Int
  BY GroupsFacts DEF Bits
<1>2. data = {x \in 0..14 : x + 15 * j \in s}
  BY <1>1, ShrFacts DEF Low
<1>3. digit = {x \in 0..2 : x + 3 * md \in s}
  BY <1>1, ShrFacts DEF Low
<1> HIDE DEF data, digit
<1>4. Shl(digit, 15) = {x \in 15..17 : x - 15 + 3 * md \in s}
  <2>1. digit \in SUBSET Int
    BY <1>3
  <2>2. Shl(digit, 15) = {x \in Bits : x - 15 \in digit}
    BY <2>1, ShlFacts
  <2> QED BY <1>1, <1>3, <2>2 DEF Bits
<1>5. MixGroup(s, j) = Shl(data \cup Shl(digit, 15), 18 * j)
  BY DEF MixGroup, data, digit
<1>6. MixGroup(s, j) = {x \in Bits : x - 18 * j \in data \cup Shl(digit, 15)}
  <2>1. data \cup Shl(digit, 15) \in SUBSET Int
    BY <1>2, <1>4
  <2> QED BY <1>1, <1>5, <2>1, ShlFacts
<1> QED BY <1>1, <1>2, <1>4, <1>6 DEF Bits

\* The digits of the number itself
LEMMA MixFacts ==
  ASSUME NEW s \in SUBSET Bits
  PROVE  /\ mix(s) \in SUBSET Bits
         /\ \A x \in Bits : x % 18 < 15 => (x \in mix(s) <=> x - 3 * (x \div 18) \in s)
         /\ \A x \in mix(s) : x % 18 >= 15 => x \div 18 \in 0..(Groups(s) - 1)
<1>1. \A x : x \in mix(s) <=> \E j \in 0..(Groups(s) - 1) : x \in MixGroup(s, j)
  BY DEF mix
<1>2. Groups(s) \in 0..5
  BY GroupsFacts
<1>3. mix(s) \in SUBSET Bits
  BY <1>1, MixGroupFacts
<1>4. ASSUME NEW x \in Bits, x % 18 < 15, x \in mix(s) PROVE x - 3 * (x \div 18) \in s
  <2>1. PICK j \in 0..(Groups(s) - 1) : x \in MixGroup(s, j)
    BY <1>1, <1>4
  <2>2. \/ x - 18 * j \in 0..14 /\ x - 3 * j \in s
        \/ x - 18 * j \in 15..17
    BY <2>1, MixGroupFacts
  <2>3. x - 18 * j \in 0..17 => j = x \div 18 /\ x - 18 * j = x % 18
    BY <1>2 DEF Bits
  <2> QED BY <1>2, <1>4, <2>2, <2>3 DEF Bits
<1>5. ASSUME NEW x \in Bits, x % 18 < 15, x - 3 * (x \div 18) \in s PROVE x \in mix(s)
  <2> DEFINE j == x \div 18
             b == x - 3 * j
  <2>1. j \in 0..3 /\ x - 18 * j = x % 18 /\ x - 18 * j \in 0..14
    BY <1>5 DEF Bits
  <2>2. b \in s /\ b \div 15 = j
    BY <1>5, <2>1 DEF Bits
  <2>3. j \in 0..(Groups(s) - 1)
    BY <2>2, GroupsFacts
  <2> HIDE DEF j, b
  <2>4. x - 3 * j \in s
    BY <2>2 DEF b
  <2>5. x \in MixGroup(s, j)
    BY <2>1, <2>3, <2>4, MixGroupFacts
  <2> QED BY <1>1, <2>3, <2>5
<1>6. ASSUME NEW x \in mix(s), x % 18 >= 15 PROVE x \div 18 \in 0..(Groups(s) - 1)
  <2>1. PICK j \in 0..(Groups(s) - 1) : x \in MixGroup(s, j)
    BY <1>1
  <2>2. x - 18 * j \in 0..17 /\ x \in Bits
    BY <2>1, MixGroupFacts
  <2> QED BY <1>2, <2>2 DEF Bits
<1> QED BY <1>3, <1>4, <1>5, <1>6

\* The version makes room for itself: four bits are lost at the top.
LEMMA VersionFacts ==
  ASSUME NEW m \in SUBSET Bits
  PROVE  /\ setVersion(m) = {x \in Bits : x >= 12 /\ x - 4 \in m} \cup {8} \cup {x \in m : x < 8}
         /\ getVersion(setVersion(m)) = {0}
         /\ Unversioned(setVersion(m)) = {x \in m : x < 60}
<1> DEFINE v == setVersion(m)
<1>1. m \in SUBSET Int
  BY DEF Bits
<1>2. v = {x \in Bits : x >= 12 /\ x - 4 \in m} \cup {8} \cup {x \in m : x < 8}
  <2>1. Shl(Shr(m, 8), 12) = {x \in Bits : x - 12 \in Shr(m, 8)}
    <3>1. Shr(m, 8) \in SUBSET Int
      BY <1>1, ShrFacts
    <3> QED BY <3>1, ShlFacts
  <2>2. \A x \in Bits : x - 12 \in Shr(m, 8) <=> x >= 12 /\ x - 4 \in m
    <3> SUFFICES ASSUME NEW x \in Bits PROVE x - 12 \in Shr(m, 8) <=> x >= 12 /\ x - 4 \in m
      OBVIOUS
    <3>1. x - 12 \in Shr(m, 8) <=> x - 12 \in Nat /\ (x - 12) + 8 \in m
      BY <1>1, ShrFacts
    <3>2. (x - 12) + 8 = x - 4 /\ (x - 12 \in Nat <=> x >= 12)
      BY DEF Bits
    <3> QED BY <3>1, <3>2
  <2>3. Low(m, 8) = {x \in m : x < 8}
    BY DEF Low
  <2> QED BY <2>1, <2>2, <2>3 DEF setVersion
<1> HIDE DEF v
<1>3. v \in SUBSET Bits /\ v \in SUBSET Int
  <2>1. 8 \in Bits /\ Bits \subseteq Int
    BY DEF Bits
  <2>2. v \subseteq Bits
    BY <1>2, <2>1
  <2> QED BY <2>1, <2>2
<1>4. getVersion(v) = {0}
  <2>1. \A x : x \in getVersion(v) <=> x \in Nat /\ x < 4 /\ x + 8 \in v
    BY <1>3, ShrFacts DEF getVersion, Low
  <2> QED BY <1>2, <2>1 DEF Bits
<1>5. Unversioned(v) = {x \in m : x < 60}
  <2>1. Shl(Shr(v, 12), 8) = {x \in Bits : x - 8 \in Shr(v, 12)}
    <3>1. Shr(v, 12) \in SUBSET Int
      BY <1>3, ShrFacts
    <3> QED BY <3>1, ShlFacts
  <2>2. \A x \in Bits : x - 8 \in Shr(v, 12) <=> x >= 8 /\ x + 4 \in v
    <3> SUFFICES ASSUME NEW x \in Bits PROVE x - 8 \in Shr(v, 12) <=> x >= 8 /\ x + 4 \in v
      OBVIOUS
    <3>1. x - 8 \in Shr(v, 12) <=> x - 8 \in Nat /\ (x - 8) + 12 \in v
      BY <1>3, ShrFacts
    <3>2. (x - 8) + 12 = x + 4 /\ (x - 8 \in Nat <=> x >= 8)
      BY DEF Bits
    <3> QED BY <3>1, <3>2
  <2>3. \A x \in Bits : x >= 8 => (x + 4 \in v <=> x \in m /\ x < 60)
    BY <1>2 DEF Bits
  <2>4. Low(v, 8) = {x \in m : x < 8}
    BY <1>2 DEF Low, Bits
  <2>5. Unversioned(v) = {x \in Bits : x >= 8 /\ x \in m /\ x < 60} \cup {x \in m : x < 8}
    BY <2>1, <2>2, <2>3, <2>4 DEF Unversioned
  <2>6. \A x \in m : x \in Bits /\ x \in Int
    BY <1>1
  <2>7. \A x : x \in Unversioned(v) <=> x \in m /\ x < 60
    BY <2>5, <2>6
  <2> QED BY <2>7
<1> QED BY <1>2, <1>4, <1>5 DEF v

\* What is read back: the bits up to 50
LEMMA DemixFacts ==
  ASSUME NEW s \in SUBSET Bits
  PROVE  demix(setVersion(mix(s))) = {b \in s : b <= 50}
<1> DEFINE u == {x \in mix(s) : x < 60}
           Back(j) == Shl(Low(Shr(u, 18 * j), 15), 15 * j)
<1>1. mix(s) \in SUBSET Bits
  BY MixFacts
<1>2. demix(setVersion(mix(s))) = UNION {Back(j) : j \in 0..3}
  <2> DEFINE v == setVersion(mix(s))
  <2>1. getVersion(v) = {0} /\ Unversioned(v) = u
    BY <1>1, VersionFacts
  <2> HIDE DEF u, v
  <2>2. demix(v) = UNION {Shl(Low(Shr(Unversioned(v), 18 * j), 15), 15 * j) : j \in 0..3}
    BY <2>1 DEF demix
  <2> QED BY <2>1, <2>2 DEF v
<1>3. u \in SUBSET Int /\ u \in SUBSET Bits
  BY <1>1 DEF Bits
<1> HIDE DEF u
<1>4. ASSUME NEW j \in 0..3
      PROVE  Back(j) = {b \in Bits : b - 15 * j \in 0..14 /\ b + 3 * j \in u}
  <2> DEFINE low == Low(Shr(u, 18 * j), 15)
  <2>1. low = {x \in 0..14 : x + 18 * j \in u}
    BY <1>3, ShrFacts DEF Low
  <2>2. low \in SUBSET Int
    BY <2>1
  <2> HIDE DEF low
  <2>3. Shl(low, 15 * j) = {b \in Bits : b - 15 * j \in low}
    BY <2>2, ShlFacts
  <2>4. \A b \in Bits : b - 15 * j \in low <=> b - 15 * j \in 0..14 /\ b + 3 * j \in u
    <3> SUFFICES ASSUME NEW b \in Bits
                 PROVE  b - 15 * j \in low <=> b - 15 * j \in 0..14 /\ b + 3 * j \in u
      OBVIOUS
    <3>1. (b - 15 * j) + 18 * j = b + 3 * j
      BY DEF Bits
    <3> QED BY <2>1, <3>1
  <2> QED BY <2>3, <2>4 DEF low
<1> HIDE DEF Back
<1>5. ASSUME NEW b \in Bits, NEW j \in 0..3, b - 15 * j \in 0..14
      PROVE  b + 3 * j \in u <=> b \in s /\ b <= 50
  <2> DEFINE x == b + 3 * j
  <2>1. x \in Nat /\ x \div 18 = j /\ x % 18 < 15 /\ x - 3 * j = b /\ (x < 60 <=> b <= 50)
    BY <1>5 DEF Bits
  <2> HIDE DEF x
  <2>2. CASE x < 60
    <3>1. x \in Bits
      BY <2>1, <2>2 DEF Bits
    <3>2. x \in mix(s) <=> x - 3 * (x \div 18) \in s
      BY <2>1, <3>1, MixFacts
    <3> QED BY <2>1, <2>2, <3>2 DEF u, x
  <2>3. CASE ~(x < 60)
    BY <2>1, <2>3 DEF u, x
  <2> QED BY <2>2, <2>3
<1>6. \A b \in Bits : b <= 50 => \E j \in 0..3 : b - 15 * j \in 0..14
  <2> SUFFICES ASSUME NEW b \in Bits, b <= 50 PROVE \E j \in 0..3 : b - 15 * j \in 0..14
    OBVIOUS
  <2>1. b \div 15 \in 0..3 /\ b - 15 * (b \div 15) \in 0..14
    BY DEF Bits
  <2> QED BY <2>1
<1>7. \A b : (\E j \in 0..3 : b \in Back(j)) <=> b \in s /\ b <= 50
  BY <1>4, <1>5, <1>6
<1> QED BY <1>2, <1>7

\* An id below 2^50 is read back from its code as it was, and no other of the
\* 2^64 ids is (yl_hash_id.go 8-74).
THEOREM IdsKept ==
  \A s \in SUBSET Bits : FakeIdDecode(FakeIdEncode(s)) = s <=> s \subseteq 0..49
<1> SUFFICES ASSUME NEW s \in SUBSET Bits
             PROVE  FakeIdDecode(FakeIdEncode(s)) = s <=> s \subseteq 0..49
  OBVIOUS
<1>1. CASE s = {}
  BY <1>1 DEF FakeIdEncode, FakeIdDecode, Empty
<1>2. CASE s # {}
  <2> DEFINE v == setVersion(mix(s))
  <2>1. FakeIdDecode(FakeIdEncode(s)) = IF 63 \in v \/ v = {8} THEN {} ELSE {b \in s : b <= 50}
    BY <1>2, DemixFacts DEF FakeIdEncode, FakeIdDecode
  <2>2. mix(s) \in SUBSET Bits
    BY MixFacts
  <2>3. 63 \in v <=> 59 \in mix(s)
    BY <2>2, VersionFacts DEF Bits
  <2>4. 59 \in mix(s) <=> 50 \in s
    BY MixFacts DEF Bits
  <2>5. ASSUME NEW b \in s, b <= 49 PROVE v # {8}
    <3> DEFINE x == b + 3 * (b \div 15)
    <3>1. x \in 0..58 /\ x % 18 < 15 /\ x - 3 * (x \div 18) = b
      BY <2>5 DEF Bits
    <3> HIDE DEF x
    <3>2. x \in mix(s)
      BY <3>1, MixFacts DEF Bits
    <3>3. x < 8 => x \in v
      BY <2>2, <3>2, VersionFacts
    <3>4. x >= 8 => x + 4 \in v
      BY <2>2, <3>1, <3>2, VersionFacts DEF Bits
    <3> HIDE DEF v
    <3> QED BY <3>1, <3>3, <3>4
  <2> HIDE DEF v
  <2>6. ASSUME s \subseteq 0..49 PROVE FakeIdDecode(FakeIdEncode(s)) = s
    <3>1. \A b \in s : b \in 0..49 /\ b <= 49 /\ b <= 50
      BY <2>6
    <3>2. PICK b \in s : b <= 49
      BY <1>2, <3>1
    <3>3. 63 \notin v /\ v # {8}
      BY <2>3, <2>4, <2>5, <2>6, <3>2
    <3>4. {b1 \in s : b1 <= 50} = s
      BY <3>1
    <3> QED BY <2>1, <3>3, <3>4
  <2>7. ASSUME FakeIdDecode(FakeIdEncode(s)) = s PROVE s \subseteq 0..49
    BY <1>2, <2>1, <2>3, <2>4, <2>7 DEF Bits
  <2> QED BY <2>6, <2>7
<1> QED BY <1>1, <1>2

-----------------------------------------------------------------------------
(* The hours of the chat bot.                                              *)

\* The quotient and the remainder are the only ones.
LEMMA Remainder ==
  ASSUME NEW q \in Int, NEW r \in 0..(Day - 1)
  PROVE  (q * Day + r) % Day = r
<1> DEFINE a == q * Day + r
           p == a \div Day
           t == a % Day
<1>1. Day \in Nat /\ Day > 0
  BY ChatHoursAssumption
<1>2. a \in Int /\ p \in Int /\ t \in 0..(Day - 1) /\ a = Day * p + t
  BY <1>1, SMT
<1>3. q * Day \in Int /\ p * Day \in Int /\ Day * p = p * Day
  BY <1>1, <1>2
<1>4. ASSUME NEW x \in Int, NEW y \in Int, x < y PROVE x * Day + Day <= y * Day
  <2>1. PICK d \in Nat : y = x + 1 + d
    <3>1. y - x - 1 \in Nat /\ y = x + 1 + (y - x - 1)
      BY <1>4
    <3> QED BY <3>1
  <2>2. y * Day = x * Day + Day + d * Day
    BY <1>1, <2>1
  <2>3. d * Day \in Nat
    BY <1>1
  <2>4. x * Day \in Int
    BY <1>1
  <2> QED BY <1>1, <2>2, <2>3, <2>4
<1> HIDE DEF p, t
<1>5. ~(q < p) /\ ~(p < q)
  <2>1. q * Day + r = p * Day + t
    BY <1>2, <1>3
  <2>2. CASE q < p
    <3>1. q * Day + Day <= p * Day
      BY <1>2, <1>4, <2>2
    <3> QED BY <1>1, <1>2, <1>3, <2>1, <3>1
  <2>3. CASE p < q
    <3>1. p * Day + Day <= q * Day
      BY <1>2, <1>4, <2>3
    <3> QED BY <1>1, <1>2, <1>3, <2>1, <3>1
  <2> QED BY <2>2, <2>3
<1>6. q = p
  BY <1>2, <1>5
<1>7. r = t
  BY <1>1, <1>2, <1>3, <1>6
<1> QED BY <1>7 DEF t

\* A number below the multiple counts from the one before.
LEMMA RemainderBelow ==
  ASSUME NEW q \in Int, NEW r \in (1 - Day)..(-1)
  PROVE  (q * Day + r) % Day = r + Day
<1>1. Day \in Nat /\ Day > 0 /\ q - 1 \in Int /\ r + Day \in 0..(Day - 1)
  BY ChatHoursAssumption
<1>2. ((q - 1) * Day + (r + Day)) % Day = r + Day
  BY <1>1, Remainder
<1>3. (q - 1) * Day + (r + Day) = q * Day + r
  BY <1>1
<1> QED BY <1>2, <1>3

\* Whenever the server's date is that of Shanghai the bot answers exactly between
\* the limits, on any day and for limits on either side of midnight (sync.go
\* 618-640).
THEOREM HoursKept ==
  \A now, behind \in Int, start, end \in 0..(Day - 1) :
    (now - behind) \div Day = now \div Day =>
      (IsOpen(now, behind, start, end) <=> Between(now, start, end))
<1> SUFFICES ASSUME NEW now \in Int, NEW behind \in Int, NEW start \in 0..(Day - 1), NEW end \in 0..(Day - 1),
                    (now - behind) \div Day = now \div Day
             PROVE  IsOpen(now, behind, start, end) <=> Between(now, start, end)
  OBVIOUS
<1> DEFINE q == now \div Day
           d == q * Day
           t == now % Day
<1>1. Day \in Nat /\ Day > 0
  BY ChatHoursAssumption
<1>2. q \in Int /\ d \in Int /\ t \in 0..(Day - 1) /\ now = d + t
  BY <1>1, SMT
<1>3. IsOpen(now, behind, start, end) <=>
        IF end < start THEN t > start \/ t < end ELSE t > start /\ t < end
  <2>1. Today(now, behind, start) = d + start /\ Today(now, behind, end) = d + end
    BY DEF Today
  <2> HIDE DEF q, d, t
  <2> QED BY <1>1, <1>2, <2>1 DEF IsOpen
<1>4. (now - start) % Day = IF t < start THEN t - start + Day ELSE t - start
  <2> HIDE DEF q, t
  <2>1. now - start = q * Day + (t - start)
    BY <1>1, <1>2
  <2>2. CASE t < start
    BY <1>1, <1>2, <2>1, <2>2, RemainderBelow
  <2>3. CASE ~(t < start)
    BY <1>1, <1>2, <2>1, <2>3, Remainder
  <2> QED BY <2>2, <2>3
<1>5. (end - start) % Day = IF end < start THEN end - start + Day ELSE end - start
  <2>1. end - start = 0 * Day + (end - start)
    BY <1>1
  <2>2. CASE end < start
    BY <1>1, <2>1, <2>2, RemainderBelow
  <2>3. CASE ~(end < start)
    BY <1>1, <2>1, <2>3, Remainder
  <2> QED BY <2>2, <2>3
<1> HIDE DEF q, d, t
<1> QED BY <1>1, <1>2, <1>3, <1>4, <1>5 DEF Between

-----------------------------------------------------------------------------
(* What the runs evaluate on bounded inputs, for every value of the        *)
(* constants.                                                              *)

LEMMA InputFacts ==
  Evaluation => [](input = None \/ input \in Inputs)
<1>1. Unread => input = None
  BY DEF Unread
<1>2. (input = None \/ input \in Inputs) /\ [Evaluate]_input => (input = None \/ input \in Inputs)'
  BY DEF Evaluate, None, Inputs, Lists, Sparse, Runs
<1> QED BY <1>1, <1>2, PTL DEF Evaluation

LEMMA KindFacts ==
  ASSUME input = None \/ input \in Inputs
  PROVE  /\ input.kind = "layout" => input.n \in 1..20
         /\ input.kind = "list" => input.outcomes \in Seq(Outcomes) /\ input.limit \in Nat
         /\ input.kind = "id" => input.bits \in SUBSET Bits
         /\ input.kind = "hours" =>
              /\ input.now \in Day..(2 * Day) /\ input.behind \in {0, 4}
              /\ input.start \in 0..(Day - 1) /\ input.end \in 0..(Day - 1)
<1>1. CASE input = None
  BY <1>1 DEF None
<1>2. CASE input \in [kind : {"layout"}, n : 1..20]
  BY <1>2
<1>3. CASE input \in [kind : {"list"}, outcomes : Lists, limit : 0..3]
  <2>1. \A o \in Lists : o \in Seq(Outcomes)
    BY DEF Lists, Outcomes
  <2> QED BY <1>3, <2>1
<1>4. CASE input \in [kind : {"id"}, bits : {s \in Sparse : Cardinality(s) <= MaxOnes} \cup Runs]
  <2>1. \A s \in Sparse \cup Runs : s \in SUBSET Bits
    <3>1. ASSUME NEW s \in Sparse PROVE s \in SUBSET Bits
      <4>1. \E a, b, c \in Bits : s = {a, b, c}
        BY DEF Sparse
      <4> QED BY <4>1
    <3>2. ASSUME NEW s \in Runs PROVE s \in SUBSET Bits
      <4>1. \E a, b \in Bits : s = a..b
        BY DEF Runs
      <4> QED BY <4>1 DEF Bits
    <3> QED BY <3>1, <3>2
  <2> QED BY <1>4, <2>1
<1>5. CASE input \in [kind : {"hours"}, now : Day..(2 * Day), behind : {0, 4}, start : 0..(Day - 1), end : 0..(Day - 1)]
  BY <1>5
<1> QED BY <1>1, <1>2, <1>3, <1>4, <1>5 DEF Inputs

\* The head images of the runs are laid out right whatever Size and Padding are
\* (special.go 201-415).
THEOREM LayoutHolds == Evaluation => []LayoutRight
<1>1. (input = None \/ input \in Inputs) => LayoutRight
  BY KindFacts, ImagesFit DEF LayoutRight
<1> QED BY <1>1, InputFacts, PTL

\* The first JPEGs are taken from lists of any length (special.go 120-151).
THEOREM FirstImagesHold == Evaluation => []FirstImages
<1>1. (input = None \/ input \in Inputs) => FirstImages
  BY KindFacts, FirstImagesTaken DEF FirstImages
<1> QED BY <1>1, InputFacts, PTL

\* The ids of the runs are read back exactly if they are below 2^50, however many
\* ones they have (yl_hash_id.go 8-74).
THEOREM IdsHold == Evaluation => []IdsReadBack
<1>1. (input = None \/ input \in Inputs) => IdsReadBack
  BY KindFacts, IdsKept DEF IdsReadBack
<1> QED BY <1>1, InputFacts, PTL

\* The hours of the runs are kept whatever the length of a day in ticks is
\* (sync.go 618-640).
THEOREM HoursHold == Evaluation => []HoursRight
<1>1. (input = None \/ input \in Inputs) => HoursRight
  <2> SUFFICES ASSUME input = None \/ input \in Inputs, input.kind = "hours",
                      (input.now - input.behind) \div Day = input.now \div Day
               PROVE  IsOpen(input.now, input.behind, input.start, input.end)
                        <=> Between(input.now, input.start, input.end)
    BY DEF HoursRight
  <2>1. input.now \in Int /\ input.behind \in Int
    BY KindFacts, ChatHoursAssumption
  <2> QED BY <2>1, KindFacts, HoursKept
<1> QED BY <1>1, InputFacts, PTL
=============================================================================
