------------------------------ MODULE ChatHours ------------------------------
(***************************************************************************)
(* The hours in which the chat bot answers (uchat/sync.go, 618-640).       *)
(* Time is counted in ticks of the zone Asia/Shanghai.  The limits are     *)
(* times of the day; the code puts the date of the local zone of the       *)
(* server before them and reads the result as a time of Shanghai.  A tick   *)
(* is a second; fractions of it, which the code cuts off, are left out.     *)
(***************************************************************************)
EXTENDS Integers

CONSTANT Day  \* ticks of a day

ASSUME ChatHoursAssumption == Day \in Nat \ {0}

\* Today's time, in a zone that is behind Shanghai
Today(now, behind, time) == ((now - behind) \div Day) * Day + time

\* Mutant: the end of hours that pass midnight is tomorrow's.
OpenUntilTomorrow(now, behind, start, end) ==
  LET s == Today(now, behind, start)
      e == Today(now, behind, end) + (IF end < start THEN Day ELSE 0)
  IN  now > s /\ now < e

\* Hours that end before they start pass midnight.
IsOpen(now, behind, start, end) ==
  LET s == Today(now, behind, start)
      e == Today(now, behind, end)
  IN  IF e < s THEN now > s \/ now < e ELSE now > s /\ now < e

\* The reference: going forward from the start, the time of the day comes before
\* the end.
Between(now, start, end) ==
  LET elapsed == (now - start) % Day
  IN  0 < elapsed /\ elapsed < (end - start) % Day
=============================================================================
