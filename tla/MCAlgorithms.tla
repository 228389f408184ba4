---------------------------- MODULE MCAlgorithms ----------------------------
(***************************************************************************)
(* The pure parts of the system, evaluated on every input of a bounded     *)
(* set: the layout of head images, the obfuscated ids and the hours of the *)
(* chat bot.                                                               *)
(***************************************************************************)
EXTENDS HeadImage, FakeId, ChatHours, TLC

CONSTANTS
  MaxMembers, \* lengths of the lists of head images
  MaxOnes     \* bound on the one bits of sparse ids

VARIABLE input

Lists == UNION {[1..n -> {"jpeg", "other", "error"}] : n \in 0..MaxMembers}

\* Ids with a few ones, and ids with a run of ones, of all lengths
Sparse == {{a, b, c} : a, b, c \in Bits}
Runs == {a..b : a, b \in Bits}

Inputs ==
  [kind : {"layout"}, n : 1..20]
  \cup [kind : {"list"}, outcomes : Lists, limit : 0..3]
  \cup [kind : {"id"}, bits : {s \in Sparse : Cardinality(s) <= MaxOnes} \cup Runs]
  \cup [kind : {"hours"}, now : Day..(2 * Day), behind : {0, 4}, start : 0..(Day - 1), end : 0..(Day - 1)]

None == [kind |-> "none"]

Unread == input = None

Evaluate == input = None /\ input' \in Inputs

Evaluation == Unread /\ [][Evaluate]_input

\* Every number of images is laid out as the reference says, on a board that
\* holds them, and no two overlap (special.go 201-415).
LayoutRight ==
  input.kind = "layout" =>
    LET n == input.n
        shown == 0..(Drawn(n) - 1)
    IN  /\ \A i \in shown : Place(n, i) = Reference(Drawn(n), i) /\ Inside(n, i)
        /\ \A i, j \in shown : i # j => Apart(n, i, j)

\* The images are the first that are JPEGs, as many as the limit allows, in the
\* order of the members; nothing after the last of them makes the image fail
\* (special.go 120-151).
FirstImages ==
  input.kind = "list" =>
    LET good == {k \in DOMAIN input.outcomes : input.outcomes[k] = "jpeg"}
        Rank(k) == Cardinality({j \in good : j <= k})
        images == SetImages(input.outcomes, input.limit)
        picked == {k \in good : input.limit = 0 \/ Rank(k) <= input.limit}
    IN  /\ {images[i] : i \in DOMAIN images} = picked
        /\ \A k \in picked : images[Rank(k)] = k
        /\ SetImagesFails(input.outcomes, input.limit) <=>
             \E k \in DOMAIN input.outcomes :
               /\ input.outcomes[k] = "error"
               /\ input.limit > 0 => Rank(k) < input.limit

\* An id below 2^50 is read back as it was, and no other is: from 2^50 on the
\* obfuscated number is negative or loses bits (yl_hash_id.go 8-74).
IdsReadBack ==
  input.kind = "id" => (FakeIdDecode(FakeIdEncode(input.bits)) = input.bits <=> input.bits \subseteq 0..49)

\* The bot answers exactly between the limits, midnight or not, whenever the
\* server's date is the date of Shanghai (sync.go 618-640).
HoursRight ==
  input.kind = "hours" /\ (input.now - input.behind) \div Day = input.now \div Day =>
    (IsOpen(input.now, input.behind, input.start, input.end)
       <=> Between(input.now, input.start, input.end))
=============================================================================
