--------------------------- MODULE MCWorkTemplate ---------------------------
(* Two templates of a type with one template per room, one of a type with  *)
(* several, all of one sub shop.  Two robots are in r1, one of them of no  *)
(* sub shop, one in r2; a list may name a room twice.                      *)
EXTENDS WorkTemplate, TLC

CONSTANTS t1, t2, t3, shop, welcome, keyword, r1, r2, l1, l2, l3, q1, q2, q3

MCSub == [t \in {t1, t2, t3} |-> shop]
MCType == (t1 :> welcome) @@ (t2 :> welcome) @@ (t3 :> keyword)
MCRoom == (l1 :> r1) @@ (l2 :> r1) @@ (l3 :> r2)
MCShop == (l1 :> shop) @@ (l2 :> NoShop) @@ (l3 :> shop)
MCLists == {<<r1>>, <<r2>>, <<r1, r2>>, <<r1, r1>>, <<Blank>>}
RequestSymmetry == Permutations(Requests)
=============================================================================
