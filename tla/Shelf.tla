-------------------------------- MODULE Shelf --------------------------------
(***************************************************************************)
(* What a playlist promises its owner: it is one line of videos, each      *)
(* video in it once, at most Limit of them.  A saved video goes to the end *)
(* of the line, and one that is taken out leaves the others in their       *)
(* order.  Playlists implements this with numbered rows, and with          *)
(* transactions whose statements interleave.                               *)
(***************************************************************************)
EXTENDS Naturals, FiniteSets

CONSTANTS
    Lists,
    Videos,
    Limit    \* how many videos a list holds

VARIABLE order    \* order[l]: the pairs <<u, v>> with u no later than v in l

Shown(l) == {v \in Videos : <<v, v>> \in order[l]}

Init == order = [l \in Lists |-> {}]

Append(l, v) ==
    /\ v \notin Shown(l)
    /\ Cardinality(Shown(l)) < Limit
    /\ order' = [order EXCEPT ![l] = @ \cup (Shown(l) \X {v}) \cup {<<v, v>>}]

Without(pairs, v) == {p \in pairs : p[1] # v /\ p[2] # v}

TakeOut(l, v) == order' = [order EXCEPT ![l] = Without(@, v)]

(* The video itself is deleted.                                            *)
TakeOutEverywhere(v) == order' = [l \in Lists |-> Without(order[l], v)]

(* The list is deleted.                                                    *)
Drop(l) == order' = [order EXCEPT ![l] = {}]

Next ==
    \/ \E l \in Lists : Drop(l) \/ \E v \in Videos : Append(l, v) \/ TakeOut(l, v)
    \/ \E v \in Videos : TakeOutEverywhere(v)

Spec == Init /\ [][Next]_order
=============================================================================
