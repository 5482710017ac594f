------------------------------ MODULE MCTagPage ------------------------------
(* TagPage with two stickers. *)
EXTENDS TagPage, TLC

CONSTANTS c1, c2

\* The stickers are interchangeable: one of each pair of links will do.
Pairs ==
    {c1 :> p @@ c2 :> q : p \in {"here", "other"}, q \in {"there", "other", "nobody"}}
    \cup {c1 :> p @@ c2 :> "nobody" : p \in {"there", "nobody"}}

=============================================================================
