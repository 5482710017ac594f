------------------------------ MODULE MCHandoff ------------------------------
(* Handoff with two scans under way and two tabs of the app. *)
EXTENDS Handoff, TLC

CONSTANTS s1, s2

\* One bag is the user's; the other is too, under its current code or an old
\* one, or it is not.
Mine == [mine |-> TRUE, current |-> TRUE]
Two == {s1 :> Mine @@ s2 :> b : b \in {Mine, [Mine EXCEPT !.current = FALSE],
                                        [Mine EXCEPT !.mine = FALSE]}}

=============================================================================
