------------------------------ MODULE MCRelay -------------------------------
(* Relay on small sets of model values. *)
EXTENDS Relay, TLC

\* What the owner sets the tag to: safe, or lost with the name shown to those
\* who are answered, or to everyone.
Safe == [lost |-> FALSE, relay |-> TRUE, disclosure |-> "on_reply"]
Lost == [Safe EXCEPT !.lost = TRUE]
LostNamed == [Lost EXCEPT !.disclosure = "always"]

Everyday == {Safe, Lost}
Reported == {Lost}
Named == {Lost, LostNamed}

\* Workers and conversations are interchangeable.
Symmetry == Permutations(Worker) \cup Permutations(Thread)

=============================================================================
