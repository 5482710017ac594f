----------------------------- MODULE MCScanLog ------------------------------
(* ScanLog on small sets of model values. *)
EXTENDS ScanLog, TLC

\* Every browser has an address of its own, or all share one, or one has none.
OwnAddresses == [b \in Browser |-> <<"hash", b>>]
OneAddress == [b \in Browser |-> "address"]
OneHidden == [b \in Browser |->
                 IF b = CHOOSE x \in Browser : TRUE THEN Unknown ELSE "address"]

\* Workers, browsers and event ids are interchangeable.
Symmetry == Permutations(Worker) \cup Permutations(Browser) \cup Permutations(Event)

=============================================================================
