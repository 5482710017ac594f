-------------------------------- MODULE Orm --------------------------------
(***************************************************************************)
(* What a SQLAlchemy session writes when a handler commits.                *)
(*                                                                         *)
(* A handler loads a row, edits the object and commits later. The UPDATE   *)
(* it then issues names only the columns whose edited value differs from   *)
(* the value that was LOADED: a column another transaction changed in      *)
(* between survives when this handler left it alone, and is overwritten    *)
(* (a lost update) when this handler edited it.  A column assigned the     *)
(* value it was loaded with is not written at all.                         *)
(***************************************************************************)

\* The row after the UPDATE of a handler that loaded `loaded` and left `edited`.
Flushed(stored, loaded, edited) ==
    [column \in DOMAIN stored |->
        IF edited[column] # loaded[column] THEN edited[column] ELSE stored[column]]

\* The row after the UPDATE of a handler that gave the columns of `edits` values
\* they did not have when it loaded the row (a fresh timestamp always is one).
Updated(stored, edits) ==
    [column \in DOMAIN stored |->
        IF column \in DOMAIN edits THEN edits[column] ELSE stored[column]]

=============================================================================
