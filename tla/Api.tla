--------------------------------- MODULE Api ---------------------------------
(***************************************************************************)
(* The browser's side of a call to the server: request, fetchAsset and     *)
(* what is built on them in web/src/api/client.ts.                         *)
(*                                                                         *)
(* A call is a record.  It is in flight until the page takes its outcome:  *)
(* the body the server computed when it served the call, the code of an    *)
(* ApiError, or network_error when fetch rejected, which does not say      *)
(* whether the server had served the call.  No call has a time-out of its  *)
(* own.                                                                    *)
(***************************************************************************)
EXTENDS Naturals

\* request before fetch returns: nothing is known of the answer yet.  nil is a
\* body of the shape the caller expects, so that calls are comparable.
Sent(id, who, what, arg, nil) ==
    [id |-> id, who |-> who, what |-> what, arg |-> arg,
     out |-> "pending", body |-> nil, crossed |-> FALSE]

\* The server's answer: a body under 2xx, an error with its code otherwise.
Served(c, out, body) == [c EXCEPT !.out = out, !.body = body]

\* The calls but for c, whatever has become of c since.
Without(calls, c) == {d \in calls : d.id # c.id \/ d.what # c.what}

InFlight(calls, whos) == {c \in calls : c.who \in whos}

\* fetch rejected.  The server may have served the call or not.
Lost(c) == [c EXCEPT !.out = "network_error"]

\* A call sent while others of another part of the page are in flight crosses
\* them: their answers may arrive in either order.
Send(calls, c, whos) ==
    LET others == {d \in calls : d.who \in whos /\ d.who # c.who} IN
    (calls \ others) \cup {[d EXCEPT !.crossed = TRUE] : d \in others}
                     \cup {[c EXCEPT !.crossed = others # {}]}

=============================================================================
