---------------------------- MODULE ScanDecision -----------------------------
(***************************************************************************)
(* What the scan page promises the person who scanned a bag, and the owner *)
(* who is told of it.  A scan is checked until it is decided; it is decided *)
(* once.  Only a scan decided to be a finder's is announced to the owner,  *)
(* but for the page of one who signs out on it.                            *)
(***************************************************************************)
CONSTANT Scan   \* scans, each a tab of the browser

VARIABLES
    screen,     \* what each scan's tab shows
    announced   \* scans the server was told of

Screens == {"checking", "finder", "elsewhere", "unreadable", "left"}

Init ==
    /\ screen = [s \in Scan |-> "checking"]
    /\ announced = {}

\* The page is checked and decided.
Decide(s) ==
    /\ screen[s] = "checking"
    /\ \E d \in Screens \ {"checking"} : screen' = [screen EXCEPT ![s] = d]
    /\ UNCHANGED announced

\* The person goes on from a decided page; a page that another tab took may
\* still turn out to be unreadable.
GoOn(s) ==
    /\ \/ /\ screen[s] \in {"finder", "elsewhere", "unreadable"}
          /\ screen' = [screen EXCEPT ![s] = "left"]
       \/ /\ screen[s] = "elsewhere"
          /\ screen' = [screen EXCEPT ![s] = "unreadable"]
    /\ UNCHANGED announced

\* At most once, and never for a page still being checked.
Announce(s) ==
    /\ screen[s] \in {"finder", "elsewhere"} /\ s \notin announced
    /\ announced' = announced \cup {s}
    /\ UNCHANGED screen

Next == \E s \in Scan : Decide(s) \/ GoOn(s) \/ Announce(s)

Spec == Init /\ [][Next]_<<screen, announced>>

=============================================================================
