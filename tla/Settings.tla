------------------------------- MODULE Settings -------------------------------
(***************************************************************************)
(* The owner's account page (web/src/pages/Settings.tsx) against the       *)
(* handlers of api/account.py and api/auth.py that it calls.               *)
(*                                                                         *)
(* Each section of the page has a flag busy of its own and sends calls     *)
(* while the others do; a change that succeeds loads the account anew, for *)
(* the whole page.  Names, passwords and codes are right or wrong, old or  *)
(* new; a request is one step of the server.                               *)
(***************************************************************************)
EXTENDS Naturals, FiniteSets, Api

CONSTANTS
    MaxCalls,  \* bound: changes asked for
    MaxLost    \* bound: calls that fail on the way

VARIABLES
    row,    \* server: the account, its second factor and its other sessions
    calls,  \* calls in flight
    late,   \* calls given up on by the browser that the server may still serve
    made,   \* number of changes asked for, and of calls lost
    page,   \* state of Settings and of its sections
    doubt   \* history: whether an answer about the account was lost, or may not be
            \* the last one; whether one with recovery codes was lost

vars == <<row, calls, late, made, page, doubt>>

Section == {"profile", "notify", "totp", "sessions", "password", "data"}

\* What the account shows of itself: /account.
Account == [name : 0..1, notify : 0..1, totp : BOOLEAN]
Serialize(r) == [name |-> r.name, notify |-> r.notify, totp |-> r.totp = "on"]

\* totp_secret and totp_enabled_at; the recovery codes, known by the call that made
\* them.
Row ==
    [name : 0..1, notify : 0..1, totp : {"off", "set_up", "on"}, codes : 0..MaxCalls,
     others : BOOLEAN, gone : BOOLEAN]

\* useState of Settings, of TwoFactorSection (secret, codes) and of SessionsSection.
Page ==
    [at : {"settings", "left"}, loaded : BOOLEAN, account : Account, form : 0..1,
     busy : [Section -> BOOLEAN], secret : BOOLEAN, codes : 0..MaxCalls,
     sessions : {"none", "one", "more"}]

\* An answer: what /account, totp_enable and list_sessions return of the row; no
\* other answer is looked at.
Body == [account : Account, codes : 0..MaxCalls, others : BOOLEAN]
Nothing == [account |-> [name |-> 0, notify |-> 0, totp |-> FALSE], codes |-> 0, others |-> FALSE]
Answer(what, r) ==
    CASE what = "load" -> [Nothing EXCEPT !.account = Serialize(r)]
      [] what = "enable" -> [Nothing EXCEPT !.codes = r.codes]
      [] what = "list_sessions" -> [Nothing EXCEPT !.others = r.others]
      [] OTHER -> Nothing

TypeOK ==
    /\ row \in Row
    /\ page \in Page
    /\ \A c \in calls : c.body \in Body
    \* A section is busy for as long as calls of its own are in flight.
    /\ page.at = "settings" =>
        \A s \in Section : page.busy[s] <=> InFlight(calls, {s}) # {}

-----------------------------------------------------------------------------
(* The server. *)

\* update_account, totp_setup, totp_enable, totp_disable, revoke_other_sessions,
\* change_password, delete_account.  ok is whether the code or the password that
\* came with the call was right.
Accepted(c) ==
    CASE c.what = "setup" -> row.totp # "on"
      [] c.what = "enable" -> c.arg.ok /\ row.totp # "off"
      [] c.what \in {"disable", "password", "delete"} -> c.arg.ok
      [] OTHER -> TRUE

Changed(c) ==
    CASE c.what = "save" -> [row EXCEPT !.name = c.arg.value]
      [] c.what = "notify" -> [row EXCEPT !.notify = c.arg.value]
      [] c.what = "setup" -> [row EXCEPT !.totp = "set_up"]
      [] c.what = "enable" -> [row EXCEPT !.totp = "on", !.codes = c.id]
      [] c.what = "disable" -> [row EXCEPT !.totp = "off"]
      [] c.what \in {"revoke_others", "password"} -> [row EXCEPT !.others = FALSE]
      [] c.what = "delete" -> [row EXCEPT !.gone = TRUE]
      [] OTHER -> row

\* Nobody is signed in once the account is gone.
Done(c) == ~row.gone /\ Accepted(c)

Serve(c) ==
    /\ page.at = "settings" /\ c.out = "pending"
    /\ row' = IF Done(c) THEN Changed(c) ELSE row
    /\ calls' = (calls \ {c}) \cup {Served(c, IF Done(c) THEN "ok" ELSE "refused",
                                              IF Done(c) THEN Answer(c.what, row') ELSE Nothing)}
    /\ UNCHANGED <<made, page, doubt>>

\* What is not known of a call whose answer nobody got.
Unknown(c) == {"account"} \cup (IF c.what = "enable" THEN {"codes"} ELSE {})

\* A request that arrives after fetch has rejected, if it is accepted: nobody waits
\* for its answer, and what it does crosses the calls in flight.
ServeLate(c) ==
    /\ page.at = "settings" /\ Done(c)
    /\ row' = Changed(c)
    /\ calls' = {[d EXCEPT !.crossed = TRUE] : d \in calls}
    /\ late' = late \ {c}
    /\ doubt' = doubt \cup Unknown(c)
    /\ UNCHANGED <<made, page>>

-----------------------------------------------------------------------------
(* The page. *)

NoArg == [value |-> 0, ok |-> TRUE]

\* A section asks for a change.
Ask(s, what, arg) ==
    /\ made["calls"] < MaxCalls
    /\ made' = [made EXCEPT !["calls"] = @ + 1]
    /\ calls' = Send(calls, Sent(made["calls"] + 1, s, what, arg, Nothing), Section)
    /\ UNCHANGED <<row, doubt>>

Idle(s) == page.at = "settings" /\ page.loaded /\ ~page.busy[s]

Busy(s) == page' = [page EXCEPT !.busy[s] = TRUE]

\* The fields of the profile can be edited at any time.
EditName ==
    /\ page.at = "settings" /\ page.loaded
    /\ page' = [page EXCEPT !.form = 1 - @]
    /\ UNCHANGED <<row, calls, made, doubt>>

\* saveProfile
SaveProfile ==
    Idle("profile") /\ Busy("profile") /\ Ask("profile", "save", [NoArg EXCEPT !.value = page.form])

\* The toggle of NotificationSection.
ToggleNotify ==
    /\ Idle("notify") /\ Busy("notify")
    /\ Ask("notify", "notify", [NoArg EXCEPT !.value = 1 - page.account.notify])

\* startSetup, enable, disable, and the Cancel of TwoFactorSection.
StartSetup ==
    /\ Idle("totp") /\ ~page.account.totp /\ ~page.secret
    /\ Busy("totp") /\ Ask("totp", "setup", NoArg)

Enable ==
    /\ Idle("totp") /\ ~page.account.totp /\ page.secret
    /\ \E ok \in BOOLEAN : Busy("totp") /\ Ask("totp", "enable", [NoArg EXCEPT !.ok = ok])

Disable ==
    /\ Idle("totp") /\ page.account.totp
    /\ \E ok \in BOOLEAN : Busy("totp") /\ Ask("totp", "disable", [NoArg EXCEPT !.ok = ok])

CancelSetup ==
    /\ Idle("totp") /\ ~page.account.totp /\ page.secret
    /\ page' = [page EXCEPT !.secret = FALSE]
    /\ UNCHANGED <<row, calls, made, doubt>>

\* "Sign out everywhere else" of SessionsSection.
RevokeOthers ==
    Idle("sessions") /\ Busy("sessions") /\ Ask("sessions", "revoke_others", NoArg)

\* submit of PasswordSection, remove of DataSection.
ChangePassword ==
    /\ Idle("password") /\ Busy("password")
    /\ \E ok \in BOOLEAN : Ask("password", "password", [NoArg EXCEPT !.ok = ok])

DeleteAccount ==
    /\ Idle("data") /\ Busy("data")
    /\ \E ok \in BOOLEAN : Ask("data", "delete", [NoArg EXCEPT !.ok = ok])

-----------------------------------------------------------------------------
(* The answers. *)

\* Mutant: a section whose account cannot be loaded stays busy.
AfterIfOk(p, c) ==
    IF c.who \in Section /\ c.out = "ok"
    THEN [p EXCEPT !.busy[c.who] = InFlight(Without(calls, c), {c.who}) # {}] ELSE p

\* The finally of a section's handler: all of its calls are over.
After(p, c) ==
    IF c.who \in Section THEN [p EXCEPT !.busy[c.who] = InFlight(Without(calls, c), {c.who}) # {}] ELSE p

Over(c) == calls' = Without(calls, c)

\* The same handler goes on with another call.
Follow(c, what) == calls' = Send(Without(calls, c), Sent(c.id, c.who, what, NoArg, Nothing), Section)

\* load: the account, and the form with it, whatever was being typed there.
Shown(c) == [page EXCEPT !.loaded = TRUE, !.account = c.body.account, !.form = c.body.account.name]

\* load of Settings; a failure leaves the page as it is.
LoadAnswer(c) ==
    /\ c.what = "load"
    /\ page' = After(IF c.out = "ok" THEN Shown(c) ELSE page, c)
    /\ Over(c)

\* refresh: a probe that fails means nobody is signed in, and RequireUser leaves
\* for the sign-in page.
ProbeAnswer(c) ==
    /\ c.what = "probe"
    /\ page' = IF c.out = "ok" THEN After(page, c) ELSE [page EXCEPT !.at = "left"]
    /\ Over(c)

\* load of SessionsSection; a failure shows an empty list.
SessionsAnswer(c) ==
    /\ c.what = "list_sessions"
    /\ page' = After([page EXCEPT !.sessions = IF c.out # "ok" THEN "none"
                                               ELSE IF c.body.others THEN "more" ELSE "one"], c)
    /\ Over(c)

Changes ==
    {"save", "notify", "setup", "enable", "disable", "revoke_others", "password", "delete"}

\* A change that failed.
FailedAnswer(c) ==
    /\ c.out # "ok"
    /\ c.what \in Changes
    /\ page' = After(page, c)
    /\ Over(c)

\* saveProfile waits for the account and for the session.
SaveAnswer(c) ==
    /\ c.what = "save" /\ c.out = "ok"
    /\ calls' = Send(Send(Without(calls, c), Sent(c.id, c.who, "load", NoArg, Nothing), Section),
                     Sent(c.id, c.who, "probe", NoArg, Nothing), Section)
    /\ UNCHANGED page

\* onChanged; the recovery codes that enable returned are shown from now on.
ChangeAnswer(c) ==
    /\ c.what \in {"notify", "enable", "disable"} /\ c.out = "ok"
    /\ page' = IF c.what = "enable" THEN [page EXCEPT !.codes = c.body.codes, !.secret = FALSE]
               ELSE page
    /\ Follow(c, "load")

SetupAnswer(c) ==
    /\ c.what = "setup" /\ c.out = "ok"
    /\ page' = After([page EXCEPT !.secret = TRUE], c)
    /\ Over(c)

PasswordAnswer(c) == c.what = "password" /\ c.out = "ok" /\ page' = After(page, c) /\ Over(c)

RevokedAnswer(c) ==
    c.what = "revoke_others" /\ c.out = "ok" /\ UNCHANGED page /\ Follow(c, "list_sessions")

DeletedAnswer(c) == c.what = "delete" /\ c.out = "ok" /\ UNCHANGED page /\ Follow(c, "sign_out")

\* onDeleted: whatever comes of it the page has no user any more, and is left.
SignedOutAnswer(c) ==
    c.what = "sign_out" /\ page' = [page EXCEPT !.at = "left"] /\ Over(c)

Handle(c) ==
    \/ LoadAnswer(c) \/ ProbeAnswer(c) \/ SessionsAnswer(c) \/ FailedAnswer(c)
    \/ SaveAnswer(c) \/ ChangeAnswer(c) \/ SetupAnswer(c) \/ PasswordAnswer(c)
    \/ RevokedAnswer(c) \/ DeletedAnswer(c) \/ SignedOutAnswer(c)

\* An account loaded with nothing else under way is the last one.  It has no codes
\* with it: only another enable brings those, and it too with nothing else under way.
Settled(c) ==
    (IF c.what = "load" /\ c.out = "ok" /\ ~c.crossed THEN {"account"} ELSE {})
    \cup (IF c.what = "enable" /\ c.out = "ok" /\ ~c.crossed THEN {"codes"} ELSE {})

Doubtful(c) == (doubt \ Settled(c)) \cup (IF c.crossed THEN {"account"} ELSE {})

Take(c) ==
    /\ page.at = "settings" /\ c.out # "pending"
    /\ Handle(c)
    /\ doubt' = Doubtful(c)
    /\ UNCHANGED <<row, made>>

\* fetch rejects.  The server has served the call, or it may yet.
Drop(c) ==
    /\ page.at = "settings" /\ made["lost"] < MaxLost
    /\ made' = [made EXCEPT !["lost"] = @ + 1]
    /\ LET d == Lost(c) IN
       \/ LoadAnswer(d) \/ ProbeAnswer(d) \/ SessionsAnswer(d) \/ FailedAnswer(d)
       \/ SignedOutAnswer(d)
    /\ late' = IF c.out = "pending" /\ c.what \in Changes THEN late \cup {c} ELSE late
    /\ doubt' = doubt \cup Unknown(c)
    /\ UNCHANGED row

-----------------------------------------------------------------------------

\* The page is opened: the account and the sessions are asked for.
Init ==
    /\ \E totp \in {"off", "on"} :
        row = [name |-> 0, notify |-> 0, totp |-> totp, codes |-> 0, others |-> TRUE, gone |-> FALSE]
    /\ calls = {Sent(0, "mount", "load", NoArg, Nothing),
                Sent(0, "mount", "list_sessions", NoArg, Nothing)}
    /\ late = {}
    /\ made = [calls |-> 0, lost |-> 0]
    /\ page = [at |-> "settings", loaded |-> FALSE, account |-> Serialize(row), form |-> 0,
               busy |-> [s \in Section |-> FALSE], secret |-> FALSE, codes |-> 0,
               sessions |-> "none"]
    /\ doubt = {}

Owner ==
    \/ EditName \/ SaveProfile \/ ToggleNotify \/ StartSetup \/ Enable \/ Disable \/ CancelSetup
    \/ RevokeOthers \/ ChangePassword \/ DeleteAccount

Answers(c) == Serve(c) \/ Take(c)

Next ==
    \/ (Owner \/ \E c \in calls : Answers(c)) /\ UNCHANGED late
    \/ \E c \in calls : Drop(c)
    \/ \E c \in late : ServeLate(c)

Spec == Init /\ [][Next]_vars

Working == page.at = "settings" /\ \E s \in Section : page.busy[s]

-----------------------------------------------------------------------------
(* Properties. *)

\* Once the page is at rest it shows the account as it is, and the recovery codes
\* on it are the ones that work: no section undoes what another has shown.
\* Excused is an answer that was lost, or that may not have been the last, and a
\* request that was given up on and served after all; for the codes only that the
\* answer with the new ones was.
ShowsTheAccount ==
    page.at = "settings" /\ page.loaded /\ calls = {} =>
        /\ "account" \notin doubt => page.account = Serialize(row)
        /\ "codes" \notin doubt /\ row.totp = "on" /\ page.codes # 0 => page.codes = row.codes

=============================================================================
