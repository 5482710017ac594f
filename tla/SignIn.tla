-------------------------------- MODULE SignIn --------------------------------
(***************************************************************************)
(* Signing in: the page (web/src/pages/Login.tsx with CodeInput,           *)
(* CodeCheckIn, useTurnstile and signIn of state/session.tsx) against      *)
(* login of api/auth.py, while another device tries the same account.      *)
(*                                                                         *)
(* The server reads the account, the login tickets and the recovery codes  *)
(* in one step and writes what it changed in another.  One password, one   *)
(* email address; a password or a code is right or wrong.                  *)
(***************************************************************************)
EXTENDS Naturals, FiniteSets, Sequences, Orm, Turnstile

CONSTANTS
    MaxAttempts,  \* login_max_attempts
    Length,       \* digits of a code (LENGTH of CodeInput)
    Code,         \* recovery codes of the account
    NoCode,       \* no recovery code
    Ticket,       \* bound: login tickets that may be issued
    Enabled,      \* whether the server has Turnstile on
    MaxTries,     \* bound: attempts of the page
    MaxOther,     \* bound: attempts of the other device
    MaxLost       \* bound: calls of the page that fail on the way

ASSUME SignInAssumption ==
    /\ MaxAttempts \in Nat \ {0} /\ Length \in Nat \ {0}
    /\ NoCode \notin Code
    /\ Ticket = 1..Cardinality(Ticket)
    /\ Enabled \in BOOLEAN
    /\ {MaxTries, MaxOther, MaxLost} \subseteq Nat

VARIABLES
    account,  \* server: failed_login_count, locked_until, email_verified_at, totp
    tickets,  \* server: pending_logins
    codes,    \* server: recovery_codes, whether each has been used
    request,  \* the login of each client that is under way
    tries,    \* number of attempts of each client, and of calls lost
    page,     \* state of Login
    widget,   \* useTurnstile of Login
    guesses,  \* history: wrong passwords and codes told so since the last lock or success
    granted   \* history: how often each recovery code has let someone in

vars == <<account, tickets, codes, request, tries, page, widget, guesses, granted>>

Client == {"page", "other"}

Digit == {"blank", "right", "wrong"}
Blank == [i \in 1..Length |-> "blank"]

\* The columns of a user that login reads and writes.
Account ==
    [failed_login_count : 0..MaxAttempts, locked : BOOLEAN, verified : BOOLEAN, totp : BOOLEAN]

\* A login: what was sent, and what the server loaded and made of it.
Request ==
    [stage : {"none", "sent", "loaded", "answered"}, password : {"right", "wrong"},
     digits : {"none", "right", "wrong"}, recovery : Code \cup {NoCode},
     ticket : {0} \cup Ticket, token : {"none", "fresh", "sent"},
     out : {"none", "signed_in", "totp_required", "email_unverified", "invalid_credentials",
            "invalid_code", "verification_failed", "network_error"},
     loaded : [account : Account, tickets : [Ticket -> {"new", "live", "used"}],
               codes : [Code -> BOOLEAN]],
     edited : [account : Account, tickets : [Ticket -> {"new", "live", "used"}],
               codes : [Code -> BOOLEAN]]]

\* useState of Login.  sending is the local sendingCode of attempt.
Page ==
    [at : {"login", "app"}, password : {"right", "wrong"}, digits : [1..Length -> Digit],
     recovery : Code \cup {NoCode}, needsSecondFactor : BOOLEAN,
     useRecovery : BOOLEAN, ticket : {0} \cup Ticket,
     checkIn : {"idle", "merging", "tagged", "rejected"},
     errorCode : {"none", "invalid_code", "email_unverified", "other"},
     busy : BOOLEAN, sending : BOOLEAN]

Stored == [account |-> account, tickets |-> tickets, codes |-> codes]

NoRequest ==
    [stage |-> "none", password |-> "right", digits |-> "none", recovery |-> NoCode,
     ticket |-> 0, token |-> "none", out |-> "none",
     loaded |-> [account |-> [failed_login_count |-> 0, locked |-> FALSE, verified |-> TRUE,
                              totp |-> TRUE],
                 tickets |-> [t \in Ticket |-> "new"], codes |-> [c \in Code |-> FALSE]],
     edited |-> [account |-> [failed_login_count |-> 0, locked |-> FALSE, verified |-> TRUE,
                              totp |-> TRUE],
                 tickets |-> [t \in Ticket |-> "new"], codes |-> [c \in Code |-> FALSE]]]

TypeOK ==
    /\ account \in Account
    /\ account.failed_login_count < MaxAttempts
    /\ tickets \in [Ticket -> {"new", "live", "used"}]
    /\ codes \in [Code -> BOOLEAN]
    /\ request \in [Client -> Request]
    /\ page \in Page
    /\ widget \in Widget
    \* While the page waits for its answer nothing else can be submitted.
    /\ request["page"].stage # "none" => page.busy
    /\ page.checkIn = "tagged" => page.busy

-----------------------------------------------------------------------------
(* The server: login of api/auth.py. *)

\* _redeem_login_ticket
Redeemed(r, db) ==
    IF r.ticket # 0 /\ db.tickets[r.ticket] = "live"
    THEN [db EXCEPT !.tickets[r.ticket] = "used"] ELSE db

\* Mutant: the account is locked by one failure too many.
RegisterFailureLate(db) ==
    LET n == db.account.failed_login_count + 1 IN
    IF n > MaxAttempts
    THEN [db EXCEPT !.account.failed_login_count = 0, !.account.locked = TRUE]
    ELSE [db EXCEPT !.account.failed_login_count = n]

\* _register_failure
RegisterFailure(db) ==
    LET n == db.account.failed_login_count + 1 IN
    IF n >= MaxAttempts
    THEN [db EXCEPT !.account.failed_login_count = 0, !.account.locked = TRUE]
    ELSE [db EXCEPT !.account.failed_login_count = n]

\* _issue_login_ticket: one at a time.
IssueTicket(db, t) ==
    [db EXCEPT !.tickets = [u \in Ticket |-> IF u = t THEN "live"
                                             ELSE IF @[u] = "live" THEN "used" ELSE @[u]]]

\* consume_recovery_code finds the code among those not used.
Unused(c, db) == c # NoCode /\ ~db.codes[c]

\* _second_factor_ok: a recovery code is preferred to a code of the app.
SecondFactorOk(r, db) ==
    IF r.recovery # NoCode THEN Unused(r.recovery, db) ELSE r.digits = "right"

\* Mutant: the code is not marked as used.
ConsumeNothing(r, db) == db

\* consume_recovery_code
Consume(r, db) == IF Unused(r.recovery, db) THEN [db EXCEPT !.codes[r.recovery] = TRUE] ELSE db

\* What login decides, in the order it asks.
Decision(r, db) ==
    CASE db = Redeemed(r, db) /\ ~Genuine(r.token, Enabled) -> "verification_failed"
      [] OTHER ->
         IF db.account.locked \/ r.password = "wrong" THEN "invalid_credentials"
         ELSE IF ~db.account.verified THEN "email_unverified"
         ELSE IF ~db.account.totp THEN "signed_in"
         ELSE IF r.digits = "none" /\ r.recovery = NoCode THEN "totp_required"
         ELSE IF SecondFactorOk(r, db) THEN "signed_in" ELSE "invalid_code"

\* ... and what it does to the rows it loaded, with ticket t if it issues one.
Edited(r, db, t) ==
    LET now == Redeemed(r, db)
        out == Decision(r, db) IN
    CASE out = "verification_failed" -> db
      [] out = "totp_required" -> IssueTicket(now, t)
      [] out = "invalid_code" -> RegisterFailure(now)
      [] out = "invalid_credentials" -> IF db.account.locked THEN now ELSE RegisterFailure(now)
      [] out = "email_unverified" -> now
      [] out = "signed_in" ->
            LET in == IF db.account.totp THEN Consume(r, now) ELSE now IN
            [in EXCEPT !.account.failed_login_count = 0, !.account.locked = FALSE]

\* The next ticket, where one is left.
NextTicket == {t \in Ticket : /\ \A u \in Ticket : u < t <=> tickets[u] # "new"
                              /\ \A c \in Client : request[c].ticket # t}

\* login up to its commit, for a call r.
Loaded(r, t) ==
    [NoRequest EXCEPT !.stage = "loaded", !.out = Decision(r, Stored), !.recovery = r.recovery,
                      !.ticket = IF Decision(r, Stored) = "totp_required" THEN t ELSE 0,
                      !.loaded = Stored, !.edited = Edited(r, Stored, t)]

Load ==
    /\ request["page"].stage = "sent"
    /\ \E ticket \in {0, request["page"].ticket} :   \* 0: PENDING_LOGIN_TTL has passed
        LET r == [request["page"] EXCEPT !.ticket = ticket] IN
        \E t \in IF Decision(r, Stored) = "totp_required" THEN NextTicket ELSE {0} :
            request' = [request EXCEPT !["page"] = Loaded(r, t)]
    /\ UNCHANGED <<account, tickets, codes, tries, page, widget, guesses, granted>>

\* The attempt that locks the account, or gets in, begins the count anew.
Guesses(r) ==
    IF (r.edited.account.locked /\ ~r.loaded.account.locked) \/ r.out = "signed_in" THEN 0
    ELSE IF r.out = "invalid_code" \/ (r.out = "invalid_credentials" /\ ~r.loaded.account.locked)
         THEN guesses + 1 ELSE guesses

\* Without a second factor a recovery code that is sent along counts for nothing.
Grants(r, code) == r.out = "signed_in" /\ r.recovery = code /\ r.loaded.account.totp

\* The commit: columns and rows that were edited are written.
Commit(c) ==
    /\ request[c].stage = "loaded"
    /\ LET r == request[c] IN
       /\ account' = Flushed(account, r.loaded.account, r.edited.account)
       /\ tickets' = Flushed(tickets, r.loaded.tickets, r.edited.tickets)
       /\ codes' = Flushed(codes, r.loaded.codes, r.edited.codes)
       /\ guesses' = Guesses(r)
       /\ granted' = [d \in Code |-> granted[d] + (IF Grants(r, d) THEN 1 ELSE 0)]
       /\ request' = [request EXCEPT ![c] =
            IF c = "page" THEN [NoRequest EXCEPT !.stage = "answered", !.out = r.out,
                                                 !.ticket = r.ticket]
            ELSE NoRequest]
    /\ UNCHANGED <<tries, page, widget>>

\* locked_until passes.
LockEnds ==
    /\ account.locked
    /\ account' = [account EXCEPT !.locked = FALSE]
    /\ UNCHANGED <<tickets, codes, request, tries, page, widget, guesses, granted>>

\* Another device tries, with a recovery code or a wrong guess.
OtherTries ==
    /\ request["other"].stage = "none" /\ tries["other"] < MaxOther
    /\ tries' = [tries EXCEPT !["other"] = @ + 1]
    /\ \E recovery \in Code \cup {NoCode} :
        request' = [request EXCEPT !["other"] =
            Loaded([NoRequest EXCEPT !.digits = "wrong", !.recovery = recovery,
                                     !.token = "fresh"], 0)]
    /\ UNCHANGED <<account, tickets, codes, page, widget, guesses, granted>>

-----------------------------------------------------------------------------
(* The page: its widget and its fields. *)

Server == <<account, tickets, codes, guesses, granted>>
AtLogin == page.at = "login"

\* The widget stays mounted through the code step, hidden.
WidgetMoves ==
    /\ AtLogin
    /\ widget' \in Moves(widget, Enabled)
    /\ UNCHANGED <<Server, request, tries, page>>

EditPassword ==
    /\ AtLogin /\ ~page.needsSecondFactor
    /\ page' = [page EXCEPT !.password = IF @ = "right" THEN "wrong" ELSE "right"]
    /\ UNCHANGED <<Server, request, tries, widget>>

\* The recovery code's field is not disabled while an attempt is under way.
EditRecovery ==
    /\ AtLogin /\ page.needsSecondFactor /\ page.useRecovery
    /\ \E c \in Code \cup {NoCode} : page' = [page EXCEPT !.recovery = c]
    /\ UNCHANGED <<Server, request, tries, widget>>

\* Neither code is cleared: both are sent if both were typed.
ToggleRecovery ==
    /\ AtLogin /\ page.needsSecondFactor
    /\ page' = [page EXCEPT !.useRecovery = ~@]
    /\ UNCHANGED <<Server, request, tries, widget>>

\* backToPassword, also while an attempt is under way.
BackToPassword ==
    /\ AtLogin /\ page.needsSecondFactor
    /\ page' = [page EXCEPT !.needsSecondFactor = FALSE, !.useRecovery = FALSE,
                            !.digits = Blank, !.recovery = NoCode, !.ticket = 0,
                            !.errorCode = "none", !.checkIn = "idle"]
    /\ UNCHANGED <<Server, request, tries, widget>>

\* The value of the boxes as it is sent: nothing, right, or wrong, for which one
\* wrong or missing digit is enough.
Typed(digits) ==
    IF digits = Blank THEN "none"
    ELSE IF \A i \in 1..Length : digits[i] = "right" THEN "right" ELSE "wrong"

\* attempt, with the code that was just completed or the one in the boxes.
Attempt(digits) ==
    LET sending == page.needsSecondFactor /\ ~page.useRecovery /\ digits # Blank IN
    /\ ~page.busy /\ tries["page"] < MaxTries
    /\ tries' = [tries EXCEPT !["page"] = @ + 1]
    /\ page' = [page EXCEPT !.busy = TRUE, !.errorCode = "none", !.digits = digits,
                            !.sending = sending, !.checkIn = IF sending THEN "merging" ELSE @]
    /\ request' = [request EXCEPT !["page"] =
            [NoRequest EXCEPT !.stage = "sent", !.password = page.password,
                              !.digits = Typed(digits), !.recovery = page.recovery,
                              !.ticket = page.ticket, !.token = widget.token]]
    /\ widget' = SendsToken(widget)

\* handleSubmit: the code step does not wait for the widget.
Submit ==
    /\ AtLogin
    /\ page.needsSecondFactor \/ Ready(widget)
    /\ Attempt(page.digits)
    /\ UNCHANGED Server

BoxesEnabled == AtLogin /\ page.needsSecondFactor /\ ~page.useRecovery /\ ~page.busy

\* put: what was typed fills the boxes from i on; a full row is sent at once.
Put(i, typed) ==
    LET next == [j \in 1..Length |-> IF j >= i /\ j < i + Len(typed)
                                     THEN typed[j - i + 1] ELSE page.digits[j]] IN
    /\ BoxesEnabled
    /\ IF \A j \in 1..Length : next[j] # "blank"
       THEN Attempt(next)
       ELSE page' = [page EXCEPT !.digits = next] /\ UNCHANGED <<request, tries, widget>>
    /\ UNCHANGED Server

\* onKeyDown: the digit in the box goes, or the one before it.
Backspace(i) ==
    LET gone == IF page.digits[i] # "blank" THEN i ELSE i - 1 IN
    /\ BoxesEnabled /\ gone > 0
    /\ page' = [page EXCEPT !.digits[gone] = "blank"]
    /\ UNCHANGED <<Server, request, tries, widget>>

-----------------------------------------------------------------------------
(* The answer. *)

\* The catch of attempt, and its finally.
Refused(code) ==
    /\ page' = [page EXCEPT
            !.checkIn = IF page.sending THEN "rejected" ELSE @,
            !.errorCode = IF code \in {"invalid_code", "email_unverified"} THEN code ELSE "other",
            !.digits = Blank, !.recovery = NoCode, !.ticket = 0,
            !.busy = FALSE, !.sending = FALSE]
    /\ widget' = Reset(widget)

\* The rest of attempt once signIn has returned.
Answered ==
    /\ request["page"].stage = "answered"
    /\ LET r == request["page"] IN
       CASE r.out = "totp_required" ->
                /\ page' = [page EXCEPT !.needsSecondFactor = TRUE, !.ticket = r.ticket,
                                        !.busy = FALSE, !.sending = FALSE]
                /\ widget' = Reset(widget)
         [] r.out = "signed_in" /\ page.sending ->
                page' = [page EXCEPT !.checkIn = "tagged"] /\ UNCHANGED widget
         [] r.out = "signed_in" /\ ~page.sending ->
                page' = [page EXCEPT !.at = "app"] /\ UNCHANGED widget
         [] OTHER -> Refused(r.out)
    /\ request' = [request EXCEPT !["page"] = NoRequest]
    /\ UNCHANGED <<Server, tries>>

\* fetch rejects, before the server had the call or after it was through with it.
Lost ==
    /\ request["page"].stage \in {"sent", "answered"} /\ tries["lost"] < MaxLost
    /\ tries' = [tries EXCEPT !["lost"] = @ + 1]
    /\ Refused("network_error")
    /\ request' = [request EXCEPT !["page"] = NoRequest]
    /\ UNCHANGED Server

\* CHECKIN_MS later, navigate(from): wherever the page is by then.
CheckedIn ==
    /\ AtLogin /\ page.busy /\ request["page"].stage = "none"
    /\ page' = [page EXCEPT !.at = "app"]
    /\ UNCHANGED <<Server, request, tries, widget>>

\* Mutant: the timer is only set for a code that is shown as wrong.
RejectedEndsWithError ==
    /\ AtLogin /\ page.checkIn = "rejected" /\ page.errorCode = "invalid_code"
    /\ page' = [page EXCEPT !.checkIn = "idle"]
    /\ UNCHANGED <<Server, request, tries, widget>>

\* REJECT_MS later the boxes come back.
RejectedEnds ==
    /\ AtLogin /\ page.checkIn = "rejected"
    /\ page' = [page EXCEPT !.checkIn = "idle"]
    /\ UNCHANGED <<Server, request, tries, widget>>

-----------------------------------------------------------------------------

Init ==
    /\ \E verified, totp \in BOOLEAN :
        /\ totp => verified
        /\ account = [failed_login_count |-> 0, locked |-> FALSE, verified |-> verified,
                      totp |-> totp]
    /\ tickets = [t \in Ticket |-> "new"]
    /\ codes = [c \in Code |-> FALSE]
    /\ request = [c \in Client |-> NoRequest]
    /\ tries = [c \in Client \cup {"lost"} |-> 0]
    /\ page = [at |-> "login", password |-> "right", digits |-> Blank, recovery |-> NoCode,
               needsSecondFactor |-> FALSE, useRecovery |-> FALSE, ticket |-> 0,
               checkIn |-> "idle", errorCode |-> "none", busy |-> FALSE, sending |-> FALSE]
    /\ widget = NewWidget(TRUE)
    /\ guesses = 0
    /\ granted = [c \in Code |-> 0]

\* A digit, or a whole code pasted.
Inputs == {<<"right">>, <<"wrong">>, [i \in 1..Length |-> "right"]}

User ==
    \/ EditPassword \/ EditRecovery \/ ToggleRecovery \/ BackToPassword \/ Submit
    \/ \E i \in 1..Length : Backspace(i) \/ \E typed \in Inputs : Put(i, typed)

Next ==
    \/ User \/ WidgetMoves \/ OtherTries
    \/ Load \/ \E c \in Client : Commit(c)
    \/ Answered \/ Lost \/ CheckedIn \/ RejectedEnds
    \/ LockEnds

Spec == Init /\ [][Next]_vars

\* A call is served and answered, or fails; the timers of the page run out.
Fairness ==
    /\ WF_vars(Load) /\ WF_vars(Commit("page")) /\ WF_vars(Answered)
    /\ WF_vars(CheckedIn) /\ WF_vars(RejectedEnds)

FairSpec == Spec /\ Fairness

-----------------------------------------------------------------------------
(* Properties. *)

\* Failures are counted on the loaded row, so two attempts at once may count as
\* one, and a stale count may replace a higher one.  Even so an account takes no
\* more wrong guesses before it is locked than n + (n - 1) + ... + 1, where n is
\* login_max_attempts and attempts come two at a time.
GuessesAreBounded == 2 * guesses < MaxAttempts * (MaxAttempts + 1)

\* A recovery code lets in no more devices than try it at the same time.
RecoveryCodesAreScarce == \A c \in Code : granted[c] <= Cardinality(Client)

\* No Turnstile token goes out twice: every attempt that ends throws the widget's
\* token away before the form can be submitted again.
TokensAreSentOnce ==
    [][request["page"].stage = "none" /\ request'["page"].stage = "sent"
        => widget.token # "sent"]_vars

\* The boxes of the code never stay packed away: whatever the answer, the page
\* goes on or gives them back, unless the owner went back to the password.
CheckInEnds == (page.checkIn # "idle") ~> (page.checkIn = "idle" \/ page.at = "app")

=============================================================================
