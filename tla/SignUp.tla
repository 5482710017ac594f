-------------------------------- MODULE SignUp --------------------------------
(***************************************************************************)
(* Getting an account, and getting back into it: web/src/pages/Register,   *)
(* VerifyEmail and ResetPassword, and components/ResendVerification,       *)
(* against the handlers of api/auth.py and the email tokens of             *)
(* services/accounts.py.                                                   *)
(*                                                                         *)
(* One email address, one browser.  The links the server mails wait in the *)
(* mailbox; the user follows one, or goes to another page, when the page   *)
(* is at rest.  Meanwhile somebody else may register the same address, and *)
(* the invitation to it may be withdrawn.  A request is one step.  The     *)
(* password is left out: nothing here depends on which it is.              *)
(***************************************************************************)
EXTENDS Naturals, FiniteSets, Api, Turnstile

CONSTANTS
    Token,    \* bound: email tokens, 1..n, in the order they are issued
    Enabled,  \* whether the server has Turnstile on
    MaxCalls, \* bound: calls of the page
    MaxLost   \* bound: calls that fail on the way

VARIABLES
    account,  \* server: the user: exists, verified, whose name it has
    tokens,   \* server: email_tokens
    due,      \* server: VERIFICATION_RESEND_INTERVAL has passed since the last link
    invite,   \* server: whether the invitation can be taken
    mailbox,  \* the links that were delivered
    calls,    \* calls in flight
    late,     \* calls given up on by the browser that the server may still serve
    made,     \* number of calls, and of those lost
    page,     \* state of the page that is open
    widget    \* useTurnstile of that page

vars == <<account, tokens, due, invite, mailbox, calls, late, made, page, widget>>

Server == <<account, tokens, due, invite, mailbox>>

Purpose == {"none", "verify", "reset"}

\* The pages with a form, a link to follow, or a word that mail was sent.  Login
\* is "login" once it has ResendVerification on it, "signin" before.
Place == {"register", "registered", "login", "signin", "verify", "forgot", "forgotten", "reset", "app"}

\* useState of the page: with is whether its URL has an invitation, link is its
\* token; remaining is whether ResendVerification is counting down.
Page ==
    [at : Place, with : BOOLEAN, checking : BOOLEAN, invited : BOOLEAN, link : {0} \cup Token,
     busy : BOOLEAN, error : BOOLEAN, remaining : BOOLEAN]

TypeOK ==
    /\ account \in [exists : BOOLEAN, verified : BOOLEAN, name : {"typed", "printed"}]
    /\ tokens \in [Token -> [purpose : Purpose, state : {"new", "live", "used"}]]
    /\ mailbox \subseteq {t \in Token : tokens[t].state # "new"}
    /\ page \in Page
    /\ widget \in Widget
    /\ page.busy \/ page.checking <=> calls # {}
    \* There is never more than one link of a kind that works.
    /\ \A t, u \in Token :
        tokens[t] = tokens[u] /\ tokens[t].state = "live" => t = u

-----------------------------------------------------------------------------
(* The server. *)

\* issue_email_token: one live token per purpose; deliver may fail.
Issue(purpose) ==
    \E t \in Token :
        /\ tokens[t].state = "new" /\ \A u \in Token : u < t => tokens[u].state # "new"
        /\ tokens' = [u \in Token |->
                IF u = t THEN [purpose |-> purpose, state |-> "live"]
                ELSE IF tokens[u] = [purpose |-> purpose, state |-> "live"]
                     THEN [tokens[u] EXCEPT !.state = "used"] ELSE tokens[u]]
        /\ mailbox' \in {mailbox, mailbox \cup {t}}
        /\ due' = IF purpose = "verify" THEN FALSE ELSE due

Unchanged == UNCHANGED <<tokens, mailbox, due>>

\* Mutant: what the form sent will do when the invitation is spent.
IdentityOrForm(sent) == IF sent /\ invite THEN "printed" ELSE "typed"

\* _invited_identity: a spent invitation refuses.
Identity(sent) == IF ~sent THEN "typed" ELSE IF invite THEN "printed" ELSE "refused"

\* register: a new account takes the claims that wait for its address; one that
\* is there already gets a mail, with a link unless it is confirmed.
Register(sent) ==
    /\ Identity(sent) # "refused"
    /\ IF ~account.exists
       THEN /\ account' = [exists |-> TRUE, verified |-> FALSE, name |-> Identity(sent)]
            /\ invite' = FALSE
            /\ Issue("verify")
       ELSE /\ UNCHANGED <<account, invite>>
            /\ IF account.verified THEN Unchanged ELSE Issue("verify")

\* A request that is refused, for its token, its password, its rate or by
\* enforce: nothing is committed.
RefusedBy(c) == UNCHANGED Server

\* consume_email_token
Consumes(t) ==
    /\ tokens[t].state = "live"
    /\ tokens' = [tokens EXCEPT ![t].state = "used"]
    /\ UNCHANGED <<mailbox, due, invite>>

\* invitation, register, resend_verification, verify_email,
\* request_password_reset, reset_password: what is done when they accept.
Accept(c) ==
    \/ c.what = "invitation" /\ invite /\ UNCHANGED Server
    \/ c.what = "register" /\ Register(c.arg.invited)
    \/ /\ c.what = "resend"
       /\ UNCHANGED <<account, invite>>
       /\ IF account.exists /\ ~account.verified /\ due THEN Issue("verify") ELSE Unchanged
    \/ /\ c.what = "verify" /\ Consumes(c.arg.link)
       /\ account' = [account EXCEPT !.verified = TRUE]
    \/ /\ c.what = "forgot"
       /\ UNCHANGED <<account, invite>>
       /\ IF account.exists THEN Issue("reset") ELSE Unchanged
    \/ c.what = "reset" /\ Consumes(c.arg.link) /\ UNCHANGED account

\* The handlers with turnstile.require.
Checked == {"register", "resend", "forgot"}

Serves(c) == (c.what \in Checked => Genuine(c.arg.token, Enabled)) /\ Accept(c)

\* A rate limit, the policy for passwords, or Cloudflare being out of reach may
\* refuse what would be accepted.
Serve(c) ==
    /\ c.out = "pending"
    /\ \/ /\ Serves(c)
          /\ calls' = (calls \ {c}) \cup {Served(c, "ok", "none")}
       \/ /\ RefusedBy(c)
          /\ \E out \in {"refused"} \cup (IF c.what \in Checked THEN {"verification_failed"} ELSE {}) :
                calls' = (calls \ {c}) \cup {Served(c, out, "none")}
    /\ UNCHANGED <<made, page, widget>>

\* A request that arrives after fetch has rejected, if it is accepted; nobody waits
\* for its answer.
ServeLate(c) ==
    /\ Serves(c)
    /\ late' = late \ {c}
    /\ UNCHANGED <<calls, made, page, widget>>

\* Time: a link expires; the next confirmation link is due.
Expire(t) ==
    /\ tokens[t].state = "live"
    /\ tokens' = [tokens EXCEPT ![t].state = "used"]
    /\ UNCHANGED <<account, due, invite, mailbox, calls, made, page, widget>>

Due ==
    /\ ~due /\ due' = TRUE
    /\ UNCHANGED <<account, tokens, invite, mailbox, calls, made, page, widget>>

\* Somebody else registers this address.
OtherRegisters ==
    /\ ~account.exists /\ Register(FALSE)
    /\ UNCHANGED <<calls, made, page, widget>>

\* withdraw_claim
Withdraw ==
    /\ invite /\ invite' = FALSE
    /\ UNCHANGED <<account, tokens, due, mailbox, calls, made, page, widget>>

-----------------------------------------------------------------------------
(* The pages. *)

NoArg == [invited |-> FALSE, link |-> 0, token |-> "none"]

Ask(what, arg) ==
    /\ made["calls"] < MaxCalls
    /\ made' = [made EXCEPT !["calls"] = @ + 1]
    /\ calls' = calls \cup {Sent(made["calls"] + 1, what, what, arg, "none")}
    /\ UNCHANGED Server

Opened(at) ==
    [page EXCEPT !.at = at, !.with = FALSE, !.invited = FALSE, !.link = 0, !.error = FALSE]

\* Another page, without a link; ResendVerification shows on the sign-in page of
\* an account that is not confirmed, its countdown kept in localStorage.
Goto ==
    /\ calls = {}
    /\ \E at \in {"register", "forgot"} \cup
                 (IF account.exists /\ ~account.verified THEN {"login"} ELSE {}) :
        /\ at # page.at
        /\ page' = Opened(at)
        /\ widget' = NewWidget(at # "login" \/ ~page.remaining)
    /\ UNCHANGED <<Server, calls, made>>

\* A link from the mailbox.  VerifyEmail sends it at once.
FollowLink(t) ==
    /\ t \in mailbox /\ calls = {} /\ page.at \notin {"verify", "reset"}
    /\ widget' = NewWidget(FALSE)
    /\ IF tokens[t].purpose = "verify"
       THEN /\ page' = [Opened("verify") EXCEPT !.link = t, !.busy = TRUE]
            /\ Ask("verify", [NoArg EXCEPT !.link = t])
       ELSE /\ page' = [Opened("reset") EXCEPT !.link = t]
            /\ UNCHANGED <<Server, calls, made>>

WidgetMoves ==
    /\ page.at \in {"register", "login", "forgot"}
    /\ widget' \in Moves(widget, Enabled)
    /\ UNCHANGED <<Server, calls, made, page>>

\* handleSubmit of Register and of ResetRequest, resend of ResendVerification.
Submit(what, arg) ==
    /\ ~page.busy /\ Ready(widget)
    /\ Ask(what, [arg EXCEPT !.token = widget.token])
    /\ page' = [page EXCEPT !.busy = TRUE, !.error = FALSE]
    /\ widget' = SendsToken(widget)

SubmitRegister ==
    page.at = "register" /\ ~page.checking /\ Submit("register", [NoArg EXCEPT !.invited = page.invited])

Resend == page.at = "login" /\ ~page.remaining /\ Submit("resend", NoArg)

SubmitForgot == page.at = "forgot" /\ Submit("forgot", NoArg)

\* handleSubmit of ResetPassword
SubmitReset ==
    /\ page.at = "reset" /\ ~page.busy
    /\ Ask("reset", [NoArg EXCEPT !.link = page.link])
    /\ page' = [page EXCEPT !.busy = TRUE, !.error = FALSE]
    /\ UNCHANGED widget

\* The interval of ResendVerification: its button comes back.
CountdownEnds ==
    /\ page.remaining
    /\ page' = [page EXCEPT !.remaining = FALSE]
    /\ widget' = IF page.at = "login" THEN Mount(widget, TRUE) ELSE widget
    /\ UNCHANGED <<Server, calls, made>>

\* The effect of Register: the fields are settled, or freed again.
InvitationAnswer(c) ==
    /\ c.what = "invitation"
    /\ page' = [page EXCEPT !.checking = FALSE, !.invited = c.out = "ok", !.error = c.out # "ok"]
    /\ UNCHANGED widget

\* The catch and the finally of a form.
Rest(p) == [p EXCEPT !.busy = FALSE, !.error = TRUE]

At(place) == [page EXCEPT !.at = place, !.busy = FALSE]

RegisterAnswer(c) ==
    /\ c.what = "register"
    /\ page' = IF c.out = "ok" THEN At("registered") ELSE Rest(page)
    /\ widget' = Reset(widget)

\* The button makes way for the countdown, and takes the widget with it.
ResendAnswer(c) ==
    /\ c.what = "resend"
    /\ page' = IF c.out = "ok" THEN [page EXCEPT !.busy = FALSE, !.remaining = TRUE] ELSE Rest(page)
    /\ widget' = IF c.out = "ok" THEN Mount(Reset(widget), FALSE) ELSE Reset(widget)

\* Only a bot check that failed is told; anything else looks like a success.
ForgotAnswer(c) ==
    /\ c.what = "forgot"
    /\ page' = IF c.out = "verification_failed" THEN Rest(page) ELSE At("forgotten")
    /\ widget' = Reset(widget)

LinkAnswer(c) ==
    /\ c.what \in {"verify", "reset"}
    /\ page' = IF c.out # "ok" THEN Rest(page)
               ELSE IF c.what = "verify" THEN At("app") ELSE At("signin")
    /\ UNCHANGED widget

Handle(c) ==
    /\ InvitationAnswer(c) \/ RegisterAnswer(c) \/ ResendAnswer(c) \/ ForgotAnswer(c) \/ LinkAnswer(c)
    /\ calls' = Without(calls, c)

Take(c) == c.out # "pending" /\ Handle(c) /\ UNCHANGED <<Server, made>>

\* fetch rejects.  The server has served the call, or it may yet.
Drop(c) ==
    /\ made["lost"] < MaxLost
    /\ made' = [made EXCEPT !["lost"] = @ + 1]
    /\ Handle(Lost(c))
    /\ late' = IF c.out = "pending" /\ c.what # "invitation" THEN late \cup {c} ELSE late
    /\ UNCHANGED Server

-----------------------------------------------------------------------------

\* The registration page is opened, with an invitation or without.
Init ==
    /\ account = [exists |-> FALSE, verified |-> FALSE, name |-> "typed"]
    /\ tokens = [t \in Token |-> [purpose |-> "none", state |-> "new"]]
    /\ due = TRUE /\ mailbox = {}
    /\ invite \in BOOLEAN
    /\ made = [calls |-> 0, lost |-> 0]
    /\ late = {}
    /\ calls = IF invite THEN {Sent(0, "invitation", "invitation", NoArg, "none")} ELSE {}
    /\ page = [at |-> "register", with |-> invite, checking |-> invite, invited |-> FALSE,
               link |-> 0, busy |-> FALSE, error |-> FALSE, remaining |-> FALSE]
    /\ widget = NewWidget(TRUE)

User ==
    \/ Goto \/ SubmitRegister \/ Resend \/ SubmitForgot \/ SubmitReset
    \/ \E t \in Token : FollowLink(t)

World == Due \/ OtherRegisters \/ Withdraw \/ \E t \in Token : Expire(t)

Answers(c) == Serve(c) \/ Take(c)

Next ==
    \/ /\ User \/ WidgetMoves \/ CountdownEnds \/ World \/ \E c \in calls : Answers(c)
       /\ UNCHANGED late
    \/ \E c \in calls : Drop(c)
    \/ \E c \in late : ServeLate(c)

Spec == Init /\ [][Next]_vars

Working == page.busy \/ page.checking

-----------------------------------------------------------------------------
(* Properties. *)

\* What the pages say is so.  An invited page that got its account got the one
\* the tag was printed for, even when the invitation was withdrawn, or the
\* address registered, since the page was filled in; whoever was let in from a
\* link has a confirmed account.
PagesAreTrue ==
    /\ page.at = "registered" => account.exists
    /\ page.at = "registered" /\ page.invited => account.name = "printed"
    /\ page.at = "app" => account.verified

\* ResendVerification.tsx:105: "You can request another link in" some minutes.
\* With a widget that works the button can be used again after the countdown.
ResendReturns ==
    (page.at = "login" /\ page.remaining)
        ~> \/ page.at # "login" \/ (~page.remaining /\ Ready(widget)) \/ widget.drawn = "failed"

=============================================================================
