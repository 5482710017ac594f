-------------------------------- MODULE Claims --------------------------------
(***************************************************************************)
(* Tags that are printed before their account exists: services/claims.py,  *)
(* the handlers of api/admin.py, what register and list_tags make of       *)
(* claims, the operator's page (web/src/pages/Admin.tsx) and the buyer's   *)
(* list (pages/Dashboard.tsx).                                             *)
(*                                                                         *)
(* One buyer's address.  A request loads in one step and commits in        *)
(* another.  The operator's buttons are not disabled while another of      *)
(* their handlers runs, so two can be under way, besides the buyer's.      *)
(***************************************************************************)
EXTENDS Naturals, FiniteSets, FiniteSetsExt, Orm

CONSTANTS
    Claim,          \* bound: claims that may be issued, 1..n in their order
    MaxOpenClaims,  \* MAX_OPEN_CLAIMS
    MaxClicks,      \* bound: changes the operator asks for
    MaxLost         \* bound: calls of the operator's page that fail on the way

ASSUME ClaimsAssumption ==
    /\ IsFiniteSet(Claim) /\ Claim = 1..Cardinality(Claim)
    /\ {MaxOpenClaims, MaxClicks, MaxLost} \subseteq Nat

VARIABLES
    user,     \* server: the design seed of the buyer's account, 0 without one
    claims,   \* server: tag_claims
    tags,     \* server: the claims whose code is a tag's
    request,  \* the requests under way
    made,     \* number of changes asked for, and of calls lost
    page,     \* state of Admin
    mine,     \* state of Dashboard: the tags it shows
    raced     \* history: two requests have been under way at once

vars == <<user, claims, tags, request, made, page, mine, raced>>

Operator == {"op1", "op2"}
Slot == Operator \cup {"buyer"}

\* Design seeds.  One that is not in use is as good as new.
Seed == 1..(Cardinality(Claim) + 3)

\* A row.  gone: it was deleted; invite: it has an invite_token_hash.
Row == [state : {"none", "open", "taken", "gone"}, seed : {0} \cup Seed, invite : BOOLEAN]

\* What _serialize tells of each claim.
List == [Claim -> {"absent", "waiting", "invited", "claimed"}]
Empty == [c \in Claim |-> "absent"]

\* useState of Admin; issued is the claim that is ready to print.
Page == [list : List, issued : {0} \cup Claim, busy : BOOLEAN]

\* A call and, once loaded, what it will write: the claim, or the claims that
\* wait for the account.  held is what issued was when it was sent; shown are the
\* tags that list_tags returns.
Request ==
    [stage : {"none", "sent", "loaded", "answered"},
     what : {"list", "issue", "invite", "withdraw", "register", "tags"},
     who : {"form", "row", "mount", "buyer"}, claim : {0} \cup Claim, held : {0} \cup Claim,
     waiting : SUBSET Claim, shown : SUBSET Claim, seed : {0} \cup Seed, known : BOOLEAN,
     out : {"ok", "refused", "network_error"}, list : List]

NoRequest ==
    [stage |-> "none", what |-> "list", who |-> "mount", claim |-> 0, held |-> 0,
     waiting |-> {}, shown |-> {}, seed |-> 0, known |-> FALSE, out |-> "ok", list |-> Empty]

TypeOK ==
    /\ user \in {0} \cup Seed
    /\ claims \in [Claim -> Row]
    /\ tags \subseteq Claim /\ mine \subseteq Claim
    /\ request \in [Slot -> Request]
    /\ page \in Page
    \* The form is busy for as long as its handler is at work.
    /\ page.busy <=> \E s \in Operator : request[s].stage # "none" /\ request[s].who = "form"

-----------------------------------------------------------------------------
(* The server. *)

Open == {c \in Claim : claims[c].state = "open"}

\* new_seed
NewSeed ==
    Min(Seed \ ({user} \cup {claims[c].seed : c \in Claim} \cup {request[s].seed : s \in Slot}))

\* Mutant: the claims that are outstanding are not looked at.
SeedForAccount == IF user # 0 THEN user ELSE NewSeed

\* _seed_for: the account's, else that of the oldest claim that is open.
SeedFor ==
    IF user # 0 THEN user ELSE IF Open # {} THEN claims[Min(Open)].seed ELSE NewSeed

\* seed_for_new_user
SeedForNewUser == IF Open # {} THEN claims[Min(Open)].seed ELSE NewSeed

\* list_claims
Listed ==
    [c \in Claim |-> CASE claims[c].state \in {"none", "gone"} -> "absent"
                       [] claims[c].state = "taken" -> "claimed"
                       [] claims[c].state = "open" ->
                            IF claims[c].invite THEN "invited" ELSE "waiting"]

\* The id of a new claim.
NewClaim ==
    Min({c \in Claim : /\ claims[c].state = "none"
                       /\ \A s \in Slot : request[s].what = "issue" => request[s].claim # c})

\* Only an open claim, found by an invitation that was not replaced since,
\* names an account; without an invitation the form does.
Identified(r) == r.claim = 0 \/ (claims[r.claim].state = "open" /\ claims[r.claim].invite)

\* The guards of create_claim, resend_invitation, withdraw_claim, register and
\* list_tags.  A duplicate registration is answered with a mail (see SignUp).
Accepted(r) ==
    CASE r.what = "issue" -> Cardinality(Open) < MaxOpenClaims
      [] r.what = "invite" -> claims[r.claim].state = "open" /\ user = 0
      [] r.what = "withdraw" -> claims[r.claim].state = "open"
      [] r.what = "register" -> Identified(r) /\ user = 0
      [] OTHER -> TRUE

\* A request up to its commit.
Loaded(r) ==
    CASE r.what = "issue" ->
            [r EXCEPT !.stage = "loaded", !.claim = NewClaim, !.seed = SeedFor,
                      !.known = user # 0]
      [] r.what = "register" ->
            [r EXCEPT !.stage = "loaded", !.waiting = Open, !.seed = SeedForNewUser]
      [] r.what = "tags" ->
            IF Open # {} THEN [r EXCEPT !.stage = "loaded", !.waiting = Open]
            ELSE [r EXCEPT !.stage = "answered", !.shown = tags]
      [] r.what = "list" -> [r EXCEPT !.stage = "answered", !.list = Listed]
      [] OTHER -> [r EXCEPT !.stage = "loaded"]

Load(s) ==
    /\ request[s].stage = "sent"
    /\ LET r == request[s] IN
       request' = [request EXCEPT ![s] =
            IF Accepted(r) THEN Loaded(r) ELSE [r EXCEPT !.stage = "answered", !.out = "refused"]]
    /\ raced' = (raced \/ \E other \in Slot \ {s} : request[other].stage = "loaded")
    /\ UNCHANGED <<user, claims, tags, made, page, mine>>

\* Mutant: the claims are marked by one UPDATE with a condition, which does not
\* mind a row that is missing.
MayTakeAnyway(r) ==
    /\ r.waiting \cap tags = {}
    /\ r.what = "register" => user = 0

\* materialise: the UPDATE of a claim that was deleted fails, and so does a
\* second tag of one code, or a second account of one address.
MayTake(r) ==
    /\ \A c \in r.waiting : claims[c].state # "gone"
    /\ r.waiting \cap tags = {}
    /\ r.what = "register" => user = 0

\* Mutant: list_tags forgets the claims that came after the account.
TakenOnce(r) == IF r.what = "register" THEN r.waiting ELSE {}

\* The claims a request turns into tags.
Taken(r) == r.waiting

\* The rows of the claims after a commit.
Written(r) ==
    CASE r.what = "issue" ->
            [claims EXCEPT ![r.claim] =
                [state |-> "open", seed |-> r.seed, invite |-> ~r.known]]
      [] r.what = "invite" -> [claims EXCEPT ![r.claim] = Updated(@, [invite |-> TRUE])]
      [] r.what = "withdraw" -> [claims EXCEPT ![r.claim].state = "gone"]
      [] OTHER -> [c \in Claim |-> IF c \in Taken(r)
                        THEN Updated(claims[c], [state |-> "taken", invite |-> FALSE])
                        ELSE claims[c]]

\* Whether the commit goes through.  The DELETE of a claim does not ask whether
\* it has been taken since, nor whether it is still there.
Commits(r) ==
    CASE r.what \in {"register", "tags"} -> MayTake(r)
      [] r.what = "invite" -> claims[r.claim].state # "gone"
      [] OTHER -> TRUE

Commit(s) ==
    /\ request[s].stage = "loaded"
    /\ LET r == request[s] IN
       IF Commits(r)
       THEN /\ claims' = Written(r)
            /\ tags' = tags \cup (IF r.what \in {"register", "tags"} THEN Taken(r) ELSE {})
            /\ user' = IF r.what = "register" THEN r.seed ELSE user
            /\ request' = [request EXCEPT ![s].stage = "answered",
                                          ![s].shown = IF r.what = "tags" THEN tags' ELSE @]
       ELSE /\ request' = [request EXCEPT ![s].stage = "answered", ![s].out = "refused"]
            /\ UNCHANGED <<user, claims, tags>>
    /\ UNCHANGED <<made, page, mine, raced>>

-----------------------------------------------------------------------------
(* The operator's page. *)

Server == <<user, claims, tags, raced>>

\* A call of a handler of the page.
Ask(who, what, c) ==
    /\ made["clicks"] < MaxClicks
    /\ made' = [made EXCEPT !["clicks"] = @ + 1]
    /\ \E s \in Operator :
        /\ request[s].stage = "none" /\ (s = "op2" => request["op1"].stage # "none")
        /\ request' = [request EXCEPT ![s] =
                [NoRequest EXCEPT !.stage = "sent", !.what = what, !.who = who, !.claim = c,
                                  !.held = page.issued]]
    /\ UNCHANGED <<Server, mine>>

\* issue, while there is an id left.
Issue ==
    /\ ~page.busy /\ \E c \in Claim : claims[c].state = "none"
    /\ Ask("form", "issue", 0)
    /\ page' = [page EXCEPT !.busy = TRUE]

\* invite: "Invite again", of a claim that was issued with an invitation.
Invite(c) == page.list[c] = "invited" /\ Ask("row", "invite", c) /\ UNCHANGED page

\* withdraw, once confirmed.
Withdraw(c) ==
    page.list[c] \in {"waiting", "invited"} /\ Ask("row", "withdraw", c) /\ UNCHANGED page

\* load after a change, by the same handler.
Reload(s) ==
    request' = [request EXCEPT ![s] = [NoRequest EXCEPT !.stage = "sent", !.who = request[s].who]]

\* What a change that was made leaves on the page before it loads the list.
After(r) ==
    CASE r.what = "issue" -> [page EXCEPT !.issued = r.claim]
      [] r.what = "withdraw" -> [page EXCEPT !.issued = IF r.held = r.claim THEN 0 ELSE @]
      [] OTHER -> page

\* The handler ends: issue has a finally.
Rest(p, r) == [p EXCEPT !.busy = IF r.who = "form" THEN FALSE ELSE @]

\* load of Admin shows no claims when it fails.
ListAnswer(s, out) ==
    /\ request[s].what = "list"
    /\ page' = Rest([page EXCEPT !.list = IF out = "ok" THEN request[s].list ELSE Empty], request[s])
    /\ request' = [request EXCEPT ![s] = NoRequest]

Answer(s, out) ==
    \/ ListAnswer(s, out)
    \/ /\ request[s].what # "list" /\ out = "ok"
       /\ page' = After(request[s])
       /\ Reload(s)
    \/ /\ request[s].what # "list" /\ out # "ok"
       /\ page' = Rest(page, request[s])
       /\ request' = [request EXCEPT ![s] = NoRequest]

Take(s) ==
    /\ request[s].stage = "answered" /\ Answer(s, request[s].out)
    /\ UNCHANGED <<Server, made, mine>>

\* fetch rejects, before the server had the call or after it was through with it.
Drop(s) ==
    /\ request[s].stage \in {"sent", "answered"} /\ made["lost"] < MaxLost
    /\ made' = [made EXCEPT !["lost"] = @ + 1]
    /\ Answer(s, "network_error")
    /\ UNCHANGED <<Server, mine>>

-----------------------------------------------------------------------------
(* The buyer. *)

BuyerAsks(what, c) ==
    /\ request["buyer"].stage = "none"
    /\ request' = [request EXCEPT !["buyer"] =
            [NoRequest EXCEPT !.stage = "sent", !.what = what, !.who = "buyer", !.claim = c]]
    /\ UNCHANGED <<Server, made, page, mine>>

\* The form of Register, with an invitation or without.
Register == user = 0 /\ \E c \in {0} \cup {d \in Claim : claims[d].state # "none"} : BuyerAsks("register", c)

\* load of Dashboard, each time the list of tags is opened.
OpenTags == user # 0 /\ BuyerAsks("tags", 0)

\* load of Dashboard shows no tags when it fails.
BuyerAnswered ==
    /\ request["buyer"].stage = "answered"
    /\ request' = [request EXCEPT !["buyer"] = NoRequest]
    /\ mine' = IF request["buyer"].what = "tags" THEN request["buyer"].shown ELSE mine
    /\ UNCHANGED <<Server, made, page>>

-----------------------------------------------------------------------------

Init ==
    /\ user \in {0, 1}
    /\ claims = [c \in Claim |-> [state |-> "none", seed |-> 0, invite |-> FALSE]]
    /\ tags = {} /\ mine = {}
    /\ request = [s \in Slot |-> IF s = "op1" THEN [NoRequest EXCEPT !.stage = "sent"] ELSE NoRequest]
    /\ made = [clicks |-> 0, lost |-> 0]
    /\ page = [list |-> Empty, issued |-> 0, busy |-> FALSE]
    /\ raced = FALSE

Clicks == Issue \/ \E c \in Claim : Invite(c) \/ Withdraw(c)

Next ==
    \/ Clicks \/ Register \/ OpenTags \/ BuyerAnswered
    \/ \E s \in Slot : Load(s) \/ Commit(s)
    \/ \E s \in Operator : Take(s) \/ Drop(s)

Spec == Init /\ [][Next]_vars

\* Requests are served and answered; the buyer opens the list now and then.
Fairness ==
    /\ \A s \in Slot : WF_vars(Load(s)) /\ WF_vars(Commit(s))
    /\ WF_vars(BuyerAnswered) /\ WF_vars(OpenTags)

FairSpec == Spec /\ Fairness

-----------------------------------------------------------------------------
(* Properties. *)

\* One traveller, one design: the artwork printed for a code is the account's,
\* in whatever order tags are ordered, withdrawn and taken, as long as no two
\* requests overlap.
PrintedDesignIsShown == ~raced => \A c \in tags : claims[c].seed = user

\* A code that stopped working stays so: a claim that is withdrawn while the
\* account it waits for takes it does not come back as a tag.
WithdrawnStaysWithdrawn == [][\A c \in tags' \ tags : claims[c].state = "open"]_vars

\* Whoever has an account and opens the list of tags now and then sees the codes
\* issued to the address there, however the operator and the list race.
CodesReachTheirBuyer ==
    \A c \in Claim :
        (user # 0 /\ claims[c].state = "open") ~> (c \in mine \/ claims[c].state = "gone")

\* Admin.tsx:110: "Withdraw this code? It stops working immediately."  A claim
\* that is taken between the check and the DELETE is withdrawn all the same.
WithdrawnIsDead == \A c \in Claim : claims[c].state = "gone" => c \notin tags

=============================================================================
