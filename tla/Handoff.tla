------------------------------- MODULE Handoff -------------------------------
(***************************************************************************)
(* A scanned bag and the tabs of one browser: ScanPage of                  *)
(* web/src/pages/ScanPage.tsx up to what it shows, lib/appTabs.ts,         *)
(* Layout of components/Layout.tsx, and the probe of the session of        *)
(* state/session.tsx.                                                      *)
(*                                                                         *)
(* The tabs share the session cookie, but each has its own idea of who is  *)
(* signed in, formed when it was loaded.  A scan opens a tab of its own.   *)
(* When the bag is the user's, that tab asks the others over a             *)
(* BroadcastChannel to show it, for CLAIM_TIMEOUT_MS; a message reaches a  *)
(* tab when its event loop gets to it, which an open dialog delays.        *)
(***************************************************************************)
EXTENDS Naturals, FiniteSets

CONSTANTS
    AppTab,   \* tabs that show a page of the app, under Layout
    ScanTab,  \* tabs a scan opened
    Scans,    \* bound: the bags that are scanned
    Logins    \* bound: how often the session is begun or ended

\* A bag is the user's or not; a code may have been replaced since it was printed.
Bag == [mine : BOOLEAN, current : BOOLEAN]

ASSUME HandoffAssumption ==
    /\ AppTab \cap ScanTab = {}
    /\ Scans \subseteq [ScanTab -> Bag]
    /\ Logins \in Nat

VARIABLES
    session,    \* whether the cookie's session is valid at the server
    logins,     \* how often that changed
    user,       \* useSession of each tab
    bag,        \* what was scanned: mine, and whether under the current code
    scan,       \* state of ScanPage in each tab a scan opened
    channel,    \* messages on their way to a tab
    announced,  \* the tabs whose scan was posted to the server
    answered,   \* history: claims that were answered, and by which tab
    moved       \* history: bags that a tab under Layout went on to show

vars == <<session, logins, user, bag, scan, channel, announced, answered, moved>>

Tab == AppTab \cup ScanTab

\* The messages of appTabs.ts.  The scanning tab stands for the nonce, and for
\* the tag.
Message == [type : {"claim", "claimed"}, nonce : ScanTab, to : Tab]

\* useState of ScanPage and how far its effects are.  why is history: what made
\* the scanner a finder.
ScanState ==
    [at : {"scan", "left"}, data : {"loading", "shown", "error"},
     scanner : {"unknown", "owner", "finder"}, effect : {"none", "lookup", "ask", "over"},
     handedOff : BOOLEAN, why : {"none", "signed_out", "no_session", "not_found", "failed"}]

TypeOK ==
    /\ session \in BOOLEAN /\ logins \in 0..Logins
    /\ user \in [Tab -> {"loading", "in", "out"}]
    /\ bag \in [ScanTab -> Bag]
    /\ scan \in [ScanTab -> ScanState]
    /\ channel \subseteq Message
    /\ announced \subseteq ScanTab
    /\ answered \subseteq Tab \X ScanTab
    /\ moved \subseteq answered
    \* A tab that stays put or asks is the owner's, until it signs out.
    /\ \A s \in ScanTab :
        /\ scan[s].effect = "ask" => scan[s].scanner = "owner" /\ user[s] = "in"
        /\ scan[s].handedOff => scan[s].scanner = "owner" \/ scan[s].why = "signed_out"

\* renderBody
Screen(s) ==
    IF scan[s].at = "left" THEN "left"
    ELSE IF scan[s].data = "error" THEN "unreadable"
    ELSE IF scan[s].handedOff THEN "elsewhere"
    ELSE IF scan[s].data = "loading" \/ scan[s].scanner # "finder" THEN "checking"
    ELSE "finder"

\* Layout is mounted: in a tab of the app, and in one a scan opened once it has
\* moved on to the tag.
InApp(t) == t \in ScanTab => scan[t].at = "left"

-----------------------------------------------------------------------------
(* The session. *)

\* refresh, when a tab is loaded: what the server says, or nobody if it fails.
Probe(t) ==
    /\ user[t] = "loading"
    /\ \E u \in {"out"} \cup (IF session THEN {"in"} ELSE {}) : user' = [user EXCEPT ![t] = u]
    /\ UNCHANGED <<session, logins, bag, scan, channel, announced, answered, moved>>

\* Signing in, which is not offered on a scan page.  The others are not told.
SignIn(t) ==
    /\ InApp(t) /\ user[t] = "out" /\ logins < Logins
    /\ session' = TRUE /\ logins' = logins + 1
    /\ user' = [user EXCEPT ![t] = "in"]
    /\ UNCHANGED <<bag, scan, channel, announced, answered, moved>>

\* signOut on an app tab, and on the header of a scan page, which it leaves.
SignOut(t) ==
    /\ user[t] = "in" /\ logins < Logins
    /\ session' = FALSE /\ logins' = logins + 1
    /\ user' = [user EXCEPT ![t] = "out"]
    /\ scan' = IF t \in ScanTab THEN [scan EXCEPT ![t].at = "left", ![t].effect = "over"] ELSE scan
    /\ UNCHANGED <<bag, channel, announced, answered, moved>>

\* Mutant: what was under way is not cancelled.
SignOutFailsUncancelled(s) ==
    /\ user[s] = "in" /\ scan[s].at = "scan" /\ logins < Logins
    /\ session' \in {session, FALSE} /\ logins' = logins + 1
    /\ user' = [user EXCEPT ![s] = "out"]
    /\ scan' = [scan EXCEPT ![s].scanner = "finder", ![s].why = "signed_out"]
    /\ UNCHANGED <<bag, channel, announced, answered, moved>>

\* signOut whose request fails, before or after the server served it: the page
\* stays, without a user.  The effect is cancelled and runs again, for a finder.
SignOutFails(s) ==
    /\ user[s] = "in" /\ scan[s].at = "scan" /\ logins < Logins
    /\ session' \in {session, FALSE} /\ logins' = logins + 1
    /\ user' = [user EXCEPT ![s] = "out"]
    /\ scan' = [scan EXCEPT ![s].scanner = "finder", ![s].effect = "over",
                            ![s].why = "signed_out"]
    /\ UNCHANGED <<bag, channel, announced, answered, moved>>

-----------------------------------------------------------------------------
(* The scan page. *)

\* GET of the page's data.
Read(s) ==
    /\ scan[s].at = "scan" /\ scan[s].data = "loading"
    /\ \E d \in {"shown", "error"} : scan' = [scan EXCEPT ![s].data = d]
    /\ UNCHANGED <<session, logins, user, bag, channel, announced, answered, moved>>

\* The effect that asks whose bag this is, once the probe has answered.
Identify(s) ==
    /\ scan[s].at = "scan" /\ scan[s].effect = "none" /\ user[s] # "loading"
    /\ scan' = IF user[s] = "out"
               THEN [scan EXCEPT ![s].scanner = "finder", ![s].effect = "over",
                                 ![s].why = "signed_out"]
               ELSE [scan EXCEPT ![s].effect = "lookup"]
    /\ UNCHANGED <<session, logins, user, bag, channel, announced, answered, moved>>

\* lookup_token finds a bag of the user's under its current code only.
Found(s) == session /\ bag[s].mine /\ bag[s].current

\* It does not, or the call fails: whoever holds the phone is taken for a finder.
LookupFails(s) ==
    /\ scan[s].effect = "lookup"
    /\ \E why \in {"failed"} \cup (IF Found(s) THEN {} ELSE IF session THEN {"not_found"}
                                   ELSE {"no_session"}) :
        scan' = [scan EXCEPT ![s].scanner = "finder", ![s].effect = "over", ![s].why = why]
    /\ UNCHANGED <<session, logins, user, bag, channel, announced, answered, moved>>

\* It does: askOpenTabToShow claims the tag of every other tab that listens.
Ask(s) ==
    /\ scan[s].effect = "lookup" /\ Found(s)
    /\ scan' = [scan EXCEPT ![s].scanner = "owner", ![s].effect = "ask"]
    /\ channel' = channel \cup
            {[type |-> "claim", nonce |-> s, to |-> t] : t \in {x \in Tab : InApp(x)}}
    /\ UNCHANGED <<session, logins, user, bag, announced, answered, moved>>

\* Mutant: any answer will do, whichever tab it was meant for.
TakesAnyAnswer(s, m) == m.type = "claimed" /\ m.to = s

\* The answer to this tab's own claim.
TakesAnswer(s, m) == m.type = "claimed" /\ m.to = s /\ m.nonce = s

\* It arrives in time: the page stays and says where the bag went.
Claimed(s) ==
    /\ scan[s].effect = "ask"
    /\ \E m \in channel : TakesAnswer(s, m) /\ channel' = channel \ {m}
    /\ scan' = [scan EXCEPT ![s].effect = "over", ![s].handedOff = TRUE]
    /\ UNCHANGED <<session, logins, user, bag, announced, answered, moved>>

\* Mutant: the page waits for as long as another tab might answer.
NobodyAnswersUnlessAlone(s) ==
    /\ scan[s].effect = "ask" /\ ~\E t \in Tab : InApp(t)
    /\ scan' = [scan EXCEPT ![s].effect = "over", ![s].at = "left"]
    /\ UNCHANGED <<session, logins, user, bag, channel, announced, answered, moved>>

\* CLAIM_TIMEOUT_MS, or no BroadcastChannel: the tab goes to the tag itself.
NobodyAnswers(s) ==
    /\ scan[s].effect = "ask"
    /\ scan' = [scan EXCEPT ![s].effect = "over", ![s].at = "left"]
    /\ UNCHANGED <<session, logins, user, bag, channel, announced, answered, moved>>

\* HandedOff: "Show it here instead".
ShowHere(s) ==
    /\ Screen(s) = "elsewhere"
    /\ scan' = [scan EXCEPT ![s].at = "left"]
    /\ UNCHANGED <<session, logins, user, bag, channel, announced, answered, moved>>

\* Mutant: the scan is recorded as soon as the page can be shown.
MayRecordAny(s) == scan[s].at = "scan" /\ scan[s].data = "shown"

\* The effect that records the scan, for a finder, once.
MayRecord(s) == scan[s].at = "scan" /\ scan[s].data = "shown" /\ scan[s].scanner = "finder"

Record(s) ==
    /\ MayRecord(s) /\ s \notin announced
    /\ announced' = announced \cup {s}
    /\ UNCHANGED <<session, logins, user, bag, scan, channel, answered, moved>>

-----------------------------------------------------------------------------
(* The tabs under Layout. *)

\* onMessage of useOpenTagHandoff: the claim is answered, to every tab that
\* listens, before show is called; show does nothing without a user.
Answer(t) ==
    \E m \in channel :
        /\ m.type = "claim" /\ m.to = t
        /\ channel' = (channel \ {m}) \cup
                {[type |-> "claimed", nonce |-> m.nonce, to |-> s] :
                    s \in {x \in ScanTab : scan[x].effect = "ask"}}
        /\ answered' = answered \cup {<<t, m.nonce>>}
        /\ moved' = IF user[t] = "in" THEN moved \cup {<<t, m.nonce>>} ELSE moved
        /\ UNCHANGED <<session, logins, user, bag, scan, announced>>

\* A channel is closed with its tab, or its claim: what was on its way is lost.
Ignore ==
    \E m \in channel :
        /\ m.type = "claimed"
        /\ ~(m.to \in ScanTab /\ scan[m.to].effect = "ask" /\ TakesAnswer(m.to, m))
        /\ channel' = channel \ {m}
        /\ UNCHANGED <<session, logins, user, bag, scan, announced, answered, moved>>

-----------------------------------------------------------------------------

\* The tabs of the app have been open for a while, the scans have just begun.
Init ==
    /\ session = TRUE /\ logins = 0
    /\ user \in {u \in [Tab -> {"loading", "in", "out"}] :
                    \A t \in Tab : u[t] = "loading" <=> t \in ScanTab}
    /\ bag \in Scans
    /\ scan = [s \in ScanTab |->
                [at |-> "scan", data |-> "loading", scanner |-> "unknown", effect |-> "none",
                 handedOff |-> FALSE, why |-> "none"]]
    /\ channel = {} /\ announced = {} /\ answered = {} /\ moved = {}

Page(s) ==
    Read(s) \/ Identify(s) \/ LookupFails(s) \/ Ask(s) \/ Claimed(s) \/ NobodyAnswers(s) \/ Record(s)

Next ==
    \/ \E t \in Tab : Probe(t) \/ SignIn(t) \/ SignOut(t) \/ Answer(t)
    \/ \E s \in ScanTab : Page(s) \/ ShowHere(s) \/ SignOutFails(s)
    \/ Ignore

Spec == Init /\ [][Next]_vars

\* A call is answered or fails, an effect runs, a timer fires.  Nothing is
\* assumed of the other tabs.
Fairness == \A s \in ScanTab : WF_vars(Probe(s)) /\ WF_vars(Page(s))

FairSpec == Spec /\ Fairness

-----------------------------------------------------------------------------
(* Properties. *)

\* The owner is not told of a scan of their own bag made on the browser they
\* are signed in on.  Excused are the code of an old print, which the lookup
\* does not know, a lookup that failed, and a tab that is, or was, signed out.
OwnerIsNotAnnounced ==
    \A s \in announced : bag[s].mine /\ bag[s].current
        => scan[s].why \in {"failed", "signed_out", "no_session"}

\* A tab says "opened in your other tab" only when another tab answered the
\* claim of this very bag: two scans under way are not taken for one another.
HandedOffWasTaken ==
    \A s \in ScanTab : scan[s].handedOff => \E t \in Tab \ {s} : <<t, s>> \in answered

\* appTabs.ts: "If one answers, that tab moves to the tag and this one stops
\* where it is and says so."  A tab that has no user answers and shows nothing.
HandedOffIsShown ==
    \A s \in ScanTab : scan[s].handedOff => \E t \in Tab : <<t, s>> \in moved

\* Every scan ends in a page that says something: the finder's, with the scan
\* recorded; the tag; where it is shown; or that it cannot be read.
ScanSettles ==
    \A s \in ScanTab :
        <>(\/ Screen(s) \in {"left", "unreadable", "elsewhere"}
           \/ Screen(s) = "finder" /\ s \in announced)

\* The page implements the decision it promises.
Decision == INSTANCE ScanDecision WITH
    Scan <- ScanTab,
    screen <- [s \in ScanTab |-> Screen(s)]

ImplementsScanDecision == Decision!Spec

=============================================================================
