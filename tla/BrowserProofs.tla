---------------------------- MODULE BrowserProofs ----------------------------
(***************************************************************************)
(* Proofs about the browser.                                               *)
(*                                                                         *)
(* Of Handoff, for any number of tabs, of scans and of sign-ins: what a    *)
(* page may show is decided once, and the owner of a bag is told of a scan *)
(* of their own only when the page could not know who they are.            *)
(*                                                                         *)
(* Of Accounts, for any number of calls, of failures and of mailed links:  *)
(* what the pages about an account say is so.  SettingsInv and AnyoneInv   *)
(* are the inductive invariants of the two modules it is made of.          *)
(***************************************************************************)
EXTENDS Handoff, Accounts, TLAPS

\* How the state of a page hangs together.  An effect that has not ended found
\* its user signed in and left the page alone; a finder has a reason; the lookup
\* of a bag that is the user's, under its current code, cannot answer "not found".
PageHangsTogether(s) ==
    LET p == scan[s] IN
    /\ p.effect \in {"none", "lookup"} => p.scanner = "unknown"
    /\ p.effect = "lookup" => user[s] = "in"
    /\ p.effect # "over" => p.at = "scan" /\ ~p.handedOff
    /\ p.scanner = "finder" <=> p.why # "none"
    /\ p.why = "not_found" => ~(bag[s].mine /\ bag[s].current)

\* A scan that was posted was a finder's, on a page that was shown.
AnnouncedByFinder ==
    \A s \in announced : scan[s].scanner = "finder" /\ scan[s].data = "shown"

\* A tab is not under Layout while it asks, so no claim goes to the tab that makes
\* it, and an answer under way is the answer of another tab.
AnswersWereGiven ==
    \A m \in channel :
        /\ m.type = "claim" => m.to # m.nonce
        /\ m.type = "claimed" => \E a \in Tab \ {m.nonce} : <<a, m.nonce>> \in answered

\* What a page may send: claims to others.
SendsClaims ==
    \A m \in channel' : m \in channel \/ (m.type = "claim" /\ m.to # m.nonce)

PageInv ==
    /\ TypeOK
    /\ \A s \in ScanTab : PageHangsTogether(s)
    /\ AnnouncedByFinder
    /\ AnswersWereGiven
    /\ HandedOffWasTaken

-----------------------------------------------------------------------------

\* The initial states: nothing has been asked.
LEMMA InitPage == Init => PageInv
<1> SUFFICES ASSUME Init
             PROVE  PageInv
  OBVIOUS
<1> USE HandoffAssumption DEF Init
<1>1. TypeOK
  BY DEF TypeOK, ScanState, Message, Tab
<1>2. \A s \in ScanTab : PageHangsTogether(s)
  BY DEF PageHangsTogether
<1>3. AnnouncedByFinder /\ AnswersWereGiven /\ HandedOffWasTaken
  BY DEF AnnouncedByFinder, AnswersWereGiven, HandedOffWasTaken
<1> QED
  BY <1>1, <1>2, <1>3 DEF PageInv

\* A step of the session that changes no page keeps the invariant, if it only
\* changes the user of a tab whose page has no effect under way.
LEMMA SessionStep ==
    ASSUME PageInv, NEW t \in Tab, NEW u \in {"in", "out"},
           user' = [user EXCEPT ![t] = u],
           t \in ScanTab => scan[t].effect \notin {"lookup", "ask"} \/ u = "in",
           session' \in BOOLEAN, logins' \in 0..Logins,
           UNCHANGED <<bag, scan, channel, announced, answered, moved>>
    PROVE  PageInv'
<1>1. TypeOK'
  BY DEF PageInv, TypeOK, Tab
<1>2. \A s \in ScanTab : PageHangsTogether(s)'
  BY DEF PageInv, PageHangsTogether, TypeOK, Tab
<1>3. AnnouncedByFinder' /\ AnswersWereGiven' /\ HandedOffWasTaken'
  BY DEF PageInv, AnnouncedByFinder, AnswersWereGiven, HandedOffWasTaken
<1> QED
  BY <1>1, <1>2, <1>3 DEF PageInv

\* A step of one page keeps the invariant if what it becomes hangs together, it
\* stays a finder's page if it was announced, and says "elsewhere" only on an
\* answer.
LEMMA PageStep ==
    ASSUME PageInv, NEW s \in ScanTab,
           scan' \in [ScanTab -> ScanState], \A t \in ScanTab \ {s} : scan'[t] = scan[t],
           session' \in BOOLEAN, logins' \in 0..Logins,
           user' \in [Tab -> {"loading", "in", "out"}],
           \A t \in ScanTab \ {s} : user'[t] = user[t],
           channel' \subseteq Message, SendsClaims,
           UNCHANGED <<bag, announced, answered, moved>>,
           scan'[s].effect = "ask" => scan'[s].scanner = "owner" /\ user'[s] = "in",
           scan'[s].handedOff => scan'[s].scanner = "owner" \/ scan'[s].why = "signed_out",
           PageHangsTogether(s)',
           s \in announced => scan'[s].scanner = "finder" /\ scan'[s].data = "shown",
           scan'[s].handedOff => \E a \in Tab \ {s} : <<a, s>> \in answered
    PROVE  PageInv'
<1>1. TypeOK'
  BY DEF PageInv, TypeOK
<1>2. \A t \in ScanTab : PageHangsTogether(t)'
  BY DEF PageInv, PageHangsTogether
<1>3. AnnouncedByFinder'
  BY SMTT(30) DEF PageInv, AnnouncedByFinder, TypeOK
<1>4. AnswersWereGiven'
  <2> SUFFICES ASSUME NEW m \in channel'
               PROVE  /\ m.type = "claim" => m.to # m.nonce
                      /\ m.type = "claimed" =>
                            \E a \in Tab \ {m.nonce} : <<a, m.nonce>> \in answered
    BY DEF AnswersWereGiven
  <2>1. CASE m \in channel
    BY <2>1 DEF PageInv, AnswersWereGiven
  <2>2. CASE m.type = "claim" /\ m.to # m.nonce
    BY <2>2
  <2> QED
    BY <2>1, <2>2 DEF SendsClaims
<1>5. HandedOffWasTaken'
  BY DEF PageInv, HandedOffWasTaken
<1> QED
  BY <1>1, <1>2, <1>3, <1>4, <1>5 DEF PageInv

\* The session: every step of it changes the user of one tab, whose page has no
\* effect under way, or ends that effect.
LEMMA KeepsProbe ==
    ASSUME PageInv, NEW t \in Tab, Probe(t)
    PROVE  PageInv'
<1>1. PICK u \in {"in", "out"} : user' = [user EXCEPT ![t] = u]
  BY DEF Probe
<1>2. t \in ScanTab => scan[t].effect \notin {"lookup", "ask"}
  BY DEF Probe, PageInv, PageHangsTogether, TypeOK
<1>3. session' \in BOOLEAN /\ logins' \in 0..Logins
  BY DEF Probe, PageInv, TypeOK
<1> QED
  BY <1>1, <1>2, <1>3, SessionStep DEF Probe

\* Signing in is counted against its bound.
LEMMA KeepsSignIn ==
    ASSUME PageInv, NEW t \in Tab, SignIn(t)
    PROVE  PageInv'
<1>1. session' \in BOOLEAN /\ logins' \in 0..Logins
  BY HandoffAssumption DEF SignIn, PageInv, TypeOK
<1> QED
  BY <1>1, SessionStep DEF SignIn

\* Signing out on a scan page leaves it and ends its effect.
LEMMA KeepsSignOut ==
    ASSUME PageInv, NEW t \in Tab, SignOut(t)
    PROVE  PageInv'
<1>1. session' \in BOOLEAN /\ logins' \in 0..Logins
  <2>1. session' = FALSE
    BY DEF SignOut
  <2>2. logins' = logins + 1 /\ logins < Logins /\ logins \in 0..Logins
    BY DEF SignOut, PageInv, TypeOK
  <2>3. logins' \in 0..Logins
    BY <2>2, HandoffAssumption
  <2> QED
    BY <2>1, <2>3
<1>2. CASE t \notin ScanTab
  BY <1>1, <1>2, SessionStep DEF SignOut
<1>3. CASE t \in ScanTab
  <2>1. scan' = [scan EXCEPT ![t].at = "left", ![t].effect = "over"]
    BY <1>3 DEF SignOut
  <2>2. /\ scan' \in [ScanTab -> ScanState]
        /\ \A s \in ScanTab \ {t} : scan'[s] = scan[s]
        /\ scan'[t].at = "left" /\ scan'[t].effect = "over"
        /\ scan'[t].scanner = scan[t].scanner /\ scan'[t].why = scan[t].why
        /\ scan'[t].data = scan[t].data /\ scan'[t].handedOff = scan[t].handedOff
    <3>1. scan \in [ScanTab -> ScanState]
      BY DEF PageInv, TypeOK
    <3> DEFINE p == [scan[t] EXCEPT !.at = "left", !.effect = "over"]
    <3>2. scan'[t] = p /\ \A s \in ScanTab \ {t} : scan'[s] = scan[s]
      BY <1>3, <2>1, <3>1
    <3>3. p \in ScanState
      BY ZenonT(30), <1>3, <3>1 DEF ScanState
    <3>4. /\ p.at = "left" /\ p.effect = "over" /\ p.scanner = scan[t].scanner
          /\ p.why = scan[t].why /\ p.data = scan[t].data
      BY <1>3, <3>1 DEF ScanState
    <3>5. p.handedOff = scan[t].handedOff
      BY <1>3, <3>1 DEF ScanState
    <3> HIDE DEF p
    <3>6. scan' \in [ScanTab -> ScanState]
      BY <1>3, <2>1, <3>1, <3>2, <3>3
    <3> QED
      BY <3>2, <3>4, <3>5, <3>6
  <2>3. user' \in [Tab -> {"loading", "in", "out"}]
        /\ \A v \in ScanTab \ {t} : user'[v] = user[v]
    BY DEF SignOut, PageInv, TypeOK, Tab
  <2>4. PageHangsTogether(t)'
    BY <1>3, <2>2 DEF SignOut, PageInv, PageHangsTogether
  <2>5. /\ t \in announced => scan[t].scanner = "finder" /\ scan[t].data = "shown"
        /\ scan[t].handedOff => scan[t].scanner = "owner" \/ scan[t].why = "signed_out"
        /\ scan[t].handedOff => \E a \in Tab \ {t} : <<a, t>> \in answered
    BY <1>3 DEF PageInv, AnnouncedByFinder, TypeOK, HandedOffWasTaken
  <2>6. channel' = channel /\ channel \subseteq Message /\ SendsClaims
    BY DEF SignOut, PageInv, TypeOK, SendsClaims
  <2> QED
    BY <1>1, <1>3, <2>2, <2>3, <2>4, <2>5, <2>6, PageStep DEF SignOut
<1> QED
  BY <1>2, <1>3

\* A failed sign-out makes the page a finder's, for the reason that its user has
\* signed out.
LEMMA KeepsSignOutFails ==
    ASSUME PageInv, NEW s \in ScanTab, SignOutFails(s)
    PROVE  PageInv'
<1>1. scan' = [scan EXCEPT ![s].scanner = "finder", ![s].effect = "over",
                           ![s].why = "signed_out"]
  BY DEF SignOutFails
<1>2. /\ scan' \in [ScanTab -> ScanState]
      /\ \A t \in ScanTab \ {s} : scan'[t] = scan[t]
      /\ scan'[s].scanner = "finder" /\ scan'[s].effect = "over"
      /\ scan'[s].why = "signed_out" /\ scan'[s].data = scan[s].data
      /\ scan'[s].handedOff = scan[s].handedOff
  <2>1. scan \in [ScanTab -> ScanState]
    BY DEF PageInv, TypeOK
  <2> DEFINE p == [scan[s] EXCEPT !.scanner = "finder", !.effect = "over", !.why = "signed_out"]
  <2>2. scan'[s] = p /\ \A t \in ScanTab \ {s} : scan'[t] = scan[t]
    BY <1>1, <2>1
  <2>3. p \in ScanState
    BY ZenonT(90), <2>1 DEF ScanState
  <2>4. p.scanner = "finder" /\ p.effect = "over" /\ p.why = "signed_out" /\ p.data = scan[s].data
    BY <2>1 DEF ScanState
  <2>5. p.handedOff = scan[s].handedOff
    BY <2>1 DEF ScanState
  <2> HIDE DEF p
  <2>6. scan' \in [ScanTab -> ScanState]
    BY <1>1, <2>1, <2>2, <2>3
  <2> QED
    BY <2>2, <2>4, <2>5, <2>6
<1>3. session' \in BOOLEAN /\ logins' \in 0..Logins
  <2>1. session' \in {session, FALSE} /\ session \in BOOLEAN
    BY DEF SignOutFails, PageInv, TypeOK
  <2>2. logins' = logins + 1 /\ logins < Logins /\ logins \in 0..Logins
    BY DEF SignOutFails, PageInv, TypeOK
  <2>3. logins' \in 0..Logins
    BY <2>2, HandoffAssumption
  <2> QED
    BY <2>1, <2>3
<1>4. user' \in [Tab -> {"loading", "in", "out"}]
      /\ \A v \in ScanTab \ {s} : user'[v] = user[v]
  BY DEF SignOutFails, PageInv, TypeOK, Tab
<1>5. PageHangsTogether(s)'
  BY <1>2 DEF SignOutFails, PageInv, PageHangsTogether
<1>6. /\ s \in announced => scan[s].data = "shown"
      /\ scan[s].handedOff => \E a \in Tab \ {s} : <<a, s>> \in answered
  BY DEF PageInv, AnnouncedByFinder, HandedOffWasTaken
<1>7. channel' = channel /\ channel \subseteq Message /\ SendsClaims
  BY DEF SignOutFails, PageInv, TypeOK, SendsClaims
<1> QED
  BY <1>2, <1>3, <1>4, <1>5, <1>6, <1>7, PageStep DEF SignOutFails

\* The page's own steps, which leave the session and the user alone.
LEMMA OwnStep ==
    ASSUME PageInv, NEW s \in ScanTab, NEW p \in ScanState,
           scan'[s] = p, scan' \in [ScanTab -> ScanState],
           \A t \in ScanTab \ {s} : scan'[t] = scan[t],
           channel' \subseteq Message, SendsClaims,
           UNCHANGED <<session, logins, user, bag, announced, answered, moved>>,
           p.effect = "ask" => p.scanner = "owner" /\ user[s] = "in",
           p.effect = "lookup" => user[s] = "in",
           p.handedOff => p.scanner = "owner" \/ p.why = "signed_out",
           p.effect \in {"none", "lookup"} => p.scanner = "unknown",
           p.effect # "over" => p.at = "scan" /\ ~p.handedOff,
           p.scanner = "finder" <=> p.why # "none",
           p.why = "not_found" => ~(bag[s].mine /\ bag[s].current),
           s \in announced => p.scanner = "finder" /\ p.data = "shown",
           p.handedOff => \E a \in Tab \ {s} : <<a, s>> \in answered
    PROVE  PageInv'
<1>1. PageHangsTogether(s)'
  BY DEF PageHangsTogether
<1>2. session' \in BOOLEAN
  BY Zenon DEF PageInv, TypeOK
<1>3. logins' \in 0..Logins /\ user' \in [Tab -> {"loading", "in", "out"}]
  BY DEF PageInv, TypeOK
<1>4. \A t \in ScanTab \ {s} : user'[t] = user[t]
  OBVIOUS
<1>5. /\ scan'[s].effect = "ask" => scan'[s].scanner = "owner" /\ user'[s] = "in"
      /\ scan'[s].handedOff => scan'[s].scanner = "owner" \/ scan'[s].why = "signed_out"
      /\ s \in announced => scan'[s].scanner = "finder" /\ scan'[s].data = "shown"
      /\ scan'[s].handedOff => \E a \in Tab \ {s} : <<a, s>> \in answered
  BY Zenon
<1> QED
  BY <1>1, <1>2, <1>3, <1>4, <1>5, PageStep

\* A page that sends nothing sends claims only.
LEMMA NothingSent == channel' = channel => SendsClaims
  BY DEF SendsClaims

\* What holds of a page before a step of it.
LEMMA PageBefore ==
    ASSUME PageInv, NEW s \in ScanTab
    PROVE  /\ scan \in [ScanTab -> ScanState] /\ scan[s] \in ScanState
           /\ PageHangsTogether(s)
           /\ scan[s].effect = "ask" => scan[s].scanner = "owner" /\ user[s] = "in"
           /\ scan[s].handedOff => scan[s].scanner = "owner" \/ scan[s].why = "signed_out"
           /\ s \in announced => scan[s].scanner = "finder" /\ scan[s].data = "shown"
           /\ scan[s].handedOff => \E a \in Tab \ {s} : <<a, s>> \in answered
           /\ channel \subseteq Message
           /\ bag[s].mine \in BOOLEAN /\ bag[s].current \in BOOLEAN
  BY DEF PageInv, TypeOK, AnnouncedByFinder, HandedOffWasTaken, Bag

\* The page's data is read once, before the scan can have been posted.
LEMMA KeepsRead ==
    ASSUME PageInv, NEW s \in ScanTab, Read(s)
    PROVE  PageInv'
<1>1. PICK d \in {"shown", "error"} : scan' = [scan EXCEPT ![s].data = d]
  BY DEF Read
<1> DEFINE p == [scan[s] EXCEPT !.data = d]
<1>2. scan \in [ScanTab -> ScanState]
  BY PageBefore
<1>3. scan'[s] = p /\ \A t \in ScanTab \ {s} : scan'[t] = scan[t]
  BY <1>1, <1>2
<1>4. p \in ScanState
  BY <1>2 DEF ScanState
<1>5. /\ p.at = scan[s].at /\ p.scanner = scan[s].scanner /\ p.effect = scan[s].effect
      /\ p.why = scan[s].why
  BY <1>2 DEF ScanState
<1>6. p.handedOff = scan[s].handedOff
  BY <1>2 DEF ScanState
<1> HIDE DEF p
<1>7. scan' \in [ScanTab -> ScanState]
  BY <1>1, <1>2, <1>3, <1>4
<1>8. s \notin announced
  BY PageBefore DEF Read
<1> QED
  BY <1>3, <1>4, <1>5, <1>6, <1>7, <1>8, PageBefore, NothingSent, OwnStep DEF Read, PageHangsTogether

\* Identify finds nobody, and the page is a finder's; or a user, whom it asks about.
LEMMA KeepsIdentify ==
    ASSUME PageInv, NEW s \in ScanTab, Identify(s)
    PROVE  PageInv'
<1> DEFINE out  == [scan[s] EXCEPT !.scanner = "finder", !.effect = "over", !.why = "signed_out"]
           in   == [scan[s] EXCEPT !.effect = "lookup"]
           p    == IF user[s] = "out" THEN out ELSE in
<1>1. scan \in [ScanTab -> ScanState]
  BY PageBefore
<1>2. scan'[s] = p /\ \A t \in ScanTab \ {s} : scan'[t] = scan[t]
  BY <1>1 DEF Identify
<1>3. /\ out \in ScanState /\ in \in ScanState
      /\ out.scanner = "finder" /\ out.effect = "over" /\ out.why = "signed_out"
      /\ in.at = scan[s].at /\ in.scanner = scan[s].scanner /\ in.effect = "lookup"
      /\ in.why = scan[s].why /\ in.data = scan[s].data /\ out.data = scan[s].data
  BY ZenonT(30), <1>1 DEF ScanState
<1>4. out.handedOff = scan[s].handedOff /\ in.handedOff = scan[s].handedOff
  BY <1>1 DEF ScanState
<1>5. user[s] # "out" => user[s] = "in"
  BY DEF Identify, PageInv, TypeOK, Tab
<1> HIDE DEF in, out
<1>6. p \in ScanState /\ scan' \in [ScanTab -> ScanState]
  BY <1>1, <1>2, <1>3 DEF Identify
<1>7. CASE user[s] = "out"
  <2>1. p = out
    BY <1>7
  <2> HIDE DEF p
  <2>2. /\ s \notin announced /\ ~p.handedOff
        /\ p.scanner = "finder" /\ p.why = "signed_out" /\ p.effect = "over"
    BY <1>3, <1>4, <2>1, PageBefore DEF Identify, PageHangsTogether
  <2>3. UNCHANGED <<session, logins, user, bag, channel, announced, answered, moved>>
    BY DEF Identify
  <2> QED
    BY <1>2, <1>6, <2>2, <2>3, PageBefore, NothingSent, OwnStep
<1>8. CASE user[s] # "out"
  <2>1. p = in
    BY <1>8
  <2> HIDE DEF p
  <2>2. /\ s \notin announced /\ ~p.handedOff /\ p.at = "scan" /\ p.scanner = "unknown"
        /\ p.why = "none" /\ p.effect = "lookup"
    BY <1>3, <1>4, <2>1, PageBefore DEF Identify, PageHangsTogether
  <2>3. UNCHANGED <<session, logins, user, bag, channel, announced, answered, moved>>
    BY DEF Identify
  <2> QED
    BY <1>2, <1>5, <1>6, <1>8, <2>2, <2>3, PageBefore, NothingSent, OwnStep
<1> QED
  BY <1>7, <1>8

\* A lookup that fails has its reason; it is "not found" only for a bag that is
\* not the user's, or not under its current code.
LEMMA KeepsLookupFails ==
    ASSUME PageInv, NEW s \in ScanTab, LookupFails(s)
    PROVE  PageInv'
<1>1. PICK why \in {"failed", "not_found", "no_session"} :
        /\ scan' = [scan EXCEPT ![s].scanner = "finder", ![s].effect = "over", ![s].why = why]
        /\ why = "not_found" => ~(bag[s].mine /\ bag[s].current)
  BY DEF LookupFails, Found
<1> DEFINE p == [scan[s] EXCEPT !.scanner = "finder", !.effect = "over", !.why = why]
<1>2. scan \in [ScanTab -> ScanState]
  BY PageBefore
<1>3. scan'[s] = p /\ \A t \in ScanTab \ {s} : scan'[t] = scan[t]
  BY <1>1, <1>2
<1>4. /\ p \in ScanState /\ p.scanner = "finder" /\ p.effect = "over" /\ p.why = why
      /\ p.data = scan[s].data
  BY ZenonT(30), <1>2 DEF ScanState
<1>5. p.handedOff = scan[s].handedOff
  BY <1>2 DEF ScanState
<1> HIDE DEF p
<1>6. scan' \in [ScanTab -> ScanState]
  BY <1>1, <1>2, <1>3, <1>4
<1>7. ~p.handedOff
  BY <1>5, PageBefore DEF LookupFails, PageHangsTogether
<1>8. s \notin announced
  BY PageBefore DEF LookupFails, PageHangsTogether
<1>9. p.why = "not_found" => ~(bag[s].mine /\ bag[s].current)
  BY <1>1, <1>4
<1>10. p.why # "none"
  BY <1>4
<1>11. UNCHANGED <<session, logins, user, bag, channel, announced, answered, moved>>
  BY DEF LookupFails
<1> QED
  BY <1>3, <1>4, <1>6, <1>7, <1>8, <1>9, <1>10, <1>11, PageBefore, NothingSent, OwnStep

\* Asking makes the page the owner's, and only claims go out.
LEMMA KeepsAsk ==
    ASSUME PageInv, NEW s \in ScanTab, Ask(s)
    PROVE  PageInv'
<1> DEFINE p == [scan[s] EXCEPT !.scanner = "owner", !.effect = "ask"]
<1>1. scan \in [ScanTab -> ScanState] /\ scan' = [scan EXCEPT ![s].scanner = "owner", ![s].effect = "ask"]
  BY PageBefore DEF Ask
<1>2. scan'[s] = p /\ \A t \in ScanTab \ {s} : scan'[t] = scan[t]
  BY <1>1
<1>3. /\ p \in ScanState /\ p.scanner = "owner" /\ p.effect = "ask" /\ p.at = scan[s].at
      /\ p.data = scan[s].data /\ p.why = scan[s].why
  BY ZenonT(30), <1>1 DEF ScanState
<1>4. p.handedOff = scan[s].handedOff
  BY <1>1 DEF ScanState
<1> HIDE DEF p
<1>5. scan' \in [ScanTab -> ScanState]
  BY <1>1, <1>2, <1>3
<1>6. channel' \subseteq Message /\ SendsClaims
  <2>1. ~InApp(s)
    BY PageBefore DEF Ask, InApp, PageHangsTogether
  <2> QED
    BY <2>1, PageBefore DEF Ask, Message, Tab, SendsClaims
<1>7. s \notin announced /\ p.why = "none" /\ ~p.handedOff /\ p.at = "scan" /\ user[s] = "in"
  BY <1>3, <1>4, PageBefore DEF Ask, PageHangsTogether
<1>8. UNCHANGED <<session, logins, user, bag, announced, answered, moved>>
  BY DEF Ask
<1> QED
  BY <1>2, <1>3, <1>5, <1>6, <1>7, <1>8, OwnStep

\* The answer was given, for this page's own claim.
LEMMA KeepsClaimed ==
    ASSUME PageInv, NEW s \in ScanTab, Claimed(s)
    PROVE  PageInv'
<1> DEFINE p == [scan[s] EXCEPT !.effect = "over", !.handedOff = TRUE]
<1>1. scan \in [ScanTab -> ScanState] /\ scan' = [scan EXCEPT ![s].effect = "over", ![s].handedOff = TRUE]
  BY PageBefore DEF Claimed
<1>2. scan'[s] = p /\ \A t \in ScanTab \ {s} : scan'[t] = scan[t]
  BY <1>1
<1>3. /\ p.scanner = scan[s].scanner /\ p.effect = "over" /\ p.at = scan[s].at
      /\ p.data = scan[s].data /\ p.why = scan[s].why
  BY <1>1 DEF ScanState
<1>4. p \in ScanState
  BY ZenonT(30), <1>1 DEF ScanState
<1> HIDE DEF p
<1>5. scan' \in [ScanTab -> ScanState]
  BY <1>1, <1>2, <1>4
<1>6. PICK m \in channel : m.type = "claimed" /\ m.nonce = s /\ channel' = channel \ {m}
  BY DEF Claimed, TakesAnswer
<1>7. \E a \in Tab \ {s} : <<a, s>> \in answered
  BY <1>6 DEF PageInv, AnswersWereGiven
<1>8. channel' \subseteq Message /\ SendsClaims
  BY <1>6, PageBefore DEF SendsClaims
<1>9. scan[s].scanner = "owner"
  BY PageBefore DEF Claimed
<1>10. s \notin announced /\ p.why = "none"
  BY <1>3, <1>9, PageBefore DEF PageHangsTogether
<1>11. UNCHANGED <<session, logins, user, bag, announced, answered, moved>>
  BY DEF Claimed
<1> QED
  BY <1>2, <1>3, <1>4, <1>5, <1>7, <1>8, <1>9, <1>10, <1>11, OwnStep

\* The page goes to the tag itself.
LEMMA KeepsNobodyAnswers ==
    ASSUME PageInv, NEW s \in ScanTab, NobodyAnswers(s)
    PROVE  PageInv'
<1> DEFINE p == [scan[s] EXCEPT !.effect = "over", !.at = "left"]
<1>1. scan \in [ScanTab -> ScanState] /\ scan' = [scan EXCEPT ![s].effect = "over", ![s].at = "left"]
  BY PageBefore DEF NobodyAnswers
<1>2. scan'[s] = p /\ \A t \in ScanTab \ {s} : scan'[t] = scan[t]
  BY <1>1
<1>3. /\ p \in ScanState /\ p.scanner = scan[s].scanner /\ p.effect = "over"
      /\ p.data = scan[s].data /\ p.why = scan[s].why
  BY ZenonT(30), <1>1 DEF ScanState
<1>4. p.handedOff = scan[s].handedOff
  BY <1>1 DEF ScanState
<1> HIDE DEF p
<1>5. scan' \in [ScanTab -> ScanState]
  BY <1>1, <1>2, <1>3
<1>6. s \notin announced /\ p.why = "none" /\ p.scanner = "owner" /\ ~p.handedOff
  BY <1>3, <1>4, PageBefore DEF NobodyAnswers, PageHangsTogether
<1>7. UNCHANGED <<session, logins, user, bag, channel, announced, answered, moved>>
  BY DEF NobodyAnswers
<1> QED
  BY <1>2, <1>3, <1>5, <1>6, <1>7, PageBefore, NothingSent, OwnStep

\* Only the address of the page changes.
LEMMA KeepsShowHere ==
    ASSUME PageInv, NEW s \in ScanTab, ShowHere(s)
    PROVE  PageInv'
<1> DEFINE p == [scan[s] EXCEPT !.at = "left"]
<1>1. scan \in [ScanTab -> ScanState] /\ scan' = [scan EXCEPT ![s].at = "left"]
  BY PageBefore DEF ShowHere
<1>2. scan'[s] = p /\ \A t \in ScanTab \ {s} : scan'[t] = scan[t]
  BY <1>1
<1>3. /\ p \in ScanState /\ p.scanner = scan[s].scanner /\ p.effect = scan[s].effect
      /\ p.data = scan[s].data /\ p.why = scan[s].why
  BY <1>1 DEF ScanState
<1>4. p.handedOff = scan[s].handedOff
  BY <1>1 DEF ScanState
<1> HIDE DEF p
<1>5. scan' \in [ScanTab -> ScanState]
  BY <1>1, <1>2, <1>3
<1>6. scan[s].handedOff /\ scan[s].effect = "over"
  <2>1. scan[s].handedOff
    BY DEF ShowHere, Screen
  <2> QED
    BY <2>1, PageBefore DEF PageHangsTogether
<1>7. UNCHANGED <<session, logins, user, bag, channel, announced, answered, moved>>
  BY DEF ShowHere
<1>8. /\ p.scanner = "finder" <=> p.why # "none"
      /\ p.why = "not_found" => ~(bag[s].mine /\ bag[s].current)
      /\ s \in announced => p.scanner = "finder" /\ p.data = "shown"
  BY <1>3, PageBefore DEF PageHangsTogether
<1>9. /\ p.handedOff => p.scanner = "owner" \/ p.why = "signed_out"
      /\ p.handedOff => \E a \in Tab \ {s} : <<a, s>> \in answered
  BY <1>3, <1>4, PageBefore
<1>10. p.effect = "over"
  BY <1>3, <1>6
<1> QED
  BY <1>2, <1>3, <1>5, <1>7, <1>8, <1>9, <1>10, PageBefore, NothingSent, OwnStep

\* The scan of a finder is posted.
LEMMA KeepsRecord ==
    ASSUME PageInv, NEW s \in ScanTab, Record(s)
    PROVE  PageInv'
<1>1. announced' = announced \cup {s} /\ scan[s].scanner = "finder" /\ scan[s].data = "shown"
  BY DEF Record, MayRecord
<1>2. UNCHANGED <<session, logins, user, bag, scan, channel, answered, moved>>
  BY DEF Record
<1>3. TypeOK'
  BY <1>1, <1>2 DEF PageInv, TypeOK
<1>4. \A t \in ScanTab : PageHangsTogether(t)'
  BY <1>2 DEF PageInv, PageHangsTogether
<1>5. AnnouncedByFinder' /\ AnswersWereGiven' /\ HandedOffWasTaken'
  BY <1>1, <1>2 DEF PageInv, AnnouncedByFinder, AnswersWereGiven, HandedOffWasTaken
<1> QED
  BY <1>3, <1>4, <1>5 DEF PageInv

\* Answers go out with the claim they answer written down.
LEMMA KeepsAnswer ==
    ASSUME PageInv, NEW a \in Tab, Answer(a)
    PROVE  PageInv'
<1>1. PICK m \in channel :
        /\ m.type = "claim" /\ m.to = a
        /\ channel' = (channel \ {m}) \cup
                {[type |-> "claimed", nonce |-> m.nonce, to |-> s] :
                    s \in {x \in ScanTab : scan[x].effect = "ask"}}
        /\ answered' = answered \cup {<<a, m.nonce>>}
        /\ moved' = IF user[a] = "in" THEN moved \cup {<<a, m.nonce>>} ELSE moved
        /\ UNCHANGED <<session, logins, user, bag, scan, announced>>
  BY DEF Answer
<1>2. m \in Message /\ m.nonce \in ScanTab
  BY <1>1 DEF PageInv, TypeOK, Message
<1>3. channel' \subseteq Message
  BY <1>1, <1>2 DEF PageInv, TypeOK, Message, Tab
<1>4. answered' \subseteq Tab \X ScanTab /\ moved' \subseteq answered'
  BY <1>1, <1>2 DEF PageInv, TypeOK
<1>5. TypeOK'
  BY <1>1, <1>3, <1>4 DEF PageInv, TypeOK
<1>6. \A t \in ScanTab : PageHangsTogether(t)'
  BY <1>1 DEF PageInv, PageHangsTogether
<1>7. AnswersWereGiven'
  <2> SUFFICES ASSUME NEW n \in channel'
               PROVE  /\ n.type = "claim" => n.to # n.nonce
                      /\ n.type = "claimed" =>
                            \E b \in Tab \ {n.nonce} : <<b, n.nonce>> \in answered'
    BY DEF AnswersWereGiven
  <2>1. CASE n \in channel
    BY <1>1, <2>1 DEF PageInv, AnswersWereGiven
  <2>2. CASE n \notin channel
    <3>1. n.type = "claimed" /\ n.nonce = m.nonce
      BY <1>1, <2>2
    <3>2. a # m.nonce
      BY <1>1 DEF PageInv, AnswersWereGiven
    <3> QED
      BY <1>1, <3>1, <3>2
  <2> QED
    BY <2>1, <2>2
<1>8. AnnouncedByFinder' /\ HandedOffWasTaken'
  BY <1>1 DEF PageInv, AnnouncedByFinder, HandedOffWasTaken
<1> QED
  BY <1>5, <1>6, <1>7, <1>8 DEF PageInv

\* A message that is lost, and a step of no variable.
LEMMA KeepsIgnore ==
    ASSUME PageInv, Ignore \/ UNCHANGED vars
    PROVE  PageInv'
<1>1. channel' \subseteq channel
      /\ UNCHANGED <<session, logins, user, bag, scan, announced, answered, moved>>
  BY DEF Ignore, vars
<1>2. TypeOK'
  BY <1>1 DEF PageInv, TypeOK
<1>3. \A t \in ScanTab : PageHangsTogether(t)'
  BY <1>1 DEF PageInv, PageHangsTogether
<1>4. AnnouncedByFinder' /\ AnswersWereGiven' /\ HandedOffWasTaken'
  BY <1>1 DEF PageInv, AnnouncedByFinder, AnswersWereGiven, HandedOffWasTaken
<1> QED
  BY <1>2, <1>3, <1>4 DEF PageInv

-----------------------------------------------------------------------------

\* Every step keeps the invariant.
LEMMA NextKeepsPage == PageInv /\ [Next]_vars => PageInv'
<1> SUFFICES ASSUME PageInv, [Next]_vars
             PROVE  PageInv'
  OBVIOUS
<1>1. CASE \E t \in Tab : Probe(t) \/ SignOut(t)
  BY <1>1, KeepsProbe, KeepsSignOut
<1>2. CASE \E t \in Tab : SignIn(t) \/ Answer(t)
  BY <1>2, KeepsSignIn, KeepsAnswer
<1>3. ASSUME NEW s \in ScanTab, Page(s) \/ ShowHere(s) \/ SignOutFails(s)
      PROVE  PageInv'
  BY <1>3, KeepsRead, KeepsIdentify, KeepsLookupFails, KeepsAsk, KeepsClaimed,
     KeepsNobodyAnswers, KeepsRecord, KeepsShowHere, KeepsSignOutFails DEF Page
<1>4. CASE Ignore \/ UNCHANGED vars
  BY <1>4, KeepsIgnore
<1> QED
  BY <1>1, <1>2, <1>3, <1>4 DEF Next

\* Every reachable state satisfies the invariant.
LEMMA PageInvariant == Spec => []PageInv
  BY InitPage, NextKeepsPage, PTL DEF Spec

\* Every page of every tab stays in a state its component can be in.
THEOREM PagesAreTyped == Spec => []TypeOK
<1>1. PageInv => TypeOK
  BY DEF PageInv
<1> QED
  BY <1>1, PageInvariant, PTL

\* The owner is told of a scan of a bag of theirs, under its current code, only
\* when the lookup failed, or the tab is or was signed out.
THEOREM OwnersAreNotAnnounced == Spec => []OwnerIsNotAnnounced
<1>1. PageInv => OwnerIsNotAnnounced
  <2> SUFFICES ASSUME PageInv, NEW s \in announced, bag[s].mine, bag[s].current
               PROVE  scan[s].why \in {"failed", "signed_out", "no_session"}
    BY DEF OwnerIsNotAnnounced
  <2>1. s \in ScanTab /\ scan[s] \in ScanState
    BY DEF PageInv, TypeOK
  <2>2. scan[s].scanner = "finder"
    BY DEF PageInv, AnnouncedByFinder
  <2>3. scan[s].why # "none" /\ scan[s].why # "not_found"
    BY <2>1, <2>2 DEF PageInv, PageHangsTogether
  <2> QED
    BY <2>1, <2>3 DEF ScanState
<1> QED
  BY <1>1, PageInvariant, PTL

\* A page says that its bag was opened in another tab only when a tab answered
\* the claim of this very bag.
THEOREM HandOffsWereTaken == Spec => []HandedOffWasTaken
<1>1. PageInv => HandedOffWasTaken
  BY DEF PageInv
<1> QED
  BY <1>1, PageInvariant, PTL

-----------------------------------------------------------------------------
(* The refinement: every step of the tabs is a step of the decision, or none. *)

\* What every page shows.
Shown == [s \in ScanTab |-> Screen(s)]

\* What a page may show after what it shows.
Follows(old, new) ==
    \/ new = old
    \/ old = "checking"
    \/ old \in {"finder", "elsewhere", "unreadable"} /\ new = "left"
    \/ old = "elsewhere" /\ new = "unreadable"

\* A page shows one of the screens of the decision.
LEMMA ScreenIsOne == \A s : Screen(s) \in Decision!Screens
  BY DEF Screen, Decision!Screens

\* A step that changes nothing of any page but one, which follows, is a step of
\* the decision or none.
LEMMA OneFollows ==
    ASSUME NEW s \in ScanTab, \A t \in ScanTab \ {s} : Screen(t)' = Screen(t),
           Follows(Screen(s), Screen(s)'), announced' = announced
    PROVE  [Decision!Next]_<<Shown, announced>>
<1> DEFINE new == Screen(s)'
<1>1. Shown' = [Shown EXCEPT ![s] = new]
  BY DEF Shown
<1>2. Shown[s] = Screen(s)
  BY DEF Shown
<1>3. new \in Decision!Screens
  BY DEF Screen, Decision!Screens
<1>4. CASE new = Screen(s)
  BY <1>1, <1>2, <1>4 DEF Shown
<1>5. CASE Screen(s) = "checking" /\ new # Screen(s)
  <2>1. Decision!Decide(s)
    BY <1>1, <1>2, <1>3, <1>5 DEF Decision!Decide, Shown
  <2> QED
    BY <2>1 DEF Decision!Next
<1>6. CASE Screen(s) # "checking" /\ new # Screen(s)
  <2>1. Decision!GoOn(s)
    BY <1>1, <1>2, <1>6 DEF Decision!GoOn, Shown, Follows
  <2> QED
    BY <2>1 DEF Decision!Next
<1> QED
  BY <1>4, <1>5, <1>6

\* A page only ever goes on: from being checked to what was decided, and from
\* there to the tag, or to being unreadable.  PageInv tells that a page an effect
\* is under way on is still being checked.
LEMMA PagesGoOn ==
    ASSUME PageInv, NEW s \in ScanTab,
           \/ Read(s) \/ Identify(s) \/ LookupFails(s) \/ Ask(s) \/ Claimed(s)
           \/ NobodyAnswers(s) \/ ShowHere(s) \/ SignOut(s) \/ SignOutFails(s)
    PROVE  /\ \A t \in ScanTab \ {s} : Screen(t)' = Screen(t)
           /\ Follows(Screen(s), Screen(s)') /\ announced' = announced
<1> DEFINE q == scan'[s]
<1> USE DEF PageHangsTogether
<1>1. scan \in [ScanTab -> ScanState] /\ scan[s] \in ScanState /\ PageHangsTogether(s)
  BY PageBefore
<1>2. CASE Read(s)
  <2>1. /\ \A t \in ScanTab \ {s} : scan'[t] = scan[t]
        /\ q.at = scan[s].at /\ q.scanner = scan[s].scanner /\ q.data \in {"shown", "error"}
    BY <1>1, <1>2 DEF Read, ScanState
  <2>2. q.handedOff = scan[s].handedOff
    BY <1>1, <1>2 DEF Read, ScanState
  <2> QED
    BY <1>1, <1>2, <2>1, <2>2 DEF Read, Screen, Follows
<1>3. CASE Identify(s)
  <2>1. /\ \A t \in ScanTab \ {s} : scan'[t] = scan[t]
        /\ q.at = scan[s].at /\ q.data = scan[s].data
    BY <1>1, <1>3 DEF Identify, ScanState
  <2>2. q.handedOff = scan[s].handedOff
    BY <1>1, <1>3 DEF Identify, ScanState
  <2> QED
    BY <1>1, <1>3, <2>1, <2>2 DEF Identify, Screen, Follows
<1>4. CASE LookupFails(s)
  <2>1. PICK why :
          scan' = [scan EXCEPT ![s].scanner = "finder", ![s].effect = "over", ![s].why = why]
    BY <1>4 DEF LookupFails
  <2>2. /\ \A t \in ScanTab \ {s} : scan'[t] = scan[t]
        /\ q = [scan[s] EXCEPT !.scanner = "finder", !.effect = "over", !.why = why]
    BY <1>1, <2>1
  <2>3. q.at = scan[s].at /\ q.data = scan[s].data /\ q.scanner = "finder"
    BY <1>1, <2>2 DEF ScanState
  <2>4. q.handedOff = scan[s].handedOff
    BY <1>1, <2>2 DEF ScanState
  <2>5. announced' = announced /\ \A t \in ScanTab \ {s} : Screen(t)' = Screen(t)
    BY <1>4, <2>2 DEF LookupFails, Screen
  <2>6. Follows(Screen(s), Screen(s)')
    BY <1>1, <1>4, <2>3, <2>4 DEF LookupFails, Screen, Follows
  <2> QED
    BY <2>5, <2>6
<1>5. CASE Ask(s)
  <2>1. /\ \A t \in ScanTab \ {s} : scan'[t] = scan[t]
        /\ q.at = scan[s].at /\ q.data = scan[s].data /\ q.scanner = "owner"
    BY <1>1, <1>5 DEF Ask, ScanState
  <2>2. q.handedOff = scan[s].handedOff
    BY <1>1, <1>5 DEF Ask, ScanState
  <2> QED
    BY <1>1, <1>5, <2>1, <2>2 DEF Ask, Screen, Follows
<1>6. CASE Claimed(s)
  <2>1. /\ \A t \in ScanTab \ {s} : scan'[t] = scan[t]
        /\ q.at = scan[s].at /\ q.data = scan[s].data
    BY <1>1, <1>6 DEF Claimed, ScanState
  <2>2. scan[s].scanner = "owner"
    BY <1>6, PageBefore DEF Claimed
  <2> QED
    BY <1>1, <1>6, <2>1, <2>2 DEF Claimed, Screen, Follows
<1>7. CASE NobodyAnswers(s)
  <2>1. (\A t \in ScanTab \ {s} : scan'[t] = scan[t]) /\ q.at = "left"
    BY <1>1, <1>7 DEF NobodyAnswers, ScanState
  <2> QED
    BY <1>1, <1>7, <2>1 DEF NobodyAnswers, Screen, Follows
<1>8. CASE ShowHere(s)
  <2>1. (\A t \in ScanTab \ {s} : scan'[t] = scan[t]) /\ q.at = "left"
    BY <1>1, <1>8 DEF ShowHere, ScanState
  <2> QED
    BY <1>1, <1>8, <2>1 DEF ShowHere, Screen, Follows
<1>9. CASE SignOut(s)
  <2>1. (\A t \in ScanTab \ {s} : scan'[t] = scan[t]) /\ q.at = "left"
    BY <1>1, <1>9 DEF SignOut, ScanState
  <2> QED
    BY <1>1, <1>9, <2>1 DEF SignOut, Screen, Follows
<1>10. CASE SignOutFails(s)
  <2>1. /\ \A t \in ScanTab \ {s} : scan'[t] = scan[t]
        /\ q = [scan[s] EXCEPT !.scanner = "finder", !.effect = "over", !.why = "signed_out"]
    BY <1>1, <1>10 DEF SignOutFails
  <2>2. q.at = scan[s].at /\ q.data = scan[s].data /\ q.scanner = "finder"
    BY <1>1, <2>1 DEF ScanState
  <2>3. q.handedOff = scan[s].handedOff
    BY <1>1, <2>1 DEF ScanState
  <2>4. scan[s].at = "scan" /\ announced' = announced
    BY <1>10 DEF SignOutFails
  <2>5. \A t \in ScanTab \ {s} : Screen(t)' = Screen(t)
    BY <2>1 DEF Screen
  <2>6. Follows(Screen(s), Screen(s)')
    BY <2>2, <2>3, <2>4 DEF Screen, Follows
  <2> QED
    BY <2>4, <2>5, <2>6
<1> QED
  BY <1>2, <1>3, <1>4, <1>5, <1>6, <1>7, <1>8, <1>9, <1>10

\* Posting the scan announces a page that was decided to be a finder's, or that
\* had said "elsewhere" to one who then signed out on it.
LEMMA RecordAnnounces ==
    ASSUME PageInv, NEW s \in ScanTab, Record(s)
    PROVE  Decision!Announce(s)
<1>1. scan' = scan /\ announced' = announced \cup {s} /\ s \notin announced
  BY DEF Record
<1>2. Screen(s) \in {"finder", "elsewhere"}
  BY DEF Record, MayRecord, Screen
<1>3. Shown' = Shown
  BY <1>1 DEF Shown, Screen
<1> QED
  BY <1>1, <1>2, <1>3 DEF Decision!Announce, Shown

\* The steps that are none of the decision's.
LEMMA OthersStutter ==
    ASSUME UNCHANGED <<scan, announced>>
    PROVE  UNCHANGED <<Shown, announced>>
  BY DEF Shown, Screen

\* Every step of the tabs is a step of the decision, or none.
LEMMA NextDecides == PageInv /\ [Next]_vars => [Decision!Next]_<<Shown, announced>>
<1> SUFFICES ASSUME PageInv, [Next]_vars
             PROVE  [Decision!Next]_<<Shown, announced>>
  OBVIOUS
<1>1. ASSUME NEW s \in ScanTab, Page(s) \/ ShowHere(s) \/ SignOutFails(s) \/ SignOut(s)
      PROVE  [Decision!Next]_<<Shown, announced>>
  <2>1. CASE Record(s)
    BY <2>1, RecordAnnounces DEF Decision!Next
  <2>2. CASE ~Record(s)
    BY <1>1, <2>2, PagesGoOn, OneFollows DEF Page
  <2> QED
    BY <2>1, <2>2
<1>2. CASE \E t \in Tab \ ScanTab : SignOut(t)
  BY <1>2, OthersStutter DEF SignOut
<1>3. CASE \/ \E t \in Tab : Probe(t) \/ SignIn(t) \/ Answer(t)
           \/ Ignore
           \/ UNCHANGED vars
  <2>1. UNCHANGED <<scan, announced>>
    BY <1>3 DEF Probe, SignIn, Answer, Ignore, vars
  <2> QED
    BY <2>1, OthersStutter
<1> QED
  BY <1>1, <1>2, <1>3 DEF Next

\* The tabs implement the decision: a page is checked and then decided, once; it
\* goes on only to the tag, or from "elsewhere" to being unreadable; and a scan is
\* announced at most once, and only when its page is not being checked.
THEOREM TabsDecide == Spec => ImplementsScanDecision
<1>1. Init => Decision!Init
  BY DEF Init, Decision!Init, Screen
<1>2. PageInv /\ [Next]_vars => [Decision!Next]_<<[s \in ScanTab |-> Screen(s)], announced>>
  BY NextDecides DEF Shown
<1> QED
  BY <1>1, <1>2, PageInvariant, PTL DEF Spec, ImplementsScanDecision, Decision!Spec

-----------------------------------------------------------------------------
(* The settings page. *)

\* What a part of the settings page may be waiting for.
MadeBy(c) ==
    \/ c.who = "mount" /\ c.what \in {"load", "list_sessions"}
    \/ c.who = "profile" /\ c.what \in {"save", "load", "probe"}
    \/ c.who = "notify" /\ c.what \in {"notify", "load"}
    \/ c.who = "totp" /\ c.what \in {"setup", "enable", "disable", "load"}
    \/ c.who = "sessions" /\ c.what \in {"revoke_others", "list_sessions"}
    \/ c.who = "password" /\ c.what = "password"
    \/ c.who = "data" /\ c.what \in {"delete", "sign_out"}

SettingsCall ==
    [id : Nat, who : Signed!Section \cup {"mount"},
     what : {"load", "list_sessions", "save", "probe", "notify", "setup", "enable", "disable",
             "revoke_others", "password", "delete", "sign_out"},
     arg : [value : 0..1, ok : BOOLEAN], out : {"pending", "ok", "refused"},
     body : Signed!Body, crossed : BOOLEAN]

\* Everything on the settings page has its type.
SettingsTyped ==
    /\ row \in Signed!Row /\ spage \in Signed!Page
    /\ smade \in [calls : 0..MaxCalls, lost : Nat]
    /\ scalls \subseteq SettingsCall
    /\ doubt \subseteq {"account", "codes"}

\* A part of the page waits for one call, or for two that change nothing; calls of
\* two sections are marked.
Apart(S) ==
    \A c, d \in S :
        /\ c.id = d.id => c.who = d.who
        /\ c.who = d.who /\ c # d => c.what # d.what /\ c.what \in {"load", "probe", "list_sessions"}
        /\ {c.who, d.who} \subseteq Signed!Section /\ c.who # d.who => c.crossed

\* What is known of a call: who makes it; that nothing but the first load is under
\* way before it has answered; that the codes it brings are the last ones, unless a
\* request given up on crossed it; and that an account loaded with nothing else under
\* way is the last one.
SettingsCallIsKnown(c) ==
    /\ MadeBy(c) /\ c.id <= smade.calls
    /\ ~spage.loaded => c.who = "mount"
    /\ c.who = "mount" /\ c.what = "load" => ~spage.loaded
    /\ c.what = "enable" /\ c.out = "ok" =>
            c.body.codes = row.codes \/ ("codes" \in doubt /\ c.crossed)
    /\ c.what = "load" /\ c.out = "ok" /\ ~c.crossed =>
            ~row.gone /\ c.body.account = Signed!Serialize(row)

BusyIsWaiting ==
    \A s \in Signed!Section : spage.busy[s] <=> \E c \in scalls : c.who = s

\* An account that is gone is about to be left, or the page was not told.
GoneIsTold ==
    row.gone /\ "account" \notin doubt =>
        \E c \in scalls : (c.what = "delete" /\ c.out = "ok") \/ c.what = "sign_out"

\* An answer under way that will have the account loaded, or has it.
Brings(c) ==
    \/ c.what = "load" /\ c.out # "refused"
    \/ c.what \in {"save", "notify", "enable", "disable"} /\ c.out = "ok"

\* The page shows the account, or a call under way will see to it, or to the doubt.
AccountIsShown ==
    spage.loaded /\ "account" \notin doubt /\ spage.account # Signed!Serialize(row) =>
        \E c \in scalls : c.crossed \/ Brings(c)

\* The codes on the page are the last ones, or the last ones are on their way.
CodesAreShown ==
    "codes" \notin doubt /\ row.totp = "on" /\ spage.codes # 0 /\ spage.codes # row.codes =>
        \E c \in scalls : c.what = "enable" /\ c.out = "ok"

SettingsInv ==
    /\ SettingsTyped
    /\ spage.at = "settings" =>
        /\ Apart(scalls)
        /\ \A c \in scalls : SettingsCallIsKnown(c)
        /\ BusyIsWaiting /\ GoneIsTold /\ AccountIsShown /\ CodesAreShown

\* What the browser gave up on was asked for before.
SettingsLate == slate \subseteq SettingsCall /\ \A c \in slate : c.id <= smade.calls

-----------------------------------------------------------------------------
(* Calls of the settings page. *)

\* A call as it was, unless it has been marked since.
Kept(e, d) ==
    /\ e.id = d.id /\ e.who = d.who /\ e.what = d.what /\ e.arg = d.arg
    /\ e.out = d.out /\ e.body = d.body
    /\ d.crossed => e.crossed

\* A call marked as crossed by one that is sent.
Crossing(d, who) ==
    IF d.who \in Signed!Section \ {who} THEN [d EXCEPT !.crossed = TRUE] ELSE d

\* The mark changes nothing else.
LEMMA CrossingKeeps ==
    ASSUME NEW d \in SettingsCall, NEW who
    PROVE  /\ Crossing(d, who) \in SettingsCall /\ Kept(Crossing(d, who), d)
           /\ d.who \in Signed!Section /\ d.who # who => Crossing(d, who).crossed
<1>1. CASE d.who \in Signed!Section \ {who}
  BY <1>1 DEF Crossing, SettingsCall, Kept
<1>2. CASE d.who \notin Signed!Section \ {who}
  BY <1>2 DEF Crossing, Kept
<1> QED
  BY <1>1, <1>2

\* Sending a call marks those it crosses, and itself.
LEMMA SendCrosses ==
    ASSUME NEW S \in SUBSET SettingsCall, NEW n \in SettingsCall
    PROVE  \E m \in SettingsCall :
              /\ Signed!Send(S, n, Signed!Section) = {Crossing(d, n.who) : d \in S} \cup {m}
              /\ m.id = n.id /\ m.who = n.who /\ m.what = n.what /\ m.arg = n.arg
              /\ m.out = n.out /\ m.body = n.body
              /\ \A d \in S : d.who \in Signed!Section /\ d.who # n.who => m.crossed
<1> DEFINE others == {d \in S : d.who \in Signed!Section /\ d.who # n.who}
           crossed == others # {}
           m == [n EXCEPT !.crossed = crossed]
<1>1. crossed \in BOOLEAN /\ \A d \in S : d.who \in Signed!Section /\ d.who # n.who => crossed
  OBVIOUS
<1>2. Signed!Send(S, n, Signed!Section)
        = (S \ others) \cup {[d EXCEPT !.crossed = TRUE] : d \in others} \cup {m}
  BY DEF Signed!Send
<1>3. (S \ others) \cup {[d EXCEPT !.crossed = TRUE] : d \in others}
        = {Crossing(d, n.who) : d \in S}
  <2>1. \A d \in others : Crossing(d, n.who) = [d EXCEPT !.crossed = TRUE]
    BY DEF Crossing
  <2>2. \A d \in S \ others : Crossing(d, n.who) = d
    BY DEF Crossing
  <2>3. others \subseteq S
    OBVIOUS
  <2> HIDE DEF others
  <2> QED
    BY <2>1, <2>2, <2>3
<1> HIDE DEF crossed, others
<1>4. /\ m \in SettingsCall /\ m.id = n.id /\ m.who = n.who /\ m.what = n.what
      /\ m.arg = n.arg /\ m.out = n.out /\ m.body = n.body /\ (m.crossed <=> crossed)
  BY <1>1 DEF SettingsCall
<1> HIDE DEF m
<1> QED
  BY <1>1, <1>2, <1>3, <1>4

\* Whether a call can be sent beside those in flight.
Fits(S, n) ==
    \A d \in S :
        /\ d.id = n.id => d.who = n.who
        /\ d.who = n.who => /\ d.what # n.what
                            /\ {d.what, n.what} \subseteq {"load", "probe", "list_sessions"}

\* T is S, marked here and there, with a call like n.
Joined(T, S, n) ==
    /\ T \subseteq SettingsCall /\ Apart(T)
    /\ \A e \in T : \/ \E d \in S : Kept(e, d)
                    \/ Kept(e, n)
    /\ \A d \in S : \E e \in T : Kept(e, d)
    /\ \E e \in T : Kept(e, n)

\* What is sent from a section keeps the calls apart.
LEMMA SendJoins ==
    ASSUME NEW S \in SUBSET SettingsCall, NEW n \in SettingsCall, n.crossed = FALSE,
           Apart(S), Fits(S, n)
    PROVE  Joined(Signed!Send(S, n, Signed!Section), S, n)
<1> DEFINE T == Signed!Send(S, n, Signed!Section)
<1>1. PICK m \in SettingsCall :
        /\ T = {Crossing(d, n.who) : d \in S} \cup {m}
        /\ m.id = n.id /\ m.who = n.who /\ m.what = n.what /\ m.arg = n.arg
        /\ m.out = n.out /\ m.body = n.body
        /\ \A d \in S : d.who \in Signed!Section /\ d.who # n.who => m.crossed
  BY SendCrosses
<1> HIDE DEF T
<1>2. \A d \in S :
        /\ Crossing(d, n.who) \in SettingsCall /\ Kept(Crossing(d, n.who), d)
        /\ d.who \in Signed!Section /\ d.who # n.who => Crossing(d, n.who).crossed
  BY CrossingKeeps
<1>3. \A e \in T : e = m \/ \E d \in S : e = Crossing(d, n.who)
  BY <1>1
<1>4. m \in T /\ \A d \in S : Crossing(d, n.who) \in T
  BY <1>1
<1>5. T \subseteq SettingsCall
  BY <1>1, <1>2, <1>3
<1>6. Kept(m, n)
  BY <1>1 DEF Kept
<1>7. Apart(T)
  <2> SUFFICES ASSUME NEW e \in T, NEW f \in T
               PROVE  /\ e.id = f.id => e.who = f.who
                      /\ e.who = f.who /\ e # f =>
                            e.what # f.what /\ e.what \in {"load", "probe", "list_sessions"}
                      /\ {e.who, f.who} \subseteq Signed!Section /\ e.who # f.who => e.crossed
    BY DEF Apart
  <2>1. CASE e = m /\ f = m
    BY <2>1
  <2>2. ASSUME NEW d \in S, e = Crossing(d, n.who), f = m
        PROVE  /\ e.id = f.id => e.who = f.who
               /\ e.who = f.who /\ e # f =>
                     e.what # f.what /\ e.what \in {"load", "probe", "list_sessions"}
               /\ {e.who, f.who} \subseteq Signed!Section /\ e.who # f.who => e.crossed
    BY <1>1, <1>2, <2>2 DEF Kept, Fits
  <2>3. ASSUME NEW d \in S, f = Crossing(d, n.who), e = m
        PROVE  /\ e.id = f.id => e.who = f.who
               /\ e.who = f.who /\ e # f =>
                     e.what # f.what /\ e.what \in {"load", "probe", "list_sessions"}
               /\ {e.who, f.who} \subseteq Signed!Section /\ e.who # f.who => e.crossed
    BY <1>1, <1>2, <2>3 DEF Kept, Fits
  <2>4. ASSUME NEW d \in S, e = Crossing(d, n.who), NEW g \in S, f = Crossing(g, n.who)
        PROVE  /\ e.id = f.id => e.who = f.who
               /\ e.who = f.who /\ e # f =>
                     e.what # f.what /\ e.what \in {"load", "probe", "list_sessions"}
               /\ {e.who, f.who} \subseteq Signed!Section /\ e.who # f.who => e.crossed
    <3>1. /\ d.id = g.id => d.who = g.who
          /\ d.who = g.who /\ d # g =>
                d.what # g.what /\ d.what \in {"load", "probe", "list_sessions"}
          /\ {d.who, g.who} \subseteq Signed!Section /\ d.who # g.who => d.crossed
      BY DEF Apart
    <3>2. Kept(e, d) /\ Kept(f, g) /\ (e # f => d # g)
      BY <1>2, <2>4
    <3> QED
      BY <3>1, <3>2 DEF Kept
  <2> QED
    BY <1>3, <2>1, <2>2, <2>3, <2>4
<1> QED
  BY <1>2, <1>3, <1>4, <1>5, <1>6, <1>7 DEF Joined, T

\* A call taken from those in flight is the only one of its id and its kind.
LEMMA WithoutOne ==
    ASSUME NEW S \in SUBSET SettingsCall, Apart(S), NEW c \in S
    PROVE  /\ Signed!Without(S, c) = S \ {c}
           /\ Signed!Without(S, Signed!Lost(c)) = S \ {c}
           /\ Apart(S \ {c})
<1>1. \A d \in S : d.id = c.id /\ d.what = c.what => d = c
  BY DEF Apart
<1>2. Signed!Lost(c).id = c.id /\ Signed!Lost(c).what = c.what
  BY DEF Signed!Lost, SettingsCall
<1> QED
  BY <1>1, <1>2 DEF Signed!Without, Apart

\* A call the handler of c goes on with.
NextCall(c, what) == Signed!Sent(c.id, c.who, what, Signed!NoArg, Signed!Nothing)

LEMMA NextCallTyped ==
    ASSUME NEW c \in SettingsCall, NEW what \in {"load", "probe", "list_sessions", "sign_out"}
    PROVE  /\ NextCall(c, what) \in SettingsCall
           /\ NextCall(c, what).id = c.id /\ NextCall(c, what).who = c.who
           /\ NextCall(c, what).what = what /\ NextCall(c, what).out = "pending"
           /\ NextCall(c, what).crossed = FALSE
<1>1. Signed!Nothing \in Signed!Body
  BY AccountsAssumption DEF Signed!Nothing, Signed!Body, Signed!Account
<1>2. Signed!NoArg \in [value : 0..1, ok : BOOLEAN]
  BY DEF Signed!NoArg
<1> QED
  BY <1>1, <1>2 DEF NextCall, Signed!Sent, SettingsCall

\* In T the call c of S has made way for calls of the same handler, one for each
\* of whats.
Replaced(T, S, c, whats) ==
    /\ T \subseteq SettingsCall /\ Apart(T)
    /\ \A e \in T : \/ \E d \in S \ {c} : Kept(e, d)
                    \/ e.id = c.id /\ e.who = c.who /\ e.what \in whats /\ e.out = "pending"
    /\ \A d \in S \ {c} : \E e \in T : Kept(e, d)
    /\ \A w \in whats : \E e \in T : e.who = c.who /\ e.what = w /\ e.out = "pending"

\* The last call of a handler is over.
LEMMA NoneFollows ==
    ASSUME NEW S \in SUBSET SettingsCall, Apart(S), NEW c \in S
    PROVE  Replaced(S \ {c}, S, c, {})
<1>1. Apart(S \ {c})
  BY WithoutOne
<1>2. \A d \in S : Kept(d, d)
  BY DEF Kept
<1> QED
  BY <1>1, <1>2 DEF Replaced

\* A handler that waits for a change waits for nothing else.
LEMMA ChangeIsAlone ==
    ASSUME NEW S \in SUBSET SettingsCall, Apart(S), NEW c \in S,
           c.what \notin {"load", "probe", "list_sessions"}
    PROVE  \A d \in S \ {c} : d.who # c.who /\ d.id # c.id
  BY DEF Apart

\* Another call follows a change.
LEMMA OneCallFollows ==
    ASSUME NEW S \in SUBSET SettingsCall, Apart(S), NEW c \in S,
           c.what \notin {"load", "probe", "list_sessions"},
           NEW what \in {"load", "probe", "list_sessions", "sign_out"}
    PROVE  Replaced(Signed!Send(S \ {c}, NextCall(c, what), Signed!Section), S, c, {what})
<1> DEFINE n == NextCall(c, what)
           T == Signed!Send(S \ {c}, n, Signed!Section)
<1>1. /\ n \in SettingsCall /\ n.id = c.id /\ n.who = c.who /\ n.what = what
      /\ n.out = "pending" /\ n.crossed = FALSE
  BY NextCallTyped
<1> HIDE DEF n
<1>2. Apart(S \ {c})
  BY WithoutOne
<1>3. Fits(S \ {c}, n)
  BY <1>1, ChangeIsAlone DEF Fits
<1>4. Joined(T, S \ {c}, n)
  BY <1>1, <1>2, <1>3, SendJoins
<1> HIDE DEF T
<1>5. Replaced(T, S, c, {what})
  BY <1>1, <1>4 DEF Replaced, Joined, Kept
<1> QED
  BY <1>5 DEF T, n

\* Two calls follow saveProfile.
LEMMA TwoFollow ==
    ASSUME NEW S \in SUBSET SettingsCall, Apart(S), NEW c \in S, c.what = "save"
    PROVE  Replaced(Signed!Send(Signed!Send(S \ {c}, NextCall(c, "load"), Signed!Section),
                                NextCall(c, "probe"), Signed!Section),
                    S, c, {"load", "probe"})
<1> DEFINE T == Signed!Send(S \ {c}, NextCall(c, "load"), Signed!Section)
           n == NextCall(c, "probe")
           U == Signed!Send(T, n, Signed!Section)
<1>1. Replaced(T, S, c, {"load"})
  BY OneCallFollows
<1>2. /\ n \in SettingsCall /\ n.id = c.id /\ n.who = c.who /\ n.what = "probe"
      /\ n.out = "pending" /\ n.crossed = FALSE
  BY NextCallTyped
<1> HIDE DEF T, n
<1>3. \A d \in S \ {c} : d.who # c.who /\ d.id # c.id
  BY ChangeIsAlone
<1>4. Fits(T, n)
  BY <1>1, <1>2, <1>3 DEF Fits, Replaced, Kept
<1>5. Joined(U, T, n)
  BY <1>1, <1>2, <1>4, SendJoins DEF Replaced
<1> HIDE DEF U
<1>6. /\ U \subseteq SettingsCall /\ Apart(U)
      /\ \A e \in U : \/ \E d \in T : Kept(e, d)
                      \/ Kept(e, n)
      /\ \A d \in T : \E e \in U : Kept(e, d)
      /\ \E e \in U : Kept(e, n)
  BY <1>5 DEF Joined
<1>7. ASSUME NEW e \in U
      PROVE  \/ \E d \in S \ {c} : Kept(e, d)
             \/ e.id = c.id /\ e.who = c.who /\ e.what \in {"load", "probe"} /\ e.out = "pending"
  <2>1. CASE Kept(e, n)
    BY <1>2, <2>1 DEF Kept
  <2>2. ASSUME NEW d \in T, Kept(e, d)
        PROVE  \/ \E g \in S \ {c} : Kept(e, g)
               \/ e.id = c.id /\ e.who = c.who /\ e.what = "load" /\ e.out = "pending"
    BY <1>1, <2>2 DEF Replaced, Kept
  <2> QED
    BY <1>6, <2>1, <2>2
<1>8. ASSUME NEW d \in S \ {c}
      PROVE  \E e \in U : Kept(e, d)
  <2>1. PICK f \in T : Kept(f, d)
    BY <1>1 DEF Replaced
  <2>2. PICK e \in U : Kept(e, f)
    BY <1>6
  <2> QED
    BY <2>1, <2>2 DEF Kept
<1>9. \E e \in U : e.who = c.who /\ e.what = "load" /\ e.out = "pending"
  <2>1. PICK f \in T : f.who = c.who /\ f.what = "load" /\ f.out = "pending"
    BY <1>1 DEF Replaced
  <2>2. PICK e \in U : Kept(e, f)
    BY <1>6
  <2> QED
    BY <2>1, <2>2 DEF Kept
<1>10. \E e \in U : e.who = c.who /\ e.what = "probe" /\ e.out = "pending"
  BY <1>2, <1>6 DEF Kept
<1>11. Replaced(U, S, c, {"load", "probe"})
  BY <1>6, <1>7, <1>8, <1>9, <1>10 DEF Replaced
<1> QED
  BY <1>11 DEF U, T, n

-----------------------------------------------------------------------------
(* The server of the settings page. *)

\* What each handler changes of the account.
LEMMA HandlersChange ==
    ASSUME row \in Signed!Row, NEW c \in SettingsCall, c.id \in 0..MaxCalls
    PROVE  LET r == Signed!Changed(c) IN
           /\ r \in Signed!Row
           /\ c.what \notin {"save", "notify", "setup", "enable", "disable", "revoke_others",
                             "password", "delete"} => r = row
           /\ r.codes = IF c.what = "enable" THEN c.id ELSE row.codes
           /\ r.gone = (row.gone \/ c.what = "delete")
           /\ Signed!Accepted(c) /\ c.what \notin {"save", "notify", "enable", "disable"} =>
                Signed!Serialize(r) = Signed!Serialize(row)
           /\ r.totp = "on" /\ c.what # "enable" => row.totp = "on"
<1> DEFINE r == Signed!Changed(c)
<1>1. c.arg.value \in 0..1 /\ c.arg \in [value : 0..1, ok : BOOLEAN]
  BY DEF SettingsCall
<1>2. CASE c.what = "save"
  <2>1. r = [row EXCEPT !.name = c.arg.value]
    BY <1>2 DEF Signed!Changed
  <2> HIDE DEF r
  <2>2. r \in Signed!Row /\ r.codes = row.codes /\ r.gone = row.gone /\ r.totp = row.totp
    BY <1>1, <2>1 DEF Signed!Row
  <2> QED
    BY <1>2, <2>2 DEF Signed!Row, r
<1>3. CASE c.what = "notify"
  <2>1. r = [row EXCEPT !.notify = c.arg.value]
    BY <1>3 DEF Signed!Changed
  <2> HIDE DEF r
  <2>2. r \in Signed!Row /\ r.codes = row.codes /\ r.gone = row.gone /\ r.totp = row.totp
    BY <1>1, <2>1 DEF Signed!Row
  <2> QED
    BY <1>3, <2>2 DEF Signed!Row, r
<1>4. CASE c.what = "setup"
  <2>1. r = [row EXCEPT !.totp = "set_up"]
    BY <1>4 DEF Signed!Changed
  <2>2. Signed!Accepted(c) => row.totp # "on"
    BY <1>4 DEF Signed!Accepted
  <2> HIDE DEF r
  <2>3. /\ r \in Signed!Row /\ r.codes = row.codes /\ r.gone = row.gone /\ r.totp = "set_up"
        /\ r.name = row.name /\ r.notify = row.notify
    BY <2>1 DEF Signed!Row
  <2>4. row.totp # "on" => Signed!Serialize(r) = Signed!Serialize(row)
    BY <2>3 DEF Signed!Serialize
  <2> QED
    BY <1>4, <2>2, <2>3, <2>4 DEF Signed!Row, r
<1>5. CASE c.what = "enable"
  <2>1. r = [row EXCEPT !.totp = "on", !.codes = c.id]
    BY <1>5 DEF Signed!Changed
  <2> HIDE DEF r
  <2>2. r \in Signed!Row /\ r.codes = c.id /\ r.gone = row.gone
    BY <2>1 DEF Signed!Row
  <2> QED
    BY <1>5, <2>2 DEF Signed!Row, r
<1>6. CASE c.what = "disable"
  <2>1. r = [row EXCEPT !.totp = "off"]
    BY <1>6 DEF Signed!Changed
  <2> HIDE DEF r
  <2>2. r \in Signed!Row /\ r.codes = row.codes /\ r.gone = row.gone /\ r.totp = "off"
    BY <2>1 DEF Signed!Row
  <2> QED
    BY <1>6, <2>2 DEF Signed!Row, r
<1>7. CASE c.what \in {"revoke_others", "password"}
  <2>1. r = [row EXCEPT !.others = FALSE]
    BY <1>7 DEF Signed!Changed
  <2> HIDE DEF r
  <2>2. /\ r \in Signed!Row /\ r.codes = row.codes /\ r.gone = row.gone /\ r.totp = row.totp
        /\ r.name = row.name /\ r.notify = row.notify
    BY <2>1 DEF Signed!Row
  <2>3. Signed!Serialize(r) = Signed!Serialize(row)
    BY <2>2 DEF Signed!Serialize
  <2> QED
    BY <1>7, <2>2, <2>3 DEF Signed!Row, r
<1>8. CASE c.what = "delete"
  <2>1. r = [row EXCEPT !.gone = TRUE]
    BY <1>8 DEF Signed!Changed
  <2> HIDE DEF r
  <2>2. /\ r \in Signed!Row /\ r.codes = row.codes /\ r.gone = TRUE /\ r.totp = row.totp
        /\ r.name = row.name /\ r.notify = row.notify
    BY <2>1 DEF Signed!Row
  <2>3. Signed!Serialize(r) = Signed!Serialize(row)
    BY <2>2 DEF Signed!Serialize
  <2> QED
    BY <1>8, <2>2, <2>3 DEF Signed!Row, r
<1>9. CASE c.what \notin {"save", "notify", "setup", "enable", "disable", "revoke_others",
                          "password", "delete"}
  <2>1. r = row
    BY <1>9 DEF Signed!Changed
  <2> QED
    BY <1>9, <2>1 DEF Signed!Row
<1> QED
  BY <1>2, <1>3, <1>4, <1>5, <1>6, <1>7, <1>8, <1>9

\* What the account shows of itself.
LEMMA SerializedAccount ==
    ASSUME NEW r \in Signed!Row
    PROVE  Signed!Serialize(r) \in Signed!Account
  BY DEF Signed!Serialize, Signed!Account, Signed!Row

\* What an answer says of the account.
LEMMA AnswersSay ==
    ASSUME NEW r \in Signed!Row, NEW what
    PROVE  /\ Signed!Answer(what, r) \in Signed!Body /\ Signed!Nothing \in Signed!Body
           /\ what = "load" => Signed!Answer(what, r).account = Signed!Serialize(r)
           /\ what = "enable" => Signed!Answer(what, r).codes = r.codes
<1>1. Signed!Nothing \in Signed!Body
  BY AccountsAssumption DEF Signed!Nothing, Signed!Body, Signed!Account
<1>2. Signed!Serialize(r) \in Signed!Account /\ r.codes \in 0..MaxCalls /\ r.others \in BOOLEAN
  BY SerializedAccount DEF Signed!Row
<1>3. CASE what = "load"
  <2>1. Signed!Answer(what, r) = [Signed!Nothing EXCEPT !.account = Signed!Serialize(r)]
    BY <1>3 DEF Signed!Answer
  <2> QED
    BY <1>1, <1>2, <1>3, <2>1 DEF Signed!Body
<1>4. CASE what = "enable"
  <2>1. Signed!Answer(what, r) = [Signed!Nothing EXCEPT !.codes = r.codes]
    BY <1>4 DEF Signed!Answer
  <2> QED
    BY <1>1, <1>2, <1>4, <2>1 DEF Signed!Body
<1>5. CASE what = "list_sessions"
  <2>1. Signed!Answer(what, r) = [Signed!Nothing EXCEPT !.others = r.others]
    BY <1>5 DEF Signed!Answer
  <2> QED
    BY <1>1, <1>2, <1>5, <2>1 DEF Signed!Body
<1>6. CASE what \notin {"load", "enable", "list_sessions"}
  <2>1. Signed!Answer(what, r) = Signed!Nothing
    BY <1>6 DEF Signed!Answer
  <2> QED
    BY <1>1, <1>6, <2>1
<1> QED
  BY <1>3, <1>4, <1>5, <1>6

\* An answer keeps what it answers.
LEMMA ServedSettingsCall ==
    ASSUME NEW c \in SettingsCall, NEW out \in {"ok", "refused"}, NEW body \in Signed!Body
    PROVE  LET s == Signed!Served(c, out, body) IN
           /\ s \in SettingsCall
           /\ s.out = out /\ s.body = body
           /\ s.id = c.id /\ s.who = c.who /\ s.what = c.what /\ s.crossed = c.crossed
  BY DEF Signed!Served, SettingsCall

\* The server serves a call: what an unmarked answer says is how things are, and
\* stays so until it is taken.
LEMMA SettingsServed ==
    ASSUME SettingsInv, NEW c \in scalls, Signed!Serve(c)
    PROVE  SettingsInv'
<1> DEFINE ok == Signed!Done(c)
           out == IF ok THEN "ok" ELSE "refused"
           body == IF ok THEN Signed!Answer(c.what, row') ELSE Signed!Nothing
           s == Signed!Served(c, out, body)
<1>1. /\ spage.at = "settings" /\ c.out = "pending"
      /\ row' = IF ok THEN Signed!Changed(c) ELSE row
      /\ scalls' = (scalls \ {c}) \cup {s}
      /\ UNCHANGED <<smade, spage, doubt>>
  BY DEF Signed!Serve
<1>2. /\ SettingsTyped /\ Apart(scalls) /\ \A d \in scalls : SettingsCallIsKnown(d)
      /\ BusyIsWaiting /\ GoneIsTold /\ AccountIsShown /\ CodesAreShown
  BY <1>1 DEF SettingsInv
<1>3. /\ row \in Signed!Row /\ c \in SettingsCall /\ SettingsCallIsKnown(c)
      /\ scalls \subseteq SettingsCall
  BY <1>2 DEF SettingsTyped
<1>4. c.id \in 0..MaxCalls
  BY <1>2, <1>3, AccountsAssumption DEF SettingsTyped, SettingsCallIsKnown, SettingsCall
<1>5. ok <=> ~row.gone /\ Signed!Accepted(c)
  BY DEF Signed!Done
<1>6. /\ row' \in Signed!Row
      /\ c.what \in {"load", "probe", "list_sessions"} \/ ~ok => row' = row
      /\ row'.codes = IF ok /\ c.what = "enable" THEN c.id ELSE row.codes
      /\ row'.gone = (row.gone \/ (ok /\ c.what = "delete"))
      /\ ~(ok /\ c.what \in {"save", "notify", "enable", "disable"}) =>
            Signed!Serialize(row') = Signed!Serialize(row)
      /\ row'.totp = "on" /\ ~(ok /\ c.what = "enable") => row.totp = "on"
  <2>1. CASE ok
    BY <1>1, <1>3, <1>4, <1>5, <2>1, HandlersChange
  <2>2. CASE ~ok
    <3>1. row' = row
      BY <1>1, <2>2
    <3>2. row.gone \in BOOLEAN
      BY <1>3 DEF Signed!Row
    <3> QED
      BY <1>3, <2>2, <3>1, <3>2
  <2> QED
    BY <2>1, <2>2
<1>7. /\ out \in {"ok", "refused"} /\ body \in Signed!Body /\ (out = "ok" <=> ok)
      /\ ok /\ c.what = "load" => body.account = Signed!Serialize(row')
      /\ ok /\ c.what = "enable" => body.codes = row'.codes
  BY <1>6, AnswersSay
<1>8. c.what = "load" => (ok <=> ~row.gone)
  BY <1>5 DEF Signed!Accepted
<1> HIDE DEF ok, out, body
<1>9. /\ s \in SettingsCall /\ s.out = out /\ s.body = body
      /\ s.id = c.id /\ s.who = c.who /\ s.what = c.what /\ s.crossed = c.crossed
  BY <1>3, <1>7, ServedSettingsCall
<1> HIDE DEF s
<1>10. /\ s \in scalls' /\ \A e \in scalls' : e = s \/ (e \in scalls /\ e # c)
       /\ \A d \in scalls : d # c => d \in scalls'
  BY <1>1
<1>11. SettingsTyped'
  <2>1. scalls' \subseteq SettingsCall
    BY <1>3, <1>9, <1>10
  <2> QED
    BY <1>1, <1>2, <1>6, <2>1 DEF SettingsTyped
<1>12. Apart(scalls')
  <2>1. \A e \in scalls' : \E d \in scalls :
            /\ e.id = d.id /\ e.who = d.who /\ e.what = d.what /\ e.crossed = d.crossed
            /\ (d = c <=> e = s) /\ (d # c => e = d)
    BY <1>9, <1>10
  <2> SUFFICES ASSUME NEW e \in scalls', NEW f \in scalls'
               PROVE  /\ e.id = f.id => e.who = f.who
                      /\ e.who = f.who /\ e # f =>
                            e.what # f.what /\ e.what \in {"load", "probe", "list_sessions"}
                      /\ {e.who, f.who} \subseteq Signed!Section /\ e.who # f.who => e.crossed
    BY DEF Apart
  <2>2. PICK d \in scalls :
            /\ e.id = d.id /\ e.who = d.who /\ e.what = d.what /\ e.crossed = d.crossed
            /\ (d = c <=> e = s) /\ (d # c => e = d)
    BY <2>1
  <2>3. PICK g \in scalls :
            /\ f.id = g.id /\ f.who = g.who /\ f.what = g.what /\ f.crossed = g.crossed
            /\ (g = c <=> f = s) /\ (g # c => f = g)
    BY <2>1
  <2>4. e # f => d # g
    BY <2>2, <2>3
  <2>5. /\ d.id = g.id => d.who = g.who
        /\ d.who = g.who /\ d # g => d.what # g.what /\ d.what \in {"load", "probe", "list_sessions"}
        /\ {d.who, g.who} \subseteq Signed!Section /\ d.who # g.who => d.crossed
    BY <1>2 DEF Apart
  <2> QED
    BY <2>2, <2>3, <2>4, <2>5
<1>13. ASSUME NEW e \in scalls'
       PROVE  SettingsCallIsKnown(e)'
  <2>1. CASE e = s
    <3>1. MadeBy(s) /\ s.id <= smade.calls
      BY <1>3, <1>9 DEF SettingsCallIsKnown, MadeBy
    <3>2. /\ ~spage.loaded => s.who = "mount"
          /\ s.who = "mount" /\ s.what = "load" => ~spage.loaded
      BY <1>3, <1>9 DEF SettingsCallIsKnown
    <3>3. s.what = "enable" /\ s.out = "ok" => s.body.codes = row'.codes
      BY <1>7, <1>9
    <3>4. s.what = "load" /\ s.out = "ok" =>
            ~row'.gone /\ s.body.account = Signed!Serialize(row')
      BY <1>6, <1>7, <1>8, <1>9
    <3> QED
      BY <1>1, <2>1, <3>1, <3>2, <3>3, <3>4 DEF SettingsCallIsKnown, MadeBy
  <2>2. CASE e # s
    <3>1. e \in scalls /\ e # c /\ SettingsCallIsKnown(e)
      BY <1>2, <1>10, <2>2
    <3>2. e.who = c.who => row' = row
      <4>1. e.who = c.who => c.what \in {"load", "probe", "list_sessions"}
        BY <1>2, <3>1 DEF Apart
      <4> QED
        BY <1>6, <4>1
    <3>3. e.what = "enable" => row'.codes = row.codes
      <4>1. e.what = "enable" /\ c.what = "enable" => e.who = c.who
        BY <1>3, <3>1 DEF SettingsCallIsKnown, MadeBy
      <4> QED
        BY <1>6, <3>2, <4>1
    <3>4. e.what = "load" /\ ~e.crossed => row' = row
      <4>1. CASE e.who = "mount"
        <5>1. e.what = "load" => c.who = "mount"
          BY <1>3, <3>1, <4>1 DEF SettingsCallIsKnown
        <5> QED
          BY <3>2, <4>1, <5>1
      <4>2. CASE c.who = "mount"
        BY <1>3, <1>6, <4>2 DEF SettingsCallIsKnown, MadeBy
      <4>3. CASE e.who # "mount" /\ c.who # "mount"
        <5>1. {e.who, c.who} \subseteq Signed!Section
          BY <1>3, <3>1, <4>3 DEF SettingsCall
        <5>2. e.who # c.who => e.crossed
          BY <1>2, <3>1, <5>1 DEF Apart
        <5> QED
          BY <3>2, <5>2
      <4> QED
        BY <4>1, <4>2, <4>3
    <3> QED
      BY <1>1, <3>1, <3>3, <3>4 DEF SettingsCallIsKnown, MadeBy
  <2> QED
    BY <2>1, <2>2
<1>14. BusyIsWaiting'
  <2>1. \A x \in Signed!Section : (\E e \in scalls' : e.who = x) <=> (\E d \in scalls : d.who = x)
    BY <1>9, <1>10
  <2> QED
    BY <1>1, <1>2, <2>1 DEF BusyIsWaiting
<1>15. GoneIsTold'
  <2> SUFFICES ASSUME row'.gone, "account" \notin doubt
               PROVE  \E e \in scalls' : (e.what = "delete" /\ e.out = "ok") \/ e.what = "sign_out"
    BY <1>1 DEF GoneIsTold
  <2>1. CASE row.gone
    <3>1. PICK d \in scalls : (d.what = "delete" /\ d.out = "ok") \/ d.what = "sign_out"
      BY <1>2, <2>1 DEF GoneIsTold
    <3> QED
      BY <1>1, <1>9, <1>10, <3>1
  <2>2. CASE ~row.gone
    <3>1. ok /\ c.what = "delete"
      BY <1>6, <2>2
    <3> QED
      BY <1>7, <1>9, <1>10, <3>1
  <2> QED
    BY <2>1, <2>2
<1>16. AccountIsShown'
  <2> SUFFICES ASSUME spage.loaded, "account" \notin doubt, spage.account # Signed!Serialize(row')
               PROVE  \E e \in scalls' : e.crossed \/ Brings(e)
    BY <1>1 DEF AccountIsShown, Brings
  <2>1. CASE ok /\ c.what \in {"save", "notify", "enable", "disable"}
    BY <1>7, <1>9, <1>10, <2>1 DEF Brings
  <2>2. CASE ~(ok /\ c.what \in {"save", "notify", "enable", "disable"})
    <3>1. PICK d \in scalls : d.crossed \/ Brings(d)
      BY <1>2, <1>6, <2>2 DEF AccountIsShown
    <3>2. CASE d # c
      BY <1>10, <3>1, <3>2
    <3>3. CASE c.crossed
      BY <1>9, <1>10, <3>3
    <3>4. CASE d = c /\ ~c.crossed
      <4>1. c.what = "load"
        BY <1>1, <3>1, <3>4 DEF Brings
      <4>2. ~row.gone
        <5> SUFFICES ASSUME row.gone
                     PROVE  FALSE
          OBVIOUS
        <5>1. PICK g \in scalls : (g.what = "delete" /\ g.out = "ok") \/ g.what = "sign_out"
          BY <1>2 DEF GoneIsTold
        <5>2. g.who = "data" /\ c.who # "data" /\ c.who # "mount"
          BY <1>2, <4>1, <5>1 DEF SettingsCallIsKnown, MadeBy
        <5>3. c.who \in Signed!Section /\ g.who \in Signed!Section
          BY <1>3, <5>2 DEF SettingsCall, Signed!Section
        <5> QED
          BY <1>2, <3>4, <5>2, <5>3 DEF Apart
      <4> QED
        BY <1>7, <1>8, <1>9, <1>10, <4>1, <4>2 DEF Brings
    <3> QED
      BY <3>2, <3>3, <3>4
  <2> QED
    BY <2>1, <2>2
<1>17. CodesAreShown'
  <2> SUFFICES ASSUME "codes" \notin doubt, row'.totp = "on", spage.codes # 0,
                      spage.codes # row'.codes
               PROVE  \E e \in scalls' : e.what = "enable" /\ e.out = "ok"
    BY <1>1 DEF CodesAreShown
  <2>1. CASE ok /\ c.what = "enable"
    BY <1>7, <1>9, <1>10, <2>1
  <2>2. CASE ~(ok /\ c.what = "enable")
    <3>1. PICK d \in scalls : d.what = "enable" /\ d.out = "ok"
      BY <1>2, <1>6, <2>2 DEF CodesAreShown
    <3> QED
      BY <1>1, <1>10, <3>1
  <2> QED
    BY <2>1, <2>2
<1> QED
  BY <1>11, <1>12, <1>13, <1>14, <1>15, <1>16, <1>17 DEF SettingsInv, Apart

-----------------------------------------------------------------------------
(* The settings page asks. *)

\* The changes that the sections ask for.
Changes ==
    {<<"profile", "save">>, <<"notify", "notify">>, <<"totp", "setup">>, <<"totp", "enable">>,
     <<"totp", "disable">>, <<"sessions", "revoke_others">>, <<"password", "password">>,
     <<"data", "delete">>}

\* A section that waits for nothing asks for a change, and waits for it.
LEMMA SettingsAsked ==
    ASSUME SettingsInv, NEW s \in Signed!Section, NEW what, <<s, what>> \in Changes,
           NEW arg \in [value : 0..1, ok : BOOLEAN],
           Signed!Idle(s), Signed!Busy(s), Signed!Ask(s, what, arg)
    PROVE  SettingsInv'
<1> DEFINE n == Signed!Sent(smade.calls + 1, s, what, arg, Signed!Nothing)
<1>1. /\ spage.at = "settings" /\ spage.loaded /\ ~spage.busy[s]
      /\ spage' = [spage EXCEPT !.busy[s] = TRUE]
      /\ smade.calls < MaxCalls /\ smade' = [smade EXCEPT !["calls"] = @ + 1]
      /\ scalls' = Signed!Send(scalls, n, Signed!Section)
      /\ row' = row /\ doubt' = doubt
  BY DEF Signed!Idle, Signed!Busy, Signed!Ask
<1>2. /\ SettingsTyped /\ Apart(scalls) /\ \A d \in scalls : SettingsCallIsKnown(d)
      /\ BusyIsWaiting /\ GoneIsTold /\ AccountIsShown /\ CodesAreShown
  BY <1>1 DEF SettingsInv
<1>3. /\ smade \in [calls : 0..MaxCalls, lost : Nat] /\ smade.calls \in Nat
      /\ scalls \in SUBSET SettingsCall
  BY <1>2, AccountsAssumption DEF SettingsTyped
<1>4. smade' \in [calls : 0..MaxCalls, lost : Nat] /\ smade'.calls = smade.calls + 1
  <2>1. smade.calls + 1 \in 0..MaxCalls
    BY <1>1, <1>3, AccountsAssumption
  <2>2. smade' = [smade EXCEPT !.calls = smade.calls + 1]
    BY <1>1
  <2> QED
    BY <1>3, <2>1, <2>2
<1>5. /\ n \in SettingsCall /\ n.id = smade.calls + 1 /\ n.who = s /\ n.what = what
      /\ n.out = "pending" /\ n.crossed = FALSE
  <2>1. Signed!Nothing \in Signed!Body
    BY AccountsAssumption DEF Signed!Nothing, Signed!Body, Signed!Account
  <2>2. what \in {"save", "notify", "setup", "enable", "disable", "revoke_others", "password",
                  "delete"}
    BY DEF Changes
  <2> QED
    BY <1>3, <2>1, <2>2 DEF Signed!Sent, SettingsCall
<1> HIDE DEF n
<1>6. MadeBy(n) /\ n.what \notin {"load", "probe", "list_sessions"}
  BY <1>5 DEF MadeBy, Changes
<1>7. \A d \in scalls : d.who # s /\ d.id <= smade.calls /\ d.id # n.id
  <2>1. \A d \in scalls : d.who # s
    BY <1>1, <1>2 DEF BusyIsWaiting
  <2>2. \A d \in scalls : d.id \in Nat /\ d.id <= smade.calls
    BY <1>2, <1>3 DEF SettingsCallIsKnown, SettingsCall
  <2> QED
    BY <1>3, <1>5, <2>1, <2>2
<1>8. Fits(scalls, n)
  BY <1>5, <1>7 DEF Fits
<1>9. Joined(scalls', scalls, n)
  BY <1>1, <1>2, <1>3, <1>5, <1>8, SendJoins
<1>10. /\ scalls' \subseteq SettingsCall /\ Apart(scalls')
       /\ \A e \in scalls' : \/ \E d \in scalls : Kept(e, d)
                             \/ Kept(e, n)
       /\ \A d \in scalls : \E e \in scalls' : Kept(e, d)
       /\ \E e \in scalls' : Kept(e, n)
  BY <1>9 DEF Joined
<1>11. /\ spage' \in Signed!Page /\ spage'.at = spage.at /\ spage'.loaded = spage.loaded
       /\ spage'.account = spage.account /\ spage'.codes = spage.codes
       /\ \A x \in Signed!Section : spage'.busy[x] <=> x = s \/ spage.busy[x]
  <2> DEFINE busy == [spage.busy EXCEPT ![s] = TRUE]
  <2>1. spage \in Signed!Page /\ spage.busy \in [Signed!Section -> BOOLEAN]
    BY <1>2 DEF SettingsTyped, Signed!Page
  <2>2. /\ busy \in [Signed!Section -> BOOLEAN]
        /\ \A x \in Signed!Section : busy[x] <=> x = s \/ spage.busy[x]
    BY <2>1
  <2>3. spage' = [spage EXCEPT !.busy = busy]
    BY <1>1
  <2> HIDE DEF busy
  <2> QED
    BY <2>1, <2>2, <2>3 DEF Signed!Page
<1>12. SettingsTyped'
  BY <1>1, <1>2, <1>4, <1>10, <1>11 DEF SettingsTyped
<1>13. ASSUME NEW e \in scalls'
       PROVE  SettingsCallIsKnown(e)'
  <2>1. CASE Kept(e, n)
    <3>1. e.id <= smade'.calls
      BY <1>3, <1>4, <1>5, <2>1 DEF Kept
    <3> QED
      BY <1>1, <1>5, <1>6, <1>11, <2>1, <3>1 DEF SettingsCallIsKnown, MadeBy, Kept
  <2>2. ASSUME NEW d \in scalls, Kept(e, d)
        PROVE  SettingsCallIsKnown(e)'
    <3>1. d.id <= smade'.calls
      <4>1. d.id \in Nat
        BY <1>3 DEF SettingsCall
      <4> QED
        BY <1>3, <1>4, <1>7, <4>1
    <3>2. SettingsCallIsKnown(d)
      BY <1>2
    <3> QED
      BY <1>1, <1>11, <2>2, <3>1, <3>2 DEF SettingsCallIsKnown, MadeBy, Kept
  <2> QED
    BY <1>10, <2>1, <2>2
<1>14. BusyIsWaiting'
  <2>1. \A x \in Signed!Section :
            (\E e \in scalls' : e.who = x) <=> (x = s \/ \E d \in scalls : d.who = x)
    BY <1>5, <1>10 DEF Kept
  <2> QED
    BY <1>2, <1>11, <2>1 DEF BusyIsWaiting
<1>15. GoneIsTold'
  BY <1>1, <1>2, <1>10 DEF GoneIsTold, Kept
<1>16. AccountIsShown'
  <2>1. \A d \in scalls : d.crossed \/ Brings(d) => \E e \in scalls' : e.crossed \/ Brings(e)
    BY <1>10 DEF Kept, Brings
  <2> QED
    BY <1>1, <1>2, <1>11, <2>1 DEF AccountIsShown, Brings
<1>17. CodesAreShown'
  BY <1>1, <1>2, <1>10, <1>11 DEF CodesAreShown, Kept
<1> QED
  BY <1>10, <1>12, <1>13, <1>14, <1>15, <1>16, <1>17 DEF SettingsInv, Apart

-----------------------------------------------------------------------------
(* The settings page takes an answer. *)

\* The busy flags once a call of a section has made way for others, or for none.
FreesUnlessMore(c, whats) ==
    \A s \in Signed!Section :
        spage'.busy[s] <=> IF s = c.who /\ whats = {} THEN \E d \in scalls \ {c} : d.who = s
                           ELSE spage.busy[s]

\* What the page has of the account from an answer.
ShowsAnswer(c) ==
    /\ IF c.what = "load" /\ c.out = "ok"
       THEN spage'.loaded /\ spage'.account = c.body.account
       ELSE spage'.loaded = spage.loaded /\ spage'.account = spage.account
    /\ spage'.codes = IF c.what = "enable" /\ c.out = "ok" THEN c.body.codes ELSE spage.codes

\* The calls that are left when one has made way for others are known.
LEMMA ReplacedAreKnown ==
    ASSUME SettingsInv, spage.at = "settings", NEW c \in scalls,
           NEW whats \in SUBSET {"load", "probe", "list_sessions", "sign_out"},
           Replaced(scalls', scalls, c, whats),
           \A w \in whats : MadeBy(NextCall(c, w)) /\ c.who # "mount",
           row' = row, smade'.calls = smade.calls,
           "codes" \in doubt /\ "codes" \notin doubt' => c.what = "enable",
           spage'.loaded = spage.loaded \/ (c.what = "load" /\ spage'.loaded)
    PROVE  \A e \in scalls' : SettingsCallIsKnown(e)'
<1>1. /\ SettingsTyped /\ Apart(scalls) /\ \A d \in scalls : SettingsCallIsKnown(d)
  BY DEF SettingsInv
<1>2. \A e \in scalls' :
        \/ \E d \in scalls \ {c} : Kept(e, d)
        \/ e.id = c.id /\ e.who = c.who /\ e.what \in whats /\ e.out = "pending"
  BY DEF Replaced
<1>3. ASSUME NEW e \in scalls', NEW d \in scalls \ {c}, Kept(e, d)
      PROVE  SettingsCallIsKnown(e)'
  <2>1. SettingsCallIsKnown(d) /\ SettingsCallIsKnown(c)
    BY <1>1
  <2>2. spage'.loaded => ~(d.who = "mount" /\ d.what = "load")
    <3>1. CASE spage.loaded
      BY <2>1, <3>1 DEF SettingsCallIsKnown
    <3>2. CASE ~spage.loaded /\ spage'.loaded
      <4>1. c.what = "load" /\ c.who = "mount"
        BY <2>1, <3>2 DEF SettingsCallIsKnown
      <4> QED
        BY <1>1, <4>1 DEF Apart
    <3> QED
      BY <3>1, <3>2
  <2>3. ~spage'.loaded => d.who = "mount"
    BY <2>1 DEF SettingsCallIsKnown
  <2>4. d.what = "enable" /\ "codes" \in doubt => "codes" \in doubt'
    <3>1. d.what = "enable" /\ c.what = "enable" => d.who = c.who
      BY <2>1 DEF SettingsCallIsKnown, MadeBy
    <3> QED
      BY <1>1, <3>1 DEF Apart
  <2> QED
    BY <1>3, <2>1, <2>2, <2>3, <2>4 DEF SettingsCallIsKnown, MadeBy, Kept
<1>4. ASSUME NEW e \in scalls', e.id = c.id, e.who = c.who, e.what \in whats, e.out = "pending"
      PROVE  SettingsCallIsKnown(e)'
  <2>1. SettingsCallIsKnown(c) /\ c \in SettingsCall
    BY <1>1 DEF SettingsTyped
  <2>2. MadeBy(e)
    <3>1. NextCall(c, e.what).who = e.who /\ NextCall(c, e.what).what = e.what
      <4>1. e.what \in {"load", "probe", "list_sessions", "sign_out"}
        BY <1>4
      <4>2. \A w \in {"load", "probe", "list_sessions", "sign_out"} :
                NextCall(c, w).who = c.who /\ NextCall(c, w).what = w
        BY <2>1, NextCallTyped
      <4> QED
        BY <1>4, <4>1, <4>2
    <3>2. MadeBy(NextCall(c, e.what))
      BY <1>4
    <3> QED
      BY <3>1, <3>2 DEF MadeBy
  <2>3. e.who # "mount" /\ spage'.loaded /\ e.what # "enable"
    BY <1>4, <2>1 DEF SettingsCallIsKnown
  <2> QED
    BY <1>4, <2>1, <2>2, <2>3 DEF SettingsCallIsKnown, MadeBy
<1> QED
  BY <1>2, <1>3, <1>4

\* The flags say which sections wait for a call.
LEMMA ReplacedAreWaitedFor ==
    ASSUME SettingsInv, spage.at = "settings", NEW c \in scalls, NEW whats,
           Replaced(scalls', scalls, c, whats), FreesUnlessMore(c, whats)
    PROVE  BusyIsWaiting'
<1>1. BusyIsWaiting
  BY DEF SettingsInv
<1> SUFFICES ASSUME NEW s \in Signed!Section
             PROVE  spage'.busy[s] <=> \E e \in scalls' : e.who = s
  BY DEF BusyIsWaiting
<1>2. (\E e \in scalls' : e.who = s)
        <=> (s = c.who /\ whats # {}) \/ \E d \in scalls \ {c} : d.who = s
  BY DEF Replaced, Kept
<1>3. spage.busy[s] <=> s = c.who \/ \E d \in scalls \ {c} : d.who = s
  BY <1>1 DEF BusyIsWaiting
<1> QED
  BY <1>2, <1>3 DEF FreesUnlessMore

\* An answer is taken: the page shows what it says, and has the account loaded
\* after a change; the doubt ends with an account that nothing crossed.
LEMMA SettingsTaken ==
    ASSUME SettingsInv, spage.at = "settings", NEW c \in scalls, c.out # "pending",
           NEW whats \in SUBSET {"load", "probe", "list_sessions", "sign_out"},
           Replaced(scalls', scalls, c, whats),
           \A w \in whats : MadeBy(NextCall(c, w)) /\ c.who # "mount",
           row' = row, smade' = smade, doubt' = Signed!Doubtful(c), spage' \in Signed!Page,
           spage'.at = "settings" =>
               FreesUnlessMore(c, whats) /\ ShowsAnswer(c) /\ c.what # "sign_out",
           c.what = "delete" /\ c.out = "ok" => "sign_out" \in whats,
           c.what \in {"save", "notify", "enable", "disable"} /\ c.out = "ok" => "load" \in whats
    PROVE  SettingsInv'
<1>1. /\ SettingsTyped /\ Apart(scalls) /\ \A d \in scalls : SettingsCallIsKnown(d)
      /\ BusyIsWaiting /\ GoneIsTold /\ AccountIsShown /\ CodesAreShown
  BY DEF SettingsInv
<1>2. /\ scalls' \subseteq SettingsCall /\ Apart(scalls')
      /\ \A d \in scalls \ {c} : \E e \in scalls' : Kept(e, d)
      /\ \A w \in whats : \E e \in scalls' : e.who = c.who /\ e.what = w /\ e.out = "pending"
  BY DEF Replaced
<1>3. SettingsCallIsKnown(c) /\ c \in SettingsCall
  BY <1>1 DEF SettingsTyped
<1>4. c.out = "ok" \/ c.out = "refused"
  BY <1>3 DEF SettingsCall
<1>5. /\ doubt' \subseteq {"account", "codes"}
      /\ c.crossed => "account" \in doubt'
      /\ "account" \in doubt /\ "account" \notin doubt' =>
            c.what = "load" /\ c.out = "ok" /\ ~c.crossed
      /\ "codes" \in doubt /\ "codes" \notin doubt' =>
            c.what = "enable" /\ c.out = "ok" /\ ~c.crossed
  <2>1. doubt \subseteq {"account", "codes"}
    BY <1>1 DEF SettingsTyped
  <2> QED
    BY <2>1 DEF Signed!Doubtful, Signed!Settled
<1>6. SettingsTyped'
  BY <1>1, <1>2, <1>5 DEF SettingsTyped
<1> SUFFICES ASSUME spage'.at = "settings"
             PROVE  /\ \A e \in scalls' : SettingsCallIsKnown(e)'
                    /\ BusyIsWaiting' /\ GoneIsTold' /\ AccountIsShown' /\ CodesAreShown'
  BY <1>2, <1>6 DEF SettingsInv, Apart
<1>7. \A e \in scalls' : SettingsCallIsKnown(e)'
  BY <1>5, ReplacedAreKnown DEF ShowsAnswer
<1>8. BusyIsWaiting'
  BY ReplacedAreWaitedFor
<1>9. GoneIsTold'
  <2> SUFFICES ASSUME row.gone, "account" \notin doubt'
               PROVE  \E e \in scalls' : (e.what = "delete" /\ e.out = "ok") \/ e.what = "sign_out"
    BY DEF GoneIsTold
  <2>1. "account" \notin doubt
    BY <1>3, <1>5 DEF SettingsCallIsKnown
  <2>2. PICK d \in scalls : (d.what = "delete" /\ d.out = "ok") \/ d.what = "sign_out"
    BY <1>1, <2>1 DEF GoneIsTold
  <2> QED
    BY <1>2, <2>2 DEF Kept
<1>10. AccountIsShown'
  <2> SUFFICES ASSUME spage'.loaded, "account" \notin doubt', spage'.account # Signed!Serialize(row)
               PROVE  \E e \in scalls' : e.crossed \/ Brings(e)
    BY DEF AccountIsShown, Brings
  <2>1. ~(c.what = "load" /\ c.out = "ok")
    BY <1>3, <1>5 DEF SettingsCallIsKnown, ShowsAnswer
  <2>2. PICK d \in scalls : d.crossed \/ Brings(d)
    BY <1>1, <1>5, <2>1 DEF AccountIsShown, ShowsAnswer
  <2>3. CASE d # c
    BY <1>2, <2>2, <2>3 DEF Kept, Brings
  <2>4. CASE d = c
    <3>1. c.what \in {"save", "notify", "enable", "disable"} /\ c.out = "ok"
      BY <1>4, <1>5, <2>1, <2>2, <2>4 DEF Brings
    <3> QED
      BY <1>2, <3>1 DEF Brings
  <2> QED
    BY <2>3, <2>4
<1>11. CodesAreShown'
  <2> SUFFICES ASSUME "codes" \notin doubt', row.totp = "on", spage'.codes # 0,
                      spage'.codes # row.codes
               PROVE  \E e \in scalls' : e.what = "enable" /\ e.out = "ok"
    BY DEF CodesAreShown
  <2>1. ~(c.what = "enable" /\ c.out = "ok")
    BY <1>3, <1>5 DEF SettingsCallIsKnown, ShowsAnswer
  <2>2. PICK d \in scalls : d.what = "enable" /\ d.out = "ok"
    BY <1>1, <1>5, <2>1 DEF CodesAreShown, ShowsAnswer
  <2> QED
    BY <1>2, <2>1, <2>2 DEF Kept
<1> QED
  BY <1>7, <1>8, <1>9, <1>10, <1>11

\* A call is lost: the page goes on as if nothing had come of it.
LEMMA SettingsLost ==
    ASSUME SettingsInv, spage.at = "settings", NEW c \in scalls, scalls' = scalls \ {c},
           row' = row, smade' \in [calls : 0..MaxCalls, lost : Nat], smade'.calls = smade.calls,
           doubt' = doubt \cup {"account"} \cup (IF c.what = "enable" THEN {"codes"} ELSE {}),
           spage' \in Signed!Page,
           spage'.at = "settings" =>
               /\ FreesUnlessMore(c, {})
               /\ spage'.loaded = spage.loaded /\ spage'.account = spage.account
               /\ spage'.codes = spage.codes
    PROVE  SettingsInv'
<1>1. /\ SettingsTyped /\ Apart(scalls) /\ CodesAreShown
  BY DEF SettingsInv
<1>2. Replaced(scalls', scalls, c, {})
  BY <1>1, NoneFollows DEF SettingsTyped
<1>3. "account" \in doubt' /\ (c.what = "enable" => "codes" \in doubt')
  OBVIOUS
<1>4. SettingsTyped'
  BY <1>1 DEF SettingsTyped
<1> SUFFICES ASSUME spage'.at = "settings"
             PROVE  /\ \A e \in scalls' : SettingsCallIsKnown(e)'
                    /\ BusyIsWaiting' /\ GoneIsTold' /\ AccountIsShown' /\ CodesAreShown'
  BY <1>2, <1>4 DEF SettingsInv, Replaced, Apart
<1>5. \A e \in scalls' : SettingsCallIsKnown(e)'
  <2>1. smade'.calls = smade.calls /\ spage'.loaded = spage.loaded
    OBVIOUS
  <2>2. /\ {} \in SUBSET {"load", "probe", "list_sessions", "sign_out"}
        /\ \A w \in {} : MadeBy(NextCall(c, w)) /\ c.who # "mount"
    OBVIOUS
  <2> QED
    BY <1>2, <2>1, <2>2, ReplacedAreKnown
<1>6. BusyIsWaiting'
  BY <1>2, ReplacedAreWaitedFor
<1>7. GoneIsTold' /\ AccountIsShown'
  BY <1>3 DEF GoneIsTold, AccountIsShown
<1>8. CodesAreShown'
  <2>1. CASE c.what = "enable"
    BY <1>3, <2>1 DEF CodesAreShown
  <2>2. CASE c.what # "enable"
    BY <1>1, <2>2 DEF CodesAreShown
  <2> QED
    BY <2>1, <2>2
<1> QED
  BY <1>5, <1>6, <1>7, <1>8

\* The finally of a section's handler: the section is busy with what is left.
LEMMA AfterFrees ==
    ASSUME scalls \in SUBSET SettingsCall, Apart(scalls), NEW c \in scalls,
           NEW d, d = c \/ d = Signed!Lost(c),
           NEW p \in Signed!Page, p.busy = spage.busy
    PROVE  LET q == Signed!After(p, d) IN
           /\ q \in Signed!Page /\ q.at = p.at /\ q.loaded = p.loaded
           /\ q.account = p.account /\ q.codes = p.codes
           /\ \A s \in Signed!Section :
                q.busy[s] <=> IF s = c.who THEN \E e \in scalls \ {c} : e.who = s
                              ELSE spage.busy[s]
<1> DEFINE more == Signed!InFlight(Signed!Without(scalls, d), {d.who}) # {}
           busy == [p.busy EXCEPT ![d.who] = more]
           q == Signed!After(p, d)
<1>1. d.who = c.who /\ Signed!Without(scalls, d) = scalls \ {c}
  BY WithoutOne DEF Signed!Lost, SettingsCall
<1>2. more \in BOOLEAN /\ (more <=> \E e \in scalls \ {c} : e.who = c.who)
  BY <1>1 DEF Signed!InFlight
<1>3. p.busy \in [Signed!Section -> BOOLEAN]
  BY DEF Signed!Page
<1>4. CASE c.who \in Signed!Section
  <2>1. q = [p EXCEPT !.busy = busy]
    BY <1>1, <1>4 DEF Signed!After
  <2> HIDE DEF q, more
  <2>2. /\ busy \in [Signed!Section -> BOOLEAN]
        /\ \A s \in Signed!Section : busy[s] = IF s = c.who THEN more ELSE p.busy[s]
    BY <1>1, <1>2, <1>3, <1>4
  <2> HIDE DEF busy
  <2>3. /\ q \in Signed!Page /\ q.at = p.at /\ q.loaded = p.loaded
        /\ q.account = p.account /\ q.codes = p.codes /\ q.busy = busy
    BY <2>1, <2>2 DEF Signed!Page
  <2>4. \A s \in Signed!Section :
            q.busy[s] <=> IF s = c.who THEN \E e \in scalls \ {c} : e.who = s ELSE spage.busy[s]
    BY <1>2, <2>2, <2>3
  <2> QED
    BY <2>3, <2>4 DEF q
<1>5. CASE c.who \notin Signed!Section
  <2>1. q = p
    BY <1>1, <1>5 DEF Signed!After
  <2> QED
    BY <1>5, <2>1
<1> QED
  BY <1>4, <1>5

\* The answer of a call after which its handler is over, or its failure.
LEMMA HandlerEnds ==
    ASSUME SettingsInv, spage.at = "settings", NEW c \in scalls,
           NEW d, d = c \/ d = Signed!Lost(c),
           NEW p \in Signed!Page, p.busy = spage.busy,
           spage' = Signed!After(p, d) \/ (spage' = p /\ p.at = "left")
    PROVE  /\ spage' \in Signed!Page /\ spage'.at = p.at /\ spage'.loaded = p.loaded
           /\ spage'.account = p.account /\ spage'.codes = p.codes
           /\ p.at = "settings" => FreesUnlessMore(c, {})
<1>1. scalls \in SUBSET SettingsCall /\ Apart(scalls)
  BY DEF SettingsInv, SettingsTyped
<1>2. CASE spage' = p /\ p.at = "left"
  BY <1>2
<1>3. CASE spage' = Signed!After(p, d)
  BY <1>1, <1>3, AfterFrees DEF FreesUnlessMore
<1> QED
  BY <1>2, <1>3

\* What the answers that end a handler make of the page, but for its flags.
EndsWith(d, p) ==
    /\ p \in Signed!Page /\ p.busy = spage.busy
    /\ spage' = Signed!After(p, d) \/ (spage' = p /\ p.at = "left")
    /\ IF d.what = "load" /\ d.out = "ok"
       THEN p.loaded /\ p.account = d.body.account
       ELSE p.loaded = spage.loaded /\ p.account = spage.account
    /\ p.codes = spage.codes
    /\ d.what = "sign_out" => p.at = "left"
    /\ d.out = "ok" => d.what \notin {"save", "notify", "enable", "disable", "delete"}

\* These answers free their section, and settle what they answer; nothing follows.
LEMMA AnswersEnd ==
    ASSUME SettingsInv, spage.at = "settings", NEW c \in scalls,
           NEW d, d = c \/ d = Signed!Lost(c),
           \/ Signed!LoadAnswer(d) \/ Signed!ProbeAnswer(d) \/ Signed!SessionsAnswer(d)
           \/ Signed!FailedAnswer(d) \/ Signed!SetupAnswer(d) \/ Signed!PasswordAnswer(d)
           \/ Signed!SignedOutAnswer(d)
    PROVE  scalls' = scalls \ {c} /\ \E p : EndsWith(d, p)
<1>1. scalls \in SUBSET SettingsCall /\ Apart(scalls) /\ spage \in Signed!Page /\ c \in SettingsCall
  BY DEF SettingsInv, SettingsTyped
<1>2. d.what = c.what /\ d.body \in Signed!Body /\ d.body.account \in Signed!Account
  BY <1>1 DEF Signed!Lost, SettingsCall, Signed!Body
<1>3. Signed!Over(d) => scalls' = scalls \ {c}
  BY <1>1, WithoutOne DEF Signed!Over
<1>4. CASE Signed!LoadAnswer(d)
  <2>1. Signed!Shown(d) \in Signed!Page
    <3>1. d.body.account.name \in 0..1
      BY <1>2 DEF Signed!Account
    <3> QED
      BY <1>1, <1>2, <3>1 DEF Signed!Shown, Signed!Page
  <2>2. /\ Signed!Shown(d).loaded /\ Signed!Shown(d).account = d.body.account
        /\ Signed!Shown(d).codes = spage.codes /\ Signed!Shown(d).busy = spage.busy
    BY <1>1 DEF Signed!Shown, Signed!Page
  <2>3. CASE d.out = "ok"
    <3>1. EndsWith(d, Signed!Shown(d))
      BY <1>4, <2>1, <2>2, <2>3 DEF Signed!LoadAnswer, EndsWith
    <3> QED
      BY <1>3, <1>4, <3>1 DEF Signed!LoadAnswer
  <2>4. CASE d.out # "ok"
    <3>1. EndsWith(d, spage)
      BY <1>1, <1>4, <2>4 DEF Signed!LoadAnswer, EndsWith
    <3> QED
      BY <1>3, <1>4, <3>1 DEF Signed!LoadAnswer
  <2> QED
    BY <2>3, <2>4
<1>5. CASE Signed!ProbeAnswer(d)
  <2>1. CASE d.out = "ok"
    <3>1. EndsWith(d, spage)
      BY <1>1, <1>5, <2>1 DEF Signed!ProbeAnswer, EndsWith
    <3> QED
      BY <1>3, <1>5, <3>1 DEF Signed!ProbeAnswer
  <2>2. CASE d.out # "ok"
    <3> DEFINE p == [spage EXCEPT !.at = "left"]
    <3>1. /\ p \in Signed!Page /\ p.at = "left" /\ p.busy = spage.busy /\ p.loaded = spage.loaded
          /\ p.account = spage.account /\ p.codes = spage.codes
      BY <1>1 DEF Signed!Page
    <3>2. spage' = p
      BY <1>5, <2>2 DEF Signed!ProbeAnswer
    <3> HIDE DEF p
    <3>3. EndsWith(d, p)
      BY <1>5, <2>2, <3>1, <3>2 DEF Signed!ProbeAnswer, EndsWith
    <3> QED
      BY <1>3, <1>5, <3>3 DEF Signed!ProbeAnswer
  <2> QED
    BY <2>1, <2>2
<1>6. CASE Signed!SessionsAnswer(d)
  <2> DEFINE sessions == IF d.out # "ok" THEN "none" ELSE IF d.body.others THEN "more" ELSE "one"
             p == [spage EXCEPT !.sessions = sessions]
  <2>1. sessions \in {"none", "one", "more"}
    OBVIOUS
  <2> HIDE DEF sessions
  <2>2. /\ p \in Signed!Page /\ p.busy = spage.busy /\ p.loaded = spage.loaded
        /\ p.account = spage.account /\ p.codes = spage.codes
    BY <1>1, <2>1 DEF Signed!Page
  <2>3. spage' = Signed!After(p, d)
    BY <1>6 DEF Signed!SessionsAnswer, sessions
  <2> HIDE DEF p
  <2>4. EndsWith(d, p)
    BY <1>6, <2>2, <2>3 DEF Signed!SessionsAnswer, EndsWith
  <2> QED
    BY <1>3, <1>6, <2>4 DEF Signed!SessionsAnswer
<1>7. CASE Signed!FailedAnswer(d) \/ Signed!PasswordAnswer(d)
  <2>1. EndsWith(d, spage)
    BY <1>1, <1>7 DEF Signed!FailedAnswer, Signed!Changes, Signed!PasswordAnswer, EndsWith
  <2> QED
    BY <1>3, <1>7, <2>1 DEF Signed!FailedAnswer, Signed!PasswordAnswer
<1>8. CASE Signed!SetupAnswer(d)
  <2> DEFINE p == [spage EXCEPT !.secret = TRUE]
  <2>1. /\ p \in Signed!Page /\ p.busy = spage.busy /\ p.loaded = spage.loaded
        /\ p.account = spage.account /\ p.codes = spage.codes
    BY <1>1 DEF Signed!Page
  <2>2. spage' = Signed!After(p, d)
    BY <1>8 DEF Signed!SetupAnswer
  <2> HIDE DEF p
  <2>3. EndsWith(d, p)
    BY <1>8, <2>1, <2>2 DEF Signed!SetupAnswer, EndsWith
  <2> QED
    BY <1>3, <1>8, <2>3 DEF Signed!SetupAnswer
<1>9. CASE Signed!SignedOutAnswer(d)
  <2> DEFINE p == [spage EXCEPT !.at = "left"]
  <2>1. /\ p \in Signed!Page /\ p.at = "left" /\ p.busy = spage.busy /\ p.loaded = spage.loaded
        /\ p.account = spage.account /\ p.codes = spage.codes
    BY <1>1 DEF Signed!Page
  <2>2. spage' = p
    BY <1>9 DEF Signed!SignedOutAnswer
  <2> HIDE DEF p
  <2>3. EndsWith(d, p)
    BY <1>9, <2>1, <2>2 DEF Signed!SignedOutAnswer, EndsWith
  <2> QED
    BY <1>3, <1>9, <2>3 DEF Signed!SignedOutAnswer
<1> QED
  BY <1>4, <1>5, <1>6, <1>7, <1>8, <1>9

\* The page takes an answer.
LEMMA SettingsTakes ==
    ASSUME SettingsInv, NEW c \in scalls, Signed!Take(c)
    PROVE  SettingsInv'
<1>1. /\ spage.at = "settings" /\ c.out # "pending" /\ Signed!Handle(c)
      /\ doubt' = Signed!Doubtful(c) /\ row' = row /\ smade' = smade
  BY DEF Signed!Take
<1>2. /\ scalls \in SUBSET SettingsCall /\ Apart(scalls) /\ spage \in Signed!Page
      /\ c \in SettingsCall /\ SettingsCallIsKnown(c)
  BY <1>1 DEF SettingsInv, SettingsTyped
<1>3. CASE \/ Signed!LoadAnswer(c) \/ Signed!ProbeAnswer(c) \/ Signed!SessionsAnswer(c)
           \/ Signed!FailedAnswer(c) \/ Signed!SetupAnswer(c) \/ Signed!PasswordAnswer(c)
           \/ Signed!SignedOutAnswer(c)
  <2>1. scalls' = scalls \ {c} /\ \E p : EndsWith(c, p)
    BY <1>1, <1>3, AnswersEnd
  <2>2. PICK p : EndsWith(c, p)
    BY <2>1
  <2>3. /\ spage' \in Signed!Page /\ spage'.at = p.at /\ spage'.loaded = p.loaded
        /\ spage'.account = p.account /\ spage'.codes = p.codes
        /\ p.at = "settings" => FreesUnlessMore(c, {})
    BY <1>1, <2>2, HandlerEnds DEF EndsWith
  <2>4. Replaced(scalls', scalls, c, {})
    BY <1>2, <2>1, NoneFollows
  <2>5. /\ spage'.at = "settings" =>
                FreesUnlessMore(c, {}) /\ ShowsAnswer(c) /\ c.what # "sign_out"
        /\ c.out = "ok" => c.what \notin {"save", "notify", "enable", "disable", "delete"}
    BY <2>2, <2>3 DEF EndsWith, ShowsAnswer
  <2>6. /\ {} \in SUBSET {"load", "probe", "list_sessions", "sign_out"}
        /\ \A w \in {} : MadeBy(NextCall(c, w)) /\ c.who # "mount"
    OBVIOUS
  <2> QED
    BY <1>1, <2>3, <2>4, <2>5, <2>6, SettingsTaken
<1>4. ASSUME NEW whats \in SUBSET {"load", "probe", "list_sessions", "sign_out"}, whats # {},
             Replaced(scalls', scalls, c, whats), c.out = "ok",
             c.what \in {"save", "notify", "enable", "disable", "revoke_others", "delete"},
             \A w \in whats : MadeBy(NextCall(c, w)),
             c.what = "delete" => "sign_out" \in whats,
             c.what \in {"save", "notify", "enable", "disable"} => "load" \in whats,
             spage' = IF c.what = "enable"
                      THEN [spage EXCEPT !.codes = c.body.codes, !.secret = FALSE] ELSE spage
      PROVE  SettingsInv'
  <2>1. c.who # "mount"
    BY <1>2, <1>4 DEF SettingsCallIsKnown, MadeBy
  <2>2. /\ spage' \in Signed!Page /\ spage'.busy = spage.busy /\ spage'.loaded = spage.loaded
        /\ spage'.account = spage.account
        /\ spage'.codes = IF c.what = "enable" THEN c.body.codes ELSE spage.codes
    <3>1. c.body.codes \in 0..MaxCalls
      BY <1>2 DEF SettingsCall, Signed!Body
    <3> QED
      BY <1>2, <1>4, <3>1 DEF Signed!Page
  <2>3. FreesUnlessMore(c, whats) /\ ShowsAnswer(c) /\ c.what # "sign_out"
    BY <1>4, <2>2 DEF FreesUnlessMore, ShowsAnswer
  <2> QED
    BY <1>1, <1>4, <2>1, <2>2, <2>3, SettingsTaken
<1>5. ASSUME NEW what \in {"load", "probe", "list_sessions", "sign_out"}
      PROVE  NextCall(c, what).who = c.who /\ NextCall(c, what).what = what
  BY <1>2, NextCallTyped
<1>6. CASE Signed!SaveAnswer(c)
  <2>1. c.what = "save" /\ c.out = "ok" /\ spage' = spage
    BY <1>6 DEF Signed!SaveAnswer
  <2>2. Replaced(scalls', scalls, c, {"load", "probe"})
    <3>1. scalls' = Signed!Send(Signed!Send(scalls \ {c}, NextCall(c, "load"), Signed!Section),
                                NextCall(c, "probe"), Signed!Section)
      BY <1>2, <1>6, WithoutOne DEF Signed!SaveAnswer, NextCall
    <3> QED
      BY <1>2, <2>1, <3>1, TwoFollow
  <2>3. \A w \in {"load", "probe"} : MadeBy(NextCall(c, w))
    BY <1>2, <1>5, <2>1 DEF SettingsCallIsKnown, MadeBy
  <2> QED
    BY <1>4, <2>1, <2>2, <2>3
<1>7. ASSUME NEW what \in {"load", "list_sessions", "sign_out"}, Signed!Follow(c, what),
             c.what \notin {"load", "probe", "list_sessions"}
      PROVE  Replaced(scalls', scalls, c, {what})
  <2>1. scalls' = Signed!Send(scalls \ {c}, NextCall(c, what), Signed!Section)
    BY <1>2, <1>7, WithoutOne DEF Signed!Follow, NextCall
  <2> QED
    BY <1>2, <1>7, <2>1, OneCallFollows
<1>8. CASE Signed!ChangeAnswer(c)
  <2>1. /\ c.what \in {"notify", "enable", "disable"} /\ c.out = "ok" /\ Signed!Follow(c, "load")
        /\ spage' = IF c.what = "enable"
                    THEN [spage EXCEPT !.codes = c.body.codes, !.secret = FALSE] ELSE spage
    BY <1>8 DEF Signed!ChangeAnswer
  <2>2. MadeBy(NextCall(c, "load"))
    BY <1>2, <1>5, <2>1 DEF SettingsCallIsKnown, MadeBy
  <2> QED
    BY <1>4, <1>7, <2>1, <2>2
<1>9. CASE Signed!RevokedAnswer(c)
  <2>1. /\ c.what = "revoke_others" /\ c.out = "ok" /\ Signed!Follow(c, "list_sessions")
        /\ spage' = spage
    BY <1>9 DEF Signed!RevokedAnswer
  <2>2. MadeBy(NextCall(c, "list_sessions"))
    BY <1>2, <1>5, <2>1 DEF SettingsCallIsKnown, MadeBy
  <2> QED
    BY <1>4, <1>7, <2>1, <2>2
<1>10. CASE Signed!DeletedAnswer(c)
  <2>1. /\ c.what = "delete" /\ c.out = "ok" /\ Signed!Follow(c, "sign_out") /\ spage' = spage
    BY <1>10 DEF Signed!DeletedAnswer
  <2>2. MadeBy(NextCall(c, "sign_out"))
    BY <1>2, <1>5, <2>1 DEF SettingsCallIsKnown, MadeBy
  <2> QED
    BY <1>4, <1>7, <2>1, <2>2
<1> QED
  BY <1>1, <1>3, <1>6, <1>8, <1>9, <1>10 DEF Signed!Handle

\* A call of the page fails on the way.
LEMMA SettingsDrops ==
    ASSUME SettingsInv, NEW c \in scalls, Signed!Drop(c)
    PROVE  SettingsInv'
<1> DEFINE d == Signed!Lost(c)
<1>1. /\ spage.at = "settings" /\ row' = row
      /\ smade' = [smade EXCEPT !["lost"] = @ + 1]
      /\ \/ Signed!LoadAnswer(d) \/ Signed!ProbeAnswer(d) \/ Signed!SessionsAnswer(d)
         \/ Signed!FailedAnswer(d) \/ Signed!SignedOutAnswer(d)
      /\ doubt' = doubt \cup {"account"} \cup (IF c.what = "enable" THEN {"codes"} ELSE {})
  BY DEF Signed!Drop, Signed!Unknown
<1>2. smade \in [calls : 0..MaxCalls, lost : Nat] /\ c \in SettingsCall
  BY DEF SettingsInv, SettingsTyped
<1>3. smade' \in [calls : 0..MaxCalls, lost : Nat] /\ smade'.calls = smade.calls
  <2>1. smade' = [smade EXCEPT !.lost = smade.lost + 1]
    BY <1>1
  <2> QED
    BY <1>2, <2>1
<1>4. d.out # "ok"
  BY <1>2 DEF Signed!Lost, SettingsCall
<1>5. scalls' = scalls \ {c} /\ \E p : EndsWith(d, p)
  BY <1>1, AnswersEnd
<1>6. PICK p : EndsWith(d, p)
  BY <1>5
<1>7. /\ spage' \in Signed!Page /\ spage'.at = p.at /\ spage'.loaded = p.loaded
      /\ spage'.account = p.account /\ spage'.codes = p.codes
      /\ p.at = "settings" => FreesUnlessMore(c, {})
  BY <1>1, <1>6, HandlerEnds DEF EndsWith
<1>8. p.loaded = spage.loaded /\ p.account = spage.account /\ p.codes = spage.codes
  BY <1>4, <1>6 DEF EndsWith
<1> HIDE DEF d
<1>9. spage'.at = "settings" =>
        /\ FreesUnlessMore(c, {})
        /\ spage'.loaded = spage.loaded /\ spage'.account = spage.account
        /\ spage'.codes = spage.codes
  <2>1. p.at = "settings" \/ spage'.at # "settings"
    BY <1>7
  <2> QED
    BY <1>7, <1>8, <2>1
<1> QED
  BY <1>1, <1>3, <1>5, <1>7, <1>9, SettingsLost

-----------------------------------------------------------------------------
(* Every step of the settings page. *)

\* An edit or a cancelled setup: nothing that the server is asked about.
LEMMA SettingsEdited ==
    ASSUME SettingsInv, spage.at = "settings", UNCHANGED <<row, scalls, smade, doubt>>,
           spage' \in Signed!Page, spage'.at = spage.at, spage'.loaded = spage.loaded,
           spage'.account = spage.account, spage'.codes = spage.codes, spage'.busy = spage.busy
    PROVE  SettingsInv'
<1>1. SettingsTyped'
  BY DEF SettingsInv, SettingsTyped
<1>2. Apart(scalls') /\ \A e \in scalls' : SettingsCallIsKnown(e)'
  BY DEF SettingsInv, Apart, SettingsCallIsKnown, MadeBy
<1>3. BusyIsWaiting' /\ GoneIsTold'
  BY DEF SettingsInv, BusyIsWaiting, GoneIsTold
<1>4. AccountIsShown' /\ CodesAreShown'
  BY DEF SettingsInv, AccountIsShown, CodesAreShown, Brings
<1> QED
  BY <1>1, <1>2, <1>3, <1>4 DEF SettingsInv, Apart

\* What the owner does on the settings page.
LEMMA OwnersStep ==
    ASSUME SettingsInv, Signed!Owner
    PROVE  SettingsInv'
<1> DEFINE arg(ok) == [Signed!NoArg EXCEPT !.ok = ok]
           form == [Signed!NoArg EXCEPT !.value = spage.form]
           toggle == [Signed!NoArg EXCEPT !.value = 1 - spage.account.notify]
<1>1. spage \in Signed!Page
  BY DEF SettingsInv, SettingsTyped
<1>2. {"profile", "notify", "totp", "sessions", "password", "data"} = Signed!Section
  BY DEF Signed!Section
<1>3. spage.form \in 0..1 /\ spage.account.notify \in 0..1 /\ 1 - spage.account.notify \in 0..1
  BY <1>1 DEF Signed!Page, Signed!Account
<1>4. /\ form \in [value : 0..1, ok : BOOLEAN] /\ toggle \in [value : 0..1, ok : BOOLEAN]
      /\ Signed!NoArg \in [value : 0..1, ok : BOOLEAN]
      /\ \A ok \in BOOLEAN : arg(ok) \in [value : 0..1, ok : BOOLEAN]
  <2>1. Signed!NoArg \in [value : 0..1, ok : BOOLEAN]
    BY DEF Signed!NoArg
  <2>2. form \in [value : 0..1, ok : BOOLEAN] /\ toggle \in [value : 0..1, ok : BOOLEAN]
    BY <1>3, <2>1
  <2>3. ASSUME NEW ok \in BOOLEAN
        PROVE  arg(ok) \in [value : 0..1, ok : BOOLEAN]
    BY <2>1
  <2> QED
    BY <2>1, <2>2, <2>3
<1>5. CASE Signed!EditName
  <2>1. spage.at = "settings" /\ spage' = [spage EXCEPT !.form = 1 - spage.form]
        /\ UNCHANGED <<row, scalls, smade, doubt>>
    BY <1>5 DEF Signed!EditName
  <2>2. 1 - spage.form \in 0..1
    BY <1>3
  <2>3. /\ spage' \in Signed!Page /\ spage'.at = spage.at /\ spage'.loaded = spage.loaded
        /\ spage'.account = spage.account /\ spage'.codes = spage.codes
        /\ spage'.busy = spage.busy
    BY <1>1, <2>1, <2>2 DEF Signed!Page
  <2> QED
    BY <2>1, <2>3, SettingsEdited
<1>6. CASE Signed!CancelSetup
  <2>1. spage.at = "settings" /\ spage' = [spage EXCEPT !.secret = FALSE]
        /\ UNCHANGED <<row, scalls, smade, doubt>>
    BY <1>6 DEF Signed!CancelSetup, Signed!Idle
  <2>2. /\ spage' \in Signed!Page /\ spage'.at = spage.at /\ spage'.loaded = spage.loaded
        /\ spage'.account = spage.account /\ spage'.codes = spage.codes
        /\ spage'.busy = spage.busy
    BY <1>1, <2>1 DEF Signed!Page
  <2> QED
    BY <2>1, <2>2, SettingsEdited
<1>7. CASE Signed!SaveProfile
  <2>1. Signed!Idle("profile") /\ Signed!Busy("profile") /\ Signed!Ask("profile", "save", form)
    BY <1>7 DEF Signed!SaveProfile
  <2> QED
    BY <1>2, <1>4, <2>1, SettingsAsked DEF Changes
<1>8. CASE Signed!ToggleNotify
  <2>1. Signed!Idle("notify") /\ Signed!Busy("notify") /\ Signed!Ask("notify", "notify", toggle)
    BY <1>8 DEF Signed!ToggleNotify
  <2> QED
    BY <1>2, <1>4, <2>1, SettingsAsked DEF Changes
<1>9. CASE Signed!StartSetup
  <2>1. Signed!Idle("totp") /\ Signed!Busy("totp") /\ Signed!Ask("totp", "setup", Signed!NoArg)
    BY <1>9 DEF Signed!StartSetup
  <2> QED
    BY <1>2, <1>4, <2>1, SettingsAsked DEF Changes
<1>10. CASE Signed!Enable
  <2>1. PICK ok \in BOOLEAN :
            Signed!Idle("totp") /\ Signed!Busy("totp") /\ Signed!Ask("totp", "enable", arg(ok))
    BY <1>10 DEF Signed!Enable
  <2>2. arg(ok) \in [value : 0..1, ok : BOOLEAN]
    BY <1>4
  <2> HIDE DEF arg
  <2> QED
    BY <1>2, <2>1, <2>2, SettingsAsked DEF Changes
<1>11. CASE Signed!Disable
  <2>1. PICK ok \in BOOLEAN :
            Signed!Idle("totp") /\ Signed!Busy("totp") /\ Signed!Ask("totp", "disable", arg(ok))
    BY <1>11 DEF Signed!Disable
  <2>2. arg(ok) \in [value : 0..1, ok : BOOLEAN]
    BY <1>4
  <2> HIDE DEF arg
  <2> QED
    BY <1>2, <2>1, <2>2, SettingsAsked DEF Changes
<1>12. CASE Signed!RevokeOthers
  <2>1. Signed!Idle("sessions") /\ Signed!Busy("sessions") /\ Signed!Ask("sessions", "revoke_others", Signed!NoArg)
    BY <1>12 DEF Signed!RevokeOthers
  <2> QED
    BY <1>2, <1>4, <2>1, SettingsAsked DEF Changes
<1>13. CASE Signed!ChangePassword
  <2>1. PICK ok \in BOOLEAN :
            Signed!Idle("password") /\ Signed!Busy("password") /\ Signed!Ask("password", "password", arg(ok))
    BY <1>13 DEF Signed!ChangePassword
  <2>2. arg(ok) \in [value : 0..1, ok : BOOLEAN]
    BY <1>4
  <2> HIDE DEF arg
  <2> QED
    BY <1>2, <2>1, <2>2, SettingsAsked DEF Changes
<1>14. CASE Signed!DeleteAccount
  <2>1. PICK ok \in BOOLEAN :
            Signed!Idle("data") /\ Signed!Busy("data") /\ Signed!Ask("data", "delete", arg(ok))
    BY <1>14 DEF Signed!DeleteAccount
  <2>2. arg(ok) \in [value : 0..1, ok : BOOLEAN]
    BY <1>4
  <2> HIDE DEF arg
  <2> QED
    BY <1>2, <2>1, <2>2, SettingsAsked DEF Changes
<1> QED
  BY <1>5, <1>6, <1>7, <1>8, <1>9, <1>10, <1>11, <1>12, <1>13, <1>14 DEF Signed!Owner

\* The page when it is opened: the account and the sessions are asked for.
LEMMA SettingsInit == Signed!Init => SettingsInv /\ SettingsLate
<1> SUFFICES ASSUME Signed!Init
             PROVE  SettingsInv /\ SettingsLate
  OBVIOUS
<1> DEFINE n(what) == Signed!Sent(0, "mount", what, Signed!NoArg, Signed!Nothing)
<1>1. PICK totp \in {"off", "on"} :
        row = [name |-> 0, notify |-> 0, totp |-> totp, codes |-> 0, others |-> TRUE, gone |-> FALSE]
  BY DEF Signed!Init
<1>2. row \in Signed!Row /\ row.codes = 0 /\ ~row.gone
  BY <1>1, AccountsAssumption DEF Signed!Row
<1>3. /\ scalls = {n("load"), n("list_sessions")}
      /\ smade = [calls |-> 0, lost |-> 0] /\ doubt = {}
      /\ spage = [at |-> "settings", loaded |-> FALSE, account |-> Signed!Serialize(row),
                  form |-> 0, busy |-> [s \in Signed!Section |-> FALSE], secret |-> FALSE,
                  codes |-> 0, sessions |-> "none"]
  BY DEF Signed!Init
<1>4. /\ spage \in Signed!Page /\ ~spage.loaded /\ spage.codes = 0
      /\ \A s \in Signed!Section : spage.busy[s] = FALSE
  <2>1. Signed!Serialize(row) \in Signed!Account /\ 0 \in 0..MaxCalls
    BY <1>2, SerializedAccount, AccountsAssumption
  <2> QED
    BY <1>3, <2>1 DEF Signed!Page
<1>5. smade \in [calls : 0..MaxCalls, lost : Nat] /\ smade.calls = 0
  BY <1>3, AccountsAssumption
<1>6. ASSUME NEW what \in {"load", "list_sessions"}
      PROVE  /\ n(what) \in SettingsCall /\ n(what).id = 0 /\ n(what).who = "mount"
             /\ n(what).what = what /\ n(what).out = "pending" /\ n(what).crossed = FALSE
  <2>1. Signed!Nothing \in Signed!Body
    BY AccountsAssumption DEF Signed!Nothing, Signed!Body, Signed!Account
  <2>2. Signed!NoArg \in [value : 0..1, ok : BOOLEAN]
    BY DEF Signed!NoArg
  <2> QED
    BY <2>1, <2>2 DEF Signed!Sent, SettingsCall
<1> HIDE DEF n
<1>7. \A c \in scalls :
        /\ c \in SettingsCall /\ c.id = 0 /\ c.who = "mount" /\ c.out = "pending"
        /\ c.what \in {"load", "list_sessions"} /\ c = n(c.what)
  BY <1>3, <1>6
<1>8. SettingsTyped
  BY <1>2, <1>3, <1>4, <1>5, <1>7 DEF SettingsTyped
<1>9. Apart(scalls)
  <2>1. "mount" \notin Signed!Section
    BY DEF Signed!Section
  <2> QED
    BY <1>7, <2>1 DEF Apart
<1>10. \A c \in scalls : SettingsCallIsKnown(c)
  BY <1>4, <1>5, <1>7 DEF SettingsCallIsKnown, MadeBy
<1>11. BusyIsWaiting
  BY <1>4, <1>7 DEF BusyIsWaiting, Signed!Section
<1>12. GoneIsTold /\ AccountIsShown /\ CodesAreShown
  BY <1>2, <1>4 DEF GoneIsTold, AccountIsShown, CodesAreShown
<1>13. SettingsLate
  BY DEF SettingsLate, Signed!Init
<1> QED
  BY <1>8, <1>9, <1>10, <1>11, <1>12, <1>13 DEF SettingsInv

\* A request that was given up on is served: every call in flight has been crossed,
\* and what the page shows is in doubt.
LEMMA SettingsServesLate ==
    ASSUME SettingsInv, SettingsLate, NEW c \in slate, Signed!ServeLate(c)
    PROVE  SettingsInv'
<1> DEFINE Marked(d) == [d EXCEPT !.crossed = TRUE]
<1>1. /\ spage.at = "settings" /\ row' = Signed!Changed(c)
      /\ scalls' = {Marked(d) : d \in scalls}
      /\ doubt' = doubt \cup {"account"} \cup (IF c.what = "enable" THEN {"codes"} ELSE {})
      /\ spage' = spage /\ smade' = smade
  BY DEF Signed!ServeLate, Signed!Unknown
<1>2. /\ SettingsTyped /\ Apart(scalls) /\ \A d \in scalls : SettingsCallIsKnown(d)
      /\ BusyIsWaiting /\ CodesAreShown
  BY <1>1 DEF SettingsInv
<1>3. c \in SettingsCall /\ c.id \in 0..MaxCalls
  BY <1>2, AccountsAssumption DEF SettingsLate, SettingsTyped, SettingsCall
<1>4. /\ row' \in Signed!Row
      /\ c.what # "enable" => row'.codes = row.codes /\ (row'.totp = "on" => row.totp = "on")
  BY <1>1, <1>2, <1>3, HandlersChange DEF SettingsTyped
<1>5. \A d \in scalls :
        /\ Marked(d) \in SettingsCall /\ Marked(d).crossed
        /\ Marked(d).id = d.id /\ Marked(d).who = d.who /\ Marked(d).what = d.what
        /\ Marked(d).out = d.out /\ Marked(d).body = d.body
  BY <1>2 DEF SettingsTyped, SettingsCall
<1> HIDE DEF Marked
<1>6. /\ \A d \in scalls : Marked(d) \in scalls'
      /\ \A e \in scalls' : \E d \in scalls : e = Marked(d)
  BY <1>1
<1>7. "account" \in doubt' /\ (c.what = "enable" => "codes" \in doubt')
  BY <1>1
<1>8. SettingsTyped'
  <2>1. scalls' \subseteq SettingsCall
    BY <1>5, <1>6
  <2>2. doubt' \subseteq {"account", "codes"}
    BY <1>1, <1>2 DEF SettingsTyped
  <2> QED
    BY <1>1, <1>2, <1>4, <2>1, <2>2 DEF SettingsTyped
<1>9. Apart(scalls')
  <2> SUFFICES ASSUME NEW e \in scalls', NEW f \in scalls'
               PROVE  /\ e.id = f.id => e.who = f.who
                      /\ e.who = f.who /\ e # f =>
                            e.what # f.what /\ e.what \in {"load", "probe", "list_sessions"}
                      /\ {e.who, f.who} \subseteq Signed!Section /\ e.who # f.who => e.crossed
    BY DEF Apart
  <2>1. PICK d \in scalls : e = Marked(d)
    BY <1>6
  <2>2. PICK g \in scalls : f = Marked(g)
    BY <1>6
  <2>3. /\ d.id = g.id => d.who = g.who
        /\ d.who = g.who /\ d # g => d.what # g.what /\ d.what \in {"load", "probe", "list_sessions"}
    BY <1>2 DEF Apart
  <2> QED
    BY <1>5, <2>1, <2>2, <2>3
<1>10. ASSUME NEW e \in scalls'
       PROVE  SettingsCallIsKnown(e)'
  <2>1. PICK d \in scalls : e = Marked(d)
    BY <1>6
  <2>2. SettingsCallIsKnown(d) /\ e.crossed /\ e.id = d.id /\ e.who = d.who
        /\ e.what = d.what /\ e.out = d.out /\ e.body = d.body
    BY <1>2, <1>5, <2>1
  <2>3. e.what = "enable" /\ e.out = "ok" => e.body.codes = row'.codes \/ "codes" \in doubt'
    BY <1>1, <1>4, <1>7, <2>2 DEF SettingsCallIsKnown
  <2> QED
    BY <1>1, <2>2, <2>3 DEF SettingsCallIsKnown, MadeBy
<1>11. BusyIsWaiting'
  <2>1. \A s \in Signed!Section : (\E e \in scalls' : e.who = s) <=> (\E d \in scalls : d.who = s)
    BY <1>5, <1>6
  <2> QED
    BY <1>1, <1>2, <2>1 DEF BusyIsWaiting
<1>12. GoneIsTold' /\ AccountIsShown'
  BY <1>7 DEF GoneIsTold, AccountIsShown
<1>13. CodesAreShown'
  <2> SUFFICES ASSUME "codes" \notin doubt', row'.totp = "on", spage.codes # 0,
                      spage.codes # row'.codes
               PROVE  \E e \in scalls' : e.what = "enable" /\ e.out = "ok"
    BY <1>1 DEF CodesAreShown
  <2>1. "codes" \notin doubt
    BY <1>1
  <2>2. PICK d \in scalls : d.what = "enable" /\ d.out = "ok"
    BY <1>2, <1>4, <1>7, <2>1 DEF CodesAreShown
  <2> QED
    BY <1>5, <1>6, <2>2
<1> QED
  BY <1>8, <1>9, <1>10, <1>11, <1>12, <1>13 DEF SettingsInv, Apart

\* What is given up on was in flight, and asking for more makes it no younger.
LEMMA SettingsLateStays == SettingsInv /\ SettingsLate /\ Signed!Next => SettingsLate'
<1> SUFFICES ASSUME SettingsInv, SettingsLate, Signed!Next
             PROVE  SettingsLate'
  OBVIOUS
<1>1. smade \in [calls : 0..MaxCalls, lost : Nat] /\ slate \subseteq SettingsCall
  BY DEF SettingsInv, SettingsTyped, SettingsLate
<1>2. smade.calls <= smade'.calls /\ smade'.calls \in Nat
  <2>1. CASE smade' = smade
    BY <1>1, <2>1, AccountsAssumption
  <2>2. CASE \E k \in {"calls", "lost"} : smade' = [smade EXCEPT ![k] = @ + 1]
    <3>1. PICK k \in {"calls", "lost"} : smade' = [smade EXCEPT ![k] = @ + 1]
      BY <2>2
    <3>2. smade'.calls = smade.calls \/ smade'.calls = smade.calls + 1
      BY <1>1, <3>1
    <3> QED
      BY <1>1, <3>2, AccountsAssumption
  <2>3. CASE Signed!Owner
    BY <2>1, <2>2, <2>3
      DEF Signed!Owner, Signed!EditName, Signed!SaveProfile, Signed!ToggleNotify,
          Signed!StartSetup, Signed!Enable, Signed!Disable, Signed!CancelSetup,
          Signed!RevokeOthers, Signed!ChangePassword, Signed!DeleteAccount, Signed!Ask
  <2>4. ASSUME NEW c \in scalls, Signed!Answers(c) \/ Signed!Drop(c)
        PROVE  smade.calls <= smade'.calls /\ smade'.calls \in Nat
    BY <2>1, <2>2, <2>4 DEF Signed!Answers, Signed!Serve, Signed!Take, Signed!Drop
  <2>5. ASSUME NEW c \in slate, Signed!ServeLate(c)
        PROVE  smade' = smade
    BY <2>5 DEF Signed!ServeLate
  <2> QED
    BY <2>1, <2>3, <2>4, <2>5 DEF Signed!Next
<1>3. ASSUME NEW e \in slate'
      PROVE  e \in slate \/ (spage.at = "settings" /\ e \in scalls)
  <2>1. ASSUME NEW c \in scalls, Signed!Drop(c)
        PROVE  e \in slate \/ (spage.at = "settings" /\ e \in scalls)
    BY <1>3, <2>1 DEF Signed!Drop
  <2>2. ASSUME NEW c \in slate, Signed!ServeLate(c)
        PROVE  e \in slate
    BY <1>3, <2>2 DEF Signed!ServeLate
  <2> QED
    BY <1>3, <2>1, <2>2 DEF Signed!Next
<1>4. ASSUME NEW e \in slate'
      PROVE  e \in SettingsCall /\ e.id <= smade'.calls
  <2>1. e \in SettingsCall /\ e.id <= smade.calls
    BY <1>3 DEF SettingsInv, SettingsTyped, SettingsLate, SettingsCallIsKnown
  <2>2. e.id \in Nat /\ smade.calls \in Nat
    BY <1>1, <2>1, AccountsAssumption DEF SettingsCall
  <2> QED
    BY <1>2, <2>1, <2>2
<1> QED
  BY <1>4 DEF SettingsLate

\* Every step of the page and of its server keeps the invariant.
LEMMA SettingsStep == SettingsInv /\ SettingsLate /\ Signed!Next => SettingsInv'
<1>1. ASSUME SettingsInv, NEW c \in scalls, Signed!Answers(c) \/ Signed!Drop(c)
      PROVE  SettingsInv'
  BY <1>1, SettingsServed, SettingsTakes, SettingsDrops DEF Signed!Answers
<1>2. ASSUME SettingsInv, SettingsLate, NEW c \in slate, Signed!ServeLate(c)
      PROVE  SettingsInv'
  BY <1>2, SettingsServesLate
<1> QED
  BY <1>1, <1>2, OwnersStep DEF Signed!Next

\* A step that touches nothing of the settings page.
LEMMA SettingsFrame ==
    SettingsInv /\ SettingsLate /\ UNCHANGED signedVars => SettingsInv' /\ SettingsLate'
<1> SUFFICES ASSUME SettingsInv, SettingsLate, UNCHANGED signedVars
             PROVE  SettingsInv' /\ SettingsLate'
  OBVIOUS
<1>1. SettingsTyped' /\ SettingsLate'
  BY DEF SettingsInv, SettingsTyped, SettingsLate, signedVars
<1>2. spage.at = "settings" => Apart(scalls') /\ \A e \in scalls' : SettingsCallIsKnown(e)'
  BY DEF SettingsInv, Apart, SettingsCallIsKnown, MadeBy, signedVars
<1>3. spage.at = "settings" => BusyIsWaiting' /\ GoneIsTold'
  BY DEF SettingsInv, BusyIsWaiting, GoneIsTold, signedVars
<1>4. spage.at = "settings" => AccountIsShown' /\ CodesAreShown'
  BY DEF SettingsInv, AccountIsShown, CodesAreShown, Brings, signedVars
<1> QED
  BY <1>1, <1>2, <1>3, <1>4 DEF SettingsInv, Apart, signedVars

\* With no call in flight there is nothing left that might still bring the account.
LEMMA SettingsShows == SettingsInv => Signed!ShowsTheAccount
  BY DEF SettingsInv, AccountIsShown, CodesAreShown, Signed!ShowsTheAccount

\* The invariant has the type invariant of Settings in it.
LEMMA SettingsAreTyped == SettingsInv => Signed!TypeOK
<1> SUFFICES ASSUME SettingsInv
             PROVE  Signed!TypeOK
  OBVIOUS
<1>1. row \in Signed!Row /\ spage \in Signed!Page /\ \A c \in scalls : c.body \in Signed!Body
  BY DEF SettingsInv, SettingsTyped, SettingsCall
<1>2. spage.at = "settings" =>
        \A s \in Signed!Section : spage.busy[s] <=> Signed!InFlight(scalls, {s}) # {}
  BY DEF SettingsInv, BusyIsWaiting, Signed!InFlight
<1> QED
  BY <1>1, <1>2 DEF Signed!TypeOK

-----------------------------------------------------------------------------
(* The pages that anybody may open. *)

AnyoneArg == [invited : BOOLEAN, link : {0} \cup Token, token : {"none", "fresh", "sent"}]

AnyoneCall ==
    [id : 0..MaxAnonymous,
     who : {"invitation", "register", "resend", "verify", "forgot", "reset"},
     what : {"invitation", "register", "resend", "verify", "forgot", "reset"}, arg : AnyoneArg,
     out : {"pending", "ok", "refused", "verification_failed"}, body : {"none"},
     crossed : BOOLEAN]

\* The links that were mailed: of each kind one works at most.
LinksInv ==
    /\ tokens \in [Token -> [purpose : Anyone!Purpose, state : {"new", "live", "used"}]]
    /\ due \in BOOLEAN
    /\ mailbox \subseteq {t \in Token : tokens[t].state # "new"}
    /\ \A t, u \in Token : tokens[t] = tokens[u] /\ tokens[t].state = "live" => t = u

\* What is stored about the email address.  An address that has an account has no
\* invitation left, and only such an address was ever mailed a link.
AddressInv ==
    /\ LinksInv
    /\ account \in [exists : BOOLEAN, verified : BOOLEAN, name : {"typed", "printed"}]
    /\ invite \in BOOLEAN
    /\ account.exists => ~invite
    /\ account.verified => account.exists
    /\ \A t \in Token : tokens[t].state # "new" => account.exists

\* The page and its calls have their types.
PageTyped ==
    /\ calls \subseteq AnyoneCall
    /\ made \in [calls : 0..MaxAnonymous, lost : Nat]
    /\ page \in Anyone!Page /\ widget \in Anyone!Widget

\* What is known of the call a page waits for: the invitation is looked up before
\* anything else is asked; a registration is about the invitation the page shows,
\* and made its account; a link that was confirmed confirmed the account.
AnyoneCallIsKnown(c) ==
    /\ c.what = "invitation" <=> page.checking
    /\ c.what = "register" => c.arg.invited = page.invited
    /\ c.what = "verify" => c.arg.link \in Token
    /\ c.what = "register" /\ c.out = "ok" =>
            account.exists /\ (c.arg.invited => account.name = "printed")
    /\ c.what = "verify" /\ c.out = "ok" => account.verified

\* A page waits for one call at a time, and knows whether it does.
OneCallAtATime ==
    /\ \A c, d \in calls : c = d
    /\ page.busy \/ page.checking <=> calls # {}
    /\ page.checking => page.at = "register" /\ ~page.busy
    /\ \A c \in calls : AnyoneCallIsKnown(c)

AnyoneInv == AddressInv /\ PageTyped /\ OneCallAtATime /\ Anyone!PagesAreTrue

\* What the browser gave up on was asked for before.
AnyoneLate == late \subseteq AnyoneCall /\ \A c \in late : c.what = "verify" => c.arg.link \in Token

-----------------------------------------------------------------------------
(* The server of the pages that anybody may open. *)

\* An account stays, under its name, and stays confirmed.
AccountStays ==
    /\ account.exists => account'.exists /\ account'.name = account.name
    /\ account.verified => account'.verified

\* A new link makes the one of its kind before it useless.
LEMMA LinkIssued ==
    ASSUME LinksInv, NEW purpose \in {"verify", "reset"}, Anyone!Issue(purpose)
    PROVE  LinksInv'
<1>1. PICK t \in Token :
        /\ tokens[t].state = "new"
        /\ tokens' = [u \in Token |->
                IF u = t THEN [purpose |-> purpose, state |-> "live"]
                ELSE IF tokens[u] = [purpose |-> purpose, state |-> "live"]
                     THEN [tokens[u] EXCEPT !.state = "used"] ELSE tokens[u]]
        /\ mailbox' \in {mailbox, mailbox \cup {t}}
        /\ due' = IF purpose = "verify" THEN FALSE ELSE due
  BY DEF Anyone!Issue
<1> DEFINE new == [purpose |-> purpose, state |-> "live"]
           Link == [purpose : Anyone!Purpose, state : {"new", "live", "used"}]
<1>2. new \in Link /\ new.state = "live" /\ new.purpose = purpose
  BY DEF Anyone!Purpose
<1>3. ASSUME NEW u \in Token
      PROVE  /\ tokens[u] \in Link
             /\ [tokens[u] EXCEPT !.state = "used"] \in Link
             /\ [tokens[u] EXCEPT !.state = "used"].state = "used"
  BY DEF LinksInv
<1>4. ASSUME NEW u \in Token
      PROVE  /\ u = t => tokens'[u] = new
             /\ u # t /\ tokens[u] = new => tokens'[u] = [tokens[u] EXCEPT !.state = "used"]
             /\ u # t /\ tokens[u] # new => tokens'[u] = tokens[u]
  BY <1>1
<1> HIDE DEF new
<1>5. ASSUME NEW u \in Token
      PROVE  /\ tokens'[u] \in Link
             /\ tokens'[u].state = "new" => tokens[u].state = "new" /\ u # t
             /\ tokens'[u].state = "live" => u = t \/ (tokens'[u] = tokens[u] /\ tokens[u] # new)
  BY <1>2, <1>3, <1>4
<1>6. tokens' \in [Token -> Link]
  BY <1>1, <1>5
<1>7. due' \in BOOLEAN /\ mailbox' \subseteq {u \in Token : tokens'[u].state # "new"}
  <2>1. mailbox \subseteq {u \in Token : tokens[u].state # "new"} /\ due \in BOOLEAN
    BY DEF LinksInv
  <2>2. \A u \in mailbox' : u \in mailbox \/ u = t
    BY <1>1
  <2>3. ASSUME NEW u \in mailbox'
        PROVE  u \in Token /\ tokens'[u].state # "new"
    BY <1>2, <1>4, <1>5, <2>1, <2>2
  <2> QED
    BY <1>1, <2>1, <2>3
<1>8. ASSUME NEW u \in Token, NEW v \in Token, tokens'[u] = tokens'[v], tokens'[u].state = "live"
      PROVE  u = v
  <2>1. tokens[u] = tokens[v] /\ tokens[u].state = "live" => u = v
    BY DEF LinksInv
  <2>2. \/ u = t
        \/ tokens'[u] = tokens[u] /\ tokens[u] # new
    BY <1>5, <1>8
  <2>3. \/ v = t
        \/ tokens'[v] = tokens[v] /\ tokens[v] # new
    BY <1>5, <1>8
  <2>4. tokens'[t] = new
    BY <1>4
  <2> QED
    BY <1>8, <2>1, <2>2, <2>3, <2>4
<1> QED
  BY <1>6, <1>7, <1>8 DEF LinksInv

\* A link that was used, or has expired.
LEMMA LinkUsed ==
    ASSUME LinksInv, NEW t, tokens[t].state = "live",
           tokens' = [tokens EXCEPT ![t].state = "used"], UNCHANGED <<mailbox, due>>
    PROVE  /\ LinksInv'
           /\ \A u \in Token : tokens'[u].state # "new" => tokens[u].state # "new"
<1> DEFINE used == [tokens[t] EXCEPT !.state = "used"]
           Link == [purpose : Anyone!Purpose, state : {"new", "live", "used"}]
<1>1. tokens \in [Token -> Link] /\ tokens' = [tokens EXCEPT ![t] = used]
  BY DEF LinksInv
<1>2. t \in Token => used \in Link /\ used.state = "used"
  BY <1>1
<1> HIDE DEF used
<1>3. ASSUME NEW u \in Token
      PROVE  /\ u = t => tokens'[u] = used
             /\ u # t => tokens'[u] = tokens[u]
  BY <1>1
<1>4. tokens' \in [Token -> Link]
  BY <1>1, <1>2
<1>5. ASSUME NEW u \in Token
      PROVE  /\ tokens'[u].state = "new" <=> tokens[u].state = "new"
             /\ tokens'[u].state = "live" => u # t
  BY <1>2, <1>3
<1>6. ASSUME NEW u \in Token, NEW v \in Token, tokens'[u] = tokens'[v], tokens'[u].state = "live"
      PROVE  u = v
  <2>1. u # t /\ v # t
    BY <1>5, <1>6
  <2> QED
    BY <1>3, <1>6, <2>1 DEF LinksInv
<1>7. mailbox' \subseteq {u \in Token : tokens'[u].state # "new"} /\ due' \in BOOLEAN
  BY <1>5 DEF LinksInv
<1> QED
  BY <1>4, <1>5, <1>6, <1>7 DEF LinksInv

\* An account may be registered, or asked about, at any time; whoever gets one
\* with an invitation gets it under the name that was printed.
LEMMA Registered ==
    ASSUME AddressInv, NEW sent \in BOOLEAN, Anyone!Register(sent)
    PROVE  /\ AddressInv' /\ AccountStays
           /\ account'.exists /\ (sent => account'.name = "printed")
<1>1. /\ LinksInv /\ account \in [exists : BOOLEAN, verified : BOOLEAN, name : {"typed", "printed"}]
      /\ invite \in BOOLEAN /\ (account.exists => ~invite) /\ (account.verified => account.exists)
  BY DEF AddressInv
<1>2. /\ Anyone!Identity(sent) \in {"typed", "printed"}
      /\ sent => invite /\ Anyone!Identity(sent) = "printed"
  BY DEF Anyone!Register, Anyone!Identity
<1>3. CASE ~account.exists
  <2>1. /\ account' = [exists |-> TRUE, verified |-> FALSE, name |-> Anyone!Identity(sent)]
        /\ invite' = FALSE /\ Anyone!Issue("verify")
    BY <1>3 DEF Anyone!Register
  <2>2. LinksInv'
    BY <1>1, <2>1, LinkIssued
  <2>3. /\ account' \in [exists : BOOLEAN, verified : BOOLEAN, name : {"typed", "printed"}]
        /\ account'.exists /\ ~account'.verified /\ account'.name = Anyone!Identity(sent)
    BY <1>2, <2>1
  <2> QED
    BY <1>1, <1>2, <1>3, <2>1, <2>2, <2>3 DEF AddressInv, AccountStays
<1>4. CASE account.exists
  <2>1. /\ account' = account /\ invite' = invite
        /\ UNCHANGED <<tokens, mailbox, due>> \/ Anyone!Issue("verify")
    BY <1>4 DEF Anyone!Register, Anyone!Unchanged
  <2>2. LinksInv'
    <3>1. CASE UNCHANGED <<tokens, mailbox, due>>
      BY <1>1, <3>1 DEF LinksInv
    <3>2. CASE Anyone!Issue("verify")
      BY <1>1, <3>2, LinkIssued
    <3> QED
      BY <2>1, <3>1, <3>2
  <2>3. ~sent
    BY <1>1, <1>2, <1>4
  <2> QED
    BY <1>1, <1>4, <2>1, <2>2, <2>3 DEF AddressInv, AccountStays
<1> QED
  BY <1>1, <1>3, <1>4

\* What a handler does when it accepts.
LEMMA AcceptKeeps ==
    ASSUME AddressInv, NEW c \in AnyoneCall, c.what = "verify" => c.arg.link \in Token,
           Anyone!Accept(c)
    PROVE  /\ AddressInv' /\ AccountStays
           /\ c.what = "register" =>
                account'.exists /\ (c.arg.invited => account'.name = "printed")
           /\ c.what = "verify" => account'.verified
<1>1. /\ LinksInv /\ account \in [exists : BOOLEAN, verified : BOOLEAN, name : {"typed", "printed"}]
      /\ invite \in BOOLEAN /\ (account.exists => ~invite) /\ (account.verified => account.exists)
      /\ \A t \in Token : tokens[t].state # "new" => account.exists
  BY DEF AddressInv
<1>2. c.arg.invited \in BOOLEAN
  BY DEF AnyoneCall, AnyoneArg
<1>3. CASE c.what = "invitation"
  BY <1>1, <1>3 DEF Anyone!Accept, Anyone!Server, AddressInv, LinksInv, AccountStays
<1>4. CASE c.what = "register"
  BY <1>2, <1>4, Registered DEF Anyone!Accept
<1>5. ASSUME NEW purpose \in {"verify", "reset"}, UNCHANGED <<account, invite>>,
             \/ account.exists /\ Anyone!Issue(purpose)
             \/ UNCHANGED <<tokens, mailbox, due>>
      PROVE  AddressInv' /\ AccountStays
  <2>1. CASE account.exists /\ Anyone!Issue(purpose)
    <3>1. LinksInv'
      BY <1>1, <2>1, LinkIssued
    <3> QED
      BY <1>1, <1>5, <2>1, <3>1 DEF AddressInv, AccountStays
  <2>2. CASE UNCHANGED <<tokens, mailbox, due>>
    BY <1>1, <1>5, <2>2 DEF AddressInv, LinksInv, AccountStays
  <2> QED
    BY <1>5, <2>1, <2>2
<1>6. CASE c.what = "resend"
  <2>1. /\ UNCHANGED <<account, invite>>
        /\ \/ account.exists /\ Anyone!Issue("verify")
           \/ UNCHANGED <<tokens, mailbox, due>>
    BY <1>6 DEF Anyone!Accept, Anyone!Unchanged
  <2> QED
    BY <1>5, <1>6, <2>1
<1>7. CASE c.what = "forgot"
  <2>1. /\ UNCHANGED <<account, invite>>
        /\ \/ account.exists /\ Anyone!Issue("reset")
           \/ UNCHANGED <<tokens, mailbox, due>>
    BY <1>7 DEF Anyone!Accept, Anyone!Unchanged
  <2> QED
    BY <1>5, <1>7, <2>1
<1>8. CASE c.what \in {"verify", "reset"}
  <2>1. /\ tokens[c.arg.link].state = "live"
        /\ tokens' = [tokens EXCEPT ![c.arg.link].state = "used"]
        /\ UNCHANGED <<mailbox, due, invite>>
        /\ account' = IF c.what = "verify" THEN [account EXCEPT !.verified = TRUE] ELSE account
    BY <1>8 DEF Anyone!Accept, Anyone!Consumes
  <2>2. /\ LinksInv'
        /\ \A u \in Token : tokens'[u].state # "new" => tokens[u].state # "new"
    BY <1>1, <2>1, LinkUsed
  <2>3. /\ account' \in [exists : BOOLEAN, verified : BOOLEAN, name : {"typed", "printed"}]
        /\ account'.exists = account.exists /\ account'.name = account.name
        /\ account'.verified = (account.verified \/ c.what = "verify")
    BY <1>1, <1>8, <2>1
  <2>4. c.what = "verify" => account.exists
    BY <1>1, <2>1
  <2> QED
    BY <1>1, <1>8, <2>1, <2>2, <2>3, <2>4 DEF AddressInv, AccountStays
<1>9. c.what \in {"invitation", "register", "resend", "verify", "forgot", "reset"}
  BY DEF AnyoneCall
<1> QED
  BY <1>3, <1>4, <1>6, <1>7, <1>8, <1>9

-----------------------------------------------------------------------------
(* The page and its widget. *)

\* The bot check is always in one of its states.
LEMMA WidgetTyped ==
    ASSUME NEW w \in Anyone!Widget, NEW b \in BOOLEAN
    PROVE  /\ Anyone!NewWidget(b) \in Anyone!Widget
           /\ Anyone!SendsToken(w) \in Anyone!Widget /\ Anyone!Reset(w) \in Anyone!Widget
           /\ Anyone!Mount(w, b) \in Anyone!Widget
           /\ Anyone!Moves(w, Enabled) \subseteq Anyone!Widget
<1>1. Anyone!NewWidget(b) \in Anyone!Widget
  BY DEF Anyone!NewWidget, Anyone!Widget
<1>2. Anyone!SendsToken(w) \in Anyone!Widget
  <2>1. CASE w.token = "none"
    <3>1. Anyone!SendsToken(w) = [w EXCEPT !.token = "none"]
      BY <2>1 DEF Anyone!SendsToken
    <3> QED
      BY <3>1 DEF Anyone!Widget
  <2>2. CASE w.token # "none"
    <3>1. Anyone!SendsToken(w) = [w EXCEPT !.token = "sent"]
      BY <2>2 DEF Anyone!SendsToken
    <3> QED
      BY <3>1 DEF Anyone!Widget
  <2> QED
    BY <2>1, <2>2
<1>3. Anyone!Reset(w) \in Anyone!Widget
  BY DEF Anyone!Reset, Anyone!Widget
<1>4. Anyone!Mount(w, b) \in Anyone!Widget
  <2> DEFINE drawn == IF ~b /\ w.drawn = "yes" THEN "gone" ELSE w.drawn
  <2>1. drawn \in {"no", "loading", "yes", "gone", "failed"}
    BY DEF Anyone!Widget
  <2>2. Anyone!Mount(w, b) = [w EXCEPT !.mounted = b, !.drawn = drawn]
    BY DEF Anyone!Mount
  <2> HIDE DEF drawn
  <2> QED
    BY <2>1, <2>2 DEF Anyone!Widget
<1>5. ASSUME NEW k \in Anyone!Keys(Enabled)
      PROVE  Anyone!Keyed(w, k) \in Anyone!Widget
  <2> DEFINE drawn == IF k = "on" /\ w.mounted THEN "loading" ELSE w.drawn
  <2>1. drawn \in {"no", "loading", "yes", "gone", "failed"} /\ k \in {"unknown", "off", "on"}
    BY DEF Anyone!Widget, Anyone!Keys
  <2>2. Anyone!Keyed(w, k) = [w EXCEPT !.key = k, !.drawn = drawn]
    BY DEF Anyone!Keyed
  <2> HIDE DEF drawn
  <2> QED
    BY <2>1, <2>2 DEF Anyone!Widget
<1>6. ASSUME NEW loads \in BOOLEAN
      PROVE  Anyone!Scripted(w, loads) \in Anyone!Widget
  <2> DEFINE drawn == IF ~loads THEN "failed" ELSE IF w.mounted THEN "yes" ELSE "no"
  <2>1. drawn \in {"no", "loading", "yes", "gone", "failed"}
    OBVIOUS
  <2>2. Anyone!Scripted(w, loads) = [w EXCEPT !.drawn = drawn]
    BY DEF Anyone!Scripted
  <2> HIDE DEF drawn
  <2> QED
    BY <2>1, <2>2 DEF Anyone!Widget
<1>7. Anyone!Solved(w) \in Anyone!Widget /\ Anyone!Expired(w) \in Anyone!Widget
  BY DEF Anyone!Solved, Anyone!Expired, Anyone!Widget
<1>8. Anyone!Moves(w, Enabled) \subseteq Anyone!Widget
  BY <1>5, <1>6, <1>7 DEF Anyone!Moves
<1> QED
  BY <1>1, <1>2, <1>3, <1>4, <1>8

\* Steps that leave the page where it is and its call alone.
LEMMA AnyoneStays ==
    ASSUME AnyoneInv, AddressInv', AccountStays, calls' = calls, made' = made,
           page' \in Anyone!Page, widget' \in Anyone!Widget,
           page'.at = page.at, page'.invited = page.invited,
           page'.busy = page.busy, page'.checking = page.checking
    PROVE  AnyoneInv'
<1>1. PageTyped'
  BY DEF AnyoneInv, PageTyped
<1>2. OneCallAtATime'
  BY DEF AnyoneInv, OneCallAtATime, AnyoneCallIsKnown, AccountStays
<1>3. Anyone!PagesAreTrue'
  BY DEF AnyoneInv, AddressInv, Anyone!PagesAreTrue, AccountStays
<1> QED
  BY <1>1, <1>2, <1>3 DEF AnyoneInv

\* The address is as it was.
LEMMA AddressFrame ==
    ASSUME AddressInv, UNCHANGED Anyone!Server
    PROVE  AddressInv' /\ AccountStays
  BY DEF AddressInv, LinksInv, AccountStays, Anyone!Server

\* The server serves the call.
LEMMA AnyoneServed ==
    ASSUME AnyoneInv, NEW c \in calls, Anyone!Serve(c)
    PROVE  AnyoneInv'
<1>1. /\ AddressInv /\ c \in AnyoneCall /\ calls \subseteq AnyoneCall
      /\ \A d \in calls : d = c
      /\ AnyoneCallIsKnown(c) /\ Anyone!PagesAreTrue /\ OneCallAtATime /\ PageTyped
  BY DEF AnyoneInv, PageTyped, OneCallAtATime
<1>2. UNCHANGED <<made, page, widget>>
  BY DEF Anyone!Serve
<1>3. ASSUME NEW out \in {"ok", "refused", "verification_failed"}, AddressInv', AccountStays,
             calls' = (calls \ {c}) \cup {Anyone!Served(c, out, "none")},
             c.what = "register" /\ out = "ok" =>
                account'.exists /\ (c.arg.invited => account'.name = "printed"),
             c.what = "verify" /\ out = "ok" => account'.verified
      PROVE  AnyoneInv'
  <2> DEFINE s == Anyone!Served(c, out, "none")
  <2>1. /\ s \in AnyoneCall /\ s.out = out /\ s.what = c.what /\ s.arg = c.arg
    BY <1>1 DEF Anyone!Served, AnyoneCall
  <2>2. calls' = {s}
    BY <1>1, <1>3
  <2> HIDE DEF s
  <2>3. AnyoneCallIsKnown(s)'
    <3>1. /\ s.what = "invitation" <=> page.checking
          /\ s.what = "register" => s.arg.invited = page.invited
          /\ s.what = "verify" => s.arg.link \in Token
      BY <1>1, <2>1 DEF AnyoneCallIsKnown
    <3>2. /\ s.what = "register" /\ s.out = "ok" =>
                account'.exists /\ (s.arg.invited => account'.name = "printed")
          /\ s.what = "verify" /\ s.out = "ok" => account'.verified
      BY <1>3, <2>1
    <3> QED
      BY <1>2, <3>1, <3>2 DEF AnyoneCallIsKnown
  <2>4. OneCallAtATime'
    <3>1. \A e \in calls' : AnyoneCallIsKnown(e)'
      BY <2>2, <2>3
    <3>2. \A e, f \in calls' : e = f
      BY <2>2
    <3>3. page'.busy \/ page'.checking <=> calls' # {}
      BY <1>1, <1>2, <2>2 DEF OneCallAtATime
    <3>4. page'.checking => page'.at = "register" /\ ~page'.busy
      BY <1>1, <1>2 DEF OneCallAtATime
    <3> QED
      BY <3>1, <3>2, <3>3, <3>4 DEF OneCallAtATime, AnyoneCallIsKnown
  <2>5. PageTyped'
    BY <1>1, <1>2, <2>1, <2>2 DEF PageTyped
  <2>6. Anyone!PagesAreTrue'
    BY <1>1, <1>2, <1>3 DEF AddressInv, Anyone!PagesAreTrue, AccountStays
  <2> QED
    BY <1>3, <2>4, <2>5, <2>6 DEF AnyoneInv
<1>4. CASE Anyone!Accept(c) /\ calls' = (calls \ {c}) \cup {Anyone!Served(c, "ok", "none")}
  <2>1. c.what = "verify" => c.arg.link \in Token
    BY <1>1 DEF AnyoneCallIsKnown
  <2>2. /\ AddressInv' /\ AccountStays
        /\ c.what = "register" =>
                account'.exists /\ (c.arg.invited => account'.name = "printed")
        /\ c.what = "verify" => account'.verified
    BY <1>1, <1>4, <2>1, AcceptKeeps
  <2> QED
    BY <1>3, <1>4, <2>2
<1>5. CASE /\ Anyone!RefusedBy(c)
           /\ \E out \in {"refused", "verification_failed"} :
                calls' = (calls \ {c}) \cup {Anyone!Served(c, out, "none")}
  <2>1. AddressInv' /\ AccountStays
    BY <1>1, <1>5, AddressFrame DEF Anyone!RefusedBy
  <2> QED
    BY <1>3, <1>5, <2>1
<1> QED
  BY <1>4, <1>5 DEF Anyone!Serve, Anyone!Serves

\* The server serves a call that was given up on: the page waits for what it waited
\* for, and nothing that an answer or the page has said is taken back.
LEMMA AnyoneServesLate ==
    ASSUME AnyoneInv, AnyoneLate, NEW c \in late, Anyone!ServeLate(c)
    PROVE  AnyoneInv'
<1>1. /\ c \in AnyoneCall /\ (c.what = "verify" => c.arg.link \in Token)
      /\ AddressInv /\ page \in Anyone!Page /\ widget \in Anyone!Widget
  BY DEF AnyoneInv, AnyoneLate, PageTyped
<1>2. Anyone!Accept(c) /\ UNCHANGED <<calls, made, page, widget>>
  BY DEF Anyone!ServeLate, Anyone!Serves
<1>3. AddressInv' /\ AccountStays
  BY <1>1, <1>2, AcceptKeeps
<1> QED
  BY <1>1, <1>2, <1>3, AnyoneStays

\* What is given up on was in flight.
LEMMA AnyoneLateStays == AnyoneInv /\ AnyoneLate /\ Anyone!Next => AnyoneLate'
<1> SUFFICES ASSUME AnyoneInv, AnyoneLate, Anyone!Next, NEW e \in late'
             PROVE  e \in AnyoneCall /\ (e.what = "verify" => e.arg.link \in Token)
  BY DEF AnyoneLate
<1>1. e \in late \/ e \in calls
  <2>1. ASSUME NEW c \in calls, Anyone!Drop(c)
        PROVE  e \in late \/ e \in calls
    BY <2>1 DEF Anyone!Drop
  <2>2. ASSUME NEW c \in late, Anyone!ServeLate(c)
        PROVE  e \in late
    BY <2>2 DEF Anyone!ServeLate
  <2> QED
    BY <2>1, <2>2 DEF Anyone!Next
<1> QED
  BY <1>1 DEF AnyoneInv, AnyoneLate, PageTyped, OneCallAtATime, AnyoneCallIsKnown

\* A page that waits for nothing asks, and waits.
LEMMA AnyoneAsked ==
    ASSUME AnyoneInv, calls = {},
           NEW what \in {"register", "resend", "verify", "forgot", "reset"}, NEW arg \in AnyoneArg,
           Anyone!Ask(what, arg), page' \in Anyone!Page, widget' \in Anyone!Widget,
           page'.busy, page'.checking = page.checking,
           page'.at = "verify" \/ (page'.at = page.at /\ page'.invited = page.invited),
           what = "register" => arg.invited = page'.invited,
           what = "verify" => arg.link \in Token
    PROVE  AnyoneInv'
<1> DEFINE n == Anyone!Sent(made.calls + 1, what, what, arg, "none")
<1>1. /\ AddressInv /\ PageTyped /\ Anyone!PagesAreTrue /\ ~page.checking
  BY DEF AnyoneInv, OneCallAtATime
<1>2. /\ made.calls < MaxAnonymous /\ made' = [made EXCEPT !["calls"] = @ + 1]
      /\ calls' = {n} /\ UNCHANGED Anyone!Server
  BY DEF Anyone!Ask
<1>3. /\ made \in [calls : 0..MaxAnonymous, lost : Nat] /\ made.calls + 1 \in 0..MaxAnonymous
  <2>1. made \in [calls : 0..MaxAnonymous, lost : Nat]
    BY <1>1 DEF PageTyped
  <2> QED
    BY <1>2, <2>1, AccountsAssumption
<1>4. made' \in [calls : 0..MaxAnonymous, lost : Nat]
  <2>1. made' = [made EXCEPT !.calls = made.calls + 1]
    BY <1>2
  <2> QED
    BY <1>3, <2>1
<1>5. n \in AnyoneCall /\ n.what = what /\ n.arg = arg /\ n.out = "pending"
  BY <1>3 DEF Anyone!Sent, AnyoneCall
<1> HIDE DEF n
<1>6. AddressInv' /\ AccountStays
  BY <1>1, <1>2, AddressFrame
<1>7. PageTyped'
  BY <1>2, <1>4, <1>5 DEF PageTyped
<1>8. n.what # "invitation" /\ n.out # "ok" /\ ~page'.checking
  BY <1>1, <1>5
<1>9. OneCallAtATime'
  <2>1. n.what = "invitation" <=> page'.checking
    BY <1>8
  <2>2. n.what = "register" => n.arg.invited = page'.invited
    BY <1>5
  <2>3. n.what = "verify" => n.arg.link \in Token
    BY <1>5
  <2>4. \A e \in calls' : AnyoneCallIsKnown(e)'
    BY <1>2, <1>8, <2>1, <2>2, <2>3 DEF AnyoneCallIsKnown
  <2>5. \A e, f \in calls' : e = f
    BY <1>2
  <2>6. page'.busy \/ page'.checking <=> calls' # {}
    BY <1>2
  <2>7. page'.checking => page'.at = "register" /\ ~page'.busy
    BY <1>8
  <2> QED
    BY <2>4, <2>5, <2>6, <2>7 DEF OneCallAtATime, AnyoneCallIsKnown
<1>10. Anyone!PagesAreTrue'
  BY <1>1, <1>6 DEF AddressInv, Anyone!PagesAreTrue, AccountStays
<1> QED
  BY <1>6, <1>7, <1>9, <1>10 DEF AnyoneInv

\* A page that is opened waits for nothing, and so does one that was answered.
LEMMA AnyoneRests ==
    ASSUME AnyoneInv, UNCHANGED Anyone!Server, calls' = {},
           made' \in [calls : 0..MaxAnonymous, lost : Nat],
           page' \in Anyone!Page, widget' \in Anyone!Widget,
           ~page'.busy, ~page'.checking, Anyone!PagesAreTrue'
    PROVE  AnyoneInv'
<1>1. AddressInv'
  BY AddressFrame DEF AnyoneInv
<1>2. PageTyped' /\ OneCallAtATime'
  BY DEF PageTyped, OneCallAtATime, AnyoneCallIsKnown
<1> QED
  BY <1>1, <1>2 DEF AnyoneInv

\* The page takes the answer, which may be that the call failed on the way.
LEMMA AnyoneAnswered ==
    ASSUME AnyoneInv, NEW c \in calls, NEW d, d.id = c.id, d.what = c.what, d.out = "ok" => d = c,
           Anyone!Handle(d), UNCHANGED Anyone!Server,
           made' \in [calls : 0..MaxAnonymous, lost : Nat]
    PROVE  AnyoneInv'
<1>1. /\ \A e \in calls : e = c
      /\ page.busy \/ page.checking
      /\ page.checking => page.at = "register" /\ ~page.busy
      /\ c.what = "invitation" <=> page.checking
      /\ c.what = "register" => c.arg.invited = page.invited
      /\ c.what = "register" /\ c.out = "ok" =>
            account.exists /\ (c.arg.invited => account.name = "printed")
      /\ c.what = "verify" /\ c.out = "ok" => account.verified
  BY DEF AnyoneInv, OneCallAtATime, AnyoneCallIsKnown
<1>2. Anyone!PagesAreTrue /\ page \in Anyone!Page /\ widget \in Anyone!Widget
  BY DEF AnyoneInv, PageTyped
<1>3. account' = account
  BY DEF Anyone!Server
<1>4. calls' = {}
  BY <1>1 DEF Anyone!Handle, Anyone!Without
<1>5. /\ Anyone!Reset(widget) \in Anyone!Widget
      /\ Anyone!Mount(Anyone!Reset(widget), FALSE) \in Anyone!Widget
  BY <1>2, WidgetTyped
<1> DEFINE rest == Anyone!Rest(page)
           at(place) == Anyone!At(place)
<1>6. /\ rest \in Anyone!Page /\ ~rest.busy /\ rest.checking = page.checking
      /\ rest.at = page.at /\ rest.invited = page.invited
  BY <1>2 DEF Anyone!Rest, Anyone!Page
<1>7. ASSUME NEW place \in Anyone!Place
      PROVE  /\ at(place) \in Anyone!Page /\ at(place).at = place /\ ~at(place).busy
             /\ at(place).checking = page.checking /\ at(place).invited = page.invited
  BY <1>2 DEF Anyone!At, Anyone!Page
<1> HIDE DEF rest, at
<1>8. {"registered", "forgotten", "app", "signin"} \subseteq Anyone!Place
  BY DEF Anyone!Place
<1>9. CASE c.what = "invitation"
  <2>1. /\ page' = [page EXCEPT !.checking = FALSE, !.invited = d.out = "ok", !.error = d.out # "ok"]
        /\ widget' = widget
    BY <1>9 DEF Anyone!Handle, Anyone!InvitationAnswer, Anyone!RegisterAnswer, Anyone!ResendAnswer,
                Anyone!ForgotAnswer, Anyone!LinkAnswer
  <2>2. page' \in Anyone!Page /\ ~page'.checking /\ page'.busy = page.busy /\ page'.at = page.at
    BY <1>2, <2>1 DEF Anyone!Page
  <2>3. ~page'.busy /\ Anyone!PagesAreTrue'
    BY <1>1, <1>9, <2>2 DEF Anyone!PagesAreTrue
  <2> QED
    BY <1>2, <1>4, <2>1, <2>2, <2>3, AnyoneRests
<1>10. ASSUME ~page.checking, page' \in Anyone!Page, widget' \in Anyone!Widget, ~page'.busy,
              page'.checking = page.checking, Anyone!PagesAreTrue'
       PROVE  AnyoneInv'
  <2>1. ~page'.checking
    BY <1>10
  <2> QED
    BY <1>4, <1>10, <2>1, AnyoneRests
<1>11. page' = rest => Anyone!PagesAreTrue'
  BY <1>2, <1>3, <1>6 DEF Anyone!PagesAreTrue
<1>12. CASE c.what = "register"
  <2>1. /\ page' = IF d.out = "ok" THEN at("registered") ELSE rest
        /\ widget' = Anyone!Reset(widget)
    BY <1>12 DEF Anyone!Handle, Anyone!InvitationAnswer, Anyone!RegisterAnswer, Anyone!ResendAnswer,
                 Anyone!ForgotAnswer, Anyone!LinkAnswer, rest, at
  <2>2. page' = at("registered") /\ d.out = "ok" => Anyone!PagesAreTrue'
    BY <1>1, <1>3, <1>7, <1>8, <1>12 DEF Anyone!PagesAreTrue
  <2> QED
    BY <1>1, <1>5, <1>6, <1>7, <1>8, <1>10, <1>11, <1>12, <2>1, <2>2
<1>13. CASE c.what = "resend"
  <2> DEFINE down == [page EXCEPT !.busy = FALSE, !.remaining = TRUE]
  <2>1. /\ page' = IF d.out = "ok" THEN down ELSE rest
        /\ widget' \in Anyone!Widget
    BY <1>5, <1>13 DEF Anyone!Handle, Anyone!InvitationAnswer, Anyone!RegisterAnswer,
                       Anyone!ResendAnswer, Anyone!ForgotAnswer, Anyone!LinkAnswer, rest
  <2>2. /\ down \in Anyone!Page /\ ~down.busy /\ down.checking = page.checking
        /\ down.at = page.at /\ down.invited = page.invited
    BY <1>2 DEF Anyone!Page
  <2> HIDE DEF down
  <2>3. page' = down => Anyone!PagesAreTrue'
    BY <1>2, <1>3, <2>2 DEF Anyone!PagesAreTrue
  <2> QED
    BY <1>1, <1>6, <1>10, <1>11, <1>13, <2>1, <2>2, <2>3
<1>14. CASE c.what = "forgot"
  <2>1. /\ page' = IF d.out = "verification_failed" THEN rest ELSE at("forgotten")
        /\ widget' = Anyone!Reset(widget)
    BY <1>14 DEF Anyone!Handle, Anyone!InvitationAnswer, Anyone!RegisterAnswer, Anyone!ResendAnswer,
                 Anyone!ForgotAnswer, Anyone!LinkAnswer, rest, at
  <2>2. page' = at("forgotten") => Anyone!PagesAreTrue'
    BY <1>7, <1>8 DEF Anyone!PagesAreTrue
  <2> QED
    BY <1>1, <1>5, <1>6, <1>7, <1>8, <1>10, <1>11, <1>14, <2>1, <2>2
<1>15. CASE c.what \in {"verify", "reset"}
  <2>1. /\ page' = IF d.out # "ok" THEN rest ELSE IF c.what = "verify" THEN at("app") ELSE at("signin")
        /\ widget' = widget
    BY <1>15 DEF Anyone!Handle, Anyone!InvitationAnswer, Anyone!RegisterAnswer, Anyone!ResendAnswer,
                 Anyone!ForgotAnswer, Anyone!LinkAnswer, rest, at
  <2>2. page' = at("app") /\ d.out = "ok" /\ c.what = "verify" => Anyone!PagesAreTrue'
    BY <1>1, <1>3, <1>7, <1>8 DEF Anyone!PagesAreTrue
  <2>3. page' = at("signin") => Anyone!PagesAreTrue'
    BY <1>7, <1>8 DEF Anyone!PagesAreTrue
  <2> QED
    BY <1>1, <1>2, <1>6, <1>7, <1>8, <1>10, <1>11, <1>15, <2>1, <2>2, <2>3
<1>16. c.what \in {"invitation", "register", "resend", "verify", "forgot", "reset"}
  BY DEF AnyoneInv, PageTyped, AnyoneCall
<1> QED
  BY <1>9, <1>12, <1>13, <1>14, <1>15, <1>16

\* The same, of the answer that came and of the failure.
LEMMA AnyoneTakesOrDrops ==
    ASSUME AnyoneInv, NEW c \in calls, Anyone!Take(c) \/ Anyone!Drop(c)
    PROVE  AnyoneInv'
<1>1. made \in [calls : 0..MaxAnonymous, lost : Nat] /\ c \in AnyoneCall
  BY DEF AnyoneInv, PageTyped
<1>2. CASE Anyone!Take(c)
  BY <1>1, <1>2, AnyoneAnswered DEF Anyone!Take
<1>3. CASE Anyone!Drop(c)
  <2>1. Anyone!Lost(c).id = c.id /\ Anyone!Lost(c).what = c.what /\ Anyone!Lost(c).out # "ok"
    BY <1>1 DEF Anyone!Lost, AnyoneCall
  <2>2. made' = [made EXCEPT !.lost = made.lost + 1]
    BY <1>3 DEF Anyone!Drop
  <2>3. made' \in [calls : 0..MaxAnonymous, lost : Nat]
    BY <1>1, <2>2
  <2> QED
    BY <1>3, <2>1, <2>3, AnyoneAnswered DEF Anyone!Drop
<1> QED
  BY <1>2, <1>3

\* Another page is opened, from the menu or from a link in the mailbox.
LEMMA AnyoneOpens ==
    ASSUME AnyoneInv, Anyone!Goto \/ \E t \in Token : Anyone!FollowLink(t)
    PROVE  AnyoneInv'
<1>1. /\ page \in Anyone!Page /\ made \in [calls : 0..MaxAnonymous, lost : Nat] /\ calls = {}
      /\ ~page.busy /\ ~page.checking
  BY DEF AnyoneInv, PageTyped, OneCallAtATime, Anyone!Goto, Anyone!FollowLink
<1>2. ASSUME NEW at \in {"register", "forgot", "login", "verify", "reset"}
      PROVE  /\ Anyone!Opened(at) \in Anyone!Page /\ Anyone!Opened(at).at = at
             /\ ~Anyone!Opened(at).busy /\ ~Anyone!Opened(at).checking
             /\ ~Anyone!Opened(at).invited
  <2>1. at \in Anyone!Place
    BY DEF Anyone!Place
  <2>2. /\ Anyone!Opened(at) \in Anyone!Page /\ Anyone!Opened(at).at = at
        /\ Anyone!Opened(at).busy = page.busy /\ Anyone!Opened(at).checking = page.checking
        /\ Anyone!Opened(at).invited = FALSE
    BY <1>1, <2>1 DEF Anyone!Opened, Anyone!Page
  <2> QED
    BY <1>1, <2>2
<1>3. \A b \in BOOLEAN : Anyone!NewWidget(b) \in Anyone!Widget
  BY DEF Anyone!NewWidget, Anyone!Widget
<1>4. CASE Anyone!Goto
  <2>1. PICK at \in {"register", "forgot", "login"} :
            /\ page' = Anyone!Opened(at)
            /\ widget' = Anyone!NewWidget(at # "login" \/ ~page.remaining)
    BY <1>4 DEF Anyone!Goto
  <2>2. UNCHANGED Anyone!Server /\ calls' = {} /\ made' = made
    BY <1>1, <1>4 DEF Anyone!Goto
  <2>3. (at # "login" \/ ~page.remaining) \in BOOLEAN
    OBVIOUS
  <2>4. Anyone!PagesAreTrue'
    BY <1>2, <2>1 DEF Anyone!PagesAreTrue
  <2> QED
    BY <1>1, <1>2, <1>3, <2>1, <2>2, <2>3, <2>4, AnyoneRests
<1>5. ASSUME NEW t \in Token, Anyone!FollowLink(t)
      PROVE  AnyoneInv'
  <2>1. widget' \in Anyone!Widget
    BY <1>3, <1>5 DEF Anyone!FollowLink
  <2> DEFINE o(at) == Anyone!Opened(at)
             v == [o("verify") EXCEPT !.link = t, !.busy = TRUE]
             r == [o("reset") EXCEPT !.link = t]
             arg == [Anyone!NoArg EXCEPT !.link = t]
  <2>2. arg \in AnyoneArg /\ arg.link = t
    BY DEF Anyone!NoArg, AnyoneArg
  <2>3. v \in Anyone!Page /\ v.busy /\ v.at = "verify" /\ v.checking = o("verify").checking
    <3>1. o("verify") \in Anyone!Page /\ o("verify").at = "verify"
      BY <1>2
    <3> HIDE DEF o
    <3> QED
      BY <3>1 DEF Anyone!Page
  <2>4. /\ r \in Anyone!Page /\ r.at = "reset" /\ r.busy = o("reset").busy
        /\ r.checking = o("reset").checking
    <3>1. o("reset") \in Anyone!Page /\ o("reset").at = "reset"
      BY <1>2
    <3> HIDE DEF o
    <3> QED
      BY <3>1 DEF Anyone!Page
  <2>5. \/ page' = v /\ Anyone!Ask("verify", arg)
        \/ page' = r /\ UNCHANGED <<Anyone!Server, calls, made>>
    BY <1>5 DEF Anyone!FollowLink
  <2>6. ~o("verify").checking /\ ~o("reset").checking /\ ~o("reset").busy
    BY <1>2
  <2> HIDE DEF o, v, r, arg
  <2>7. CASE page' = v /\ Anyone!Ask("verify", arg)
    <3>1. ~page'.checking
      BY <2>3, <2>6, <2>7
    <3>2. page'.checking = page.checking
      <4>1. page'.checking \in BOOLEAN /\ page.checking \in BOOLEAN
        BY <1>1, <2>3, <2>7 DEF Anyone!Page
      <4> QED
        BY <1>1, <3>1, <4>1
    <3> QED
      BY <1>1, <2>1, <2>2, <2>3, <2>7, <3>2, AnyoneAsked
  <2>8. CASE page' = r /\ UNCHANGED <<Anyone!Server, calls, made>>
    <3>1. ~page'.checking /\ ~page'.busy /\ Anyone!PagesAreTrue'
      BY <2>4, <2>6, <2>8 DEF Anyone!PagesAreTrue
    <3> QED
      BY <1>1, <2>1, <2>4, <2>8, <3>1, AnyoneRests
  <2> QED
    BY <2>5, <2>7, <2>8
<1> QED
  BY <1>4, <1>5

\* A form is sent: the page asks for what it shows, with the token of its widget.
LEMMA AnyoneSubmits ==
    ASSUME AnyoneInv,
           Anyone!SubmitRegister \/ Anyone!Resend \/ Anyone!SubmitForgot \/ Anyone!SubmitReset
    PROVE  AnyoneInv'
<1>1. /\ page \in Anyone!Page /\ widget \in Anyone!Widget /\ ~page.busy
      /\ page.busy \/ page.checking <=> calls # {}
      /\ page.checking => page.at = "register"
  BY DEF AnyoneInv, PageTyped, OneCallAtATime, Anyone!SubmitRegister, Anyone!Resend,
         Anyone!SubmitForgot, Anyone!SubmitReset, Anyone!Submit
<1>2. calls = {}
  BY <1>1 DEF Anyone!SubmitRegister, Anyone!Resend, Anyone!SubmitForgot, Anyone!SubmitReset
<1> DEFINE busy == [page EXCEPT !.busy = TRUE, !.error = FALSE]
           none == Anyone!NoArg
<1>3. /\ busy \in Anyone!Page /\ busy.busy /\ busy.checking = page.checking
      /\ busy.at = page.at /\ busy.invited = page.invited
  BY <1>1 DEF Anyone!Page
<1>4. /\ none \in AnyoneArg /\ [none EXCEPT !.invited = page.invited] \in AnyoneArg
      /\ [none EXCEPT !.invited = page.invited].invited = page.invited
      /\ [none EXCEPT !.link = page.link] \in AnyoneArg
  BY <1>1 DEF Anyone!NoArg, AnyoneArg, Anyone!Page
<1> HIDE DEF busy, none
<1>5. ASSUME NEW what \in {"register", "resend", "forgot", "reset"}, NEW arg \in AnyoneArg,
             Anyone!Ask(what, arg), page' = busy, widget' \in Anyone!Widget,
             what = "register" => arg.invited = page.invited
      PROVE  AnyoneInv'
  <2>1. /\ page' \in Anyone!Page /\ page'.busy /\ page'.checking = page.checking
        /\ page'.at = page.at /\ page'.invited = page.invited
    BY <1>3, <1>5
  <2> QED
    BY <1>2, <1>5, <2>1, AnyoneAsked
<1>6. ASSUME NEW what \in {"register", "resend", "forgot"}, NEW arg \in AnyoneArg,
             Anyone!Submit(what, arg), what = "register" => arg.invited = page.invited
      PROVE  AnyoneInv'
  <2> DEFINE asked == [arg EXCEPT !.token = widget.token]
  <2>1. asked \in AnyoneArg /\ asked.invited = arg.invited
    BY <1>1 DEF AnyoneArg, Anyone!Widget
  <2>2. /\ Anyone!Ask(what, asked) /\ page' = busy
        /\ widget' = Anyone!SendsToken(widget)
    BY <1>6 DEF Anyone!Submit, busy
  <2>3. widget' \in Anyone!Widget
    BY <1>1, <2>2, WidgetTyped
  <2> HIDE DEF asked
  <2> QED
    BY <1>5, <1>6, <2>1, <2>2, <2>3
<1>7. CASE Anyone!SubmitRegister
  BY <1>4, <1>6, <1>7 DEF Anyone!SubmitRegister, none
<1>8. CASE Anyone!Resend
  BY <1>4, <1>6, <1>8 DEF Anyone!Resend, none
<1>9. CASE Anyone!SubmitForgot
  BY <1>4, <1>6, <1>9 DEF Anyone!SubmitForgot, none
<1>10. CASE Anyone!SubmitReset
  BY <1>1, <1>4, <1>5, <1>10 DEF Anyone!SubmitReset, none, busy
<1> QED
  BY <1>7, <1>8, <1>9, <1>10

\* The widget, the countdown, the clock, and whoever else has to do with the
\* address: the page waits on.
LEMMA AnyoneGoesOn ==
    ASSUME AnyoneInv, Anyone!WidgetMoves \/ Anyone!CountdownEnds \/ Anyone!World
    PROVE  AnyoneInv'
<1>1. AddressInv /\ page \in Anyone!Page /\ widget \in Anyone!Widget
  BY DEF AnyoneInv, PageTyped
<1>2. CASE Anyone!WidgetMoves
  <2>1. widget' \in Anyone!Widget
    BY <1>1, <1>2, WidgetTyped DEF Anyone!WidgetMoves
  <2>2. AddressInv' /\ AccountStays
    BY <1>1, <1>2, AddressFrame DEF Anyone!WidgetMoves
  <2> QED
    BY <1>1, <1>2, <2>1, <2>2, AnyoneStays DEF Anyone!WidgetMoves
<1>3. CASE Anyone!CountdownEnds
  <2>1. widget' \in Anyone!Widget
    BY <1>1, <1>3, WidgetTyped DEF Anyone!CountdownEnds
  <2>2. AddressInv' /\ AccountStays
    BY <1>1, <1>3, AddressFrame DEF Anyone!CountdownEnds
  <2>3. /\ page' = [page EXCEPT !.remaining = FALSE]
        /\ calls' = calls /\ made' = made
    BY <1>3 DEF Anyone!CountdownEnds
  <2>4. /\ page' \in Anyone!Page /\ page'.at = page.at /\ page'.invited = page.invited
        /\ page'.busy = page.busy /\ page'.checking = page.checking
    BY <1>1, <2>3 DEF Anyone!Page
  <2> QED
    BY <2>1, <2>2, <2>3, <2>4, AnyoneStays
<1>4. ASSUME AddressInv', AccountStays, UNCHANGED <<calls, made, page, widget>>
      PROVE  AnyoneInv'
  BY <1>1, <1>4, AnyoneStays
<1>5. CASE Anyone!Due
  <2>1. AddressInv' /\ AccountStays
    BY <1>1, <1>5 DEF Anyone!Due, AddressInv, LinksInv, AccountStays
  <2> QED
    BY <1>4, <1>5, <2>1 DEF Anyone!Due
<1>6. CASE Anyone!OtherRegisters
  <2>1. AddressInv' /\ AccountStays
    BY <1>1, <1>6, Registered DEF Anyone!OtherRegisters
  <2> QED
    BY <1>4, <1>6, <2>1 DEF Anyone!OtherRegisters
<1>7. CASE Anyone!Withdraw
  <2>1. AddressInv' /\ AccountStays
    BY <1>1, <1>7 DEF Anyone!Withdraw, AddressInv, LinksInv, AccountStays
  <2> QED
    BY <1>4, <1>7, <2>1 DEF Anyone!Withdraw
<1>8. ASSUME NEW t \in Token, Anyone!Expire(t)
      PROVE  AnyoneInv'
  <2>1. /\ LinksInv'
        /\ \A u \in Token : tokens'[u].state # "new" => tokens[u].state # "new"
    BY <1>1, <1>8, LinkUsed DEF Anyone!Expire, AddressInv
  <2>2. AddressInv' /\ AccountStays
    BY <1>1, <1>8, <2>1 DEF Anyone!Expire, AddressInv, AccountStays
  <2> QED
    BY <1>4, <1>8, <2>2 DEF Anyone!Expire
<1> QED
  BY <1>2, <1>3, <1>5, <1>6, <1>7, <1>8 DEF Anyone!World

\* The registration page is opened.
LEMMA AnyoneInit == Anyone!Init => AnyoneInv /\ AnyoneLate
<1> SUFFICES ASSUME Anyone!Init
             PROVE  AnyoneInv /\ AnyoneLate
  OBVIOUS
<1> DEFINE n == Anyone!Sent(0, "invitation", "invitation", Anyone!NoArg, "none")
<1>1. /\ account = [exists |-> FALSE, verified |-> FALSE, name |-> "typed"]
      /\ tokens = [t \in Token |-> [purpose |-> "none", state |-> "new"]]
      /\ due = TRUE /\ mailbox = {} /\ invite \in BOOLEAN
      /\ made = [calls |-> 0, lost |-> 0] /\ late = {}
      /\ calls = IF invite THEN {n} ELSE {}
      /\ page = [at |-> "register", with |-> invite, checking |-> invite, invited |-> FALSE,
                 link |-> 0, busy |-> FALSE, error |-> FALSE, remaining |-> FALSE]
      /\ widget = Anyone!NewWidget(TRUE)
  BY DEF Anyone!Init
<1>2. 0 \in 0..MaxAnonymous
  BY AccountsAssumption
<1>3. n \in AnyoneCall /\ n.what = "invitation" /\ n.out = "pending"
  BY <1>2 DEF Anyone!Sent, Anyone!NoArg, AnyoneCall, AnyoneArg
<1> HIDE DEF n
<1>4. LinksInv /\ \A t \in Token : tokens[t].state = "new"
  BY <1>1 DEF LinksInv, Anyone!Purpose
<1>5. AddressInv
  BY <1>1, <1>2, <1>4 DEF AddressInv
<1>6. page \in Anyone!Page /\ page.checking = invite /\ ~page.busy /\ page.at = "register"
  BY <1>1 DEF Anyone!Page, Anyone!Place
<1>7. PageTyped
  BY <1>1, <1>2, <1>3, <1>6 DEF PageTyped, Anyone!NewWidget, Anyone!Widget
<1>8. \A c \in calls : c = n /\ invite
  BY <1>1
<1>9. \A c \in calls : AnyoneCallIsKnown(c)
  BY <1>3, <1>6, <1>8 DEF AnyoneCallIsKnown
<1>10. page.busy \/ page.checking <=> calls # {}
  BY <1>1, <1>6
<1>11. OneCallAtATime
  BY <1>6, <1>8, <1>9, <1>10 DEF OneCallAtATime
<1>12. Anyone!PagesAreTrue
  BY <1>6 DEF Anyone!PagesAreTrue
<1> QED
  BY <1>1, <1>5, <1>7, <1>11, <1>12 DEF AnyoneInv, AnyoneLate

\* Every step of these pages and of their server keeps the invariant.
LEMMA AnyoneStep == AnyoneInv /\ AnyoneLate /\ Anyone!Next => AnyoneInv'
<1>1. ASSUME AnyoneInv, NEW c \in calls, Anyone!Answers(c) \/ Anyone!Drop(c)
      PROVE  AnyoneInv'
  BY <1>1, AnyoneServed, AnyoneTakesOrDrops DEF Anyone!Answers
<1>2. ASSUME AnyoneInv, AnyoneLate, NEW c \in late, Anyone!ServeLate(c)
      PROVE  AnyoneInv'
  BY <1>2, AnyoneServesLate
<1> QED
  BY <1>1, <1>2, AnyoneOpens, AnyoneSubmits, AnyoneGoesOn DEF Anyone!Next, Anyone!User

\* A step that touches nothing of these pages.
LEMMA AnyoneFrame ==
    AnyoneInv /\ AnyoneLate /\ UNCHANGED anyoneVars => AnyoneInv' /\ AnyoneLate'
<1> SUFFICES ASSUME AnyoneInv, AnyoneLate, UNCHANGED anyoneVars
             PROVE  AnyoneInv' /\ AnyoneLate'
  OBVIOUS
<1>1. AddressInv' /\ AccountStays
  BY AddressFrame DEF AnyoneInv, anyoneVars, Anyone!Server
<1>2. AnyoneLate'
  BY DEF AnyoneLate, anyoneVars
<1> QED
  BY <1>1, <1>2, AnyoneStays DEF AnyoneInv, PageTyped, anyoneVars

\* The invariant has the type invariant of SignUp in it.
LEMMA AnyoneIsTyped == AnyoneInv => Anyone!TypeOK
  BY DEF AnyoneInv, AddressInv, LinksInv, PageTyped, OneCallAtATime, Anyone!TypeOK

-----------------------------------------------------------------------------
(* The pages about an account, one of them at a time. *)

AccountsInv ==
    /\ route \in {"settings", "anyone"}
    /\ SettingsInv /\ SettingsLate
    /\ AnyoneInv /\ AnyoneLate

\* The inductive invariant holds in every state: whichever page is shown, the
\* other is as it was.
LEMMA AccountsInvariant == AccountsSpec => []AccountsInv
<1>1. AccountsInit => AccountsInv
  BY SettingsInit, AnyoneInit DEF AccountsInit, AccountsInv
<1>2. AccountsInv /\ [AccountsNext]_accountsVars => AccountsInv'
  <2> SUFFICES ASSUME AccountsInv, [AccountsNext]_accountsVars
               PROVE  AccountsInv'
    OBVIOUS
  <2>1. CASE OnSettings
    BY <2>1, SettingsStep, SettingsLateStays, AnyoneFrame DEF AccountsInv, OnSettings
  <2>2. CASE OnAnyone
    BY <2>2, SettingsFrame, AnyoneStep, AnyoneLateStays DEF AccountsInv, OnAnyone
  <2>3. CASE UNCHANGED accountsVars
    BY <2>3, SettingsFrame, AnyoneFrame DEF AccountsInv, accountsVars
  <2> QED
    BY <2>1, <2>2, <2>3 DEF AccountsNext
<1> QED
  BY <1>1, <1>2, PTL DEF AccountsSpec

\* What the account's pages say is so, whatever is asked for at the same time, is
\* lost on the way, or is done to the address by somebody else, and however often.
THEOREM AccountPagesAreTrue == AccountsSpec => []PagesTellTheTruth
<1>1. AccountsInv => PagesTellTheTruth
  BY SettingsShows DEF AccountsInv, AnyoneInv, PagesTellTheTruth
<1> QED
  BY <1>1, AccountsInvariant, PTL

\* The pages and what the server stores of an account stay well-formed; a section
\* or a form is busy exactly while its call is in flight, and of each kind one
\* mailed link works at most.
THEOREM AccountsAreTyped == AccountsSpec => []AccountsTypeOK
<1>1. AccountsInv => AccountsTypeOK
  BY SettingsAreTyped, AnyoneIsTyped DEF AccountsInv, AccountsTypeOK
<1> QED
  BY <1>1, AccountsInvariant, PTL

=============================================================================
