------------------------------- MODULE Accounts -------------------------------
(***************************************************************************)
(* The pages about an account, as web/src/App.tsx puts one of them on the  *)
(* screen: those that anybody may open (SignUp), or Settings, which        *)
(* RequireUser shows only to somebody who is signed in and leaves when     *)
(* that is no longer so.  A page that is opened starts anew.               *)
(*                                                                         *)
(* The definitions carry the module's name, so that BrowserProofs can      *)
(* extend this module and Handoff.                                         *)
(***************************************************************************)
EXTENDS Naturals

CONSTANTS
    Token,         \* bound: email tokens
    Enabled,       \* whether the server has Turnstile on
    MaxCalls,      \* bound: changes asked for on the settings page
    MaxAnonymous,  \* bound: calls of the other pages
    MaxLost        \* bound: calls that fail on the way

ASSUME AccountsAssumption ==
    /\ Token \subseteq Nat \ {0}
    /\ Enabled \in BOOLEAN
    /\ {MaxCalls, MaxAnonymous, MaxLost} \subseteq Nat

VARIABLES
    route,   \* what the router shows
    row, scalls, slate, smade, spage, doubt,
    account, tokens, due, invite, mailbox, calls, late, made, page, widget

Signed == INSTANCE Settings WITH calls <- scalls, late <- slate, made <- smade, page <- spage

Anyone == INSTANCE SignUp WITH MaxCalls <- MaxAnonymous

signedVars == <<row, scalls, slate, smade, spage, doubt>>
anyoneVars == <<account, tokens, due, invite, mailbox, calls, late, made, page, widget>>

accountsVars == <<route, signedVars, anyoneVars>>

\* The route that is opened; the pages of the other are not there.
AccountsInit ==
    /\ route \in {"settings", "anyone"}
    /\ Signed!Init /\ Anyone!Init
    /\ route = "anyone" => row.totp = "off"
    /\ route = "settings" => ~invite

OnSettings == route = "settings" /\ Signed!Next /\ UNCHANGED <<route, anyoneVars>>

OnAnyone == route = "anyone" /\ Anyone!Next /\ UNCHANGED <<route, signedVars>>

AccountsNext == OnSettings \/ OnAnyone

AccountsSpec == AccountsInit /\ [][AccountsNext]_accountsVars

\* The server and the page go on with a call; the clock of the page runs; the
\* script of the bot check answers.
AccountsFairness ==
    /\ WF_accountsVars(OnSettings /\ \E c \in scalls : Signed!Answers(c))
    /\ WF_accountsVars(OnAnyone /\ \E c \in calls : Anyone!Answers(c))
    /\ WF_accountsVars(OnAnyone /\ Anyone!CountdownEnds)
    /\ WF_accountsVars(OnAnyone /\ Anyone!WidgetMoves)

FairAccounts == AccountsSpec /\ AccountsFairness

-----------------------------------------------------------------------------
(* Properties. *)

AccountsTypeOK == route \in {"settings", "anyone"} /\ Signed!TypeOK /\ Anyone!TypeOK

\* What the account's pages say is so: at rest, Settings shows the account and
\* the recovery codes that work, whatever its sections did at the same time; and
\* a page that sends somebody on, or says that an account was made, is right.
PagesTellTheTruth == Signed!ShowsTheAccount /\ Anyone!PagesAreTrue

\* Every section and every form comes back, whatever becomes of its calls.
PagesComeToRest == (Signed!Working \/ Anyone!Working) ~> ~(Signed!Working \/ Anyone!Working)

\* ResendVerification.tsx:105: "You can request another link in" some minutes.
\* The code takes the widget away for the countdown and has none afterwards.
ResendReturns == Anyone!ResendReturns

=============================================================================
