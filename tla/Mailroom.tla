------------------------------- MODULE Mailroom -------------------------------
(***************************************************************************)
(* A conversation seen from its two ends: the owner's inbox                *)
(* (web/src/pages/Inbox.tsx), and a finder's browser, first on the scan    *)
(* page (MessageForm and LocationShare of pages/ScanPage.tsx) and then on  *)
(* the conversation (pages/RelayPage.tsx), against the handlers of         *)
(* api/relay.py and api/scan.py they call.                                 *)
(*                                                                         *)
(* Conversations only grow, so what a page shows of one is how many of its *)
(* messages.  Texts are numbered as they are typed.  A request is one step *)
(* of the server here; the module Relay is about what happens inside one.  *)
(***************************************************************************)
EXTENDS Naturals, FiniteSets, Sequences, Api, Turnstile

CONSTANTS
    Conv,       \* bound: conversations; the first one is another finder's
    Enabled,    \* whether the server has Turnstile on
    MaxTexts,   \* bound: texts that are typed
    MaxOwner,   \* bound: calls of the owner
    MaxFinder,  \* bound: calls of the finder
    MaxLost     \* bound: calls that fail on the way

\* There is a conversation for each message that opens one.
ASSUME MailroomAssumption ==
    /\ {Conv, MaxTexts, MaxOwner, MaxFinder, MaxLost} \subseteq Nat
    /\ Conv >= 2 /\ Conv > MaxFinder
    /\ Enabled \in BOOLEAN

VARIABLES
    threads,  \* server: the conversations
    told,     \* server: how often the finder's city was recorded
    calls,    \* calls in flight
    made,     \* number of texts typed, of calls made, and of those lost
    inbox,    \* state of Inbox
    finder,   \* state of MessageForm, LocationShare and RelayPage
    widget,   \* useTurnstile of MessageForm
    seen      \* history: how many messages of each conversation the owner knows:
              \* Inbox has shown them, or they are replies it has sent

vars == <<threads, told, calls, made, inbox, finder, widget, seen>>

\* 0 is no conversation, and no text.
Convs == 0..Conv
Text == 0..MaxTexts

\* A conversation; the first message of the first one was there before.
Thread == [opened : BOOLEAN, closed : BOOLEAN, unread : BOOLEAN, email : BOOLEAN]

\* _serialize_thread, and the list of list_threads.
View == [conv : Convs, shown : Nat, closed : BOOLEAN, email : BOOLEAN]
NoView == [conv |-> 0, shown |-> 0, closed |-> FALSE, email |-> FALSE]
Serialize(c) == [conv |-> c, shown |-> Len(threads[c].messages),
                 closed |-> threads[c].closed, email |-> threads[c].email]
List == [c \in 1..Conv |-> IF ~threads[c].opened THEN "absent"
                           ELSE IF threads[c].unread THEN "unread" ELSE "read"]
NoList == [c \in 1..Conv |-> "absent"]

\* useState of Inbox.
InboxState ==
    [list : [1..Conv -> {"absent", "read", "unread"}], open : View,
     reply : Text, busy : BOOLEAN]

\* useState of the finder's pages; text is the body of MessageForm or the reply.
FinderState ==
    [at : {"form", "sent", "conversation"}, conv : Convs, text : Text, busy : BOOLEAN,
     thread : View, location : {"idle", "busy", "sent", "declined"}]

Owners == {"list", "read", "reply"}

TypeOK ==
    /\ \A c \in 1..Conv :
        /\ [f \in DOMAIN threads[c] \ {"messages"} |-> threads[c][f]] \in Thread
        /\ \A i \in 1..Len(threads[c].messages) : threads[c].messages[i] \in Text
    /\ inbox \in InboxState
    /\ finder \in FinderState
    /\ widget \in Widget
    \* A form waits for as long as the calls of its handler are in flight.
    /\ inbox.busy <=> InFlight(calls, {"reply"}) # {}
    /\ finder.busy <=> InFlight(calls, {"form"}) # {}
    /\ (finder.location = "busy") => InFlight(calls, {"location"}) # {}

-----------------------------------------------------------------------------
(* The server. *)

Nothing == [view |-> NoView, list |-> NoList]

\* Requests the rate limits are about, which may refuse any of them.
Limited == {"message", "location", "reply", "relay", "answer", "stop"}

\* _guard_open; enforce for a new conversation.
Accepted(c) ==
    CASE c.what = "message" -> Genuine(c.arg.token, Enabled)
      [] c.what \in {"reply", "answer"} -> ~threads[c.arg.conv].closed
      [] OTHER -> TRUE

\* The next conversation.
Fresh == CHOOSE c \in 1..Conv : ~threads[c].opened /\ \A d \in 1..(c - 1) : threads[d].opened

\* (Mutant: the finder's reply does not touch last_message_at.)
AnsweredQuietly(c) ==
    [threads EXCEPT ![c.arg.conv].messages = Append(@, c.arg.text)]

\* reply_as_finder
AnsweredBy(c) ==
    [threads EXCEPT ![c.arg.conv].messages = Append(@, c.arg.text), ![c.arg.conv].unread = TRUE]

\* send_message, read_thread, reply_as_owner, reply_as_finder, stop_finder_email
Changed(c) ==
    CASE c.what = "message" ->
            [threads EXCEPT ![Fresh] = [opened |-> TRUE, closed |-> FALSE, unread |-> TRUE,
                                        email |-> TRUE, messages |-> <<c.arg.text>>]]
      [] c.what = "read" -> [threads EXCEPT ![c.arg.conv].unread = FALSE]
      [] c.what = "reply" ->
            [threads EXCEPT ![c.arg.conv].messages = Append(@, c.arg.text),
                            ![c.arg.conv].unread = FALSE]
      [] c.what = "answer" -> AnsweredBy(c)
      [] c.what = "stop" -> [threads EXCEPT ![c.arg.conv].email = FALSE]
      [] OTHER -> threads

\* A reply's own answer lists the messages _guard_length had loaded: not the reply.
Body(c) ==
    CASE c.what = "list" -> [Nothing EXCEPT !.list = List']
      [] c.what = "message" -> [Nothing EXCEPT !.view = [NoView EXCEPT !.conv = Fresh]]
      [] c.what = "location" -> Nothing
      [] c.what \in {"reply", "answer"} -> [Nothing EXCEPT !.view = Serialize(c.arg.conv)]
      [] OTHER -> [Nothing EXCEPT !.view = Serialize(c.arg.conv)']

Serve(c) ==
    /\ c.out = "pending"
    /\ \E ok \in {Accepted(c)} \cup (IF c.what \in Limited THEN {FALSE} ELSE {}) :
        /\ threads' = IF ok THEN Changed(c) ELSE threads
        /\ told' = IF ok /\ c.what = "location" THEN told + 1 ELSE told
        /\ calls' = (calls \ {c}) \cup {IF ok THEN Served(c, "ok", Body(c))
                                        ELSE Served(c, "refused", Nothing)}
    /\ UNCHANGED <<made, inbox, finder, widget, seen>>

\* The tag's code is replaced on another page: its conversations are closed.
Rotate ==
    /\ \E c \in 1..Conv : threads[c].opened /\ ~threads[c].closed
    /\ threads' = [c \in 1..Conv |-> [threads[c] EXCEPT !.closed = threads[c].opened]]
    /\ UNCHANGED <<told, calls, made, inbox, finder, widget, seen>>

-----------------------------------------------------------------------------
(* The owner's inbox. *)

NoArg == [conv |-> 0, text |-> 0, token |-> "none"]

AskFrom(side, max, who, what, arg) ==
    /\ made[side] < max
    /\ made' = [made EXCEPT ![side] = @ + 1]
    /\ calls' = calls \cup {Sent(<<side, made[side] + 1>>, who, what, arg, Nothing)}

OwnerAsks(who, what, arg) ==
    AskFrom("owner", MaxOwner, who, what, arg) /\ UNCHANGED <<threads, told, finder, widget, seen>>

\* With an empty list, the open conversation is not shown either.
Showing == \E c \in 1..Conv : inbox.list[c] # "absent"

\* open: clicks do not wait for one another.
Open(c) ==
    /\ inbox.list[c] # "absent"
    /\ OwnerAsks("read", "read", [NoArg EXCEPT !.conv = c])
    /\ UNCHANGED inbox

\* "All messages", on a phone.
Back ==
    /\ Showing /\ inbox.open # NoView
    /\ inbox' = [inbox EXCEPT !.open = NoView]
    /\ UNCHANGED <<threads, told, calls, made, finder, widget, seen>>

\* A new text is typed; Field stays enabled while a reply is on its way.
NewText ==
    /\ made["texts"] < MaxTexts
    /\ made' = [made EXCEPT !["texts"] = @ + 1]

TypeReply ==
    /\ Showing /\ inbox.open # NoView /\ ~inbox.open.closed
    /\ NewText
    /\ inbox' = [inbox EXCEPT !.reply = made'["texts"]]
    /\ UNCHANGED <<threads, told, calls, finder, widget, seen>>

\* The condition of the form and of its button.
MayReply == Showing /\ inbox.open # NoView /\ ~inbox.open.closed /\ ~inbox.busy /\ inbox.reply # 0

\* send: to the conversation that is open, whichever it was typed for.
Reply ==
    /\ MayReply
    /\ OwnerAsks("reply", "reply", [NoArg EXCEPT !.conv = inbox.open.conv, !.text = inbox.reply])
    /\ inbox' = [inbox EXCEPT !.busy = TRUE]

Over(c) == calls' = Without(calls, c)

\* loadThreads: a failure empties the list.
ListAnswer(c) ==
    /\ c.what = "list"
    /\ inbox' = [inbox EXCEPT !.list = c.body.list,
                              !.busy = IF c.who = "reply" THEN FALSE ELSE @]
    /\ Over(c)
    /\ UNCHANGED <<finder, widget, seen>>

\* What the owner knows of a conversation once the answer is shown: what it lists,
\* and the reply it answers.
Own(c) == IF c.what = "reply" THEN 1 ELSE 0
Known(c) == c.body.view.shown + Own(c)

\* open and send: the conversation is shown, whatever was opened meanwhile, the
\* text is cleared, whatever was typed meanwhile, and the list is loaded anew.
ThreadAnswer(c) ==
    /\ c.what \in {"read", "reply"} /\ c.out = "ok"
    /\ inbox' = [inbox EXCEPT !.open = c.body.view, !.reply = IF c.what = "reply" THEN 0 ELSE @]
    /\ seen' = [seen EXCEPT ![c.body.view.conv] =
                    IF Showing /\ Known(c) > @ THEN Known(c) ELSE @]
    /\ calls' = Without(calls, c) \cup {Sent(c.id, c.who, "list", NoArg, Nothing)}
    /\ UNCHANGED <<finder, widget>>

\* The catch of open and of send.
ThreadFails(c) ==
    /\ c.what \in {"read", "reply"} /\ c.out # "ok"
    /\ inbox' = [inbox EXCEPT !.busy = IF c.what = "reply" THEN FALSE ELSE @]
    /\ Over(c)
    /\ UNCHANGED <<finder, widget, seen>>

-----------------------------------------------------------------------------
(* The finder's pages. *)

FinderAsks(who, what, arg) ==
    AskFrom("finder", MaxFinder, who, what, arg) /\ UNCHANGED <<threads, told, inbox, seen>>

WidgetMoves ==
    /\ finder.at = "form"
    /\ widget' \in Moves(widget, Enabled)
    /\ UNCHANGED <<threads, told, calls, made, inbox, finder, seen>>

\* The field of the message, or of the reply.
TypeText ==
    /\ \/ finder.at = "form"
       \/ finder.at = "conversation" /\ finder.thread # NoView /\ ~finder.thread.closed
    /\ NewText
    /\ finder' = [finder EXCEPT !.text = made'["texts"]]
    /\ UNCHANGED <<threads, told, calls, inbox, widget, seen>>

\* (Mutant: the button of MessageForm is not disabled while a message is sent.)
MaySendAgain == finder.at = "form" /\ finder.text # 0 /\ Ready(widget)

\* The condition of MessageForm's button.
MaySend == finder.at = "form" /\ ~finder.busy /\ finder.text # 0 /\ Ready(widget)

\* send of MessageForm, with an address left for replies.
SendMessage ==
    /\ MaySend
    /\ FinderAsks("form", "message", [NoArg EXCEPT !.text = finder.text, !.token = widget.token])
    /\ finder' = [finder EXCEPT !.busy = TRUE]
    /\ widget' = SendsToken(widget)

\* share of LocationShare, and "No thanks", which stays enabled while sharing is
\* busy; the answer decides then.
ShareLocation ==
    /\ finder.at \in {"form", "sent"} /\ finder.location = "idle"
    /\ FinderAsks("location", "location", NoArg)
    /\ finder' = [finder EXCEPT !.location = "busy"]
    /\ UNCHANGED widget

DeclineLocation ==
    /\ finder.at \in {"form", "sent"} /\ finder.location \in {"idle", "busy"}
    /\ finder' = [finder EXCEPT !.location = "declined"]
    /\ UNCHANGED <<threads, told, calls, made, inbox, widget, seen>>

\* The link to the conversation, followed or reloaded once the page is at rest.
Follow ==
    /\ finder.conv # 0 /\ ~ \E c \in calls : c.id[1] = "finder"
    /\ FinderAsks("load", "relay", [NoArg EXCEPT !.conv = finder.conv])
    /\ finder' = [finder EXCEPT !.at = "conversation", !.text = 0, !.thread = NoView,
                                !.location = "idle"]
    /\ widget' = NewWidget(TRUE)

\* send and stopEmails of RelayPage share one flag.
AtRest == finder.at = "conversation" /\ finder.thread # NoView /\ ~finder.busy

Answer ==
    /\ AtRest /\ ~finder.thread.closed /\ finder.text # 0
    /\ FinderAsks("form", "answer", [NoArg EXCEPT !.conv = finder.conv, !.text = finder.text])
    /\ finder' = [finder EXCEPT !.busy = TRUE]
    /\ UNCHANGED widget

StopEmails ==
    /\ AtRest /\ finder.thread.email
    /\ FinderAsks("form", "stop", [NoArg EXCEPT !.conv = finder.conv])
    /\ finder' = [finder EXCEPT !.busy = TRUE]
    /\ UNCHANGED widget

\* What the finder's pages make of an outcome.
MessageAnswer(c) ==
    /\ c.what = "message"
    /\ finder' = IF c.out = "ok" THEN [finder EXCEPT !.at = "sent", !.conv = c.body.view.conv,
                                                     !.busy = FALSE]
                 ELSE [finder EXCEPT !.busy = FALSE]
    /\ widget' = Reset(widget)

\* Whatever went wrong, the page says that nothing was shared.
LocationAnswer(c) ==
    /\ c.what = "location"
    /\ finder' = [finder EXCEPT !.location = IF c.out = "ok" THEN "sent" ELSE "declined"]
    /\ UNCHANGED widget

ConversationAnswer(c) ==
    /\ c.what \in {"relay", "answer", "stop"}
    /\ finder' = [finder EXCEPT !.thread = IF c.out = "ok" THEN c.body.view ELSE @,
                                !.text = IF c.out = "ok" /\ c.what = "answer" THEN 0 ELSE @,
                                !.busy = IF c.who = "form" THEN FALSE ELSE @]
    /\ UNCHANGED widget

FinderAnswer(c) ==
    /\ MessageAnswer(c) \/ LocationAnswer(c) \/ ConversationAnswer(c)
    /\ Over(c)
    /\ UNCHANGED <<inbox, seen>>

Handle(c) == ListAnswer(c) \/ ThreadAnswer(c) \/ ThreadFails(c) \/ FinderAnswer(c)

Take(c) == c.out # "pending" /\ Handle(c) /\ UNCHANGED <<threads, told, made>>

\* fetch rejects, before or after the server served the call.
Drop(c) ==
    /\ made["lost"] < MaxLost
    /\ made' = [made EXCEPT !["lost"] = @ + 1]
    /\ LET d == [Lost(c) EXCEPT !.body = Nothing] IN
       ListAnswer(d) \/ ThreadFails(d) \/ FinderAnswer(d)
    /\ UNCHANGED <<threads, told>>

-----------------------------------------------------------------------------

\* The owner opens the inbox, with one conversation in it; the finder has just
\* scanned the bag, or comes back to a conversation by its link.
Init ==
    /\ \E back \in BOOLEAN :
        /\ threads = [c \in 1..Conv |->
                [opened |-> c = 1 \/ (back /\ c = 2), closed |-> FALSE, unread |-> TRUE,
                 email |-> back /\ c = 2,
                 messages |-> IF c = 1 \/ (back /\ c = 2) THEN <<0>> ELSE <<>>]]
        /\ finder = [at |-> IF back THEN "sent" ELSE "form", conv |-> IF back THEN 2 ELSE 0,
                     text |-> 0, busy |-> FALSE, thread |-> NoView,
                     location |-> "idle"]
    /\ told = 0
    /\ calls = {Sent(<<"owner", 0>>, "mount", "list", NoArg, Nothing)}
    /\ made = [what \in {"texts", "owner", "finder", "lost"} |-> 0]
    /\ inbox = [list |-> NoList, open |-> NoView, reply |-> 0, busy |-> FALSE]
    /\ widget = NewWidget(TRUE)
    /\ seen = [c \in 1..Conv |-> 0]

Owner == Back \/ TypeReply \/ Reply \/ \E c \in 1..Conv : Open(c)

Finder ==
    \/ WidgetMoves \/ TypeText \/ SendMessage \/ ShareLocation \/ DeclineLocation
    \/ Follow \/ Answer \/ StopEmails

Answers(c) == Serve(c) \/ Take(c)

Next == Owner \/ Finder \/ Rotate \/ \E c \in calls : Answers(c) \/ Drop(c)

Spec == Init /\ [][Next]_vars

-----------------------------------------------------------------------------
(* Properties. *)

\* Where the conversations have the text.
Copies(t) ==
    {p \in (1..Conv) \X (1..(MaxTexts + 2)) :
        p[2] <= Len(threads[p[1]].messages) /\ threads[p[1]].messages[p[2]] = t}

Times(t) == Cardinality(Copies(t))

\* What was typed once arrives once, and the city is recorded once, but for what
\* was sent again after its answer was lost: no form sends while it is sending.
NothingIsSentTwice ==
    /\ \A t \in Text \ {0} : Times(t) <= 1 + made["lost"]
    /\ told <= 1

\* With no answer lost, of a conversation marked as read the inbox has shown every
\* message, or the owner wrote it there: one that comes in between is new again.
ReadWasShown ==
    \A c \in 1..Conv :
        /\ threads[c].opened /\ ~threads[c].unread /\ made["lost"] = 0
        /\ \A d \in calls : d.what \in {"read", "reply"} => d.arg.conv # c
        => seen[c] = Len(threads[c].messages)

=============================================================================
