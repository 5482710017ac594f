---------------------------- MODULE MailroomProofs ----------------------------
(***************************************************************************)
(* Proofs about Mailroom, for any number of conversations, texts and       *)
(* calls: what is typed once arrives once however often answers are        *)
(* refused or late, and a conversation is marked as read only when it was  *)
(* shown.  Last, the types of everything.                                  *)
(***************************************************************************)
EXTENDS Mailroom, FiniteSetTheorems, TLAPS

Tokens == {"none", "fresh", "sent"}
Rows == [1..Conv -> {"absent", "read", "unread"}]

Calls ==
    [id : {"owner", "finder"} \X Nat,
     who : {"mount", "read", "reply", "form", "location", "load"},
     what : {"list", "read", "reply", "message", "location", "relay", "answer", "stop"},
     arg : [conv : Convs, text : Text, token : Tokens],
     out : {"pending", "ok", "refused"}, body : [view : View, list : Rows],
     crossed : BOOLEAN]

Threads ==
    [opened : BOOLEAN, closed : BOOLEAN, unread : BOOLEAN, email : BOOLEAN,
     messages : Seq(Text)]

\* Everything has its type.
Typed ==
    /\ threads \in [1..Conv -> Threads]
    /\ told \in Nat
    /\ calls \in SUBSET Calls
    /\ made \in [{"texts", "owner", "finder", "lost"} -> Nat]
    /\ made["texts"] <= MaxTexts /\ made["finder"] <= MaxFinder
    /\ inbox \in InboxState /\ finder \in FinderState /\ widget \in Widget
    /\ seen \in [1..Conv -> Nat]

\* A call is known by its number, and its number by who made it.
CallsAreApart ==
    /\ \A c, d \in calls : c.id = d.id => c = d
    /\ \A c \in calls :
        /\ c.id[2] <= made[c.id[1]]
        /\ c.id[1] = IF c.who \in {"form", "location", "load"} THEN "finder" ELSE "owner"

Opened(x) == x \in 1..Conv /\ threads[x].opened

\* The calls that carry a text.
Carries(c) == c.what \in {"reply", "message", "answer"}

\* What each part of a page asks for, and what it may be told.
CallsAreKnown ==
    \A c \in calls :
        /\ c.who = "mount" => c.what = "list"
        /\ c.who = "read" => c.what \in {"read", "list"}
        /\ c.who = "reply" => c.what \in {"reply", "list"}
        /\ c.who = "form" => c.what \in {"message", "answer", "stop"}
        /\ c.who = "location" => c.what = "location"
        /\ c.who = "load" => c.what = "relay"
        /\ c.what = "list" => c.out # "refused"
        /\ c.what \in {"read", "reply", "relay", "answer", "stop"} => Opened(c.arg.conv)
        /\ Carries(c) => c.arg.text # 0
        /\ c.what \in {"read", "reply", "relay", "answer", "stop"} /\ c.out = "ok" =>
            /\ c.body.view.conv = c.arg.conv
            /\ Known(c) <= Len(threads[c.arg.conv].messages)
        /\ c.what = "message" /\ c.out = "ok" => Opened(c.body.view.conv)
        /\ c.what = "list" /\ c.out = "ok" => c.body.list[1] # "absent"
        /\ \A x \in 1..Conv : c.body.list[x] # "absent" => threads[x].opened

\* A form waits for one call, and the page stays for it.
PagesWait ==
    /\ \A c, d \in calls : c.who = d.who /\ c.who \in {"reply", "form", "location"} => c = d
    /\ inbox.busy <=> \E c \in calls : c.who = "reply"
    /\ finder.busy <=> \E c \in calls : c.who = "form"
    /\ (finder.location = "busy") => \E c \in calls : c.who = "location"
    /\ \A c \in calls :
        /\ c.who = "location" => finder.location \in {"busy", "declined"}
        /\ c.what = "message" => finder.at = "form"
        /\ c.what \in {"relay", "answer", "stop"} => finder.at = "conversation"
        /\ c.what = "location" => finder.at \in {"form", "sent"}

\* The pages show conversations there are; the others are empty.
PagesKnow ==
    /\ threads[1].opened
    /\ \A x \in 1..Conv : ~threads[x].opened => Len(threads[x].messages) = 0
    /\ \A x \in 1..Conv : inbox.list[x] # "absent" => threads[x].opened
    /\ inbox.open # NoView => Opened(inbox.open.conv)
    /\ finder.conv # 0 => Opened(finder.conv)
    /\ finder.at \in {"sent", "conversation"} => finder.conv # 0

\* Conversations are opened in turn, and one is left for the next message.
RoomIsLeft ==
    finder.at = "form" =>
        \E n \in 1..Conv :
            /\ \A x \in 1..Conv : threads[x].opened <=> x <= n
            /\ n <= 1 + made["finder"]
            /\ (\E c \in calls : c.what = "message" /\ c.out = "pending") => n <= made["finder"]

\* Texts are numbered as they are typed, and each is typed on one side.
TextsAreApart ==
    /\ \A x \in 1..Conv : \A i \in 1..Len(threads[x].messages) :
            threads[x].messages[i] <= made["texts"]
    /\ \A c \in calls : Carries(c) => c.arg.text <= made["texts"]
    /\ inbox.reply <= made["texts"] /\ finder.text <= made["texts"]
    /\ inbox.reply # 0 => inbox.reply # finder.text
    /\ \A c \in calls : Carries(c) =>
        /\ c.who = "form" => c.arg.text # inbox.reply
        /\ c.who = "reply" => c.arg.text # finder.text
        /\ \A d \in calls : Carries(d) /\ d.arg.text = c.arg.text => c = d

\* The text may arrive yet: it is on its way, or in a field and not under way.
MayArrive(t) ==
    \/ \E c \in calls : Carries(c) /\ c.arg.text = t /\ c.out # "ok"
    \/ /\ t = inbox.reply \/ (t = finder.text /\ finder.at # "sent")
       /\ \A c \in calls : Carries(c) => c.arg.text # t

\* Each copy of a text beyond the first is due to a call that failed.
TextsArriveOnce ==
    \A t \in Text \ {0} :
        /\ Times(t) <= 1 + made["lost"]
        /\ MayArrive(t) => Times(t) <= made["lost"]

\* The city is recorded by the one call that may be made for it.
CityIsToldOnce ==
    /\ told <= 1
    /\ finder.location = "idle" /\ finder.at # "conversation" => told = 0
    /\ (\E c \in calls : c.what = "location" /\ c.out # "ok") => told = 0

\* An answer will show the conversation to its end.
WillShow(x) ==
    \E c \in calls :
        /\ c.what \in {"read", "reply"} /\ c.out = "ok" /\ c.arg.conv = x
        /\ Known(c) = Len(threads[x].messages)

\* What is marked as read has been shown, or is about to be.
ReadIsShown ==
    /\ \A x \in 1..Conv : seen[x] <= Len(threads[x].messages)
    /\ made["lost"] = 0 =>
        /\ (\E c \in calls : c.what \in {"read", "reply"}) => Showing
        /\ \A x \in 1..Conv : threads[x].opened /\ ~threads[x].unread =>
                seen[x] = Len(threads[x].messages) \/ WillShow(x)

MailroomInv ==
    /\ Typed /\ CallsAreApart /\ CallsAreKnown /\ PagesWait /\ PagesKnow /\ RoomIsLeft
    /\ TextsAreApart /\ TextsArriveOnce /\ CityIsToldOnce /\ ReadIsShown

-----------------------------------------------------------------------------
(* Types. *)

Parts == {"mount", "read", "reply", "form", "location", "load"}
Operations == {"list", "read", "reply", "message", "location", "relay", "answer", "stop"}
Args == [conv : Convs, text : Text, token : Tokens]
Bodies == [view : View, list : Rows]
Ids == {"owner", "finder"} \X Nat
Places == {"form", "sent", "conversation"}
Locations == {"idle", "busy", "sent", "declined"}

\* A call has its type whatever part of a page it is of.
LEMMA CallFields ==
    Calls = [id : Ids, who : Parts, what : Operations, arg : Args,
             out : {"pending", "ok", "refused"}, body : Bodies, crossed : BOOLEAN]
  BY DEF Calls, Ids, Parts, Operations, Args, Bodies

\* ... and so do the finder's pages.
LEMMA FinderFields ==
    FinderState = [at : Places, conv : Convs, text : Text, busy : BOOLEAN,
                   thread : View, location : Locations]
  BY DEF FinderState, Places, Locations

\* What is small is of its type.
LEMMA SmallTypes ==
    /\ 0 \in Text /\ 0 \in Convs /\ \A x \in 1..Conv : x \in Convs /\ x \in Nat
    /\ 1 \in 1..Conv /\ 2 \in 1..Conv
    /\ NoView \in View /\ NoList \in Rows
    /\ Nothing \in Bodies /\ Nothing.view = NoView /\ Nothing.list = NoList
    /\ \A x \in 1..Conv : NoList[x] = "absent"
    /\ NoArg \in Args
<1>1. /\ Conv \in Nat /\ MaxTexts \in Nat /\ Conv >= 2
  BY MailroomAssumption
<1>2. /\ 0 \in Text /\ 0 \in Convs /\ \A x \in 1..Conv : x \in Convs /\ x \in Nat
      /\ 1 \in 1..Conv /\ 2 \in 1..Conv
  BY <1>1 DEF Text, Convs
<1>3. NoView \in View
  BY <1>2 DEF NoView, View
<1>4. NoList \in Rows /\ \A x \in 1..Conv : NoList[x] = "absent"
  BY DEF NoList, Rows
<1>5. Nothing \in Bodies /\ Nothing.view = NoView /\ Nothing.list = NoList
  BY <1>3, <1>4 DEF Nothing, Bodies
<1>6. NoArg \in Args
  BY <1>2 DEF NoArg, Args, Tokens
<1> QED
  BY <1>2, <1>3, <1>4, <1>5, <1>6

\* A call that is sent.
LEMMA SentCall ==
    ASSUME NEW id \in Ids, NEW who \in Parts, NEW what \in Operations, NEW arg \in Args
    PROVE  LET n == Sent(id, who, what, arg, Nothing) IN
           /\ n \in Calls /\ n.id = id /\ n.who = who /\ n.what = what /\ n.arg = arg
           /\ n.out = "pending" /\ n.body = Nothing
<1>1. Nothing \in Bodies
  BY SmallTypes
<1> HIDE DEF Nothing
<1> QED
  BY <1>1, CallFields DEF Sent

\* A call is of one page or the other.
LEMMA CallForms ==
    ASSUME MailroomInv, NEW c \in calls
    PROVE  /\ c \in Calls /\ c.id \in Ids /\ c.who \in Parts /\ c.what \in Operations
           /\ c.arg \in Args /\ c.arg.conv \in Convs /\ c.arg.text \in Text
           /\ c.out \in {"pending", "ok", "refused"}
           /\ c.body \in Bodies /\ c.body.view \in View /\ c.body.list \in Rows
           /\ c.body.view.shown \in Nat /\ c.body.view.conv \in Convs
           /\ Own(c) \in {0, 1} /\ Known(c) \in Nat
           /\ c.what = "reply" => c.who = "reply"
           /\ c.what = "read" => c.who = "read"
           /\ c.what \in {"message", "answer", "stop"} <=> c.who = "form"
           /\ c.what = "location" <=> c.who = "location"
           /\ c.what = "relay" <=> c.who = "load"
           /\ c.who \in {"form", "location", "load"} <=> c.id[1] = "finder"
           /\ c.who \in {"mount", "read", "reply"} <=> c.id[1] = "owner"
<1>1. c \in Calls
  BY DEF MailroomInv, Typed
<1>2. /\ c.id \in Ids /\ c.who \in Parts /\ c.what \in Operations
      /\ c.arg \in Args /\ c.out \in {"pending", "ok", "refused"} /\ c.body \in Bodies
  BY <1>1, CallFields
<1>3. c.arg.conv \in Convs /\ c.arg.text \in Text
  BY <1>2 DEF Args
<1>4. c.body.view \in View /\ c.body.list \in Rows
  BY <1>2 DEF Bodies
<1>5. c.body.view.shown \in Nat /\ c.body.view.conv \in Convs
  BY <1>4 DEF View
<1>8. Own(c) \in {0, 1} /\ Known(c) \in Nat
  BY <1>5 DEF Own, Known
<1>6. /\ c.who = "mount" => c.what = "list"
      /\ c.who = "read" => c.what \in {"read", "list"}
      /\ c.who = "reply" => c.what \in {"reply", "list"}
      /\ c.who = "form" => c.what \in {"message", "answer", "stop"}
      /\ c.who = "location" => c.what = "location"
      /\ c.who = "load" => c.what = "relay"
  BY DEF MailroomInv, CallsAreKnown
<1>7. c.id[1] = IF c.who \in {"form", "location", "load"} THEN "finder" ELSE "owner"
  BY DEF MailroomInv, CallsAreApart
<1> QED
  BY <1>1, <1>2, <1>3, <1>4, <1>5, <1>6, <1>7, <1>8 DEF Parts

\* Everything the provers need of the state.
LEMMA StateForms ==
    ASSUME MailroomInv
    PROVE  /\ threads \in [1..Conv -> Threads] /\ told \in Nat
           /\ made \in [{"texts", "owner", "finder", "lost"} -> Nat]
           /\ made["texts"] \in Nat /\ made["owner"] \in Nat /\ made["finder"] \in Nat
           /\ made["lost"] \in Nat
           /\ inbox.list \in Rows /\ inbox.open \in View /\ inbox.reply \in Text
           /\ inbox.busy \in BOOLEAN
           /\ finder.at \in Places /\ finder.conv \in Convs /\ finder.text \in Text
           /\ finder.busy \in BOOLEAN /\ finder.location \in Locations
           /\ \A x \in 1..Conv : /\ threads[x].messages \in Seq(Text)
                                 /\ Len(threads[x].messages) \in Nat
                                 /\ threads[x].opened \in BOOLEAN
                                 /\ threads[x].unread \in BOOLEAN
                                 /\ seen[x] \in Nat
<1>1. Typed
  BY DEF MailroomInv
<1>2. /\ threads \in [1..Conv -> Threads] /\ told \in Nat
      /\ made \in [{"texts", "owner", "finder", "lost"} -> Nat]
      /\ inbox \in InboxState /\ finder \in FinderState /\ seen \in [1..Conv -> Nat]
  BY <1>1 DEF Typed
<1>3. /\ inbox.list \in Rows /\ inbox.open \in View /\ inbox.reply \in Text
      /\ inbox.busy \in BOOLEAN
  BY <1>2 DEF InboxState, Rows
<1>4. /\ finder.at \in Places /\ finder.conv \in Convs /\ finder.text \in Text
      /\ finder.busy \in BOOLEAN /\ finder.location \in Locations
  BY <1>2, FinderFields
<1>5. \A x \in 1..Conv : /\ threads[x].messages \in Seq(Text)
                         /\ Len(threads[x].messages) \in Nat
                         /\ threads[x].opened \in BOOLEAN
                         /\ threads[x].unread \in BOOLEAN
  BY <1>2 DEF Threads
<1> QED
  BY <1>2, <1>3, <1>4, <1>5
-----------------------------------------------------------------------------
(* A call is sent. *)

\* A part of a page that waits for nothing sends a call; it sends only texts that
\* are in its field, about conversations there are.
Asks(side, max, who, what, arg) ==
    /\ AskFrom(side, max, who, what, arg)
    /\ (side = "finder") <=> who \in {"form", "location", "load"}
    /\ side = "finder" => max = MaxFinder
    /\ UNCHANGED <<threads, told, seen>>
    /\ who = "read" => what = "read"
    /\ who = "reply" => what = "reply" /\ arg.text = inbox.reply
    /\ who = "form" => what \in {"message", "answer", "stop"}
    /\ who = "location" => what = "location" /\ finder.at \in {"form", "sent"}
    /\ who = "load" => what = "relay" /\ \A c \in calls : c.id[1] # "finder"
    /\ what \in {"read", "reply", "relay", "answer", "stop"} => Opened(arg.conv)
    /\ what \in {"read", "reply"} => Showing
    /\ what = "message" => finder.at = "form"
    /\ what \in {"answer", "stop"} => finder.at = "conversation"
    /\ what \in {"message", "answer"} => arg.text = finder.text
    /\ what \in {"reply", "message", "answer"} => arg.text # 0
    /\ who = "reply" => ~inbox.busy
    /\ who = "form" => ~finder.busy
    /\ who = "location" => finder.location = "idle"
    /\ inbox' \in InboxState /\ finder' \in FinderState /\ widget' \in Widget
    /\ UNCHANGED <<inbox.list, inbox.open, inbox.reply, finder.conv>>
    /\ inbox'.busy <=> inbox.busy \/ who = "reply"
    /\ finder'.busy <=> finder.busy \/ who = "form"
    /\ who = "load" => /\ finder'.at = "conversation" /\ finder'.text = 0
                       /\ finder'.location = "idle" /\ finder.conv # 0
    /\ who # "load" => UNCHANGED <<finder.at, finder.text>>
    /\ who \notin {"load", "location"} => UNCHANGED finder.location
    /\ who = "location" => finder'.location = "busy"

\* Then the invariant holds of what is left.
LEMMA AskStep ==
    ASSUME MailroomInv, NEW side \in {"owner", "finder"}, NEW max,
           NEW who \in {"read", "reply", "form", "location", "load"}, NEW what \in Operations,
           NEW arg \in Args, Asks(side, max, who, what, arg)
    PROVE  MailroomInv'
<1> DEFINE n == Sent(<<side, made[side] + 1>>, who, what, arg, Nothing)
<1>1. /\ made \in [{"texts", "owner", "finder", "lost"} -> Nat] /\ made[side] \in Nat
      /\ made["texts"] \in Nat /\ made["finder"] \in Nat
  BY StateForms
<1>2. /\ made[side] < max /\ made' = [made EXCEPT ![side] = @ + 1] /\ calls' = calls \cup {n}
  BY DEF Asks, AskFrom
<1>3. /\ n \in Calls /\ n.id = <<side, made[side] + 1>> /\ n.who = who /\ n.what = what
      /\ n.arg = arg /\ n.out = "pending" /\ n.body = Nothing
  <2>1. <<side, made[side] + 1>> \in Ids /\ who \in Parts
    BY <1>1 DEF Ids, Parts
  <2> QED
    BY <2>1, SentCall
<1> HIDE DEF n
<1>4. /\ made' \in [{"texts", "owner", "finder", "lost"} -> Nat]
      /\ made'["texts"] = made["texts"] /\ made'["lost"] = made["lost"]
      /\ made'[side] = made[side] + 1 /\ \A s \in {"owner", "finder"} : made'[s] >= made[s]
      /\ made'["finder"] <= MaxFinder
      /\ side = "owner" => made'["finder"] = made["finder"]
  <2>1. made["finder"] <= MaxFinder /\ MaxFinder \in Nat /\ (side = "finder" => max = MaxFinder)
    BY MailroomAssumption DEF Asks, MailroomInv, Typed
  <2> QED
    BY <1>1, <1>2, <2>1
<1>5. /\ UNCHANGED <<threads, told, seen>> /\ inbox'.list = inbox.list
      /\ inbox'.open = inbox.open /\ inbox'.reply = inbox.reply /\ finder'.conv = finder.conv
      /\ inbox'.busy <=> inbox.busy \/ who = "reply"
      /\ finder'.busy <=> finder.busy \/ who = "form"
      /\ (side = "finder") <=> who \in {"form", "location", "load"}
  BY DEF Asks
<1>6. \A e \in calls' : e \in calls \/ e = n
  BY <1>2
<1>7. \A c \in calls : /\ c \in Calls /\ c.id \in Ids
                       /\ c.who \in {"form", "location", "load"} <=> c.id[1] = "finder"
                       /\ c.what \in {"message", "answer", "stop"} <=> c.who = "form"
                       /\ c.what = "location" <=> c.who = "location"
                       /\ c.what = "reply" => c.who = "reply"
                       /\ c.what = "relay" <=> c.who = "load"
  BY CallForms
<1>8. \A c \in calls : c.who = who => who = "read"
  <2>1. \A c \in calls : /\ c.who = "reply" => inbox.busy
                         /\ c.who = "form" => finder.busy
                         /\ c.who = "location" => finder.location \in {"busy", "declined"}
    BY DEF MailroomInv, PagesWait
  <2> QED
    BY <1>7, <2>1 DEF Asks
<1>9. Typed'
  BY <1>3, <1>4, <1>5, <1>6 DEF MailroomInv, Typed, Asks
<1>10. CallsAreApart'
  <2>1. /\ \A c, d \in calls : c.id = d.id => c = d
        /\ \A c \in calls : /\ c.id[2] <= made[c.id[1]]
                            /\ c.id[1] = IF c.who \in {"form", "location", "load"}
                                         THEN "finder" ELSE "owner"
    BY DEF MailroomInv, CallsAreApart
  <2>2. n.id[1] = side /\ n.id[2] = made[side] + 1
    BY <1>3
  <2>3. \A c \in calls : c.id # n.id /\ c.id[2] <= made'[c.id[1]]
    <3> SUFFICES ASSUME NEW c \in calls
                 PROVE  c.id # n.id /\ c.id[2] <= made'[c.id[1]]
      OBVIOUS
    <3>1. c.id[1] \in {"owner", "finder"} /\ c.id[2] \in Nat
      BY <1>7 DEF Ids
    <3>2. made[c.id[1]] \in Nat /\ made'[c.id[1]] \in Nat /\ made'[c.id[1]] >= made[c.id[1]]
      BY <1>1, <1>4, <3>1
    <3>3. c.id[2] <= made[c.id[1]]
      BY <2>1
    <3> QED
      BY <1>1, <2>2, <3>1, <3>2, <3>3
  <2>4. n.id[2] <= made'[n.id[1]]
    BY <1>1, <1>4, <2>2
  <2>5. n.id[1] = IF n.who \in {"form", "location", "load"} THEN "finder" ELSE "owner"
    BY <1>3, <1>5, <2>2
  <2> QED
    BY <1>6, <2>1, <2>3, <2>4, <2>5 DEF CallsAreApart
<1>11. CallsAreKnown'
  <2>1. \A x \in 1..Conv : Nothing.list[x] = "absent"
    BY SmallTypes
  <2>2. /\ who = "read" => what = "read"
        /\ who = "reply" => what = "reply"
        /\ who = "form" => what \in {"message", "answer", "stop"}
        /\ who = "location" => what = "location"
        /\ who = "load" => what = "relay"
        /\ what \in {"read", "reply", "relay", "answer", "stop"} => Opened(arg.conv)
        /\ what \in {"reply", "message", "answer"} => arg.text # 0
    BY DEF Asks
  <2>3. \A e \in calls' : e = n =>
        /\ e.who = "mount" => e.what = "list"
        /\ e.who = "read" => e.what \in {"read", "list"}
        /\ e.who = "reply" => e.what \in {"reply", "list"}
        /\ e.who = "form" => e.what \in {"message", "answer", "stop"}
        /\ e.who = "location" => e.what = "location"
        /\ e.who = "load" => e.what = "relay"
        /\ e.out = "pending"
        /\ e.what \in {"read", "reply", "relay", "answer", "stop"} => Opened(e.arg.conv)
        /\ Carries(e) => e.arg.text # 0
        /\ \A x \in 1..Conv : e.body.list[x] = "absent"
    BY <1>3, <2>1, <2>2 DEF Carries
  <2> QED
    BY <1>5, <1>6, <2>3 DEF MailroomInv, CallsAreKnown, Opened, Carries
<1>12. PagesWait'
  <2>1. \A c, d \in calls' : c.who = d.who /\ c.who \in {"reply", "form", "location"} => c = d
    BY <1>3, <1>6, <1>8 DEF MailroomInv, PagesWait
  <2>2. \A x \in {"reply", "form", "location"} :
            (\E e \in calls' : e.who = x) <=> (who = x \/ \E c \in calls : c.who = x)
    BY <1>2, <1>3, <1>6
  <2>3. inbox'.busy <=> \E c \in calls' : c.who = "reply"
    BY <1>5, <2>2 DEF MailroomInv, PagesWait
  <2>4. finder'.busy <=> \E c \in calls' : c.who = "form"
    BY <1>5, <2>2 DEF MailroomInv, PagesWait
  <2>5. (finder'.location = "busy") => \E c \in calls' : c.who = "location"
    <3>1. (finder.location = "busy") => \E c \in calls : c.who = "location"
      BY DEF MailroomInv, PagesWait
    <3>2. who = "load" => ~ \E c \in calls : c.who = "location"
      BY <1>7 DEF Asks
    <3> QED
      BY <2>2, <3>1, <3>2 DEF Asks
  <2>6. \A c \in calls' :
        /\ c.what = "message" => finder'.at = "form"
        /\ c.what \in {"relay", "answer", "stop"} => finder'.at = "conversation"
        /\ c.what = "location" => finder'.at \in {"form", "sent"}
        /\ c.who = "location" => finder'.location \in {"busy", "declined"}
    <3>1. \A c \in calls :
            /\ c.who = "location" => finder.location \in {"busy", "declined"}
            /\ c.what = "message" => finder.at = "form"
            /\ c.what \in {"relay", "answer", "stop"} => finder.at = "conversation"
            /\ c.what = "location" => finder.at \in {"form", "sent"}
            /\ who = "load" => /\ c.who # "location"
                               /\ c.what \notin {"message", "answer", "stop", "relay", "location"}
      BY <1>7 DEF MailroomInv, PagesWait, Asks
    <3> QED
      BY <1>3, <1>6, <3>1 DEF Asks
  <2> QED
    BY <2>1, <2>3, <2>4, <2>5, <2>6 DEF PagesWait
<1>13. PagesKnow'
  BY <1>5 DEF MailroomInv, PagesKnow, Opened, Asks
<1>14. RoomIsLeft'
  <2> SUFFICES ASSUME finder'.at = "form"
               PROVE  \E m \in 1..Conv :
                        /\ \A x \in 1..Conv : threads[x].opened <=> x <= m
                        /\ m <= 1 + made'["finder"]
                        /\ (\E c \in calls' : c.what = "message" /\ c.out = "pending") =>
                                m <= made'["finder"]
    BY <1>5 DEF RoomIsLeft
  <2>1. finder.at = "form"
    BY DEF Asks
  <2>2. PICK m \in 1..Conv :
            /\ \A x \in 1..Conv : threads[x].opened <=> x <= m
            /\ m <= 1 + made["finder"]
            /\ (\E c \in calls : c.what = "message" /\ c.out = "pending") => m <= made["finder"]
    BY <2>1 DEF MailroomInv, RoomIsLeft
  <2>3. m \in Nat /\ made'["finder"] \in Nat
    BY <1>4, SmallTypes
  <2>4. m <= 1 + made'["finder"]
    BY <1>1, <1>4, <2>2, <2>3
  <2>5. ASSUME \E c \in calls' : c.what = "message" /\ c.out = "pending"
        PROVE  m <= made'["finder"]
    <3>1. CASE what = "message"
      <4>1. side = "finder"
        BY <1>5, <3>1 DEF Asks
      <4> QED
        BY <1>1, <1>4, <2>2, <2>3, <4>1
    <3>2. CASE what # "message"
      BY <1>1, <1>3, <1>4, <1>6, <2>2, <2>3, <2>5, <3>2
    <3> QED
      BY <3>1, <3>2
  <2> QED
    BY <2>2, <2>4, <2>5
<1>15. TextsAreApart'
  <2>1. TextsAreApart /\ finder'.text \in {finder.text, 0} /\ (who # "load" => finder'.text = finder.text)
    BY DEF MailroomInv, Asks
  <2>2. Carries(n) => /\ who \in {"reply", "form"} /\ arg.text # 0
                      /\ arg.text = IF who = "reply" THEN inbox.reply ELSE finder.text
    BY <1>3 DEF Asks, Carries
  <2>3. \A c \in calls : Carries(c) /\ Carries(n) => c.arg.text # arg.text
    <3> SUFFICES ASSUME NEW c \in calls, Carries(c), Carries(n)
                 PROVE  c.arg.text # arg.text
      OBVIOUS
    <3>1. c.who \in {"reply", "form"} /\ c.who # who
      BY <1>7, <1>8, <2>2 DEF Carries
    <3> QED
      BY <2>1, <2>2, <3>1 DEF TextsAreApart
  <2>4. 0 <= made["texts"] /\ (inbox.reply # 0 => inbox.reply # finder.text)
        /\ inbox.reply <= made["texts"] /\ finder.text <= made["texts"]
    BY <1>1, <2>1 DEF TextsAreApart
  <2>5. \A c \in calls : Carries(c) =>
            /\ c.arg.text <= made["texts"] /\ c.arg.text # 0
            /\ c.who = "form" => c.arg.text # inbox.reply
            /\ c.who = "reply" => c.arg.text # finder.text
    BY <2>1 DEF TextsAreApart, MailroomInv, CallsAreKnown
  <2>6. Carries(n) => /\ n.arg.text <= made["texts"]
                      /\ n.who = "form" => n.arg.text # inbox.reply
                      /\ n.who = "reply" => n.arg.text # finder'.text
    BY <1>3, <2>1, <2>2, <2>4
  <2>7. \A c, d \in calls' : Carries(c) /\ Carries(d) /\ d.arg.text = c.arg.text => c = d
    BY <1>3, <1>6, <2>1, <2>3 DEF TextsAreApart
  <2>8. \A c \in calls' : Carries(c) =>
            /\ c.arg.text <= made["texts"]
            /\ c.who = "form" => c.arg.text # inbox.reply
            /\ c.who = "reply" => c.arg.text # finder'.text
    BY <1>6, <2>1, <2>5, <2>6
  <2>9. /\ inbox.reply # 0 => inbox.reply # finder'.text
        /\ finder'.text <= made["texts"]
    BY <2>1, <2>4
  <2> QED
    BY <1>4, <1>5, <2>1, <2>4, <2>7, <2>8, <2>9 DEF TextsAreApart, Carries
<1>16. TextsArriveOnce'
  <2> SUFFICES ASSUME NEW t \in Text \ {0}, MayArrive(t)'
               PROVE  MayArrive(t)
    BY <1>4, <1>5 DEF MailroomInv, TextsArriveOnce, Times, Copies
  <2>1. CASE \E c \in calls : Carries(c) /\ c.arg.text = t /\ c.out # "ok"
    BY <2>1 DEF MayArrive
  <2>2. CASE Carries(n) /\ arg.text = t
    <3>1. who \in {"reply", "form"} /\ arg.text = IF who = "reply" THEN inbox.reply ELSE finder.text
      BY <1>3, <2>2 DEF Asks, Carries
    <3>2. who = "form" => finder.at # "sent"
      BY <1>3, <2>2 DEF Asks, Carries
    <3>3. \A c \in calls : Carries(c) => c.arg.text # t
      BY <1>7, <1>8, <2>2, <3>1 DEF MailroomInv, TextsAreApart, Carries
    <3> QED
      BY <2>2, <3>1, <3>2, <3>3 DEF MayArrive
  <2>3. CASE /\ t = inbox'.reply \/ (t = finder'.text /\ finder'.at # "sent")
             /\ \A c \in calls' : Carries(c) => c.arg.text # t
    <3>1. \A c \in calls : Carries(c) => c.arg.text # t
      BY <1>2, <2>3
    <3>2. t = inbox.reply \/ (t = finder.text /\ finder.at # "sent")
      BY <1>5, <2>3 DEF Asks
    <3> QED
      BY <3>1, <3>2 DEF MayArrive
  <2> QED
    BY <1>3, <1>6, <2>1, <2>2, <2>3 DEF MayArrive, Carries
<1>17. CityIsToldOnce'
  BY <1>3, <1>5, <1>6 DEF MailroomInv, CityIsToldOnce, Asks
<1>18. ReadIsShown'
  <2>1. Showing' <=> Showing
    BY <1>5 DEF Showing
  <2>2. (\E e \in calls' : e.what \in {"read", "reply"}) =>
            Showing \/ \E c \in calls : c.what \in {"read", "reply"}
    BY <1>3, <1>6 DEF Asks
  <2>3. \A x \in 1..Conv : WillShow(x) => WillShow(x)'
    BY <1>2, <1>5 DEF WillShow
  <2> QED
    BY <1>4, <1>5, <2>1, <2>2, <2>3 DEF MailroomInv, ReadIsShown
<1> QED
  BY <1>9, <1>10, <1>11, <1>12, <1>13, <1>14, <1>15, <1>16, <1>17, <1>18 DEF MailroomInv

\* The pages with one field changed.
LEMMA PagesChange ==
    ASSUME MailroomInv
    PROVE  /\ inbox \in InboxState /\ finder \in FinderState /\ widget \in Widget
           /\ LET i == [inbox EXCEPT !.busy = TRUE] IN
              /\ i \in InboxState /\ i.list = inbox.list /\ i.open = inbox.open
              /\ i.reply = inbox.reply /\ i.busy
           /\ LET f == [finder EXCEPT !.busy = TRUE] IN
              /\ f \in FinderState /\ f.at = finder.at /\ f.conv = finder.conv
              /\ f.text = finder.text /\ f.busy /\ f.location = finder.location
           /\ \A to \in Locations :
              LET f == [finder EXCEPT !.location = to] IN
              /\ f \in FinderState /\ f.at = finder.at /\ f.conv = finder.conv
              /\ f.text = finder.text /\ f.busy = finder.busy /\ f.location = to
           /\ LET f == [finder EXCEPT !.at = "conversation", !.text = 0, !.thread = NoView,
                                      !.location = "idle"] IN
              /\ f \in FinderState /\ f.at = "conversation" /\ f.conv = finder.conv
              /\ f.text = 0 /\ f.busy = finder.busy /\ f.location = "idle"
<1>1. inbox \in InboxState /\ finder \in FinderState /\ widget \in Widget
  BY DEF MailroomInv, Typed
<1>2. LET i == [inbox EXCEPT !.busy = TRUE] IN
      /\ i \in InboxState /\ i.list = inbox.list /\ i.open = inbox.open
      /\ i.reply = inbox.reply /\ i.busy
  BY <1>1 DEF InboxState
<1>3. LET f == [finder EXCEPT !.busy = TRUE] IN
      /\ f \in FinderState /\ f.at = finder.at /\ f.conv = finder.conv
      /\ f.text = finder.text /\ f.busy /\ f.location = finder.location
  BY <1>1, FinderFields
<1>4. \A to \in Locations :
      LET f == [finder EXCEPT !.location = to] IN
      /\ f \in FinderState /\ f.at = finder.at /\ f.conv = finder.conv
      /\ f.text = finder.text /\ f.busy = finder.busy /\ f.location = to
  BY <1>1, FinderFields
<1>5. LET f == [finder EXCEPT !.at = "conversation", !.text = 0, !.thread = NoView,
                              !.location = "idle"] IN
      /\ f \in FinderState /\ f.at = "conversation" /\ f.conv = finder.conv
      /\ f.text = 0 /\ f.busy = finder.busy /\ f.location = "idle"
  <2>1. 0 \in Text /\ NoView \in View /\ "conversation" \in Places /\ "idle" \in Locations
    BY SmallTypes DEF Places, Locations
  <2> HIDE DEF NoView
  <2> QED
    BY <1>1, <2>1, FinderFields
<1> QED
  BY <1>1, <1>2, <1>3, <1>4, <1>5

\* What is sent along with a call.
LEMMA ArgsTyped ==
    /\ \A c \in Convs : LET a == [NoArg EXCEPT !.conv = c] IN
                        a \in Args /\ a.conv = c /\ a.text = 0
    /\ \A c \in Convs, t \in Text : LET a == [NoArg EXCEPT !.conv = c, !.text = t] IN
                                    a \in Args /\ a.conv = c /\ a.text = t
    /\ \A t \in Text, k \in Tokens : LET a == [NoArg EXCEPT !.text = t, !.token = k] IN
                                     a \in Args /\ a.conv = 0 /\ a.text = t
<1>1. NoArg \in Args
  BY SmallTypes
<1>2. NoArg.conv = 0 /\ NoArg.text = 0
  BY DEF NoArg
<1> HIDE DEF NoArg
<1> QED
  BY <1>1, <1>2 DEF Args

\* Where the token is, and the widget after it was sent.
LEMMA WidgetTyped ==
    ASSUME widget \in Widget
    PROVE  /\ widget.token \in Tokens /\ SendsToken(widget) \in Widget
           /\ Reset(widget) \in Widget /\ \A mounted \in BOOLEAN : NewWidget(mounted) \in Widget
<1>1. widget.token \in Tokens
  BY DEF Widget, Tokens
<1>2. SendsToken(widget) \in Widget
  <2> DEFINE token == IF widget.token = "none" THEN "none" ELSE "sent"
  <2>1. token \in {"none", "fresh", "sent"} /\ SendsToken(widget) = [widget EXCEPT !.token = token]
    BY DEF SendsToken, Widget
  <2> HIDE DEF token
  <2> QED
    BY <2>1 DEF Widget
<1>3. Reset(widget) \in Widget /\ \A mounted \in BOOLEAN : NewWidget(mounted) \in Widget
  BY DEF Reset, NewWidget, Widget
<1> QED
  BY <1>1, <1>2, <1>3

\* Every button of the two sides that sends something.
LEMMA SendSteps ==
    ASSUME MailroomInv,
           \/ Reply \/ SendMessage \/ ShareLocation \/ Follow \/ Answer \/ StopEmails
           \/ \E c \in 1..Conv : Open(c)
    PROVE  MailroomInv'
<1>1. /\ inbox \in InboxState /\ finder \in FinderState /\ widget \in Widget
      /\ inbox.reply \in Text /\ finder.text \in Text /\ finder.conv \in Convs
      /\ inbox.open \in View /\ PagesKnow /\ inbox.busy \in BOOLEAN /\ finder.busy \in BOOLEAN
  BY PagesChange, StateForms DEF MailroomInv
<1>2. /\ \A x \in 1..Conv : x \in Convs
      /\ {"read", "reply", "message", "location", "relay", "answer", "stop"} \subseteq Operations
      /\ "busy" \in Locations
  BY SmallTypes DEF Operations, Locations
<1>3. ASSUME NEW c \in 1..Conv, Open(c) PROVE MailroomInv'
  <2> DEFINE arg == [NoArg EXCEPT !.conv = c]
  <2>1. arg \in Args /\ arg.conv = c
    BY <1>2, ArgsTyped
  <2>2. /\ AskFrom("owner", MaxOwner, "read", "read", arg)
        /\ inbox.list[c] # "absent" /\ UNCHANGED <<threads, told, finder, widget, seen, inbox>>
    BY <1>3 DEF Open, OwnerAsks
  <2> HIDE DEF arg
  <2>3. Opened(arg.conv) /\ Showing
    BY <1>1, <2>1, <2>2 DEF PagesKnow, Opened, Showing
  <2>4. Asks("owner", MaxOwner, "read", "read", arg)
    BY <1>1, <2>2, <2>3 DEF Asks
  <2> QED
    BY <1>2, <2>1, <2>4, AskStep
<1>4. CASE Reply
  <2> DEFINE arg == [NoArg EXCEPT !.conv = inbox.open.conv, !.text = inbox.reply]
             busy == [inbox EXCEPT !.busy = TRUE]
  <2>1. Opened(inbox.open.conv) /\ Showing /\ ~inbox.busy /\ inbox.reply # 0
    BY <1>1, <1>4 DEF Reply, MayReply, PagesKnow
  <2>2. arg \in Args /\ arg.conv = inbox.open.conv /\ arg.text = inbox.reply
    <3>1. inbox.open.conv \in Convs /\ inbox.reply \in Text
      BY <1>1, <1>2, <2>1 DEF Opened
    <3> HIDE DEF NoArg
    <3> QED
      BY ZenonT(30), <3>1, ArgsTyped
  <2>3. /\ AskFrom("owner", MaxOwner, "reply", "reply", arg) /\ inbox' = busy
        /\ UNCHANGED <<threads, told, finder, widget, seen>>
    BY <1>4 DEF Reply, OwnerAsks
  <2>4. /\ busy \in InboxState /\ busy.list = inbox.list /\ busy.open = inbox.open
        /\ busy.reply = inbox.reply /\ busy.busy
    BY PagesChange
  <2> HIDE DEF arg, busy
  <2>5. Asks("owner", MaxOwner, "reply", "reply", arg)
    BY <1>1, <2>1, <2>2, <2>3, <2>4 DEF Asks
  <2> QED
    BY <1>2, <2>2, <2>5, AskStep
<1>5. CASE SendMessage
  <2> DEFINE arg == [NoArg EXCEPT !.text = finder.text, !.token = widget.token]
             busy == [finder EXCEPT !.busy = TRUE]
  <2>1. finder.at = "form" /\ ~finder.busy /\ finder.text # 0
    BY <1>5 DEF SendMessage, MaySend
  <2>2. arg \in Args /\ arg.text = finder.text
    BY <1>1, ArgsTyped, WidgetTyped
  <2>3. /\ AskFrom("finder", MaxFinder, "form", "message", arg) /\ finder' = busy
        /\ widget' \in Widget /\ UNCHANGED <<threads, told, inbox, seen>>
    BY <1>1, <1>5, WidgetTyped DEF SendMessage, FinderAsks
  <2>4. /\ busy \in FinderState /\ busy.at = finder.at /\ busy.conv = finder.conv
        /\ busy.text = finder.text /\ busy.busy /\ busy.location = finder.location
    BY PagesChange
  <2> HIDE DEF arg, busy
  <2>5. Asks("finder", MaxFinder, "form", "message", arg)
    BY <1>1, <2>1, <2>2, <2>3, <2>4 DEF Asks
  <2> QED
    BY <1>2, <2>2, <2>5, AskStep
<1>6. CASE ShareLocation
  <2> DEFINE busy == [finder EXCEPT !.location = "busy"]
  <2>1. finder.at \in {"form", "sent"} /\ finder.location = "idle"
    BY <1>6 DEF ShareLocation
  <2>2. NoArg \in Args
    BY SmallTypes
  <2>3. /\ AskFrom("finder", MaxFinder, "location", "location", NoArg) /\ finder' = busy
        /\ widget' = widget /\ UNCHANGED <<threads, told, inbox, seen>>
    BY <1>6 DEF ShareLocation, FinderAsks
  <2>4. /\ busy \in FinderState /\ busy.at = finder.at /\ busy.conv = finder.conv
        /\ busy.text = finder.text /\ busy.busy = finder.busy /\ busy.location = "busy"
    BY <1>2, PagesChange
  <2> HIDE DEF busy, NoArg
  <2>5. Asks("finder", MaxFinder, "location", "location", NoArg)
    BY <1>1, <2>1, <2>2, <2>3, <2>4 DEF Asks
  <2> QED
    BY <1>2, <2>2, <2>5, AskStep
<1>7. CASE Follow
  <2> DEFINE arg == [NoArg EXCEPT !.conv = finder.conv]
             next == [finder EXCEPT !.at = "conversation", !.text = 0, !.thread = NoView,
                                    !.location = "idle"]
  <2>1. finder.conv # 0 /\ \A c \in calls : c.id[1] # "finder"
    BY <1>7 DEF Follow
  <2>2. arg \in Args /\ arg.conv = finder.conv
    BY <1>1, ArgsTyped
  <2>3. /\ AskFrom("finder", MaxFinder, "load", "relay", arg) /\ finder' = next
        /\ widget' \in Widget /\ UNCHANGED <<threads, told, inbox, seen>>
    BY <1>1, <1>7, WidgetTyped DEF Follow, FinderAsks
  <2>4. /\ next \in FinderState /\ next.at = "conversation" /\ next.conv = finder.conv
        /\ next.text = 0 /\ next.busy = finder.busy /\ next.location = "idle"
    BY PagesChange
  <2> HIDE DEF arg, next
  <2>5. Asks("finder", MaxFinder, "load", "relay", arg)
    BY <1>1, <2>1, <2>2, <2>3, <2>4 DEF Asks, PagesKnow
  <2> QED
    BY <1>2, <2>2, <2>5, AskStep
<1>8. CASE Answer \/ StopEmails
  <2> DEFINE busy == [finder EXCEPT !.busy = TRUE]
             spoken == [NoArg EXCEPT !.conv = finder.conv, !.text = finder.text]
             quiet == [NoArg EXCEPT !.conv = finder.conv]
  <2>1. finder.at = "conversation" /\ ~finder.busy /\ Opened(finder.conv)
    BY <1>1, <1>8 DEF Answer, StopEmails, AtRest, PagesKnow
  <2>2. /\ spoken \in Args /\ spoken.conv = finder.conv /\ spoken.text = finder.text
        /\ quiet \in Args /\ quiet.conv = finder.conv
    <3> HIDE DEF NoArg
    <3>1. finder.conv \in Convs /\ finder.text \in Text
      BY <1>1
    <3>2. spoken \in Args /\ spoken.conv = finder.conv /\ spoken.text = finder.text
      BY ZenonT(30), <3>1, ArgsTyped
    <3>3. quiet \in Args /\ quiet.conv = finder.conv
      BY <3>1, ArgsTyped
    <3> QED
      BY <3>2, <3>3
  <2>3. /\ \/ AskFrom("finder", MaxFinder, "form", "answer", spoken) /\ finder.text # 0
           \/ AskFrom("finder", MaxFinder, "form", "stop", quiet)
        /\ finder' = busy /\ widget' = widget /\ UNCHANGED <<threads, told, inbox, seen>>
    BY <1>8 DEF Answer, StopEmails, FinderAsks
  <2>4. /\ busy \in FinderState /\ busy.at = finder.at /\ busy.conv = finder.conv
        /\ busy.text = finder.text /\ busy.busy /\ busy.location = finder.location
    BY PagesChange
  <2> HIDE DEF spoken, quiet, busy
  <2>5. \/ Asks("finder", MaxFinder, "form", "answer", spoken)
        \/ Asks("finder", MaxFinder, "form", "stop", quiet)
    BY <1>1, <2>1, <2>2, <2>3, <2>4 DEF Asks
  <2> QED
    BY <1>2, <2>2, <2>5, AskStep
<1> QED
  BY <1>3, <1>4, <1>5, <1>6, <1>7, <1>8
-----------------------------------------------------------------------------
(* A call is served. *)

\* An answer keeps what it answers.
LEMMA ServedCall ==
    ASSUME NEW c \in Calls, NEW out \in {"ok", "refused"}, NEW body \in Bodies
    PROVE  LET s == Served(c, out, body) IN
           /\ s \in Calls /\ s.id = c.id /\ s.who = c.who /\ s.what = c.what /\ s.arg = c.arg
           /\ s.out = out /\ s.body = body
  BY CallFields DEF Served

\* What a request may do to the conversations, and say of them.
Serves(c, out, body) ==
    /\ calls' = (calls \ {c}) \cup {Served(c, out, body)}
    /\ UNCHANGED <<made, inbox, finder, widget, seen>>
    /\ threads' \in [1..Conv -> Threads]
    /\ told' = IF out = "ok" /\ c.what = "location" THEN told + 1 ELSE told
    /\ \A x \in 1..Conv :
        /\ Len(threads[x].messages) <= Len(threads'[x].messages)
        /\ threads[x].opened => threads'[x].opened
        /\ ~threads'[x].opened => Len(threads'[x].messages) = 0
        /\ \A i \in 1..Len(threads'[x].messages) : threads'[x].messages[i] <= made["texts"]
        /\ body.list[x] # "absent" => threads'[x].opened
        /\ threads'[x].opened /\ ~threads'[x].unread =>
            \/ /\ threads[x].opened /\ ~threads[x].unread
               /\ Len(threads'[x].messages) = Len(threads[x].messages)
            \/ out = "ok" /\ c.what \in {"read", "reply"} /\ c.arg.conv = x
    /\ \A t \in Text \ {0} :
        Times(t)' <= IF out = "ok" /\ Carries(c) /\ c.arg.text = t
                     THEN Times(t) + 1 ELSE Times(t)
    /\ IF out = "ok" /\ c.what = "message" THEN RoomIsLeft'
       ELSE \A x \in 1..Conv : threads'[x].opened = threads[x].opened
    /\ out = "ok" /\ c.what \in {"read", "reply", "relay", "answer", "stop"} =>
        /\ body.view.conv = c.arg.conv
        /\ body.view.shown + Own(c) <= Len(threads'[c.arg.conv].messages)
    /\ out = "ok" /\ c.what \in {"read", "reply"} =>
        body.view.shown + Own(c) = Len(threads'[c.arg.conv].messages)
    /\ out = "ok" /\ c.what = "message" => Opened(body.view.conv)'
    /\ c.what = "list" => out = "ok" /\ body.list[1] # "absent"

\* How often a text has arrived is a number.
LEMMA TimesTyped ==
    ASSUME NEW t
    PROVE  /\ Times(t) \in Nat /\ IsFiniteSet(Copies(t))
           /\ Times(t)' \in Nat /\ IsFiniteSet(Copies(t)')
<1>1. Conv \in Nat /\ MaxTexts + 2 \in Nat
  BY MailroomAssumption
<1>2. IsFiniteSet(1..Conv) /\ IsFiniteSet(1..(MaxTexts + 2))
  BY <1>1, FS_Interval
<1>3. IsFiniteSet((1..Conv) \X (1..(MaxTexts + 2)))
  BY <1>2, FS_Product
<1>4. IsFiniteSet(Copies(t)) /\ IsFiniteSet(Copies(t)')
  BY <1>3, FS_Subset DEF Copies
<1> QED
  BY <1>4, FS_CardinalityType DEF Times

\* Then the invariant holds of what is left.
LEMMA ServedStep ==
    ASSUME MailroomInv, NEW c \in calls, c.out = "pending", NEW out \in {"ok", "refused"},
           NEW body \in Bodies, Serves(c, out, body)
    PROVE  MailroomInv'
<1> DEFINE s == Served(c, out, body)
<1>1. /\ s \in Calls /\ s.id = c.id /\ s.who = c.who /\ s.what = c.what /\ s.arg = c.arg
      /\ s.out = out /\ s.body = body
  BY CallForms, ServedCall
<1>2. calls' = (calls \ {c}) \cup {s}
  BY DEF Serves
<1> HIDE DEF s
<1>3. /\ UNCHANGED <<made, inbox, finder, widget, seen>>
      /\ \A x \in 1..Conv : /\ Len(threads[x].messages) <= Len(threads'[x].messages)
                            /\ threads[x].opened => threads'[x].opened
                            /\ Len(threads'[x].messages) \in Nat
                            /\ Len(threads[x].messages) \in Nat
                            /\ seen[x] \in Nat
      /\ threads' \in [1..Conv -> Threads]
  <2>1. threads' \in [1..Conv -> Threads]
    BY DEF Serves
  <2>2. \A x \in 1..Conv : Len(threads'[x].messages) \in Nat
    BY <2>1 DEF Threads
  <2> QED
    BY <2>1, <2>2, StateForms DEF Serves
<1>4. \A e \in calls' : (e \in calls /\ e # c) \/ e = s
  BY <1>2
<1>5. s \in calls' /\ \A e \in calls : e # c => e \in calls'
  BY <1>2
<1>6. told \in Nat /\ told' \in Nat
  BY StateForms DEF Serves
<1>7. Typed'
  BY <1>1, <1>3, <1>4, <1>6 DEF MailroomInv, Typed
<1>8. CallsAreApart'
  BY <1>1, <1>3, <1>4 DEF MailroomInv, CallsAreApart
<1>9. CallsAreKnown'
  <2>1. \A x : Opened(x) => Opened(x)' /\ Len(threads[x].messages) <= Len(threads'[x].messages)
    BY <1>3 DEF Opened
  <2>2. CallsAreKnown
    BY DEF MailroomInv
  <2> SUFFICES ASSUME NEW e \in calls'
               PROVE  /\ e.who = "mount" => e.what = "list"
                      /\ e.who = "read" => e.what \in {"read", "list"}
                      /\ e.who = "reply" => e.what \in {"reply", "list"}
                      /\ e.who = "form" => e.what \in {"message", "answer", "stop"}
                      /\ e.who = "location" => e.what = "location"
                      /\ e.who = "load" => e.what = "relay"
                      /\ e.what = "list" => e.out # "refused"
                      /\ e.what \in {"read", "reply", "relay", "answer", "stop"} =>
                            Opened(e.arg.conv)'
                      /\ Carries(e) => e.arg.text # 0
                      /\ e.what \in {"read", "reply", "relay", "answer", "stop"} /\ e.out = "ok" =>
                            /\ e.body.view.conv = e.arg.conv
                            /\ Known(e) <= Len(threads'[e.arg.conv].messages)
                      /\ e.what = "message" /\ e.out = "ok" => Opened(e.body.view.conv)'
                      /\ e.what = "list" /\ e.out = "ok" => e.body.list[1] # "absent"
                      /\ \A x \in 1..Conv : e.body.list[x] # "absent" => threads'[x].opened
    BY DEF CallsAreKnown, Opened, Carries
  <2>3. CASE e \in calls
    <3>1. /\ e.what \in {"read", "reply", "relay", "answer", "stop"} => Opened(e.arg.conv)
          /\ e.what \in {"read", "reply", "relay", "answer", "stop"} /\ e.out = "ok" =>
                            /\ e.body.view.conv = e.arg.conv
                            /\ Known(e) <= Len(threads[e.arg.conv].messages)
          /\ e.what = "message" /\ e.out = "ok" => Opened(e.body.view.conv)
          /\ \A x \in 1..Conv : e.body.list[x] # "absent" => threads[x].opened
      BY <2>2, <2>3 DEF CallsAreKnown
    <3>2. Known(e) \in Nat
      BY <2>3, CallForms
    <3>3. e.what \in {"read", "reply", "relay", "answer", "stop"} /\ e.out = "ok" =>
                /\ e.body.view.conv = e.arg.conv
                /\ Known(e) <= Len(threads'[e.arg.conv].messages)
      BY <1>3, <3>1, <3>2 DEF Opened
    <3> QED
      BY <1>3, <2>1, <2>2, <2>3, <3>1, <3>3 DEF CallsAreKnown
  <2>4. CASE e = s
    <3>1. /\ c.who = "mount" => c.what = "list"
          /\ c.who = "read" => c.what \in {"read", "list"}
          /\ c.who = "reply" => c.what \in {"reply", "list"}
          /\ c.who = "form" => c.what \in {"message", "answer", "stop"}
          /\ c.who = "location" => c.what = "location"
          /\ c.who = "load" => c.what = "relay"
          /\ c.what \in {"read", "reply", "relay", "answer", "stop"} => Opened(c.arg.conv)
          /\ Carries(c) => c.arg.text # 0
      BY <2>2 DEF CallsAreKnown
    <3>2. /\ \A x \in 1..Conv : body.list[x] # "absent" => threads'[x].opened
          /\ out = "ok" /\ c.what \in {"read", "reply", "relay", "answer", "stop"} =>
                /\ body.view.conv = c.arg.conv
                /\ body.view.shown + Own(c) <= Len(threads'[c.arg.conv].messages)
          /\ out = "ok" /\ c.what = "message" => Opened(body.view.conv)'
          /\ c.what = "list" => out = "ok" /\ body.list[1] # "absent"
      BY DEF Serves
    <3>3. Carries(s) <=> Carries(c)
      BY <1>1 DEF Carries
    <3>4. c.what \in {"read", "reply", "relay", "answer", "stop"} =>
            Len(threads'[c.arg.conv].messages) \in Nat
      BY <1>3, <3>1 DEF Opened
    <3>5. Known(s) = body.view.shown + Own(c)
      BY <1>1 DEF Known, Own
    <3> QED
      BY <1>1, <2>1, <2>4, <3>1, <3>2, <3>3, <3>4, <3>5
  <2> QED
    BY <1>4, <2>3, <2>4
<1>10. PagesWait'
  <2>1. \A w \in Parts : (\E e \in calls' : e.who = w) <=> (\E d \in calls : d.who = w)
    BY <1>1, <1>2
  <2>2. "reply" \in Parts /\ "form" \in Parts /\ "location" \in Parts
    BY DEF Parts
  <2>3. inbox'.busy <=> \E e \in calls' : e.who = "reply"
    BY <1>3, <2>1, <2>2 DEF MailroomInv, PagesWait
  <2>4. finder'.busy <=> \E e \in calls' : e.who = "form"
    BY <1>3, <2>1, <2>2 DEF MailroomInv, PagesWait
  <2>5. (finder'.location = "busy") => \E e \in calls' : e.who = "location"
    BY <1>3, <2>1, <2>2 DEF MailroomInv, PagesWait
  <2>6. \A e, f \in calls' : e.who = f.who /\ e.who \in {"reply", "form", "location"} => e = f
    BY <1>1, <1>4 DEF MailroomInv, PagesWait
  <2> QED
    BY <1>1, <1>3, <1>4, <2>3, <2>4, <2>5, <2>6 DEF MailroomInv, PagesWait
<1>11. PagesKnow'
  <2>1. \A x : Opened(x) => Opened(x)'
    BY <1>3 DEF Opened
  <2>2. 1 \in 1..Conv
    BY SmallTypes
  <2> QED
    BY <1>3, <2>1, <2>2 DEF MailroomInv, PagesKnow, Serves
<1>12. RoomIsLeft'
  <2>1. CASE ~(out = "ok" /\ c.what = "message")
    <3>1. \A x \in 1..Conv : threads'[x].opened = threads[x].opened
      BY <2>1 DEF Serves
    <3>2. (\E e \in calls' : e.what = "message" /\ e.out = "pending")
            => \E d \in calls : d.what = "message" /\ d.out = "pending"
      BY <1>1, <1>4
    <3> QED
      BY <1>3, <3>1, <3>2 DEF MailroomInv, RoomIsLeft
  <2> QED
    BY <2>1 DEF Serves
<1>13. TextsAreApart'
  <2>1. Carries(s) <=> Carries(c)
    BY <1>1 DEF Carries
  <2>2. \A x \in 1..Conv : \A i \in 1..Len(threads'[x].messages) :
            threads'[x].messages[i] <= made["texts"]
    BY DEF Serves
  <2>3. TextsAreApart
    BY DEF MailroomInv
  <2>4. \A e \in calls' : Carries(e) =>
        /\ e.arg.text <= made["texts"]
        /\ e.who = "form" => e.arg.text # inbox.reply
        /\ e.who = "reply" => e.arg.text # finder.text
        /\ \A d \in calls' : Carries(d) /\ d.arg.text = e.arg.text => e = d
    BY <1>1, <1>4, <2>1, <2>3 DEF TextsAreApart
  <2> QED
    BY <1>3, <2>2, <2>3, <2>4 DEF TextsAreApart, Carries
<1>14. TextsArriveOnce'
  <2> SUFFICES ASSUME NEW t \in Text \ {0}
               PROVE  /\ Times(t)' <= 1 + made["lost"]
                      /\ MayArrive(t)' => Times(t)' <= made["lost"]
    BY <1>3 DEF TextsArriveOnce
  <2>1. /\ Times(t) \in Nat /\ made["lost"] \in Nat
        /\ Times(t) <= 1 + made["lost"] /\ (MayArrive(t) => Times(t) <= made["lost"])
    BY StateForms, TimesTyped DEF MailroomInv, TextsArriveOnce
  <2>2. Times(t)' \in Nat
    BY TimesTyped
  <2>3. Times(t)' <= IF out = "ok" /\ Carries(c) /\ c.arg.text = t THEN Times(t) + 1 ELSE Times(t)
    BY DEF Serves
  <2>4. Carries(s) <=> Carries(c)
    BY <1>1 DEF Carries
  <2>5. CASE out = "ok" /\ Carries(c) /\ c.arg.text = t
    <3>1. MayArrive(t)
      BY <2>5 DEF MayArrive
    <3>2. ~MayArrive(t)'
      <4>1. \A e \in calls' : Carries(e) /\ e.arg.text = t => e = s
        BY <1>4, <2>5 DEF MailroomInv, TextsAreApart
      <4>2. s.arg.text = t /\ s.out = "ok" /\ Carries(s)
        BY <1>1, <2>4, <2>5
      <4> QED
        BY <1>5, <4>1, <4>2 DEF MayArrive, Carries
    <3> QED
      BY <2>1, <2>2, <2>3, <2>5, <3>1, <3>2
  <2>6. CASE ~(out = "ok" /\ Carries(c) /\ c.arg.text = t)
    <3>1. Times(t)' <= Times(t)
      BY <2>3, <2>6
    <3>2. ASSUME MayArrive(t)' PROVE MayArrive(t)
      <4>1. CASE \E e \in calls' : Carries(e) /\ e.arg.text = t /\ e.out # "ok"
        <5>1. \E d \in calls : Carries(d) /\ d.arg.text = t /\ d.out # "ok"
          BY <1>1, <1>4, <2>4, <4>1
        <5> QED
          BY <5>1 DEF MayArrive
      <4>2. CASE /\ t = inbox'.reply \/ (t = finder'.text /\ finder'.at # "sent")
                 /\ \A e \in calls' : Carries(e) => e.arg.text # t
        <5>1. \A d \in calls : Carries(d) => d.arg.text # t
          BY <1>1, <1>5, <2>4, <4>2
        <5> QED
          BY <1>3, <4>2, <5>1 DEF MayArrive
      <4> QED
        BY <3>2, <4>1, <4>2 DEF MayArrive, Carries
    <3> QED
      BY <2>1, <2>2, <3>1, <3>2
  <2> QED
    BY <2>5, <2>6
<1>15. CityIsToldOnce'
  <2>1. CityIsToldOnce
    BY DEF MailroomInv
  <2>2. CASE out = "ok" /\ c.what = "location"
    <3>1. told = 0
      BY <2>1, <2>2 DEF CityIsToldOnce
    <3>2. told' = told + 1
      BY <2>2 DEF Serves
    <3>3. told' = 1
      BY <3>1, <3>2
    <3>4. c.who = "location" /\ finder.location \in {"busy", "declined"}
      BY <2>2, CallForms DEF MailroomInv, PagesWait
    <3>5. \A e \in calls' : e.what = "location" => e.out = "ok"
      <4> SUFFICES ASSUME NEW e \in calls', e.what = "location", e # s
                   PROVE  FALSE
        BY <1>1, <2>2
      <4>1. e \in calls /\ e # c
        BY <1>4
      <4>2. e.who = "location"
        BY <4>1, CallForms
      <4> QED
        BY <3>4, <4>1, <4>2 DEF MailroomInv, PagesWait
    <3> QED
      BY <1>3, <3>3, <3>4, <3>5 DEF CityIsToldOnce
  <2>3. CASE ~(out = "ok" /\ c.what = "location")
    <3>1. told' = told
      BY <2>3 DEF Serves
    <3>2. (\E e \in calls' : e.what = "location" /\ e.out # "ok") =>
            \E d \in calls : d.what = "location" /\ d.out # "ok"
      BY <1>1, <1>4
    <3> QED
      BY <1>3, <2>1, <3>1, <3>2 DEF CityIsToldOnce
  <2> QED
    BY <2>2, <2>3
<1>16. ReadIsShown'
  <2>1. ReadIsShown
    BY DEF MailroomInv
  <2>2. \A x \in 1..Conv : seen[x] <= Len(threads'[x].messages)
    BY <1>3, <2>1 DEF ReadIsShown
  <2>3. (\E e \in calls' : e.what \in {"read", "reply"}) =>
            \E d \in calls : d.what \in {"read", "reply"}
    BY <1>1, <1>4
  <2>4. Showing' <=> Showing
    BY <1>3 DEF Showing
  <2>5. ASSUME made["lost"] = 0, NEW x \in 1..Conv, threads'[x].opened, ~threads'[x].unread
        PROVE  seen[x] = Len(threads'[x].messages) \/ WillShow(x)'
    <3>1. CASE out = "ok" /\ c.what \in {"read", "reply"} /\ c.arg.conv = x
      <4>1. body.view.shown + Own(c) = Len(threads'[x].messages)
        BY <3>1 DEF Serves
      <4>2. Known(s) = body.view.shown + Own(c)
        BY <1>1 DEF Known, Own
      <4> QED
        BY <1>1, <1>5, <3>1, <4>1, <4>2 DEF WillShow
    <3>2. CASE /\ threads[x].opened /\ ~threads[x].unread
               /\ Len(threads'[x].messages) = Len(threads[x].messages)
      <4>1. seen[x] = Len(threads[x].messages) \/ WillShow(x)
        BY <2>1, <2>5, <3>2 DEF ReadIsShown
      <4>2. WillShow(x) => WillShow(x)'
        BY <1>5, <3>2 DEF WillShow
      <4> QED
        BY <3>2, <4>1, <4>2
    <3> QED
      BY <2>5, <3>1, <3>2 DEF Serves
  <2> QED
    BY <1>3, <2>1, <2>2, <2>3, <2>4, <2>5 DEF ReadIsShown
<1> QED
  BY <1>7, <1>8, <1>9, <1>10, <1>11, <1>12, <1>13, <1>14, <1>15, <1>16 DEF MailroomInv

\* A text that is recorded in one more place arrives once more.
LEMMA OneMoreCopy ==
    ASSUME NEW t, NEW p
    PROVE  /\ Copies(t)' \subseteq Copies(t) => Times(t)' <= Times(t)
           /\ Copies(t)' \subseteq Copies(t) \cup {p} => Times(t)' <= Times(t) + 1
<1>1. /\ Times(t) \in Nat /\ IsFiniteSet(Copies(t))
      /\ Times(t)' \in Nat /\ IsFiniteSet(Copies(t)')
  BY TimesTyped
<1>2. Times(t) = Cardinality(Copies(t)) /\ Times(t)' = Cardinality(Copies(t)')
  BY DEF Times
<1>3. Copies(t)' \subseteq Copies(t) => Times(t)' <= Times(t)
  BY <1>1, <1>2, FS_Subset
<1>4. IsFiniteSet(Copies(t) \cup {p}) /\ Cardinality(Copies(t) \cup {p}) <= Times(t) + 1
  <2> DEFINE here == Copies(t)
  <2>1. IsFiniteSet(here) /\ Cardinality(here) = Times(t) /\ Times(t) \in Nat
    BY <1>1, <1>2
  <2> HIDE DEF here
  <2>2. /\ IsFiniteSet(here \cup {p})
        /\ Cardinality(here \cup {p}) =
            IF p \in here THEN Cardinality(here) ELSE Cardinality(here) + 1
    BY <2>1, FS_AddElement
  <2>3. IsFiniteSet(here \cup {p}) /\ Cardinality(here \cup {p}) <= Times(t) + 1
    BY <2>1, <2>2
  <2> QED
    BY <2>3 DEF here
<1>5. Copies(t)' \subseteq Copies(t) \cup {p} => Times(t)' <= Cardinality(Copies(t) \cup {p})
  BY <1>2, <1>4, FS_Subset
<1>6. Cardinality(Copies(t) \cup {p}) \in Nat
  BY <1>4, FS_CardinalityType
<1> QED
  BY <1>1, <1>3, <1>4, <1>5, <1>6

\* A text is added at the end of a conversation.
Added(new, old, text) == new = Append(old, text)

\* The conversation is longer by one, and what was in it stays.
LEMMA AddedText ==
    ASSUME NEW old \in Seq(Text), NEW text \in Text, NEW new, Added(new, old, text)
    PROVE  /\ Len(old) \in Nat /\ Len(new) = Len(old) + 1 /\ new[Len(old) + 1] = text
           /\ \A i \in 1..Len(old) : new[i] = old[i]
           /\ Len(old) <= Len(new)
           /\ \A i \in 1..Len(new) : i \in 1..Len(old) \/ i = Len(old) + 1
<1>1. /\ Len(old) \in Nat /\ Len(new) = Len(old) + 1 /\ new[Len(old) + 1] = text
      /\ \A i \in 1..Len(old) : new[i] = old[i]
  BY DEF Added
<1>2. Len(old) <= Len(new) /\ \A i \in 1..Len(new) : i \in 1..Len(old) \/ i = Len(old) + 1
  BY <1>1
<1> QED
  BY <1>1, <1>2

\* A place of a text: the number of a conversation and a number in it.
LEMMA PlaceForm ==
    ASSUME NEW p \in (1..Conv) \X (1..(MaxTexts + 2))
    PROVE  p = <<p[1], p[2]>> /\ p[1] \in 1..Conv /\ p[2] \in Nat /\ p[2] >= 1
<1>1. p = <<p[1], p[2]>> /\ p[1] \in 1..Conv /\ p[2] \in 1..(MaxTexts + 2)
  OBVIOUS
<1> QED
  BY <1>1, MailroomAssumption

\* Where the texts are when a conversation z has one more.
LEMMA AddedCopy ==
    ASSUME NEW z \in 1..Conv, NEW old \in Seq(Text), NEW text \in Text, NEW t,
           threads[z].messages = old, Added(threads'[z].messages, old, text),
           \A x \in 1..Conv \ {z} : threads'[x] = threads[x]
    PROVE  \A p \in Copies(t)' : p \in Copies(t) \/ (p = <<z, Len(old) + 1>> /\ text = t)
<1> SUFFICES ASSUME NEW p \in (1..Conv) \X (1..(MaxTexts + 2)),
                    p[2] <= Len(threads'[p[1]].messages), threads'[p[1]].messages[p[2]] = t
             PROVE  \/ p[2] <= Len(threads[p[1]].messages) /\ threads[p[1]].messages[p[2]] = t
                    \/ p = <<z, Len(old) + 1>> /\ text = t
  BY DEF Copies
<1> DEFINE new == threads'[z].messages
<1>1. p = <<p[1], p[2]>> /\ p[1] \in 1..Conv /\ p[2] \in Nat /\ p[2] >= 1
  BY PlaceForm
<1>2. /\ Len(old) \in Nat /\ Len(new) = Len(old) + 1 /\ new[Len(old) + 1] = text
      /\ \A i \in 1..Len(old) : new[i] = old[i]
  BY AddedText
<1> HIDE DEF new
<1>3. CASE p[1] # z
  BY <1>1, <1>3
<1>4. CASE p[1] = z
  <2>1. p[2] <= Len(new) /\ new[p[2]] = t
    BY <1>4 DEF new
  <2>2. CASE p[2] <= Len(old)
    <3>1. p[2] \in 1..Len(old)
      BY <1>1, <1>2, <2>2
    <3> QED
      BY <1>2, <1>4, <2>1, <2>2, <3>1
  <2>3. CASE p[2] = Len(old) + 1
    BY <1>1, <1>2, <1>4, <2>1, <2>3
  <2> QED
    BY <1>1, <1>2, <2>1, <2>2, <2>3
<1> QED
  BY <1>3, <1>4

\* What each request is about.
LEMMA ConvOfCall ==
    ASSUME MailroomInv, NEW c \in calls,
           c.what \in {"read", "reply", "relay", "answer", "stop"}
    PROVE  c.arg.conv \in 1..Conv /\ threads[c.arg.conv] \in Threads
  BY StateForms DEF MailroomInv, CallsAreKnown, Opened

\* A request that adds no message.
LEMMA QuietServe ==
    ASSUME MailroomInv, NEW c \in calls, c.out = "pending", NEW out \in {"ok", "refused"},
           NEW body \in Bodies,
           calls' = (calls \ {c}) \cup {Served(c, out, body)},
           UNCHANGED <<made, inbox, finder, widget, seen>>,
           threads' \in [1..Conv -> Threads],
           told' = IF out = "ok" /\ c.what = "location" THEN told + 1 ELSE told,
           \A x \in 1..Conv :
                /\ threads'[x].messages = threads[x].messages
                /\ threads'[x].opened = threads[x].opened
                /\ threads'[x].unread = threads[x].unread
                   \/ (out = "ok" /\ c.what = "read" /\ c.arg.conv = x)
                /\ body.list[x] # "absent" => threads[x].opened,
           ~(out = "ok" /\ c.what = "message"),
           out = "ok" /\ Carries(c) => FALSE,
           out = "ok" /\ c.what \in {"read", "relay", "stop"} =>
                /\ body.view.conv = c.arg.conv
                /\ body.view.shown = Len(threads'[c.arg.conv].messages),
           c.what = "list" => out = "ok" /\ body.list[1] # "absent"
    PROVE  MailroomInv'
<1>1. /\ PagesKnow /\ TextsAreApart
      /\ \A x \in 1..Conv : Len(threads[x].messages) \in Nat
  BY StateForms DEF MailroomInv
<1>2. \A t : Times(t)' <= Times(t)
  <2> SUFFICES ASSUME NEW t PROVE Times(t)' <= Times(t)
    OBVIOUS
  <2>1. Copies(t)' \subseteq Copies(t)
    BY DEF Copies
  <2> QED
    BY <2>1, OneMoreCopy
<1>3. \A x \in 1..Conv :
        /\ Len(threads[x].messages) <= Len(threads'[x].messages)
        /\ threads[x].opened => threads'[x].opened
        /\ ~threads'[x].opened => Len(threads'[x].messages) = 0
        /\ \A i \in 1..Len(threads'[x].messages) : threads'[x].messages[i] <= made["texts"]
        /\ body.list[x] # "absent" => threads'[x].opened
        /\ threads'[x].opened /\ ~threads'[x].unread =>
            \/ /\ threads[x].opened /\ ~threads[x].unread
               /\ Len(threads'[x].messages) = Len(threads[x].messages)
            \/ out = "ok" /\ c.what \in {"read", "reply"} /\ c.arg.conv = x
  BY <1>1 DEF PagesKnow, TextsAreApart
<1>5. out = "ok" /\ c.what \in {"read", "reply", "relay", "answer", "stop"} =>
        /\ c.what \in {"read", "relay", "stop"}
        /\ body.view.conv = c.arg.conv
        /\ body.view.shown + Own(c) <= Len(threads'[c.arg.conv].messages)
        /\ body.view.shown + Own(c) = Len(threads'[c.arg.conv].messages)
  <2> SUFFICES ASSUME out = "ok", c.what \in {"read", "reply", "relay", "answer", "stop"}
               PROVE  /\ c.what \in {"read", "relay", "stop"}
                      /\ body.view.conv = c.arg.conv
                      /\ body.view.shown + Own(c) <= Len(threads'[c.arg.conv].messages)
                      /\ body.view.shown + Own(c) = Len(threads'[c.arg.conv].messages)
    OBVIOUS
  <2>1. c.what \in {"read", "relay", "stop"} /\ Own(c) = 0
    BY DEF Carries, Own
  <2>2. c.arg.conv \in 1..Conv
    BY ConvOfCall
  <2>3. Len(threads'[c.arg.conv].messages) \in Nat
    BY <1>1, <2>2
  <2> QED
    BY <2>1, <2>3
<1>4. Serves(c, out, body)
  BY <1>2, <1>3, <1>5 DEF Serves, Carries
<1> QED
  BY <1>4, ServedStep

\* A request that adds a message to a conversation.
LEMMA TextServe ==
    ASSUME MailroomInv, NEW c \in calls, c.out = "pending", NEW body \in Bodies,
           calls' = (calls \ {c}) \cup {Served(c, "ok", body)},
           UNCHANGED <<made, inbox, finder, widget, seen, told>>,
           Carries(c), c.what # "message", NEW z \in 1..Conv, z = c.arg.conv,
           threads' \in [1..Conv -> Threads],
           Added(threads'[z].messages, threads[z].messages, c.arg.text),
           threads'[z].unread \/ c.what = "reply",
           \A x \in 1..Conv : /\ threads'[x].opened = threads[x].opened
                              /\ x # z => threads'[x] = threads[x],
           body.list = NoList, body.view.conv = z,
           body.view.shown = Len(threads[z].messages)
    PROVE  MailroomInv'
<1> DEFINE old == threads[z].messages
           new == threads'[z].messages
<1>1. /\ PagesKnow /\ TextsAreApart
      /\ \A x \in 1..Conv : Len(threads[x].messages) \in Nat
      /\ c.arg.text \in Text /\ old \in Seq(Text)
  BY StateForms, CallForms DEF MailroomInv
<1>2. /\ Len(old) \in Nat /\ Len(new) = Len(old) + 1 /\ new[Len(old) + 1] = c.arg.text
      /\ \A i \in 1..Len(old) : new[i] = old[i]
      /\ Len(old) <= Len(new)
      /\ \A i \in 1..Len(new) : i \in 1..Len(old) \/ i = Len(old) + 1
  <2>1. Added(new, old, c.arg.text) /\ old \in Seq(Text) /\ c.arg.text \in Text
    BY <1>1
  <2> HIDE DEF old, new
  <2> QED
    BY <2>1, AddedText
<1>3. Opened(z) /\ \A x \in 1..Conv : body.list[x] = "absent"
  BY ZenonT(30), SmallTypes DEF MailroomInv, CallsAreKnown, Carries
<1>4. c.arg.text <= made["texts"]
  BY <1>1 DEF TextsAreApart
<1> HIDE DEF old, new
<1>5. \A t \in Text \ {0} : Times(t)' <= IF c.arg.text = t THEN Times(t) + 1 ELSE Times(t)
  <2> SUFFICES ASSUME NEW t
               PROVE  Times(t)' <= IF c.arg.text = t THEN Times(t) + 1 ELSE Times(t)
    OBVIOUS
  <2>1. \A p \in Copies(t)' : p \in Copies(t) \/ (p = <<z, Len(old) + 1>> /\ c.arg.text = t)
    <3>1. /\ old \in Seq(Text) /\ c.arg.text \in Text /\ threads[z].messages = old
          /\ Added(threads'[z].messages, old, c.arg.text)
          /\ \A x \in 1..Conv \ {z} : threads'[x] = threads[x]
      BY <1>1 DEF old
    <3> QED
      BY <3>1, AddedCopy
  <2>2. CASE c.arg.text = t
    <3>1. Copies(t)' \subseteq Copies(t) \cup {<<z, Len(old) + 1>>}
      BY <2>1
    <3> QED
      BY <2>2, <3>1, OneMoreCopy
  <2>3. CASE c.arg.text # t
    <3>1. Copies(t)' \subseteq Copies(t)
      BY <2>1, <2>3
    <3> QED
      BY <2>3, <3>1, OneMoreCopy
  <2> QED
    BY <2>2, <2>3
<1>6. ASSUME NEW x \in 1..Conv
      PROVE  /\ Len(threads[x].messages) <= Len(threads'[x].messages)
             /\ threads[x].opened => threads'[x].opened
             /\ ~threads'[x].opened => Len(threads'[x].messages) = 0
             /\ \A i \in 1..Len(threads'[x].messages) : threads'[x].messages[i] <= made["texts"]
             /\ body.list[x] # "absent" => threads'[x].opened
             /\ threads'[x].opened /\ ~threads'[x].unread =>
                 \/ /\ threads[x].opened /\ ~threads[x].unread
                    /\ Len(threads'[x].messages) = Len(threads[x].messages)
                 \/ c.what \in {"read", "reply"} /\ c.arg.conv = x
  <2>1. CASE x # z
    <3>1. threads'[x] = threads[x]
      BY <2>1
    <3>2. Len(threads[x].messages) \in Nat /\ body.list[x] = "absent"
      BY <1>1, <1>3
    <3>3. /\ ~threads[x].opened => Len(threads[x].messages) = 0
          /\ \A i \in 1..Len(threads[x].messages) : threads[x].messages[i] <= made["texts"]
      BY <1>1 DEF PagesKnow, TextsAreApart
    <3>4. Len(threads[x].messages) <= Len(threads'[x].messages)
      BY <3>1, <3>2
    <3> QED
      BY <3>1, <3>2, <3>3, <3>4
  <2>2. CASE x = z
    <3>1. Len(old) \in Nat /\ \A i \in 1..Len(old) : old[i] <= made["texts"]
      BY <1>1 DEF TextsAreApart, old
    <3>2. \A i \in 1..Len(new) : new[i] <= made["texts"]
      <4> SUFFICES ASSUME NEW i \in 1..Len(new) PROVE new[i] <= made["texts"]
        OBVIOUS
      <4>1. i \in 1..Len(old) \/ i = Len(old) + 1
        BY <1>2
      <4> QED
        BY <1>2, <1>4, <3>1, <4>1
    <3>3. threads[x].opened /\ threads'[x].opened
      BY <1>3, <2>2 DEF Opened
    <3>4. threads[x].messages = old /\ threads'[x].messages = new
      BY <2>2 DEF old, new
    <3>5. threads'[x].unread \/ (c.what \in {"read", "reply"} /\ c.arg.conv = x)
      BY <2>2
    <3>6. body.list[x] = "absent" /\ Len(old) <= Len(new)
      BY <1>2, <1>3
    <3> QED
      BY <3>2, <3>3, <3>4, <3>5, <3>6
  <2> QED
    BY <2>1, <2>2
<1>7. /\ c.what \in {"reply", "answer"}
      /\ body.view.shown + Own(c) <= Len(threads'[z].messages)
      /\ c.what = "reply" => body.view.shown + Own(c) = Len(threads'[z].messages)
  <2>1. body.view.shown = Len(old) /\ Len(threads'[z].messages) = Len(old) + 1
    BY <1>2 DEF old, new
  <2> QED
    BY <1>2, <2>1 DEF Carries, Own
<1>8. Serves(c, "ok", body)
  BY <1>5, <1>6, <1>7 DEF Serves, Carries
<1> QED
  BY <1>8, ServedStep

\* The conversation that a message opens is the next one, and there is one.
LEMMA FreshIsNext ==
    ASSUME MailroomInv, NEW c \in calls, c.what = "message", c.out = "pending"
    PROVE  /\ Fresh \in 1..Conv /\ ~threads[Fresh].opened
           /\ Fresh <= 1 + made["finder"]
           /\ \A x \in 1..Conv : threads[x].opened <=> x < Fresh
<1>1. finder.at = "form"
  BY DEF MailroomInv, PagesWait
<1>2. PICK n \in 1..Conv :
        /\ \A x \in 1..Conv : threads[x].opened <=> x <= n
        /\ n <= made["finder"]
  BY <1>1 DEF MailroomInv, RoomIsLeft
<1>3. /\ made["finder"] <= MaxFinder /\ made["finder"] \in Nat /\ MaxFinder \in Nat
      /\ Conv \in Nat /\ Conv > MaxFinder
  BY StateForms, MailroomAssumption DEF MailroomInv, Typed
<1>4. n \in Nat /\ n + 1 \in 1..Conv
  BY <1>2, <1>3
<1> DEFINE Next1(x) == ~threads[x].opened /\ \A d \in 1..(x - 1) : threads[d].opened
<1>5. Next1(n + 1)
  <2>1. \A d \in 1..(n + 1 - 1) : d \in 1..Conv /\ d <= n
    BY <1>2, <1>3, <1>4
  <2>2. ~(n + 1 <= n)
    BY <1>4
  <2> QED
    BY <1>2, <1>4, <2>1, <2>2
<1>6. Fresh \in 1..Conv /\ Next1(Fresh)
  BY <1>4, <1>5 DEF Fresh
<1> HIDE DEF Fresh
<1>7. Fresh = n + 1
  <2>1. Fresh \in Nat /\ Fresh >= 1 /\ Fresh <= Conv
    BY <1>3, <1>6
  <2>2. ~(Fresh <= n)
    BY <1>2, <1>6
  <2>3. ~(Fresh > n + 1)
    <3> SUFFICES ASSUME Fresh > n + 1 PROVE FALSE
      OBVIOUS
    <3>1. n + 1 \in 1..(Fresh - 1)
      BY <1>4, <2>1
    <3>2. threads[n + 1].opened
      BY <1>6, <3>1
    <3> QED
      BY <1>2, <1>4, <3>2
  <2> QED
    BY <1>4, <2>1, <2>2, <2>3
<1>8. \A x \in 1..Conv : x <= n <=> x < Fresh
  BY <1>3, <1>4, <1>7
<1> QED
  BY <1>2, <1>3, <1>4, <1>6, <1>7, <1>8

\* A request that opens a conversation.
LEMMA MessageServe ==
    ASSUME MailroomInv, NEW c \in calls, c.out = "pending", NEW body \in Bodies,
           calls' = (calls \ {c}) \cup {Served(c, "ok", body)},
           UNCHANGED <<made, inbox, finder, widget, seen, told>>,
           c.what = "message",
           threads' = [threads EXCEPT ![Fresh] =
                [opened |-> TRUE, closed |-> FALSE, unread |-> TRUE, email |-> TRUE,
                 messages |-> <<c.arg.text>>]],
           body.list = NoList, body.view.conv = Fresh
    PROVE  MailroomInv'
<1> DEFINE z == Fresh
           opening == [opened |-> TRUE, closed |-> FALSE, unread |-> TRUE, email |-> TRUE,
                       messages |-> <<c.arg.text>>]
<1>1. /\ z \in 1..Conv /\ ~threads[z].opened /\ z <= 1 + made["finder"]
      /\ \A x \in 1..Conv : threads[x].opened <=> x < z
  BY FreshIsNext
<1>2. /\ PagesKnow /\ TextsAreApart
      /\ threads \in [1..Conv -> Threads]
      /\ \A x \in 1..Conv : Len(threads[x].messages) \in Nat
      /\ c.arg.text \in Text /\ made["texts"] \in Nat
  BY StateForms, CallForms DEF MailroomInv
<1>3. /\ opening \in Threads /\ opening.opened /\ opening.unread
      /\ Len(opening.messages) = 1 /\ opening.messages[1] = c.arg.text
  <2> DEFINE first == <<c.arg.text>>
  <2>1. first \in Seq(Text) /\ Len(first) = 1 /\ first[1] = c.arg.text
    BY <1>2
  <2> HIDE DEF first
  <2> QED
    BY SMTT(30), <2>1 DEF Threads
<1> HIDE DEF z, opening
<1>4. threads' = [threads EXCEPT ![z] = opening]
  BY DEF z, opening
<1>5. /\ threads' \in [1..Conv -> Threads] /\ threads'[z] = opening
      /\ \A x \in 1..Conv : x # z => threads'[x] = threads[x]
  <2>1. z \in 1..Conv /\ threads \in [1..Conv -> Threads] /\ opening \in Threads
    BY <1>1, <1>2, <1>3
  <2> QED
    BY <1>4, <2>1
<1>6. Carries(c) /\ c.arg.text <= made["texts"] /\ \A x \in 1..Conv : body.list[x] = "absent"
  BY <1>2, SmallTypes DEF TextsAreApart, Carries
<1>7. \A t \in Text \ {0} : Times(t)' <= IF c.arg.text = t THEN Times(t) + 1 ELSE Times(t)
  <2> SUFFICES ASSUME NEW t
               PROVE  Times(t)' <= IF c.arg.text = t THEN Times(t) + 1 ELSE Times(t)
    OBVIOUS
  <2>1. \A p \in Copies(t)' : p \in Copies(t) \/ (p = <<z, 1>> /\ c.arg.text = t)
    <3> SUFFICES ASSUME NEW p \in (1..Conv) \X (1..(MaxTexts + 2)),
                        p[2] <= Len(threads'[p[1]].messages),
                        threads'[p[1]].messages[p[2]] = t
                 PROVE  \/ p[2] <= Len(threads[p[1]].messages) /\ threads[p[1]].messages[p[2]] = t
                        \/ (p = <<z, 1>> /\ c.arg.text = t)
      BY DEF Copies
    <3>1. CASE p[1] # z
      BY <1>5, <3>1
    <3>2. CASE p[1] = z
      <4>1. p = <<p[1], p[2]>> /\ p[2] \in 1..(MaxTexts + 2)
        OBVIOUS
      <4>2. p[2] \in Nat /\ p[2] >= 1
        BY <4>1, MailroomAssumption
      <4>3. p[2] <= 1 /\ opening.messages[p[2]] = t
        BY <1>3, <1>5, <3>2
      <4>4. p[2] = 1
        BY <4>2, <4>3
      <4> QED
        BY <1>3, <3>2, <4>1, <4>3, <4>4
    <3> QED
      BY <3>1, <3>2
  <2>2. CASE c.arg.text = t
    <3>1. Copies(t)' \subseteq Copies(t) \cup {<<z, 1>>}
      BY <2>1
    <3> QED
      BY <2>2, <3>1, OneMoreCopy
  <2>3. CASE c.arg.text # t
    <3>1. Copies(t)' \subseteq Copies(t)
      BY <2>1, <2>3
    <3> QED
      BY <2>3, <3>1, OneMoreCopy
  <2> QED
    BY <2>2, <2>3
<1>8. ASSUME NEW x \in 1..Conv
      PROVE  /\ Len(threads[x].messages) <= Len(threads'[x].messages)
             /\ threads[x].opened => threads'[x].opened
             /\ ~threads'[x].opened => Len(threads'[x].messages) = 0
             /\ \A i \in 1..Len(threads'[x].messages) : threads'[x].messages[i] <= made["texts"]
             /\ body.list[x] # "absent" => threads'[x].opened
             /\ threads'[x].opened /\ ~threads'[x].unread =>
                 /\ threads[x].opened /\ ~threads[x].unread
                 /\ Len(threads'[x].messages) = Len(threads[x].messages)
  <2>1. CASE x # z
    BY <1>2, <1>5, <1>6, <2>1 DEF PagesKnow, TextsAreApart
  <2>2. CASE x = z
    <3>1. Len(threads[x].messages) = 0
      BY <1>1, <1>2, <2>2 DEF PagesKnow
    <3>2. threads'[x] = opening
      BY <1>5, <2>2
    <3> QED
      BY <1>3, <1>6, <3>1, <3>2
  <2> QED
    BY <2>1, <2>2
<1>9. RoomIsLeft'
  <2> DEFINE s == Served(c, "ok", body)
  <2>1. s.what = "message" /\ s.out = "ok" /\ calls' = (calls \ {c}) \cup {s}
    BY CallForms, ServedCall
  <2> HIDE DEF s
  <2>2. \A e \in calls : e.what = "message" => e = c
    <3>1. \A e \in calls : e.what = "message" => e.who = "form"
      BY CallForms
    <3> QED
      BY <3>1 DEF MailroomInv, PagesWait
  <2>3. ~ \E e \in calls' : e.what = "message" /\ e.out = "pending"
    BY <2>1, <2>2
  <2>4. \A x \in 1..Conv : threads'[x].opened <=> x <= z
    <3> SUFFICES ASSUME NEW x \in 1..Conv PROVE threads'[x].opened <=> x <= z
      OBVIOUS
    <3>1. x \in Nat /\ z \in Nat
      BY <1>1, SmallTypes
    <3> QED
      BY <1>1, <1>3, <1>5, <3>1
  <2> QED
    BY <1>1, <2>3, <2>4 DEF RoomIsLeft
<1>10. Opened(body.view.conv)'
  BY <1>1, <1>3, <1>5 DEF Opened, z
<1>11. Serves(c, "ok", body)
  BY <1>5, <1>6, <1>7, <1>8, <1>9, <1>10 DEF Serves
<1> QED
  BY <1>11, ServedStep

\* The body of an answer about a conversation.
LEMMA LaterViewBody ==
    ASSUME NEW z \in 1..Conv, threads' \in [1..Conv -> Threads]
    PROVE  LET body == [Nothing EXCEPT !.view = Serialize(z)'] IN
           /\ body \in Bodies /\ body.list = NoList /\ body.view.conv = z
           /\ body.view.shown = Len(threads'[z].messages)
<1> DEFINE view == Serialize(z)'
           body == [Nothing EXCEPT !.view = view]
<1>1. view \in View /\ view.conv = z /\ view.shown = Len(threads'[z].messages)
  <2>1. /\ Len(threads'[z].messages) \in Nat /\ threads'[z].closed \in BOOLEAN
        /\ threads'[z].email \in BOOLEAN /\ z \in Convs
    BY SmallTypes DEF Threads
  <2>2. view = [conv |-> z, shown |-> Len(threads'[z].messages),
                closed |-> threads'[z].closed, email |-> threads'[z].email]
    BY DEF Serialize
  <2> HIDE DEF view
  <2> QED
    BY <2>1, <2>2 DEF View
<1>2. Nothing \in Bodies /\ Nothing.list = NoList
  BY SmallTypes
<1> HIDE DEF view
<1>3. body \in Bodies /\ body.list = NoList /\ body.view = view
  <2> HIDE DEF Nothing
  <2> QED
    BY <1>1, <1>2 DEF Bodies
<1> QED
  BY <1>1, <1>3 DEF view

\* ... and of one whose request adds a message.
LEMMA ViewBody ==
    ASSUME NEW z \in 1..Conv, threads \in [1..Conv -> Threads]
    PROVE  LET body == [Nothing EXCEPT !.view = Serialize(z)] IN
           /\ body \in Bodies /\ body.list = NoList /\ body.view.conv = z
           /\ body.view.shown = Len(threads[z].messages)
<1> DEFINE view == Serialize(z)
           body == [Nothing EXCEPT !.view = view]
<1>1. view \in View /\ view.conv = z /\ view.shown = Len(threads[z].messages)
  <2>1. /\ Len(threads[z].messages) \in Nat /\ threads[z].closed \in BOOLEAN
        /\ threads[z].email \in BOOLEAN /\ z \in Convs
    BY SmallTypes DEF Threads
  <2>2. view = [conv |-> z, shown |-> Len(threads[z].messages),
                closed |-> threads[z].closed, email |-> threads[z].email]
    BY DEF Serialize
  <2> HIDE DEF view
  <2> QED
    BY <2>1, <2>2 DEF View
<1>2. Nothing \in Bodies /\ Nothing.list = NoList
  BY SmallTypes
<1> HIDE DEF view
<1>3. body \in Bodies /\ body.list = NoList /\ body.view = view
  <2> HIDE DEF Nothing
  <2> QED
    BY <1>1, <1>2 DEF Bodies
<1> QED
  BY <1>1, <1>3 DEF view

\* A conversation with one field changed.
LEMMA ThreadFields ==
    ASSUME NEW r \in Threads, NEW t \in Text
    PROVE  /\ LET a == [r EXCEPT !.unread = FALSE] IN
              a \in Threads /\ a.messages = r.messages /\ a.opened = r.opened
           /\ LET a == [r EXCEPT !.email = FALSE] IN
              a \in Threads /\ a.messages = r.messages /\ a.opened = r.opened /\ a.unread = r.unread
           /\ LET a == [r EXCEPT !.messages = Append(@, t), !.unread = FALSE] IN
              a \in Threads /\ a.messages = Append(r.messages, t) /\ a.opened = r.opened
           /\ LET a == [r EXCEPT !.messages = Append(@, t), !.unread = TRUE] IN
              /\ a \in Threads /\ a.messages = Append(r.messages, t) /\ a.opened = r.opened
              /\ a.unread
<1> DEFINE more == Append(r.messages, t)
<1>1. r.messages \in Seq(Text)
  BY DEF Threads
<1>2. more \in Seq(Text)
  BY <1>1
<1> HIDE DEF more
<1>3. LET a == [r EXCEPT !.messages = more, !.unread = FALSE] IN
      a \in Threads /\ a.messages = more /\ a.opened = r.opened
  BY <1>2 DEF Threads
<1>4. LET a == [r EXCEPT !.messages = more, !.unread = TRUE] IN
      a \in Threads /\ a.messages = more /\ a.opened = r.opened /\ a.unread
  BY <1>2 DEF Threads
<1>5. LET a == [r EXCEPT !.unread = FALSE] IN
      a \in Threads /\ a.messages = r.messages /\ a.opened = r.opened
  BY DEF Threads
<1>6. LET a == [r EXCEPT !.email = FALSE] IN
      a \in Threads /\ a.messages = r.messages /\ a.opened = r.opened /\ a.unread = r.unread
  BY DEF Threads
<1> QED
  BY <1>3, <1>4, <1>5, <1>6 DEF more

\* Whatever is asked for, and whether or not it is refused.
LEMMA ServeStep ==
    ASSUME MailroomInv, NEW c \in calls, Serve(c)
    PROVE  MailroomInv'
<1>1. /\ c.out = "pending" /\ UNCHANGED <<made, inbox, finder, widget, seen>>
      /\ c.what \in Operations
      /\ threads \in [1..Conv -> Threads] /\ PagesKnow
  BY StateForms, CallForms DEF Serve, MailroomInv
<1>2. PICK ok \in {Accepted(c)} \cup (IF c.what \in Limited THEN {FALSE} ELSE {}) :
        /\ threads' = IF ok THEN Changed(c) ELSE threads
        /\ told' = IF ok /\ c.what = "location" THEN told + 1 ELSE told
        /\ calls' = (calls \ {c}) \cup {IF ok THEN Served(c, "ok", Body(c))
                                        ELSE Served(c, "refused", Nothing)}
  BY DEF Serve
<1>3. Nothing \in Bodies /\ Nothing.list = NoList /\ \A x \in 1..Conv : NoList[x] = "absent"
  BY SmallTypes
<1>4. CASE ~ok
  <2>1. c.what # "list"
    BY <1>2, <1>4 DEF Accepted, Limited
  <2>2. /\ threads' = threads /\ told' = told
        /\ calls' = (calls \ {c}) \cup {Served(c, "refused", Nothing)}
    BY <1>2, <1>4
  <2> HIDE DEF Nothing, NoList
  <2> QED
    BY <1>1, <1>3, <2>1, <2>2, QuietServe
<1>5. CASE ok
  <2> DEFINE body == Body(c)
  <2>1. /\ threads' = Changed(c)
        /\ told' = IF c.what = "location" THEN told + 1 ELSE told
        /\ calls' = (calls \ {c}) \cup {Served(c, "ok", body)}
    BY <1>2, <1>5
  <2>2. CASE c.what = "list"
    <3> DEFINE list == List'
    <3>1. threads' = threads /\ body = [Nothing EXCEPT !.list = list] /\ told' = told
      BY <2>1, <2>2 DEF Changed, Body
    <3>2. /\ list \in Rows /\ list[1] # "absent"
          /\ \A x \in 1..Conv : list[x] # "absent" => threads[x].opened
      <4>1. threads[1].opened /\ 1 \in 1..Conv
        BY <1>1, SmallTypes DEF PagesKnow
      <4> QED
        BY <3>1, <4>1 DEF List, Rows
    <3> HIDE DEF list, Nothing
    <3>3. body \in Bodies /\ body.list = list
      BY <1>3, <3>1, <3>2 DEF Bodies
    <3> HIDE DEF body
    <3> QED
      BY ZenonT(30), <1>1, <2>1, <2>2, <3>1, <3>2, <3>3, QuietServe DEF Carries
  <2>3. CASE c.what = "location"
    <3>1. threads' = threads /\ body = Nothing /\ told' = told + 1
      BY <2>1, <2>3 DEF Changed, Body
    <3> HIDE DEF body, Nothing, NoList
    <3> QED
      BY <1>1, <1>3, <2>1, <2>3, <3>1, QuietServe DEF Carries
  <2>4. CASE c.what = "message"
    <3>1. /\ threads' = [threads EXCEPT ![Fresh] =
                [opened |-> TRUE, closed |-> FALSE, unread |-> TRUE, email |-> TRUE,
                 messages |-> <<c.arg.text>>]]
          /\ body = [Nothing EXCEPT !.view = [NoView EXCEPT !.conv = Fresh]] /\ told' = told
      BY <2>1, <2>4 DEF Changed, Body
    <3>2. Fresh \in Convs
      BY <1>1, <2>4, FreshIsNext, SmallTypes
    <3>3. body \in Bodies /\ body.list = NoList /\ body.view.conv = Fresh
      <4> DEFINE view == [NoView EXCEPT !.conv = Fresh]
      <4>1. view \in View /\ view.conv = Fresh
        BY <3>2, SmallTypes DEF View
      <4> HIDE DEF view, Nothing, NoList, Fresh
      <4> QED
        BY <1>3, <3>1, <4>1 DEF Bodies, view
    <3> HIDE DEF body
    <3> QED
      BY <1>1, <2>1, <2>4, <3>1, <3>3, MessageServe
  <2>5. CASE c.what \in {"read", "reply", "relay", "answer", "stop"}
    <3> DEFINE z == c.arg.conv
               r == threads[z]
    <3>1. z \in 1..Conv /\ r \in Threads /\ told' = told /\ c.arg.text \in Text
      BY <2>1, <2>5, ConvOfCall, CallForms
    <3>2. body = [Nothing EXCEPT !.view = IF c.what \in {"reply", "answer"}
                                          THEN Serialize(z) ELSE Serialize(z)']
      BY <2>5 DEF Body
    <3>3. CASE c.what = "relay"
      <4>1. threads' = threads
        BY <2>1, <3>3 DEF Changed
      <4>2. /\ body \in Bodies /\ body.list = NoList /\ body.view.conv = z
            /\ body.view.shown = Len(threads'[z].messages)
        BY <1>1, <3>1, <3>2, <3>3, <4>1, LaterViewBody
      <4> HIDE DEF body, NoList
      <4> QED
        BY <1>1, <1>3, <2>1, <3>1, <3>3, <4>1, <4>2, QuietServe DEF Carries
    <3>4. CASE c.what \in {"read", "stop"}
      <4> DEFINE a == IF c.what = "read" THEN [r EXCEPT !.unread = FALSE]
                      ELSE [r EXCEPT !.email = FALSE]
      <4>1. threads' = [threads EXCEPT ![z] = a]
        BY <1>1, <2>1, <3>1, <3>4 DEF Changed
      <4>2. /\ a \in Threads /\ a.messages = r.messages /\ a.opened = r.opened
            /\ c.what = "read" \/ a.unread = r.unread
        BY <3>1, <3>4, ThreadFields
      <4> HIDE DEF a
      <4>3. /\ threads' \in [1..Conv -> Threads] /\ threads'[z] = a
            /\ \A x \in 1..Conv : x # z => threads'[x] = threads[x]
        BY <1>1, <3>1, <4>1, <4>2
      <4>4. /\ body \in Bodies /\ body.list = NoList /\ body.view.conv = z
            /\ body.view.shown = Len(threads'[z].messages)
        BY <3>1, <3>2, <3>4, <4>3, LaterViewBody
      <4>5. \A x \in 1..Conv :
                /\ threads'[x].messages = threads[x].messages
                /\ threads'[x].opened = threads[x].opened
                /\ threads'[x].unread = threads[x].unread \/ (c.what = "read" /\ z = x)
                /\ body.list[x] # "absent" => threads[x].opened
        BY <1>3, <4>2, <4>3, <4>4
      <4> HIDE DEF body, NoList
      <4> QED
        BY <1>1, <2>1, <3>1, <3>4, <4>3, <4>4, <4>5, QuietServe DEF Carries
    <3>5. CASE c.what \in {"reply", "answer"}
      <4> DEFINE a == IF c.what = "reply"
                      THEN [r EXCEPT !.messages = Append(@, c.arg.text), !.unread = FALSE]
                      ELSE [r EXCEPT !.messages = Append(@, c.arg.text), !.unread = TRUE]
      <4>1. threads' = [threads EXCEPT ![z] = a]
        BY <1>1, <2>1, <3>1, <3>5 DEF Changed, AnsweredBy
      <4>2. /\ a \in Threads /\ a.messages = Append(r.messages, c.arg.text)
            /\ a.opened = r.opened /\ (a.unread \/ c.what = "reply")
        BY <3>1, <3>5, ThreadFields
      <4> HIDE DEF a
      <4>3. /\ threads' \in [1..Conv -> Threads] /\ threads'[z] = a
            /\ \A x \in 1..Conv : x # z => threads'[x] = threads[x]
        BY <1>1, <3>1, <4>1, <4>2
      <4>4. /\ body \in Bodies /\ body.list = NoList /\ body.view.conv = z
            /\ body.view.shown = Len(threads[z].messages)
        BY <1>1, <3>1, <3>2, <3>5, ViewBody
      <4>5. \A x \in 1..Conv : threads'[x].opened = threads[x].opened
        BY <4>2, <4>3
      <4>6. Added(threads'[z].messages, threads[z].messages, c.arg.text)
        BY <4>2, <4>3 DEF Added
      <4>7. threads'[z].unread \/ c.what = "reply"
        BY <4>2, <4>3
      <4>8. Carries(c) /\ c.what # "message" /\ UNCHANGED told
        BY <2>1, <3>5 DEF Carries
      <4> HIDE DEF body, NoList
      <4> QED
        BY <1>1, <2>1, <3>1, <4>3, <4>4, <4>5, <4>6, <4>7, <4>8, TextServe
    <3> QED
      BY <2>5, <3>3, <3>4, <3>5
  <2> QED
    BY <1>1, <2>2, <2>3, <2>4, <2>5 DEF Operations
<1> QED
  BY <1>4, <1>5
-----------------------------------------------------------------------------
(* An answer is taken, or a call fails. *)

\* What a page may do when a call is over: it waits no more, unless the list is
\* loaded anew; it clears what it sent, and shows no conversation there is not.
Taken(c, again) ==
    /\ calls' = (calls \ {c}) \cup again
    /\ again \subseteq Calls /\ \A m, n \in again : m = n
    /\ \A n \in again : /\ n.id = c.id /\ n.who = c.who /\ n.what = "list" /\ n.out = "pending"
                        /\ n.body = Nothing
    /\ again # {} => c.who \in {"read", "reply"}
    /\ UNCHANGED <<threads, told>>
    /\ made' \in [{"texts", "owner", "finder", "lost"} -> Nat]
    /\ made'["texts"] = made["texts"] /\ made'["owner"] = made["owner"]
    /\ made'["finder"] = made["finder"] /\ made'["lost"] >= made["lost"]
    /\ inbox' \in InboxState /\ finder' \in FinderState /\ widget' \in Widget
    /\ seen' \in [1..Conv -> Nat]
    /\ \A x \in 1..Conv : inbox'.list[x] # "absent" => threads[x].opened
    /\ made'["lost"] = 0 => inbox'.list = inbox.list \/ inbox'.list[1] # "absent"
    /\ inbox'.open # NoView => Opened(inbox'.open.conv)
    /\ inbox'.reply \in {inbox.reply, 0} /\ finder'.text \in {finder.text, 0}
    /\ finder'.conv = finder.conv \/ Opened(finder'.conv)
    /\ \/ finder'.at = finder.at
       \/ /\ finder.at = "form" /\ finder'.at = "sent"
          /\ c.what = "message" /\ Opened(finder'.conv)
    /\ inbox'.busy <=> inbox.busy /\ (c.who # "reply" \/ again # {})
    /\ finder'.busy <=> finder.busy /\ c.who # "form"
    /\ IF c.who = "location" THEN finder'.location \in {"sent", "declined"}
                             ELSE finder'.location = finder.location
    /\ c.out = "ok" /\ made'["lost"] = made["lost"] =>
        /\ c.what = "reply" => inbox'.reply = 0
        /\ c.what = "message" => finder'.at = "sent"
        /\ c.what = "answer" => finder'.text = 0
    /\ \A x \in 1..Conv :
        seen'[x] = IF /\ c.what \in {"read", "reply"} /\ c.out = "ok"
                      /\ made'["lost"] = made["lost"] /\ c.arg.conv = x
                      /\ Showing /\ Known(c) > seen[x]
                   THEN Known(c) ELSE seen[x]

\* Then the invariant holds of what is left.
LEMMA TakenStep ==
    ASSUME MailroomInv, NEW c \in calls, NEW again, Taken(c, again)
    PROVE  MailroomInv'
<1>1. calls' = (calls \ {c}) \cup again /\ UNCHANGED <<threads, told>>
  BY DEF Taken
<1>2. \A e \in calls' : (e \in calls /\ e # c) \/ e \in again
  BY <1>1
<1>3. \A n \in again : /\ n \in Calls /\ n.id = c.id /\ n.who = c.who /\ n.what = "list"
                       /\ n.out = "pending" /\ n.body = Nothing /\ c.who \in {"read", "reply"}
                       /\ ~Carries(n)
  BY DEF Taken, Carries
<1>4. \A e \in calls : e # c => e \in calls'
  BY <1>1
<1>5. /\ made["lost"] \in Nat /\ made'["lost"] \in Nat /\ made'["lost"] >= made["lost"]
      /\ made'["texts"] = made["texts"] /\ made'["finder"] = made["finder"]
      /\ made'["owner"] = made["owner"]
  BY StateForms DEF Taken
<1>6. Typed'
  <2>1. calls' \in SUBSET Calls
    BY <1>2, <1>3, CallForms
  <2> QED
    BY <2>1, <1>1, <1>5 DEF MailroomInv, Typed, Taken
<1>7. CallsAreApart'
  <2>1. \A d, e \in calls' : d.id = e.id => d = e
    <3>1. \A d, e \in calls : d.id = e.id => d = e
      BY DEF MailroomInv, CallsAreApart
    <3>2. \A m, n \in again : m = n
      BY DEF Taken
    <3> QED
      BY <1>2, <1>3, <3>1, <3>2
  <2>2. \A d \in calls : /\ d.id[1] \in {"owner", "finder"}
                         /\ d.id[2] <= made[d.id[1]]
                         /\ d.id[1] = IF d.who \in {"form", "location", "load"}
                                      THEN "finder" ELSE "owner"
    BY CallForms DEF MailroomInv, CallsAreApart, Ids
  <2>3. \A s \in {"owner", "finder"} : made'[s] = made[s]
    BY <1>5
  <2>4. \A e \in calls' : \E d \in calls : e.id = d.id /\ e.who = d.who
    BY <1>2, <1>3
  <2>5. \A e \in calls' : /\ e.id[2] <= made'[e.id[1]]
                          /\ e.id[1] = IF e.who \in {"form", "location", "load"}
                                       THEN "finder" ELSE "owner"
    BY <2>2, <2>3, <2>4
  <2> QED
    BY <2>1, <2>5 DEF CallsAreApart
<1>8. CallsAreKnown'
  <2>1. \A x \in 1..Conv : Nothing.list[x] = "absent"
    BY SmallTypes
  <2>2. CallsAreKnown
    BY DEF MailroomInv
  <2> SUFFICES ASSUME NEW e \in calls'
               PROVE  /\ e.who = "mount" => e.what = "list"
                      /\ e.who = "read" => e.what \in {"read", "list"}
                      /\ e.who = "reply" => e.what \in {"reply", "list"}
                      /\ e.who = "form" => e.what \in {"message", "answer", "stop"}
                      /\ e.who = "location" => e.what = "location"
                      /\ e.who = "load" => e.what = "relay"
                      /\ e.what = "list" => e.out # "refused"
                      /\ e.what \in {"read", "reply", "relay", "answer", "stop"} =>
                            Opened(e.arg.conv)
                      /\ Carries(e) => e.arg.text # 0
                      /\ e.what \in {"read", "reply", "relay", "answer", "stop"} /\ e.out = "ok" =>
                            /\ e.body.view.conv = e.arg.conv
                            /\ Known(e) <= Len(threads[e.arg.conv].messages)
                      /\ e.what = "message" /\ e.out = "ok" => Opened(e.body.view.conv)
                      /\ e.what = "list" /\ e.out = "ok" => e.body.list[1] # "absent"
                      /\ \A x \in 1..Conv : e.body.list[x] # "absent" => threads[x].opened
    BY <1>1 DEF CallsAreKnown, Opened, Carries
  <2>3. CASE e \in calls
    BY <2>2, <2>3 DEF CallsAreKnown
  <2>4. CASE e \in again
    BY <1>3, <2>1, <2>4
  <2> QED
    BY <1>2, <2>3, <2>4
<1>9. PagesWait'
  <2>1. PagesWait
    BY DEF MailroomInv
  <2>2. \A d, e \in calls' : d.who = e.who /\ d.who \in {"reply", "form", "location"} => d = e
    <3>1. \A m, n \in again : m = n
      BY DEF Taken
    <3> QED
      BY <1>2, <1>3, <2>1, <3>1 DEF PagesWait
  <2>3. \A w \in {"reply", "form", "location"} :
            (\E e \in calls' : e.who = w) <=>
                (\E d \in calls : d.who = w) /\ (c.who # w \/ again # {})
    <3> SUFFICES ASSUME NEW w \in {"reply", "form", "location"}
                 PROVE  (\E e \in calls' : e.who = w) <=>
                            (\E d \in calls : d.who = w) /\ (c.who # w \/ again # {})
      OBVIOUS
    <3>1. CASE c.who # w
      BY <1>2, <1>3, <1>4, <3>1
    <3>2. CASE c.who = w
      <4>1. \A e \in calls' : e.who = w => e \in again
        BY <1>2, <2>1, <3>2 DEF PagesWait
      <4>2. again \subseteq calls'
        BY <1>1
      <4> QED
        BY <1>3, <3>2, <4>1, <4>2
    <3> QED
      BY <3>1, <3>2
  <2>4. c.who \in {"form", "location"} => again = {}
    BY <1>3
  <2>5. inbox'.busy <=> \E e \in calls' : e.who = "reply"
    BY <2>1, <2>3 DEF PagesWait, Taken
  <2>6. finder'.busy <=> \E e \in calls' : e.who = "form"
    BY <2>1, <2>3, <2>4 DEF PagesWait, Taken
  <2>7. (finder'.location = "busy") => \E e \in calls' : e.who = "location"
    BY <2>1, <2>3, <2>4 DEF PagesWait, Taken
  <2>8. \A e \in calls' :
        /\ e.what = "message" => finder'.at = "form"
        /\ e.what \in {"relay", "answer", "stop"} => finder'.at = "conversation"
        /\ e.what = "location" => finder'.at \in {"form", "sent"}
        /\ e.who = "location" => finder'.location \in {"busy", "declined"}
    <3>1. \A e \in calls :
            /\ e.who = "location" => finder.location \in {"busy", "declined"}
            /\ e.who = "location" /\ c.who = "location" => e = c
            /\ e.what = "message" => finder.at = "form" /\ (c.what = "message" => e = c)
            /\ e.what \in {"relay", "answer", "stop"} => finder.at = "conversation"
            /\ e.what = "location" => finder.at \in {"form", "sent"}
      BY <2>1, CallForms DEF PagesWait
    <3>2. \/ finder'.at = finder.at
          \/ finder.at = "form" /\ finder'.at = "sent" /\ c.what = "message"
      BY DEF Taken
    <3>3. c.who # "location" => finder'.location = finder.location
      BY DEF Taken
    <3> QED
      BY <1>2, <1>3, <3>1, <3>2, <3>3
  <2> QED
    BY <2>2, <2>5, <2>6, <2>7, <2>8 DEF PagesWait
<1>10. PagesKnow'
  <2>1. PagesKnow /\ \A x : Opened(x) => x # 0
    BY SmallTypes DEF MailroomInv, Opened
  <2>2. \A x : Opened(x)' <=> Opened(x)
    BY <1>1 DEF Opened
  <2>3. /\ \A x \in 1..Conv : inbox'.list[x] # "absent" => threads[x].opened
        /\ inbox'.open # NoView => Opened(inbox'.open.conv)
    BY DEF Taken
  <2>4. /\ finder'.conv # 0 => Opened(finder'.conv)
        /\ finder'.at \in {"sent", "conversation"} => finder'.conv # 0
    BY <2>1 DEF Taken, PagesKnow
  <2> QED
    BY <1>1, <2>1, <2>2, <2>3, <2>4 DEF PagesKnow
<1>11. RoomIsLeft'
  <2>1. finder'.at = "form" => finder.at = "form"
    BY DEF Taken
  <2>2. (\E e \in calls' : e.what = "message" /\ e.out = "pending") =>
            \E d \in calls : d.what = "message" /\ d.out = "pending"
    BY <1>2, <1>3
  <2> QED
    BY <1>1, <1>5, <2>1, <2>2 DEF MailroomInv, RoomIsLeft
<1>12. TextsAreApart'
  <2>1. TextsAreApart /\ made["texts"] \in Nat
    BY StateForms DEF MailroomInv
  <2>2. inbox'.reply \in {inbox.reply, 0} /\ finder'.text \in {finder.text, 0}
    BY DEF Taken
  <2>3. \A d \in calls : Carries(d) => d.arg.text # 0
    BY DEF MailroomInv, CallsAreKnown
  <2>4. \A e \in calls' : Carries(e) =>
        /\ e.arg.text <= made["texts"]
        /\ e.who = "form" => e.arg.text # inbox'.reply
        /\ e.who = "reply" => e.arg.text # finder'.text
        /\ \A d \in calls' : Carries(d) /\ d.arg.text = e.arg.text => e = d
    BY <1>2, <1>3, <2>1, <2>2, <2>3 DEF TextsAreApart
  <2>5. /\ inbox'.reply <= made["texts"] /\ finder'.text <= made["texts"]
        /\ inbox'.reply # 0 => inbox'.reply # finder'.text
    BY <2>1, <2>2 DEF TextsAreApart
  <2> QED
    BY <1>1, <1>5, <2>1, <2>4, <2>5 DEF TextsAreApart, Carries
<1>13. TextsArriveOnce'
  <2> SUFFICES ASSUME NEW t \in Text \ {0}
               PROVE  /\ Times(t) <= 1 + made'["lost"]
                      /\ MayArrive(t)' => Times(t) <= made'["lost"]
    BY <1>1 DEF TextsArriveOnce, Times, Copies
  <2>1. /\ Times(t) \in Nat /\ Times(t) <= 1 + made["lost"]
        /\ MayArrive(t) => Times(t) <= made["lost"]
    BY TimesTyped DEF MailroomInv, TextsArriveOnce
  <2>2. CASE made'["lost"] # made["lost"]
    BY <1>5, <2>1, <2>2
  <2>3. CASE made'["lost"] = made["lost"]
    <3>1. ASSUME MayArrive(t)' PROVE MayArrive(t)
      <4>1. CASE \E e \in calls' : Carries(e) /\ e.arg.text = t /\ e.out # "ok"
        BY <1>2, <1>3, <4>1 DEF MayArrive
      <4>2. CASE /\ t = inbox'.reply \/ (t = finder'.text /\ finder'.at # "sent")
                 /\ \A e \in calls' : Carries(e) => e.arg.text # t
        <5>1. t = inbox.reply \/ (t = finder.text /\ finder.at # "sent")
          BY <4>2 DEF Taken
        <5>2. CASE Carries(c) /\ c.arg.text = t /\ c.out # "ok"
          BY <5>2 DEF MayArrive
        <5>3. CASE Carries(c) /\ c.arg.text = t /\ c.out = "ok"
          <6>1. /\ c.what = "reply" => c.who = "reply" /\ t # finder.text
                /\ c.what \in {"message", "answer"} => c.who = "form" /\ t # inbox.reply
            BY <5>3, CallForms DEF MailroomInv, TextsAreApart
          <6>2. /\ c.what = "reply" => inbox'.reply = 0
                /\ c.what = "message" => finder'.at = "sent"
                /\ c.what = "answer" => finder'.text = 0
            BY <2>3, <5>3 DEF Taken
          <6>3. inbox'.reply \in {inbox.reply, 0} /\ finder'.text \in {finder.text, 0} /\ t # 0
            BY DEF Taken
          <6> QED
            BY <4>2, <5>3, <6>1, <6>2, <6>3 DEF Carries
        <5>4. CASE ~(Carries(c) /\ c.arg.text = t)
          <6>1. \A d \in calls : Carries(d) => d.arg.text # t
            BY <1>4, <4>2, <5>4
          <6> QED
            BY <5>1, <6>1 DEF MayArrive
        <5> QED
          BY <5>2, <5>3, <5>4
      <4> QED
        BY <3>1, <4>1, <4>2 DEF MayArrive, Carries
    <3> QED
      BY <2>1, <2>3, <3>1
  <2> QED
    BY <2>2, <2>3
<1>14. CityIsToldOnce'
  <2>1. CityIsToldOnce
    BY DEF MailroomInv
  <2>2. finder'.location = "idle" /\ finder'.at # "conversation" =>
            finder.location = "idle" /\ finder.at # "conversation"
    BY DEF Taken
  <2>3. (\E e \in calls' : e.what = "location" /\ e.out # "ok") =>
            \E d \in calls : d.what = "location" /\ d.out # "ok"
    BY <1>2, <1>3
  <2> QED
    BY <1>1, <2>1, <2>2, <2>3 DEF CityIsToldOnce
<1>15. ReadIsShown'
  <2>1. ReadIsShown /\ \A x \in 1..Conv : seen[x] \in Nat /\ Len(threads[x].messages) \in Nat
    BY StateForms DEF MailroomInv
  <2>2. \A x \in 1..Conv :
            seen'[x] = IF /\ c.what \in {"read", "reply"} /\ c.out = "ok"
                          /\ made'["lost"] = made["lost"] /\ c.arg.conv = x
                          /\ Showing /\ Known(c) > seen[x]
                       THEN Known(c) ELSE seen[x]
    BY DEF Taken
  <2>3. c.what \in {"read", "reply"} /\ c.out = "ok" =>
            Known(c) <= Len(threads[c.arg.conv].messages)
    BY DEF MailroomInv, CallsAreKnown
  <2>4. \A x \in 1..Conv : seen'[x] <= Len(threads[x].messages)
    BY <2>1, <2>2, <2>3 DEF ReadIsShown
  <2>5. ASSUME made'["lost"] = 0
        PROVE  /\ (\E e \in calls' : e.what \in {"read", "reply"}) => Showing'
               /\ \A x \in 1..Conv : threads[x].opened /\ ~threads[x].unread =>
                    seen'[x] = Len(threads[x].messages) \/ WillShow(x)'
    <3>1. made["lost"] = 0 /\ made'["lost"] = made["lost"]
      BY <1>5, <2>5
    <3>2. /\ (\E d \in calls : d.what \in {"read", "reply"}) => Showing
          /\ \A x \in 1..Conv : threads[x].opened /\ ~threads[x].unread =>
                    seen[x] = Len(threads[x].messages) \/ WillShow(x)
      BY <2>1, <3>1 DEF ReadIsShown
    <3>3. Showing => Showing'
      <4>1. inbox'.list = inbox.list \/ inbox'.list[1] # "absent"
        BY <2>5 DEF Taken
      <4>2. 1 \in 1..Conv
        BY SmallTypes
      <4> QED
        BY <4>1, <4>2 DEF Showing
    <3>4. (\E e \in calls' : e.what \in {"read", "reply"}) => Showing'
      BY <1>2, <1>3, <3>2, <3>3
    <3>5. ASSUME NEW x \in 1..Conv, threads[x].opened, ~threads[x].unread
          PROVE  seen'[x] = Len(threads[x].messages) \/ WillShow(x)'
      <4>1. CASE seen[x] = Len(threads[x].messages)
        BY <2>1, <2>2, <2>3, <4>1, CallForms
      <4>2. CASE WillShow(x)
        <5>1. PICK d \in calls :
                /\ d.what \in {"read", "reply"} /\ d.out = "ok" /\ d.arg.conv = x
                /\ Known(d) = Len(threads[x].messages)
          BY <4>2 DEF WillShow
        <5>2. CASE d = c
          <6>1. Showing
            BY <3>2, <5>1
          <6>2. seen'[x] = IF Len(threads[x].messages) > seen[x]
                           THEN Len(threads[x].messages) ELSE seen[x]
            BY <2>2, <3>1, <5>1, <5>2, <6>1
          <6> QED
            BY <2>1, <6>2 DEF ReadIsShown
        <5>3. CASE d # c
          BY <1>1, <1>4, <5>1, <5>3 DEF WillShow
        <5> QED
          BY <5>2, <5>3
      <4> QED
        BY <3>2, <3>5, <4>1, <4>2
    <3> QED
      BY <3>4, <3>5
  <2> QED
    BY <1>1, <2>4, <2>5 DEF ReadIsShown
<1> QED
  BY <1>6, <1>7, <1>8, <1>9, <1>10, <1>11, <1>12, <1>13, <1>14, <1>15 DEF MailroomInv

\* The outcome e of a call c: what the server answered, or a failure.
Outcome(c, e) ==
    /\ e.id = c.id /\ e.who = c.who /\ e.what = c.what
    /\ \/ e = c /\ c.out # "pending" /\ made' = made
       \/ /\ e.out = "network_error" /\ e.body = Nothing
          /\ made' = [made EXCEPT !["lost"] = @ + 1]

\* What is known of it.
LEMMA OutcomeMeans ==
    ASSUME MailroomInv, NEW c \in calls, NEW e, Outcome(c, e)
    PROVE  /\ e.who = c.who /\ e.what = c.what
           /\ Without(calls, e) = calls \ {c}
           /\ e.body \in Bodies /\ e.body.list \in Rows /\ e.body.view \in View
           /\ \A x \in 1..Conv : e.body.list[x] # "absent" => threads[x].opened
           /\ made' \in [{"texts", "owner", "finder", "lost"} -> Nat]
           /\ made'["texts"] = made["texts"] /\ made'["owner"] = made["owner"]
           /\ made'["finder"] = made["finder"] /\ made'["lost"] >= made["lost"]
           /\ made'["lost"] = made["lost"] => e = c /\ c.out \in {"ok", "refused"}
           /\ e.out = "ok" => e = c /\ made'["lost"] = made["lost"]
           /\ made'["lost"] = 0 => made'["lost"] = made["lost"]
<1>1. Without(calls, e) = calls \ {c}
  BY DEF Outcome, Without, MailroomInv, CallsAreApart
<1>2. made \in [{"texts", "owner", "finder", "lost"} -> Nat] /\ made["lost"] \in Nat
  BY StateForms
<1>3. /\ c.body \in Bodies /\ c.out \in {"pending", "ok", "refused"}
      /\ \A x \in 1..Conv : c.body.list[x] # "absent" => threads[x].opened
  BY CallForms DEF MailroomInv, CallsAreKnown
<1>4. /\ Nothing \in Bodies /\ \A x \in 1..Conv : Nothing.list[x] = "absent"
  BY SmallTypes
<1> HIDE DEF Nothing
<1>5. e.body \in Bodies /\ \A x \in 1..Conv : e.body.list[x] # "absent" => threads[x].opened
  BY <1>3, <1>4 DEF Outcome
<1>6. e.body.list \in Rows /\ e.body.view \in View
  BY <1>5 DEF Bodies
<1>7. CASE e = c /\ c.out # "pending" /\ made' = made
  BY <1>1, <1>2, <1>3, <1>5, <1>6, <1>7
<1>8. CASE /\ e.out = "network_error" /\ e.who = c.who /\ e.what = c.what
           /\ made' = [made EXCEPT !["lost"] = @ + 1]
  <2>1. /\ made' \in [{"texts", "owner", "finder", "lost"} -> Nat]
        /\ made'["texts"] = made["texts"] /\ made'["owner"] = made["owner"]
        /\ made'["finder"] = made["finder"] /\ made'["lost"] = made["lost"] + 1
    BY <1>2, <1>8
  <2>2. made'["lost"] >= made["lost"] /\ made'["lost"] # made["lost"] /\ made'["lost"] # 0
    BY <1>2, <2>1
  <2> QED
    BY <1>1, <1>5, <1>6, <1>8, <2>1, <2>2
<1> QED
  BY <1>7, <1>8 DEF Outcome

\* The owner's answers.
LEMMA OwnerAnswerStep ==
    ASSUME MailroomInv, NEW c \in calls, NEW e, Outcome(c, e), UNCHANGED <<threads, told>>,
           ListAnswer(e) \/ ThreadAnswer(e) \/ ThreadFails(e)
    PROVE  MailroomInv'
<1>1. /\ inbox \in InboxState /\ finder \in FinderState /\ widget \in Widget
      /\ seen \in [1..Conv -> Nat] /\ finder' = finder /\ widget' = widget
      /\ inbox.busy \in BOOLEAN
      /\ PagesKnow /\ CallsAreKnown
  BY StateForms DEF MailroomInv, Typed, ListAnswer, ThreadAnswer, ThreadFails
<1>2. /\ e.who = c.who /\ e.what = c.what
      /\ e.body \in Bodies /\ e.body.list \in Rows /\ e.body.view \in View
      /\ \A x \in 1..Conv : e.body.list[x] # "absent" => threads[x].opened
      /\ made' \in [{"texts", "owner", "finder", "lost"} -> Nat]
      /\ made'["texts"] = made["texts"] /\ made'["owner"] = made["owner"]
      /\ made'["finder"] = made["finder"] /\ made'["lost"] >= made["lost"]
      /\ made'["lost"] = made["lost"] => e = c /\ c.out \in {"ok", "refused"}
      /\ e.out = "ok" => e = c /\ made'["lost"] = made["lost"]
      /\ made'["lost"] = 0 => made'["lost"] = made["lost"]
      /\ Without(calls, e) = calls \ {c}
  BY OutcomeMeans
<1>3. /\ c.what = "reply" => c.who = "reply"
      /\ c.what = "read" => c.who = "read"
      /\ c.what \in {"list", "read", "reply"} => c.who \notin {"form", "location", "load"}
      /\ c.id \in Ids /\ c.who \in Parts
  BY CallForms
<1>4. /\ \A x \in 1..Conv : inbox.list[x] # "absent" => threads[x].opened
      /\ inbox.open # NoView => Opened(inbox.open.conv)
  BY <1>1 DEF PagesKnow
<1>5. CASE ListAnswer(e)
  <2> DEFINE busy == IF e.who = "reply" THEN FALSE ELSE inbox.busy
             list == e.body.list
  <2>1. /\ c.what = "list" /\ inbox' = [inbox EXCEPT !.list = list, !.busy = busy]
        /\ calls' = calls \ {c} /\ seen' = seen
    BY <1>1, <1>2, <1>5 DEF ListAnswer, Over, InboxState
  <2>2. busy \in BOOLEAN /\ (busy <=> inbox.busy /\ c.who # "reply") /\ list \in Rows
    BY <1>1, <1>2
  <2>3. made'["lost"] = 0 => list[1] # "absent"
    <3> SUFFICES ASSUME made'["lost"] = 0 PROVE list[1] # "absent"
      OBVIOUS
    <3>1. e = c /\ c.out = "ok"
      BY <1>1, <1>2, <2>1 DEF CallsAreKnown
    <3> QED
      BY <1>1, <2>1, <3>1 DEF CallsAreKnown
  <2>4. \A x \in 1..Conv : list[x] # "absent" => threads[x].opened
    BY <1>2
  <2> HIDE DEF busy, list
  <2>5. /\ inbox' \in InboxState /\ inbox'.list = list /\ inbox'.busy = busy
        /\ inbox'.reply = inbox.reply /\ inbox'.open = inbox.open
    BY <1>1, <2>1, <2>2 DEF InboxState, Rows
  <2>6. Taken(c, {})
    BY <1>1, <1>2, <1>3, <1>4, <2>1, <2>2, <2>3, <2>4, <2>5 DEF Taken
  <2> QED
    BY <2>6, TakenStep
<1>6. CASE ThreadAnswer(e)
  <2> DEFINE reply == IF e.what = "reply" THEN 0 ELSE inbox.reply
             view == e.body.view
             n == Sent(e.id, e.who, "list", NoArg, Nothing)
  <2>1. /\ c.what \in {"read", "reply"} /\ e = c /\ c.out = "ok"
        /\ made'["lost"] = made["lost"]
        /\ inbox' = [inbox EXCEPT !.open = view, !.reply = reply]
        /\ calls' = (calls \ {c}) \cup {n}
    BY <1>1, <1>2, <1>6 DEF ThreadAnswer, InboxState
  <2>2. view \in View /\ view.shown \in Nat /\ view.conv = c.arg.conv /\ Opened(view.conv)
    BY <1>1, <1>2, <2>1 DEF CallsAreKnown, View
  <2>3. reply \in Text /\ reply \in {inbox.reply, 0} /\ (c.what = "reply" => reply = 0)
    BY <2>1, StateForms, SmallTypes
  <2>4. /\ n \in Calls /\ n.id = c.id /\ n.who = c.who /\ n.what = "list"
        /\ n.out = "pending" /\ n.body = Nothing
    <3>1. "list" \in Operations /\ NoArg \in Args
      BY SmallTypes DEF Operations
    <3> HIDE DEF NoArg, Nothing
    <3> QED
      BY <1>3, <2>1, <3>1, SentCall
  <2> HIDE DEF n, reply
  <2> DEFINE known == Known(c)
  <2>5. seen' = [seen EXCEPT ![view.conv] = IF Showing /\ known > seen[view.conv]
                                            THEN known ELSE seen[view.conv]]
    BY <1>1, <1>6, <2>1, <2>2 DEF ThreadAnswer, Opened
  <2> DEFINE most == IF Showing /\ known > seen[view.conv]
                     THEN known ELSE seen[view.conv]
  <2>6. view.conv \in 1..Conv /\ most \in Nat
    BY <1>1, <2>2, CallForms DEF Opened
  <2>7. /\ seen' \in [1..Conv -> Nat]
        /\ \A x \in 1..Conv : seen'[x] = IF x = view.conv THEN most ELSE seen[x]
    <3> HIDE DEF most
    <3>1. seen' = [seen EXCEPT ![view.conv] = most]
      BY <2>5 DEF most
    <3> QED
      BY <1>1, <2>6, <3>1
  <2>8. \A x \in 1..Conv :
            seen'[x] = IF c.arg.conv = x /\ Showing /\ known > seen[x]
                       THEN known ELSE seen[x]
    BY <2>2, <2>7
  <2> HIDE DEF view, most
  <2>9. /\ inbox' \in InboxState /\ inbox'.list = inbox.list /\ inbox'.busy = inbox.busy
        /\ inbox'.reply = reply /\ inbox'.open = view
    BY <1>1, <2>1, <2>2, <2>3 DEF InboxState
  <2>10. view = c.body.view
    BY <2>1 DEF view
  <2>11. Taken(c, {n})
    BY <1>1, <1>2, <1>3, <1>4, <2>1, <2>2, <2>3, <2>4, <2>7, <2>8, <2>9, <2>10 DEF Taken
  <2> QED
    BY <2>11, TakenStep
<1>7. CASE ThreadFails(e)
  <2> DEFINE busy == IF e.what = "reply" THEN FALSE ELSE inbox.busy
  <2>1. /\ c.what \in {"read", "reply"} /\ e.out # "ok" /\ inbox' = [inbox EXCEPT !.busy = busy]
        /\ calls' = calls \ {c} /\ seen' = seen
    BY <1>1, <1>2, <1>7 DEF ThreadFails, Over, InboxState
  <2>2. busy \in BOOLEAN /\ (busy <=> inbox.busy /\ c.who # "reply")
    BY <1>1, <1>2, <1>3, <2>1
  <2> HIDE DEF busy
  <2>3. /\ inbox' \in InboxState /\ inbox'.list = inbox.list /\ inbox'.busy = busy
        /\ inbox'.reply = inbox.reply /\ inbox'.open = inbox.open
    BY <1>1, <2>1, <2>2 DEF InboxState
  <2>4. Taken(c, {})
    BY <1>1, <1>2, <1>3, <1>4, <2>1, <2>2, <2>3 DEF Taken
  <2> QED
    BY <2>4, TakenStep
<1> QED
  BY <1>5, <1>6, <1>7

\* The finder's answers.
LEMMA FinderAnswerStep ==
    ASSUME MailroomInv, NEW c \in calls, NEW e, Outcome(c, e), UNCHANGED <<threads, told>>,
           FinderAnswer(e)
    PROVE  MailroomInv'
<1>1. /\ inbox \in InboxState /\ finder \in FinderState /\ widget \in Widget
      /\ seen \in [1..Conv -> Nat] /\ inbox' = inbox /\ seen' = seen
      /\ finder.busy \in BOOLEAN /\ finder.text \in Text /\ finder.conv \in Convs
      /\ finder.at \in Places /\ finder.location \in Locations /\ finder.thread \in View
      /\ PagesKnow /\ CallsAreKnown /\ PagesWait
      /\ Reset(widget) \in Widget
  BY StateForms, WidgetTyped DEF MailroomInv, Typed, FinderAnswer, FinderState
<1>2. /\ e.who = c.who /\ e.what = c.what /\ e.body.view \in View
      /\ made' \in [{"texts", "owner", "finder", "lost"} -> Nat]
      /\ made'["texts"] = made["texts"] /\ made'["owner"] = made["owner"]
      /\ made'["finder"] = made["finder"] /\ made'["lost"] >= made["lost"]
      /\ made'["lost"] = made["lost"] => e = c
      /\ e.out = "ok" => e = c /\ made'["lost"] = made["lost"]
      /\ Without(calls, e) = calls \ {c}
  BY OutcomeMeans
<1>3. /\ c.what \in {"message", "answer", "stop"} <=> c.who = "form"
      /\ c.what = "location" <=> c.who = "location"
      /\ c.what = "relay" <=> c.who = "load"
      /\ c.body.view.conv \in Convs
  BY CallForms
<1>4. /\ \A x \in 1..Conv : inbox.list[x] # "absent" => threads[x].opened
      /\ inbox.open # NoView => Opened(inbox.open.conv)
  BY <1>1 DEF PagesKnow
<1>5. calls' = calls \ {c}
  BY <1>2 DEF FinderAnswer, Over
<1>6. CASE MessageAnswer(e)
  <2> DEFINE conv == IF e.out = "ok" THEN c.body.view.conv ELSE finder.conv
             at == IF e.out = "ok" THEN "sent" ELSE finder.at
  <2>1. c.what = "message" /\ finder.at = "form" /\ widget' = Reset(widget)
    BY <1>1, <1>2, <1>6 DEF MessageAnswer, PagesWait
  <2>2. finder' = [finder EXCEPT !.at = at, !.conv = conv, !.busy = FALSE]
    BY <1>1, <1>2, <1>6 DEF MessageAnswer, FinderState
  <2>3. /\ at \in Places /\ conv \in Convs
        /\ conv = finder.conv \/ Opened(conv)
        /\ at = finder.at \/ (at = "sent" /\ Opened(conv))
        /\ c.out = "ok" /\ made'["lost"] = made["lost"] => at = "sent"
    BY <1>1, <1>2, <1>3, <2>1 DEF CallsAreKnown, Places
  <2> HIDE DEF conv, at
  <2>4. /\ finder' \in FinderState /\ finder'.at = at /\ finder'.conv = conv
        /\ ~finder'.busy /\ finder'.text = finder.text /\ finder'.location = finder.location
    BY <1>1, <2>2, <2>3, FinderFields
  <2>5. Taken(c, {})
    BY <1>1, <1>2, <1>3, <1>4, <1>5, <2>1, <2>3, <2>4 DEF Taken
  <2> QED
    BY <2>5, TakenStep
<1>7. CASE LocationAnswer(e)
  <2> DEFINE location == IF e.out = "ok" THEN "sent" ELSE "declined"
  <2>1. /\ c.what = "location" /\ widget' = widget
        /\ finder' = [finder EXCEPT !.location = location]
    BY <1>2, <1>7 DEF LocationAnswer
  <2>2. location \in {"sent", "declined"} /\ location \in Locations
    BY DEF Locations
  <2> HIDE DEF location
  <2>3. /\ finder' \in FinderState /\ finder'.at = finder.at /\ finder'.conv = finder.conv
        /\ finder'.busy = finder.busy /\ finder'.text = finder.text
        /\ finder'.location = location
    BY <1>1, <2>1, <2>2, FinderFields
  <2>4. Taken(c, {})
    BY <1>1, <1>2, <1>3, <1>4, <1>5, <2>1, <2>2, <2>3 DEF Taken
  <2> QED
    BY <2>4, TakenStep
<1>8. CASE ConversationAnswer(e)
  <2> DEFINE thread == IF e.out = "ok" THEN e.body.view ELSE finder.thread
             text == IF e.out = "ok" /\ e.what = "answer" THEN 0 ELSE finder.text
             busy == IF e.who = "form" THEN FALSE ELSE finder.busy
  <2>1. /\ c.what \in {"relay", "answer", "stop"} /\ widget' = widget
        /\ finder' = [finder EXCEPT !.thread = thread, !.text = text, !.busy = busy]
    BY <1>1, <1>2, <1>8 DEF ConversationAnswer, FinderState
  <2>2. /\ thread \in View /\ text \in Text /\ text \in {finder.text, 0}
        /\ busy \in BOOLEAN /\ (busy <=> finder.busy /\ c.who # "form")
        /\ c.out = "ok" /\ made'["lost"] = made["lost"] /\ c.what = "answer" => text = 0
    BY <1>1, <1>2, SmallTypes
  <2> HIDE DEF thread, text, busy
  <2>3. /\ finder' \in FinderState /\ finder'.at = finder.at /\ finder'.conv = finder.conv
        /\ finder'.busy = busy /\ finder'.text = text
        /\ finder'.location = finder.location
    BY <1>1, <2>1, <2>2, FinderFields
  <2>4. Taken(c, {})
    BY <1>1, <1>2, <1>3, <1>4, <1>5, <2>1, <2>2, <2>3 DEF Taken
  <2> QED
    BY <2>4, TakenStep
<1> QED
  BY <1>6, <1>7, <1>8 DEF FinderAnswer

\* A page takes the outcome of a call, or its call fails.
LEMMA HandleStep ==
    ASSUME MailroomInv, NEW c \in calls, Take(c) \/ Drop(c)
    PROVE  MailroomInv'
<1>1. CASE Take(c)
  <2>1. Outcome(c, c) /\ UNCHANGED <<threads, told>>
    BY <1>1 DEF Take, Outcome
  <2>2. ListAnswer(c) \/ ThreadAnswer(c) \/ ThreadFails(c) \/ FinderAnswer(c)
    BY <1>1 DEF Take, Handle
  <2> QED
    BY <2>1, <2>2, OwnerAnswerStep, FinderAnswerStep
<1>2. CASE Drop(c)
  <2> DEFINE d == [Lost(c) EXCEPT !.body = Nothing]
  <2>1. c \in Calls
    BY CallForms
  <2>2. /\ d.id = c.id /\ d.who = c.who /\ d.what = c.what
        /\ d.out = "network_error" /\ d.body = Nothing
    BY <2>1 DEF Lost, Calls
  <2>3. /\ made' = [made EXCEPT !["lost"] = @ + 1] /\ UNCHANGED <<threads, told>>
        /\ ListAnswer(d) \/ ThreadFails(d) \/ FinderAnswer(d)
    BY <1>2 DEF Drop
  <2> HIDE DEF d
  <2>4. Outcome(c, d)
    BY <2>2, <2>3 DEF Outcome
  <2> QED
    BY <2>3, <2>4, OwnerAnswerStep, FinderAnswerStep
<1> QED
  BY <1>1, <1>2

-----------------------------------------------------------------------------
(* The steps of one page alone. *)

\* No call is sent or taken, and no message comes in; at most one text is typed.
Stays ==
    /\ UNCHANGED <<told, calls, seen>>
    /\ threads' \in [1..Conv -> Threads]
    /\ \A x \in 1..Conv : /\ threads'[x].opened = threads[x].opened
                          /\ threads'[x].unread = threads[x].unread
                          /\ threads'[x].messages = threads[x].messages
    /\ made' \in [{"texts", "owner", "finder", "lost"} -> Nat]
    /\ made'["owner"] = made["owner"] /\ made'["finder"] = made["finder"]
    /\ made'["lost"] = made["lost"] /\ made'["texts"] <= MaxTexts
    /\ inbox' \in InboxState /\ finder' \in FinderState /\ widget' \in Widget
    /\ inbox'.list = inbox.list /\ inbox'.busy = inbox.busy
    /\ inbox'.open \in {inbox.open, NoView}
    /\ finder'.at = finder.at /\ finder'.conv = finder.conv /\ finder'.busy = finder.busy
    /\ \/ finder'.location = finder.location
       \/ finder.location \in {"idle", "busy"} /\ finder'.location = "declined"
    /\ \/ /\ made'["texts"] = made["texts"]
          /\ inbox'.reply = inbox.reply /\ finder'.text = finder.text
       \/ /\ made'["texts"] = made["texts"] + 1
          /\ inbox'.reply = made'["texts"] /\ finder'.text = finder.text
       \/ /\ made'["texts"] = made["texts"] + 1
          /\ inbox'.reply = inbox.reply /\ finder'.text = made'["texts"]

\* Then the invariant holds of what is left: a text that is typed is a new one.
LEMMA StaysStep ==
    ASSUME MailroomInv, Stays
    PROVE  MailroomInv'
<1>1. /\ made["texts"] \in Nat /\ made["lost"] \in Nat
      /\ inbox.reply \in Text /\ finder.text \in Text
      /\ \A t \in Text : t \in Nat
      /\ \A x \in 1..Conv : Len(threads[x].messages) \in Nat
  BY StateForms, MailroomAssumption DEF Text
<1>2. /\ UNCHANGED <<told, calls, seen>>
      /\ \A x \in 1..Conv : /\ threads'[x].opened = threads[x].opened
                            /\ threads'[x].unread = threads[x].unread
                            /\ threads'[x].messages = threads[x].messages
      /\ made'["owner"] = made["owner"] /\ made'["finder"] = made["finder"]
      /\ made'["lost"] = made["lost"]
      /\ inbox'.list = inbox.list /\ inbox'.busy = inbox.busy
      /\ inbox'.open \in {inbox.open, NoView}
      /\ finder'.at = finder.at /\ finder'.conv = finder.conv /\ finder'.busy = finder.busy
      /\ \/ finder'.location = finder.location
         \/ finder.location \in {"idle", "busy"} /\ finder'.location = "declined"
  BY DEF Stays
<1>3. \/ /\ made'["texts"] = made["texts"]
         /\ inbox'.reply = inbox.reply /\ finder'.text = finder.text
      \/ /\ made'["texts"] = made["texts"] + 1
         /\ inbox'.reply = made'["texts"] /\ finder'.text = finder.text
      \/ /\ made'["texts"] = made["texts"] + 1
         /\ inbox'.reply = inbox.reply /\ finder'.text = made'["texts"]
  BY DEF Stays
<1>4. Typed'
  BY DEF Stays, MailroomInv, Typed
<1>5. CallsAreApart'
  <2>1. \A c \in calls : c.id[1] \in {"owner", "finder"}
    BY CallForms DEF Ids
  <2>2. \A c \in calls : made'[c.id[1]] = made[c.id[1]]
    BY <1>2, <2>1
  <2> QED
    BY <1>2, <2>2 DEF MailroomInv, CallsAreApart
<1>6. \A x : Opened(x)' <=> Opened(x)
  BY <1>2 DEF Opened
<1>7. CallsAreKnown'
  <2>1. \A x \in 1..Conv : Len(threads'[x].messages) = Len(threads[x].messages)
    BY <1>2
  <2>2. CallsAreKnown
    BY DEF MailroomInv
  <2>3. \A c \in calls : c.what \in {"read", "reply", "relay", "answer", "stop"} =>
                            c.arg.conv \in 1..Conv
    BY <2>2 DEF CallsAreKnown, Opened
  <2> QED
    BY <1>2, <1>6, <2>1, <2>2, <2>3 DEF CallsAreKnown, Carries
<1>8. PagesWait'
  BY <1>2 DEF MailroomInv, PagesWait
<1>9. PagesKnow'
  <2>1. 1 \in 1..Conv
    BY SmallTypes
  <2> QED
    BY <1>2, <1>6, <2>1 DEF MailroomInv, PagesKnow
<1>10. RoomIsLeft'
  BY <1>2 DEF MailroomInv, RoomIsLeft
<1>11. TextsAreApart
  BY DEF MailroomInv
<1>12. \A c \in calls : c.arg.text \in Nat
  BY <1>1, CallForms
<1>13. TextsAreApart'
  <2>1. made'["texts"] \in Nat /\ made'["texts"] >= made["texts"]
    BY <1>1, <1>3
  <2>2. \A x \in 1..Conv : \A i \in 1..Len(threads[x].messages) :
            threads[x].messages[i] \in Nat
    BY <1>1, StateForms
  <2>3. \A x \in 1..Conv : \A i \in 1..Len(threads'[x].messages) :
            threads'[x].messages[i] <= made'["texts"]
    BY SMTT(30), <1>1, <1>2, <1>11, <2>1, <2>2 DEF TextsAreApart
  <2>4. \A c \in calls : Carries(c) => c.arg.text <= made'["texts"]
    BY <1>1, <1>11, <1>12, <2>1 DEF TextsAreApart
  <2>5. inbox'.reply <= made'["texts"] /\ finder'.text <= made'["texts"]
    BY <1>1, <1>3, <1>11, <2>1 DEF TextsAreApart
  <2>6. inbox'.reply # 0 => inbox'.reply # finder'.text
    BY <1>1, <1>3, <1>11, <2>1 DEF TextsAreApart
  <2>7. \A c \in calls : Carries(c) =>
            /\ c.who = "form" => c.arg.text # inbox'.reply
            /\ c.who = "reply" => c.arg.text # finder'.text
    BY <1>1, <1>3, <1>11, <1>12, <2>1 DEF TextsAreApart
  <2>8. \A c, d \in calls : Carries(c) /\ Carries(d) /\ d.arg.text = c.arg.text => c = d
    BY <1>11 DEF TextsAreApart
  <2> QED
    BY <1>2, <2>3, <2>4, <2>5, <2>6, <2>7, <2>8 DEF TextsAreApart, Carries
<1>14. TextsArriveOnce'
  <2> SUFFICES ASSUME NEW t \in Text \ {0}
               PROVE  /\ Times(t)' <= 1 + made["lost"]
                      /\ MayArrive(t)' => Times(t)' <= made["lost"]
    BY <1>2 DEF TextsArriveOnce
  <2>1. Copies(t)' = Copies(t)
    BY <1>2 DEF Copies
  <2>2. Times(t)' = Times(t) /\ Times(t) \in Nat
    BY <2>1, TimesTyped DEF Times
  <2>3. Times(t) <= 1 + made["lost"] /\ (MayArrive(t) => Times(t) <= made["lost"])
    BY DEF MailroomInv, TextsArriveOnce
  <2>4. CASE t > made["texts"]
    <3>1. \A x \in 1..Conv : \A i \in 1..Len(threads[x].messages) :
            threads[x].messages[i] # t
      <4>1. \A x \in 1..Conv : \A i \in 1..Len(threads[x].messages) :
                threads[x].messages[i] \in Nat
        BY <1>1, StateForms
      <4> QED
        BY <1>1, <1>11, <2>4, <4>1 DEF TextsAreApart
    <3>2. Copies(t) = {}
      <4>1. \A i \in 1..(MaxTexts + 2) : i \in Nat /\ i >= 1
        BY MailroomAssumption
      <4>2. \A x \in 1..Conv : \A i \in 1..(MaxTexts + 2) :
                i <= Len(threads[x].messages) => threads[x].messages[i] # t
        BY <1>1, <3>1, <4>1
      <4> QED
        BY <4>2 DEF Copies
    <3>3. Times(t) = 0
      BY <3>2, FS_EmptySet DEF Times
    <3> QED
      BY <1>1, <2>2, <2>3, <3>3
  <2>5. CASE ~(t > made["texts"])
    <3>1. t # made["texts"] + 1
      BY <1>1, <2>5
    <3>2. MayArrive(t)' => MayArrive(t)
      BY <1>2, <1>3, <3>1 DEF MayArrive, Carries
    <3> QED
      BY <2>2, <2>3, <3>2
  <2> QED
    BY <2>4, <2>5
<1>15. CityIsToldOnce'
  BY <1>2 DEF MailroomInv, CityIsToldOnce
<1>16. ReadIsShown'
  <2>1. \A x \in 1..Conv : Len(threads'[x].messages) = Len(threads[x].messages)
    BY <1>2
  <2>2. \A x \in 1..Conv : WillShow(x)' <=> WillShow(x)
    BY <1>2, <2>1 DEF WillShow
  <2>3. Showing' <=> Showing
    BY <1>2 DEF Showing
  <2> QED
    BY <1>2, <2>1, <2>2, <2>3 DEF MailroomInv, ReadIsShown
<1> QED
  BY <1>4, <1>5, <1>7, <1>8, <1>9, <1>10, <1>13, <1>14, <1>15, <1>16 DEF MailroomInv

\* What the widget of the form does by itself.
LEMMA WidgetMovesTyped ==
    ASSUME MailroomInv, NEW w \in Moves(widget, Enabled)
    PROVE  w \in Widget
<1>1. widget \in Widget /\ Enabled \in BOOLEAN
  BY MailroomAssumption DEF MailroomInv, Typed
<1>2. \A k \in {"on", "off"} : Keyed(widget, k) \in Widget
  <2> SUFFICES ASSUME NEW k \in {"on", "off"} PROVE Keyed(widget, k) \in Widget
    OBVIOUS
  <2> DEFINE drawn == IF k = "on" /\ widget.mounted THEN "loading" ELSE widget.drawn
  <2>1. /\ drawn \in {"no", "loading", "yes", "gone", "failed"}
        /\ Keyed(widget, k) = [widget EXCEPT !.key = k, !.drawn = drawn]
    BY <1>1 DEF Keyed, Widget
  <2> HIDE DEF drawn
  <2> QED
    BY <1>1, <2>1 DEF Widget
<1>3. \A loads \in BOOLEAN : Scripted(widget, loads) \in Widget
  <2> SUFFICES ASSUME NEW loads \in BOOLEAN PROVE Scripted(widget, loads) \in Widget
    OBVIOUS
  <2> DEFINE drawn == IF ~loads THEN "failed" ELSE IF widget.mounted THEN "yes" ELSE "no"
  <2>1. /\ drawn \in {"no", "loading", "yes", "gone", "failed"}
        /\ Scripted(widget, loads) = [widget EXCEPT !.drawn = drawn]
    BY <1>1 DEF Scripted, Widget
  <2> HIDE DEF drawn
  <2> QED
    BY <1>1, <2>1 DEF Widget
<1>4. Solved(widget) \in Widget /\ Expired(widget) \in Widget
  BY <1>1 DEF Solved, Expired, Widget
<1>5. Keys(Enabled) \subseteq {"on", "off"}
  BY <1>1 DEF Keys
<1> QED
  BY <1>2, <1>3, <1>4, <1>5 DEF Moves

\* Every step that is of one page alone, and the rotation of the tag's code.
LEMMA LocalSteps ==
    ASSUME MailroomInv,
           Back \/ TypeReply \/ TypeText \/ DeclineLocation \/ WidgetMoves \/ Rotate
    PROVE  MailroomInv'
<1>1. /\ threads \in [1..Conv -> Threads] /\ inbox \in InboxState /\ finder \in FinderState
      /\ widget \in Widget /\ made \in [{"texts", "owner", "finder", "lost"} -> Nat]
      /\ made["texts"] <= MaxTexts /\ made["texts"] \in Nat
  BY StateForms DEF MailroomInv, Typed
<1>2. NewText => /\ made' \in [{"texts", "owner", "finder", "lost"} -> Nat]
                 /\ made'["texts"] = made["texts"] + 1 /\ made'["texts"] <= MaxTexts
                 /\ made'["texts"] \in Text
                 /\ made'["owner"] = made["owner"] /\ made'["finder"] = made["finder"]
                 /\ made'["lost"] = made["lost"]
  BY <1>1, MailroomAssumption DEF NewText, Text
<1>3. CASE Back
  <2>1. NoView \in View
    BY SmallTypes
  <2>2. inbox' = [inbox EXCEPT !.open = NoView]
        /\ UNCHANGED <<threads, told, calls, made, finder, widget, seen>>
    BY <1>3 DEF Back
  <2> HIDE DEF NoView
  <2>3. /\ inbox' \in InboxState /\ inbox'.list = inbox.list /\ inbox'.busy = inbox.busy
        /\ inbox'.open = NoView /\ inbox'.reply = inbox.reply
    BY <1>1, <2>1, <2>2 DEF InboxState
  <2>4. Stays
    BY <1>1, <2>2, <2>3 DEF Stays
  <2> QED
    BY <2>4, StaysStep
<1>4. CASE TypeReply
  <2> DEFINE t == made'["texts"]
  <2>1. /\ NewText /\ inbox' = [inbox EXCEPT !.reply = t]
        /\ UNCHANGED <<threads, told, calls, finder, widget, seen>>
    BY <1>4 DEF TypeReply
  <2>2. t \in Text
    BY <1>2, <2>1
  <2> HIDE DEF t
  <2>3. /\ inbox' \in InboxState /\ inbox'.list = inbox.list /\ inbox'.busy = inbox.busy
        /\ inbox'.open = inbox.open /\ inbox'.reply = t
    BY <1>1, <2>1, <2>2 DEF InboxState
  <2>4. Stays
    BY <1>1, <1>2, <2>1, <2>3 DEF Stays, t
  <2> QED
    BY <2>4, StaysStep
<1>5. CASE TypeText
  <2> DEFINE t == made'["texts"]
  <2>1. /\ NewText /\ finder' = [finder EXCEPT !.text = t]
        /\ UNCHANGED <<threads, told, calls, inbox, widget, seen>>
    BY <1>5 DEF TypeText
  <2>2. t \in Text
    BY <1>2, <2>1
  <2> HIDE DEF t
  <2>3. /\ finder' \in FinderState /\ finder'.at = finder.at /\ finder'.conv = finder.conv
        /\ finder'.busy = finder.busy /\ finder'.location = finder.location
        /\ finder'.text = t
    BY <1>1, <2>1, <2>2, FinderFields
  <2>4. Stays
    BY <1>1, <1>2, <2>1, <2>3 DEF Stays, t
  <2> QED
    BY <2>4, StaysStep
<1>6. CASE DeclineLocation
  <2>1. /\ finder' = [finder EXCEPT !.location = "declined"]
        /\ finder.location \in {"idle", "busy"}
        /\ UNCHANGED <<threads, told, calls, made, inbox, widget, seen>>
    BY <1>6 DEF DeclineLocation
  <2>2. "declined" \in Locations
    BY DEF Locations
  <2>3. /\ finder' \in FinderState /\ finder'.at = finder.at /\ finder'.conv = finder.conv
        /\ finder'.busy = finder.busy /\ finder'.text = finder.text
        /\ finder'.location = "declined"
    BY <1>1, <2>1, <2>2, FinderFields
  <2>4. Stays
    BY <1>1, <2>1, <2>3 DEF Stays
  <2> QED
    BY <2>4, StaysStep
<1>7. CASE WidgetMoves
  <2>1. /\ widget' \in Widget /\ UNCHANGED <<threads, told, calls, made, inbox, finder, seen>>
    BY <1>7, WidgetMovesTyped DEF WidgetMoves
  <2>2. Stays
    BY <1>1, <2>1 DEF Stays
  <2> QED
    BY <2>2, StaysStep
<1>8. CASE Rotate
  <2>1. /\ threads' = [c \in 1..Conv |-> [threads[c] EXCEPT !.closed = threads[c].opened]]
        /\ UNCHANGED <<told, calls, made, inbox, finder, widget, seen>>
    BY <1>8 DEF Rotate
  <2>2. \A x \in 1..Conv : /\ threads'[x] \in Threads
                           /\ threads'[x].opened = threads[x].opened
                           /\ threads'[x].unread = threads[x].unread
                           /\ threads'[x].messages = threads[x].messages
    <3> SUFFICES ASSUME NEW x \in 1..Conv
                 PROVE  /\ threads'[x] \in Threads
                        /\ threads'[x].opened = threads[x].opened
                        /\ threads'[x].unread = threads[x].unread
                        /\ threads'[x].messages = threads[x].messages
      OBVIOUS
    <3> DEFINE closed == threads[x].opened
    <3>1. /\ threads[x] \in Threads /\ closed \in BOOLEAN
          /\ threads'[x] = [threads[x] EXCEPT !.closed = closed]
      BY <1>1, <2>1 DEF Threads
    <3> HIDE DEF closed
    <3> QED
      BY <3>1 DEF Threads
  <2>3. threads' \in [1..Conv -> Threads]
    BY <2>1, <2>2
  <2>4. Stays
    BY <1>1, <2>1, <2>2, <2>3 DEF Stays
  <2> QED
    BY <2>4, StaysStep
<1> QED
  BY <1>3, <1>4, <1>5, <1>6, <1>7, <1>8

-----------------------------------------------------------------------------
(* The invariant and what follows from it. *)

\* The pages as they are opened.
LEMMA InitStep == Init => MailroomInv
<1> SUFFICES ASSUME Init PROVE MailroomInv
  OBVIOUS
<1>1. PICK back \in BOOLEAN :
        /\ threads = [c \in 1..Conv |->
                [opened |-> c = 1 \/ (back /\ c = 2), closed |-> FALSE, unread |-> TRUE,
                 email |-> back /\ c = 2,
                 messages |-> IF c = 1 \/ (back /\ c = 2) THEN <<0>> ELSE <<>>]]
        /\ finder = [at |-> IF back THEN "sent" ELSE "form", conv |-> IF back THEN 2 ELSE 0,
                     text |-> 0, busy |-> FALSE, thread |-> NoView,
                     location |-> "idle"]
  BY DEF Init
<1> DEFINE first == Sent(<<"owner", 0>>, "mount", "list", NoArg, Nothing)
<1>2. /\ told = 0 /\ calls = {first} /\ seen = [c \in 1..Conv |-> 0]
      /\ made = [what \in {"texts", "owner", "finder", "lost"} |-> 0]
      /\ inbox = [list |-> NoList, open |-> NoView, reply |-> 0, busy |-> FALSE]
      /\ widget = NewWidget(TRUE)
  BY DEF Init
<1>3. /\ 0 \in Text /\ 0 \in Convs /\ 2 \in Convs /\ 1 \in 1..Conv /\ 2 \in 1..Conv
      /\ NoView \in View /\ NoList \in Rows /\ \A x \in 1..Conv : NoList[x] = "absent"
      /\ Nothing.view = NoView /\ Nothing.list = NoList
      /\ NoArg \in Args /\ "list" \in Operations /\ "mount" \in Parts /\ <<"owner", 0>> \in Ids
      /\ MaxTexts \in Nat /\ MaxFinder \in Nat
  BY SmallTypes, MailroomAssumption DEF Operations, Parts, Ids
<1>4. /\ first \in Calls /\ first.id = <<"owner", 0>> /\ first.who = "mount"
      /\ first.what = "list" /\ first.out = "pending" /\ first.body = Nothing
      /\ ~Carries(first)
  <2> HIDE DEF NoArg, Nothing
  <2> QED
    BY <1>3, SentCall DEF Carries
<1> HIDE DEF first, NoView, NoList, Nothing, NoArg
<1>5. \A x \in 1..Conv : /\ threads[x] \in Threads
                         /\ threads[x].opened <=> x = 1 \/ (back /\ x = 2)
                         /\ threads[x].unread
                         /\ threads[x].messages = IF threads[x].opened THEN <<0>> ELSE <<>>
  <2> SUFFICES ASSUME NEW x \in 1..Conv
               PROVE  /\ threads[x] \in Threads
                      /\ threads[x].opened <=> x = 1 \/ (back /\ x = 2)
                      /\ threads[x].unread
                      /\ threads[x].messages = IF threads[x].opened THEN <<0>> ELSE <<>>
    OBVIOUS
  <2> DEFINE opened == x = 1 \/ (back /\ x = 2)
             email == back /\ x = 2
             messages == IF opened THEN <<0>> ELSE <<>>
  <2>1. threads[x] = [opened |-> opened, closed |-> FALSE, unread |-> TRUE,
                      email |-> email, messages |-> messages]
    BY <1>1
  <2>2. opened \in BOOLEAN /\ email \in BOOLEAN
    OBVIOUS
  <2>3. messages \in Seq(Text)
    BY <1>3
  <2>4. messages = IF opened THEN <<0>> ELSE <<>>
    OBVIOUS
  <2>5. opened <=> x = 1 \/ (back /\ x = 2)
    OBVIOUS
  <2> HIDE DEF opened, email, messages
  <2> QED
    BY <2>1, <2>2, <2>3, <2>4, <2>5 DEF Threads
<1>6. \A x \in 1..Conv : /\ Len(threads[x].messages) = IF threads[x].opened THEN 1 ELSE 0
                         /\ \A i \in 1..Len(threads[x].messages) : threads[x].messages[i] = 0
  <2>1. /\ Len(<<0>>) = 1 /\ \A i \in 1..1 : <<0>>[i] = 0
        /\ Len(<<>>) = 0 /\ \A i \in 1..0 : FALSE
    OBVIOUS
  <2> SUFFICES ASSUME NEW x \in 1..Conv
               PROVE  /\ Len(threads[x].messages) = IF threads[x].opened THEN 1 ELSE 0
                      /\ \A i \in 1..Len(threads[x].messages) : threads[x].messages[i] = 0
    OBVIOUS
  <2>2. CASE threads[x].opened
    <3>1. threads[x].messages = <<0>>
      BY <1>5, <2>2
    <3> QED
      BY <2>1, <2>2, <3>1
  <2>3. CASE ~threads[x].opened
    <3>1. threads[x].messages = <<>>
      BY <1>5, <2>3
    <3> QED
      BY <2>1, <2>3, <3>1
  <2> QED
    BY <2>2, <2>3
<1>7. /\ finder.at = IF back THEN "sent" ELSE "form"
      /\ finder.conv = IF back THEN 2 ELSE 0
      /\ finder.text = 0 /\ ~finder.busy /\ finder.location = "idle"
  BY <1>1
<1>8. finder \in FinderState
  <2> DEFINE at == IF back THEN "sent" ELSE "form"
             conv == IF back THEN 2 ELSE 0
  <2>1. at \in Places /\ conv \in Convs /\ "idle" \in Locations
    BY <1>3 DEF Places, Locations
  <2>2. finder = [at |-> at, conv |-> conv, text |-> 0, busy |-> FALSE, thread |-> NoView,
                  location |-> "idle"]
    BY <1>1
  <2> HIDE DEF at, conv
  <2> QED
    BY <1>3, <2>1, <2>2, FinderFields
<1>9. widget \in Widget
  BY <1>2 DEF NewWidget, Widget
<1>10. Typed
  <2>1. threads \in [1..Conv -> Threads]
    BY <1>1, <1>5
  <2>2. inbox \in InboxState
    BY <1>2, <1>3 DEF InboxState, Rows
  <2>3. made \in [{"texts", "owner", "finder", "lost"} -> Nat] /\ seen \in [1..Conv -> Nat]
        /\ made["texts"] <= MaxTexts /\ made["finder"] <= MaxFinder
    BY <1>2, <1>3
  <2> QED
    BY <1>2, <1>4, <1>8, <1>9, <2>1, <2>2, <2>3 DEF Typed
<1>11. CallsAreApart
  BY <1>2, <1>4 DEF CallsAreApart
<1>12. CallsAreKnown
  BY <1>2, <1>3, <1>4 DEF CallsAreKnown, Carries
<1>13. PagesWait
  BY <1>2, <1>4, <1>7 DEF PagesWait
<1>14. PagesKnow
  BY <1>2, <1>3, <1>5, <1>6, <1>7 DEF PagesKnow, Opened
<1>15. RoomIsLeft
  <2> SUFFICES ASSUME finder.at = "form"
               PROVE  \E n \in 1..Conv :
                        /\ \A x \in 1..Conv : threads[x].opened <=> x <= n
                        /\ n <= 1 + made["finder"]
                        /\ (\E c \in calls : c.what = "message" /\ c.out = "pending") =>
                                n <= made["finder"]
    BY DEF RoomIsLeft
  <2>1. \A x \in 1..Conv : threads[x].opened <=> x <= 1
    BY <1>5, <1>7
  <2>2. 1 <= 1 + made["finder"] /\ ~ \E c \in calls : c.what = "message"
    BY <1>2, <1>4
  <2> QED
    BY <1>3, <2>1, <2>2
<1>16. TextsAreApart
  BY <1>2, <1>4, <1>6, <1>7 DEF TextsAreApart
<1>17. TextsArriveOnce
  <2> SUFFICES ASSUME NEW t \in Text \ {0}
               PROVE  Times(t) <= 1 + made["lost"] /\ Times(t) <= made["lost"]
    BY DEF TextsArriveOnce
  <2>1. \A i \in 1..(MaxTexts + 2) : i \in Nat /\ i >= 1
    BY <1>3
  <2>2. \A x \in 1..Conv : \A i \in 1..(MaxTexts + 2) :
            i <= Len(threads[x].messages) => threads[x].messages[i] # t
    BY <1>6, <2>1
  <2>3. Copies(t) = {}
    BY <2>2 DEF Copies
  <2>4. Times(t) = 0
    BY <2>3, FS_EmptySet DEF Times
  <2> QED
    BY <1>2, <2>4
<1>18. CityIsToldOnce
  BY <1>2, <1>4 DEF CityIsToldOnce
<1>19. ReadIsShown
  BY <1>2, <1>4, <1>5, <1>6 DEF ReadIsShown
<1> QED
  BY <1>10, <1>11, <1>12, <1>13, <1>14, <1>15, <1>16, <1>17, <1>18, <1>19 DEF MailroomInv

\* Every step of the two pages and of the server keeps the invariant.
LEMMA NextMailroom == MailroomInv /\ [Next]_vars => MailroomInv'
<1> SUFFICES ASSUME MailroomInv, [Next]_vars PROVE MailroomInv'
  OBVIOUS
<1>1. ASSUME Owner PROVE MailroomInv'
  BY <1>1, SendSteps, LocalSteps DEF Owner
<1>2. ASSUME Finder PROVE MailroomInv'
  BY <1>2, SendSteps, LocalSteps DEF Finder
<1>3. ASSUME Rotate PROVE MailroomInv'
  BY <1>3, LocalSteps
<1>4. ASSUME NEW c \in calls, Answers(c) \/ Drop(c) PROVE MailroomInv'
  BY <1>4, ServeStep, HandleStep DEF Answers
<1>5. ASSUME UNCHANGED vars PROVE MailroomInv'
  <2>1. /\ threads \in [1..Conv -> Threads] /\ inbox \in InboxState /\ finder \in FinderState
        /\ widget \in Widget /\ made \in [{"texts", "owner", "finder", "lost"} -> Nat]
        /\ made["texts"] <= MaxTexts
    BY DEF MailroomInv, Typed
  <2>2. Stays
    BY <1>5, <2>1 DEF Stays, vars
  <2> QED
    BY <2>2, StaysStep
<1> QED
  BY <1>1, <1>2, <1>3, <1>4, <1>5 DEF Next

\* So it holds in every state of every behaviour.
LEMMA MailroomInvariant == Spec => []MailroomInv
  BY InitStep, NextMailroom, PTL DEF Spec

\* No button sends a text twice, and the page shares the city once: a text is in the
\* conversations once, and once more for each call whose answer was lost.
THEOREM TextsAndCityOnce == Spec => []NothingIsSentTwice
<1>1. MailroomInv => NothingIsSentTwice
  BY DEF MailroomInv, TextsArriveOnce, CityIsToldOnce, NothingIsSentTwice
<1> QED
  BY <1>1, MailroomInvariant, PTL

\* A conversation that the server has marked as read was shown to its end, or
\* to the reply the owner wrote there, whatever the finder wrote meanwhile, unless an
\* answer was lost on the way.
THEOREM ReadMeansShown == Spec => []ReadWasShown
<1>1. MailroomInv => ReadWasShown
  <2> SUFFICES ASSUME MailroomInv, NEW c \in 1..Conv,
                      threads[c].opened, ~threads[c].unread, made["lost"] = 0,
                      \A d \in calls : d.what \in {"read", "reply"} => d.arg.conv # c
               PROVE  seen[c] = Len(threads[c].messages)
    BY DEF ReadWasShown
  <2>1. ~WillShow(c)
    BY DEF WillShow
  <2> QED
    BY <2>1 DEF MailroomInv, ReadIsShown
<1> QED
  BY <1>1, MailroomInvariant, PTL

-----------------------------------------------------------------------------
(* Types: a page waits exactly while the calls of its handlers are in flight. *)

\* A conversation without its messages is a Thread.
LEMMA ThreadsTyped ==
    ASSUME MailroomInv, NEW c \in 1..Conv
    PROVE  /\ [f \in DOMAIN threads[c] \ {"messages"} |-> threads[c][f]] \in Thread
           /\ \A i \in 1..Len(threads[c].messages) : threads[c].messages[i] \in Text
<1> DEFINE th == threads[c]
<1>1. th \in Threads
  BY DEF MailroomInv, Typed
<1>2. th.messages \in Seq(Text)
  BY <1>1 DEF Threads
<1>3. /\ DOMAIN th \ {"messages"} = {"opened", "closed", "unread", "email"}
      /\ th["opened"] \in BOOLEAN /\ th["closed"] \in BOOLEAN
      /\ th["unread"] \in BOOLEAN /\ th["email"] \in BOOLEAN
  BY <1>1 DEF Threads
<1> HIDE DEF th
<1>4. [f \in DOMAIN th \ {"messages"} |-> th[f]] \in Thread
  BY <1>3 DEF Thread
<1>5. \A i \in 1..Len(th.messages) : th.messages[i] \in Text
  BY <1>2
<1> QED
  BY <1>4, <1>5 DEF th

\* Everything has its type, and the waiting pages are those with a call in flight.
THEOREM MailroomIsTyped == Spec => []TypeOK
<1>1. ASSUME MailroomInv PROVE TypeOK
  <2>1. inbox \in InboxState /\ finder \in FinderState /\ widget \in Widget
    BY <1>1 DEF MailroomInv, Typed
  <2>2. /\ inbox.busy <=> InFlight(calls, {"reply"}) # {}
        /\ finder.busy <=> InFlight(calls, {"form"}) # {}
        /\ (finder.location = "busy") => InFlight(calls, {"location"}) # {}
    BY <1>1 DEF MailroomInv, PagesWait, InFlight
  <2> QED
    BY <1>1, <2>1, <2>2, ThreadsTyped DEF TypeOK
<1> QED
  BY <1>1, MailroomInvariant, PTL
=============================================================================
