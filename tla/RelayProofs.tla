----------------------------- MODULE RelayProofs -----------------------------
(***************************************************************************)
(* Proofs about Relay, for any number of workers, conversations, messages  *)
(* and instants: what a side has decided stands, the owner's name is       *)
(* earned, and the limits on messages and on mails after an opt-out are    *)
(* exceeded only by requests that were under way; a message is hidden, or  *)
(* a cooldown missed, only by such a request too.                          *)
(***************************************************************************)
EXTENDS Relay, FiniteSetTheorems, TLAPS

-----------------------------------------------------------------------------
(* The inductive invariant: the rows, what is known of the conversations, and *)
(* what the requests are about to write. *)

\* The requests about one conversation that was opened before.
About == {"reply", "read", "close", "stop", "mail", "noted"}

\* Somebody may set the tag to show the name to everyone.
NameMayBePublic == "always" \in {s.disclosure : s \in Settings}

\* A row has its columns; who was stopped has no address; whose name was shown
\* had answered.
RowsAreKnown ==
    \A t \in Live :
        /\ t \in Thread /\ history[t].opened
        /\ DOMAIN threads[t] = DOMAIN Column
        /\ history[t].stopped => ~threads[t].email
        /\ history[t].named => NameMayBePublic \/ \E m \in messages[t] : m.from = "owner"

\* Nothing has become of a conversation that was not opened yet.
UnopenedAreBlank ==
    /\ DOMAIN history = Thread
    /\ \A t \in Thread :
        /\ DOMAIN history[t] = DOMAIN NotOpened
        /\ ~history[t].opened =>
            /\ history[t].late = 0 /\ history[t].unwanted = 0
            /\ ~history[t].stopped /\ ~history[t].named

\* What a request is about to write neither reopens a conversation nor brings an
\* address back; what a reply has listed is still there, if the conversation is.
RequestIsKnown(w) ==
    LET r == request[w] IN
    /\ "op" \in DOMAIN r
    /\ r.op = "update" =>
        /\ "edits" \in DOMAIN r
        /\ "disclosure" \in DOMAIN r.edits /\ r.edits.disclosure = "always" => NameMayBePublic
    /\ r.op = "open" =>
        /\ {"thread", "row", "message"} \subseteq DOMAIN r
        /\ r.thread \in Thread /\ ~history[r.thread].opened
        /\ DOMAIN r.row = DOMAIN Column
    /\ r.op \in About =>
        /\ {"thread", "edits"} \subseteq DOMAIN r
        /\ r.thread \in Thread /\ history[r.thread].opened
        /\ "closed" \in DOMAIN r.edits => r.edits.closed
        /\ "email" \in DOMAIN r.edits => ~r.edits.email
    /\ r.op = "stop" => "email" \in DOMAIN r.edits
    /\ r.op = "reply" =>
        /\ {"message", "listed", "updates"} \subseteq DOMAIN r
        /\ r.thread \in Live => r.listed \subseteq messages[r.thread]
    /\ r.op = "rotate" => "closing" \in DOMAIN r

RequestsAreKnown == DOMAIN request = Worker /\ \A w \in Worker : RequestIsKnown(w)

\* No two requests open the same conversation.
OpensDiffer ==
    \A v, w \in Worker :
        request[v].op = "open" /\ request[w].op = "open" /\ v # w
            => request[v].thread # request[w].thread

TagIsKnown == "disclosure" \in DOMAIN tag /\ (tag.disclosure = "always" => NameMayBePublic)

\* The purge has selected conversations that were there.
PurgeIsKnown == \A t \in purge : t \in Thread /\ history[t].opened

Known ==
    /\ TagIsKnown
    /\ PurgeIsKnown
    /\ DOMAIN messages = Live
    /\ RowsAreKnown
    /\ UnopenedAreBlank
    /\ RequestsAreKnown
    /\ OpensDiffer

-----------------------------------------------------------------------------
(* ... and the counts. *)

\* The replies to a conversation that are under way.
Replying(t) == {w \in Worker : request[w].op = "reply" /\ request[w].thread = t}

\* A reply under way may find the conversation full by the time it is written.
RoomLeft ==
    \A t \in Live :
        /\ IsFiniteSet(messages[t])
        /\ Cardinality(messages[t]) + Cardinality(Replying(t)) < MaxMessages + Cardinality(Worker)

\* No reply begins to a closed conversation; the worker that closed it wrote none.
LateLeft ==
    \A t \in Live :
        /\ history[t].late \in Nat
        /\ IF threads[t].closed
           THEN history[t].late + Cardinality(Replying(t)) < Cardinality(Worker)
           ELSE history[t].late = 0

RelayInv == Known /\ RoomLeft /\ LateLeft

-----------------------------------------------------------------------------

\* Before anything has happened.
LEMMA InitKnown == Init => Known
<1> SUFFICES ASSUME Init
             PROVE  Known
  OBVIOUS
<1>1. TagIsKnown /\ PurgeIsKnown /\ DOMAIN messages = Live /\ Live = {}
  BY DEF Init, TagIsKnown, PurgeIsKnown, Live
<1>2. UnopenedAreBlank
  BY DEF Init, UnopenedAreBlank, NotOpened
<1>3. RequestsAreKnown /\ OpensDiffer
  BY DEF Init, RequestsAreKnown, RequestIsKnown, OpensDiffer, Idle, About
<1> QED
  BY <1>1, <1>2, <1>3 DEF Known, RowsAreKnown

\* What is known of a request that does not change stays true while opened
\* conversations stay opened, its own stays unopened if it opens one, and the
\* messages of the opened ones that are left stay.
LEMMA SameRequest ==
    ASSUME Known, NEW v \in Worker, request'[v] = request[v],
           \A t \in Thread : history[t].opened => history'[t].opened,
           request[v].op = "open" => ~history'[request[v].thread].opened,
           \A t \in Live' : history[t].opened => t \in Live /\ messages[t] \subseteq messages'[t]
    PROVE  RequestIsKnown(v)'
<1>1. RequestIsKnown(v)
  BY DEF Known, RequestsAreKnown
<1>2. request[v].op \in About => history'[request[v].thread].opened
  BY <1>1 DEF RequestIsKnown
<1>3. request[v].op = "reply" /\ request[v].thread \in Live' =>
          request[v].listed \subseteq messages'[request[v].thread]
  BY <1>1 DEF RequestIsKnown, About
<1> QED
  BY <1>1, <1>2, <1>3 DEF RequestIsKnown

\* A step that changes one request and nothing that is stored.
LEMMA RequestStep ==
    ASSUME Known, NEW w \in Worker, NEW r, request' = [request EXCEPT ![w] = r],
           UNCHANGED <<tag, threads, messages, purge, history>>,
           RequestIsKnown(w)',
           r.op = "open" => \A v \in Worker \ {w} :
                                request[v].op = "open" => request[v].thread # r.thread
    PROVE  Known'
<1>1. DOMAIN request' = Worker /\ request'[w] = r
      /\ \A v \in Worker \ {w} : request'[v] = request[v]
  BY DEF Known, RequestsAreKnown
<1>2. \A v \in Worker \ {w} : RequestIsKnown(v)'
  BY <1>1 DEF Known, RequestsAreKnown, RequestIsKnown, Live
<1>3. OpensDiffer'
  BY <1>1 DEF Known, OpensDiffer
<1>4. /\ TagIsKnown' /\ RowsAreKnown' /\ UnopenedAreBlank' /\ PurgeIsKnown'
      /\ DOMAIN messages' = Live'
  BY DEF Known, TagIsKnown, RowsAreKnown, UnopenedAreBlank, PurgeIsKnown, Live
<1> QED
  BY <1>1, <1>2, <1>3, <1>4 DEF Known, RequestsAreKnown

\* The worker has answered, or its request was refused, or it was killed.
LEMMA RespondStep ==
    ASSUME Known, NEW w \in Worker, Respond(w), UNCHANGED <<tag, threads, messages, purge, history>>
    PROVE  Known'
<1>1. RequestIsKnown(w)'
  BY DEF Respond, Idle, Known, RequestsAreKnown, RequestIsKnown, About
<1> QED
  BY <1>1, RequestStep DEF Respond, Idle

\* A request that is begun about a conversation that is there.
LEMMA AboutStep ==
    ASSUME Known, NEW w \in Worker, NEW t \in Live, NEW r,
           Serve(w, r), tag' = tag, r.op \in About, r.thread = t,
           {"op", "thread", "edits"} \subseteq DOMAIN r,
           "closed" \in DOMAIN r.edits => r.edits.closed,
           "email" \in DOMAIN r.edits => ~r.edits.email,
           r.op = "stop" => "email" \in DOMAIN r.edits,
           r.op = "reply" => {"message", "listed", "updates"} \subseteq DOMAIN r
                             /\ r.listed = messages[t]
    PROVE  Known'
<1>1. request' = [request EXCEPT ![w] = r] /\ UNCHANGED <<tag, threads, messages, purge, history>>
  BY DEF Serve
<1>2. request'[w] = r
  BY <1>1 DEF Known, RequestsAreKnown
<1>3. t \in Thread /\ history[t].opened
  BY DEF Known, RowsAreKnown
<1>4. RequestIsKnown(w)'
  BY <1>1, <1>2, <1>3 DEF RequestIsKnown, About
<1> QED
  BY <1>1, <1>4, RequestStep DEF About

\* The beginnings of the handlers.
LEMMA BeginStep ==
    ASSUME Known, NEW w \in Worker, Begin(w), ~(\E t \in Live : FinderReads(w, t))
    PROVE  Known'
<1> USE DEF Known, RequestsAreKnown
<1>1. CASE BeginUpdate(w)
  <2>1. PICK s \in Settings :
          LET changed == {c \in DOMAIN s : s[c] # tag[c]} IN
          Serve(w, [op |-> "update", edits |-> [c \in changed |-> s[c]]])
    BY <1>1 DEF BeginUpdate
  <2> DEFINE changed == {c \in DOMAIN s : s[c] # tag[c]}
             r == [op |-> "update", edits |-> [c \in changed |-> s[c]]]
  <2>2. request' = [request EXCEPT ![w] = r] /\ UNCHANGED <<tag, threads, messages, purge, history>>
    BY <2>1 DEF Serve
  <2>3. request'[w] = r
    BY <2>2
  <2>4. "disclosure" \in DOMAIN r.edits => r.edits.disclosure = s.disclosure
    OBVIOUS
  <2>5. s.disclosure = "always" => NameMayBePublic
    BY DEF NameMayBePublic
  <2>6. r.op = "update" /\ {"op", "edits"} \subseteq DOMAIN r
    OBVIOUS
  <2> HIDE DEF r
  <2>7. RequestIsKnown(w)'
    BY <2>3, <2>4, <2>5, <2>6 DEF RequestIsKnown, About
  <2> QED
    BY <2>2, <2>6, <2>7, RequestStep
<1>2. CASE BeginRotate(w)
  <2> DEFINE r == [op |-> "rotate", closing |-> {t \in Live : ~threads[t].closed}]
  <2>1. request' = [request EXCEPT ![w] = r] /\ UNCHANGED <<tag, threads, messages, purge, history>>
    BY <1>2 DEF BeginRotate, Serve
  <2>2. request'[w] = r /\ r.op = "rotate" /\ {"op", "closing"} \subseteq DOMAIN r
    BY <2>1
  <2> HIDE DEF r
  <2>3. RequestIsKnown(w)'
    BY <2>2 DEF RequestIsKnown, About
  <2> QED
    BY <2>1, <2>2, <2>3, RequestStep
<1>3. ASSUME NEW retired \in BOOLEAN, BeginOpen(w, retired)
      PROVE  Known'
  <2>1. PICK t \in Thread, email \in Emails :
          /\ ~history[t].opened
          /\ \A v \in Worker : request[v].op = "open" => request[v].thread # t
          /\ Serve(w, [op |-> "open", thread |-> t, retired |-> retired,
                       row |-> [last |-> stamp', read |-> NULL, left |-> Retention,
                                closed |-> FALSE, email |-> email, quiet |-> 0],
                       message |-> [from |-> "finder", at |-> stamp']])
    BY <1>3 DEF BeginOpen
  <2> DEFINE row == [last |-> stamp', read |-> NULL, left |-> Retention,
                     closed |-> FALSE, email |-> email, quiet |-> 0]
             r == [op |-> "open", thread |-> t, retired |-> retired, row |-> row,
                   message |-> [from |-> "finder", at |-> stamp']]
  <2>2. request' = [request EXCEPT ![w] = r] /\ UNCHANGED <<tag, threads, messages, purge, history>>
    BY <2>1 DEF Serve
  <2>3. /\ request'[w] = r /\ r.op = "open" /\ r.thread = t
        /\ {"op", "thread", "row", "message"} \subseteq DOMAIN r
        /\ DOMAIN r.row = DOMAIN Column
    BY <2>2 DEF Column
  <2> HIDE DEF r
  <2>4. RequestIsKnown(w)'
    BY <2>1, <2>2, <2>3 DEF RequestIsKnown, About
  <2> QED
    BY <2>1, <2>2, <2>3, <2>4, RequestStep
<1>4. ASSUME NEW t \in Live, NEW from \in {"finder", "owner"}, BeginReply(w, from, t)
      PROVE  Known'
  <2> DEFINE edits == IF from = "owner"
                      THEN [last |-> stamp', read |-> {stamp'}, left |-> Retention]
                      ELSE [last |-> stamp', left |-> Retention]
             r == [op |-> "reply", thread |-> t, message |-> [from |-> from, at |-> stamp'],
                   listed |-> messages[t],
                   updates |-> [email |-> threads[t].email, quiet |-> threads[t].quiet],
                   edits |-> edits]
  <2>1. Serve(w, r) /\ tag' = tag
    BY <1>4 DEF BeginReply, Serve
  <2>2. "closed" \notin DOMAIN edits /\ "email" \notin DOMAIN edits
    OBVIOUS
  <2>3. /\ r.op = "reply" /\ r.thread = t /\ r.edits = edits /\ r.listed = messages[t]
        /\ {"op", "thread", "edits", "message", "listed", "updates"} \subseteq DOMAIN r
    OBVIOUS
  <2> HIDE DEF r, edits
  <2> QED
    BY <2>1, <2>2, <2>3, AboutStep DEF About
<1>5. ASSUME NEW t \in Live, BeginRead(w, t) \/ BeginClose(w, t) \/ BeginStop(w, t)
      PROVE  Known'
  <2>1. CASE BeginRead(w, t)
    <3> DEFINE r == [op |-> "read", thread |-> t, edits |-> [read |-> {stamp'}]]
    <3>1. Serve(w, r) /\ tag' = tag
      BY <2>1 DEF BeginRead, Serve
    <3>2. /\ r.op = "read" /\ r.thread = t /\ {"op", "thread", "edits"} \subseteq DOMAIN r
          /\ DOMAIN r.edits = {"read"}
      OBVIOUS
    <3> HIDE DEF r
    <3> QED
      BY <3>1, <3>2, AboutStep DEF About
  <2>2. CASE BeginClose(w, t)
    <3> DEFINE r == [op |-> "close", thread |-> t, edits |-> [closed |-> TRUE]]
    <3>1. Serve(w, r) /\ tag' = tag
      BY <2>2 DEF BeginClose, Serve
    <3>2. /\ r.op = "close" /\ r.thread = t /\ {"op", "thread", "edits"} \subseteq DOMAIN r
          /\ DOMAIN r.edits = {"closed"} /\ r.edits.closed = TRUE
      OBVIOUS
    <3> HIDE DEF r
    <3> QED
      BY <3>1, <3>2, AboutStep DEF About
  <2>3. CASE BeginStop(w, t)
    <3> DEFINE r == [op |-> "stop", thread |-> t, edits |-> OptOut]
    <3>1. Serve(w, r) /\ tag' = tag
      BY <2>3 DEF BeginStop, Serve
    <3>2. /\ r.op = "stop" /\ r.thread = t /\ {"op", "thread", "edits"} \subseteq DOMAIN r
          /\ DOMAIN r.edits = {"email", "quiet"} /\ r.edits.email = FALSE
      BY DEF OptOut
    <3> HIDE DEF r
    <3> QED
      BY <3>1, <3>2, AboutStep DEF About
  <2> QED
    BY <1>5, <2>1, <2>2, <2>3
<1> QED
  BY <1>1, <1>2, <1>3, <1>4, <1>5 DEF Begin

\* A step of one worker that opens nothing, by which conversations stay what they
\* were but for what became of them and for messages that are added.
LEMMA WorkerStep ==
    ASSUME Known, NEW w \in Worker, DOMAIN request' = Worker,
           \A v \in Worker \ {w} : request'[v] = request[v],
           RequestIsKnown(w)', request'[w].op # "open",
           \A t \in Thread : history'[t].opened <=> history[t].opened,
           Live' = Live, \A t \in Live : messages[t] \subseteq messages'[t]
    PROVE  RequestsAreKnown' /\ OpensDiffer'
<1>1. ASSUME NEW v \in Worker \ {w}
      PROVE  RequestIsKnown(v)'
  <2>1. RequestIsKnown(v)
    BY DEF Known, RequestsAreKnown
  <2>2. request[v].op = "open" => ~history'[request[v].thread].opened
    BY <2>1 DEF RequestIsKnown
  <2> QED
    BY <2>2, SameRequest
<1>2. RequestsAreKnown'
  BY <1>1 DEF RequestsAreKnown
<1>3. OpensDiffer'
  BY DEF Known, OpensDiffer
<1> QED
  BY <1>2, <1>3

\* Answering is such a step.
LEMMA AnswerStep ==
    ASSUME Known, NEW w \in Worker, Respond(w)
    PROVE  /\ DOMAIN request' = Worker
           /\ \A v \in Worker \ {w} : request'[v] = request[v]
           /\ request'[w] = Idle /\ request'[w].op = "idle" /\ RequestIsKnown(w)'
  BY DEF Respond, Idle, Known, RequestsAreKnown, RequestIsKnown, About

\* The UPDATE of a conversation's row writes no more than the request edited.
LEMMA SaveStep ==
    ASSUME Known, NEW w \in Worker, request[w].op \in About, Save(request[w])
    PROVE  LET t == request[w].thread  e == request[w].edits IN
           /\ t \in Live /\ t \in Thread /\ Live' = Live
           /\ \A u \in Live \ {t} : threads'[u] = threads[u]
           /\ DOMAIN threads'[t] = DOMAIN Column
           /\ threads'[t].closed = IF "closed" \in DOMAIN e THEN e.closed ELSE threads[t].closed
           /\ threads'[t].email = IF "email" \in DOMAIN e THEN e.email ELSE threads[t].email
<1> DEFINE t == request[w].thread
           e == request[w].edits
           new == Updated(threads[t], e)
<1>1. t \in Live /\ threads' = [threads EXCEPT ![t] = new]
  BY DEF Save
<1>2. t \in Thread /\ DOMAIN threads[t] = DOMAIN Column
  BY <1>1 DEF Known, RowsAreKnown
<1>3. /\ DOMAIN new = DOMAIN Column
      /\ new.closed = IF "closed" \in DOMAIN e THEN e.closed ELSE threads[t].closed
      /\ new.email = IF "email" \in DOMAIN e THEN e.email ELSE threads[t].email
  BY <1>2 DEF Updated, Column
<1>4. Live' = Live /\ threads'[t] = new /\ \A u \in Live \ {t} : threads'[u] = threads[u]
  BY <1>1 DEF Live
<1> QED
  BY <1>1, <1>2, <1>3, <1>4

\* ... so that closed conversations stay closed, and addresses that are gone stay
\* gone.
LEMMA SavedStands ==
    ASSUME Known, NEW w \in Worker, request[w].op \in About, Save(request[w]), NEW t \in Live
    PROVE  /\ threads[t].closed => threads'[t].closed
           /\ ~threads[t].email => ~threads'[t].email
           /\ DOMAIN threads'[t] = DOMAIN Column
<1>1. CASE t # request[w].thread
  BY <1>1, SaveStep DEF Known, RowsAreKnown
<1>2. CASE t = request[w].thread
  <2>1. /\ "closed" \in DOMAIN request[w].edits => request[w].edits.closed
        /\ "email" \in DOMAIN request[w].edits => ~request[w].edits.email
    BY DEF Known, RequestsAreKnown, RequestIsKnown
  <2> QED
    BY <1>2, <2>1, SaveStep
<1> QED
  BY <1>1, <1>2

\* The name is shown for a reason: the setting, or an answer among the messages.
LEMMA NameShownIsEarned ==
    ASSUME Known, NEW listed, NameShown(listed)
    PROVE  NameMayBePublic \/ \E m \in listed : m.from = "owner"
  BY DEF Known, TagIsKnown, NameShown

-----------------------------------------------------------------------------
(* The commits. *)

\* The owner's change of the tag sets what Settings allow.
LEMMA KeepsCommitUpdate ==
    ASSUME Known, NEW w \in Worker, CommitUpdate(w)
    PROVE  Known'
<1>1. RequestIsKnown(w) /\ request[w].op = "update"
  BY DEF CommitUpdate, Known, RequestsAreKnown
<1>2. TagIsKnown'
  BY <1>1 DEF CommitUpdate, Known, TagIsKnown, RequestIsKnown, Updated
<1>3. UNCHANGED <<threads, messages, purge, history>> /\ Respond(w) /\ Live' = Live
  BY DEF CommitUpdate, Live
<1>4. RequestsAreKnown' /\ OpensDiffer'
  BY <1>3, AnswerStep, WorkerStep
<1>5. RowsAreKnown' /\ UnopenedAreBlank' /\ PurgeIsKnown' /\ DOMAIN messages' = Live'
  BY <1>3 DEF Known, RowsAreKnown, UnopenedAreBlank, PurgeIsKnown, Live
<1> QED
  BY <1>2, <1>4, <1>5 DEF Known

\* A conversation that opens was not there, nor does another request open it.
LEMMA KeepsCommitOpen ==
    ASSUME Known, NEW w \in Worker, CommitOpen(w)
    PROVE  Known'
<1> DEFINE r == request[w]
           u == r.thread
<1>1. r.op = "open" /\ RequestIsKnown(w)
  BY DEF CommitOpen, Known, RequestsAreKnown
<1>2. u \in Thread /\ ~history[u].opened /\ DOMAIN r.row = DOMAIN Column /\ u \notin Live
  BY <1>1 DEF RequestIsKnown, Known, RowsAreKnown
<1>3. /\ Live' = Live \cup {u} /\ DOMAIN messages' = Live'
      /\ threads'[u] = r.row /\ messages'[u] = {r.message}
      /\ \A t \in Live : threads'[t] = threads[t] /\ messages'[t] = messages[t]
  BY <1>2 DEF CommitOpen, Live
<1>4. /\ DOMAIN history' = Thread /\ \A t \in Thread : DOMAIN history'[t] = DOMAIN NotOpened
      /\ \A t \in Thread \ {u} : history'[t] = history[t]
      /\ history'[u].opened /\ history'[u].late = history[u].late
      /\ history'[u].unwanted = history[u].unwanted
      /\ history'[u].stopped = history[u].stopped /\ history'[u].named = history[u].named
  BY <1>2 DEF CommitOpen, Known, UnopenedAreBlank, NotOpened
<1>5. Respond(w) /\ tag' = tag
  BY DEF CommitOpen
<1>6. ASSUME NEW v \in Worker \ {w}
      PROVE  RequestIsKnown(v)'
  <2>1. request'[v] = request[v]
    BY <1>5, AnswerStep
  <2>2. request[v].op = "open" => request[v].thread # u
    BY <1>1 DEF Known, OpensDiffer
  <2>3. request[v].op = "open" => ~history'[request[v].thread].opened
    BY <1>4, <2>2 DEF Known, RequestsAreKnown, RequestIsKnown
  <2> QED
    BY <1>2, <1>3, <1>4, <2>1, <2>3, SameRequest
<1>7. RequestsAreKnown'
  BY <1>5, <1>6, AnswerStep DEF RequestsAreKnown
<1>8. OpensDiffer'
  BY <1>5, AnswerStep DEF Known, OpensDiffer
<1>9. UnopenedAreBlank' /\ PurgeIsKnown'
  BY <1>4 DEF Known, UnopenedAreBlank, PurgeIsKnown, CommitOpen
<1>10. RowsAreKnown'
  <2>1. ~history[u].stopped /\ ~history[u].named
    BY <1>2 DEF Known, UnopenedAreBlank
  <2> SUFFICES ASSUME NEW t \in Live'
               PROVE  /\ t \in Thread /\ history'[t].opened /\ DOMAIN threads'[t] = DOMAIN Column
                      /\ history'[t].stopped => ~threads'[t].email
                      /\ history'[t].named =>
                            NameMayBePublic \/ \E m \in messages'[t] : m.from = "owner"
    BY DEF RowsAreKnown, NameMayBePublic
  <2>2. CASE t = u
    BY <1>2, <1>3, <1>4, <2>1, <2>2
  <2>3. CASE t # u
    BY <1>3, <1>4, <2>3 DEF Known, RowsAreKnown
  <2> QED
    BY <2>2, <2>3
<1> QED
  BY <1>3, <1>5, <1>7, <1>8, <1>9, <1>10 DEF Known, TagIsKnown, NameMayBePublic

\* A commit that writes the row of one conversation keeps what is known if it was
\* asked to be left alone only with its address gone, and named for a reason.
LEMMA SavingStep ==
    ASSUME Known, NEW w \in Worker, request[w].op \in About, Save(request[w]),
           DOMAIN request' = Worker, \A v \in Worker \ {w} : request'[v] = request[v],
           RequestIsKnown(w)', request'[w].op # "open", UNCHANGED <<tag, purge>>,
           DOMAIN messages' = Live, \A t \in Live : messages[t] \subseteq messages'[t],
           DOMAIN history' = Thread,
           \A t \in Thread : /\ DOMAIN history'[t] = DOMAIN NotOpened
                             /\ history'[t].opened <=> history[t].opened
                             /\ t # request[w].thread => history'[t] = history[t],
           LET t == request[w].thread IN
           /\ history'[t].stopped => history[t].stopped \/ "email" \in DOMAIN request[w].edits
           /\ history'[t].named =>
                 history[t].named \/ NameMayBePublic \/ \E m \in messages'[t] : m.from = "owner"
    PROVE  Known'
<1> DEFINE u == request[w].thread
<1>1. u \in Live /\ u \in Thread /\ Live' = Live
  BY SaveStep
<1>2. RequestsAreKnown' /\ OpensDiffer'
  BY <1>1, WorkerStep
<1>3. UnopenedAreBlank' /\ PurgeIsKnown'
  BY <1>1 DEF Known, UnopenedAreBlank, RowsAreKnown, PurgeIsKnown
<1>4. RowsAreKnown'
  <2> SUFFICES ASSUME NEW t \in Live
               PROVE  /\ t \in Thread /\ history'[t].opened /\ DOMAIN threads'[t] = DOMAIN Column
                      /\ history'[t].stopped => ~threads'[t].email
                      /\ history'[t].named =>
                            NameMayBePublic \/ \E m \in messages'[t] : m.from = "owner"
    BY <1>1 DEF RowsAreKnown, NameMayBePublic
  <2>1. /\ t \in Thread /\ history[t].opened
        /\ history[t].stopped => ~threads[t].email
        /\ history[t].named => NameMayBePublic \/ \E m \in messages[t] : m.from = "owner"
    BY DEF Known, RowsAreKnown
  <2>2. DOMAIN threads'[t] = DOMAIN Column /\ (~threads[t].email => ~threads'[t].email)
    BY SavedStands
  <2>3. t = u /\ "email" \in DOMAIN request[w].edits => ~threads'[t].email
    <3>1. "email" \in DOMAIN request[w].edits => ~request[w].edits.email
      BY DEF Known, RequestsAreKnown, RequestIsKnown
    <3> QED
      BY <3>1, SaveStep
  <2>4. history'[t].stopped => ~threads'[t].email
    BY <2>1, <2>2, <2>3
  <2>5. history'[t].named => NameMayBePublic \/ \E m \in messages'[t] : m.from = "owner"
    BY <2>1
  <2> QED
    BY <2>1, <2>2, <2>4, <2>5
<1> QED
  BY <1>1, <1>2, <1>3, <1>4 DEF Known, TagIsKnown, NameMayBePublic

\* A step that changes nothing but what became of a conversation that was opened.
LEMMA HistoryStep ==
    ASSUME Known, UNCHANGED <<tag, threads, messages, purge>>, NEW w \in Worker,
           DOMAIN request' = Worker, \A v \in Worker \ {w} : request'[v] = request[v],
           RequestIsKnown(w)', request'[w].op # "open",
           DOMAIN history' = Thread,
           \A t \in Thread :
               /\ DOMAIN history'[t] = DOMAIN NotOpened
               /\ history'[t].opened <=> history[t].opened
               /\ history'[t].stopped <=> history[t].stopped
               /\ ~history[t].opened => history'[t] = history[t]
               /\ t \in Live /\ history'[t].named =>
                    history[t].named \/ NameMayBePublic \/ \E m \in messages[t] : m.from = "owner"
    PROVE  Known'
<1>1. Live' = Live
  BY DEF Live
<1>2. RequestsAreKnown' /\ OpensDiffer'
  BY <1>1, WorkerStep
<1>3. UnopenedAreBlank' /\ PurgeIsKnown'
  BY DEF Known, UnopenedAreBlank, PurgeIsKnown
<1>4. RowsAreKnown'
  BY <1>1 DEF Known, RowsAreKnown, NameMayBePublic
<1> QED
  BY <1>1, <1>2, <1>3, <1>4 DEF Known, TagIsKnown, NameMayBePublic

\* A reply adds a message, and shows the name for a reason.
LEMMA KeepsCommitReply ==
    ASSUME Known, NEW w \in Worker, CommitReply(w)
    PROVE  Known'
<1> DEFINE r == request[w]
           t == r.thread
<1>1. /\ r.op = "reply" /\ r.op \in About /\ Save(r) /\ UNCHANGED <<tag, purge>>
      /\ messages' = [messages EXCEPT ![t] = @ \cup {r.message}]
  BY DEF CommitReply, About
<1>2. t \in Live /\ t \in Thread /\ DOMAIN messages = Live
      /\ r.listed \subseteq messages[t]
  BY <1>1, SaveStep DEF Known, RequestsAreKnown, RequestIsKnown
<1>3. DOMAIN messages' = Live /\ \A u \in Live : messages[u] \subseteq messages'[u]
  BY <1>1, <1>2
<1>4. /\ DOMAIN history' = Thread
      /\ \A u \in Thread : /\ DOMAIN history'[u] = DOMAIN NotOpened
                           /\ history'[u].opened <=> history[u].opened
                           /\ u # t => history'[u] = history[u]
      /\ history'[t].stopped <=> history[t].stopped
      /\ history'[t].named => history[t].named \/ NameShown(r.listed)
  <2>1. DOMAIN history = Thread /\ \A u \in Thread : DOMAIN history[u] = DOMAIN NotOpened
    BY DEF Known, UnopenedAreBlank
  <2>2. CASE r.message.from = "finder"
    BY <1>2, <2>1, <2>2 DEF CommitReply, NotOpened
  <2>3. CASE r.message.from # "finder"
    BY <1>2, <2>1, <2>3 DEF CommitReply, NotOpened
  <2> QED
    BY <2>2, <2>3
<1>5. history'[t].named =>
          history[t].named \/ NameMayBePublic \/ \E m \in messages'[t] : m.from = "owner"
  BY <1>2, <1>3, <1>4, NameShownIsEarned
<1>6. /\ DOMAIN request' = Worker /\ \A v \in Worker \ {w} : request'[v] = request[v]
      /\ RequestIsKnown(w)' /\ request'[w].op # "open"
  <2>1. CASE Respond(w)
    BY <2>1, AnswerStep
  <2>2. CASE ~Respond(w)
    <3> DEFINE q == [op |-> "mail", thread |-> t, edits |-> [quiet |-> Cooldown]]
    <3>1. request' = [request EXCEPT ![w] = q]
      BY <2>2 DEF CommitReply
    <3>2. /\ DOMAIN request' = Worker /\ request'[w] = q
          /\ \A v \in Worker \ {w} : request'[v] = request[v]
      BY <3>1 DEF Known, RequestsAreKnown
    <3>3. /\ q.op = "mail" /\ q.thread = t /\ {"op", "thread", "edits"} \subseteq DOMAIN q
          /\ DOMAIN q.edits = {"quiet"}
      OBVIOUS
    <3>4. history'[t].opened
      BY <1>2, <1>4 DEF Known, RowsAreKnown
    <3> HIDE DEF q, t
    <3> QED
      BY <1>2, <3>2, <3>3, <3>4 DEF RequestIsKnown, About
  <2> QED
    BY <2>1, <2>2
<1> QED
  BY <1>1, <1>3, <1>4, <1>5, <1>6, SavingStep

\* Mailing changes only what became of the conversation.
LEMMA KeepsSendMail ==
    ASSUME Known, NEW w \in Worker, SendMail(w)
    PROVE  Known'
<1> DEFINE t == request[w].thread
           q == [op |-> "noted", thread |-> t, edits |-> [quiet |-> Cooldown]]
<1>1. t \in Thread /\ history[t].opened
  BY DEF SendMail, Known, RequestsAreKnown, RequestIsKnown, About
<1>2. /\ DOMAIN history' = Thread
      /\ \A u \in Thread : /\ DOMAIN history'[u] = DOMAIN NotOpened
                           /\ history'[u].opened <=> history[u].opened
                           /\ history'[u].stopped <=> history[u].stopped
                           /\ history'[u].named <=> history[u].named
                           /\ u # t => history'[u] = history[u]
  BY <1>1 DEF SendMail, Known, UnopenedAreBlank, NotOpened
<1>3. /\ DOMAIN request' = Worker /\ request'[w] = q
      /\ \A v \in Worker \ {w} : request'[v] = request[v]
  BY DEF SendMail, Known, RequestsAreKnown
<1>4. /\ q.op = "noted" /\ q.thread = t /\ {"op", "thread", "edits"} \subseteq DOMAIN q
      /\ DOMAIN q.edits = {"quiet"}
  OBVIOUS
<1>5. UNCHANGED <<tag, threads, messages, purge>>
  BY DEF SendMail
<1> HIDE DEF q, t
<1>6. RequestIsKnown(w)' /\ request'[w].op # "open"
  BY <1>1, <1>2, <1>3, <1>4 DEF RequestIsKnown, About
<1> QED
  BY <1>1, <1>2, <1>3, <1>5, <1>6, HistoryStep

\* Reading shows the name for a reason.
LEMMA KeepsFinderReads ==
    ASSUME Known, NEW w \in Worker, NEW t \in Live, FinderReads(w, t)
    PROVE  Known'
<1>1. t \in Thread /\ history[t].opened /\ DOMAIN history = Thread
  BY DEF Known, RowsAreKnown, UnopenedAreBlank
<1>2. /\ DOMAIN history' = Thread
      /\ \A u \in Thread : /\ DOMAIN history'[u] = DOMAIN NotOpened
                           /\ history'[u].opened <=> history[u].opened
                           /\ history'[u].stopped <=> history[u].stopped
                           /\ u # t => history'[u] = history[u]
      /\ history'[t].named => history[t].named \/ NameShown(messages[t])
  BY <1>1 DEF FinderReads, Known, UnopenedAreBlank, NotOpened
<1>3. history'[t].named =>
          history[t].named \/ NameMayBePublic \/ \E m \in messages[t] : m.from = "owner"
  BY <1>2, NameShownIsEarned
<1>4. UNCHANGED <<tag, threads, messages, request, purge>> /\ request[w].op # "open"
  BY DEF FinderReads, Idle
<1>5. RequestIsKnown(w)' /\ DOMAIN request' = Worker
  BY <1>2, <1>4 DEF RequestIsKnown, Known, RequestsAreKnown, FinderReads, Idle, About
<1> QED
  BY <1>1, <1>2, <1>3, <1>4, <1>5, HistoryStep

\* The owner's reading changes neither address nor name.
LEMMA KeepsCommitRead ==
    ASSUME Known, NEW w \in Worker, CommitRead(w)
    PROVE  Known'
<1> DEFINE t == request[w].thread
<1>1. /\ request[w].op \in About /\ Save(request[w]) /\ Respond(w) /\ UNCHANGED <<tag, purge>>
      /\ messages' = messages
  BY DEF CommitRead, About
<1>2. t \in Thread /\ DOMAIN messages = Live
  BY <1>1, SaveStep DEF Known
<1>3. /\ DOMAIN history' = Thread
      /\ \A u \in Thread : /\ DOMAIN history'[u] = DOMAIN NotOpened
                           /\ history'[u].opened <=> history[u].opened
                           /\ u # t => history'[u] = history[u]
      /\ history'[t].stopped <=> history[t].stopped
      /\ history'[t].named <=> history[t].named
  BY <1>2 DEF CommitRead, Known, UnopenedAreBlank, NotOpened
<1> QED
  BY <1>1, <1>2, <1>3, AnswerStep, SavingStep

\* Opting out takes the address away, and may show the name.
LEMMA KeepsCommitStop ==
    ASSUME Known, NEW w \in Worker, CommitStop(w)
    PROVE  Known'
<1> DEFINE t == request[w].thread
<1>1. /\ request[w].op \in About /\ Save(request[w]) /\ Respond(w) /\ UNCHANGED <<tag, purge>>
      /\ messages' = messages
  BY DEF CommitStop, About
<1>2. t \in Thread /\ DOMAIN messages = Live
  BY <1>1, SaveStep DEF Known
<1>3. "email" \in DOMAIN request[w].edits
  BY DEF CommitStop, Known, RequestsAreKnown, RequestIsKnown
<1>4. /\ DOMAIN history' = Thread
      /\ \A u \in Thread : /\ DOMAIN history'[u] = DOMAIN NotOpened
                           /\ history'[u].opened <=> history[u].opened
                           /\ u # t => history'[u] = history[u]
      /\ history'[t].named => history[t].named \/ NameShown(messages[t])
  BY <1>2 DEF CommitStop, Known, UnopenedAreBlank, NotOpened
<1>5. history'[t].named =>
          history[t].named \/ NameMayBePublic \/ \E m \in messages[t] : m.from = "owner"
  BY <1>4, NameShownIsEarned
<1> QED
  BY <1>1, <1>2, <1>3, <1>4, <1>5, AnswerStep, SavingStep

\* Closing, and noting that a mail went out, add nothing to what is known.
LEMMA KeepsCommitEdits ==
    ASSUME Known, NEW w \in Worker, CommitEdits(w)
    PROVE  Known'
<1> DEFINE t == request[w].thread
<1>1. /\ request[w].op \in About /\ Save(request[w]) /\ Respond(w)
      /\ UNCHANGED <<tag, messages, purge>>
  BY DEF CommitEdits, About
<1>2. t \in Thread /\ DOMAIN messages = Live
  BY <1>1, SaveStep DEF Known
<1>3. /\ DOMAIN history' = Thread
      /\ \A u \in Thread : /\ DOMAIN history'[u] = DOMAIN NotOpened
                           /\ history'[u].opened <=> history[u].opened
                           /\ u # t => history'[u] = history[u]
      /\ history'[t].stopped <=> history[t].stopped
      /\ history'[t].named <=> history[t].named
  BY <1>2 DEF CommitEdits, Known, UnopenedAreBlank, NotOpened
<1> QED
  BY <1>1, <1>2, <1>3, AnswerStep, SavingStep

\* A rotation closes conversations, and changes nothing else of them.
LEMMA RotatedRows ==
    ASSUME Known, NEW w \in Worker, CommitRotate(w)
    PROVE  /\ Live' = Live
           /\ \A t \in Live :
                /\ DOMAIN threads'[t] = DOMAIN Column
                /\ threads'[t].email = threads[t].email
                /\ threads[t].closed => threads'[t].closed
                /\ ~threads[t].closed => threads'[t] = threads[t]
                                         \/ (t \in request[w].closing /\ threads'[t].closed)
<1>1. \A t \in Live : DOMAIN threads[t] = DOMAIN Column
  BY DEF Known, RowsAreKnown
<1>2. Live' = Live
  BY DEF CommitRotate, Live
<1>3. ASSUME NEW t \in Live
      PROVE  threads'[t] = IF t \in request[w].closing THEN [threads[t] EXCEPT !.closed = TRUE]
                           ELSE threads[t]
  BY DEF CommitRotate
<1> QED
  BY <1>1, <1>2, <1>3 DEF Column

\* It keeps what is known.
LEMMA KeepsCommitRotate ==
    ASSUME Known, NEW w \in Worker, CommitRotate(w)
    PROVE  Known'
<1>1. UNCHANGED <<messages, purge, history>> /\ Respond(w)
  BY DEF CommitRotate
<1>2. TagIsKnown'
  BY DEF CommitRotate, Known, TagIsKnown, NameMayBePublic
<1>3. RequestsAreKnown' /\ OpensDiffer'
  BY <1>1, RotatedRows, AnswerStep, WorkerStep
<1>4. RowsAreKnown' /\ UnopenedAreBlank' /\ PurgeIsKnown' /\ DOMAIN messages' = Live'
  BY <1>1, RotatedRows DEF Known, RowsAreKnown, UnopenedAreBlank, PurgeIsKnown, NameMayBePublic
<1> QED
  BY <1>2, <1>3, <1>4 DEF Known

\* What is purged is gone for good: its id counts as opened.
LEMMA KeepsCommitPurge ==
    ASSUME Known, CommitPurge
    PROVE  Known'
<1>1. /\ Live' = Live \ purge /\ DOMAIN messages' = Live' /\ UNCHANGED <<tag, request>>
      /\ \A t \in Live' : threads'[t] = threads[t] /\ messages'[t] = messages[t]
  BY DEF CommitPurge, WithoutPurged, Live
<1>2. /\ DOMAIN history' = Thread
      /\ \A t \in Thread \ purge : history'[t] = history[t]
      /\ \A t \in Thread \cap purge : history'[t] = [NotOpened EXCEPT !.opened = TRUE]
  BY DEF CommitPurge
<1>3. \A t \in Thread \cap purge : DOMAIN history'[t] = DOMAIN NotOpened /\ history'[t].opened
  BY <1>2 DEF NotOpened
<1>4. UnopenedAreBlank' /\ PurgeIsKnown'
  BY <1>2, <1>3 DEF Known, UnopenedAreBlank, PurgeIsKnown, CommitPurge
<1>5. RowsAreKnown'
  BY <1>1, <1>2 DEF Known, RowsAreKnown, NameMayBePublic
<1>6. ASSUME NEW v \in Worker
      PROVE  RequestIsKnown(v)'
  <2>1. RequestIsKnown(v)
    BY DEF Known, RequestsAreKnown
  <2>2. request[v].op = "open" =>
            request[v].thread \in Thread \ purge /\ ~history[request[v].thread].opened
    BY <2>1 DEF Known, PurgeIsKnown, RequestIsKnown
  <2>3. request[v].op = "open" => ~history'[request[v].thread].opened
    BY <1>2, <2>2
  <2> QED
    BY <1>1, <1>2, <1>3, <2>3, SameRequest
<1>7. RequestsAreKnown' /\ OpensDiffer' /\ TagIsKnown'
  BY <1>1, <1>6 DEF Known, RequestsAreKnown, OpensDiffer, TagIsKnown, NameMayBePublic
<1> QED
  BY <1>1, <1>4, <1>5, <1>7 DEF Known

\* The job selects rows that are there.
LEMMA KeepsBeginPurge ==
    ASSUME Known, BeginPurge
    PROVE  Known'
<1>1. UNCHANGED <<tag, threads, messages, request, history>>
      /\ \A t \in purge' : t \in Live
  BY DEF BeginPurge, Due
<1>2. PurgeIsKnown'
  BY <1>1 DEF Known, PurgeIsKnown, RowsAreKnown
<1>3. RequestsAreKnown'
  BY <1>1 DEF Known, RequestsAreKnown, RequestIsKnown, Live
<1>4. TagIsKnown' /\ RowsAreKnown' /\ UnopenedAreBlank' /\ OpensDiffer' /\ DOMAIN messages' = Live'
  BY <1>1 DEF Known, TagIsKnown, RowsAreKnown, UnopenedAreBlank, OpensDiffer, Live
<1> QED
  BY <1>2, <1>3, <1>4 DEF Known

\* Time counts down deadlines, in rows and in what is about to be written, and
\* leaves the other columns alone.
LEMMA AgedColumns ==
    ASSUME NEW e
    PROVE  /\ DOMAIN Aged(e) = DOMAIN e
           /\ \A c \in DOMAIN e : c \notin {"left", "quiet"} => Aged(e)[c] = e[c]
  BY DEF Aged

\* So does it in a request.
LEMMA AgedFields ==
    ASSUME NEW r
    PROVE  /\ DOMAIN AgedRequest(r) = DOMAIN r
           /\ \A f \in DOMAIN r : AgedRequest(r)[f] =
                    IF f \in {"row", "edits", "updates"} THEN Aged(r[f]) ELSE r[f]
  BY DEF AgedRequest

\* The passage of time keeps what is known.
LEMMA KeepsTick ==
    ASSUME Known, Tick
    PROVE  Known'
<1>1. /\ Live' = Live /\ UNCHANGED <<tag, messages, purge>>
      /\ \A t \in Live : threads'[t] = Aged(threads[t])
      /\ DOMAIN request' = Worker /\ \A w \in Worker : request'[w] = AgedRequest(request[w])
  BY DEF Tick, Live
<1>2. /\ DOMAIN history' = Thread
      /\ \A t \in Thread : /\ DOMAIN history'[t] = DOMAIN NotOpened
                           /\ history'[t].opened <=> history[t].opened
                           /\ history'[t].stopped <=> history[t].stopped
                           /\ history'[t].named <=> history[t].named
                           /\ history'[t].late = history[t].late
                           /\ history'[t].unwanted = history[t].unwanted
  BY DEF Tick, Known, UnopenedAreBlank, NotOpened
<1>3. UnopenedAreBlank' /\ PurgeIsKnown' /\ TagIsKnown'
  BY <1>1, <1>2 DEF Known, UnopenedAreBlank, PurgeIsKnown, TagIsKnown, NameMayBePublic
<1>4. RowsAreKnown'
  <2>1. \A t \in Live : /\ DOMAIN threads'[t] = DOMAIN Column
                        /\ threads'[t].email = threads[t].email
    BY <1>1, AgedColumns DEF Known, RowsAreKnown, Column
  <2> QED
    BY <1>1, <1>2, <2>1 DEF Known, RowsAreKnown, NameMayBePublic
<1>5. ASSUME NEW w \in Worker
      PROVE  /\ RequestIsKnown(w)'
             /\ request'[w].op = request[w].op
             /\ request[w].op = "open" => request'[w].thread = request[w].thread
  <2> DEFINE r == request[w]
             q == request'[w]
  <2>1. q = AgedRequest(r) /\ RequestIsKnown(w)
    BY <1>1 DEF Known, RequestsAreKnown
  <2>2. "op" \in DOMAIN r /\ DOMAIN q = DOMAIN r /\ q.op = r.op
    BY <2>1, AgedFields DEF RequestIsKnown
  <2>3. r.op = "update" =>
          /\ "edits" \in DOMAIN q
          /\ "disclosure" \in DOMAIN q.edits /\ q.edits.disclosure = "always" => NameMayBePublic
    BY <2>1, <2>2, AgedFields, AgedColumns DEF RequestIsKnown
  <2>4. r.op = "open" =>
          /\ {"thread", "row", "message"} \subseteq DOMAIN q
          /\ q.thread = r.thread /\ DOMAIN q.row = DOMAIN Column
    BY <2>1, <2>2, AgedFields, AgedColumns DEF RequestIsKnown
  <2>5. r.op \in About =>
          /\ {"thread", "edits"} \subseteq DOMAIN q /\ q.thread = r.thread
          /\ DOMAIN q.edits = DOMAIN r.edits
          /\ "closed" \in DOMAIN q.edits => q.edits.closed = r.edits.closed
          /\ "email" \in DOMAIN q.edits => q.edits.email = r.edits.email
    BY <2>1, <2>2, AgedFields, AgedColumns DEF RequestIsKnown
  <2>6. r.op = "reply" =>
          {"message", "listed", "updates"} \subseteq DOMAIN q /\ q.listed = r.listed
    BY <2>1, <2>2, AgedFields DEF RequestIsKnown
  <2>7. r.op = "rotate" => "closing" \in DOMAIN q
    BY <2>1, <2>2 DEF RequestIsKnown
  <2>8. /\ r.op = "open" => r.thread \in Thread /\ ~history'[r.thread].opened
        /\ r.op \in About => r.thread \in Thread /\ history'[r.thread].opened
    BY <1>2, <2>1 DEF RequestIsKnown
  <2>9. RequestIsKnown(w)'
    <3> HIDE DEF q, r
    <3>1. /\ r.op \in About => ("closed" \in DOMAIN q.edits => q.edits.closed)
          /\ r.op \in About => ("email" \in DOMAIN q.edits => ~q.edits.email)
          /\ r.op = "stop" => "email" \in DOMAIN q.edits
          /\ r.op = "reply" => (r.thread \in Live' => q.listed \subseteq messages'[r.thread])
      BY <1>1, <2>1, <2>5, <2>6 DEF RequestIsKnown, About, r
    <3> QED
      BY <2>2, <2>3, <2>4, <2>5, <2>6, <2>7, <2>8, <3>1
         DEF RequestIsKnown, About, q, NameMayBePublic
  <2> QED
    BY <2>2, <2>4, <2>9
<1>6. RequestsAreKnown' /\ OpensDiffer'
  BY <1>1, <1>5 DEF Known, RequestsAreKnown, OpensDiffer
<1> QED
  BY <1>1, <1>3, <1>4, <1>6 DEF Known

-----------------------------------------------------------------------------
(* Every step *)

\* Every step keeps what is known.
LEMMA NextKeepsKnown == Known /\ [Next]_vars => Known'
<1> SUFFICES ASSUME Known, [Next]_vars
             PROVE  Known'
  OBVIOUS
<1>1. ASSUME NEW w \in Worker, Begin(w)
      PROVE  Known'
  <2>1. CASE \E t \in Live : FinderReads(w, t)
    BY <2>1, KeepsFinderReads
  <2> QED
    BY <1>1, <2>1, BeginStep
<1>2. ASSUME NEW w \in Worker, Proceed(w)
      PROVE  Known'
  <2>1. CASE MailFails(w) \/ Refuse(w)
    BY <2>1, RespondStep DEF MailFails, Refuse
  <2> QED
    BY <1>2, <2>1, KeepsCommitUpdate, KeepsCommitOpen, KeepsCommitReply, KeepsCommitRead,
       KeepsCommitStop, KeepsCommitEdits, KeepsCommitRotate, KeepsSendMail DEF Proceed
<1>3. ASSUME NEW w \in Worker, Crash(w)
      PROVE  Known'
  BY <1>3, RespondStep DEF Crash
<1>4. CASE UNCHANGED vars
  BY <1>4 DEF vars, Known, TagIsKnown, PurgeIsKnown, RowsAreKnown, UnopenedAreBlank,
              RequestsAreKnown, RequestIsKnown, OpensDiffer, Live
<1> QED
  BY <1>1, <1>2, <1>3, <1>4, KeepsBeginPurge, KeepsCommitPurge, KeepsTick DEF Next

\* Every reachable state is known.
LEMMA KnownInvariant == Spec => []Known
  BY InitKnown, NextKeepsKnown, PTL DEF Spec

\* No step reopens a conversation that is kept, or brings its address back.
LEMMA RowsStand ==
    ASSUME Known, [Next]_vars, NEW t \in Kept
    PROVE  /\ threads[t].closed => threads'[t].closed
           /\ ~threads[t].email => ~threads'[t].email
<1>1. t \in Live /\ t \in Live'
  BY DEF Kept, Live
<1>2. CASE threads' = threads
  BY <1>2
<1>3. ASSUME NEW w \in Worker, request[w].op \in About, Save(request[w])
      PROVE  /\ threads[t].closed => threads'[t].closed
             /\ ~threads[t].email => ~threads'[t].email
  BY <1>1, <1>3, SavedStands
<1>4. ASSUME NEW w \in Worker, CommitOpen(w)
      PROVE  threads'[t] = threads[t]
  <2>1. request[w].op = "open" /\ RequestIsKnown(w)
    BY <1>4 DEF CommitOpen, Known, RequestsAreKnown
  <2>2. request[w].thread # t
    BY <1>1, <2>1 DEF RequestIsKnown, Known, RowsAreKnown
  <2> QED
    BY <1>1, <1>4, <2>2 DEF CommitOpen, Live
<1>5. ASSUME NEW w \in Worker, CommitRotate(w)
      PROVE  threads'[t].email = threads[t].email /\ (threads[t].closed => threads'[t].closed)
  BY <1>1, <1>5, RotatedRows
<1>6. CASE CommitPurge
  BY <1>1, <1>6 DEF CommitPurge, Live
<1>7. CASE Tick
  <2>1. threads'[t] = Aged(threads[t]) /\ {"closed", "email"} \subseteq DOMAIN threads[t]
    BY <1>1, <1>7 DEF Tick, Known, RowsAreKnown, Column
  <2> QED
    BY <2>1, AgedColumns
<1>8. ASSUME NEW w \in Worker, Begin(w) \/ Crash(w)
      PROVE  threads' = threads
  BY <1>8 DEF Begin, BeginUpdate, BeginRotate, BeginOpen, BeginReply, BeginRead, BeginClose,
              BeginStop, FinderReads, Crash, Serve
<1>9. ASSUME NEW w \in Worker, CommitUpdate(w) \/ SendMail(w) \/ MailFails(w) \/ Refuse(w)
      PROVE  threads' = threads
  BY <1>9 DEF CommitUpdate, SendMail, MailFails, Refuse
<1>10. ASSUME NEW w \in Worker,
              CommitReply(w) \/ CommitRead(w) \/ CommitStop(w) \/ CommitEdits(w)
       PROVE  request[w].op \in About /\ Save(request[w])
  BY <1>10 DEF CommitReply, CommitRead, CommitStop, CommitEdits, About
<1>11. ASSUME NEW w \in Worker, Proceed(w)
       PROVE  /\ threads[t].closed => threads'[t].closed
              /\ ~threads[t].email => ~threads'[t].email
  BY <1>2, <1>3, <1>4, <1>5, <1>9, <1>10, <1>11 DEF Proceed
<1>12. CASE BeginPurge \/ UNCHANGED vars
  BY <1>2, <1>12 DEF BeginPurge, vars
<1> QED
  BY <1>2, <1>6, <1>7, <1>8, <1>11, <1>12 DEF Next

\* What a side has decided stands, however the requests of both sides interleave,
\* and whatever is purged, lost or rotated meanwhile.
THEOREM DecisionsAlwaysStand == Spec => DecisionsStand
<1>1. Known /\ [Next]_vars =>
        [\A t \in Kept :
            /\ threads[t].closed => threads'[t].closed
            /\ history[t].stopped => ~threads'[t].email]_vars
  <2> SUFFICES ASSUME Known, [Next]_vars, NEW t \in Kept
               PROVE  /\ threads[t].closed => threads'[t].closed
                      /\ history[t].stopped => ~threads'[t].email
    OBVIOUS
  <2>1. t \in Live
    BY DEF Kept, Live
  <2>2. history[t].stopped => ~threads[t].email
    BY <2>1 DEF Known, RowsAreKnown
  <2> QED
    BY <2>2, RowsStand
<1> QED
  BY <1>1, KnownInvariant, PTL DEF Spec, DecisionsStand

\* The name is shown only where it may be public, or the owner has answered: with
\* any number of workers, since what a reply lists is still there when it commits.
THEOREM NamesAreEarned == Spec => []NameIsEarned
<1>1. Known => NameIsEarned
  BY DEF Known, RowsAreKnown, NameIsEarned, NameMayBePublic
<1> QED
  BY <1>1, KnownInvariant, PTL

-----------------------------------------------------------------------------
(* The counts *)

\* The replies under way are at most one for every worker.
LEMMA RepliesAreFew ==
    ASSUME NEW t
    PROVE  /\ IsFiniteSet(Replying(t)) /\ Cardinality(Replying(t)) \in Nat
           /\ Cardinality(Worker) \in Nat
           /\ Cardinality(Replying(t)) <= Cardinality(Worker)
           /\ \A w \in Worker : w \notin Replying(t) =>
                  Cardinality(Replying(t)) + 1 <= Cardinality(Worker)
<1>1. IsFiniteSet(Worker) /\ Replying(t) \subseteq Worker
  BY RelayAssumption DEF Replying
<1>2. IsFiniteSet(Replying(t)) /\ Cardinality(Replying(t)) <= Cardinality(Worker)
  BY <1>1, FS_Subset
<1>3. Cardinality(Replying(t)) \in Nat /\ Cardinality(Worker) \in Nat
  BY <1>1, <1>2, FS_CardinalityType
<1>4. ASSUME NEW w \in Worker, w \notin Replying(t)
      PROVE  Cardinality(Replying(t)) + 1 <= Cardinality(Worker)
  <2>1. IsFiniteSet(Replying(t) \cup {w})
        /\ Cardinality(Replying(t) \cup {w}) = Cardinality(Replying(t)) + 1
    BY <1>2, <1>4, FS_AddElement
  <2>2. Replying(t) \cup {w} \subseteq Worker
    BY <1>1
  <2>3. Cardinality(Replying(t) \cup {w}) <= Cardinality(Worker)
    BY <1>1, <2>2, FS_Subset
  <2> QED
    BY <2>1, <2>3
<1> QED
  BY <1>1, <1>2, <1>3, <1>4

\* A step after which no more replies to a conversation are under way keeps the
\* counts, if it adds no message, and if it closes the conversation only when
\* some worker has no reply under way.
LEMMA NoReplyStep ==
    ASSUME RoomLeft, LateLeft, Live' \subseteq Live,
           \A t \in Live' :
              /\ messages'[t] = messages[t] /\ history'[t].late = history[t].late
              /\ Replying(t)' \subseteq Replying(t)
              /\ \/ threads'[t].closed <=> threads[t].closed
                 \/ threads'[t].closed /\ \E w \in Worker : w \notin Replying(t)'
    PROVE  RoomLeft' /\ LateLeft'
<1> SUFFICES ASSUME NEW t \in Live'
             PROVE  /\ IsFiniteSet(messages'[t])
                    /\ Cardinality(messages'[t]) + Cardinality(Replying(t)')
                            < MaxMessages + Cardinality(Worker)
                    /\ history'[t].late \in Nat
                    /\ IF threads'[t].closed
                       THEN history'[t].late + Cardinality(Replying(t)') < Cardinality(Worker)
                       ELSE history'[t].late = 0
  BY DEF RoomLeft, LateLeft
<1>1. /\ IsFiniteSet(messages[t])
      /\ Cardinality(messages[t]) + Cardinality(Replying(t)) < MaxMessages + Cardinality(Worker)
      /\ history[t].late \in Nat
      /\ IF threads[t].closed
         THEN history[t].late + Cardinality(Replying(t)) < Cardinality(Worker)
         ELSE history[t].late = 0
  BY DEF RoomLeft, LateLeft
<1>2. Cardinality(Replying(t)') <= Cardinality(Replying(t))
  BY RepliesAreFew, FS_Subset
<1>3. /\ Cardinality(Replying(t)) \in Nat /\ Cardinality(Replying(t)') \in Nat
      /\ Cardinality(Worker) \in Nat /\ MaxMessages \in Nat /\ Cardinality(messages[t]) \in Nat
  <2>1. IsFiniteSet(Replying(t)')
    BY RepliesAreFew, FS_Subset
  <2> QED
    BY <1>1, <2>1, RepliesAreFew, FS_CardinalityType, RelayAssumption
<1>4. IF threads'[t].closed
      THEN history'[t].late + Cardinality(Replying(t)') < Cardinality(Worker)
      ELSE history'[t].late = 0
  <2>1. CASE threads'[t].closed <=> threads[t].closed
    BY <1>1, <1>2, <1>3, <2>1
  <2>2. CASE threads'[t].closed /\ ~threads[t].closed
    <3>1. PICK w \in Worker : w \notin Replying(t)'
      BY <2>2
    <3>2. Cardinality(Replying(t)') + 1 <= Cardinality(Worker)
      <4>1. Replying(t)' \subseteq Worker \ {w}
        BY <3>1 DEF Replying
      <4>2. IsFiniteSet(Worker \ {w}) /\ Cardinality(Worker \ {w}) = Cardinality(Worker) - 1
        BY RelayAssumption, FS_RemoveElement
      <4>3. Cardinality(Replying(t)') <= Cardinality(Worker \ {w})
        BY <4>1, <4>2, FS_Subset
      <4> QED
        BY <1>3, <4>2, <4>3
    <3>3. history'[t].late = 0
      BY <1>1, <2>2
    <3> QED
      BY <1>3, <2>2, <3>2, <3>3
  <2> QED
    BY <2>1, <2>2
<1> QED
  BY <1>1, <1>2, <1>3, <1>4

\* When a worker goes on to something that is no reply, its reply is not under way.
LEMMA FewerReplies ==
    ASSUME NEW w \in Worker, \A v \in Worker \ {w} : request'[v] = request[v],
           request'[w].op # "reply", NEW t
    PROVE  Replying(t)' = Replying(t) \ {w}
  BY DEF Replying

\* The steps that add no message and begin no reply.
LEMMA QuietSteps ==
    ASSUME RelayInv, [Next]_vars,
           ~ \E w \in Worker : CommitOpen(w) \/ CommitReply(w)
                               \/ \E t \in Live, from \in {"finder", "owner"} : BeginReply(w, from, t)
    PROVE  RoomLeft' /\ LateLeft'
<1> USE DEF RelayInv
<1> DEFINE Same == Live' = Live /\ \A t \in Live : /\ messages'[t] = messages[t]
                                                   /\ history'[t].late = history[t].late
<1>1. /\ DOMAIN history = Thread /\ DOMAIN request = Worker
      /\ \A t \in Thread : DOMAIN history[t] = DOMAIN NotOpened
      /\ \A t \in Live : t \in Thread
  BY DEF Known, UnopenedAreBlank, RequestsAreKnown, RowsAreKnown
<1>2. ASSUME NEW w \in Worker, \A v \in Worker \ {w} : request'[v] = request[v],
             request'[w].op # "reply", Same,
             \A t \in Live : threads[t].closed => threads'[t].closed
      PROVE  RoomLeft' /\ LateLeft'
  BY <1>2, FewerReplies, NoReplyStep
<1>3. ASSUME NEW w \in Worker, Respond(w)
      PROVE  request'[w].op # "reply" /\ \A v \in Worker \ {w} : request'[v] = request[v]
  BY <1>3, AnswerStep
<1>4. ASSUME NEW w \in Worker,
             CommitUpdate(w) \/ MailFails(w) \/ Refuse(w) \/ Crash(w)
      PROVE  RoomLeft' /\ LateLeft'
  <2>1. Respond(w) /\ UNCHANGED <<threads, messages, history>>
    BY <1>4 DEF CommitUpdate, MailFails, Refuse, Crash
  <2> QED
    BY <1>2, <1>3, <2>1 DEF Live
<1>5. ASSUME NEW w \in Worker, SendMail(w)
      PROVE  RoomLeft' /\ LateLeft'
  <2>1. UNCHANGED <<threads, messages>> /\ Live' = Live
    BY <1>5 DEF SendMail, Live
  <2>2. \A t \in Thread : history'[t].late = history[t].late
    BY <1>1, <1>5 DEF SendMail, NotOpened
  <2>3. request'[w].op # "reply" /\ \A v \in Worker \ {w} : request'[v] = request[v]
    BY <1>1, <1>5 DEF SendMail
  <2>4. Same
    BY <1>1, <2>1, <2>2
  <2> QED
    BY <1>2, <2>1, <2>3, <2>4
<1>6. ASSUME NEW w \in Worker, CommitRead(w) \/ CommitStop(w) \/ CommitEdits(w)
      PROVE  RoomLeft' /\ LateLeft'
  <2>1. request[w].op \in About /\ Save(request[w]) /\ Respond(w) /\ messages' = messages
    BY <1>6 DEF CommitRead, CommitStop, CommitEdits, About
  <2>2. Live' = Live /\ \A t \in Live : threads[t].closed => threads'[t].closed
    BY <2>1, SaveStep, SavedStands
  <2>3. \A t \in Thread : history'[t].late = history[t].late
    BY <1>1, <1>6 DEF CommitRead, CommitStop, CommitEdits, NotOpened
  <2>4. Same
    BY <1>1, <2>1, <2>2, <2>3
  <2> QED
    BY <1>2, <1>3, <2>1, <2>2, <2>4
<1>7. ASSUME NEW w \in Worker, CommitRotate(w)
      PROVE  RoomLeft' /\ LateLeft'
  <2>1. Respond(w) /\ UNCHANGED <<messages, history>>
    BY <1>7 DEF CommitRotate
  <2> QED
    BY <1>2, <1>3, <1>7, <2>1, RotatedRows
<1>8. ASSUME NEW w \in Worker, Begin(w)
      PROVE  RoomLeft' /\ LateLeft'
  <2>1. CASE \E t \in Live : FinderReads(w, t)
    <3>1. UNCHANGED <<threads, messages, request>> /\ Live' = Live /\ request'[w].op # "reply"
      BY <2>1 DEF FinderReads, Live, Idle
    <3>2. \A t \in Thread : history'[t].late = history[t].late
      BY <1>1, <2>1 DEF FinderReads, NotOpened
    <3>3. Same
      BY <1>1, <3>1, <3>2
    <3> QED
      BY <1>2, <3>1, <3>3
  <2>2. CASE ~ \E t \in Live : FinderReads(w, t)
    <3>1. PICK r : r.op # "reply" /\ Serve(w, r)
      <4>1. CASE BeginUpdate(w)
        BY <4>1 DEF BeginUpdate
      <4>2. CASE BeginRotate(w)
        BY <4>2 DEF BeginRotate
      <4>3. ASSUME NEW retired \in BOOLEAN, BeginOpen(w, retired)
            PROVE  \E r : r.op # "reply" /\ Serve(w, r)
        BY <4>3 DEF BeginOpen
      <4>4. ASSUME NEW t \in Live, BeginRead(w, t) \/ BeginClose(w, t) \/ BeginStop(w, t)
            PROVE  \E r : r.op # "reply" /\ Serve(w, r)
        BY <4>4 DEF BeginRead, BeginClose, BeginStop
      <4> QED
        BY <1>8, <2>2, <4>1, <4>2, <4>3, <4>4 DEF Begin
    <3>2. UNCHANGED <<threads, messages, history>> /\ request'[w] = r
          /\ \A v \in Worker \ {w} : request'[v] = request[v]
      BY <1>1, <3>1 DEF Serve
    <3> QED
      BY <1>2, <3>1, <3>2 DEF Live
  <2> QED
    BY <2>1, <2>2
<1>9. CASE BeginPurge \/ UNCHANGED vars
  <2>1. UNCHANGED <<threads, messages, request, history>>
    BY <1>9 DEF BeginPurge, vars
  <2> QED
    BY <2>1, NoReplyStep DEF Live, Replying
<1>10. CASE CommitPurge
  <2>1. /\ Live' = Live \ purge /\ request' = request
        /\ \A t \in Live' : threads'[t] = threads[t] /\ messages'[t] = messages[t]
    BY <1>10 DEF CommitPurge, WithoutPurged, Live
  <2>2. \A t \in Thread \ purge : history'[t] = history[t]
    BY <1>10 DEF CommitPurge
  <2>3. \A t \in Live' : history'[t].late = history[t].late
    BY <1>1, <2>1, <2>2
  <2>4. \A t : Replying(t)' = Replying(t)
    BY <2>1 DEF Replying
  <2> QED
    BY <2>1, <2>3, <2>4, NoReplyStep
<1>11. CASE Tick
  <2>1. /\ Live' = Live /\ messages' = messages
        /\ \A t \in Live : threads'[t] = Aged(threads[t])
        /\ \A w \in Worker : request'[w] = AgedRequest(request[w])
    BY <1>11 DEF Tick, Live
  <2>2. \A t \in Thread : history'[t].late = history[t].late
    BY <1>1, <1>11 DEF Tick, NotOpened
  <2>3. \A t \in Live : threads'[t].closed = threads[t].closed
    BY <2>1, AgedColumns DEF Known, RowsAreKnown, Column
  <2>4. ASSUME NEW t, NEW w \in Replying(t)'
        PROVE  w \in Replying(t)
    <3>1. w \in Worker /\ RequestIsKnown(w) /\ request'[w].op = "reply" /\ request'[w].thread = t
      BY <2>4 DEF Known, RequestsAreKnown, Replying
    <3>2. request'[w] = AgedRequest(request[w])
      BY <2>1, <3>1
    <3>6. "op" \in DOMAIN request[w]
      BY <3>1 DEF RequestIsKnown
    <3>3. request[w].op = "reply"
      BY <3>1, <3>2, <3>6, AgedFields
    <3>4. "thread" \in DOMAIN request[w]
      BY <3>1, <3>3 DEF RequestIsKnown, About
    <3>5. request[w].thread = t
      BY <3>1, <3>2, <3>4, AgedFields
    <3> QED
      BY <3>1, <3>3, <3>5 DEF Replying
  <2>5. \A t \in Live : history'[t].late = history[t].late
    BY <1>1, <2>2
  <2>6. \A t : Replying(t)' \subseteq Replying(t)
    BY <2>4
  <2> QED
    BY <2>1, <2>3, <2>5, <2>6, NoReplyStep
<1> QED
  BY <1>4, <1>5, <1>6, <1>7, <1>8, <1>9, <1>10, <1>11 DEF Next, Proceed

\* A reply begins to a conversation that is open and has room.
LEMMA BeginReplyCounts ==
    ASSUME RelayInv, NEW w \in Worker, NEW u \in Live, NEW from, BeginReply(w, from, u)
    PROVE  RoomLeft' /\ LateLeft'
<1>1. /\ UNCHANGED <<threads, messages, history>> /\ Live' = Live
      /\ ~threads[u].closed /\ Cardinality(messages[u]) < MaxMessages
      /\ \A v \in Worker \ {w} : request'[v] = request[v]
      /\ request'[w].thread = u
  BY DEF BeginReply, Serve, MayReply, Live, RelayInv, Known, RequestsAreKnown
<1>2. \A t : t # u => Replying(t)' \subseteq Replying(t)
  BY <1>1 DEF Replying
<1>3. IsFiniteSet(messages[u]) /\ Cardinality(messages[u]) \in Nat
  BY FS_CardinalityType DEF RelayInv, RoomLeft
<1>4. /\ Cardinality(Replying(u)') <= Cardinality(Worker)
      /\ Cardinality(Replying(u)') \in Nat /\ Cardinality(Worker) \in Nat
  <2>1. Replying(u)' \subseteq Worker
    BY DEF Replying
  <2>2. IsFiniteSet(Replying(u)') /\ Cardinality(Replying(u)') <= Cardinality(Worker)
    BY <2>1, RelayAssumption, FS_Subset
  <2> QED
    BY <2>2, RelayAssumption, FS_CardinalityType
<1>5. Cardinality(messages[u]) + Cardinality(Replying(u)') < MaxMessages + Cardinality(Worker)
  BY <1>1, <1>3, <1>4, RelayAssumption
<1>6. ASSUME NEW t \in Live, t # u
      PROVE  /\ Cardinality(messages[t]) + Cardinality(Replying(t)') < MaxMessages + Cardinality(Worker)
             /\ threads[t].closed =>
                    history[t].late + Cardinality(Replying(t)') < Cardinality(Worker)
  <2>1. /\ Cardinality(Replying(t)') <= Cardinality(Replying(t))
        /\ Cardinality(Replying(t)') \in Nat /\ Cardinality(Replying(t)) \in Nat
    <3>1. IsFiniteSet(Replying(t)) /\ IsFiniteSet(Replying(t)')
      BY <1>2, <1>6, RepliesAreFew, FS_Subset
    <3> QED
      BY <1>2, <1>6, <3>1, FS_Subset, FS_CardinalityType
  <2>2. Cardinality(messages[t]) \in Nat /\ history[t].late \in Nat
    BY FS_CardinalityType DEF RelayInv, RoomLeft, LateLeft
  <2>3. Cardinality(messages[t]) + Cardinality(Replying(t)) < MaxMessages + Cardinality(Worker)
    BY DEF RelayInv, RoomLeft
  <2>4. threads[t].closed => history[t].late + Cardinality(Replying(t)) < Cardinality(Worker)
    BY DEF RelayInv, LateLeft
  <2> QED
    BY <1>4, <2>1, <2>2, <2>3, <2>4, RelayAssumption
<1>7. RoomLeft'
  BY <1>1, <1>5, <1>6 DEF RelayInv, RoomLeft
<1>8. LateLeft'
  BY <1>1, <1>6 DEF RelayInv, LateLeft
<1> QED
  BY <1>7, <1>8

\* A reply that is written is no longer under way, and adds one message.
LEMMA CommitReplyCounts ==
    ASSUME RelayInv, NEW w \in Worker, CommitReply(w)
    PROVE  RoomLeft' /\ LateLeft'
<1> DEFINE r == request[w]
<1>0. PICK u : u = r.thread
  OBVIOUS
<1>1. r.op = "reply" /\ r.op \in About /\ Save(r)
  BY DEF CommitReply, About
<1>2. u \in Live /\ u \in Thread /\ Live' = Live /\ DOMAIN messages = Live
  BY <1>0, <1>1, SaveStep DEF RelayInv, Known
<1>3. /\ messages'[u] = messages[u] \cup {r.message}
      /\ \A t \in Live \ {u} : messages'[t] = messages[t]
  BY <1>0, <1>2 DEF CommitReply
<1>4. /\ history'[u].late = history[u].late + Late(u)
      /\ \A t \in Thread \ {u} : history'[t] = history[t]
  <2>1. DOMAIN history = Thread /\ DOMAIN history[u] = DOMAIN NotOpened
    BY <1>2 DEF RelayInv, Known, UnopenedAreBlank
  <2> QED
    BY <1>0, <1>2, <2>1 DEF CommitReply, NotOpened
<1>5. /\ \A v \in Worker \ {w} : request'[v] = request[v]
      /\ request'[w].op # "reply"
  <2>1. CASE Respond(w)
    BY <2>1, AnswerStep DEF RelayInv
  <2>2. CASE ~Respond(w)
    BY <2>2 DEF CommitReply, RelayInv, Known, RequestsAreKnown
  <2> QED
    BY <2>1, <2>2
<1>6. \A t : Replying(t)' = Replying(t) \ {w}
  BY <1>5, FewerReplies
<1>7. w \in Replying(u)
  BY <1>0, <1>1 DEF Replying
<1>8. \A t \in Live \ {u} : Replying(t)' = Replying(t)
  <2>1. \A t : t # u => w \notin Replying(t)
    BY <1>0 DEF Replying
  <2> QED
    BY <1>6, <2>1
<1>9. /\ IsFiniteSet(Replying(u)) /\ Cardinality(Replying(u)) \in Nat
      /\ Cardinality(Replying(u)') = Cardinality(Replying(u)) - 1
      /\ Cardinality(Replying(u)') \in Nat
      /\ Cardinality(Worker) \in Nat /\ MaxMessages \in Nat
  <2>1. IsFiniteSet(Replying(u)) /\ Cardinality(Replying(u)) \in Nat /\ Cardinality(Worker) \in Nat
    BY RepliesAreFew
  <2>2. /\ IsFiniteSet(Replying(u) \ {w})
        /\ Cardinality(Replying(u) \ {w}) = Cardinality(Replying(u)) - 1
    BY <1>7, <2>1, FS_RemoveElement
  <2>3. Replying(u)' = Replying(u) \ {w}
    BY <1>6
  <2>4. Cardinality(Replying(u) \ {w}) \in Nat
    BY <2>2, FS_CardinalityType
  <2> QED
    BY <2>1, <2>2, <2>3, <2>4, RelayAssumption
<1>10. /\ IsFiniteSet(messages[u]) /\ Cardinality(messages[u]) \in Nat
       /\ IsFiniteSet(messages'[u]) /\ Cardinality(messages'[u]) \in Nat
       /\ Cardinality(messages'[u]) <= Cardinality(messages[u]) + 1
  <2>1. IsFiniteSet(messages[u])
    BY <1>2 DEF RelayInv, RoomLeft
  <2>2. CASE r.message \in messages[u]
    <3>1. messages'[u] = messages[u]
      BY <1>3, <2>2
    <3> QED
      BY <2>1, <3>1, FS_CardinalityType
  <2>3. CASE r.message \notin messages[u]
    <3> DEFINE more == messages[u] \cup {r.message}
    <3>1. IsFiniteSet(more) /\ Cardinality(more) = Cardinality(messages[u]) + 1
      BY <2>1, <2>3, FS_AddElement
    <3>2. Cardinality(more) \in Nat /\ Cardinality(messages[u]) \in Nat
      BY <2>1, <3>1, FS_CardinalityType
    <3> QED
      BY <1>3, <2>1, <3>1, <3>2
  <2> QED
    BY <2>2, <2>3
<1>11. Cardinality(messages'[u]) + Cardinality(Replying(u)') < MaxMessages + Cardinality(Worker)
  <2>1. Cardinality(messages[u]) + Cardinality(Replying(u)) < MaxMessages + Cardinality(Worker)
    BY <1>2 DEF RelayInv, RoomLeft
  <2> QED
    BY <1>9, <1>10, <2>1
<1>12. RoomLeft'
  <2> SUFFICES ASSUME NEW t \in Live
               PROVE  /\ IsFiniteSet(messages'[t])
                      /\ Cardinality(messages'[t]) + Cardinality(Replying(t)')
                            < MaxMessages + Cardinality(Worker)
    BY <1>2 DEF RoomLeft
  <2>1. CASE t = u
    BY <1>10, <1>11, <2>1
  <2>2. CASE t # u
    <3>1. messages'[t] = messages[t] /\ Replying(t)' = Replying(t)
      BY <1>3, <1>8, <2>2
    <3> QED
      BY <3>1 DEF RelayInv, RoomLeft
  <2> QED
    BY <2>1, <2>2
<1>13. LateLeft'
  <2> SUFFICES ASSUME NEW t \in Live
               PROVE  /\ history'[t].late \in Nat
                      /\ IF threads'[t].closed
                         THEN history'[t].late + Cardinality(Replying(t)') < Cardinality(Worker)
                         ELSE history'[t].late = 0
    BY <1>2 DEF LateLeft
  <2>1. /\ history[t].late \in Nat
        /\ IF threads[t].closed
           THEN history[t].late + Cardinality(Replying(t)) < Cardinality(Worker)
           ELSE history[t].late = 0
    BY DEF RelayInv, LateLeft
  <2>2. CASE t = u
    <3>1. Cardinality(Replying(u)) <= Cardinality(Worker)
      BY RepliesAreFew
    <3>2. threads[u].closed => threads'[u].closed
      BY <1>1, <1>2, SavedStands DEF RelayInv
    <3>3. CASE threads[u].closed
      BY <1>4, <1>9, <2>1, <2>2, <3>2, <3>3 DEF Late
    <3>4. CASE ~threads[u].closed
      BY <1>4, <1>9, <2>1, <2>2, <3>1, <3>4 DEF Late
    <3> QED
      BY <3>3, <3>4
  <2>3. CASE t # u
    <3>1. t \in Thread /\ threads'[t] = threads[t]
      BY <1>0, <1>1, <2>3, SaveStep DEF RelayInv, Known, RowsAreKnown
    <3>2. history'[t] = history[t] /\ Replying(t)' = Replying(t)
      BY <1>4, <1>8, <2>3, <3>1
    <3> QED
      BY <2>1, <3>1, <3>2
  <2> QED
    BY <2>2, <2>3
<1> QED
  BY <1>12, <1>13

\* A conversation that opens has one message and no reply under way.
LEMMA CommitOpenCounts ==
    ASSUME RelayInv, NEW w \in Worker, CommitOpen(w)
    PROVE  RoomLeft' /\ LateLeft'
<1> DEFINE r == request[w]
<1>0. PICK u : u = r.thread
  OBVIOUS
<1>1. r.op = "open" /\ RequestIsKnown(w)
  BY DEF CommitOpen, RelayInv, Known, RequestsAreKnown
<1>2. /\ u \in Thread /\ ~history[u].opened /\ history[u].late = 0 /\ u \notin Live
  BY <1>0, <1>1 DEF RequestIsKnown, RelayInv, Known, RowsAreKnown, UnopenedAreBlank
<1>3. /\ Live' = Live \cup {u}
      /\ messages'[u] = {r.message}
      /\ \A t \in Live : threads'[t] = threads[t] /\ messages'[t] = messages[t]
  BY <1>0, <1>2 DEF CommitOpen, Live
<1>4. history'[u].late = 0 /\ \A t \in Thread \ {u} : history'[t] = history[t]
  BY <1>0, <1>2 DEF CommitOpen, RelayInv, Known, UnopenedAreBlank, NotOpened
<1>5. \A t : Replying(t)' = Replying(t) \ {w}
  BY AnswerStep, FewerReplies DEF CommitOpen, RelayInv
<1>6. w \notin Replying(u) /\ \A t : w \notin Replying(t)
  BY <1>1 DEF Replying
<1>7. Replying(u) = {}
  <2> SUFFICES ASSUME NEW v \in Replying(u)
               PROVE  FALSE
    OBVIOUS
  <2>1. v \in Worker /\ request[v].op = "reply" /\ request[v].thread = u
    BY DEF Replying
  <2>2. history[u].opened
    BY <2>1 DEF RelayInv, Known, RequestsAreKnown, RequestIsKnown, About
  <2> QED
    BY <1>2, <2>2
<1>8. Cardinality(Replying(u)') = 0
  BY <1>5, <1>7, FS_EmptySet
<1>9. Cardinality(Worker) \in Nat /\ Cardinality(Worker) >= 1
  <2>1. Cardinality(Worker) \in Nat /\ Cardinality(Replying(u)) + 1 <= Cardinality(Worker)
    BY <1>6, RepliesAreFew
  <2> QED
    BY <1>7, <2>1, FS_EmptySet
<1>10. IsFiniteSet(messages'[u]) /\ Cardinality(messages'[u]) = 1
  BY <1>3, FS_Singleton
<1>11. ASSUME NEW t \in Live
       PROVE  /\ messages'[t] = messages[t] /\ threads'[t] = threads[t]
              /\ history'[t] = history[t] /\ Replying(t)' = Replying(t)
  <2>1. t \in Thread \ {u}
    BY <1>2 DEF RelayInv, Known, RowsAreKnown
  <2> QED
    BY <1>3, <1>4, <1>5, <1>6, <2>1
<1>12. RoomLeft'
  <2>1. MaxMessages \in Nat /\ MaxMessages > 0
    BY RelayAssumption
  <2>2. Cardinality(messages'[u]) + Cardinality(Replying(u)') < MaxMessages + Cardinality(Worker)
    BY <1>8, <1>9, <1>10, <2>1
  <2>3. \A t \in Live :
          /\ IsFiniteSet(messages'[t])
          /\ Cardinality(messages'[t]) + Cardinality(Replying(t)') < MaxMessages + Cardinality(Worker)
    BY <1>11 DEF RelayInv, RoomLeft
  <2> QED
    BY <1>3, <1>10, <2>2, <2>3 DEF RoomLeft
<1>13. LateLeft'
  BY <1>3, <1>4, <1>8, <1>9, <1>11 DEF RelayInv, LateLeft
<1> QED
  BY <1>12, <1>13

-----------------------------------------------------------------------------

\* Before anything has happened there is nothing to count.
LEMMA InitRelay == Init => RelayInv
<1>1. Init => Live = {}
  BY DEF Init, Live
<1> QED
  BY <1>1, InitKnown DEF RelayInv, RoomLeft, LateLeft

\* Every step keeps the counts.
LEMMA NextKeepsRelay == RelayInv /\ [Next]_vars => RelayInv'
<1> SUFFICES ASSUME RelayInv, [Next]_vars
             PROVE  RelayInv'
  OBVIOUS
<1>1. Known'
  BY NextKeepsKnown DEF RelayInv
<1>2. RoomLeft' /\ LateLeft'
  BY QuietSteps, BeginReplyCounts, CommitReplyCounts, CommitOpenCounts
<1> QED
  BY <1>1, <1>2 DEF RelayInv

\* Every reachable state satisfies the invariant.
LEMMA RelayInvariant == Spec => []RelayInv
  BY InitRelay, NextKeepsRelay, PTL DEF Spec

\* The limit on messages is exceeded by fewer than there are workers.
THEOREM MessagesAreLimited == Spec => []MessageLimit
<1>1. RelayInv => MessageLimit
  <2> SUFFICES ASSUME RelayInv, NEW t \in Live
               PROVE  Cardinality(messages[t]) < MaxMessages + Cardinality(Worker)
    BY DEF MessageLimit
  <2>1. /\ IsFiniteSet(messages[t])
        /\ Cardinality(messages[t]) + Cardinality(Replying(t)) < MaxMessages + Cardinality(Worker)
    BY DEF RelayInv, RoomLeft
  <2>2. Cardinality(messages[t]) \in Nat
    BY <2>1, FS_CardinalityType
  <2> QED
    BY <2>1, <2>2, RepliesAreFew, RelayAssumption
<1> QED
  BY <1>1, RelayInvariant, PTL

\* What is still added to a closed conversation was being sent just then: one
\* message at most for every worker but the one that closed it.
THEOREM LateMessagesStayFew == Spec => []LateMessagesAreFew
<1>1. RelayInv => LateMessagesAreFew
  <2> SUFFICES ASSUME RelayInv, NEW t \in Live
               PROVE  history[t].late < Cardinality(Worker)
    BY DEF LateMessagesAreFew
  <2>1. /\ history[t].late \in Nat
        /\ IF threads[t].closed
           THEN history[t].late + Cardinality(Replying(t)) < Cardinality(Worker)
           ELSE history[t].late = 0
    BY DEF RelayInv, LateLeft
  <2>2. Cardinality(Worker) \in Nat /\ Cardinality(Worker) > 0
    BY RelayAssumption, FS_CardinalityType, FS_EmptySet
  <2> QED
    BY <2>1, <2>2, RepliesAreFew
<1> QED
  BY <1>1, RelayInvariant, PTL

-----------------------------------------------------------------------------
(* What the owner has not been shown, and how long ago the finder was mailed. *)

\* After this request, or in it, the finder may be mailed, or the mail is noted.
Answers(v) ==
    \/ request[v].op \in {"mail", "noted"}
    \/ request[v].op = "reply" /\ request[v].message.from = "owner"

\* The instants at which the owner read are past; a message the owner was not shown
\* is new, unless the sides have crossed; while the finder has an address, the
\* cooldown lasts as long as the last mail that was noted undisturbed is recent.
RowIsFresh(t) ==
    /\ threads[t].read \subseteq 0 .. stamp
    /\ threads[t].quiet \in Nat
    /\ \/ history[t].crossed
       \/ \A m \in messages[t] : m.from = "finder" /\ m \notin history[t].shown => Unread(t)
    /\ threads[t].email => history[t].gap <= threads[t].quiet

\* A finder's reply under way is newer than what the owner has read, an owner's
\* lists every message of the finder that was not shown, unless the sides have
\* crossed; a mail of an answer follows only when the last one is long ago, and the
\* cooldown to be noted is as long as it is recent.
RequestIsFresh(w) ==
    LET r == request[w]
        t == r.thread
    IN
    /\ r.op = "open" => r.row.read = NULL /\ r.row.quiet \in Nat
    /\ r.op = "reply" =>
        /\ r.message.from \in {"finder", "owner"}
        /\ DOMAIN r.edits = IF r.message.from = "finder" THEN {"last", "left"}
                            ELSE {"last", "read", "left"}
        /\ r.message.from = "owner" => r.edits.read \subseteq 0 .. stamp
        /\ {"email", "quiet"} \subseteq DOMAIN r.updates /\ r.updates.quiet \in Nat
        /\ r.message.from = "owner" /\ r.updates.email => history[t].gap <= r.updates.quiet
        /\ t \in Live /\ r.message.from = "finder" =>
              history[t].crossed \/ \A i \in threads[t].read : i < r.edits.last
        /\ t \in Live /\ r.message.from = "owner" =>
              \/ history[t].crossed
              \/ \A m \in messages[t] :
                    m.from = "finder" => m \in history[t].shown \/ m \in r.listed
    /\ r.op = "read" => DOMAIN r.edits = {"read"} /\ r.edits.read \subseteq 0 .. stamp
    /\ r.op = "close" => DOMAIN r.edits = {"closed"}
    /\ r.op = "stop" => DOMAIN r.edits = {"email", "quiet"} /\ r.edits.quiet \in Nat
    /\ r.op = "mail" => history[t].gap = 0
    /\ r.op = "noted" =>
        /\ DOMAIN r.edits = {"quiet"} /\ r.edits.quiet \in Nat
        /\ history[t].gap <= r.edits.quiet

\* A conversation was mailed about only after it was opened.
GapsAreKnown ==
    \A t \in Thread : /\ history[t].gap \in Nat /\ history[t].mails \in Nat
                      /\ ~history[t].opened => history[t].gap = 0

FreshInv ==
    /\ Known /\ stamp \in Nat /\ GapsAreKnown
    /\ \A t \in Live : RowIsFresh(t)
    /\ \A w \in Worker : RequestIsFresh(w)

\* Before anything has happened.
LEMMA InitFresh == Init => FreshInv
<1> SUFFICES ASSUME Init PROVE FreshInv
  OBVIOUS
<1>1. Known /\ stamp \in Nat /\ Live = {}
  BY InitKnown DEF Init, Live
<1>2. GapsAreKnown
  BY DEF Init, GapsAreKnown, NotOpened
<1>3. \A w \in Worker : RequestIsFresh(w)
  BY DEF Init, RequestIsFresh, Idle
<1> QED
  BY <1>1, <1>2, <1>3 DEF FreshInv

\* A request that does not change stays fresh, whatever happens to its conversation
\* but what it depends on.
LEMMA TouchedFresh ==
    ASSUME FreshInv, NEW v \in Worker, request'[v] = request[v],
           stamp' = stamp \/ stamp' = stamp + 1,
           NEW t, request[v].op \in About => request[v].thread = t,
           t \in Live' => t \in Live,
           Answers(v) => history'[t].gap = history[t].gap \/ history'[t].gap = 0,
           t \in Live' /\ Writing(v, t, "finder") =>
              \/ history'[t].crossed
              \/ ~history[t].crossed /\ threads'[t].read = threads[t].read,
           t \in Live' /\ Writing(v, t, "owner") =>
              \/ history'[t].crossed
              \/ \A m \in messages'[t] :
                    m.from = "finder" =>
                       \/ m \in history'[t].shown
                       \/ /\ ~history[t].crossed /\ m \in messages[t]
                          /\ m \in history[t].shown => m \in history'[t].shown
    PROVE  RequestIsFresh(v)'
<1> DEFINE r == request[v]
<1>1. RequestIsFresh(v) /\ stamp \in Nat
  BY DEF FreshInv
<1>2. \A s : s \subseteq 0 .. stamp => s \subseteq 0 .. stamp'
  BY <1>1
<1>3. CASE r.op \notin About
  BY <1>1, <1>3 DEF RequestIsFresh, About
<1>4. CASE r.op \in {"read", "close", "stop"}
  BY <1>1, <1>2, <1>4 DEF RequestIsFresh
<1>5. CASE r.op \in {"mail", "noted"}
  <2>1. r.thread = t /\ (history'[t].gap = history[t].gap \/ history'[t].gap = 0)
    BY <1>5 DEF About, Answers
  <2> QED
    BY <1>1, <1>5, <2>1 DEF RequestIsFresh
<1>6. CASE r.op = "reply" /\ r.message.from = "finder"
  <2>1. r.thread = t /\ Writing(v, t, "finder")
    BY <1>6 DEF About, Writing
  <2>2. t \in Live' => history'[t].crossed \/ \A i \in threads'[t].read : i < r.edits.last
    BY <1>1, <1>6, <2>1 DEF RequestIsFresh
  <2> QED
    BY <1>1, <1>6, <2>1, <2>2 DEF RequestIsFresh
<1>7. CASE r.op = "reply" /\ r.message.from = "owner"
  <2>1. /\ r.thread = t /\ Writing(v, t, "owner")
        /\ history'[t].gap = history[t].gap \/ history'[t].gap = 0
    BY <1>7 DEF About, Writing, Answers
  <2>2. r.updates.quiet \in Nat /\ (r.updates.email => history[t].gap <= r.updates.quiet)
    BY <1>1, <1>7, <2>1 DEF RequestIsFresh
  <2>3. r.updates.email => history'[t].gap <= r.updates.quiet
    BY <2>1, <2>2
  <2>4. t \in Live' => \/ history'[t].crossed
                       \/ \A m \in messages'[t] :
                             m.from = "finder" => m \in history'[t].shown \/ m \in r.listed
    BY <1>1, <1>7, <2>1 DEF RequestIsFresh
  <2>5. r.edits.read \subseteq 0 .. stamp'
    BY <1>1, <1>2, <1>7 DEF RequestIsFresh
  <2> QED
    BY <1>1, <1>7, <2>1, <2>3, <2>4, <2>5 DEF RequestIsFresh
<1>8. r.op = "reply" => r.message.from \in {"finder", "owner"}
  BY <1>1 DEF RequestIsFresh
<1> QED
  BY <1>3, <1>4, <1>5, <1>6, <1>7, <1>8 DEF About

\* A row that stays what it was is fresh for as long as no instant is taken back.
LEMMA SameRow ==
    ASSUME FreshInv, NEW t \in Live, t \in Live',
           threads'[t].last = threads[t].last, threads'[t].read = threads[t].read,
           threads'[t].quiet = threads[t].quiet, threads'[t].email = threads[t].email,
           messages'[t] = messages[t], history'[t].shown = history[t].shown,
           history'[t].crossed <=> history[t].crossed,
           history'[t].gap = history[t].gap \/ history'[t].gap = 0,
           stamp' = stamp \/ stamp' = stamp + 1
    PROVE  RowIsFresh(t)'
<1>1. RowIsFresh(t) /\ stamp \in Nat
  BY DEF FreshInv
<1>2. Unread(t)' <=> Unread(t)
  BY DEF Unread
<1>3. threads'[t].read \subseteq 0 .. stamp'
  BY <1>1 DEF RowIsFresh
<1>4. threads[t].email => history'[t].gap <= threads[t].quiet
  BY <1>1 DEF RowIsFresh
<1> QED
  BY <1>1, <1>2, <1>3, <1>4 DEF RowIsFresh

\* Steps that leave what is read, shown and noted as it was.
LEMMA QuietFresh ==
    ASSUME FreshInv, Known',
           \A v \in Worker : request'[v] = request[v] \/ RequestIsFresh(v)',
           stamp' = stamp \/ stamp' = stamp + 1,
           Live' \subseteq Live,
           \A t \in Live' :
               /\ threads'[t].last = threads[t].last /\ threads'[t].read = threads[t].read
               /\ threads'[t].quiet = threads[t].quiet /\ threads'[t].email = threads[t].email
               /\ messages'[t] = messages[t]
               /\ history'[t].shown = history[t].shown
               /\ history'[t].crossed <=> history[t].crossed,
           \A t \in Thread :
               /\ history'[t].mails \in Nat
               /\ \/ /\ history'[t].gap = history[t].gap
                     /\ history'[t].opened <=> history[t].opened
                  \/ history'[t].gap = 0
    PROVE  FreshInv'
<1>1. \A t \in Live' : t \in Live /\ t \in Thread
  BY DEF FreshInv, Known, RowsAreKnown
<1>2. \A t \in Thread : history'[t].gap = history[t].gap \/ history'[t].gap = 0
  OBVIOUS
<1>3. \A t \in Live' : RowIsFresh(t)'
  BY <1>1, <1>2, SameRow
<1>4. GapsAreKnown'
  BY DEF FreshInv, GapsAreKnown
<1>5. ASSUME NEW v \in Worker, request'[v] = request[v]
      PROVE  RequestIsFresh(v)'
  <2>1. PICK t : t = request[v].thread
    OBVIOUS
  <2>2. RequestIsKnown(v) /\ RequestIsFresh(v)
    BY DEF FreshInv, Known, RequestsAreKnown
  <2>3. request[v].op \in About => t \in Thread
    BY <2>1, <2>2 DEF RequestIsKnown
  <2>4. Answers(v) => request[v].op \in About
    BY DEF Answers, About
  <2>5. t \in Live' => t \in Live
    OBVIOUS
  <2>6. Answers(v) => history'[t].gap = history[t].gap \/ history'[t].gap = 0
    BY <1>2, <2>3, <2>4
  <2> QED
    BY <1>5, <2>1, <2>5, <2>6, TouchedFresh
<1>6. stamp' \in Nat
  BY DEF FreshInv
<1> QED
  BY <1>3, <1>4, <1>5, <1>6 DEF FreshInv

\* A worker begins a request, and loads what is there.
LEMMA ServedFresh ==
    ASSUME FreshInv, Known', NEW w \in Worker, NEW r, Serve(w, r),
           stamp' = stamp \/ stamp' = stamp + 1, RequestIsFresh(w)'
    PROVE  FreshInv'
<1>1. UNCHANGED <<threads, messages, history>> /\ Live' = Live
      /\ \A v \in Worker \ {w} : request'[v] = request[v]
  BY DEF Serve, FreshInv, Known, RequestsAreKnown, Live
<1>2. \A v \in Worker : request'[v] = request[v] \/ RequestIsFresh(v)'
  BY <1>1
<1>3. \A t \in Thread : history'[t].mails \in Nat
  BY <1>1 DEF FreshInv, GapsAreKnown
<1> QED
  BY <1>1, <1>2, <1>3, QuietFresh

\* The beginnings of the handlers.
LEMMA BeginFresh ==
    ASSUME FreshInv, Known', NEW w \in Worker, Begin(w),
           ~(\E t \in Live : FinderReads(w, t))
    PROVE  FreshInv'
<1>1. stamp \in Nat /\ DOMAIN request = Worker
  BY DEF FreshInv, Known, RequestsAreKnown
<1>2. ASSUME NEW r, Serve(w, r)
      PROVE  request'[w] = r /\ UNCHANGED <<threads, messages, history>> /\ Live' = Live
  BY <1>1, <1>2 DEF Serve, Live
<1>3. CASE BeginUpdate(w)
  <2>1. PICK s \in Settings :
          LET changed == {c \in DOMAIN s : s[c] # tag[c]} IN
          Serve(w, [op |-> "update", edits |-> [c \in changed |-> s[c]]])
    BY <1>3 DEF BeginUpdate
  <2> DEFINE changed == {c \in DOMAIN s : s[c] # tag[c]}
             edits == [c \in changed |-> s[c]]
             r == [op |-> "update", edits |-> edits]
  <2>2. Serve(w, r) /\ stamp' = stamp
    BY <1>3, <2>1 DEF BeginUpdate
  <2> HIDE DEF changed, edits
  <2>3. RequestIsFresh(w)'
    BY <1>2, <2>2 DEF RequestIsFresh
  <2> QED
    BY <2>2, <2>3, ServedFresh
<1>4. CASE BeginRotate(w)
  <2> DEFINE closing == {t \in Live : ~threads[t].closed}
             r == [op |-> "rotate", closing |-> closing]
  <2>1. Serve(w, r) /\ stamp' = stamp
    BY <1>4 DEF BeginRotate
  <2> HIDE DEF closing
  <2>2. RequestIsFresh(w)'
    BY <1>2, <2>1 DEF RequestIsFresh
  <2> QED
    BY <2>1, <2>2, ServedFresh
<1>5. ASSUME NEW retired \in BOOLEAN, BeginOpen(w, retired)
      PROVE  FreshInv'
  <2>1. PICK t \in Thread, email \in Emails :
          Serve(w, [op |-> "open", thread |-> t, retired |-> retired,
                    row |-> [last |-> stamp', read |-> NULL, left |-> Retention,
                             closed |-> FALSE, email |-> email, quiet |-> 0],
                    message |-> [from |-> "finder", at |-> stamp']])
    BY <1>5 DEF BeginOpen
  <2> DEFINE row == [last |-> stamp', read |-> NULL, left |-> Retention,
                     closed |-> FALSE, email |-> email, quiet |-> 0]
             message == [from |-> "finder", at |-> stamp']
             r == [op |-> "open", thread |-> t, retired |-> retired, row |-> row,
                   message |-> message]
  <2>2. Serve(w, r) /\ stamp' = stamp + 1
    BY <1>5, <2>1 DEF BeginOpen
  <2>3. row.read = NULL /\ row.quiet = 0
    OBVIOUS
  <2> HIDE DEF row, message
  <2>4. RequestIsFresh(w)'
    BY <1>2, <2>2, <2>3 DEF RequestIsFresh
  <2> QED
    BY <2>2, <2>4, ServedFresh
<1>6. ASSUME NEW t \in Live, NEW from \in {"finder", "owner"}, BeginReply(w, from, t)
      PROVE  FreshInv'
  <2> DEFINE edits == IF from = "owner"
                      THEN [last |-> stamp', read |-> {stamp'}, left |-> Retention]
                      ELSE [last |-> stamp', left |-> Retention]
             message == [from |-> from, at |-> stamp']
             updates == [email |-> threads[t].email, quiet |-> threads[t].quiet]
             r == [op |-> "reply", thread |-> t, message |-> message,
                   listed |-> messages[t], updates |-> updates, edits |-> edits]
  <2>1. Serve(w, r) /\ stamp' = stamp + 1
    BY <1>6 DEF BeginReply
  <2>2. /\ DOMAIN edits = IF from = "finder" THEN {"last", "left"} ELSE {"last", "read", "left"}
        /\ edits.last = stamp' /\ (from = "owner" => edits.read = {stamp'})
        /\ message.from = from /\ DOMAIN updates = {"email", "quiet"}
        /\ updates.email = threads[t].email /\ updates.quiet = threads[t].quiet
    BY <1>6
  <2>3. /\ \A i \in threads[t].read : i < stamp'
        /\ threads[t].quiet \in Nat /\ (threads[t].email => history[t].gap <= threads[t].quiet)
        /\ {stamp'} \subseteq 0 .. stamp'
    BY <1>1, <2>1 DEF FreshInv, RowIsFresh
  <2> HIDE DEF edits, message, updates
  <2>4. /\ request'[w] = r /\ UNCHANGED <<threads, messages, history>> /\ Live' = Live
        /\ r.op = "reply" /\ r.thread = t /\ r.message = message /\ r.listed = messages[t]
        /\ r.updates = updates /\ r.edits = edits
    BY <1>2, <2>1
  <2> HIDE DEF r
  <2>5. RequestIsFresh(w)'
    BY <1>6, <2>2, <2>3, <2>4 DEF RequestIsFresh
  <2> QED
    BY <2>1, <2>5, ServedFresh
<1>7. ASSUME NEW t \in Live, BeginRead(w, t) \/ BeginClose(w, t) \/ BeginStop(w, t)
      PROVE  FreshInv'
  <2>1. CASE BeginRead(w, t)
    <3> DEFINE r == [op |-> "read", thread |-> t, edits |-> [read |-> {stamp'}]]
    <3>1. Serve(w, r) /\ stamp' = stamp + 1
      BY <2>1 DEF BeginRead
    <3>2. {stamp'} \subseteq 0 .. stamp'
      BY <1>1, <3>1
    <3>3. RequestIsFresh(w)'
      BY <1>2, <3>1, <3>2 DEF RequestIsFresh
    <3> QED
      BY <3>1, <3>3, ServedFresh
  <2>2. CASE BeginClose(w, t)
    <3> DEFINE r == [op |-> "close", thread |-> t, edits |-> [closed |-> TRUE]]
    <3>1. Serve(w, r) /\ stamp' = stamp
      BY <2>2 DEF BeginClose
    <3>2. RequestIsFresh(w)'
      BY <1>2, <3>1 DEF RequestIsFresh
    <3> QED
      BY <3>1, <3>2, ServedFresh
  <2>3. CASE BeginStop(w, t)
    <3> DEFINE r == [op |-> "stop", thread |-> t, edits |-> OptOut]
    <3>1. Serve(w, r) /\ stamp' = stamp
      BY <2>3 DEF BeginStop
    <3>2. DOMAIN OptOut = {"email", "quiet"} /\ OptOut.quiet \in Nat
      BY DEF OptOut
    <3> HIDE DEF OptOut
    <3>3. RequestIsFresh(w)'
      BY <1>2, <3>1, <3>2 DEF RequestIsFresh
    <3> QED
      BY <3>1, <3>3, ServedFresh
  <2> QED
    BY <1>7, <2>1, <2>2, <2>3
<1> QED
  BY <1>3, <1>4, <1>5, <1>6, <1>7 DEF Begin

\* The worker has answered, and no row has changed but the tag's.
LEMMA AnswerFresh ==
    ASSUME FreshInv, Known', NEW w \in Worker, Respond(w),
           UNCHANGED <<threads, messages, history, stamp>>
    PROVE  FreshInv'
<1>1. Live' = Live /\ request'[w].op = "idle" /\ \A v \in Worker \ {w} : request'[v] = request[v]
  BY AnswerStep DEF FreshInv, Live
<1>2. \A v \in Worker : request'[v] = request[v] \/ RequestIsFresh(v)'
  BY <1>1 DEF RequestIsFresh
<1>3. \A t \in Thread : history'[t].mails \in Nat
  BY DEF FreshInv, GapsAreKnown
<1> QED
  BY <1>1, <1>2, <1>3, QuietFresh

\* A commit that writes the row of one conversation: the others stay fresh, and so
\* do the requests about them.
LEMMA SavedFresh ==
    ASSUME FreshInv, Known', NEW w \in Worker, request[w].op \in About,
           Save(request[w]), stamp' = stamp, NEW t, t = request[w].thread,
           \A v \in Worker \ {w} : request'[v] = request[v],
           \A u \in Live \ {t} : messages'[u] = messages[u],
           \A u \in Thread \ {t} : history'[u] = history[u],
           history'[t].gap \in Nat, history'[t].mails \in Nat, history'[t].opened,
           RowIsFresh(t)', RequestIsFresh(w)',
           \A v \in Worker \ {w} :
              request[v].op \in About /\ request[v].thread = t => RequestIsFresh(v)'
    PROVE  FreshInv'
<1>1. t \in Live /\ t \in Thread /\ Live' = Live /\ \A u \in Live \ {t} : threads'[u] = threads[u]
  BY SaveStep DEF FreshInv
<1>2. stamp' \in Nat /\ \A u \in Live : u \in Thread
  BY DEF FreshInv, Known, RowsAreKnown
<1>3. \A u \in Live' : RowIsFresh(u)'
  BY <1>1, <1>2, SameRow
<1>4. GapsAreKnown'
  BY <1>1 DEF FreshInv, GapsAreKnown
<1>5. ASSUME NEW v \in Worker \ {w}
      PROVE  RequestIsFresh(v)'
  <2>1. PICK u : u = request[v].thread
    OBVIOUS
  <2>2. CASE request[v].op \in About /\ u = t
    BY <2>1, <2>2
  <2>3. CASE request[v].op \in About /\ u # t
    <3>1. u \in Thread
      BY <2>1, <2>3 DEF FreshInv, Known, RequestsAreKnown, RequestIsKnown
    <3>2. history'[u] = history[u] /\ (u \in Live => threads'[u] = threads[u]
                                                     /\ messages'[u] = messages[u])
      BY <1>1, <2>3, <3>1
    <3> QED
      BY <1>1, <2>1, <2>3, <3>2, TouchedFresh
  <2>4. CASE request[v].op \notin About
    <3>1. ~Answers(v) /\ ~Writing(v, t, "finder") /\ ~Writing(v, t, "owner")
      BY <2>4 DEF Answers, Writing, About
    <3> QED
      BY <1>1, <2>4, <3>1, TouchedFresh
  <2> QED
    BY <2>2, <2>3, <2>4
<1> QED
  BY <1>2, <1>3, <1>4, <1>5 DEF FreshInv

\* What the UPDATE leaves in each column of the row.
LEMMA SavedColumns ==
    ASSUME FreshInv, NEW w \in Worker, request[w].op \in About, Save(request[w])
    PROVE  LET t == request[w].thread  e == request[w].edits IN
           /\ t \in Live /\ t \in Thread /\ Live' = Live /\ RowIsFresh(t)
           /\ threads'[t].last = IF "last" \in DOMAIN e THEN e.last ELSE threads[t].last
           /\ threads'[t].read = IF "read" \in DOMAIN e THEN e.read ELSE threads[t].read
           /\ threads'[t].quiet = IF "quiet" \in DOMAIN e THEN e.quiet ELSE threads[t].quiet
           /\ threads'[t].email = IF "email" \in DOMAIN e THEN e.email ELSE threads[t].email
<1> DEFINE t == request[w].thread
           e == request[w].edits
           new == Updated(threads[t], e)
<1>1. t \in Live /\ threads' = [threads EXCEPT ![t] = new]
  BY DEF Save
<1>2. t \in Thread /\ DOMAIN threads[t] = DOMAIN Column /\ RowIsFresh(t) /\ Live' = Live
  BY <1>1, SaveStep DEF FreshInv, Known, RowsAreKnown
<1>3. /\ new.last = IF "last" \in DOMAIN e THEN e.last ELSE threads[t].last
      /\ new.read = IF "read" \in DOMAIN e THEN e.read ELSE threads[t].read
      /\ new.quiet = IF "quiet" \in DOMAIN e THEN e.quiet ELSE threads[t].quiet
      /\ new.email = IF "email" \in DOMAIN e THEN e.email ELSE threads[t].email
  BY <1>2 DEF Updated, Column
<1>4. threads'[t] = new
  BY <1>1 DEF Live
<1> QED
  BY <1>1, <1>2, <1>3, <1>4

\* A reply: a finder's is newer than what the owner has read, an owner's lists all
\* the finder's messages that were not shown, unless the other side is at it too;
\* a mail is due only when the last one is long ago.
LEMMA ReplyFresh ==
    ASSUME FreshInv, Known', NEW w \in Worker, CommitReply(w)
    PROVE  FreshInv'
<1> DEFINE r == request[w]
<1>0. PICK t : t = r.thread
  OBVIOUS
<1>1. /\ r.op = "reply" /\ r.op \in About /\ Save(r) /\ stamp' = stamp
      /\ messages' = [messages EXCEPT ![t] = @ \cup {r.message}]
  BY <1>0 DEF CommitReply, About
<1>2. /\ t \in Live /\ t \in Thread /\ Live' = Live /\ RowIsFresh(t)
      /\ threads'[t].last = IF "last" \in DOMAIN r.edits THEN r.edits.last ELSE threads[t].last
      /\ threads'[t].read = IF "read" \in DOMAIN r.edits THEN r.edits.read ELSE threads[t].read
      /\ threads'[t].quiet = IF "quiet" \in DOMAIN r.edits THEN r.edits.quiet
                             ELSE threads[t].quiet
      /\ threads'[t].email = IF "email" \in DOMAIN r.edits THEN r.edits.email
                             ELSE threads[t].email
  BY <1>0, <1>1, SavedColumns
<1>3. /\ r.message.from \in {"finder", "owner"}
      /\ DOMAIN r.edits = IF r.message.from = "finder" THEN {"last", "left"}
                          ELSE {"last", "read", "left"}
      /\ r.message.from = "owner" => r.edits.read \subseteq 0 .. stamp
      /\ r.updates.quiet \in Nat
      /\ r.message.from = "owner" /\ r.updates.email => history[t].gap <= r.updates.quiet
      /\ r.message.from = "finder" =>
            history[t].crossed \/ \A i \in threads[t].read : i < r.edits.last
      /\ r.message.from = "owner" =>
            \/ history[t].crossed
            \/ \A m \in messages[t] :
                  m.from = "finder" => m \in history[t].shown \/ m \in r.listed
      /\ stamp \in Nat
  BY <1>0, <1>1, <1>2 DEF FreshInv, RequestIsFresh
<1>4. /\ threads'[t].quiet = threads[t].quiet /\ threads'[t].email = threads[t].email
      /\ threads'[t].last = r.edits.last
      /\ threads'[t].read = IF r.message.from = "finder" THEN threads[t].read ELSE r.edits.read
  BY SMTT(30), <1>2, <1>3
<1>5. /\ DOMAIN messages = Live /\ DOMAIN history = Thread
      /\ \A u \in Thread : DOMAIN history[u] = DOMAIN NotOpened
      /\ \A u \in Live : u \in Thread
      /\ history[t].opened /\ history[t].gap \in Nat /\ history[t].mails \in Nat
  BY <1>2 DEF FreshInv, Known, UnopenedAreBlank, RowsAreKnown, GapsAreKnown
<1>6. messages'[t] = messages[t] \cup {r.message}
      /\ \A u \in Live \ {t} : messages'[u] = messages[u]
  BY <1>1, <1>2, <1>5
<1> DEFINE late == Late(t)
           atIt == OwnerIsAtIt(w, t)
           writing == FinderIsWriting(w, t)
           names == NameShown(r.listed)
<1>7a. r.message.from = "finder" =>
         history' = [history EXCEPT ![t].late = @ + late, ![t].crossed = @ \/ atIt,
                                    ![t].named = @ \/ names]
  BY <1>0 DEF CommitReply
<1>7b. r.message.from = "owner" =>
         history' = [history EXCEPT ![t].late = @ + late, ![t].crossed = @ \/ writing,
                                    ![t].shown = @ \cup r.listed]
  BY <1>0 DEF CommitReply
<1> HIDE DEF late, atIt, writing, names
<1>7c. r.message.from = "finder" =>
         /\ \A u \in Thread \ {t} : history'[u] = history[u]
         /\ history'[t] = [history[t] EXCEPT !.late = @ + late, !.crossed = @ \/ atIt,
                                             !.named = @ \/ names]
  BY <1>2, <1>5, <1>7a
<1>7d. r.message.from = "owner" =>
         /\ \A u \in Thread \ {t} : history'[u] = history[u]
         /\ history'[t] = [history[t] EXCEPT !.late = @ + late, !.crossed = @ \/ writing,
                                             !.shown = @ \cup r.listed]
  BY <1>2, <1>5, <1>7b
<1>7e. DOMAIN history[t] = DOMAIN NotOpened
  BY <1>2, <1>5
<1>7. /\ \A u \in Thread \ {t} : history'[u] = history[u]
      /\ history'[t].gap = history[t].gap /\ history'[t].mails = history[t].mails
      /\ history'[t].opened = history[t].opened
  <2>1. CASE r.message.from = "finder"
    BY <1>7c, <1>7e, <2>1 DEF NotOpened
  <2>2. CASE r.message.from = "owner"
    BY <1>7d, <1>7e, <2>2 DEF NotOpened
  <2> QED
    BY <1>3, <2>1, <2>2
<1>8. r.message.from = "finder" =>
        /\ history'[t].shown = history[t].shown
        /\ history'[t].crossed <=> history[t].crossed \/ OwnerIsAtIt(w, t)
  BY <1>7c, <1>7e DEF NotOpened, atIt
<1>9. r.message.from = "owner" =>
        /\ history'[t].shown = history[t].shown \cup r.listed
        /\ history'[t].crossed <=> history[t].crossed \/ FinderIsWriting(w, t)
  BY <1>7d, <1>7e DEF NotOpened, writing
<1>10. \/ history'[t].crossed
       \/ \A m \in messages'[t] : m.from = "finder" /\ m \notin history'[t].shown => Unread(t)'
  <2>1. CASE r.message.from = "finder"
    <3>1. history'[t].crossed \/ threads'[t].read = NULL
          \/ \E i \in threads'[t].read : i < threads'[t].last
      BY <1>3, <1>4, <1>8, <2>1 DEF NULL
    <3> QED
      BY <3>1 DEF Unread
  <2>2. CASE r.message.from = "owner"
    BY <1>3, <1>6, <1>9, <2>2
  <2> QED
    BY <1>3, <2>1, <2>2
<1>11. RowIsFresh(t)'
  <2>1. threads'[t].read \subseteq 0 .. stamp'
    BY <1>1, <1>2, <1>3, <1>4 DEF RowIsFresh
  <2> QED
    BY <1>2, <1>4, <1>7, <1>10, <2>1 DEF RowIsFresh
<1>12. RequestIsFresh(w)' /\ \A v \in Worker \ {w} : request'[v] = request[v]
  <2>1. CASE Respond(w)
    <3>1. request'[w].op = "idle" /\ \A v \in Worker \ {w} : request'[v] = request[v]
      BY <2>1, AnswerStep DEF FreshInv
    <3> QED
      BY <3>1 DEF RequestIsFresh
  <2>2. CASE ~Respond(w)
    <3> DEFINE q == [op |-> "mail", thread |-> t, edits |-> [quiet |-> Cooldown]]
    <3>1. /\ request' = [request EXCEPT ![w] = q] /\ MailDue(r.updates)
          /\ r.message.from = "owner"
      BY <1>0, <2>2 DEF CommitReply
    <3>2. request'[w] = q /\ \A v \in Worker \ {w} : request'[v] = request[v]
      BY <3>1 DEF FreshInv, Known, RequestsAreKnown
    <3>3. history'[t].gap = 0
      BY <1>3, <1>5, <1>7, <3>1 DEF MailDue
    <3>4. q.op = "mail" /\ q.thread = t
      OBVIOUS
    <3> HIDE DEF q
    <3> QED
      BY <3>2, <3>3, <3>4 DEF RequestIsFresh
  <2> QED
    BY <2>1, <2>2
<1>13. ASSUME NEW v \in Worker \ {w}, request[v].op \in About, request[v].thread = t
       PROVE  RequestIsFresh(v)'
  <2>1. CASE r.message.from = "finder"
    <3>1. Writing(v, t, "owner") => history'[t].crossed
      BY <1>8, <2>1 DEF OwnerIsAtIt
    <3>2. threads'[t].read = threads[t].read /\ (~history'[t].crossed => ~history[t].crossed)
      BY <1>4, <1>8, <2>1
    <3> QED
      BY <1>1, <1>2, <1>7, <1>12, <1>13, <3>1, <3>2, TouchedFresh
  <2>2. CASE r.message.from = "owner"
    <3>1. Writing(v, t, "finder") => history'[t].crossed
      BY <1>9, <2>2 DEF FinderIsWriting
    <3>2. ~history'[t].crossed => ~history[t].crossed
      BY <1>9, <2>2
    <3>3. \A m \in messages'[t] :
             m.from = "finder" =>
                m \in messages[t] /\ (m \in history[t].shown => m \in history'[t].shown)
      BY <1>6, <1>9, <2>2
    <3> QED
      BY <1>1, <1>2, <1>7, <1>12, <1>13, <3>1, <3>2, <3>3, TouchedFresh
  <2> QED
    BY <1>3, <2>1, <2>2
<1>14. history'[t].gap \in Nat /\ history'[t].mails \in Nat /\ history'[t].opened
  BY <1>5, <1>7
<1> HIDE DEF r
<1> QED
  BY <1>0, <1>1, <1>6, <1>7, <1>11, <1>12, <1>13, <1>14, SavedFresh DEF r

\* Reading, opting out, closing, and noting that a mail went out.
LEMMA EditFresh ==
    ASSUME FreshInv, Known', NEW w \in Worker,
           CommitRead(w) \/ CommitStop(w) \/ CommitEdits(w)
    PROVE  FreshInv'
<1> DEFINE r == request[w]
<1>0. PICK t : t = r.thread
  OBVIOUS
<1>1. /\ r.op \in {"read", "stop", "close", "noted"} /\ r.op \in About /\ Save(r)
      /\ stamp' = stamp /\ messages' = messages /\ Respond(w)
  BY DEF CommitRead, CommitStop, CommitEdits, About
<1>2. /\ t \in Live /\ t \in Thread /\ Live' = Live /\ RowIsFresh(t)
      /\ threads'[t].last = IF "last" \in DOMAIN r.edits THEN r.edits.last ELSE threads[t].last
      /\ threads'[t].read = IF "read" \in DOMAIN r.edits THEN r.edits.read ELSE threads[t].read
      /\ threads'[t].quiet = IF "quiet" \in DOMAIN r.edits THEN r.edits.quiet
                             ELSE threads[t].quiet
      /\ threads'[t].email = IF "email" \in DOMAIN r.edits THEN r.edits.email
                             ELSE threads[t].email
  BY <1>0, <1>1, SavedColumns
<1>3. /\ DOMAIN history = Thread /\ \A u \in Thread : DOMAIN history[u] = DOMAIN NotOpened
      /\ history[t].opened /\ history[t].gap \in Nat /\ history[t].mails \in Nat
  BY <1>2 DEF FreshInv, Known, UnopenedAreBlank, RowsAreKnown, GapsAreKnown
<1>4. RequestIsFresh(w) /\ RequestIsKnown(w) /\ stamp \in Nat
  BY DEF FreshInv, Known, RequestsAreKnown
<1>5. /\ \A u \in Thread \ {t} : history'[u] = history[u]
      /\ history'[t].mails = history[t].mails /\ history'[t].opened = history[t].opened
      /\ history'[t].shown = IF r.op = "read" THEN messages[t] ELSE history[t].shown
      /\ history'[t].crossed <=> IF r.op = "read" THEN FinderIsWriting(w, t)
                                 ELSE history[t].crossed
      /\ history'[t].gap = IF r.op = "noted" /\ ~OwnerIsAnswering(w, t) THEN r.edits.quiet
                           ELSE history[t].gap
  <2>1. CASE CommitRead(w)
    BY <1>0, <1>2, <1>3, <2>1 DEF CommitRead, NotOpened
  <2>2. CASE CommitStop(w)
    BY <1>0, <1>2, <1>3, <2>2 DEF CommitStop, NotOpened
  <2>3. CASE CommitEdits(w)
    <3>1. CASE r.op = "noted" /\ ~OwnerIsAnswering(w, t)
      BY <1>0, <1>2, <1>3, <2>3, <3>1 DEF CommitEdits, NotOpened
    <3>2. CASE ~(r.op = "noted" /\ ~OwnerIsAnswering(w, t))
      <4>1. history' = history /\ r.op # "read"
        BY <1>0, <2>3, <3>2 DEF CommitEdits
      <4> QED
        BY <3>2, <4>1
    <3> QED
      BY <3>1, <3>2
  <2> QED
    BY <2>1, <2>2, <2>3
<1>6. request'[w].op = "idle" /\ \A v \in Worker \ {w} : request'[v] = request[v]
  BY <1>1, AnswerStep DEF FreshInv
<1>7. RequestIsFresh(w)'
  BY <1>6 DEF RequestIsFresh
<1>8. r.op = "noted" => r.edits.quiet \in Nat /\ history[t].gap <= r.edits.quiet
  BY <1>0, <1>4 DEF RequestIsFresh
<1>9. history'[t].gap \in Nat /\ history'[t].mails \in Nat /\ history'[t].opened
  BY <1>3, <1>5, <1>8
<1>10. RowIsFresh(t)'
  <2>1. CASE r.op = "read"
    <3>1. /\ threads'[t].read \subseteq 0 .. stamp
          /\ threads'[t].quiet = threads[t].quiet /\ threads'[t].email = threads[t].email
      BY <1>2, <1>4, <2>1 DEF RequestIsFresh
    <3> QED
      BY <1>1, <1>2, <1>5, <2>1, <3>1 DEF RowIsFresh
  <2>2. CASE r.op # "read"
    <3>1. /\ threads'[t].last = threads[t].last /\ threads'[t].read = threads[t].read
          /\ threads'[t].quiet \in Nat
      BY <1>1, <1>2, <1>4, <2>2 DEF RequestIsFresh, RowIsFresh
    <3>2. Unread(t)' <=> Unread(t)
      BY <3>1 DEF Unread
    <3>3. threads'[t].email => history'[t].gap <= threads'[t].quiet
      <4>1. CASE r.op = "stop"
        <5>1. "email" \in DOMAIN r.edits /\ ~r.edits.email
          BY <1>4, <4>1 DEF RequestIsKnown, About
        <5> QED
          BY <1>2, <5>1
      <4>2. CASE r.op = "close"
        BY <1>2, <1>4, <1>5, <4>2 DEF RequestIsFresh, RowIsFresh
      <4>3. CASE r.op = "noted"
        <5>1. threads'[t].quiet = r.edits.quiet
          BY <1>2, <1>4, <4>3 DEF RequestIsFresh
        <5> QED
          BY <1>5, <1>8, <4>3, <5>1
      <4> QED
        BY <1>1, <2>2, <4>1, <4>2, <4>3
    <3> QED
      BY <1>1, <1>2, <1>5, <2>2, <3>1, <3>2, <3>3 DEF RowIsFresh
  <2> QED
    BY <2>1, <2>2
<1>11. ASSUME NEW v \in Worker \ {w}, request[v].op \in About, request[v].thread = t
       PROVE  RequestIsFresh(v)'
  <2>1. Answers(v) => history'[t].gap = history[t].gap \/ history'[t].gap = 0
    <3>1. Answers(v) => OwnerIsAnswering(w, t)
      BY <1>11 DEF Answers, OwnerIsAnswering, Writing, Mailing
    <3> QED
      BY <1>5, <3>1
  <2>2. CASE r.op = "read"
    <3>1. Writing(v, t, "finder") => history'[t].crossed
      BY <1>5, <2>2 DEF FinderIsWriting
    <3>2. \A m \in messages'[t] : m \in history'[t].shown
      BY <1>1, <1>5, <2>2
    <3> QED
      BY <1>1, <1>2, <1>6, <1>11, <2>1, <3>1, <3>2, TouchedFresh
  <2>3. CASE r.op # "read"
    <3>1. /\ threads'[t].read = threads[t].read /\ messages'[t] = messages[t]
          /\ history'[t].shown = history[t].shown
          /\ history'[t].crossed <=> history[t].crossed
      BY <1>1, <1>2, <1>4, <1>5, <2>3 DEF RequestIsFresh
    <3> QED
      BY <1>1, <1>2, <1>6, <1>11, <2>1, <3>1, TouchedFresh
  <2> QED
    BY <2>2, <2>3
<1> HIDE DEF r
<1> QED
  BY <1>0, <1>1, <1>5, <1>6, <1>7, <1>9, <1>10, <1>11, SavedFresh DEF r

\* A conversation opens with a message that is new.
LEMMA OpenFresh ==
    ASSUME FreshInv, Known', NEW w \in Worker, CommitOpen(w)
    PROVE  FreshInv'
<1> DEFINE r == request[w]
<1>0. PICK u : u = r.thread
  OBVIOUS
<1>1. r.op = "open" /\ RequestIsKnown(w) /\ RequestIsFresh(w) /\ Respond(w) /\ stamp' = stamp
  BY DEF CommitOpen, FreshInv, Known, RequestsAreKnown
<1>2. u \in Thread /\ ~history[u].opened /\ u \notin Live
  BY <1>0, <1>1 DEF RequestIsKnown, FreshInv, Known, RowsAreKnown
<1>3. /\ Live' = Live \cup {u} /\ threads'[u] = r.row
      /\ \A t \in Live : threads'[t] = threads[t] /\ messages'[t] = messages[t]
  BY <1>0, <1>2 DEF CommitOpen, Live
<1>4. DOMAIN history = Thread /\ \A t \in Thread : DOMAIN history[t] = DOMAIN NotOpened
  BY DEF FreshInv, Known, UnopenedAreBlank
<1>5. /\ \A t \in Thread \ {u} : history'[t] = history[t]
      /\ history'[u].opened /\ history'[u].gap = history[u].gap
      /\ history'[u].mails = history[u].mails
  BY <1>0, <1>2, <1>4 DEF CommitOpen, NotOpened
<1>6. history[u].gap = 0 /\ stamp \in Nat
  BY <1>2 DEF FreshInv, GapsAreKnown
<1>7. \A t \in Live : t \in Thread /\ t # u /\ history'[t] = history[t]
  BY <1>2, <1>5 DEF FreshInv, Known, RowsAreKnown
<1>8. \A t \in Live : RowIsFresh(t)'
  BY <1>1, <1>3, <1>7, SameRow
<1>9. RowIsFresh(u)'
  <2>1. r.row.read = NULL /\ r.row.quiet \in Nat
    BY <1>1 DEF RequestIsFresh
  <2>2. Unread(u)' /\ threads'[u].read \subseteq 0 .. stamp'
    BY <1>3, <2>1 DEF Unread, NULL
  <2> QED
    BY <1>1, <1>3, <1>5, <1>6, <2>1, <2>2 DEF RowIsFresh
<1>10. GapsAreKnown'
  BY <1>2, <1>5, <1>6 DEF FreshInv, GapsAreKnown
<1>11. request'[w].op = "idle" /\ \A v \in Worker \ {w} : request'[v] = request[v]
  BY <1>1, AnswerStep DEF FreshInv
<1>12. ASSUME NEW v \in Worker \ {w}
       PROVE  RequestIsFresh(v)'
  <2>1. PICK t : t = request[v].thread
    OBVIOUS
  <2>2. RequestIsKnown(v)
    BY DEF FreshInv, Known, RequestsAreKnown
  <2>3. CASE request[v].op \in About
    <3>1. t \in Thread /\ history[t].opened
      BY <2>1, <2>2, <2>3 DEF RequestIsKnown
    <3>2. t # u /\ history'[t] = history[t] /\ (t \in Live' => t \in Live)
      BY <1>2, <1>3, <1>5, <3>1
    <3> QED
      BY <1>1, <1>3, <1>11, <2>1, <3>2, TouchedFresh
  <2>4. CASE request[v].op \notin About
    <3>1. request'[v] = request[v] /\ RequestIsFresh(v)
      BY <1>11 DEF FreshInv
    <3> QED
      BY <2>4, <3>1 DEF RequestIsFresh, About
  <2> QED
    BY <2>3, <2>4
<1>13. RequestIsFresh(w)'
  BY <1>11 DEF RequestIsFresh
<1> QED
  BY <1>1, <1>3, <1>6, <1>8, <1>9, <1>10, <1>12, <1>13 DEF FreshInv

\* A mail goes out, and is about to be noted.
LEMMA MailFresh ==
    ASSUME FreshInv, Known', NEW w \in Worker, SendMail(w)
    PROVE  FreshInv'
<1>0. PICK t : t = request[w].thread
  OBVIOUS
<1> DEFINE edits == [quiet |-> Cooldown]
           q == [op |-> "noted", thread |-> t, edits |-> edits]
<1>1. /\ request[w].op = "mail" /\ UNCHANGED <<threads, messages, stamp>>
      /\ request' = [request EXCEPT ![w] = q]
  BY <1>0 DEF SendMail
<1>2. t \in Thread /\ RequestIsFresh(w)
  BY <1>0, <1>1 DEF FreshInv, Known, RequestsAreKnown, RequestIsKnown, About
<1>3. /\ DOMAIN history = Thread /\ \A u \in Thread : DOMAIN history[u] = DOMAIN NotOpened
      /\ \A u \in Live : u \in Thread
  BY DEF FreshInv, Known, UnopenedAreBlank, RowsAreKnown
<1>4. /\ \A u \in Thread \ {t} : history'[u] = history[u]
      /\ history'[t].mails = history[t].mails + 1
      /\ history'[t].gap = history[t].gap /\ history'[t].shown = history[t].shown
      /\ history'[t].crossed = history[t].crossed
      /\ history'[t].opened = history[t].opened
  BY <1>0, <1>2, <1>3 DEF SendMail, NotOpened
<1>5. DOMAIN edits = {"quiet"} /\ edits.quiet = Cooldown /\ Cooldown \in Nat
  BY RelayAssumption
<1> HIDE DEF edits
<1>6. /\ request'[w].op = "noted" /\ request'[w].thread = t /\ request'[w].edits = edits
      /\ \A v \in Worker \ {w} : request'[v] = request[v]
  BY <1>1 DEF FreshInv, Known, RequestsAreKnown
<1>7. history'[t].gap <= edits.quiet
  BY <1>0, <1>1, <1>2, <1>4, <1>5 DEF RequestIsFresh
<1>8. RequestIsFresh(w)'
  BY <1>5, <1>6, <1>7 DEF RequestIsFresh
<1>9. \A v \in Worker : request'[v] = request[v] \/ RequestIsFresh(v)'
  BY <1>6, <1>8
<1>10. \A u \in Thread : /\ history'[u].mails \in Nat /\ history'[u].gap = history[u].gap
                         /\ history'[u].opened <=> history[u].opened
                         /\ history'[u].shown = history[u].shown
                         /\ history'[u].crossed <=> history[u].crossed
  <2>1. \A u \in Thread : history[u].mails \in Nat
    BY DEF FreshInv, GapsAreKnown
  <2>2. history'[t].mails \in Nat
    BY <1>2, <1>4, <2>1
  <2> QED
    BY <1>4, <2>1, <2>2
<1>11. Live' = Live /\ stamp' = stamp
  BY <1>1 DEF Live
<1> QED
  BY <1>1, <1>3, <1>9, <1>10, <1>11, QuietFresh

\* The finder reads; the job selects rows, and deletes them.
LEMMA OtherFresh ==
    ASSUME FreshInv, Known',
           \/ \E w \in Worker : \E t \in Live : FinderReads(w, t)
           \/ BeginPurge
           \/ CommitPurge
           \/ UNCHANGED vars
    PROVE  FreshInv'
<1>1. /\ DOMAIN history = Thread /\ \A u \in Thread : DOMAIN history[u] = DOMAIN NotOpened
      /\ \A u \in Live : u \in Thread
      /\ \A u \in Thread : history[u].mails \in Nat
  BY DEF FreshInv, Known, UnopenedAreBlank, RowsAreKnown, GapsAreKnown
<1>2. ASSUME NEW w \in Worker, NEW t \in Live, FinderReads(w, t) PROVE FreshInv'
  <2>1. UNCHANGED <<threads, messages, request, stamp>> /\ Live' = Live
    BY <1>2 DEF FinderReads, Live
  <2>2. \A u \in Thread : /\ history'[u].gap = history[u].gap
                          /\ history'[u].mails = history[u].mails
                          /\ history'[u].opened = history[u].opened
                          /\ history'[u].shown = history[u].shown
                          /\ history'[u].crossed = history[u].crossed
    BY <1>1, <1>2 DEF FinderReads, NotOpened
  <2> QED
    BY <1>1, <2>1, <2>2, QuietFresh
<1>3. CASE BeginPurge
  <2>1. UNCHANGED <<threads, messages, request, stamp, history>> /\ Live' = Live
    BY <1>3 DEF BeginPurge, Live
  <2> QED
    BY <1>1, <2>1, QuietFresh
<1>4. CASE CommitPurge
  <2>1. /\ UNCHANGED <<request, stamp>> /\ Live' = Live \ purge
        /\ \A t \in Live' : threads'[t] = threads[t] /\ messages'[t] = messages[t]
    BY <1>4 DEF CommitPurge, WithoutPurged, Live
  <2>2. \A t \in Thread : IF t \in purge
                          THEN history'[t] = [NotOpened EXCEPT !.opened = TRUE]
                          ELSE history'[t] = history[t]
    BY <1>4 DEF CommitPurge
  <2>3. \A t \in Thread : t \in purge => history'[t].gap = 0 /\ history'[t].mails = 0
    BY <2>2 DEF NotOpened
  <2> QED
    BY <1>1, <2>1, <2>2, <2>3, QuietFresh
<1>5. CASE UNCHANGED vars
  <2>1. UNCHANGED <<threads, messages, request, stamp, history>> /\ Live' = Live
    BY <1>5 DEF vars, Live
  <2> QED
    BY <1>1, <2>1, QuietFresh
<1> QED
  BY <1>2, <1>3, <1>4, <1>5

\* A rotation changes no column but one.
LEMMA RotateFresh ==
    ASSUME FreshInv, Known', NEW w \in Worker, CommitRotate(w)
    PROVE  FreshInv'
<1>1. /\ Respond(w) /\ UNCHANGED <<messages, stamp, history>>
      /\ Live' = Live
      /\ \A t \in Live : threads'[t] = IF t \in request[w].closing
                                       THEN [threads[t] EXCEPT !.closed = TRUE] ELSE threads[t]
  BY DEF CommitRotate, Live
<1>2. \A t \in Live : DOMAIN threads[t] = DOMAIN Column
  BY DEF FreshInv, Known, RowsAreKnown
<1>3. \A t \in Live : /\ threads'[t].last = threads[t].last /\ threads'[t].read = threads[t].read
                      /\ threads'[t].quiet = threads[t].quiet
                      /\ threads'[t].email = threads[t].email
  BY <1>1, <1>2 DEF Column
<1>4. request'[w].op = "idle" /\ \A v \in Worker \ {w} : request'[v] = request[v]
  BY <1>1, AnswerStep DEF FreshInv
<1>5. \A v \in Worker : request'[v] = request[v] \/ RequestIsFresh(v)'
  BY <1>4 DEF RequestIsFresh
<1>6. \A u \in Thread : history'[u].mails \in Nat
  BY <1>1 DEF FreshInv, GapsAreKnown
<1> QED
  BY <1>1, <1>3, <1>5, <1>6, QuietFresh

\* Time counts down what is about to be noted as fast as it counts the mail back.
LEMMA TickFresh ==
    ASSUME FreshInv, Known', Tick
    PROVE  FreshInv'
<1>1. /\ Live' = Live /\ UNCHANGED <<messages, stamp>>
      /\ \A t \in Live : threads'[t] = Aged(threads[t])
      /\ \A w \in Worker : request'[w] = AgedRequest(request[w])
      /\ history' = [t \in Thread |-> [history[t] EXCEPT !.gap = IF @ = 0 THEN 0 ELSE @ - 1]]
  BY DEF Tick, Live
<1>2. /\ DOMAIN history = Thread /\ \A u \in Thread : DOMAIN history[u] = DOMAIN NotOpened
      /\ \A u \in Live : u \in Thread /\ DOMAIN threads[u] = DOMAIN Column
  BY DEF FreshInv, Known, UnopenedAreBlank, RowsAreKnown
<1>3. \A t \in Thread : /\ history'[t].gap = IF history[t].gap = 0 THEN 0 ELSE history[t].gap - 1
                        /\ history'[t].shown = history[t].shown
                        /\ history'[t].crossed = history[t].crossed
                        /\ history'[t].mails = history[t].mails
                        /\ history'[t].opened = history[t].opened
  BY <1>1, <1>2 DEF NotOpened
<1>4. \A t \in Thread : history[t].gap \in Nat /\ history'[t].gap \in Nat
  BY <1>3 DEF FreshInv, GapsAreKnown
<1>5. GapsAreKnown'
  BY <1>3, <1>4 DEF FreshInv, GapsAreKnown
<1>6. \A t \in Live :
        /\ threads'[t].last = threads[t].last /\ threads'[t].read = threads[t].read
        /\ threads'[t].email = threads[t].email
        /\ threads'[t].quiet = IF threads[t].quiet = 0 THEN 0 ELSE threads[t].quiet - 1
  <2> SUFFICES ASSUME NEW t \in Live
               PROVE  /\ threads'[t].last = threads[t].last /\ threads'[t].read = threads[t].read
                      /\ threads'[t].email = threads[t].email
                      /\ threads'[t].quiet = IF threads[t].quiet = 0 THEN 0
                                             ELSE threads[t].quiet - 1
    OBVIOUS
  <2>1. threads'[t] = Aged(threads[t]) /\ {"last", "read", "email", "quiet"} \subseteq DOMAIN threads[t]
    BY <1>1, <1>2 DEF Column
  <2>2. Aged(threads[t]).quiet = IF threads[t].quiet = 0 THEN 0 ELSE threads[t].quiet - 1
    BY <2>1 DEF Aged
  <2> QED
    BY <2>1, <2>2, AgedColumns
<1>7. \A w \in Worker : /\ RequestIsKnown(w) /\ RequestIsFresh(w)
                        /\ request'[w].op = request[w].op
                        /\ request[w].op \in About => request'[w].thread = request[w].thread
  BY <1>1, AgedFields DEF FreshInv, Known, RequestsAreKnown, RequestIsKnown, About
<1>8. ASSUME NEW t \in Live PROVE RowIsFresh(t)'
  <2>1. RowIsFresh(t) /\ threads[t].quiet \in Nat /\ history[t].gap \in Nat
    BY <1>2, <1>4 DEF FreshInv, RowIsFresh
  <2>2. Unread(t)' <=> Unread(t)
    BY <1>6 DEF Unread
  <2>3. threads'[t].quiet \in Nat
        /\ (history[t].gap <= threads[t].quiet => history'[t].gap <= threads'[t].quiet)
    BY <1>2, <1>3, <1>6, <2>1
  <2> QED
    BY <1>1, <1>2, <1>3, <1>6, <2>1, <2>2, <2>3 DEF RowIsFresh
<1>9. ASSUME NEW w \in Worker PROVE RequestIsFresh(w)'
  <2> DEFINE r == request[w]
             q == request'[w]
  <2>1. q = AgedRequest(r) /\ RequestIsKnown(w) /\ RequestIsFresh(w) /\ q.op = r.op
    BY <1>1, <1>7
  <2>2. r.op = "open" => q.row.read = NULL /\ q.row.quiet \in Nat
    <3>1. CASE r.op = "open"
      <4>1. q.row = Aged(r.row) /\ DOMAIN r.row = DOMAIN Column /\ r.row.quiet \in Nat
        BY <2>1, <3>1, AgedFields DEF RequestIsKnown, RequestIsFresh
      <4>2. /\ q.row.read = r.row.read
            /\ q.row.quiet = IF r.row.quiet = 0 THEN 0 ELSE r.row.quiet - 1
        BY <4>1 DEF Aged, Column
      <4> QED
        BY <2>1, <3>1, <4>1, <4>2 DEF RequestIsFresh
    <3> QED
      BY <3>1
  <2>3. r.op \in About =>
            /\ q.thread = r.thread /\ q.edits = Aged(r.edits) /\ DOMAIN q.edits = DOMAIN r.edits
            /\ r.thread \in Thread
    BY <2>1, AgedFields, AgedColumns DEF RequestIsKnown
  <2>4. r.op = "reply" => RequestIsFresh(w)'
    <3> SUFFICES ASSUME r.op = "reply" PROVE RequestIsFresh(w)'
      OBVIOUS
    <3>1. /\ q.message = r.message /\ q.listed = r.listed /\ q.updates = Aged(r.updates)
          /\ r.op \in About
      BY <2>1, AgedFields DEF RequestIsKnown, About
    <3>2. /\ DOMAIN q.edits = DOMAIN r.edits /\ q.edits.last = r.edits.last
          /\ r.message.from = "owner" => q.edits.read = r.edits.read
      BY <2>1, <2>3, <3>1, AgedColumns DEF RequestIsFresh
    <3>3. /\ {"email", "quiet"} \subseteq DOMAIN q.updates /\ q.updates.email = r.updates.email
          /\ q.updates.quiet = IF r.updates.quiet = 0 THEN 0 ELSE r.updates.quiet - 1
          /\ r.updates.quiet \in Nat
      <4>1. {"email", "quiet"} \subseteq DOMAIN r.updates /\ r.updates.quiet \in Nat
        BY <2>1 DEF RequestIsFresh
      <4> QED
        BY <3>1, <4>1 DEF Aged
    <3>4. r.message.from = "owner" /\ r.updates.email =>
              history'[r.thread].gap <= q.updates.quiet
      <4>1. r.message.from = "owner" /\ r.updates.email =>
                history[r.thread].gap <= r.updates.quiet
        BY <2>1 DEF RequestIsFresh
      <4> QED
        BY <1>3, <1>4, <2>3, <3>1, <3>3, <4>1
    <3>5. q.updates.quiet \in Nat
      BY <3>3
    <3>6. history'[r.thread].crossed = history[r.thread].crossed
          /\ history'[r.thread].shown = history[r.thread].shown
      BY <1>3, <2>3, <3>1
    <3> HIDE DEF q
    <3>7. /\ q.op = "reply" /\ q.thread = r.thread
          /\ r.thread \in Live => threads'[r.thread].read = threads[r.thread].read
      BY <1>6, <2>1, <2>3, <3>1
    <3> QED
      BY <1>1, <2>1, <3>1, <3>2, <3>3, <3>4, <3>5, <3>6, <3>7 DEF RequestIsFresh, q
  <2>5. r.op = "read" => DOMAIN q.edits = {"read"} /\ q.edits.read \subseteq 0 .. stamp
    BY <2>1, <2>3, AgedColumns DEF RequestIsFresh, About
  <2>6. r.op = "close" => DOMAIN q.edits = {"closed"}
    BY <2>1, <2>3 DEF RequestIsFresh, About
  <2>7. r.op \in {"stop", "noted"} =>
            q.edits.quiet = IF r.edits.quiet = 0 THEN 0 ELSE r.edits.quiet - 1
    BY <2>1, <2>3 DEF RequestIsFresh, About, Aged
  <2>8. r.op = "stop" => DOMAIN q.edits = {"email", "quiet"} /\ q.edits.quiet \in Nat
    BY <2>1, <2>3, <2>7 DEF RequestIsFresh, About
  <2>9. r.op = "mail" => history'[r.thread].gap = 0
    BY <1>3, <2>1, <2>3 DEF RequestIsFresh, About
  <2>10. r.op = "noted" =>
            /\ DOMAIN q.edits = {"quiet"} /\ q.edits.quiet \in Nat
            /\ history'[r.thread].gap <= q.edits.quiet
    BY <1>3, <1>4, <2>1, <2>3, <2>7 DEF RequestIsFresh, About
  <2> HIDE DEF q
  <2>11. RequestIsFresh(w)'
    <3>1. CASE r.op = "reply"
      BY <2>4, <3>1
    <3>2. CASE r.op # "reply"
      <4>1. r.op \in {"read", "close", "stop", "mail", "noted"} => q.thread = r.thread
        BY <2>3 DEF About
      <4> QED
        BY <1>1, <2>1, <2>2, <2>5, <2>6, <2>8, <2>9, <2>10, <3>2, <4>1 DEF RequestIsFresh, q
    <3> QED
      BY <3>1, <3>2
  <2> QED
    BY <2>11
<1> QED
  BY <1>1, <1>5, <1>8, <1>9 DEF FreshInv

\* Every step keeps the rows and the requests fresh.
LEMMA NextFresh ==
    ASSUME FreshInv, [Next]_vars
    PROVE  FreshInv'
<1>1. Known'
  BY NextKeepsKnown DEF FreshInv
<1>2. ASSUME NEW w \in Worker, Begin(w) PROVE FreshInv'
  <2>1. CASE \E t \in Live : FinderReads(w, t)
    BY <1>1, <2>1, OtherFresh
  <2> QED
    BY <1>1, <1>2, <2>1, BeginFresh
<1>3. ASSUME NEW w \in Worker, Proceed(w) PROVE FreshInv'
  <2>1. CASE CommitUpdate(w) \/ MailFails(w) \/ Refuse(w)
    BY <1>1, <2>1, AnswerFresh DEF CommitUpdate, MailFails, Refuse
  <2> QED
    BY <1>1, <1>3, <2>1, OpenFresh, ReplyFresh, EditFresh, RotateFresh, MailFresh
       DEF Proceed
<1>4. ASSUME NEW w \in Worker, Crash(w) PROVE FreshInv'
  BY <1>1, <1>4, AnswerFresh DEF Crash
<1> QED
  BY <1>1, <1>2, <1>3, <1>4, OtherFresh, TickFresh DEF Next

\* Every reachable state satisfies the invariant.
LEMMA FreshInvariant == Spec => []FreshInv
  BY InitFresh, NextFresh, PTL DEF Spec

\* A message of the finder the owner was not shown leaves its conversation marked as
\* new, with any number of workers, unless the two sides were at the conversation at
\* once since the owner last read it undisturbed.
THEOREM NoMessageIsLost == Spec => []UnreadIsNeverLost
<1>1. FreshInv => UnreadIsNeverLost
  BY DEF FreshInv, RowIsFresh, UnreadIsNeverLost
<1> QED
  BY <1>1, FreshInvariant, PTL

\* A mail of an answer goes out only a cooldown after the last that was noted.
LEMMA MailsAreDue ==
    ASSUME FreshInv, [Next]_vars, NEW t \in Kept
    PROVE  history'[t].mails = history[t].mails \/ history[t].gap = 0
<1>1. t \in Live /\ t \in Live' /\ t \in Thread /\ DOMAIN history = Thread
      /\ \A u \in Thread : DOMAIN history[u] = DOMAIN NotOpened
  BY DEF Kept, Live, FreshInv, Known, RowsAreKnown, UnopenedAreBlank
<1>2. ASSUME NEW w \in Worker, SendMail(w)
      PROVE  history'[t].mails = history[t].mails \/ history[t].gap = 0
  <2>1. CASE request[w].thread = t
    BY <1>1, <1>2, <2>1 DEF SendMail, FreshInv, RequestIsFresh
  <2>2. CASE request[w].thread # t
    BY <1>1, <1>2, <2>2 DEF SendMail
  <2> QED
    BY <2>1, <2>2
<1>3. ASSUME NEW w \in Worker, Begin(w) \/ Crash(w)
      PROVE  history'[t].mails = history[t].mails
  <2>1. ASSUME NEW u \in Live, FinderReads(w, u) PROVE history'[t].mails = history[t].mails
    BY <1>1, <2>1 DEF FinderReads, NotOpened
  <2>2. CASE ~ \E u \in Live : FinderReads(w, u)
    BY <1>3, <2>2 DEF Begin, BeginUpdate, BeginRotate, BeginOpen, BeginReply, BeginRead,
                      BeginClose, BeginStop, Crash, Serve
  <2> QED
    BY <2>1, <2>2
<1>4. ASSUME NEW w \in Worker, Proceed(w), ~SendMail(w)
      PROVE  history'[t].mails = history[t].mails
  <2>1. CASE CommitOpen(w)
    BY <1>1, <2>1 DEF CommitOpen, NotOpened
  <2>2. CASE CommitReply(w)
    <3>1. CASE request[w].message.from = "finder"
      BY <1>1, <2>2, <3>1 DEF CommitReply, NotOpened
    <3>2. CASE request[w].message.from # "finder"
      BY <1>1, <2>2, <3>2 DEF CommitReply, NotOpened
    <3> QED
      BY <3>1, <3>2
  <2>3. CASE CommitRead(w)
    BY <1>1, <2>3 DEF CommitRead, NotOpened
  <2>4. CASE CommitStop(w)
    BY <1>1, <2>4 DEF CommitStop, NotOpened
  <2>5. CASE CommitUpdate(w) \/ CommitRotate(w) \/ MailFails(w) \/ Refuse(w)
    BY <2>5 DEF CommitUpdate, CommitRotate, MailFails, Refuse
  <2>6. CASE CommitEdits(w)
    BY <1>1, <2>6 DEF CommitEdits, NotOpened
  <2> QED
    BY <1>4, <2>1, <2>2, <2>3, <2>4, <2>5, <2>6 DEF Proceed
<1>5. CASE CommitPurge
  <2>1. t \notin purge
    BY <1>1, <1>5 DEF CommitPurge, Live
  <2> QED
    BY <1>1, <1>5, <2>1 DEF CommitPurge
<1>6. CASE Tick
  <2>1. history'[t] = [history[t] EXCEPT !.gap = IF @ = 0 THEN 0 ELSE @ - 1]
    BY <1>1, <1>6 DEF Tick
  <2> QED
    BY <1>1, <2>1 DEF NotOpened
<1>7. CASE BeginPurge \/ UNCHANGED vars
  BY <1>7 DEF BeginPurge, vars
<1> QED
  BY <1>2, <1>3, <1>4, <1>5, <1>6, <1>7 DEF Next

\* With any number of workers, killed at any step: once a mail is noted while no other
\* answer was under way, no mail follows within the cooldown.
THEOREM ReplyMailsStaySpaced == Spec => ReplyMailsAreSpaced
<1>1. FreshInv /\ [Next]_vars =>
        [\A t \in Kept : history'[t].mails > history[t].mails => history[t].gap = 0]_vars
  <2> SUFFICES ASSUME FreshInv, [Next]_vars, NEW t \in Kept,
                      history'[t].mails > history[t].mails
               PROVE  history[t].gap = 0
    OBVIOUS
  <2>1. CASE history'[t].mails = history[t].mails
    <3>1. history[t].mails > history[t].mails
      BY <2>1
    <3>2. history[t].mails \in Nat
      BY DEF Kept, FreshInv, Known, RowsAreKnown, GapsAreKnown, Live
    <3> QED
      BY <3>1, <3>2
  <2> QED
    BY <2>1, MailsAreDue
<1> QED
  BY <1>1, FreshInvariant, PTL DEF Spec, ReplyMailsAreSpaced

-----------------------------------------------------------------------------
(* The mails after an opt-out. *)

\* The answers under way that may yet mail the finder.
Mailers(t) ==
    {w \in Worker :
        /\ request[w].thread = t
        /\ \/ request[w].op = "mail"
           \/ /\ request[w].op = "reply" /\ request[w].message.from = "owner"
              /\ request[w].updates.email}

\* No answer begins with the address of a finder who has stopped the mails; the
\* worker that stopped them mails none.
MailsLeft ==
    \A t \in Live :
        /\ history[t].unwanted \in Nat
        /\ IF history[t].stopped
           THEN history[t].unwanted + Cardinality(Mailers(t)) < Cardinality(Worker)
           ELSE history[t].unwanted = 0

\* They are workers.
LEMMA MailersAreFew ==
    ASSUME NEW t
    PROVE  /\ IsFiniteSet(Mailers(t)) /\ Cardinality(Mailers(t)) \in Nat
           /\ IsFiniteSet(Mailers(t)') /\ Cardinality(Mailers(t)') \in Nat
           /\ Cardinality(Worker) \in Nat
           /\ \A w \in Worker : w \notin Mailers(t)' =>
                  Cardinality(Mailers(t)') + 1 <= Cardinality(Worker)
<1>1. /\ IsFiniteSet(Worker) /\ Mailers(t) \subseteq Worker /\ Mailers(t)' \subseteq Worker
      /\ Cardinality(Worker) \in Nat
  BY RelayAssumption, FS_CardinalityType DEF Mailers
<1>2. IsFiniteSet(Mailers(t)) /\ IsFiniteSet(Mailers(t)')
  BY <1>1, FS_Subset
<1>3. Cardinality(Mailers(t)) \in Nat /\ Cardinality(Mailers(t)') \in Nat
  BY <1>2, FS_CardinalityType
<1>4. ASSUME NEW w \in Worker, w \notin Mailers(t)'
      PROVE  Cardinality(Mailers(t)') + 1 <= Cardinality(Worker)
  <2>1. Mailers(t)' \subseteq Worker \ {w}
    BY <1>1, <1>4
  <2>2. IsFiniteSet(Worker \ {w}) /\ Cardinality(Worker \ {w}) = Cardinality(Worker) - 1
    BY <1>1, FS_RemoveElement
  <2>3. Cardinality(Mailers(t)') <= Cardinality(Worker \ {w})
    BY <2>1, <2>2, FS_Subset
  <2> QED
    BY <1>1, <1>3, <2>2, <2>3
<1> QED
  BY <1>1, <1>2, <1>3, <1>4

\* A step keeps the count if, for every conversation, no answer with an address is
\* added and no mail counted, or if its finder has not opted out, or if one answer
\* becomes one mail.
LEMMA MailsStep ==
    ASSUME MailsLeft,
           \A t \in Live' :
              \/ ~history'[t].stopped /\ history'[t].unwanted = 0
              \/ /\ t \in Live /\ history'[t].unwanted = history[t].unwanted
                 /\ Mailers(t)' \subseteq Mailers(t)
                 /\ \/ history'[t].stopped <=> history[t].stopped
                    \/ history'[t].stopped /\ \E w \in Worker : w \notin Mailers(t)'
              \/ /\ t \in Live /\ history'[t].unwanted = history[t].unwanted + 1
                 /\ history'[t].stopped /\ history[t].stopped
                 /\ \E w \in Mailers(t) : Mailers(t)' \subseteq Mailers(t) \ {w}
    PROVE  MailsLeft'
<1> SUFFICES ASSUME NEW t \in Live'
             PROVE  /\ history'[t].unwanted \in Nat
                    /\ IF history'[t].stopped
                       THEN history'[t].unwanted + Cardinality(Mailers(t)') < Cardinality(Worker)
                       ELSE history'[t].unwanted = 0
  BY DEF MailsLeft
<1>1. /\ IsFiniteSet(Mailers(t)) /\ Cardinality(Mailers(t)) \in Nat
      /\ IsFiniteSet(Mailers(t)') /\ Cardinality(Mailers(t)') \in Nat
      /\ Cardinality(Worker) \in Nat
  BY MailersAreFew
<1>2. t \in Live =>
        /\ history[t].unwanted \in Nat
        /\ IF history[t].stopped
           THEN history[t].unwanted + Cardinality(Mailers(t)) < Cardinality(Worker)
           ELSE history[t].unwanted = 0
  BY DEF MailsLeft
<1>3. CASE ~history'[t].stopped /\ history'[t].unwanted = 0
  BY <1>3
<1>4. CASE /\ t \in Live /\ history'[t].unwanted = history[t].unwanted
           /\ Mailers(t)' \subseteq Mailers(t)
           /\ history'[t].stopped <=> history[t].stopped
  <2>1. Cardinality(Mailers(t)') <= Cardinality(Mailers(t))
    BY <1>1, <1>4, FS_Subset
  <2> QED
    BY <1>1, <1>2, <1>4, <2>1
<1>5. CASE /\ t \in Live /\ history'[t].unwanted = history[t].unwanted
           /\ ~history[t].stopped /\ history'[t].stopped
           /\ \E w \in Worker : w \notin Mailers(t)'
  <2>1. Cardinality(Mailers(t)') + 1 <= Cardinality(Worker)
    BY <1>5, MailersAreFew
  <2> QED
    BY <1>1, <1>2, <1>5, <2>1
<1>6. CASE /\ t \in Live /\ history'[t].unwanted = history[t].unwanted + 1
           /\ history'[t].stopped /\ history[t].stopped
           /\ \E w \in Mailers(t) : Mailers(t)' \subseteq Mailers(t) \ {w}
  <2>1. PICK w \in Mailers(t) : Mailers(t)' \subseteq Mailers(t) \ {w}
    BY <1>6
  <2>2. /\ IsFiniteSet(Mailers(t) \ {w})
        /\ Cardinality(Mailers(t) \ {w}) = Cardinality(Mailers(t)) - 1
    BY <1>1, FS_RemoveElement
  <2>3. Cardinality(Mailers(t)') <= Cardinality(Mailers(t) \ {w})
    BY <2>1, <2>2, FS_Subset
  <2> QED
    BY <1>1, <1>2, <1>6, <2>2, <2>3
<1> QED
  BY <1>3, <1>4, <1>5, <1>6

\* A worker goes on to something that mails nobody.
LEMMA FewerMailers ==
    ASSUME NEW w \in Worker, \A v \in Worker \ {w} : request'[v] = request[v],
           request'[w].op \notin {"reply", "mail"}, NEW t
    PROVE  Mailers(t)' = Mailers(t) \ {w}
  BY DEF Mailers

\* Every step keeps the count.
LEMMA NextKeepsMails ==
    ASSUME FreshInv, MailsLeft, [Next]_vars
    PROVE  MailsLeft'
<1> USE DEF FreshInv
<1>1. /\ DOMAIN history = Thread /\ DOMAIN request = Worker
      /\ \A t \in Thread : DOMAIN history[t] = DOMAIN NotOpened
      /\ \A t \in Live : t \in Thread
  BY DEF Known, UnopenedAreBlank, RequestsAreKnown, RowsAreKnown
<1>2. ASSUME NEW w \in Worker, \A v \in Worker \ {w} : request'[v] = request[v],
             request'[w].op \notin {"reply", "mail"}, Live' = Live,
             \A t \in Thread : /\ history'[t].unwanted = history[t].unwanted
                               /\ \/ history'[t].stopped <=> history[t].stopped
                                  \/ history'[t].stopped
      PROVE  MailsLeft'
  <2>1. \A t \in Live : Mailers(t)' = Mailers(t) \ {w}
    BY <1>2, FewerMailers
  <2>2. \A t \in Live : Mailers(t)' \subseteq Mailers(t) /\ w \notin Mailers(t)'
    BY <2>1
  <2> QED
    BY <1>1, <1>2, <2>2, MailsStep
<1>3. ASSUME NEW w \in Worker, Respond(w)
      PROVE  /\ request'[w].op \notin {"reply", "mail"}
             /\ \A v \in Worker \ {w} : request'[v] = request[v]
  BY <1>3, AnswerStep
<1>4. ASSUME NEW w \in Worker,
             CommitUpdate(w) \/ CommitRotate(w) \/ MailFails(w) \/ Refuse(w) \/ Crash(w)
      PROVE  MailsLeft'
  <2>1. Respond(w) /\ history' = history /\ Live' = Live
    <3>1. CASE CommitRotate(w)
      BY <3>1, RotatedRows DEF CommitRotate
    <3> QED
      BY <1>4, <3>1 DEF CommitUpdate, MailFails, Refuse, Crash, Live
  <2> QED
    BY <1>2, <1>3, <2>1
<1>5. ASSUME NEW w \in Worker, CommitRead(w) \/ CommitStop(w) \/ CommitEdits(w)
      PROVE  MailsLeft'
  <2>1. request[w].op \in About /\ Save(request[w]) /\ Respond(w)
    BY <1>5 DEF CommitRead, CommitStop, CommitEdits, About
  <2>2. Live' = Live /\ request[w].thread \in Thread
    BY <2>1, SaveStep
  <2>3. \A t \in Thread : /\ history'[t].unwanted = history[t].unwanted
                          /\ \/ history'[t].stopped <=> history[t].stopped
                             \/ history'[t].stopped
    <3>1. CASE CommitRead(w)
      BY <1>1, <2>2, <3>1 DEF CommitRead, NotOpened
    <3>2. CASE CommitStop(w)
      BY <1>1, <2>2, <3>2 DEF CommitStop, NotOpened
    <3>3. CASE CommitEdits(w)
      BY <1>1, <2>2, <3>3 DEF CommitEdits, NotOpened
    <3> QED
      BY <1>5, <3>1, <3>2, <3>3
  <2> QED
    BY <1>2, <1>3, <2>1, <2>2, <2>3
<1>6. ASSUME NEW w \in Worker, CommitReply(w)
      PROVE  MailsLeft'
  <2> DEFINE r == request[w]
  <2>0. PICK u : u = r.thread
    OBVIOUS
  <2>1. r.op = "reply" /\ r.op \in About /\ Save(r)
    BY <1>6 DEF CommitReply, About
  <2>2. u \in Thread /\ Live' = Live
    BY <2>0, <2>1, SaveStep
  <2>3. \A t \in Thread : /\ history'[t].unwanted = history[t].unwanted
                          /\ history'[t].stopped <=> history[t].stopped
    <3>1. CASE r.message.from = "finder"
      BY <1>1, <1>6, <2>0, <2>2, <3>1 DEF CommitReply, NotOpened
    <3>2. CASE r.message.from # "finder"
      BY <1>1, <1>6, <2>0, <2>2, <3>2 DEF CommitReply, NotOpened
    <3> QED
      BY <3>1, <3>2
  <2>4. CASE Respond(w)
    BY <1>2, <1>3, <2>2, <2>3, <2>4
  <2>5. CASE ~Respond(w)
    <3> DEFINE q == [op |-> "mail", thread |-> u, edits |-> [quiet |-> Cooldown]]
    <3>1. /\ request' = [request EXCEPT ![w] = q]
          /\ r.message.from = "owner" /\ r.updates.email
      BY <1>6, <2>0, <2>5 DEF CommitReply, MailDue
    <3>2. /\ \A v \in Worker \ {w} : request'[v] = request[v]
          /\ request'[w].thread = u
      BY <1>1, <3>1
    <3>3. w \in Mailers(u)
      BY <2>0, <2>1, <3>1 DEF Mailers
    <3>4. \A t : Mailers(t)' \subseteq Mailers(t)
      BY <3>2, <3>3 DEF Mailers
    <3> QED
      BY <1>1, <2>2, <2>3, <3>4, MailsStep
  <2> QED
    BY <2>4, <2>5
<1>7. ASSUME NEW w \in Worker, SendMail(w)
      PROVE  MailsLeft'
  <2>0. PICK u : u = request[w].thread
    OBVIOUS
  <2>1. u \in Thread /\ Live' = Live /\ request[w].op = "mail"
    BY <1>7, <2>0 DEF SendMail, Live, Known, RequestsAreKnown, RequestIsKnown, About
  <2>2. /\ request'[w].op \notin {"reply", "mail"}
        /\ \A v \in Worker \ {w} : request'[v] = request[v]
    BY <1>1, <1>7 DEF SendMail
  <2>3. /\ \A t \in Thread \ {u} : history'[t] = history[t]
        /\ history'[u].stopped = history[u].stopped
        /\ history'[u].unwanted = IF history[u].stopped THEN history[u].unwanted + 1
                                  ELSE history[u].unwanted
    <3>1. CASE history[u].stopped
      BY <1>1, <1>7, <2>0, <2>1, <3>1 DEF SendMail, NotOpened
    <3>2. CASE ~history[u].stopped
      BY <1>1, <1>7, <2>0, <2>1, <3>2 DEF SendMail, NotOpened
    <3> QED
      BY <3>1, <3>2
  <2>4. \A t : Mailers(t)' = Mailers(t) \ {w}
    BY <2>2, FewerMailers
  <2>5. w \in Mailers(u)
    BY <2>0, <2>1 DEF Mailers
  <2> QED
    BY <1>1, <2>1, <2>3, <2>4, <2>5, MailsStep
<1>8. ASSUME NEW w \in Worker, CommitOpen(w)
      PROVE  MailsLeft'
  <2>0. PICK u : u = request[w].thread
    OBVIOUS
  <2>1. request[w].op = "open" /\ RequestIsKnown(w) /\ Respond(w)
    BY <1>8 DEF CommitOpen, Known, RequestsAreKnown
  <2>2. u \in Thread /\ ~history[u].stopped /\ history[u].unwanted = 0 /\ u \notin Live
    BY <2>0, <2>1 DEF RequestIsKnown, Known, RowsAreKnown, UnopenedAreBlank
  <2>3. Live' = Live \cup {u}
    BY <1>8, <2>0, <2>2 DEF CommitOpen, Live
  <2>4. /\ \A t \in Thread \ {u} : history'[t] = history[t]
        /\ ~history'[u].stopped /\ history'[u].unwanted = 0
    BY <1>1, <1>8, <2>0, <2>2 DEF CommitOpen, NotOpened
  <2>5. \A t : Mailers(t)' = Mailers(t) \ {w}
    BY <1>3, <2>1, FewerMailers
  <2> QED
    BY <1>1, <2>3, <2>4, <2>5, MailsStep
<1>9. ASSUME NEW w \in Worker, Begin(w)
      PROVE  MailsLeft'
  <2>1. CASE \E t \in Live : FinderReads(w, t)
    <3>1. UNCHANGED <<threads, request>> /\ Live' = Live
      BY <2>1 DEF FinderReads, Live
    <3>2. \A t \in Thread : /\ history'[t].unwanted = history[t].unwanted
                            /\ history'[t].stopped <=> history[t].stopped
      BY <1>1, <2>1 DEF FinderReads, NotOpened
    <3>3. \A t : Mailers(t)' = Mailers(t)
      BY <3>1 DEF Mailers
    <3> QED
      BY <1>1, <3>1, <3>2, <3>3, MailsStep
  <2>2. CASE \E r : r.op # "reply" /\ r.op # "mail" /\ Serve(w, r)
    <3>1. PICK r : r.op # "reply" /\ r.op # "mail" /\ Serve(w, r)
      BY <2>2
    <3>2. UNCHANGED <<threads, history>> /\ request'[w] = r
          /\ \A v \in Worker \ {w} : request'[v] = request[v]
      BY <1>1, <3>1 DEF Serve
    <3> QED
      BY <1>2, <3>1, <3>2 DEF Live
  <2>3. ASSUME NEW u \in Live, NEW from \in {"finder", "owner"}, BeginReply(w, from, u)
        PROVE  MailsLeft'
    <3>1. /\ UNCHANGED <<threads, history>> /\ Live' = Live
          /\ \A v \in Worker \ {w} : request'[v] = request[v]
          /\ request'[w].thread = u /\ request'[w].op = "reply"
          /\ request'[w].updates.email = threads[u].email
      BY <1>1, <2>3 DEF BeginReply, Serve, Live
    <3>2. history[u].stopped => ~threads[u].email
      BY DEF Known, RowsAreKnown
    <3>3. \A t \in Live : history[t].stopped => Mailers(t)' \subseteq Mailers(t)
      BY <3>1, <3>2 DEF Mailers
    <3>4. \A t \in Live : ~history[t].stopped => history[t].unwanted = 0
      BY DEF MailsLeft
    <3> QED
      BY <1>1, <3>1, <3>3, <3>4, MailsStep
  <2>4. CASE BeginUpdate(w) \/ BeginRotate(w)
    BY <2>2, <2>4 DEF BeginUpdate, BeginRotate
  <2>5. ASSUME NEW retired \in BOOLEAN, BeginOpen(w, retired)
        PROVE  MailsLeft'
    BY <2>2, <2>5 DEF BeginOpen
  <2>6. ASSUME NEW t \in Live, BeginRead(w, t) \/ BeginClose(w, t) \/ BeginStop(w, t)
        PROVE  MailsLeft'
    BY <2>2, <2>6 DEF BeginRead, BeginClose, BeginStop
  <2> QED
    BY <1>9, <2>1, <2>3, <2>4, <2>5, <2>6 DEF Begin
<1>10. CASE BeginPurge \/ UNCHANGED vars
  <2>1. UNCHANGED <<threads, request, history>> /\ Live' = Live
    BY <1>10 DEF BeginPurge, vars, Live
  <2>2. \A t : Mailers(t)' = Mailers(t)
    BY <2>1 DEF Mailers
  <2> QED
    BY <2>1, <2>2, MailsStep
<1>11. CASE CommitPurge
  <2>1. Live' = Live \ purge /\ request' = request
    BY <1>11 DEF CommitPurge, Live
  <2>2. \A t \in Thread \ purge : history'[t] = history[t]
    BY <1>11 DEF CommitPurge
  <2>3. \A t : Mailers(t)' = Mailers(t)
    BY <2>1 DEF Mailers
  <2> QED
    BY <1>1, <2>1, <2>2, <2>3, MailsStep
<1>12. CASE Tick
  <2>1. Live' = Live /\ \A w \in Worker : request'[w] = AgedRequest(request[w])
    BY <1>12 DEF Tick, Live
  <2>2. \A t \in Thread : /\ history'[t].unwanted = history[t].unwanted
                          /\ history'[t].stopped <=> history[t].stopped
    BY <1>1, <1>12 DEF Tick, NotOpened
  <2>3. ASSUME NEW t, NEW w \in Mailers(t)'
        PROVE  w \in Mailers(t)
    <3> DEFINE r == request[w]
               q == request'[w]
    <3>1. w \in Worker /\ RequestIsKnown(w) /\ RequestIsFresh(w) /\ q = AgedRequest(r)
      BY <2>1 DEF Known, RequestsAreKnown, Mailers
    <3>2. /\ "op" \in DOMAIN r /\ q.op = r.op
          /\ r.op \in About => q.thread = r.thread
      <4>1. "op" \in DOMAIN r /\ q.op = r.op
        BY <3>1, AgedFields DEF RequestIsKnown
      <4>2. r.op \in About => "thread" \in DOMAIN r
        BY <3>1 DEF RequestIsKnown
      <4> QED
        BY <3>1, <4>1, <4>2, AgedFields
    <3>3. r.op = "reply" =>
            q.message = r.message /\ q.updates = Aged(r.updates) /\ "email" \in DOMAIN r.updates
      <4>1. r.op = "reply" => {"message", "updates"} \subseteq DOMAIN r
        BY <3>1 DEF RequestIsKnown
      <4> QED
        BY <3>1, <4>1, AgedFields DEF RequestIsFresh
    <3>4. /\ q.thread = t
          /\ \/ q.op = "mail"
             \/ q.op = "reply" /\ q.message.from = "owner" /\ q.updates.email
      BY DEF Mailers
    <3>5. r.op = "reply" /\ q.updates.email => r.updates.email
      BY <3>3, AgedColumns
    <3> HIDE DEF q, r
    <3> QED
      BY <3>1, <3>2, <3>3, <3>4, <3>5 DEF Mailers, About, r
  <2>4. \A t : Mailers(t)' \subseteq Mailers(t)
    BY <2>3
  <2> QED
    BY <1>1, <2>1, <2>2, <2>4, MailsStep
<1> QED
  BY <1>4, <1>5, <1>6, <1>7, <1>8, <1>9, <1>10, <1>11, <1>12 DEF Next, Proceed

\* A finder who has stopped the mails gets no more, with any number of workers, but
\* for those of the answers that had loaded the address before.
THEOREM StoppedMailsStayFew == Spec => []StopMeansStop
<1>1. Init => MailsLeft
  BY DEF Init, MailsLeft, Live
<1>2. MailsLeft => StopMeansStop
  <2> SUFFICES ASSUME MailsLeft, NEW t \in Live
               PROVE  history[t].unwanted < Cardinality(Worker)
    BY DEF StopMeansStop
  <2>1. /\ history[t].unwanted \in Nat
        /\ IF history[t].stopped
           THEN history[t].unwanted + Cardinality(Mailers(t)) < Cardinality(Worker)
           ELSE history[t].unwanted = 0
    BY DEF MailsLeft
  <2>2. Cardinality(Worker) \in Nat /\ Cardinality(Worker) > 0
    BY RelayAssumption, FS_CardinalityType, FS_EmptySet
  <2> QED
    BY <2>1, <2>2, MailersAreFew
<1> QED
  BY <1>1, <1>2, NextKeepsMails, FreshInvariant, PTL DEF Spec

-----------------------------------------------------------------------------
(* Types *)

\* The columns of a tag that conversations depend on and its owner sets.
TagColumn == [lost |-> BOOLEAN, relay |-> BOOLEAN, disclosure |-> Disclosures]

\* What a request is about to write of the tag are values of those columns; by
\* what code it opens a conversation is known.
UpdateIsTyped(r) ==
    /\ r.op = "update" =>
        /\ DOMAIN r.edits \subseteq DOMAIN TagColumn
        /\ \A c \in DOMAIN r.edits : r.edits[c] \in TagColumn[c]
    /\ r.op = "open" => "retired" \in DOMAIN r /\ r.retired \in BOOLEAN

\* What is known of a conversation besides its row.
Entry == [opened: BOOLEAN, retired: BOOLEAN, stopped: BOOLEAN, named: BOOLEAN,
          shown: SUBSET Message, crossed: BOOLEAN, mails: Nat, unwanted: Nat,
          gap: 0 .. Cooldown, late: Nat]

TypeInv == TypeOK /\ \A w \in Worker : UpdateIsTyped(request[w])

\* A worker's new request is well-formed, and so are the others still.
LEMMA RequestsTyped ==
    ASSUME TypeInv, NEW w \in Worker, NEW r, request' = [request EXCEPT ![w] = r],
           DOMAIN tag' = DOMAIN tag, IsRequest(r), UpdateIsTyped(r)
    PROVE  /\ DOMAIN request' = Worker
           /\ \A v \in Worker : (IsRequest(request[v]) /\ UpdateIsTyped(request[v]))'
<1>1. /\ DOMAIN request = Worker
      /\ \A v \in Worker : IsRequest(request[v]) /\ UpdateIsTyped(request[v])
  BY DEF TypeInv, TypeOK
<1>2. ASSUME NEW v \in Worker
      PROVE  request'[v] = r \/ request'[v] = request[v]
  BY <1>1
<1>3. ASSUME NEW q, NEW v \in Worker, request'[v] = q, IsRequest(q), UpdateIsTyped(q)
      PROVE  (IsRequest(request[v]) /\ UpdateIsTyped(request[v]))'
  BY <1>3 DEF IsRequest, UpdateIsTyped
<1> QED
  BY <1>1, <1>2, <1>3

\* A request is begun, or ended, and nothing that is stored changes.
LEMMA ServedTyped ==
    ASSUME TypeInv, NEW w \in Worker, NEW r, request' = [request EXCEPT ![w] = r],
           UNCHANGED <<tag, threads, messages, purge, history>>, stamp' \in Nat,
           IsRequest(r), UpdateIsTyped(r)
    PROVE  TypeInv'
<1>1. /\ DOMAIN request' = Worker
      /\ \A v \in Worker : (IsRequest(request[v]) /\ UpdateIsTyped(request[v]))'
  BY RequestsTyped
<1>2. /\ tag' \in [lost: BOOLEAN, relay: BOOLEAN, disclosure: Disclosures, rotated: BOOLEAN]
      /\ DOMAIN threads' \subseteq Thread /\ \A t \in DOMAIN threads' : IsRow(threads'[t])
      /\ messages' \in [DOMAIN threads' -> SUBSET Message]
      /\ purge' \subseteq Thread
      /\ history' \in [Thread -> Entry]
  BY DEF TypeInv, TypeOK, Entry
<1> QED
  BY <1>1, <1>2 DEF TypeInv, TypeOK, Entry

\* A worker without a request.
LEMMA IdleTyped == IsRequest(Idle) /\ UpdateIsTyped(Idle)
  BY DEF IsRequest, UpdateIsTyped, Idle

\* A request that ends without anything being written.
LEMMA NothingDoneTyped ==
    ASSUME TypeInv, NEW w \in Worker, Respond(w),
           UNCHANGED <<tag, threads, messages, purge, stamp, history>>
    PROVE  TypeInv'
<1>1. stamp' \in Nat
  BY DEF TypeInv, TypeOK
<1> QED
  BY <1>1, IdleTyped, ServedTyped DEF Respond

\* The columns, one by one.
LEMMA Columns ==
    /\ DOMAIN Column = {"last", "read", "left", "closed", "email", "quiet"}
    /\ Column["last"] = Nat /\ Column["read"] = SUBSET Nat /\ Column["left"] = 0 .. Retention
    /\ Column["closed"] = BOOLEAN /\ Column["email"] = BOOLEAN /\ Column["quiet"] = 0 .. Cooldown
  BY DEF Column

\* The UPDATE of a row writes columns.
LEMMA UpdatedRow ==
    ASSUME NEW r, IsRow(r), NEW e, IsEdits(e)
    PROVE  IsRow(Updated(r, e))
  BY DEF IsRow, IsEdits, Updated

\* Time counts columns down to zero and not below.
LEMMA AgedEdits ==
    ASSUME NEW e, IsEdits(e)
    PROVE  IsEdits(Aged(e)) /\ (IsRow(e) => IsRow(Aged(e)))
<1>1. DOMAIN Aged(e) = DOMAIN e
  BY AgedColumns
<1>2. ASSUME NEW c \in DOMAIN e
      PROVE  Aged(e)[c] \in Column[c]
  <2>1. e[c] \in Column[c] /\ c \in DOMAIN Column
    BY DEF IsEdits
  <2>2. CASE c \notin {"left", "quiet"}
    BY <2>1, <2>2, AgedColumns
  <2>3. ASSUME NEW top \in Nat, e[c] \in 0 .. top, c \in {"left", "quiet"}
        PROVE  Aged(e)[c] \in 0 .. top
    <3>1. Aged(e)[c] = IF e[c] # 0 THEN e[c] - 1 ELSE e[c]
      BY <2>3 DEF Aged
    <3> QED
      BY <2>3, <3>1
  <2>4. CASE c = "left"
    BY <2>1, <2>3, <2>4, RelayAssumption DEF Column
  <2>5. CASE c = "quiet"
    BY <2>1, <2>3, <2>5, RelayAssumption DEF Column
  <2> QED
    BY <2>2, <2>4, <2>5
<1> QED
  BY <1>1, <1>2 DEF IsEdits, IsRow

\* The beginnings of the handlers.
LEMMA BeginTyped ==
    ASSUME Known, TypeInv, NEW w \in Worker, Begin(w), ~(\E t \in Live : FinderReads(w, t))
    PROVE  TypeInv'
<1>1. /\ tag \in [lost: BOOLEAN, relay: BOOLEAN, disclosure: Disclosures, rotated: BOOLEAN]
      /\ Live \subseteq Thread /\ \A t \in Live : IsRow(threads[t])
      /\ messages \in [Live -> SUBSET Message] /\ stamp \in Nat
  BY DEF TypeInv, TypeOK, Live
<1>2. CASE BeginUpdate(w)
  <2>1. PICK s \in Settings :
          LET changed == {c \in DOMAIN s : s[c] # tag[c]} IN
          Serve(w, [op |-> "update", edits |-> [c \in changed |-> s[c]]])
    BY <1>2 DEF BeginUpdate
  <2> DEFINE changed == {c \in DOMAIN s : s[c] # tag[c]}
             edits == [c \in changed |-> s[c]]
             r == [op |-> "update", edits |-> edits]
  <2>2. s \in Setting
    BY RelayAssumption
  <2>3. DOMAIN edits \subseteq DOMAIN TagColumn /\ \A c \in DOMAIN edits : edits[c] \in TagColumn[c]
    <3>1. DOMAIN s = DOMAIN TagColumn /\ \A c \in DOMAIN s : s[c] \in TagColumn[c]
      BY <2>2 DEF Setting, TagColumn
    <3> QED
      BY <3>1
  <2>4. DOMAIN TagColumn \subseteq DOMAIN tag
    BY <1>1 DEF TagColumn
  <2>5. request' = [request EXCEPT ![w] = r] /\ UNCHANGED <<tag, threads, messages, purge, history>>
    BY <2>1 DEF Serve
  <2> HIDE DEF edits
  <2>6. IsRequest(r) /\ UpdateIsTyped(r)
    BY <2>3, <2>4 DEF IsRequest, UpdateIsTyped
  <2>7. stamp' = stamp
    BY <1>2 DEF BeginUpdate
  <2> HIDE DEF r
  <2> QED
    BY <1>1, <2>5, <2>6, <2>7, ServedTyped
<1>3. CASE BeginRotate(w)
  <2> DEFINE r == [op |-> "rotate", closing |-> {t \in Live : ~threads[t].closed}]
  <2>1. /\ request' = [request EXCEPT ![w] = r] /\ UNCHANGED <<tag, threads, messages, purge, history>>
        /\ stamp' = stamp
    BY <1>3 DEF BeginRotate, Serve
  <2>2. IsRequest(r) /\ UpdateIsTyped(r)
    BY <1>1 DEF IsRequest, UpdateIsTyped
  <2> HIDE DEF r
  <2> QED
    BY <1>1, <2>1, <2>2, ServedTyped
<1>4. ASSUME NEW retired \in BOOLEAN, BeginOpen(w, retired)
      PROVE  TypeInv'
  <2>1. PICK t \in Thread, email \in Emails :
          Serve(w, [op |-> "open", thread |-> t, retired |-> retired,
                    row |-> [last |-> stamp', read |-> NULL, left |-> Retention,
                             closed |-> FALSE, email |-> email, quiet |-> 0],
                    message |-> [from |-> "finder", at |-> stamp']])
    BY <1>4 DEF BeginOpen
  <2> DEFINE row == [last |-> stamp', read |-> NULL, left |-> Retention,
                     closed |-> FALSE, email |-> email, quiet |-> 0]
             message == [from |-> "finder", at |-> stamp']
             r == [op |-> "open", thread |-> t, retired |-> retired, row |-> row,
                   message |-> message]
  <2>2. request' = [request EXCEPT ![w] = r] /\ UNCHANGED <<tag, threads, messages, purge, history>>
    BY <2>1 DEF Serve
  <2>3. stamp' \in Nat
    BY <1>1, <1>4 DEF BeginOpen
  <2>4. IsRow(row) /\ message \in Message
    <3>1. email \in BOOLEAN /\ Retention \in 0 .. Retention /\ 0 \in 0 .. Cooldown /\ {} \in SUBSET Nat
      BY RelayAssumption
    <3>2. /\ DOMAIN row = {"last", "read", "left", "closed", "email", "quiet"}
          /\ row["last"] = stamp' /\ row["read"] = {} /\ row["left"] = Retention
          /\ row["closed"] = FALSE /\ row["email"] = email /\ row["quiet"] = 0
      BY DEF NULL
    <3>3. FALSE \in BOOLEAN
      OBVIOUS
    <3>4. message \in Message
      BY <2>3 DEF Message
    <3> HIDE DEF row
    <3>5. \A c \in DOMAIN row : row[c] \in Column[c]
      BY <2>3, <3>1, <3>2, <3>3, Columns
    <3> QED
      BY <3>2, <3>4, <3>5, Columns DEF IsRow, IsEdits
  <2> HIDE DEF row, message
  <2>5. IsRequest(r) /\ UpdateIsTyped(r)
    BY <2>4 DEF IsRequest, UpdateIsTyped
  <2> HIDE DEF r
  <2> QED
    BY <2>2, <2>3, <2>5, ServedTyped
<1>5. ASSUME NEW t \in Live, NEW from \in {"finder", "owner"}, BeginReply(w, from, t)
      PROVE  TypeInv'
  <2> DEFINE edits == IF from = "owner"
                      THEN [last |-> stamp', read |-> {stamp'}, left |-> Retention]
                      ELSE [last |-> stamp', left |-> Retention]
             updates == [email |-> threads[t].email, quiet |-> threads[t].quiet]
             message == [from |-> from, at |-> stamp']
             r == [op |-> "reply", thread |-> t, message |-> message,
                   listed |-> messages[t], updates |-> updates, edits |-> edits]
  <2>1. /\ request' = [request EXCEPT ![w] = r] /\ UNCHANGED <<tag, threads, messages, purge, history>>
        /\ stamp' = stamp + 1
    BY <1>5 DEF BeginReply, Serve
  <2>2. stamp' \in Nat /\ {stamp'} \in SUBSET Nat /\ Retention \in 0 .. Retention
    BY <1>1, <2>1, RelayAssumption
  <2>3. IsEdits(edits) /\ message \in Message
    BY <2>2 DEF IsEdits, Column, Message
  <2>4. IsEdits(updates)
    <3>1. threads[t].email \in BOOLEAN /\ threads[t].quiet \in 0 .. Cooldown
      BY <1>1, Columns DEF IsRow, IsEdits
    <3>2. /\ DOMAIN updates = {"email", "quiet"}
          /\ updates["email"] \in BOOLEAN /\ updates["quiet"] \in 0 .. Cooldown
      BY <3>1
    <3> HIDE DEF updates
    <3> QED
      BY <3>1, <3>2, Columns DEF IsEdits
  <2>5. t \in Thread /\ messages[t] \subseteq Message
    BY <1>1
  <2> HIDE DEF edits, updates, message
  <2>6. IsRequest(r) /\ UpdateIsTyped(r)
    BY <2>3, <2>4, <2>5 DEF IsRequest, UpdateIsTyped
  <2> HIDE DEF r
  <2> QED
    BY <2>1, <2>2, <2>6, ServedTyped
<1>6. ASSUME NEW t \in Live, NEW op \in {"read", "close", "stop"}, NEW edits, IsEdits(edits),
             Serve(w, [op |-> op, thread |-> t, edits |-> edits]), tag' = tag, stamp' \in Nat
      PROVE  TypeInv'
  <2> DEFINE r == [op |-> op, thread |-> t, edits |-> edits]
  <2>1. request' = [request EXCEPT ![w] = r] /\ UNCHANGED <<tag, threads, messages, purge, history>>
    BY <1>6 DEF Serve
  <2>2. IsRequest(r) /\ UpdateIsTyped(r)
    BY <1>1, <1>6 DEF IsRequest, UpdateIsTyped
  <2> HIDE DEF r
  <2> QED
    BY <1>6, <2>1, <2>2, ServedTyped
<1>7. ASSUME NEW t \in Live, BeginRead(w, t)
      PROVE  TypeInv'
  <2>1. stamp' \in Nat /\ {stamp'} \in SUBSET Nat
    BY <1>1, <1>7 DEF BeginRead
  <2>2. IsEdits([read |-> {stamp'}])
    BY <2>1 DEF IsEdits, Column
  <2> QED
    BY <1>6, <1>7, <2>1, <2>2 DEF BeginRead, Serve
<1>8. ASSUME NEW t \in Live, BeginClose(w, t)
      PROVE  TypeInv'
  <2>1. IsEdits([closed |-> TRUE])
    <3> DEFINE edits == [closed |-> TRUE]
    <3>1. DOMAIN edits = {"closed"} /\ edits["closed"] \in BOOLEAN
      OBVIOUS
    <3> HIDE DEF edits
    <3>2. IsEdits(edits)
      BY <3>1, Columns DEF IsEdits
    <3> QED
      BY <3>2 DEF edits
  <2> QED
    BY <1>1, <1>6, <1>8, <2>1 DEF BeginClose, Serve
<1>9. ASSUME NEW t \in Live, BeginStop(w, t)
      PROVE  TypeInv'
  <2>1. IsEdits(OptOut)
    <3>1. DOMAIN OptOut = {"email", "quiet"} /\ OptOut["email"] = FALSE /\ OptOut["quiet"] = 0
      BY DEF OptOut
    <3>2. FALSE \in BOOLEAN /\ 0 \in 0 .. Cooldown
      BY RelayAssumption
    <3> QED
      BY <3>1, <3>2, Columns DEF IsEdits
  <2> QED
    BY <1>1, <1>6, <1>9, <2>1 DEF BeginStop, Serve
<1> QED
  BY <1>2, <1>3, <1>4, <1>5, <1>7, <1>8, <1>9 DEF Begin

\* The UPDATE of a conversation's row keeps the rows well-formed.
LEMMA SavedTyped ==
    ASSUME Known, TypeInv, NEW w \in Worker, request[w].op \in About, Save(request[w])
    PROVE  LET t == request[w].thread IN
           /\ t \in Live /\ t \in Thread /\ Live' = Live
           /\ \A u \in Live : IsRow(threads'[u])
<1>1. IsRequest(request[w]) /\ \A u \in Live : IsRow(threads[u])
  BY DEF TypeInv, TypeOK, Live
<1>2. /\ request[w].op \notin {"update", "open", "rotate"}
      /\ request[w] # Idle
  BY DEF About, Idle
<1>3. IsEdits(request[w].edits)
  BY <1>1, <1>2 DEF IsRequest, About
<1> DEFINE t == request[w].thread
           new == Updated(threads[t], request[w].edits)
<1>4. t \in Live /\ t \in Thread /\ Live' = Live
  BY SaveStep
<1>5. threads' = [threads EXCEPT ![t] = new]
  BY DEF Save
<1>6. IsRow(new)
  BY <1>1, <1>3, <1>4, UpdatedRow
<1> HIDE DEF new
<1>7. ASSUME NEW u \in Live
      PROVE  threads'[u] = new \/ threads'[u] = threads[u]
  BY <1>5 DEF Live
<1> QED
  BY <1>1, <1>4, <1>6, <1>7

\* A step of one worker, by what it changes.
LEMMA StepTyped ==
    ASSUME TypeInv, NEW w \in Worker, NEW r, request' = [request EXCEPT ![w] = r],
           IsRequest(r), UpdateIsTyped(r), tag' = tag, purge' = purge, stamp' = stamp,
           Live' = Live, \A u \in Live : IsRow(threads'[u]),
           messages' \in [Live -> SUBSET Message],
           NEW t \in Thread, NEW e \in Entry, history' = [history EXCEPT ![t] = e]
    PROVE  TypeInv'
<1>1. /\ DOMAIN request' = Worker
      /\ \A v \in Worker : (IsRequest(request[v]) /\ UpdateIsTyped(request[v]))'
  BY RequestsTyped
<1>2. /\ tag' \in [lost: BOOLEAN, relay: BOOLEAN, disclosure: Disclosures, rotated: BOOLEAN]
      /\ Live \subseteq Thread /\ purge' \subseteq Thread /\ stamp' \in Nat
      /\ history \in [Thread -> Entry]
  BY DEF TypeInv, TypeOK, Entry, Live
<1>3. history' \in [Thread -> Entry]
  BY <1>2
<1>4. DOMAIN threads' = Live
  BY DEF Live
<1> QED
  BY <1>1, <1>2, <1>3, <1>4 DEF TypeInv, TypeOK, Entry

\* What the owner sets.
LEMMA UpdateTyped ==
    ASSUME Known, TypeInv, NEW w \in Worker, CommitUpdate(w)
    PROVE  TypeInv'
<1> DEFINE e == request[w].edits
<1>1. /\ tag \in [lost: BOOLEAN, relay: BOOLEAN, disclosure: Disclosures, rotated: BOOLEAN]
      /\ DOMAIN e \subseteq DOMAIN TagColumn /\ \A c \in DOMAIN e : e[c] \in TagColumn[c]
  BY DEF TypeInv, TypeOK, UpdateIsTyped, CommitUpdate
<1>2. /\ tag' = Updated(tag, e) /\ request' = [request EXCEPT ![w] = Idle]
      /\ UNCHANGED <<threads, messages, purge, stamp, history>>
  BY DEF CommitUpdate, Respond
<1>3. tag' \in [lost: BOOLEAN, relay: BOOLEAN, disclosure: Disclosures, rotated: BOOLEAN]
  <2> HIDE DEF e
  <2>1. /\ tag' = [c \in {"lost", "relay", "disclosure", "rotated"} |->
                        IF c \in DOMAIN e THEN e[c] ELSE tag[c]]
    BY <1>1, <1>2 DEF Updated
  <2>2. /\ "lost" \in DOMAIN e => e["lost"] \in BOOLEAN
        /\ "relay" \in DOMAIN e => e["relay"] \in BOOLEAN
        /\ "disclosure" \in DOMAIN e => e["disclosure"] \in Disclosures
        /\ "rotated" \notin DOMAIN e
    BY <1>1 DEF TagColumn
  <2>3. /\ tag'["lost"] \in BOOLEAN /\ tag'["relay"] \in BOOLEAN
        /\ tag'["disclosure"] \in Disclosures /\ tag'["rotated"] \in BOOLEAN
    BY <1>1, <2>1, <2>2
  <2> QED
    BY <2>1, <2>3
<1>4. DOMAIN tag' = DOMAIN tag
  BY <1>1, <1>3
<1>5. /\ DOMAIN request' = Worker
      /\ \A v \in Worker : (IsRequest(request[v]) /\ UpdateIsTyped(request[v]))'
  BY <1>2, <1>4, IdleTyped, RequestsTyped
<1>6. /\ DOMAIN threads' \subseteq Thread /\ \A t \in DOMAIN threads' : IsRow(threads'[t])
      /\ messages' \in [DOMAIN threads' -> SUBSET Message]
      /\ purge' \subseteq Thread /\ stamp' \in Nat
      /\ history' \in [Thread -> Entry]
  BY <1>2 DEF TypeInv, TypeOK, Entry
<1> QED
  BY <1>3, <1>5, <1>6 DEF TypeInv, TypeOK, Entry

\* A conversation is opened.
LEMMA OpenTyped ==
    ASSUME Known, TypeInv, NEW w \in Worker, CommitOpen(w)
    PROVE  TypeInv'
<1> DEFINE r == request[w]
           u == r.thread
<1>1. r.op = "open" /\ r # Idle
  BY DEF CommitOpen, Idle
<1>2. u \in Thread /\ IsRow(r.row) /\ r.message \in Message
  <2>1. IsRequest(r)
    BY DEF TypeInv, TypeOK
  <2> QED
    BY <1>1, <2>1 DEF IsRequest
<1>3. /\ threads' = [t \in Live \cup {u} |-> IF t = u THEN r.row ELSE threads[t]]
      /\ messages' = [t \in Live \cup {u} |-> IF t = u THEN {r.message} ELSE messages[t]]
      /\ history' = [history EXCEPT ![u].opened = TRUE, ![u].retired = r.retired]
      /\ request' = [request EXCEPT ![w] = Idle]
      /\ UNCHANGED <<tag, purge, stamp>>
  BY DEF CommitOpen, Respond
<1>4. /\ tag \in [lost: BOOLEAN, relay: BOOLEAN, disclosure: Disclosures, rotated: BOOLEAN]
      /\ Live \subseteq Thread /\ purge \subseteq Thread /\ stamp \in Nat
      /\ \A t \in Live : IsRow(threads[t])
      /\ messages \in [Live -> SUBSET Message] /\ history \in [Thread -> Entry]
  BY DEF TypeInv, TypeOK, Entry, Live
<1>5. r.retired \in BOOLEAN
  BY <1>1 DEF TypeInv, UpdateIsTyped
<1> DEFINE e == [history[u] EXCEPT !.opened = TRUE, !.retired = r.retired]
<1>6. e \in Entry
  <2> DEFINE h == history[u]
             retired == r.retired
  <2>1. h \in Entry /\ retired \in BOOLEAN
    BY <1>2, <1>4, <1>5
  <2> HIDE DEF h, retired
  <2>2. [h EXCEPT !.opened = TRUE, !.retired = retired] \in Entry
    BY <2>1 DEF Entry
  <2> QED
    BY <2>2 DEF h, retired
<1>7. history' = [history EXCEPT ![u] = e]
  BY <1>2, <1>3, <1>4
<1> HIDE DEF e
<1>8. history' \in [Thread -> Entry]
  BY <1>2, <1>4, <1>6, <1>7
<1>9. DOMAIN threads' = Live \cup {u} /\ \A t \in Live \cup {u} : IsRow(threads'[t])
  <2>1. ASSUME NEW t \in Live \cup {u}
        PROVE  threads'[t] = r.row \/ (t \in Live /\ threads'[t] = threads[t])
    BY <1>3
  <2> QED
    BY <1>2, <1>3, <1>4, <2>1
<1>10. messages' \in [Live \cup {u} -> SUBSET Message]
  BY <1>2, <1>3, <1>4
<1>11. /\ DOMAIN request' = Worker
       /\ \A v \in Worker : (IsRequest(request[v]) /\ UpdateIsTyped(request[v]))'
  BY <1>3, IdleTyped, RequestsTyped
<1> QED
  BY <1>2, <1>3, <1>4, <1>8, <1>9, <1>10, <1>11 DEF TypeInv, TypeOK, Entry

\* A request about a conversation that was opened writes columns, and what is
\* kept of the conversation is well-formed.
LEMMA AboutTyped ==
    ASSUME Known, TypeInv, NEW w \in Worker, request[w].op \in About
    PROVE  /\ request[w].thread \in Thread /\ history[request[w].thread] \in Entry
           /\ request[w].op = "reply" =>
                /\ IsEdits(request[w].updates) /\ request[w].message \in Message
                /\ request[w].listed \subseteq Message
<1>1. IsRequest(request[w]) /\ request[w] # Idle
  BY DEF TypeInv, TypeOK, About, Idle
<1>2. request[w].thread \in Thread
  BY DEF Known, RequestsAreKnown, RequestIsKnown
<1>3. history[request[w].thread] \in Entry
  BY <1>2 DEF TypeInv, TypeOK, Entry
<1> QED
  BY <1>1, <1>2, <1>3 DEF IsRequest

\* What is kept of a conversation, but for what a step adds to it.
LEMMA EntryTyped ==
    ASSUME NEW h \in Entry, NEW listed \in SUBSET Message, NEW crossed \in BOOLEAN,
           NEW unwanted \in Nat, NEW gap \in 0 .. Cooldown
    PROVE  /\ [h EXCEPT !.mails = h.mails + 1, !.unwanted = unwanted] \in Entry
           /\ [h EXCEPT !.shown = listed, !.crossed = crossed] \in Entry
           /\ [h EXCEPT !.gap = gap] \in Entry
           /\ [h EXCEPT !.stopped = TRUE, !.named = h.named \/ NameShown(listed)] \in Entry
           /\ [h EXCEPT !.named = h.named \/ NameShown(listed)] \in Entry
<1> DEFINE named == h.named \/ NameShown(listed)
<1>1. h.mails + 1 \in Nat /\ named \in BOOLEAN
  BY DEF Entry
<1> HIDE DEF named
<1>2. [h EXCEPT !.mails = h.mails + 1, !.unwanted = unwanted] \in Entry
  BY <1>1 DEF Entry
<1>3. /\ [h EXCEPT !.shown = listed, !.crossed = crossed] \in Entry
      /\ [h EXCEPT !.named = named] \in Entry /\ [h EXCEPT !.gap = gap] \in Entry
  BY <1>1 DEF Entry
<1>4. [h EXCEPT !.stopped = TRUE, !.named = named] \in Entry
  BY <1>1 DEF Entry
<1> QED
  BY <1>2, <1>3, <1>4 DEF named

\* The same of a reply.
LEMMA RepliedTyped ==
    ASSUME NEW h \in Entry, NEW n \in Nat, NEW crossed \in BOOLEAN, NEW named \in BOOLEAN,
           NEW listed \in SUBSET Message
    PROVE  /\ [h EXCEPT !.late = h.late + n, !.crossed = h.crossed \/ crossed,
                        !.named = h.named \/ named] \in Entry
           /\ [h EXCEPT !.late = h.late + n, !.crossed = h.crossed \/ crossed,
                        !.shown = h.shown \cup listed] \in Entry
<1> DEFINE c == h.crossed \/ crossed
           m == h.named \/ named
<1>1. h.late + n \in Nat /\ h.shown \cup listed \in SUBSET Message /\ c \in BOOLEAN /\ m \in BOOLEAN
  BY DEF Entry
<1> HIDE DEF c, m
<1>2. [h EXCEPT !.late = h.late + n, !.crossed = c, !.named = m] \in Entry
  BY <1>1 DEF Entry
<1>3. [h EXCEPT !.late = h.late + n, !.crossed = c, !.shown = h.shown \cup listed] \in Entry
  BY <1>1 DEF Entry
<1> QED
  BY <1>2, <1>3 DEF c, m

\* The request that goes on after a reply, to mail and to note that it did.
LEMMA MailingTyped ==
    ASSUME NEW t \in Thread, NEW op \in {"mail", "noted"}
    PROVE  LET r == [op |-> op, thread |-> t, edits |-> [quiet |-> Cooldown]] IN
           IsRequest(r) /\ UpdateIsTyped(r)
<1> DEFINE edits == [quiet |-> Cooldown]
<1>1. DOMAIN edits = {"quiet"} /\ edits["quiet"] \in 0 .. Cooldown
  BY RelayAssumption
<1> HIDE DEF edits
<1>2. IsEdits(edits)
  BY <1>1, Columns DEF IsEdits
<1>3. IsRequest([op |-> op, thread |-> t, edits |-> edits])
  BY <1>2 DEF IsRequest
<1> QED
  BY <1>3 DEF edits, UpdateIsTyped

\* A reply.
LEMMA ReplyTyped ==
    ASSUME Known, TypeInv, NEW w \in Worker, CommitReply(w)
    PROVE  TypeInv'
<1> DEFINE r == request[w]
           t == r.thread
           h == history[t]
<1>1. /\ r.op = "reply" /\ r.op \in About /\ Save(r) /\ UNCHANGED <<tag, purge, stamp>>
      /\ messages' = [messages EXCEPT ![t] = @ \cup {r.message}]
  BY DEF CommitReply, About
<1>2. t \in Live /\ t \in Thread /\ Live' = Live /\ \A u \in Live : IsRow(threads'[u])
  BY <1>1, SavedTyped
<1>3. h \in Entry /\ r.message \in Message /\ r.listed \in SUBSET Message
  BY <1>1, AboutTyped
<1>4. messages' \in [Live -> SUBSET Message]
  <2>1. messages \in [Live -> SUBSET Message]
    BY DEF TypeInv, TypeOK, Live
  <2>2. messages[t] \cup {r.message} \in SUBSET Message
    BY <1>2, <1>3, <2>1
  <2> QED
    BY <1>1, <1>2, <2>1, <2>2
<1>5. history \in [Thread -> Entry]
  BY DEF TypeInv, TypeOK, Entry
<1>6. Late(t) \in Nat
  BY DEF Late
<1> DEFINE late == Late(t)
           atIt == OwnerIsAtIt(w, t)
           writing == FinderIsWriting(w, t)
           names == NameShown(r.listed)
<1>6a. late \in Nat /\ {atIt, writing, names} \subseteq BOOLEAN
  BY <1>6 DEF OwnerIsAtIt, FinderIsWriting, NameShown
<1>6b. r.message.from = "finder" =>
         history' = [history EXCEPT ![t].late = @ + late, ![t].crossed = @ \/ atIt,
                                    ![t].named = @ \/ names]
  BY DEF CommitReply
<1>6c. r.message.from # "finder" =>
         history' = [history EXCEPT ![t].late = @ + late, ![t].crossed = @ \/ writing,
                                    ![t].shown = @ \cup r.listed]
  BY DEF CommitReply
<1> HIDE DEF late, atIt, writing, names
<1>7. \E e \in Entry : history' = [history EXCEPT ![t] = e]
  <2> DEFINE f == [h EXCEPT !.late = h.late + late, !.crossed = h.crossed \/ atIt,
                            !.named = h.named \/ names]
             o == [h EXCEPT !.late = h.late + late, !.crossed = h.crossed \/ writing,
                            !.shown = h.shown \cup r.listed]
  <2>1. f \in Entry /\ o \in Entry
    BY <1>3, <1>6a, RepliedTyped
  <2>2. r.message.from = "finder" => history' = [history EXCEPT ![t] = f]
    BY <1>2, <1>3, <1>5, <1>6b DEF Entry
  <2>3. r.message.from # "finder" => history' = [history EXCEPT ![t] = o]
    BY <1>2, <1>3, <1>5, <1>6c DEF Entry
  <2> HIDE DEF f, o
  <2> QED
    BY <2>1, <2>2, <2>3
<1>8. PICK q : request' = [request EXCEPT ![w] = q] /\ IsRequest(q) /\ UpdateIsTyped(q)
  <2>1. CASE Respond(w)
    BY <2>1, IdleTyped DEF Respond
  <2>2. CASE ~Respond(w)
    BY <1>2, <2>2, MailingTyped DEF CommitReply
  <2> QED
    BY <2>1, <2>2
<1> HIDE DEF r, t, h
<1> QED
  BY <1>1, <1>2, <1>4, <1>7, <1>8, StepTyped

\* The mail, and the finder's reading: only the history grows.
LEMMA HistoryTyped ==
    ASSUME Known, TypeInv, NEW w \in Worker,
           SendMail(w) \/ \E t \in Live : FinderReads(w, t)
    PROVE  TypeInv'
<1>1. /\ history \in [Thread -> Entry] /\ messages \in [Live -> SUBSET Message]
      /\ \A t \in Live : IsRow(threads[t])
      /\ Live \subseteq Thread
  BY DEF TypeInv, TypeOK, Entry, Live
<1>2. CASE SendMail(w)
  <2> DEFINE t == request[w].thread
             more == IF history[t].stopped THEN history[t].unwanted + 1 ELSE history[t].unwanted
             e == [history[t] EXCEPT !.mails = history[t].mails + 1, !.unwanted = more]
             q == [op |-> "noted", thread |-> t, edits |-> [quiet |-> Cooldown]]
  <2>1. t \in Thread /\ history[t] \in Entry
    BY <1>2, AboutTyped DEF SendMail, About
  <2>2. e \in Entry
    <3>1. more \in Nat
      BY <2>1 DEF Entry
    <3>2. 0 \in 0 .. Cooldown /\ {} \in SUBSET Message
      BY RelayAssumption
    <3> HIDE DEF more
    <3> QED
      BY <2>1, <3>1, <3>2, EntryTyped
  <2>3. history' = [history EXCEPT ![t] = e]
    <3>1. history' = [history EXCEPT ![t].mails = @ + 1,
                                     ![t].unwanted = IF history[t].stopped THEN @ + 1 ELSE @]
      BY <1>2 DEF SendMail
    <3>2. CASE history[t].stopped
      BY <1>1, <2>1, <3>1, <3>2 DEF Entry
    <3>3. CASE ~history[t].stopped
      BY <1>1, <2>1, <3>1, <3>3 DEF Entry
    <3> QED
      BY <3>2, <3>3
  <2>4. IsRequest(q) /\ UpdateIsTyped(q)
    BY <2>1, MailingTyped
  <2>5. request' = [request EXCEPT ![w] = q] /\ UNCHANGED <<tag, threads, messages, purge, stamp>>
    BY <1>2 DEF SendMail
  <2> HIDE DEF t, e, q
  <2> QED
    BY <1>1, <2>1, <2>2, <2>3, <2>4, <2>5, StepTyped DEF Live
<1>3. ASSUME NEW t \in Live, FinderReads(w, t)
      PROVE  TypeInv'
  <2> DEFINE e == [history[t] EXCEPT !.named = history[t].named \/ NameShown(messages[t])]
  <2>1. t \in Thread /\ history[t] \in Entry /\ messages[t] \in SUBSET Message
    BY <1>1
  <2>2. e \in Entry
    <3>1. 0 \in 0 .. Cooldown /\ 0 \in Nat /\ TRUE \in BOOLEAN
      BY RelayAssumption
    <3> QED
      BY <2>1, <3>1, EntryTyped
  <2>3. history' = [history EXCEPT ![t] = e]
    BY <1>1, <1>3, <2>1 DEF FinderReads
  <2>4. UNCHANGED <<tag, threads, messages, request, purge, stamp>>
    BY <1>3 DEF FinderReads
  <2>5. history' \in [Thread -> Entry]
    BY <1>1, <2>1, <2>2, <2>3
  <2> QED
    BY <2>4, <2>5 DEF TypeInv, TypeOK, Entry, IsRequest, UpdateIsTyped
<1> QED
  BY <1>2, <1>3

\* The commits that write one row.
LEMMA EditsTyped ==
    ASSUME FreshInv, TypeInv, NEW w \in Worker, CommitRead(w) \/ CommitStop(w) \/ CommitEdits(w)
    PROVE  TypeInv'
<1> USE DEF FreshInv
<1> DEFINE t == request[w].thread
           h == history[t]
<1>1. /\ request[w].op \in About /\ Save(request[w]) /\ request' = [request EXCEPT ![w] = Idle]
      /\ UNCHANGED <<tag, messages, purge, stamp>>
  BY DEF CommitRead, CommitStop, CommitEdits, About, Respond
<1>2. t \in Live /\ t \in Thread /\ Live' = Live /\ \A u \in Live : IsRow(threads'[u])
  BY <1>1, SavedTyped
<1>3. h \in Entry
  BY <1>1, AboutTyped
<1>4. history \in [Thread -> Entry] /\ messages \in [Live -> SUBSET Message]
  BY DEF TypeInv, TypeOK, Entry, Live
<1>5. messages[t] \in SUBSET Message
  BY <1>2, <1>4
<1> DEFINE writing == FinderIsWriting(w, t)
           gap == request[w].edits.quiet
           r == [h EXCEPT !.shown = messages[t], !.crossed = writing]
           s == [h EXCEPT !.stopped = TRUE, !.named = h.named \/ NameShown(messages[t])]
           n == [h EXCEPT !.gap = gap]
<1>6. request[w].op = "noted" => request[w].edits.quiet \in 0 .. Cooldown
  <2> SUFFICES ASSUME request[w].op = "noted"
               PROVE  request[w].edits.quiet \in 0 .. Cooldown
    OBVIOUS
  <2>1. IsRequest(request[w]) /\ DOMAIN request[w].edits = {"quiet"}
    BY DEF TypeInv, TypeOK, RequestIsFresh
  <2>2. IsEdits(request[w].edits)
    BY <2>1 DEF IsRequest, Idle
  <2> QED
    BY <2>1, <2>2, Columns DEF IsEdits
<1>7. ASSUME CommitRead(w)
      PROVE  \E e \in Entry : history' = [history EXCEPT ![t] = e]
  <2>1. history' = [history EXCEPT ![t].shown = messages[t], ![t].crossed = writing]
    BY <1>7 DEF CommitRead
  <2>2. writing \in BOOLEAN /\ 0 \in 0 .. Cooldown /\ 0 \in Nat
    BY RelayAssumption DEF FinderIsWriting
  <2> HIDE DEF writing
  <2>3. r \in Entry
    BY <1>3, <1>5, <2>2, EntryTyped
  <2>4. history' = [history EXCEPT ![t] = r]
    BY <1>2, <1>4, <2>1
  <2> QED
    BY <2>3, <2>4
<1>8. ASSUME CommitStop(w)
      PROVE  \E e \in Entry : history' = [history EXCEPT ![t] = e]
  <2>1. TRUE \in BOOLEAN /\ 0 \in 0 .. Cooldown /\ 0 \in Nat
    BY RelayAssumption
  <2>2. s \in Entry
    BY <1>3, <1>5, <2>1, EntryTyped
  <2>3. history' = [history EXCEPT ![t] = s]
    BY <1>2, <1>4, <1>8 DEF CommitStop
  <2> HIDE DEF s
  <2> QED
    BY <2>2, <2>3
<1>9. ASSUME CommitEdits(w)
      PROVE  \E e \in Entry : history' = [history EXCEPT ![t] = e]
  <2>1. CASE history' = history
    <3>1. history' = [history EXCEPT ![t] = h]
      BY <1>2, <1>4, <2>1
    <3> QED
      BY <1>3, <3>1
  <2>2. CASE history' # history
    <3>1. request[w].op = "noted" /\ history' = [history EXCEPT ![t].gap = gap]
      BY <1>9, <2>2 DEF CommitEdits
    <3>2. gap \in 0 .. Cooldown /\ TRUE \in BOOLEAN /\ 0 \in Nat
      BY <1>6, <3>1
    <3> HIDE DEF gap
    <3>3. n \in Entry
      BY <1>3, <1>5, <3>2, EntryTyped
    <3>4. history' = [history EXCEPT ![t] = n]
      BY <1>2, <1>4, <3>1
    <3> QED
      BY <3>3, <3>4
  <2> QED
    BY <2>1, <2>2
<1> HIDE DEF t, h, r, s, n, writing, gap
<1>10. PICK e \in Entry : history' = [history EXCEPT ![t] = e]
  BY <1>7, <1>8, <1>9
<1> QED
  BY <1>1, <1>2, <1>4, <1>10, IdleTyped, StepTyped

\* The conversations a rotation closes.
LEMMA RotateTyped ==
    ASSUME Known, TypeInv, NEW w \in Worker, CommitRotate(w)
    PROVE  TypeInv'
<1>1. /\ tag \in [lost: BOOLEAN, relay: BOOLEAN, disclosure: Disclosures, rotated: BOOLEAN]
      /\ Live \subseteq Thread /\ \A t \in Live : IsRow(threads[t])
  BY DEF TypeInv, TypeOK, Live
<1>2. /\ tag' = [tag EXCEPT !.rotated = TRUE] /\ request' = [request EXCEPT ![w] = Idle]
      /\ threads' = [t \in Live |-> IF t \in request[w].closing
                                    THEN [threads[t] EXCEPT !.closed = TRUE] ELSE threads[t]]
      /\ UNCHANGED <<messages, purge, stamp, history>>
  BY DEF CommitRotate, Respond
<1>3. /\ tag' \in [lost: BOOLEAN, relay: BOOLEAN, disclosure: Disclosures, rotated: BOOLEAN]
      /\ DOMAIN tag' = DOMAIN tag
  BY <1>1, <1>2
<1>4. ASSUME NEW t \in Live
      PROVE  IsRow(threads'[t])
  <2> DEFINE shut == [threads[t] EXCEPT !.closed = TRUE]
  <2>1. IsRow(threads[t])
    BY <1>1
  <2>2. /\ DOMAIN shut = DOMAIN Column /\ shut["closed"] \in BOOLEAN
        /\ \A c \in DOMAIN shut : c # "closed" => shut[c] = threads[t][c]
    BY <2>1, Columns DEF IsRow
  <2> HIDE DEF shut
  <2>3. IsRow(shut)
    BY <2>1, <2>2, Columns DEF IsRow, IsEdits
  <2> QED
    BY <1>2, <2>1, <2>3 DEF shut
<1>5. DOMAIN threads' = Live
  BY <1>2
<1>6. /\ DOMAIN request' = Worker
      /\ \A v \in Worker : (IsRequest(request[v]) /\ UpdateIsTyped(request[v]))'
  BY <1>2, <1>3, IdleTyped, RequestsTyped
<1> QED
  BY <1>1, <1>2, <1>3, <1>4, <1>5, <1>6 DEF TypeInv, TypeOK, Entry, Live

\* The two statements of the purge.
LEMMA PurgeTyped ==
    ASSUME Known, TypeInv, BeginPurge \/ CommitPurge
    PROVE  TypeInv'
<1>1. /\ Live \subseteq Thread /\ \A t \in Live : IsRow(threads[t])
      /\ messages \in [Live -> SUBSET Message] /\ history \in [Thread -> Entry]
      /\ purge \subseteq Thread
  BY DEF TypeInv, TypeOK, Entry, Live
<1>2. CASE BeginPurge
  <2>1. purge' \subseteq Thread /\ UNCHANGED <<tag, threads, messages, request, stamp, history>>
    BY <1>1, <1>2 DEF BeginPurge, Due
  <2> QED
    BY <2>1 DEF TypeInv, TypeOK, IsRequest, UpdateIsTyped
<1>3. CASE CommitPurge
  <2> DEFINE gone == [NotOpened EXCEPT !.opened = TRUE]
  <2>1. /\ threads' = [t \in Live \ purge |-> threads[t]]
        /\ messages' = [t \in Live \ purge |-> messages[t]] /\ purge' = {}
        /\ history' = [t \in Thread |-> IF t \in purge THEN gone ELSE history[t]]
        /\ UNCHANGED <<tag, request, stamp>>
    BY <1>3 DEF CommitPurge, WithoutPurged
  <2>2. gone \in Entry
    <3>1. 0 \in 0 .. Cooldown /\ {} \in SUBSET Message /\ 0 \in Nat
      BY RelayAssumption
    <3> QED
      BY <3>1 DEF NotOpened, Entry
  <2> HIDE DEF gone
  <2>3. history' \in [Thread -> Entry]
    BY <1>1, <2>1, <2>2
  <2>4. /\ DOMAIN threads' = Live \ purge /\ messages' \in [Live \ purge -> SUBSET Message]
        /\ \A t \in Live \ purge : IsRow(threads'[t])
    <3>1. \A t \in Live \ purge : threads'[t] = threads[t]
      BY <2>1
    <3> QED
      BY <1>1, <2>1, <3>1
  <2>5. \A v \in Worker : (IsRequest(request[v]) /\ UpdateIsTyped(request[v]))'
    BY <2>1 DEF TypeInv, TypeOK, IsRequest, UpdateIsTyped
  <2> QED
    BY <1>1, <2>1, <2>3, <2>4, <2>5 DEF TypeInv, TypeOK, Entry
<1> QED
  BY <1>2, <1>3

\* Time, in what the requests are about to write.
LEMMA AgedRequestTyped ==
    ASSUME Known, TypeInv, NEW w \in Worker
    PROVE  IsRequest(AgedRequest(request[w])) /\ UpdateIsTyped(AgedRequest(request[w]))
<1> DEFINE r == request[w]
           q == AgedRequest(r)
<1>1. IsRequest(r) /\ UpdateIsTyped(r) /\ RequestIsKnown(w)
  BY DEF TypeInv, TypeOK, Known, RequestsAreKnown
<1>2. /\ "op" \in DOMAIN r /\ DOMAIN q = DOMAIN r /\ q.op = r.op
      /\ \A f \in DOMAIN r : f \notin {"row", "edits", "updates"} => q[f] = r[f]
      /\ \A f \in DOMAIN r : f \in {"row", "edits", "updates"} => q[f] = Aged(r[f])
  BY <1>1, AgedFields DEF RequestIsKnown
<1>3. CASE r = Idle
  <2>1. q = Idle
    BY <1>3 DEF AgedRequest, Idle
  <2> QED
    BY <2>1, IdleTyped
<1>4. CASE r.op = "update"
  <2>1. "edits" \in DOMAIN r /\ r # Idle
    BY <1>1, <1>4 DEF RequestIsKnown, Idle
  <2>2. q.edits = Aged(r.edits)
    BY <1>2, <2>1
  <2>3. /\ DOMAIN r.edits \subseteq DOMAIN TagColumn
        /\ \A c \in DOMAIN r.edits : r.edits[c] \in TagColumn[c]
        /\ DOMAIN r.edits \subseteq DOMAIN tag
    BY <1>1, <1>4, <2>1 DEF UpdateIsTyped, IsRequest, About
  <2>4. DOMAIN TagColumn = {"lost", "relay", "disclosure"}
    BY DEF TagColumn
  <2>5. DOMAIN q.edits = DOMAIN r.edits /\ \A c \in DOMAIN r.edits : q.edits[c] = r.edits[c]
    BY <2>2, <2>3, <2>4, AgedColumns
  <2> HIDE DEF q, r
  <2>9. IsRequest(q) /\ UpdateIsTyped(q)
    BY <1>2, <1>4, <2>3, <2>5 DEF IsRequest, UpdateIsTyped
  <2> QED
    BY <2>9 DEF q, r
<1>5. CASE r.op = "open"
  <2>1. {"thread", "row", "message", "retired"} \subseteq DOMAIN r /\ r # Idle
    BY <1>1, <1>5 DEF RequestIsKnown, UpdateIsTyped, Idle
  <2>2. /\ q.thread = r.thread /\ q.message = r.message /\ q.retired = r.retired
        /\ q.row = Aged(r.row)
    BY <1>2, <2>1
  <2>3. r.thread \in Thread /\ IsRow(r.row) /\ r.message \in Message /\ r.retired \in BOOLEAN
    BY <1>1, <1>5, <2>1 DEF IsRequest, UpdateIsTyped
  <2>4. IsRow(q.row)
    BY <2>2, <2>3, AgedEdits DEF IsRow
  <2> HIDE DEF q, r
  <2>9. IsRequest(q) /\ UpdateIsTyped(q)
    BY <1>2, <1>5, <2>1, <2>2, <2>3, <2>4 DEF IsRequest, UpdateIsTyped
  <2> QED
    BY <2>9 DEF q, r
<1>6. CASE r.op \in About
  <2>1. {"thread", "edits"} \subseteq DOMAIN r /\ r # Idle
        /\ (r.op = "reply" => {"message", "listed", "updates"} \subseteq DOMAIN r)
    BY <1>1, <1>6 DEF RequestIsKnown, Idle, About
  <2>2. /\ q.thread = r.thread /\ q.edits = Aged(r.edits)
        /\ r.op = "reply" => q.message = r.message /\ q.listed = r.listed /\ q.updates = Aged(r.updates)
    BY <1>2, <2>1
  <2>3. /\ r.thread \in Thread /\ IsEdits(r.edits)
        /\ r.op = "reply" => IsEdits(r.updates) /\ r.message \in Message /\ r.listed \subseteq Message
    BY <1>1, <1>6, <2>1 DEF IsRequest, About
  <2>4. IsEdits(q.edits) /\ (r.op = "reply" => IsEdits(q.updates))
    BY <2>2, <2>3, AgedEdits
  <2> HIDE DEF q, r
  <2>9. IsRequest(q) /\ UpdateIsTyped(q)
    BY <1>2, <1>6, <2>2, <2>3, <2>4 DEF IsRequest, UpdateIsTyped, About
  <2> QED
    BY <2>9 DEF q, r
<1>7. CASE r.op = "rotate"
  <2>1. "closing" \in DOMAIN r /\ r # Idle
    BY <1>1, <1>7 DEF RequestIsKnown, Idle
  <2>2. q.closing = r.closing
    BY <1>2, <2>1
  <2>3. r.closing \subseteq Thread
    BY <1>1, <1>7, <2>1 DEF IsRequest
  <2> HIDE DEF q, r
  <2>9. IsRequest(q) /\ UpdateIsTyped(q)
    BY <1>2, <1>7, <2>2, <2>3 DEF IsRequest, UpdateIsTyped
  <2> QED
    BY <2>9 DEF q, r
<1>8. r = Idle \/ r.op \in {"update", "open", "rotate"} \/ r.op \in About
  BY <1>1 DEF IsRequest, About
<1> QED
  BY <1>3, <1>4, <1>5, <1>6, <1>7, <1>8

\* The passage of time.
LEMMA TickTyped ==
    ASSUME Known, TypeInv, Tick
    PROVE  TypeInv'
<1>1. /\ Live \subseteq Thread /\ \A t \in Live : IsRow(threads[t])
      /\ messages \in [Live -> SUBSET Message] /\ history \in [Thread -> Entry]
  BY DEF TypeInv, TypeOK, Entry, Live
<1>2. /\ threads' = [t \in Live |-> Aged(threads[t])]
      /\ request' = [w \in Worker |-> AgedRequest(request[w])]
      /\ UNCHANGED <<tag, messages, purge, stamp>>
  BY DEF Tick
<1>3. DOMAIN threads' = Live /\ \A t \in Live : IsRow(threads'[t])
  BY <1>1, <1>2, AgedEdits DEF IsRow
<1>4. history' \in [Thread -> Entry]
  <2> DEFINE gap(t) == IF history[t].gap = 0 THEN 0 ELSE history[t].gap - 1
  <2>1. history' = [t \in Thread |-> [history[t] EXCEPT !.gap = gap(t)]]
    BY DEF Tick
  <2>2. ASSUME NEW t \in Thread
        PROVE  history[t] \in Entry /\ gap(t) \in 0 .. Cooldown
    BY <1>1, RelayAssumption DEF Entry
  <2> HIDE DEF gap
  <2>3. ASSUME NEW t \in Thread
        PROVE  [history[t] EXCEPT !.gap = gap(t)] \in Entry
    BY <2>2 DEF Entry
  <2> QED
    BY <2>1, <2>3
<1>5. ASSUME NEW w \in Worker
      PROVE  (IsRequest(request[w]) /\ UpdateIsTyped(request[w]))'
  <2>1. request'[w] = AgedRequest(request[w]) /\ tag' = tag
    BY <1>2
  <2> DEFINE q == AgedRequest(request[w])
  <2>2. IsRequest(q) /\ UpdateIsTyped(q)
    BY AgedRequestTyped
  <2> HIDE DEF q
  <2>3. request'[w] = q
    BY <2>1 DEF q
  <2> QED
    BY <2>1, <2>2, <2>3 DEF IsRequest, UpdateIsTyped
<1>6. DOMAIN request' = Worker
  BY <1>2
<1> QED
  BY <1>1, <1>2, <1>3, <1>4, <1>5, <1>6 DEF TypeInv, TypeOK, Entry

\* Every step keeps the types.
LEMMA NextTyped == FreshInv /\ TypeInv /\ [Next]_vars => TypeInv'
<1> SUFFICES ASSUME FreshInv, TypeInv, [Next]_vars
             PROVE  TypeInv'
  OBVIOUS
<1>0. Known
  BY DEF FreshInv
<1>1. ASSUME NEW w \in Worker, Begin(w)
      PROVE  TypeInv'
  BY <1>0, <1>1, BeginTyped, HistoryTyped
<1>2. ASSUME NEW w \in Worker, Proceed(w)
      PROVE  TypeInv'
  <2>1. CASE MailFails(w) \/ Refuse(w)
    BY <1>0, <2>1, NothingDoneTyped DEF MailFails, Refuse
  <2> QED
    BY <1>0, <1>2, <2>1, UpdateTyped, OpenTyped, ReplyTyped, EditsTyped, RotateTyped, HistoryTyped
       DEF Proceed
<1>3. ASSUME NEW w \in Worker, Crash(w)
      PROVE  TypeInv'
  BY <1>0, <1>3, NothingDoneTyped DEF Crash
<1>4. CASE UNCHANGED vars
  BY <1>4 DEF vars, TypeInv, TypeOK, IsRequest, UpdateIsTyped
<1> QED
  BY <1>0, <1>1, <1>2, <1>3, <1>4, PurgeTyped, TickTyped DEF Next

\* Rows, requests and the history of every conversation stay well-formed: a
\* deadline or a cooldown never runs below zero or beyond what it was set to, and
\* no request holds a column that its table does not have.
THEOREM RelayIsTyped == Spec => []TypeOK
<1>1. Init => TypeInv
  <2>1. Init => TypeOK
    <3>1. 0 \in 0 .. Cooldown /\ {} \in SUBSET Message /\ 0 \in Nat
      BY RelayAssumption
    <3> QED
      BY <3>1 DEF Init, TypeOK, IsRequest, NotOpened, Disclosures
  <2>2. Init => \A w \in Worker : UpdateIsTyped(request[w])
    BY IdleTyped DEF Init
  <2> QED
    BY <2>1, <2>2 DEF TypeInv
<1>2. TypeInv => TypeOK
  BY DEF TypeInv
<1> QED
  BY <1>1, <1>2, NextTyped, FreshInvariant, PTL DEF Spec

=============================================================================
