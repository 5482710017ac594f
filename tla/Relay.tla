------------------------------- MODULE Relay --------------------------------
(***************************************************************************)
(* The masked conversations about one tag: send_message of api/scan.py,    *)
(* the handlers of api/relay.py, the reply mail of                         *)
(* services/notifications.py, the part of rotate_token and update_tag of   *)
(* api/tags.py that conversations depend on, and the purge of              *)
(* services/retention.py.                                                  *)
(*                                                                         *)
(* A finder opens a conversation with a code of the tag and may leave an   *)
(* email address; finder and owner then reply to each other until the      *)
(* owner closes it, it is full, or it expires.  A handler loads what it    *)
(* needs in a Begin action and commits in a later one; an owner's reply    *)
(* then mails the finder and commits a second time.  The purge job is a    *)
(* process of its own, with a step between its SELECT and its DELETE.      *)
(*                                                                         *)
(* Columns that hold a deadline are counted down instead of being compared *)
(* with a clock: the time left to expires_at, and the time left of the     *)
(* mail cooldown that finder_notified_at started (0 for NULL).  Columns    *)
(* that are only compared with each other hold instants, one per utcnow(). *)
(***************************************************************************)
EXTENDS Naturals, FiniteSets, Orm

CONSTANTS
    Worker,       \* gunicorn workers
    Thread,       \* ids of conversations (uuid4: never reused; finitely many: a bound)
    MaxMessages,  \* MAX_MESSAGES_PER_THREAD
    Retention,    \* relay_retention_days
    Cooldown,     \* relay_notify_cooldown_minutes
    Settings,     \* bound: what the owner sets the tag to
    Emails,       \* bound: whether finders leave an address
    Crashes,      \* whether workers are killed in the middle of a request
    LastRead,     \* bound: the last instant at which the owner reads
    LastCrash     \* bound: the last instant at which a worker is killed

Disclosures == {"always", "on_reply", "never"}

Setting == [lost: BOOLEAN, relay: BOOLEAN, disclosure: Disclosures]

ASSUME RelayAssumption ==
    /\ IsFiniteSet(Worker) /\ Worker # {}
    /\ {MaxMessages, Retention, Cooldown, LastRead, LastCrash} \subseteq Nat
    /\ MaxMessages > 0 /\ Retention > 1 /\ Cooldown > 0
    /\ Settings \subseteq Setting
    /\ Emails \subseteq BOOLEAN
    /\ Crashes \in BOOLEAN

VARIABLES
    tag,       \* the row of the tag: lost, relay (reveal_message_relay),
               \* disclosure, and whether its code has ever been rotated
    threads,   \* table relay_threads: the rows of the live ids
    messages,  \* table relay_messages: the messages of each live thread
    request,   \* the request each worker is serving
    purge,     \* the ids the purge job has selected and not yet deleted
    stamp,     \* the last instant utcnow() returned
    history    \* history: what became of each conversation so far

vars == <<tag, threads, messages, request, purge, stamp, history>>

NULL == {}   \* a nullable instant is the set of the instants it names

Message == [from: {"finder", "owner"}, at: Nat]

\* The columns of relay_threads: last_message_at, owner_read_at, expires_at,
\* closed_at, finder_email_enc (with finder_token_enc), finder_notified_at.
Column == [last |-> Nat, read |-> SUBSET Nat, left |-> 0 .. Retention,
           closed |-> BOOLEAN, email |-> BOOLEAN, quiet |-> 0 .. Cooldown]

IsEdits(e) == DOMAIN e \subseteq DOMAIN Column /\ \A c \in DOMAIN e : e[c] \in Column[c]

IsRow(r) == DOMAIN r = DOMAIN Column /\ IsEdits(r)

Idle == [op |-> "idle"]

\* What is known of a conversation besides its row: by what code it was opened,
\* whether the finder opted out of mail or was shown the owner's name, the
\* messages the owner was shown, whether one side was writing while the other was
\* at the conversation (since the owner last read it undisturbed), the reply mails,
\* those after the opt-out, the time left of the cooldown of the last that was noted
\* undisturbed, and the messages added after it was closed.
NotOpened == [opened |-> FALSE, retired |-> FALSE, stopped |-> FALSE, named |-> FALSE,
              shown |-> {}, crossed |-> FALSE, mails |-> 0, unwanted |-> 0, gap |-> 0, late |-> 0]

IsRequest(r) ==
    \/ r = Idle
    \/ r.op = "update" /\ DOMAIN r.edits \subseteq DOMAIN tag
    \/ r.op = "open" /\ r.thread \in Thread /\ IsRow(r.row) /\ r.message \in Message
    \/ /\ r.op = "reply" /\ r.thread \in Thread /\ IsEdits(r.edits) /\ IsEdits(r.updates)
       /\ r.message \in Message /\ r.listed \subseteq Message
    \/ r.op \in {"read", "close", "stop", "mail", "noted"} /\ r.thread \in Thread /\ IsEdits(r.edits)
    \/ r.op = "rotate" /\ r.closing \subseteq Thread

TypeOK ==
    /\ tag \in [lost: BOOLEAN, relay: BOOLEAN, disclosure: Disclosures, rotated: BOOLEAN]
    /\ DOMAIN threads \subseteq Thread /\ \A t \in DOMAIN threads : IsRow(threads[t])
    /\ messages \in [DOMAIN threads -> SUBSET Message]
    /\ DOMAIN request = Worker /\ \A w \in Worker : IsRequest(request[w])
    /\ purge \subseteq Thread
    /\ stamp \in Nat
    /\ history \in [Thread -> [opened: BOOLEAN, retired: BOOLEAN, stopped: BOOLEAN, named: BOOLEAN,
                               shown: SUBSET Message, crossed: BOOLEAN, mails: Nat,
                               unwanted: Nat, gap: 0 .. Cooldown, late: Nat]]

-----------------------------------------------------------------------------
(* What the handlers compute *)

Live == DOMAIN threads

Expired(t) == threads[t].left = 0

\* (Mutants: one message too many; closed ones go on; only the first message is
\* ever new; the name goes to whoever asks; no cooldown.)
MayReplyFull(t) ==
    ~threads[t].closed /\ ~Expired(t) /\ Cardinality(messages[t]) <= MaxMessages
MayReplyClosed(t) == ~Expired(t) /\ Cardinality(messages[t]) < MaxMessages
UnreadOnce(t) == threads[t].read = NULL
NameShownToAll(listed) == tag.disclosure # "never"
MailDueAlways(updates) == updates.email

\* _guard_open and _guard_length (the finder's lookup refuses an expired one too).
MayReply(t) ==
    ~threads[t].closed /\ ~Expired(t) /\ Cardinality(messages[t]) < MaxMessages

\* list_threads.
Unread(t) == threads[t].read = NULL \/ \E r \in threads[t].read : r < threads[t].last

\* _owner_name_for_finder, of the messages the handler has loaded.
NameShown(listed) ==
    \/ tag.disclosure = "always"
    \/ tag.disclosure = "on_reply" /\ \E m \in listed : m.from = "owner"

\* notify_finder_reply, of the columns the handler has loaded.
MailDue(updates) == updates.email /\ updates.quiet = 0

\* The passage of one unit of time, for the columns that are counted down.
Aged(columns) ==
    [c \in DOMAIN columns |->
        IF c \in {"left", "quiet"} /\ columns[c] # 0 THEN columns[c] - 1 ELSE columns[c]]

AgedRequest(r) ==
    [f \in DOMAIN r |-> IF f \in {"row", "edits", "updates"} THEN Aged(r[f]) ELSE r[f]]

-----------------------------------------------------------------------------
(* The handlers *)

Init ==
    /\ tag = [lost |-> FALSE, relay |-> TRUE, disclosure |-> "on_reply", rotated |-> FALSE]
    /\ threads = [t \in {} |-> {}]
    /\ messages = [t \in {} |-> {}]
    /\ request = [w \in Worker |-> Idle]
    /\ purge = {}
    /\ stamp = 0
    /\ history = [t \in Thread |-> NotOpened]

Serve(w, r) ==
    /\ request[w] = Idle
    /\ request' = [request EXCEPT ![w] = r]
    /\ UNCHANGED <<tag, threads, messages, purge, history>>

Respond(w) == request' = [request EXCEPT ![w] = Idle]

\* The UPDATE of a commit; one of a row that has gone is refused (see Refuse).
Save(r) ==
    /\ r.thread \in Live
    /\ threads' = [threads EXCEPT ![r.thread] = Updated(@, r.edits)]

\* update_tag, of the columns conversations depend on.
BeginUpdate(w) ==
    /\ \E s \in Settings :
         LET changed == {c \in DOMAIN s : s[c] # tag[c]} IN
         changed # {} /\ Serve(w, [op |-> "update", edits |-> [c \in changed |-> s[c]]])
    /\ UNCHANGED stamp

CommitUpdate(w) ==
    /\ request[w].op = "update"
    /\ tag' = Updated(tag, request[w].edits)
    /\ Respond(w)
    /\ UNCHANGED <<threads, messages, purge, stamp, history>>

\* send_message, with the current code or with a retired one.
AsksForContact == tag.lost /\ tag.relay

BeginOpen(w, retired) ==
    /\ AsksForContact
    /\ retired => tag.rotated
    /\ stamp' = stamp + 1
    /\ \E t \in Thread, email \in Emails :
         /\ ~history[t].opened
         /\ \A v \in Worker : request[v].op = "open" => request[v].thread # t
         /\ Serve(w, [op |-> "open", thread |-> t, retired |-> retired,
                      row |-> [last |-> stamp', read |-> NULL, left |-> Retention,
                               closed |-> FALSE, email |-> email, quiet |-> 0],
                      message |-> [from |-> "finder", at |-> stamp']])

\* (The mails that follow, to the owner and to the finder, change nothing.)
CommitOpen(w) ==
    LET r == request[w]
        With(table, entry) == [t \in Live \cup {r.thread} |-> IF t = r.thread THEN entry ELSE table[t]]
    IN
    /\ r.op = "open"
    /\ threads' = With(threads, r.row)
    /\ messages' = With(messages, {r.message})
    /\ history' = [history EXCEPT ![r.thread].opened = TRUE, ![r.thread].retired = r.retired]
    /\ Respond(w)
    /\ UNCHANGED <<tag, purge, stamp>>

\* reply_as_owner and reply_as_finder: both guards look at what was loaded.
BeginReply(w, from, t) ==
    /\ MayReply(t)
    /\ stamp' = stamp + 1
    /\ Serve(w, [op |-> "reply", thread |-> t, message |-> [from |-> from, at |-> stamp'],
                 listed |-> messages[t],
                 updates |-> [email |-> threads[t].email, quiet |-> threads[t].quiet],
                 edits |-> IF from = "owner"
                           THEN [last |-> stamp', read |-> {stamp'}, left |-> Retention]
                           ELSE [last |-> stamp', left |-> Retention]])

\* Another worker is at a reply of the finder, at a reply of the owner (or its
\* mail), or at the owner's reading of the conversation.
Writing(v, t, from) ==
    request[v].op = "reply" /\ request[v].thread = t /\ request[v].message.from = from
Mailing(v, t) == request[v].op \in {"mail", "noted"} /\ request[v].thread = t
Reading(v, t) == request[v].op = "read" /\ request[v].thread = t

FinderIsWriting(w, t) == \E v \in Worker \ {w} : Writing(v, t, "finder")
OwnerIsAtIt(w, t) == \E v \in Worker \ {w} : Writing(v, t, "owner") \/ Reading(v, t)
OwnerIsAnswering(w, t) == \E v \in Worker \ {w} : Writing(v, t, "owner") \/ Mailing(v, t)

Late(t) == IF threads[t].closed THEN 1 ELSE 0

\* The response lists the messages as _guard_length loaded them.  Before an
\* owner's reply is answered, the finder is mailed if the loaded row says so.
CommitReply(w) ==
    LET r == request[w]
        t == r.thread
    IN
    /\ r.op = "reply"
    /\ Save(r)
    /\ messages' = [messages EXCEPT ![t] = @ \cup {r.message}]
    /\ IF r.message.from = "finder"
       THEN history' = [history EXCEPT ![t].late = @ + Late(t),
                                       ![t].crossed = @ \/ OwnerIsAtIt(w, t),
                                       ![t].named = @ \/ NameShown(r.listed)]
       ELSE history' = [history EXCEPT ![t].late = @ + Late(t),
                                       ![t].crossed = @ \/ FinderIsWriting(w, t),
                                       ![t].shown = @ \cup r.listed]
    /\ IF r.message.from = "owner" /\ MailDue(r.updates)
       THEN request' = [request EXCEPT ![w] =
                           [op |-> "mail", thread |-> t, edits |-> [quiet |-> Cooldown]]]
       ELSE Respond(w)
    /\ UNCHANGED <<tag, purge, stamp>>

\* The mail goes out, and the worker goes on to note it in finder_notified_at ...
SendMail(w) ==
    LET t == request[w].thread IN
    /\ request[w].op = "mail"
    /\ history' = [history EXCEPT ![t].mails = @ + 1,
                                  ![t].unwanted = IF history[t].stopped THEN @ + 1 ELSE @]
    /\ request' = [request EXCEPT ![w] =
                      [op |-> "noted", thread |-> t, edits |-> [quiet |-> Cooldown]]]
    /\ UNCHANGED <<tag, threads, messages, purge, stamp>>

\* ... or the provider refuses it, which deliver() reports as "not sent".
MailFails(w) ==
    /\ request[w].op = "mail"
    /\ Respond(w)
    /\ UNCHANGED <<tag, threads, messages, purge, stamp, history>>

\* read_thread: the owner opens the conversation.
BeginRead(w, t) ==
    /\ stamp < LastRead
    /\ stamp' = stamp + 1
    /\ Serve(w, [op |-> "read", thread |-> t, edits |-> [read |-> {stamp'}]])

BeginClose(w, t) ==
    /\ Serve(w, [op |-> "close", thread |-> t, edits |-> [closed |-> TRUE]])
    /\ UNCHANGED stamp

\* (Mutant: only the cooldown is reset.)
OptOutOfNothing == [quiet |-> 0]

\* stop_finder_email.
OptOut == [email |-> FALSE, quiet |-> 0]

BeginStop(w, t) ==
    /\ ~Expired(t)
    /\ Serve(w, [op |-> "stop", thread |-> t, edits |-> OptOut])
    /\ UNCHANGED stamp

\* The messages of the response are loaded after the commit, as they are then.
CommitRead(w) ==
    LET r == request[w] IN
    /\ r.op = "read"
    /\ Save(r)
    /\ history' = [history EXCEPT ![r.thread].shown = messages[r.thread],
                                  ![r.thread].crossed = FinderIsWriting(w, r.thread)]
    /\ Respond(w)
    /\ UNCHANGED <<tag, messages, purge, stamp>>

CommitStop(w) ==
    LET r == request[w] IN
    /\ r.op = "stop"
    /\ Save(r)
    /\ history' = [history EXCEPT ![r.thread].stopped = TRUE,
                                  ![r.thread].named = @ \/ NameShown(messages[r.thread])]
    /\ Respond(w)
    /\ UNCHANGED <<tag, messages, purge, stamp>>

\* close_thread, and the second commit of an owner's reply.
CommitEdits(w) ==
    LET r == request[w] IN
    /\ r.op \in {"close", "noted"}
    /\ Save(r)
    /\ history' = IF r.op = "noted" /\ ~OwnerIsAnswering(w, r.thread)
                  THEN [history EXCEPT ![r.thread].gap = r.edits.quiet] ELSE history
    /\ Respond(w)
    /\ UNCHANGED <<tag, messages, purge, stamp>>

\* read_relay: the finder opens the conversation; nothing is written.
FinderReads(w, t) ==
    /\ request[w] = Idle
    /\ ~Expired(t)
    /\ history' = [history EXCEPT ![t].named = @ \/ NameShown(messages[t])]
    /\ UNCHANGED <<tag, threads, messages, request, purge, stamp>>

\* rotate_token closes the conversations it finds open.
BeginRotate(w) ==
    /\ Serve(w, [op |-> "rotate", closing |-> {t \in Live : ~threads[t].closed}])
    /\ UNCHANGED stamp

CommitRotate(w) ==
    LET r == request[w] IN
    /\ r.op = "rotate" /\ r.closing \subseteq Live
    /\ tag' = [tag EXCEPT !.rotated = TRUE]
    /\ threads' = [t \in Live |-> IF t \in r.closing THEN [threads[t] EXCEPT !.closed = TRUE]
                                  ELSE threads[t]]
    /\ Respond(w)
    /\ UNCHANGED <<messages, purge, stamp, history>>

\* The thread has been purged since it was loaded: the commit is refused.
Refuse(w) ==
    LET r == request[w] IN
    /\ \/ r.op \in {"reply", "read", "close", "stop", "noted"} /\ r.thread \notin Live
       \/ r.op = "rotate" /\ ~ r.closing \subseteq Live
    /\ Respond(w)
    /\ UNCHANGED <<tag, threads, messages, purge, stamp, history>>

\* A worker is killed: its transaction rolls back, a mail it sent stays sent.
Crash(w) ==
    /\ Crashes /\ request[w] # Idle /\ stamp <= LastCrash
    /\ Respond(w)
    /\ UNCHANGED <<tag, threads, messages, purge, stamp, history>>

-----------------------------------------------------------------------------
(* The purge job: SELECT the expired ids, then DELETE the rows of those ids
   and their messages, whatever has become of them. *)

\* (A mutant: closed conversations are kept.)
DueIfOpen == {t \in Live : Expired(t) /\ ~threads[t].closed}

Due == {t \in Live : Expired(t)}

BeginPurge ==
    /\ purge = {}
    /\ purge' = Due
    /\ UNCHANGED <<tag, threads, messages, request, stamp, history>>

WithoutPurged(table) == [t \in Live \ purge |-> table[t]]

CommitPurge ==
    /\ purge # {}
    /\ purge' = {}
    /\ threads' = [t \in Live \ purge |-> threads[t]]
    /\ messages' = WithoutPurged(messages)
    /\ history' = [t \in Thread |->
                      IF t \in purge THEN [NotOpened EXCEPT !.opened = TRUE] ELSE history[t]]
    /\ UNCHANGED <<tag, request, stamp>>

\* No request outlasts the retention time (gunicorn kills it long before).
Tick ==
    /\ \A w \in Worker :
         /\ request[w].op = "open" => request[w].row.left > 1
         /\ request[w].op = "reply" => request[w].edits.left > 1
    /\ threads' = [t \in Live |-> Aged(threads[t])]
    /\ request' = [w \in Worker |-> AgedRequest(request[w])]
    /\ history' = [t \in Thread |-> [history[t] EXCEPT !.gap = IF @ = 0 THEN 0 ELSE @ - 1]]
    /\ UNCHANGED <<tag, messages, purge, stamp>>

\* A worker gets on with the request it is serving.
Proceed(w) ==
    \/ CommitUpdate(w) \/ CommitOpen(w) \/ CommitReply(w) \/ CommitRead(w) \/ CommitStop(w)
    \/ CommitEdits(w) \/ CommitRotate(w)
    \/ SendMail(w) \/ MailFails(w)
    \/ Refuse(w)

Begin(w) ==
    \/ BeginUpdate(w) \/ BeginRotate(w)
    \/ \E retired \in BOOLEAN : BeginOpen(w, retired)
    \/ \E t \in Live :
         \/ \E from \in {"finder", "owner"} : BeginReply(w, from, t)
         \/ BeginRead(w, t) \/ BeginClose(w, t) \/ BeginStop(w, t) \/ FinderReads(w, t)

Next ==
    \/ \E w \in Worker : Begin(w) \/ Proceed(w) \/ Crash(w)
    \/ BeginPurge \/ CommitPurge \/ Tick

Spec == Init /\ [][Next]_vars

\* Time passes, requests are finished (gunicorn's timeout kills one that is
\* not), and the operator runs the purge job again and again.
FairSpec ==
    /\ Spec
    /\ WF_vars(Tick) /\ WF_vars(BeginPurge) /\ WF_vars(CommitPurge)
    /\ \A w \in Worker : WF_vars(Proceed(w))

-----------------------------------------------------------------------------
(* Properties *)

Kept == DOMAIN threads \cap DOMAIN threads'

\* "Up to 50 messages per conversation" (docs/index.html:426, _guard_length of
\* relay.py), counted without a lock: exceeded by fewer messages than there are
\* workers.
MessageLimit ==
    \A t \in Live : Cardinality(messages[t]) < MaxMessages + Cardinality(Worker)

\* A conversation is closed by its owner, or by a rotation "so a stranger holding
\* the previous tag cannot keep messaging" (tags.py:288-289): what is still added
\* was being sent just then, one message at most for every worker but one.
LateMessagesAreFew ==
    \A t \in Live : history[t].late < Cardinality(Worker)

\* A finder's message the owner has not been shown leaves its conversation
\* marked as new: no read and no reply of the owner hides it (relay.py:68-71).
\* Instants are taken before commits, so one that is being sent while the owner
\* reads or answers may be hidden, but only until the owner next opens the
\* conversation and the finder is not at it.
UnreadIsNeverLost ==
    \A t \in Live : \A m \in messages[t] :
        m.from = "finder" /\ m \notin history[t].shown /\ ~history[t].crossed => Unread(t)

\* Where the name is never public, it is shown only in a conversation the owner
\* has answered, not in another one about the same tag (relay.py:295-298).
NameIsEarned ==
    \A t \in Live :
        history[t].named =>
            "always" \in {s.disclosure : s \in Settings} \/ \E m \in messages[t] : m.from = "owner"

\* "The name is never released" to a retired code, "whatever the tag's setting
\* says" (tag.py:211-214).
RetiredCodeNeverNames == \A t \in Thread : history[t].retired => ~history[t].named

\* The answer to a reply shows the conversation with that reply in it.
ReplyIsShown ==
    [][\A w \in Worker : LET r == request[w] IN
          r.op = "reply" /\ r.thread \in Kept /\ r.message \in messages'[r.thread] =>
              r.message \in r.listed]_vars

\* A finder who stopped the mails gets no more: "we will not write again"
\* (notifications.py:309-313), but for those of the answers that were being sent
\* just then, one at most for every worker but one.
StopMeansStop ==
    \A t \in Live : history[t].unwanted < Cardinality(Worker)

\* The finder is mailed "at most once per cooldown" (notifications.py:375): once a
\* mail is noted, and no other answer was under way then, nothing takes the note
\* back and no mail follows within the cooldown.  (A worker killed between its mail
\* and the commit leaves no note.)
ReplyMailsAreSpaced ==
    [][\A t \in Kept : history'[t].mails > history[t].mails => history[t].gap = 0]_vars

\* What a side has decided stands, whatever request of the other side was under
\* way: no commit reopens a closed conversation or brings an address back.
DecisionsStand ==
    [][\A t \in Kept :
          /\ threads[t].closed => threads'[t].closed
          /\ history[t].stopped => ~threads'[t].email]_vars

\* "An active conversation is not cut off mid-exchange" (relay.py:117-118): the
\* purge deletes none that still has time left.
ActiveIsNotPurged == [][\A t \in DOMAIN threads \ DOMAIN threads' : Expired(t)]_vars

\* Every conversation ends and is deleted, however lively: each reply extends
\* it, but the number of replies is limited.
EveryConversationEnds == \A t \in Thread : t \in Live ~> t \notin Live

=============================================================================
