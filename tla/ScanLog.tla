------------------------------ MODULE ScanLog ------------------------------
(***************************************************************************)
(* What a tag remembers of being scanned, and what it mails: the handlers  *)
(* read_scan_page, record_scan and share_location of api/scan.py, the scan *)
(* mail of services/notifications.py, the scan part of the purge of        *)
(* services/retention.py, and the owner's update of the tag (api/tags.py). *)
(*                                                                         *)
(* One tag, reached by browsers and by automated readers, with its current *)
(* code or a retired one.  A finder's browser reads the page (GET),        *)
(* renders it, and then announces itself (POST view); the owner's own does *)
(* not, and an automated reader only reads (ScanPage.tsx).  Every handler  *)
(* loads the rows it needs in one step and commits in a later one; a mail  *)
(* goes out in between.                                                    *)
(***************************************************************************)
EXTENDS Naturals, FiniteSets, Orm

CONSTANTS
    Worker,       \* gunicorn workers
    Browser,      \* browsers that open the scan page
    AddressOf,    \* the address hash (of the day) each browser is seen with, or Unknown
    Codes,        \* bound: whether the codes presented are retired
    Event,        \* ids of scan events (finitely many: a bound)
    DedupWindow,  \* scan_dedup_minutes
    Cooldown,     \* scan_notify_cooldown_minutes
    Retention,    \* scan_retention_days
    Watched,      \* UNRENDERED_READS_BEFORE_WATCHED
    Status,       \* bound: what the owner reports of the bag
    Disclosure,   \* bound: the settings of name_disclosure the owner uses
    Notify,       \* bound: the settings of notify_on_scan the owner uses
    Crashes,      \* whether workers are killed in the middle of a request
    MaxReads,     \* bound: reads of the page
    MaxTime       \* bound: the last moment of the run

ASSUME ScanLogAssumption ==
    /\ {DedupWindow, Cooldown, Retention, Watched, MaxReads, MaxTime} \subseteq Nat
    /\ DedupWindow < Retention /\ Retention <= MaxTime
    /\ IsFiniteSet(Worker) /\ Watched > 0
    /\ DOMAIN AddressOf = Browser /\ Codes \subseteq BOOLEAN
    /\ Status \subseteq {"safe", "lost"} /\ Disclosure \subseteq {"always", "on_reply", "never"}
    /\ Notify \subseteq BOOLEAN
    /\ Crashes \in BOOLEAN

VARIABLES
    now,       \* the clock, in the unit of the windows above
    tag,       \* the row of the tag
    events,    \* table scan_events: the rows of the live ids
    request,   \* the request each worker is serving
    page,      \* what each browser shows: nothing, a page with or without the
               \* name that is still to be announced, or one that has been
    reads,     \* history: answered reads, by whom, how many with a retired code, and
               \* how many while another worker was at one
    mails      \* history: the scan mails sent, by the event they are about

vars == <<now, tag, events, request, page, reads, mails>>

Automated == "automated"   \* a reader that renders nothing
Unknown == "unknown"       \* no address hash: the proxy names no client
Unannounced == {"plain", "named"}

Time == 0 .. MaxTime

\* A nullable timestamp is the set of the moments it names: none, or one.
NULL == {}

TagRow == [status: {"safe", "lost"}, disclosure: {"always", "on_reply", "never"},
           notify: BOOLEAN, fetches: Nat, scans: Nat, stale: Nat,
           lastNotified: SUBSET Time]

Address == {AddressOf[b] : b \in Browser}

\* shared_location, with the moment at which the finder asked for it (history).
EventRow == [scanner: Address, at: Time, revealed: BOOLEAN, shared: SUBSET Time,
             notified: BOOLEAN]

\* What a scan mail said, whether last_notified_at took note of it, and whether
\* another worker was at an announcement then.
Mail == [at: Time, named: BOOLEAN, noted: BOOLEAN, raced: BOOLEAN]

Idle == [op |-> "idle"]

Request ==
    [op: {"update"}, loaded: TagRow, edited: TagRow]
    \cup [op: {"read"}, loaded: TagRow, edited: TagRow,
          by: Browser \cup {Automated}, retired: BOOLEAN]
    \cup [op: {"mail", "view"}, loaded: TagRow, edited: TagRow, by: Browser,
          event: Event, row: EventRow]
    \cup [op: {"share"}, by: Browser, event: Event, row: EventRow, fresh: BOOLEAN]

TypeOK ==
    /\ now \in Time
    /\ tag \in TagRow
    /\ DOMAIN events \subseteq Event /\ \A e \in DOMAIN events : events[e] \in EventRow
    /\ DOMAIN request = Worker /\ \A w \in Worker : request[w] \in Request \cup {Idle}
    /\ page \in [Browser -> {"none", "announced"} \cup Unannounced]
    /\ reads \in [browser: Nat, automated: Nat, retired: Nat, overlapped: Nat]
    /\ DOMAIN mails \subseteq Event /\ \A e \in DOMAIN mails : mails[e] \in Mail

-----------------------------------------------------------------------------
(* What the handlers compute *)

\* _name_was_released.
NameReleased(t, retired) == t.status = "lost" /\ t.disclosure = "always" /\ ~retired

\* _looks_watched: max(0, fetches - scans) >= Watched, for a positive Watched.
LooksWatched(t) == t.fetches >= t.scans + Watched

\* (Mutants: a window that ends a moment early, or never does; no cooldown; shared
\* events kept for ever; the address itself recorded.)
RecentShort(b) ==
    {e \in DOMAIN events : events[e].scanner = AddressOf[b] /\ events[e].at + DedupWindow > now}
RecentEver(b) == {e \in DOMAIN events : events[e].scanner = AddressOf[b]}
ShouldAlwaysNotify(t) == t.notify
ExpiredUnlessShared(e) == events[e].shared = NULL /\ events[e].at + Retention <= now
ScanOfAddress(b, revealed) ==
    [scanner |-> b, at |-> now, revealed |-> revealed, shared |-> NULL, notified |-> FALSE]

\* recent_duplicate: the events of this address inside the window; without an
\* address there is none.
Recent(b) ==
    {e \in DOMAIN events : /\ AddressOf[b] # Unknown /\ events[e].scanner = AddressOf[b]
                           /\ events[e].at + DedupWindow >= now}

\* ... of which it takes the latest.
RecentDuplicate(b) == CHOOSE e \in Recent(b) : \A f \in Recent(b) : events[f].at <= events[e].at

\* should_notify, for an owner who wants mail at all.
ShouldNotify(t) ==
    t.notify /\ \A at \in t.lastNotified : now >= at + Cooldown

Expired(e) == events[e].at + Retention <= now

\* uuid4: an id that no row, no mail and no pending request has.
FreshEvent(e) ==
    /\ e \notin DOMAIN events \cup DOMAIN mails
    /\ \A w \in Worker : request[w] # Idle /\ request[w].op \in {"mail", "view", "share"} =>
          request[w].event # e

Scan(b, revealed) ==
    [scanner |-> AddressOf[b], at |-> now, revealed |-> revealed, shared |-> NULL, notified |-> FALSE]

-----------------------------------------------------------------------------
(* The handlers *)

Init ==
    /\ now = 0
    /\ tag = [status |-> "safe", disclosure |-> "on_reply", notify |-> TRUE,
              fetches |-> 0, scans |-> 0, stale |-> 0, lastNotified |-> NULL]
    /\ events = [e \in {} |-> {}]
    /\ request = [w \in Worker |-> Idle]
    /\ page = [b \in Browser |-> "none"]
    /\ reads = [browser |-> 0, automated |-> 0, retired |-> 0, overlapped |-> 0]
    /\ mails = [e \in {} |-> {}]

Serve(w, r) == request[w] = Idle /\ request' = [request EXCEPT ![w] = r]

Respond(w) == request' = [request EXCEPT ![w] = Idle]

\* (Mutant: the whole row is written.)
SaveWhole(r) == tag' = r.edited

Save(r) == tag' = Flushed(tag, r.loaded, r.edited)

\* Another worker is serving such a request.
Overlapped(w, ops) == \E v \in Worker \ {w} : request[v].op \in ops

\* update_tag: one of the fields this component looks at.
BeginUpdate(w) ==
    /\ \E edited \in {[tag EXCEPT !.status = s] : s \in Status}
                \cup {[tag EXCEPT !.disclosure = d] : d \in Disclosure}
                \cup {[tag EXCEPT !.notify = n] : n \in Notify} :
         edited # tag /\ Serve(w, [op |-> "update", loaded |-> tag, edited |-> edited])
    /\ UNCHANGED <<now, tag, events, page, reads, mails>>

CommitUpdate(w) ==
    /\ request[w].op = "update"
    /\ Save(request[w])
    /\ Respond(w)
    /\ UNCHANGED <<now, events, page, reads, mails>>

\* (Mutants: a read with a retired code is not counted; all count as stale.)
CountedIfCurrent(t, retired) == IF retired THEN [t EXCEPT !.stale = @ + 1] ELSE [t EXCEPT !.fetches = @ + 1]
CountedStale(t, retired) == [t EXCEPT !.fetches = @ + 1, !.stale = @ + 1]

\* read_scan_page: both counters move, and are written back as numbers.
Counted(t, retired) ==
    [t EXCEPT !.fetches = @ + 1, !.stale = IF retired THEN @ + 1 ELSE @]

BeginRead(w, by, retired) ==
    /\ reads.browser + reads.automated
         + Cardinality({v \in Worker : request[v].op = "read"}) < MaxReads
    /\ by \in Browser => page[by] \notin Unannounced
    /\ Serve(w, [op |-> "read", loaded |-> tag, by |-> by, retired |-> retired,
                 edited |-> Counted(tag, retired)])
    /\ UNCHANGED <<now, tag, events, page, reads, mails>>

\* The body is built after the commit from the row as it was loaded
\* (expire_on_commit is off).
CommitRead(w) ==
    LET r == request[w]
        shown == IF NameReleased(r.edited, r.retired) THEN "named" ELSE "plain"
    IN
    /\ r.op = "read"
    /\ Save(r)
    /\ page' = [b \in Browser |-> IF b = r.by THEN shown ELSE page[b]]
    /\ reads' = [browser   |-> reads.browser + (IF r.by = Automated THEN 0 ELSE 1),
                 automated |-> reads.automated + (IF r.by = Automated THEN 1 ELSE 0),
                 retired   |-> reads.retired + (IF r.retired THEN 1 ELSE 0),
                 overlapped |-> reads.overlapped + (IF Overlapped(w, {"read"}) THEN 1 ELSE 0)]
    /\ Respond(w)
    /\ UNCHANGED <<now, events, mails>>

\* The page finds that the tag is its reader's own and moves on, unannounced.
OwnersOwn(b) ==
    /\ page[b] \in Unannounced
    /\ page' = [page EXCEPT ![b] = "none"]
    /\ UNCHANGED <<now, tag, events, request, reads, mails>>

\* record_scan of a scanner seen inside the window: nothing is recorded.
RepeatView(w, b) ==
    /\ request[w] = Idle
    /\ page[b] \in Unannounced /\ Recent(b) # {}
    /\ page' = [page EXCEPT ![b] = "announced"]
    /\ UNCHANGED <<now, tag, events, request, reads, mails>>

\* record_scan of another one: an event, a count, and a mail if one is due.
BeginView(w, b, retired) ==
    /\ page[b] \in Unannounced /\ Recent(b) = {}
    /\ \A v \in Worker : request[v].op \in {"mail", "view"} => request[v].by # b
    /\ now + Retention <= MaxTime
    /\ \E e \in Event :
         /\ FreshEvent(e)
         /\ Serve(w, [op |-> IF ShouldNotify(tag) THEN "mail" ELSE "view",
                      loaded |-> tag, edited |-> [tag EXCEPT !.scans = @ + 1], by |-> b,
                      event |-> e, row |-> Scan(b, NameReleased(tag, retired))])
    /\ UNCHANGED <<now, tag, events, page, reads, mails>>

\* notify_scan, before the commit.  Its wording depends on the tag alone.
SendMail(w) ==
    LET r == request[w] IN
    /\ r.op = "mail"
    /\ mails' = [e \in DOMAIN mails \cup {r.event} |->
                    IF e = r.event
                    THEN [at |-> now, named |-> NameReleased(r.loaded, FALSE),
                          noted |-> FALSE, raced |-> FALSE]
                    ELSE mails[e]]
    /\ request' = [request EXCEPT ![w].op = "view", ![w].edited.lastNotified = {now},
                                  ![w].row.notified = TRUE]
    /\ UNCHANGED <<now, tag, events, page, reads>>

\* deliver() reports a failure of the provider and the scan is still recorded.
MailFails(w) ==
    /\ request[w].op = "mail"
    /\ request' = [request EXCEPT ![w].op = "view"]
    /\ UNCHANGED <<now, tag, events, page, reads, mails>>

CommitView(w) ==
    LET r == request[w] IN
    /\ r.op = "view"
    /\ Save(r)
    /\ events' = [e \in DOMAIN events \cup {r.event} |-> IF e = r.event THEN r.row ELSE events[e]]
    /\ page' = [page EXCEPT ![r.by] = "announced"]
    /\ mails' = [e \in DOMAIN mails |->
                    IF e = r.event
                    THEN [mails[e] EXCEPT !.noted = TRUE, !.raced = Overlapped(w, {"mail", "view"})]
                    ELSE mails[e]]
    /\ Respond(w)
    /\ UNCHANGED <<now, reads>>

\* share_location: on the recent event if there is one, else on a new one.
BeginShare(w, b) ==
    /\ page[b] # "none"
    /\ \A v \in Worker : request[v].op = "share" => request[v].by # b
    /\ IF Recent(b) # {}
       THEN Serve(w, [op |-> "share", by |-> b, event |-> RecentDuplicate(b), fresh |-> FALSE,
                      row |-> [events[RecentDuplicate(b)] EXCEPT !.shared = {now}]])
       ELSE /\ now + Retention <= MaxTime
            /\ \E e \in Event :
                 /\ FreshEvent(e)
                 /\ Serve(w, [op |-> "share", by |-> b, event |-> e, fresh |-> TRUE,
                              row |-> [Scan(b, NameReleased(tag, FALSE)) EXCEPT !.shared = {now}]])
    /\ UNCHANGED <<now, tag, events, page, reads, mails>>

CommitShare(w) ==
    LET r == request[w] IN
    /\ r.op = "share"
    /\ r.fresh \/ r.event \in DOMAIN events
    /\ events' = [e \in DOMAIN events \cup {r.event} |-> IF e = r.event THEN r.row ELSE events[e]]
    /\ Respond(w)
    /\ UNCHANGED <<now, tag, page, reads, mails>>

\* The event has been purged since it was loaded: the UPDATE is refused.
RefuseShare(w) ==
    /\ request[w].op = "share" /\ ~request[w].fresh /\ request[w].event \notin DOMAIN events
    /\ Respond(w)
    /\ UNCHANGED <<now, tag, events, page, reads, mails>>

\* A worker is killed: its transaction rolls back, a mail it sent stays sent.
Crash(w) ==
    /\ Crashes /\ request[w] # Idle
    /\ Respond(w)
    /\ UNCHANGED <<now, tag, events, page, reads, mails>>

\* purge_expired: one DELETE with its condition.
Purge ==
    /\ events' = [e \in {f \in DOMAIN events : ~Expired(f)} |-> events[e]]
    /\ UNCHANGED <<now, tag, request, page, reads, mails>>

Tick ==
    /\ now < MaxTime
    /\ now' = now + 1
    /\ UNCHANGED <<tag, events, request, page, reads, mails>>

Handler(w) ==
    \/ BeginUpdate(w) \/ CommitUpdate(w)
    \/ \E by \in Browser \cup {Automated}, retired \in Codes : BeginRead(w, by, retired)
    \/ CommitRead(w)
    \/ \E b \in Browser :
         \/ RepeatView(w, b)
         \/ \E retired \in Codes : BeginView(w, b, retired)
         \/ BeginShare(w, b)
    \/ SendMail(w) \/ MailFails(w) \/ CommitView(w)
    \/ CommitShare(w) \/ RefuseShare(w)
    \/ Crash(w)

Next == (\E w \in Worker : Handler(w)) \/ (\E b \in Browser : OwnersOwn(b)) \/ Purge \/ Tick

Spec == Init /\ [][Next]_vars

\* Time passes, and the operator runs the purge job again and again.
FairSpec == Spec /\ WF_vars(Tick) /\ WF_vars(Purge)

-----------------------------------------------------------------------------
(* Properties *)

\* A scanner is recorded once per window, whoever asks (record_scan or
\* share_location): "Deduplicated against the same scanner's recent scans"
\* (scan.py:201).  Nothing is locked: workers that serve the same scanner at
\* once may record it once each, and no more.  A scanner without an address is
\* recorded each time.
ScansAreDeduplicated ==
    \A e \in DOMAIN events : events[e].scanner # Unknown =>
        Cardinality({f \in DOMAIN events :
            /\ events[f].scanner = events[e].scanner
            /\ events[e].at <= events[f].at /\ events[f].at <= events[e].at + DedupWindow})
          <= Cardinality(Worker)

\* The owner gets at most one scan mail per cooldown: "the owner's email is
\* additionally cooled down per tag" (scan.py:201-203).  No other request takes the
\* note of a mail back, with any number of workers: only an announcement that was
\* under way when the mail was noted may have mailed on its own account, and a
\* worker killed between its mail and its commit leaves no note.
MailsAreSpaced ==
    [][\A f \in DOMAIN mails' \ DOMAIN mails : \A e \in DOMAIN mails :
          mails[e].noted /\ ~mails[e].raced => mails'[f].at >= mails[e].at + Cooldown]_vars

\* "`page_fetch_count` counts every read of the scan endpoint" (tag.py:94-95): it
\* misses no more reads than were answered while another worker was at one.  The
\* owner's updates and the announcements, which load the same row, cost no count.
ReadsAreMissedOnlyByRace ==
    /\ reads.browser + reads.automated <= tag.fetches + reads.overlapped
    /\ reads.retired <= tag.stale + reads.overlapped

\* The counts may miss a read but never invent one: a tag is not called watched
\* for reads that did not happen, however the workers' updates interleave.
NoReadIsInvented ==
    /\ tag.fetches <= reads.browser + reads.automated
    /\ tag.stale <= reads.retired

\* A tag is called watched only for reads no browser was behind: a page that
\* rendered and said so moves both counts (tag.py:93-97, tags.py:25-30).
WatchedMeansUnrendered ==
    LooksWatched(tag) =>
        reads.automated + Cardinality({b \in Browser : page[b] \in Unannounced}) >= Watched

\* The scan mail says the owner's name was shown exactly when the history does:
\* both speak of the same scan (_name_was_released, scan.py:128-136).
MailAgreesWithHistory ==
    \A e \in DOMAIN mails \cap DOMAIN events : mails[e].named = events[e].revealed

\* The place a finder shares is written into the event of an earlier scan, and goes
\* when that goes: the owner has it for the retention period less the window in
\* which the finder's scans are taken for one, and no less (share_location,
\* scan.py:316-340; retention.py:24-31).
SharedPlacesAreKept ==
    [][\A e \in DOMAIN events \ DOMAIN events' : \A at \in events[e].shared :
          now + DedupWindow >= at + Retention]_vars

\* Every event is purged in the end.
EveryEventIsPurged ==
    \A e \in Event : e \in DOMAIN events ~> e \notin DOMAIN events

=============================================================================
