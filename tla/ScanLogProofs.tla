--------------------------- MODULE ScanLogProofs ----------------------------
(***************************************************************************)
(* Proofs about ScanLog, for any number of workers, browsers and events    *)
(* and any windows: the counters of a tag never count a read that did not  *)
(* happen, and miss one only when reads overlapped, although the handlers  *)
(* read, add and write them back without a lock; one scanner is recorded   *)
(* once in a window, or once per worker when workers race; what a finder   *)
(* shared is kept its time; and mails are a cooldown apart unless their    *)
(* announcements overlapped.                                               *)
(***************************************************************************)
EXTENDS ScanLog, FiniteSetTheorems, WellFoundedInduction, TLAPS

\* The requests that write the row of the tag.
WritesTag(w) == request[w].op \in {"update", "read", "mail", "view"}

\* The row of the tag has its counters, and the clock stays within its range.
Typed ==
    /\ now \in Time
    /\ tag \in TagRow
    /\ DOMAIN request = Worker
    /\ \A w \in Worker : WritesTag(w) =>
          /\ {"op", "loaded", "edited"} \subseteq DOMAIN request[w]
          /\ request[w].loaded \in TagRow /\ request[w].edited \in TagRow
    /\ reads \in [browser: Nat, automated: Nat, retired: Nat, overlapped: Nat]

\* What a request has loaded was true when it was, and reads only add up; what it
\* writes back is one more for a read, and no counter for anything else.  Each read
\* answered while another was being read is one that overlapped.
PendingCounts ==
    \A w \in Worker : WritesTag(w) =>
      LET r == request[w] IN
      IF r.op = "read"
      THEN /\ r.loaded.fetches <= reads.browser + reads.automated
           /\ r.loaded.stale <= reads.retired
           /\ r.edited.fetches = r.loaded.fetches + 1
           /\ r.edited.stale = r.loaded.stale + (IF r.retired THEN 1 ELSE 0)
           /\ reads.browser + reads.automated <= r.loaded.fetches + reads.overlapped
           /\ reads.retired <= r.loaded.stale + reads.overlapped
      ELSE r.edited.fetches = r.loaded.fetches /\ r.edited.stale = r.loaded.stale

CountInv == Typed /\ PendingCounts /\ NoReadIsInvented /\ ReadsAreMissedOnlyByRace

\* The requests that may add an event to the history.
Recording(w) ==
    \/ request[w].op \in {"mail", "view"}
    \/ request[w].op = "share" /\ request[w].fresh

HasEvent(w) == request[w].op \in {"mail", "view", "share"}

\* What the history has, and is about to get, of one scanner in the window that
\* begins at t.
Within(at, t) == t <= at /\ at <= t + DedupWindow
Recorded(s, t) == {e \in DOMAIN events : events[e].scanner = s /\ Within(events[e].at, t)}
UnderWay(s, t) ==
    {w \in Worker : Recording(w) /\ request[w].row.scanner = s /\ Within(request[w].row.at, t)}

\* An event about to be added is nobody else's; one about to be updated, if it is
\* still there, keeps its scanner and its time.
EventsAreApart ==
    /\ \A e \in DOMAIN events : events[e].at <= now
    /\ \A v \in Worker : Recording(v) =>
        /\ request[v].event \notin DOMAIN events /\ request[v].row.at <= now
        /\ \A u \in Worker \ {v} : HasEvent(u) => request[u].event # request[v].event
    /\ \A v \in Worker :
        /\ request[v].op = "share" /\ ~request[v].fresh
        /\ request[v].event \in DOMAIN events
        => /\ request[v].row.scanner = events[request[v].event].scanner
           /\ request[v].row.at = events[request[v].event].at

\* In no window has a scanner with an address more events, recorded or under way,
\* than there are workers: one that begins another finds none recorded.
FewAtATime ==
    \A s \in Address \ {Unknown}, t \in Time :
        Cardinality(Recorded(s, t)) + Cardinality(UnderWay(s, t)) <= Cardinality(Worker)

HistoryInv == TypeOK /\ IsFiniteSet(DOMAIN events) /\ EventsAreApart /\ FewAtATime

-----------------------------------------------------------------------------

\* An UPDATE leaves the row a row and writes the counters the handler has edited.
LEMMA FlushedTag ==
    ASSUME NEW s \in TagRow, NEW l \in TagRow, NEW e \in TagRow
    PROVE  /\ Flushed(s, l, e) \in TagRow
           /\ Flushed(s, l, e).fetches = IF e.fetches # l.fetches THEN e.fetches ELSE s.fetches
           /\ Flushed(s, l, e).stale = IF e.stale # l.stale THEN e.stale ELSE s.stale
           /\ Flushed(s, l, e).lastNotified =
                IF e.lastNotified # l.lastNotified THEN e.lastNotified ELSE s.lastNotified
  BY DEF Flushed, TagRow

\* A read moves the count of the reads, and with a retired code that of those.
LEMMA CountedRow ==
    ASSUME NEW t \in TagRow, NEW retired
    PROVE  /\ Counted(t, retired) \in TagRow
           /\ Counted(t, retired).fetches = t.fetches + 1
           /\ Counted(t, retired).stale = t.stale + (IF retired THEN 1 ELSE 0)
           /\ Counted(t, retired).lastNotified = t.lastNotified
<1> DEFINE stale == IF retired THEN t.stale + 1 ELSE t.stale
           fetched == [t EXCEPT !.fetches = @ + 1]
<1>1. stale \in Nat /\ stale = t.stale + (IF retired THEN 1 ELSE 0)
  <2>1. CASE retired
    BY <2>1 DEF TagRow
  <2>2. CASE ~retired
    BY <2>2 DEF TagRow
  <2> QED
    BY <2>1, <2>2
<1>2. /\ fetched \in TagRow /\ fetched.fetches = t.fetches + 1 /\ fetched.stale = t.stale
      /\ fetched.lastNotified = t.lastNotified
  BY DEF TagRow
<1>3. Counted(t, retired) = [fetched EXCEPT !.stale = stale]
  BY DEF Counted, TagRow
<1> HIDE DEF stale, fetched
<1>4. /\ Counted(t, retired) \in TagRow /\ Counted(t, retired).fetches = fetched.fetches
      /\ Counted(t, retired).stale = stale
      /\ Counted(t, retired).lastNotified = fetched.lastNotified
  BY <1>1, <1>2, <1>3 DEF TagRow
<1> QED
  BY <1>1, <1>2, <1>4

\* A step that leaves the row and the history of reads alone keeps the invariant
\* if every request that writes the row afterwards agrees with it.
LEMMA RequestStep ==
    ASSUME CountInv, NEW w \in Worker,
           now' \in Time, tag' = tag, reads' = reads,
           DOMAIN request' = Worker, \A v \in Worker : v # w => request'[v] = request[v],
           request'[w].op \in {"update", "read", "mail", "view"} =>
             LET r == request'[w] IN
             /\ {"op", "loaded", "edited"} \subseteq DOMAIN r
             /\ r.loaded \in TagRow /\ r.edited \in TagRow
             /\ IF r.op = "read"
                THEN /\ r.loaded.fetches <= reads.browser + reads.automated
                     /\ r.loaded.stale <= reads.retired
                     /\ r.edited.fetches = r.loaded.fetches + 1
                     /\ r.edited.stale = r.loaded.stale + (IF r.retired THEN 1 ELSE 0)
                     /\ reads.browser + reads.automated <= r.loaded.fetches + reads.overlapped
                     /\ reads.retired <= r.loaded.stale + reads.overlapped
                ELSE r.edited.fetches = r.loaded.fetches /\ r.edited.stale = r.loaded.stale
    PROVE  CountInv'
<1>1. Typed'
  BY DEF CountInv, Typed, WritesTag
<1>2. PendingCounts'
  BY DEF CountInv, PendingCounts, WritesTag
<1>3. NoReadIsInvented' /\ ReadsAreMissedOnlyByRace'
  BY DEF CountInv, NoReadIsInvented, ReadsAreMissedOnlyByRace
<1> QED
  BY <1>1, <1>2, <1>3 DEF CountInv

\* A commit of anything but a read.
LEMMA SaveStep ==
    ASSUME CountInv, NEW w \in Worker, request[w].op \in {"update", "view"},
           Save(request[w]), Respond(w), now' = now, reads' = reads
    PROVE  CountInv'
<1> DEFINE r == request[w]
<1>1. /\ r.loaded \in TagRow /\ r.edited \in TagRow /\ tag \in TagRow
      /\ r.edited.fetches = r.loaded.fetches /\ r.edited.stale = r.loaded.stale
  BY DEF CountInv, Typed, PendingCounts, WritesTag
<1>2. tag' \in TagRow /\ tag'.fetches = tag.fetches /\ tag'.stale = tag.stale
  <2> HIDE DEF r
  <2>1. tag' = Flushed(tag, r.loaded, r.edited)
    BY DEF Save, r
  <2> QED
    BY <1>1, <2>1, FlushedTag
<1>3. /\ DOMAIN request' = Worker /\ request'[w] = Idle
      /\ \A v \in Worker : v # w => request'[v] = request[v]
  BY DEF Respond, CountInv, Typed
<1>4. \A v \in Worker : WritesTag(v)' => v # w /\ WritesTag(v) /\ request'[v] = request[v]
  BY <1>3 DEF WritesTag, Idle
<1>5. Typed' /\ PendingCounts'
  BY <1>2, <1>3, <1>4 DEF CountInv, Typed, PendingCounts
<1>6. NoReadIsInvented' /\ ReadsAreMissedOnlyByRace'
  BY <1>2 DEF CountInv, NoReadIsInvented, ReadsAreMissedOnlyByRace
<1> QED
  BY <1>5, <1>6 DEF CountInv

\* A read that commits adds one to the history, and at most that to the row.  It
\* adds one to the row that is stored, unless another has been committed since it
\* was loaded, which then was an overlap; and its own commit is one for every read
\* still under way.
LEMMA CommitReadStep ==
    ASSUME CountInv, NEW w \in Worker, CommitRead(w)
    PROVE  CountInv'
<1> DEFINE r == request[w]
           more == IF r.retired THEN 1 ELSE 0
           overlap == IF Overlapped(w, {"read"}) THEN 1 ELSE 0
           total == reads.browser + reads.automated
<1>1. /\ r.loaded \in TagRow /\ r.edited \in TagRow /\ tag \in TagRow
      /\ r.loaded.fetches <= total
      /\ r.loaded.stale <= reads.retired
      /\ r.edited.fetches = r.loaded.fetches + 1
      /\ r.edited.stale = r.loaded.stale + more
      /\ total <= r.loaded.fetches + reads.overlapped
      /\ reads.retired <= r.loaded.stale + reads.overlapped
  BY DEF CommitRead, CountInv, Typed, PendingCounts, WritesTag
<1>2. /\ reads'.browser + reads'.automated = total + 1
      /\ reads'.retired = reads.retired + more
      /\ reads'.overlapped = reads.overlapped + overlap
      /\ reads' \in [browser: Nat, automated: Nat, retired: Nat, overlapped: Nat]
      /\ total \in Nat /\ reads.retired \in Nat /\ reads.overlapped \in Nat
  BY DEF CommitRead, CountInv, Typed
<1>3. tag' = Flushed(tag, r.loaded, r.edited) /\ now' = now
  BY DEF CommitRead, Save
<1>4. /\ DOMAIN request' = Worker /\ request'[w] = Idle
      /\ \A v \in Worker : v # w => request'[v] = request[v]
  BY DEF CommitRead, Respond, CountInv, Typed
<1>5. \A v \in Worker : WritesTag(v)' => v # w /\ WritesTag(v) /\ request'[v] = request[v]
  BY <1>4 DEF WritesTag, Idle
<1>6. more \in {0, 1} /\ overlap \in {0, 1}
  OBVIOUS
<1>7. \A v \in Worker : v # w /\ request[v].op = "read" => overlap = 1
  BY DEF Overlapped
<1>8. /\ tag.fetches <= total /\ tag.stale <= reads.retired
      /\ total <= tag.fetches + reads.overlapped
      /\ reads.retired <= tag.stale + reads.overlapped
  BY DEF CountInv, NoReadIsInvented, ReadsAreMissedOnlyByRace
<1> HIDE DEF r, more, overlap, total
<1>9. /\ tag' \in TagRow
      /\ tag'.fetches = r.loaded.fetches + 1
      /\ tag'.stale = IF more = 0 THEN tag.stale ELSE r.loaded.stale + more
  <2>1. /\ tag'.fetches = IF r.edited.fetches # r.loaded.fetches THEN r.edited.fetches ELSE tag.fetches
        /\ tag'.stale = IF r.edited.stale # r.loaded.stale THEN r.edited.stale ELSE tag.stale
        /\ tag' \in TagRow
    BY <1>1, <1>3, FlushedTag
  <2>2. r.loaded.fetches \in Nat /\ r.loaded.stale \in Nat
    BY <1>1 DEF TagRow
  <2>3. (r.edited.fetches # r.loaded.fetches) /\ (r.edited.stale # r.loaded.stale <=> more # 0)
    BY <1>1, <1>6, <2>2
  <2> QED
    BY <1>1, <2>1, <2>3
<1>10. NoReadIsInvented'
  <2>1. tag'.fetches <= total + 1
    BY <1>1, <1>2, <1>9 DEF TagRow
  <2>2. tag'.stale <= reads.retired + more
    BY <1>1, <1>2, <1>6, <1>8, <1>9 DEF TagRow
  <2> QED
    BY <1>2, <2>1, <2>2 DEF NoReadIsInvented
<1>11. ReadsAreMissedOnlyByRace'
  <2>1. total + 1 <= tag'.fetches + reads.overlapped
    BY <1>1, <1>2, <1>9 DEF TagRow
  <2>2. reads.retired + more <= tag'.stale + reads.overlapped
    BY <1>1, <1>2, <1>6, <1>8, <1>9 DEF TagRow
  <2>3. tag'.fetches \in Nat /\ tag'.stale \in Nat
    BY <1>9 DEF TagRow
  <2> QED
    BY <1>2, <1>6, <2>1, <2>2, <2>3 DEF ReadsAreMissedOnlyByRace
<1>12. Typed'
  BY <1>2, <1>3, <1>4, <1>5, <1>9 DEF CountInv, Typed
<1>13. PendingCounts'
  <2>1. \A v \in Worker : WritesTag(v) => request[v].loaded \in TagRow
    BY DEF CountInv, Typed
  <2> SUFFICES ASSUME NEW v \in Worker, WritesTag(v), v # w, request'[v] = request[v],
                      request[v].op = "read"
               PROVE  LET l == request[v].loaded IN
                      /\ l.fetches <= reads'.browser + reads'.automated
                      /\ l.stale <= reads'.retired
                      /\ reads'.browser + reads'.automated <= l.fetches + reads'.overlapped
                      /\ reads'.retired <= l.stale + reads'.overlapped
    BY <1>5 DEF CountInv, PendingCounts
  <2> DEFINE l == request[v].loaded
  <2>2. /\ l.fetches <= total /\ l.stale <= reads.retired
        /\ total <= l.fetches + reads.overlapped /\ reads.retired <= l.stale + reads.overlapped
    BY DEF CountInv, PendingCounts, total
  <2>3. l.fetches \in Nat /\ l.stale \in Nat /\ overlap = 1
    BY <1>7, <2>1 DEF TagRow
  <2> HIDE DEF l
  <2>4. /\ l.fetches <= total + 1 /\ l.stale <= reads.retired + more
        /\ total + 1 <= l.fetches + (reads.overlapped + 1)
        /\ reads.retired + more <= l.stale + (reads.overlapped + 1)
    BY <1>2, <1>6, <2>2, <2>3
  <2> QED
    BY <1>2, <2>3, <2>4 DEF l
<1> QED
  BY <1>10, <1>11, <1>12, <1>13 DEF CountInv

-----------------------------------------------------------------------------
(* The requests being read, one handler at a time *)

\* The owner edits a setting and no counter.
LEMMA BeginUpdateStep ==
    ASSUME CountInv, NEW w \in Worker, BeginUpdate(w)
    PROVE  CountInv'
<1>1. PICK edited \in {[tag EXCEPT !.status = s] : s \in Status}
                   \cup {[tag EXCEPT !.disclosure = d] : d \in Disclosure}
                   \cup {[tag EXCEPT !.notify = n] : n \in Notify} :
        Serve(w, [op |-> "update", loaded |-> tag, edited |-> edited])
  BY DEF BeginUpdate
<1>2. tag \in TagRow
  BY DEF CountInv, Typed
<1>3. edited \in TagRow /\ edited.fetches = tag.fetches /\ edited.stale = tag.stale
  BY <1>1, <1>2, ScanLogAssumption DEF TagRow
<1>4. /\ request'[w] = [op |-> "update", loaded |-> tag, edited |-> edited]
      /\ DOMAIN request' = Worker
      /\ \A v \in Worker : v # w => request'[v] = request[v]
      /\ now' \in Time /\ tag' = tag /\ reads' = reads
  BY <1>1 DEF BeginUpdate, Serve, CountInv, Typed
<1> QED
  BY <1>2, <1>3, <1>4, RequestStep

\* Reading the page adds one to what was loaded, and a retired code one more.
LEMMA BeginReadStep ==
    ASSUME CountInv, NEW w \in Worker, NEW by \in Browser \cup {Automated},
           NEW retired \in Codes, BeginRead(w, by, retired)
    PROVE  CountInv'
<1> DEFINE edited == Counted(tag, retired)
<1>1. tag \in TagRow
  BY DEF CountInv, Typed
<1>2. /\ edited \in TagRow /\ edited.fetches = tag.fetches + 1
      /\ edited.stale = tag.stale + (IF retired THEN 1 ELSE 0)
  BY <1>1, CountedRow
<1>3. /\ request'[w] = [op |-> "read", loaded |-> tag, by |-> by, retired |-> retired,
                        edited |-> edited]
      /\ DOMAIN request' = Worker
      /\ \A v \in Worker : v # w => request'[v] = request[v]
      /\ now' \in Time /\ tag' = tag /\ reads' = reads
  BY DEF BeginRead, Serve, CountInv, Typed
<1>4. /\ tag.fetches <= reads.browser + reads.automated /\ tag.stale <= reads.retired
      /\ reads.browser + reads.automated <= tag.fetches + reads.overlapped
      /\ reads.retired <= tag.stale + reads.overlapped
  BY DEF CountInv, NoReadIsInvented, ReadsAreMissedOnlyByRace
<1> HIDE DEF edited
<1> QED
  BY <1>1, <1>2, <1>3, <1>4, RequestStep

\* Announcing a scan counts no read.
LEMMA BeginViewStep ==
    ASSUME CountInv, NEW w \in Worker, NEW b \in Browser, NEW retired \in Codes,
           BeginView(w, b, retired)
    PROVE  CountInv'
<1> DEFINE edited == [tag EXCEPT !.scans = @ + 1]
           op == IF ShouldNotify(tag) THEN "mail" ELSE "view"
<1>1. tag \in TagRow
  BY DEF CountInv, Typed
<1>2. edited \in TagRow /\ edited.fetches = tag.fetches /\ edited.stale = tag.stale
  BY <1>1 DEF TagRow
<1>3. PICK e \in Event :
        Serve(w, [op |-> op, loaded |-> tag, edited |-> edited, by |-> b,
                  event |-> e, row |-> Scan(b, NameReleased(tag, retired))])
  BY DEF BeginView
<1>4. op \in {"mail", "view"}
  OBVIOUS
<1> HIDE DEF edited, op
<1>5. /\ {"op", "loaded", "edited"} \subseteq DOMAIN request'[w]
      /\ request'[w].op = op /\ request'[w].loaded = tag /\ request'[w].edited = edited
      /\ DOMAIN request' = Worker
      /\ \A v \in Worker : v # w => request'[v] = request[v]
      /\ now' \in Time /\ tag' = tag /\ reads' = reads
  BY <1>3 DEF BeginView, Serve, CountInv, Typed
<1> QED
  BY <1>1, <1>2, <1>4, <1>5, RequestStep

\* Sharing a place writes an event and not the tag.
LEMMA BeginShareStep ==
    ASSUME CountInv, NEW w \in Worker, NEW b \in Browser, BeginShare(w, b)
    PROVE  CountInv'
<1>1. /\ now' \in Time /\ tag' = tag /\ reads' = reads
      /\ w \in DOMAIN request /\ DOMAIN request = Worker
  BY DEF BeginShare, CountInv, Typed
<1>2. ASSUME NEW e, NEW fresh, NEW row,
             Serve(w, [op |-> "share", by |-> b, event |-> e, fresh |-> fresh, row |-> row])
      PROVE  /\ request'[w].op = "share" /\ DOMAIN request' = Worker
             /\ \A v \in Worker : v # w => request'[v] = request[v]
  BY <1>1, <1>2 DEF Serve
<1>3. /\ request'[w].op = "share" /\ DOMAIN request' = Worker
      /\ \A v \in Worker : v # w => request'[v] = request[v]
  BY <1>2 DEF BeginShare
<1> QED
  BY <1>1, <1>3, RequestStep

\* The mail notes its instant on the row that was loaded, or leaves it.
LEMMA MailStep ==
    ASSUME CountInv, NEW w \in Worker, SendMail(w) \/ MailFails(w)
    PROVE  CountInv'
<1>1. WritesTag(w) /\ request[w].op = "mail"
  BY DEF SendMail, MailFails, WritesTag
<1>2. /\ {"op", "loaded", "edited"} \subseteq DOMAIN request[w]
      /\ request[w].loaded \in TagRow /\ request[w].edited \in TagRow
      /\ request[w].edited.fetches = request[w].loaded.fetches
      /\ request[w].edited.stale = request[w].loaded.stale
  BY <1>1 DEF CountInv, Typed, PendingCounts
<1>3. [request[w].edited EXCEPT !.lastNotified = {now}] \in TagRow
  BY <1>2 DEF TagRow, CountInv, Typed
<1>4. /\ DOMAIN request' = Worker /\ w \in DOMAIN request
      /\ \A v \in Worker : v # w => request'[v] = request[v]
      /\ now' \in Time /\ tag' = tag /\ reads' = reads
  BY DEF SendMail, MailFails, CountInv, Typed
<1>5. /\ DOMAIN request'[w] = DOMAIN request[w]
      /\ request'[w].op = "view" /\ request'[w].loaded = request[w].loaded
      /\ request'[w].edited \in {request[w].edited,
                                 [request[w].edited EXCEPT !.lastNotified = {now}]}
  <2>1. CASE SendMail(w)
    BY <1>2, <1>4, <2>1 DEF SendMail
  <2>2. CASE MailFails(w)
    BY <1>2, <1>4, <2>2 DEF MailFails
  <2> QED
    BY <2>1, <2>2
<1>6. /\ request'[w].edited \in TagRow
      /\ request'[w].edited.fetches = request'[w].loaded.fetches
      /\ request'[w].edited.stale = request'[w].loaded.stale
  BY <1>2, <1>3, <1>5 DEF TagRow
<1> QED
  BY <1>2, <1>4, <1>5, <1>6, RequestStep

\* A request that ends without writing takes its row with it.
LEMMA EndStep ==
    ASSUME CountInv, NEW w \in Worker, Respond(w),
           now' = now, tag' = tag, reads' = reads
    PROVE  CountInv'
<1>1. /\ request'[w] = Idle /\ DOMAIN request' = Worker
      /\ \A v \in Worker : v # w => request'[v] = request[v]
      /\ now' \in Time
  BY DEF Respond, CountInv, Typed
<1> QED
  BY <1>1, RequestStep DEF Idle

-----------------------------------------------------------------------------

\* Nothing has been counted to begin with.
LEMMA InitCounts == Init => CountInv
  BY ScanLogAssumption DEF Init, CountInv, Typed, PendingCounts, NoReadIsInvented,
                           ReadsAreMissedOnlyByRace, WritesTag, Idle, Time, TagRow, NULL

\* Every step keeps the counts.
LEMMA NextCounts == CountInv /\ [Next]_vars => CountInv'
<1> SUFFICES ASSUME CountInv, [Next]_vars
             PROVE  CountInv'
  OBVIOUS
<1>1. ASSUME NEW w \in Worker, Handler(w) PROVE CountInv'
  <2>1. CASE CommitUpdate(w) \/ CommitView(w)
    BY <2>1, SaveStep DEF CommitUpdate, CommitView
  <2>2. CASE CommitRead(w)
    BY <2>2, CommitReadStep
  <2>3. CASE CommitShare(w) \/ RefuseShare(w) \/ Crash(w)
    BY <2>3, EndStep DEF CommitShare, RefuseShare, Crash
  <2>4. CASE \E b \in Browser : RepeatView(w, b)
    BY <2>4 DEF RepeatView, CountInv, Typed, PendingCounts, NoReadIsInvented,
                       ReadsAreMissedOnlyByRace, WritesTag
  <2> QED
    BY <1>1, <2>1, <2>2, <2>3, <2>4, BeginUpdateStep, BeginReadStep, BeginViewStep,
       BeginShareStep, MailStep DEF Handler
<1>2. CASE (\E b \in Browser : OwnersOwn(b)) \/ Purge \/ UNCHANGED vars
  BY <1>2 DEF OwnersOwn, Purge, vars, CountInv, Typed, PendingCounts, NoReadIsInvented,
              ReadsAreMissedOnlyByRace, WritesTag
<1>3. CASE Tick
  BY <1>3, ScanLogAssumption DEF Tick, Time, CountInv, Typed, PendingCounts,
                                 NoReadIsInvented, ReadsAreMissedOnlyByRace, WritesTag
<1> QED
  BY <1>1, <1>2, <1>3 DEF Next

\* The counters of a tag never count a read, or a stale read, that no one made.
THEOREM NoReadIsEverInvented == Spec => []NoReadIsInvented
<1>1. CountInv => NoReadIsInvented
  BY DEF CountInv
<1> QED
  BY <1>1, InitCounts, NextCounts, PTL DEF Spec

\* They miss no more reads than were answered while another worker was at one.
THEOREM MissedReadsOverlapped == Spec => []ReadsAreMissedOnlyByRace
<1>1. CountInv => ReadsAreMissedOnlyByRace
  BY DEF CountInv
<1> QED
  BY <1>1, InitCounts, NextCounts, PTL DEF Spec

-----------------------------------------------------------------------------
(* Types *)

\* What recent_duplicate returns is a recent event.
LEMMA DuplicateIsRecent ==
    ASSUME TypeOK, NEW b \in Browser, Recent(b) # {}
    PROVE  RecentDuplicate(b) \in Recent(b)
<1> DEFINE R == {ss \in Nat \X Nat : ss[1] < ss[2]}
           left(e) == MaxTime - events[e].at
           Lefts == {left(e) : e \in Recent(b)}
<1>1. \A e \in Recent(b) : events[e].at \in Nat /\ left(e) \in Nat
  BY ScanLogAssumption DEF Recent, TypeOK, EventRow, Time
<1>2. Lefts \in SUBSET Nat /\ Lefts # {}
  BY <1>1
<1>3. IsWellFoundedOn(R, Nat)
  BY NatLessThanWellFounded DEF OpToRel
<1> HIDE DEF R
<1>4. PICK x \in Lefts : \A y \in Lefts : ~(<<y, x>> \in R)
  BY <1>2, <1>3, WFMin
<1>5. PICK e \in Recent(b) : x = left(e)
  BY <1>4
<1>6. ASSUME NEW f \in Recent(b)
      PROVE  events[f].at <= events[e].at
  <2>1. left(f) \in Lefts /\ left(f) \in Nat /\ left(e) \in Nat
    BY <1>1
  <2>2. ~(<<left(f), left(e)>> \in R)
    BY <1>4, <1>5, <2>1
  <2> HIDE DEF left
  <2>3. ~(left(f) < left(e))
    BY <2>1, <2>2 DEF R
  <2> USE DEF left
  <2> QED
    BY <1>1, <2>3, ScanLogAssumption
<1> QED
  BY <1>6 DEF RecentDuplicate

\* A step of a worker that leaves it with a request, or with none, and changes
\* nothing else that has a type.
LEMMA RequestTyped ==
    ASSUME TypeOK, NEW w \in Worker, NEW r \in Request \cup {Idle},
           request' = [request EXCEPT ![w] = r]
    PROVE  DOMAIN request' = Worker /\ \A v \in Worker : request'[v] \in Request \cup {Idle}
  BY DEF TypeOK

\* The requests that write the row of the tag, and those that write an event.
LEMMA RequestForms ==
    ASSUME TypeOK, NEW w \in Worker
    PROVE  /\ request[w].op = "update" => request[w] \in [op: {"update"}, loaded: TagRow, edited: TagRow]
           /\ request[w].op = "read" => request[w] \in
                [op: {"read"}, loaded: TagRow, edited: TagRow,
                 by: Browser \cup {Automated}, retired: BOOLEAN]
           /\ request[w].op \in {"mail", "view"} => request[w] \in
                [op: {"mail", "view"}, loaded: TagRow, edited: TagRow, by: Browser,
                 event: Event, row: EventRow]
           /\ request[w].op = "share" => request[w] \in
                [op: {"share"}, by: Browser, event: Event, row: EventRow, fresh: BOOLEAN]
           /\ request[w].op \in {"idle", "update", "read", "mail", "view", "share"}
<1>1. request[w] \in Request \cup {Idle}
  BY DEF TypeOK
<1> QED
  BY <1>1 DEF Request, Idle

\* What a handler loads and edits is a row, and what it records is an event.
LEMMA RowsAreTyped ==
    ASSUME TypeOK, NEW b \in Browser, NEW revealed \in BOOLEAN
    PROVE  /\ tag \in TagRow /\ now \in Time
           /\ [tag EXCEPT !.scans = @ + 1] \in TagRow
           /\ Scan(b, revealed) \in EventRow
           /\ [Scan(b, revealed) EXCEPT !.shared = {now}] \in EventRow
           /\ Scan(b, revealed).scanner = AddressOf[b] /\ Scan(b, revealed).at = now
           /\ [Scan(b, revealed) EXCEPT !.shared = {now}].scanner = AddressOf[b]
           /\ [Scan(b, revealed) EXCEPT !.shared = {now}].at = now
<1>1. tag \in TagRow /\ now \in Time
  BY DEF TypeOK
<1>2. [tag EXCEPT !.scans = @ + 1] \in TagRow
  BY <1>1 DEF TagRow
<1>3. AddressOf[b] \in Address /\ {now} \in SUBSET Time /\ NULL \in SUBSET Time
  BY <1>1 DEF Address, NULL
<1> DEFINE row == Scan(b, revealed)
<1>4. row \in EventRow /\ row.scanner = AddressOf[b] /\ row.at = now
  BY <1>1, <1>3 DEF Scan, EventRow
<1> HIDE DEF row
<1>5. /\ [row EXCEPT !.shared = {now}] \in EventRow
      /\ [row EXCEPT !.shared = {now}].scanner = row.scanner
      /\ [row EXCEPT !.shared = {now}].at = row.at
  BY <1>3, <1>4 DEF EventRow
<1> QED
  BY <1>1, <1>2, <1>4, <1>5 DEF row

\* A request is read: nothing but the request changes.
LEMMA ReadsAreTyped ==
    ASSUME TypeOK, NEW w \in Worker,
           BeginUpdate(w) \/ \E by \in Browser \cup {Automated}, retired \in Codes :
                                 BeginRead(w, by, retired)
    PROVE  TypeOK'
<1>1. tag \in TagRow
  BY DEF TypeOK
<1>2. PICK r \in Request \cup {Idle} : request' = [request EXCEPT ![w] = r]
  <2>1. CASE BeginUpdate(w)
    <3>1. PICK edited \in {[tag EXCEPT !.status = s] : s \in Status}
                       \cup {[tag EXCEPT !.disclosure = d] : d \in Disclosure}
                       \cup {[tag EXCEPT !.notify = n] : n \in Notify} :
            Serve(w, [op |-> "update", loaded |-> tag, edited |-> edited])
      BY <2>1 DEF BeginUpdate
    <3>2. edited \in TagRow
      BY <1>1, <3>1, ScanLogAssumption DEF TagRow
    <3> QED
      BY <1>1, <3>1, <3>2 DEF Serve, Request
  <2>2. ASSUME NEW by \in Browser \cup {Automated}, NEW retired \in Codes,
               BeginRead(w, by, retired)
        PROVE  \E r \in Request \cup {Idle} : request' = [request EXCEPT ![w] = r]
    <3>1. Counted(tag, retired) \in TagRow
      BY <1>1, CountedRow
    <3>2. retired \in BOOLEAN
      BY ScanLogAssumption
    <3> DEFINE edited == Counted(tag, retired)
    <3> HIDE DEF edited
    <3>3. request' = [request EXCEPT ![w] = [op |-> "read", loaded |-> tag, by |-> by,
                                             retired |-> retired, edited |-> edited]]
      BY <2>2 DEF BeginRead, Serve, edited
    <3> QED
      BY <1>1, <3>1, <3>2, <3>3 DEF Request, edited
  <2> QED
    BY <2>1, <2>2
<1>3. UNCHANGED <<now, tag, events, page, reads, mails>>
  BY DEF BeginUpdate, BeginRead
<1> QED
  BY <1>2, <1>3, RequestTyped DEF TypeOK

\* ... and so for the requests that are about an event.
LEMMA EventsAreTyped ==
    ASSUME TypeOK, NEW w \in Worker, NEW b \in Browser,
           BeginShare(w, b) \/ \E retired \in Codes : BeginView(w, b, retired)
    PROVE  TypeOK'
<1>1. PICK r \in Request \cup {Idle} : request' = [request EXCEPT ![w] = r]
  <2>1. CASE BeginShare(w, b)
    <3>1. CASE Recent(b) # {}
      <4> DEFINE e == RecentDuplicate(b)
      <4>1. e \in DOMAIN events /\ events[e] \in EventRow /\ e \in Event
        BY <3>1, DuplicateIsRecent DEF Recent, TypeOK
      <4> DEFINE row == [events[e] EXCEPT !.shared = {now}]
      <4>2. row \in EventRow
        <5>1. {now} \in SUBSET Time
          BY DEF TypeOK
        <5> HIDE DEF e
        <5> QED
          BY <4>1, <5>1 DEF EventRow
      <4>3. request' = [request EXCEPT ![w] = [op |-> "share", by |-> b, event |-> e,
                                               fresh |-> FALSE, row |-> row]]
        BY <2>1, <3>1 DEF BeginShare, Serve
      <4> HIDE DEF e, row
      <4> QED
        BY <4>1, <4>2, <4>3 DEF Request
    <3>2. CASE Recent(b) = {}
      <4> DEFINE row == [Scan(b, NameReleased(tag, FALSE)) EXCEPT !.shared = {now}]
      <4>1. row \in EventRow
        BY RowsAreTyped DEF NameReleased
      <4>2. PICK e \in Event : request' = [request EXCEPT ![w] =
                [op |-> "share", by |-> b, event |-> e, fresh |-> TRUE, row |-> row]]
        BY <2>1, <3>2 DEF BeginShare, Serve
      <4> HIDE DEF row
      <4> QED
        BY <4>1, <4>2 DEF Request
    <3> QED
      BY <3>1, <3>2
  <2>2. ASSUME NEW retired \in Codes, BeginView(w, b, retired)
        PROVE  \E r \in Request \cup {Idle} : request' = [request EXCEPT ![w] = r]
    <3> DEFINE op == IF ShouldNotify(tag) THEN "mail" ELSE "view"
               edited == [tag EXCEPT !.scans = @ + 1]
               row == Scan(b, NameReleased(tag, retired))
    <3>1. tag \in TagRow /\ edited \in TagRow /\ row \in EventRow
      BY RowsAreTyped DEF NameReleased
    <3>2. PICK e \in Event : request' = [request EXCEPT ![w] =
            [op |-> op, loaded |-> tag, edited |-> edited, by |-> b, event |-> e, row |-> row]]
      BY <2>2 DEF BeginView, Serve
    <3>3. op \in {"mail", "view"}
      OBVIOUS
    <3> HIDE DEF op, edited, row
    <3> QED
      BY <3>1, <3>2, <3>3 DEF Request
  <2> QED
    BY <2>1, <2>2
<1>2. UNCHANGED <<now, tag, events, page, reads, mails>>
  BY DEF BeginShare, BeginView
<1> QED
  BY <1>1, <1>2, RequestTyped DEF TypeOK

\* The mail of a scan, sent or not.
LEMMA MailedRequest ==
    ASSUME TypeOK, NEW w \in Worker, SendMail(w) \/ MailFails(w)
    PROVE  /\ request[w] \in [op: {"mail", "view"}, loaded: TagRow, edited: TagRow, by: Browser,
                              event: Event, row: EventRow]
           /\ \E r \in [op: {"mail", "view"}, loaded: TagRow, edited: TagRow, by: Browser,
                        event: Event, row: EventRow] :
                /\ request' = [request EXCEPT ![w] = r]
                /\ r.op = "view" /\ r.loaded = request[w].loaded
                /\ r.event = request[w].event /\ r.by = request[w].by
                /\ r.row.scanner = request[w].row.scanner /\ r.row.at = request[w].row.at
                /\ r.row.shared = request[w].row.shared
                /\ r.edited.scans = request[w].edited.scans
                /\ r.edited.fetches = request[w].edited.fetches
                /\ r.edited.lastNotified =
                    IF SendMail(w) THEN {now} ELSE request[w].edited.lastNotified
<1> DEFINE q == request[w]
           Form == [op: {"mail", "view"}, loaded: TagRow, edited: TagRow, by: Browser,
                    event: Event, row: EventRow]
<1>1. q \in Form /\ q.op = "mail"
  BY RequestForms DEF SendMail, MailFails
<1>2. now \in Time /\ w \in DOMAIN request
  BY DEF TypeOK
<1>3. CASE SendMail(w)
  <2> DEFINE edited == [q.edited EXCEPT !.lastNotified = {now}]
             row == [q.row EXCEPT !.notified = TRUE]
             r == [q EXCEPT !.op = "view", !.edited = edited, !.row = row]
  <2>1. /\ edited \in TagRow /\ edited.scans = q.edited.scans
        /\ edited.fetches = q.edited.fetches /\ edited.lastNotified = {now}
    BY <1>1, <1>2 DEF TagRow
  <2>2. /\ row \in EventRow /\ row.scanner = q.row.scanner /\ row.at = q.row.at
        /\ row.shared = q.row.shared
    BY <1>1 DEF EventRow
  <2>3. request' = [request EXCEPT ![w] = r]
    BY <1>1, <1>2, <1>3 DEF SendMail
  <2> HIDE DEF edited, row
  <2>4. /\ r \in Form /\ r.op = "view" /\ r.loaded = q.loaded /\ r.event = q.event
        /\ r.by = q.by /\ r.edited = edited /\ r.row = row
    BY <1>1, <2>1, <2>2
  <2> HIDE DEF r, q
  <2> QED
    BY <1>1, <1>3, <2>1, <2>2, <2>3, <2>4 DEF q
<1>4. CASE MailFails(w) /\ ~SendMail(w)
  <2> DEFINE r == [q EXCEPT !.op = "view"]
  <2>1. request' = [request EXCEPT ![w] = r]
    BY <1>2, <1>4 DEF MailFails
  <2>2. /\ r \in Form /\ r.op = "view" /\ r.loaded = q.loaded /\ r.event = q.event
        /\ r.by = q.by /\ r.edited = q.edited /\ r.row = q.row
    BY <1>1
  <2> HIDE DEF r, q
  <2> QED
    BY <1>1, <1>4, <2>1, <2>2 DEF q
<1> QED
  BY <1>3, <1>4

\* A request ends: what it writes has its type.
LEMMA CommitsAreTyped ==
    ASSUME TypeOK, NEW w \in Worker,
           CommitUpdate(w) \/ CommitRead(w) \/ CommitView(w) \/ CommitShare(w)
    PROVE  TypeOK'
<1> DEFINE r == request[w]
<1>1. request' = [request EXCEPT ![w] = Idle] /\ now' = now
  BY DEF CommitUpdate, CommitRead, CommitView, CommitShare, Respond
<1>2. DOMAIN request' = Worker /\ \A v \in Worker : request'[v] \in Request \cup {Idle}
  BY <1>1, RequestTyped
<1>3. tag' \in TagRow
  <2>1. CASE r.op = "share"
    BY <2>1 DEF CommitUpdate, CommitRead, CommitView, CommitShare, TypeOK
  <2>2. CASE r.op # "share"
    <3>1. r.loaded \in TagRow /\ r.edited \in TagRow /\ tag \in TagRow
      BY <2>2, RequestForms DEF CommitUpdate, CommitRead, CommitView, CommitShare, TypeOK
    <3>2. tag' = Flushed(tag, r.loaded, r.edited)
      BY <2>2 DEF CommitUpdate, CommitRead, CommitView, CommitShare, Save
    <3> HIDE DEF r
    <3> QED
      BY <3>1, <3>2, FlushedTag
  <2> QED
    BY <2>1, <2>2
<1>4. DOMAIN events' \subseteq Event /\ \A e \in DOMAIN events' : events'[e] \in EventRow
  <2>1. CASE r.op \in {"view", "share"}
    <3>1. r.event \in Event /\ r.row \in EventRow
      BY <2>1, RequestForms
    <3>2. events' = [e \in DOMAIN events \cup {r.event} |-> IF e = r.event THEN r.row ELSE events[e]]
      BY <2>1 DEF CommitUpdate, CommitRead, CommitView, CommitShare
    <3> HIDE DEF r
    <3> QED
      BY <3>1, <3>2 DEF TypeOK
  <2>2. CASE r.op \notin {"view", "share"}
    BY <2>2 DEF CommitUpdate, CommitRead, CommitView, CommitShare, TypeOK
  <2> QED
    BY <2>1, <2>2
<1>5. page' \in [Browser -> {"none", "announced"} \cup Unannounced]
  <2>1. CASE CommitRead(w)
    <3>1. page' = [b \in Browser |-> IF b = r.by
            THEN IF NameReleased(r.edited, r.retired) THEN "named" ELSE "plain" ELSE page[b]]
      BY <2>1 DEF CommitRead
    <3> HIDE DEF r
    <3> QED
      BY <3>1 DEF TypeOK, Unannounced
  <2>2. CASE ~CommitRead(w)
    BY <2>2 DEF CommitUpdate, CommitView, CommitShare, TypeOK
  <2> QED
    BY <2>1, <2>2
<1>6. reads' \in [browser: Nat, automated: Nat, retired: Nat, overlapped: Nat]
  <2>1. CASE CommitRead(w)
    BY <2>1 DEF CommitRead, TypeOK
  <2>2. CASE ~CommitRead(w)
    BY <2>2 DEF CommitUpdate, CommitView, CommitShare, TypeOK
  <2> QED
    BY <2>1, <2>2
<1>7. DOMAIN mails' \subseteq Event /\ \A e \in DOMAIN mails' : mails'[e] \in Mail
  <2>1. CASE CommitView(w)
    <3> DEFINE raced == Overlapped(w, {"mail", "view"})
    <3>1. /\ DOMAIN mails' = DOMAIN mails
          /\ \A e \in DOMAIN mails : mails'[e] =
                IF e = r.event THEN [mails[e] EXCEPT !.noted = TRUE, !.raced = raced] ELSE mails[e]
      BY <2>1 DEF CommitView
    <3>2. raced \in BOOLEAN
      BY DEF Overlapped
    <3> HIDE DEF r, raced
    <3>3. ASSUME NEW e \in DOMAIN mails
          PROVE  mails'[e] \in Mail
      <4>1. mails[e] \in Mail
        BY DEF TypeOK
      <4> QED
        BY <3>1, <3>2, <4>1 DEF Mail
    <3> QED
      BY <3>1, <3>3 DEF TypeOK
  <2>2. CASE ~CommitView(w)
    BY <2>2 DEF CommitUpdate, CommitRead, CommitShare, TypeOK
  <2> QED
    BY <2>1, <2>2
<1> HIDE DEF r
<1> QED
  BY <1>1, <1>2, <1>3, <1>4, <1>5, <1>6, <1>7 DEF TypeOK

\* Everything has its type to begin with.
LEMMA InitTyped == Init => TypeOK
  BY ScanLogAssumption DEF Init, TypeOK, Request, Idle, Time, TagRow, NULL, Unannounced

\* Every step keeps the types.
LEMMA NextTyped == TypeOK /\ [Next]_vars => TypeOK'
<1> SUFFICES ASSUME TypeOK, [Next]_vars
             PROVE  TypeOK'
  OBVIOUS
<1>1. ASSUME NEW w \in Worker, Handler(w)
      PROVE  TypeOK'
  <2>1. CASE SendMail(w) \/ MailFails(w)
    <3> DEFINE r == request[w]
    <3>1. r.event \in Event
      BY <2>1, MailedRequest
    <3>2. \E q \in Request \cup {Idle} : request' = [request EXCEPT ![w] = q]
      BY <2>1, MailedRequest DEF Request
    <3>3. DOMAIN mails' \subseteq Event /\ \A e \in DOMAIN mails' : mails'[e] \in Mail
      <4>1. CASE SendMail(w)
        <5> DEFINE mail == [at |-> now, named |-> NameReleased(r.loaded, FALSE), noted |-> FALSE,
                          raced |-> FALSE]
        <5>1. mail \in Mail
          BY DEF Mail, NameReleased, TypeOK
        <5>2. /\ DOMAIN mails' = DOMAIN mails \cup {r.event}
              /\ \A e \in DOMAIN mails' : mails'[e] = IF e = r.event THEN mail ELSE mails[e]
          BY <4>1 DEF SendMail
        <5>3. DOMAIN mails \subseteq Event /\ \A e \in DOMAIN mails : mails[e] \in Mail
          BY DEF TypeOK
        <5> HIDE DEF r, mail
        <5> QED
          BY <3>1, <5>1, <5>2, <5>3
      <4>2. CASE MailFails(w)
        BY <4>2 DEF MailFails, TypeOK
      <4> QED
        BY <2>1, <4>1, <4>2
    <3>4. UNCHANGED <<now, tag, events, page, reads>>
      BY <2>1 DEF SendMail, MailFails
    <3> QED
      BY <3>2, <3>3, <3>4, RequestTyped DEF TypeOK
  <2>2. CASE RefuseShare(w) \/ Crash(w)
    <3>1. request' = [request EXCEPT ![w] = Idle]
      BY <2>2 DEF RefuseShare, Crash, Respond
    <3>2. UNCHANGED <<now, tag, events, page, reads, mails>>
      BY <2>2 DEF RefuseShare, Crash
    <3> QED
      BY <3>1, <3>2, RequestTyped DEF TypeOK
  <2>3. CASE \E b \in Browser : RepeatView(w, b)
    BY <2>3 DEF RepeatView, TypeOK
  <2> QED
    BY <1>1, <2>1, <2>2, <2>3, ReadsAreTyped, EventsAreTyped, CommitsAreTyped DEF Handler
<1>2. CASE \E b \in Browser : OwnersOwn(b)
  BY <1>2 DEF OwnersOwn, TypeOK
<1>3. CASE Purge
  BY <1>3 DEF Purge, TypeOK
<1>4. CASE Tick
  BY <1>4, ScanLogAssumption DEF Tick, TypeOK, Time
<1>5. CASE UNCHANGED vars
  BY <1>5 DEF vars, TypeOK
<1> QED
  BY <1>1, <1>2, <1>3, <1>4, <1>5 DEF Next

\* The rows, the requests and the history have their types.
THEOREM ScanLogIsTyped == Spec => []TypeOK
  BY InitTyped, NextTyped, PTL DEF Spec

-----------------------------------------------------------------------------
(* The history *)

\* What is recorded and under way in a window is finite, and the latter at most
\* one for every worker.
LEMMA WindowsAreFinite ==
    ASSUME HistoryInv, NEW s, NEW t
    PROVE  /\ IsFiniteSet(Recorded(s, t)) /\ IsFiniteSet(UnderWay(s, t)) /\ IsFiniteSet(Worker)
           /\ Cardinality(Recorded(s, t)) \in Nat /\ Cardinality(UnderWay(s, t)) \in Nat
           /\ Cardinality(Worker) \in Nat
           /\ \A w \in Worker : Cardinality({w} \cup UnderWay(s, t)) <= Cardinality(Worker)
<1>1. IsFiniteSet(DOMAIN events) /\ Recorded(s, t) \subseteq DOMAIN events
  BY DEF HistoryInv, Recorded
<1>2. IsFiniteSet(Worker) /\ UnderWay(s, t) \subseteq Worker
  BY ScanLogAssumption DEF UnderWay
<1>3. IsFiniteSet(Recorded(s, t)) /\ IsFiniteSet(UnderWay(s, t))
  BY <1>1, <1>2, FS_Subset
<1>4. ASSUME NEW w \in Worker
      PROVE  Cardinality({w} \cup UnderWay(s, t)) <= Cardinality(Worker)
  <2>1. {w} \cup UnderWay(s, t) \subseteq Worker
    BY <1>2
  <2> QED
    BY <1>2, <2>1, FS_Subset
<1> QED
  BY <1>2, <1>3, <1>4, FS_CardinalityType

\* A step that records nothing: events may go, or be updated without changing
\* their scanner or their time, and requests may end or send their mail.
LEMMA QuietStep ==
    ASSUME HistoryInv, TypeOK', now <= now',
           \A e \in DOMAIN events' :
              /\ e \in DOMAIN events
              /\ events'[e].scanner = events[e].scanner /\ events'[e].at = events[e].at,
           \A v \in Worker : HasEvent(v)' =>
              /\ HasEvent(v) /\ (Recording(v)' <=> Recording(v))
              /\ request'[v].event = request[v].event
              /\ request'[v].row.scanner = request[v].row.scanner
              /\ request'[v].row.at = request[v].row.at
    PROVE  HistoryInv'
<1>1. IsFiniteSet(DOMAIN events')
  <2>1. DOMAIN events' \subseteq DOMAIN events /\ IsFiniteSet(DOMAIN events)
    BY DEF HistoryInv
  <2> QED
    BY <2>1, FS_Subset
<1>2. now \in Nat /\ now' \in Nat
  BY ScanLogAssumption DEF HistoryInv, TypeOK, Time
<1>3. \A v \in Worker : Recording(v)' => HasEvent(v)' /\ HasEvent(v) /\ Recording(v)
  BY DEF Recording, HasEvent
<1>4. EventsAreApart'
  <2>1. \A e \in DOMAIN events' : events'[e].at <= now'
    <3> SUFFICES ASSUME NEW e \in DOMAIN events'
                 PROVE  events'[e].at <= now'
      OBVIOUS
    <3>1. events[e].at \in Nat /\ events[e].at <= now /\ events'[e].at = events[e].at
      BY ScanLogAssumption DEF HistoryInv, EventsAreApart, TypeOK, EventRow, Time
    <3> QED
      BY <1>2, <3>1
  <2>2. ASSUME NEW v \in Worker, Recording(v)'
        PROVE  /\ request'[v].event \notin DOMAIN events' /\ request'[v].row.at <= now'
               /\ \A u \in Worker \ {v} : HasEvent(u)' => request'[u].event # request'[v].event
    <3>1. request[v].row.at \in Nat
      <4>1. request[v].row \in EventRow
        BY <1>3, <2>2, RequestForms DEF HistoryInv, HasEvent
      <4> QED
        BY <4>1, ScanLogAssumption DEF EventRow, Time
    <3>2. request[v].event \notin DOMAIN events /\ request[v].row.at <= now
          /\ \A u \in Worker \ {v} : HasEvent(u) => request[u].event # request[v].event
      BY <1>3, <2>2 DEF HistoryInv, EventsAreApart
    <3>3. /\ request'[v].event = request[v].event /\ request'[v].row.at = request[v].row.at
      BY <1>3, <2>2
    <3> QED
      BY <1>2, <3>1, <3>2, <3>3
  <2>3. ASSUME NEW v \in Worker, request'[v].op = "share", ~request'[v].fresh,
               request'[v].event \in DOMAIN events'
        PROVE  /\ request'[v].row.scanner = events'[request'[v].event].scanner
               /\ request'[v].row.at = events'[request'[v].event].at
    <3>1. HasEvent(v)' /\ HasEvent(v) /\ ~Recording(v)
      BY <2>3 DEF HasEvent, Recording
    <3>2. request[v].op = "share" /\ ~request[v].fresh
      BY <3>1 DEF HasEvent, Recording
    <3> QED
      BY <2>3, <3>1, <3>2 DEF HistoryInv, EventsAreApart
  <2> QED
    BY <2>1, <2>2, <2>3 DEF EventsAreApart
<1>5. FewAtATime'
  <2> SUFFICES ASSUME NEW s \in Address \ {Unknown}, NEW t \in Time
               PROVE  Cardinality(Recorded(s, t)') + Cardinality(UnderWay(s, t)')
                        <= Cardinality(Worker)
    BY DEF FewAtATime
  <2>1. Recorded(s, t)' \subseteq Recorded(s, t)
    BY DEF Recorded
  <2>2. UnderWay(s, t)' \subseteq UnderWay(s, t)
    BY <1>3 DEF UnderWay
  <2>3. /\ Cardinality(Recorded(s, t)') <= Cardinality(Recorded(s, t))
        /\ Cardinality(UnderWay(s, t)') <= Cardinality(UnderWay(s, t))
        /\ IsFiniteSet(Recorded(s, t)') /\ IsFiniteSet(UnderWay(s, t)')
    BY <2>1, <2>2, WindowsAreFinite, FS_Subset
  <2>4. Cardinality(Recorded(s, t)') \in Nat /\ Cardinality(UnderWay(s, t)') \in Nat
    BY <2>3, FS_CardinalityType
  <2>5. Cardinality(Recorded(s, t)) + Cardinality(UnderWay(s, t)) <= Cardinality(Worker)
    BY DEF HistoryInv, FewAtATime
  <2> QED
    BY <2>3, <2>4, <2>5, WindowsAreFinite
<1> QED
  BY <1>1, <1>4, <1>5 DEF HistoryInv

\* A request that records a scan begins when nothing is recorded of its scanner in
\* the window that ends now: so there is nothing in any window it falls into.
LEMMA RecordStep ==
    ASSUME HistoryInv, TypeOK', NEW w \in Worker, NEW b \in Browser, Recent(b) = {},
           now' = now, events' = events, ~HasEvent(w),
           \A v \in Worker : v # w => request'[v] = request[v],
           FreshEvent(request'[w].event), Recording(w)',
           request'[w].row.scanner = AddressOf[b], request'[w].row.at = now
    PROVE  HistoryInv'
<1>1. now \in Nat /\ DedupWindow \in Nat /\ \A t \in Time : t \in Nat
  BY ScanLogAssumption DEF HistoryInv, TypeOK, Time
<1>2. \A v \in Worker : HasEvent(v) => request[v].event # request'[w].event
  BY DEF FreshEvent, HasEvent, Idle
<1>3. \A v \in Worker : v # w => (Recording(v)' <=> Recording(v)) /\ (HasEvent(v)' <=> HasEvent(v))
  BY DEF Recording, HasEvent
<1>4. EventsAreApart'
  <2>1. ASSUME NEW v \in Worker, Recording(v)'
        PROVE  /\ request'[v].event \notin DOMAIN events /\ request'[v].row.at <= now
               /\ \A u \in Worker \ {v} : HasEvent(u)' => request'[u].event # request'[v].event
    <3>1. CASE v = w
      BY <1>1, <1>2, <1>3, <3>1 DEF FreshEvent
    <3>2. CASE v # w
      <4>1. Recording(v) /\ HasEvent(v) /\ request'[v] = request[v]
        BY <1>3, <2>1, <3>2 DEF Recording, HasEvent
      <4>2. /\ request[v].event \notin DOMAIN events /\ request[v].row.at <= now
            /\ \A u \in Worker \ {v} : HasEvent(u) => request[u].event # request[v].event
        BY <4>1 DEF HistoryInv, EventsAreApart
      <4> QED
        BY <1>2, <1>3, <4>1, <4>2
    <3> QED
      BY <3>1, <3>2
  <2>2. \A v \in Worker : request'[v].op = "share" /\ ~request'[v].fresh => v # w
    BY DEF Recording
  <2> QED
    BY <2>1, <2>2 DEF HistoryInv, EventsAreApart
<1>5. FewAtATime'
  <2> SUFFICES ASSUME NEW s \in Address \ {Unknown}, NEW t \in Time
               PROVE  Cardinality(Recorded(s, t)) + Cardinality(UnderWay(s, t)')
                        <= Cardinality(Worker)
    BY DEF FewAtATime, Recorded
  <2>1. UnderWay(s, t)' \subseteq {w} \cup UnderWay(s, t)
    BY <1>3 DEF UnderWay
  <2>2. Cardinality(Recorded(s, t)) + Cardinality(UnderWay(s, t)) <= Cardinality(Worker)
    BY DEF HistoryInv, FewAtATime
  <2>3. CASE s = AddressOf[b] /\ Within(now, t)
    <3>1. Recorded(s, t) = {}
      <4> SUFFICES ASSUME NEW e \in Recorded(s, t)
                   PROVE  FALSE
        OBVIOUS
      <4>1. /\ e \in DOMAIN events /\ events[e].scanner = s /\ Within(events[e].at, t)
            /\ events[e].at \in Nat
        BY ScanLogAssumption DEF Recorded, HistoryInv, TypeOK, EventRow, Time
      <4>2. events[e].at + DedupWindow >= now
        BY <1>1, <2>3, <4>1 DEF Within
      <4> QED
        BY <2>3, <4>1, <4>2 DEF Recent
    <3>2. Cardinality(Recorded(s, t)) = 0
      BY <3>1, FS_EmptySet
    <3>3. Cardinality(UnderWay(s, t)') <= Cardinality(Worker)
      <4>1. UnderWay(s, t)' \subseteq Worker
        BY DEF UnderWay
      <4> QED
        BY <4>1, WindowsAreFinite, FS_Subset
    <3>4. Cardinality(UnderWay(s, t)') \in Nat
      <4>1. IsFiniteSet(UnderWay(s, t)')
        BY WindowsAreFinite, FS_Subset DEF UnderWay
      <4> QED
        BY <4>1, FS_CardinalityType
    <3> QED
      BY <3>2, <3>3, <3>4
  <2>4. CASE ~(s = AddressOf[b] /\ Within(now, t))
    <3>1. UnderWay(s, t)' = UnderWay(s, t)
      <4>1. w \notin UnderWay(s, t)'
        BY <2>4 DEF UnderWay
      <4>2. w \notin UnderWay(s, t)
        BY DEF UnderWay, Recording, HasEvent
      <4> QED
        BY <1>3, <4>1, <4>2 DEF UnderWay
    <3> QED
      BY <2>2, <3>1
  <2> QED
    BY <2>3, <2>4
<1> QED
  BY <1>4, <1>5 DEF HistoryInv

\* A share of the recent event loads it; the event keeps its scanner and its time.
LEMMA JoinStep ==
    ASSUME HistoryInv, TypeOK', NEW w \in Worker, now' = now, events' = events, ~HasEvent(w),
           \A v \in Worker : v # w => request'[v] = request[v],
           request'[w].op = "share", ~request'[w].fresh, request'[w].event \in DOMAIN events,
           request'[w].row.scanner = events[request'[w].event].scanner,
           request'[w].row.at = events[request'[w].event].at
    PROVE  HistoryInv'
<1>1. \A v \in Worker : Recording(v)' <=> Recording(v)
  BY DEF Recording, HasEvent
<1>2. \A v \in Worker : Recording(v) => v # w
  BY DEF Recording, HasEvent
<1>3. EventsAreApart'
  <2>1. ASSUME NEW v \in Worker, Recording(v)'
        PROVE  /\ request'[v].event \notin DOMAIN events' /\ request'[v].row.at <= now'
               /\ \A u \in Worker \ {v} : HasEvent(u)' => request'[u].event # request'[v].event
    <3>1. Recording(v) /\ v # w /\ request'[v] = request[v]
      BY <1>1, <1>2, <2>1
    <3>2. /\ request[v].event \notin DOMAIN events /\ request[v].row.at <= now
          /\ \A u \in Worker \ {v} : HasEvent(u) => request[u].event # request[v].event
      BY <3>1 DEF HistoryInv, EventsAreApart
    <3> QED
      BY <3>1, <3>2 DEF HasEvent
  <2> QED
    BY <2>1 DEF HistoryInv, EventsAreApart
<1>4. \A s, t : UnderWay(s, t)' = UnderWay(s, t) /\ Recorded(s, t)' = Recorded(s, t)
  BY <1>1, <1>2 DEF UnderWay, Recorded
<1>5. FewAtATime'
  BY <1>4 DEF HistoryInv, FewAtATime
<1> QED
  BY <1>3, <1>5 DEF HistoryInv

\* What was under way is recorded: in each window the sum stays what it was.
LEMMA AddStep ==
    ASSUME HistoryInv, TypeOK', NEW w \in Worker, Recording(w), now' = now, Respond(w),
           events' = [e \in DOMAIN events \cup {request[w].event} |->
                        IF e = request[w].event THEN request[w].row ELSE events[e]]
    PROVE  HistoryInv'
<1> DEFINE x == request[w].event
           row == request[w].row
<1>1. /\ x \notin DOMAIN events /\ row.at <= now
      /\ \A u \in Worker \ {w} : HasEvent(u) => request[u].event # x
  BY DEF HistoryInv, EventsAreApart
<1>2. /\ ~HasEvent(w)' /\ ~Recording(w)' /\ HasEvent(w)
      /\ \A v \in Worker : v # w => request'[v] = request[v]
  BY DEF Respond, HistoryInv, TypeOK, HasEvent, Recording, Idle
<1>3. \A v \in Worker : Recording(v)' => v # w /\ Recording(v) /\ HasEvent(v)
  BY <1>2 DEF Recording, HasEvent
<1>4. /\ DOMAIN events' = DOMAIN events \cup {x}
      /\ events'[x] = row /\ \A e \in DOMAIN events : events'[e] = events[e]
  BY <1>1
<1> HIDE DEF x, row
<1>5. IsFiniteSet(DOMAIN events')
  BY <1>4, FS_AddElement DEF HistoryInv
<1>6. EventsAreApart'
  <2>1. \A e \in DOMAIN events' : events'[e].at <= now'
    BY <1>1, <1>4 DEF HistoryInv, EventsAreApart
  <2>2. ASSUME NEW v \in Worker, Recording(v)'
        PROVE  /\ request'[v].event \notin DOMAIN events' /\ request'[v].row.at <= now'
               /\ \A u \in Worker \ {v} : HasEvent(u)' => request'[u].event # request'[v].event
    <3>1. /\ v # w /\ request'[v] = request[v] /\ request[v].event # x
      BY <1>1, <1>2, <1>3, <2>2
    <3>2. /\ request[v].event \notin DOMAIN events /\ request[v].row.at <= now
          /\ \A u \in Worker \ {v} : HasEvent(u) => request[u].event # request[v].event
      BY <1>3, <2>2 DEF HistoryInv, EventsAreApart
    <3>3. \A u \in Worker : HasEvent(u)' => u # w /\ HasEvent(u) /\ request'[u] = request[u]
      BY <1>2 DEF HasEvent
    <3> QED
      BY <1>4, <3>1, <3>2, <3>3
  <2>3. ASSUME NEW v \in Worker, request'[v].op = "share", ~request'[v].fresh,
               request'[v].event \in DOMAIN events'
        PROVE  /\ request'[v].row.scanner = events'[request'[v].event].scanner
               /\ request'[v].row.at = events'[request'[v].event].at
    <3>1. v # w /\ request'[v] = request[v] /\ HasEvent(v)
      BY <1>2, <2>3 DEF HasEvent
    <3>2. request[v].event # x
      BY <1>1, <3>1
    <3> QED
      BY <1>4, <2>3, <3>1, <3>2 DEF HistoryInv, EventsAreApart
  <2> QED
    BY <2>1, <2>2, <2>3 DEF EventsAreApart
<1>7. FewAtATime'
  <2> SUFFICES ASSUME NEW s \in Address \ {Unknown}, NEW t \in Time
               PROVE  Cardinality(Recorded(s, t)') + Cardinality(UnderWay(s, t)')
                        <= Cardinality(Worker)
    BY DEF FewAtATime
  <2>1. Cardinality(Recorded(s, t)) + Cardinality(UnderWay(s, t)) <= Cardinality(Worker)
    BY DEF HistoryInv, FewAtATime
  <2>2. UnderWay(s, t)' = UnderWay(s, t) \ {w}
    BY <1>2 DEF UnderWay, Recording
  <2>3. CASE row.scanner = s /\ Within(row.at, t)
    <3>1. w \in UnderWay(s, t)
      BY <2>3 DEF UnderWay, row
    <3>2. Recorded(s, t)' = Recorded(s, t) \cup {x} /\ x \notin Recorded(s, t)
      BY <1>1, <1>4, <2>3 DEF Recorded
    <3>3. IsFiniteSet(Recorded(s, t)) /\ IsFiniteSet(UnderWay(s, t))
      BY WindowsAreFinite
    <3>4. Cardinality(Recorded(s, t)') = Cardinality(Recorded(s, t)) + 1
      BY <3>2, <3>3, FS_AddElement
    <3>5. Cardinality(UnderWay(s, t)') = Cardinality(UnderWay(s, t)) - 1
      BY <2>2, <3>1, <3>3, FS_RemoveElement
    <3> QED
      BY <2>1, <3>4, <3>5, WindowsAreFinite
  <2>4. CASE ~(row.scanner = s /\ Within(row.at, t))
    <3>1. w \notin UnderWay(s, t)
      BY <2>4 DEF UnderWay, row
    <3>2. Recorded(s, t)' = Recorded(s, t) /\ UnderWay(s, t)' = UnderWay(s, t)
      BY <1>1, <1>4, <2>2, <2>4, <3>1 DEF Recorded
    <3> QED
      BY <2>1, <3>2
  <2> QED
    BY <2>3, <2>4
<1> QED
  BY <1>5, <1>6, <1>7 DEF HistoryInv

\* A handler's step keeps what is known of the history.
LEMMA HandlerKeepsHistory ==
    ASSUME HistoryInv, TypeOK', NEW w \in Worker, Handler(w)
    PROVE  HistoryInv'
<1>1. /\ now \in Nat /\ DOMAIN request = Worker
      /\ \A v \in Worker : HasEvent(v) => request[v].event \in Event
  <2>1. TypeOK
    BY DEF HistoryInv
  <2> QED
    BY <2>1, RequestForms, ScanLogAssumption DEF TypeOK, Time, HasEvent
<1>2. CASE \/ BeginUpdate(w) \/ CommitUpdate(w) \/ CommitRead(w)
           \/ \E by \in Browser \cup {Automated}, retired \in Codes : BeginRead(w, by, retired)
           \/ RefuseShare(w) \/ Crash(w)
           \/ \E b \in Browser : RepeatView(w, b)
  <2>1. /\ \A v \in Worker : HasEvent(v)' => request'[v] = request[v]
        /\ UNCHANGED <<now, events>>
    <3>1. CASE BeginUpdate(w)
      BY <1>1, <3>1 DEF BeginUpdate, Serve, HasEvent
    <3>2. CASE CommitUpdate(w) \/ CommitRead(w) \/ RefuseShare(w) \/ Crash(w)
      BY <1>1, <3>2 DEF CommitUpdate, CommitRead, RefuseShare, Crash, Respond, HasEvent, Idle
    <3>3. ASSUME NEW by \in Browser \cup {Automated}, NEW retired \in Codes,
                 BeginRead(w, by, retired)
          PROVE  /\ \A v \in Worker : HasEvent(v)' => request'[v] = request[v]
                 /\ UNCHANGED <<now, events>>
      BY <1>1, <3>3 DEF BeginRead, Serve, HasEvent
    <3>4. CASE \E b \in Browser : RepeatView(w, b)
      BY <3>4 DEF RepeatView
    <3> QED
      BY <1>2, <3>1, <3>2, <3>3, <3>4
  <2> QED
    BY <1>1, <2>1, QuietStep DEF HasEvent, Recording
<1>3. CASE SendMail(w) \/ MailFails(w)
  <2> DEFINE q == request[w]
             Form == [op: {"mail", "view"}, loaded: TagRow, edited: TagRow, by: Browser,
                      event: Event, row: EventRow]
  <2>1. PICK r \in Form :
            /\ request' = [request EXCEPT ![w] = r]
            /\ r.op = "view" /\ r.event = q.event
            /\ r.row.scanner = q.row.scanner /\ r.row.at = q.row.at
    BY <1>3, MailedRequest DEF HistoryInv
  <2>2. q.op = "mail" /\ UNCHANGED <<now, events>>
    BY <1>3 DEF SendMail, MailFails
  <2>3. request'[w] = r /\ \A v \in Worker : v # w => request'[v] = request[v]
    BY <1>1, <2>1
  <2> QED
    BY <1>1, <2>1, <2>2, <2>3, QuietStep DEF HasEvent, Recording
<1>4. ASSUME NEW b \in Browser, NEW retired \in Codes, BeginView(w, b, retired)
      PROVE  HistoryInv'
  <2> DEFINE op == IF ShouldNotify(tag) THEN "mail" ELSE "view"
             edited == [tag EXCEPT !.scans = @ + 1]
             row == Scan(b, NameReleased(tag, retired))
  <2>1. PICK e \in Event : FreshEvent(e) /\ request' = [request EXCEPT ![w] =
            [op |-> op, loaded |-> tag, edited |-> edited, by |-> b, event |-> e, row |-> row]]
    BY <1>4 DEF BeginView, Serve
  <2>2. op \in {"mail", "view"} /\ row.scanner = AddressOf[b] /\ row.at = now
    BY DEF Scan
  <2> HIDE DEF op, edited, row
  <2>3. /\ request'[w].op \in {"mail", "view"} /\ request'[w].event = e /\ request'[w].row = row
        /\ \A v \in Worker : v # w => request'[v] = request[v]
    BY <1>1, <2>1, <2>2
  <2>4. /\ ~HasEvent(w) /\ Recent(b) = {} /\ UNCHANGED <<now, events>>
    BY <1>4 DEF BeginView, Serve, Idle, HasEvent
  <2> QED
    BY <2>1, <2>2, <2>3, <2>4, RecordStep DEF Recording
<1>5. ASSUME NEW b \in Browser, BeginShare(w, b)
      PROVE  HistoryInv'
  <2>1. /\ ~HasEvent(w) /\ UNCHANGED <<now, events>>
    <3>1. request[w] = Idle
      BY <1>5 DEF BeginShare, Serve
    <3> QED
      BY <1>5, <3>1 DEF BeginShare, Idle, HasEvent
  <2>2. CASE Recent(b) # {}
    <3> DEFINE e == RecentDuplicate(b)
               row == [events[e] EXCEPT !.shared = {now}]
    <3>1. e \in DOMAIN events /\ events[e] \in EventRow
      BY <2>2, DuplicateIsRecent DEF Recent, TypeOK, HistoryInv
    <3>2. row.scanner = events[e].scanner /\ row.at = events[e].at
      BY <3>1 DEF EventRow
    <3>3. request' = [request EXCEPT ![w] = [op |-> "share", by |-> b, event |-> e,
                                             fresh |-> FALSE, row |-> row]]
      BY <1>5, <2>2 DEF BeginShare, Serve
    <3> HIDE DEF e, row
    <3>4. /\ request'[w].op = "share" /\ ~request'[w].fresh /\ request'[w].event = e
          /\ request'[w].row = row /\ \A v \in Worker : v # w => request'[v] = request[v]
      BY <1>1, <3>3
    <3> QED
      BY <2>1, <3>1, <3>2, <3>4, JoinStep
  <2>3. CASE Recent(b) = {}
    <3> DEFINE row == [Scan(b, NameReleased(tag, FALSE)) EXCEPT !.shared = {now}]
    <3>1. row.scanner = AddressOf[b] /\ row.at = now
      BY DEF Scan
    <3>2. PICK e \in Event : FreshEvent(e) /\ request' = [request EXCEPT ![w] =
            [op |-> "share", by |-> b, event |-> e, fresh |-> TRUE, row |-> row]]
      BY <1>5, <2>3 DEF BeginShare, Serve
    <3> HIDE DEF row
    <3>3. /\ request'[w].op = "share" /\ request'[w].fresh /\ request'[w].event = e
          /\ request'[w].row = row /\ \A v \in Worker : v # w => request'[v] = request[v]
      BY <1>1, <3>2
    <3> QED
      BY <2>1, <2>3, <3>1, <3>2, <3>3, RecordStep DEF Recording
  <2> QED
    BY <2>2, <2>3
<1>6. CASE CommitView(w)
  BY <1>6, AddStep DEF CommitView, Recording
<1>7. CASE CommitShare(w)
  <2>1. CASE request[w].fresh
    BY <1>7, <2>1, AddStep DEF CommitShare, Recording
  <2>2. CASE ~request[w].fresh
    <3> DEFINE r == request[w]
    <3>1. /\ r.event \in DOMAIN events /\ now' = now
          /\ r.row.scanner = events[r.event].scanner /\ r.row.at = events[r.event].at
      BY <1>7, <2>2 DEF CommitShare, HistoryInv, EventsAreApart
    <3>2. events' = [e \in DOMAIN events |-> IF e = r.event THEN r.row ELSE events[e]]
      <4>1. DOMAIN events \cup {r.event} = DOMAIN events
        BY <3>1
      <4> QED
        BY <1>7, <4>1 DEF CommitShare
    <3>3. \A v \in Worker : HasEvent(v)' => request'[v] = request[v]
      BY <1>1, <1>7 DEF CommitShare, Respond, HasEvent, Idle
    <3> HIDE DEF r
    <3>4. \A e \in DOMAIN events' :
              /\ e \in DOMAIN events
              /\ events'[e].scanner = events[e].scanner /\ events'[e].at = events[e].at
      BY <3>1, <3>2
    <3> QED
      BY <1>1, <3>1, <3>3, <3>4, QuietStep DEF HasEvent, Recording
  <2> QED
    BY <2>1, <2>2
<1> QED
  BY <1>2, <1>3, <1>4, <1>5, <1>6, <1>7 DEF Handler

\* There is no history to begin with.
LEMMA InitHistory == Init => HistoryInv
<1> SUFFICES ASSUME Init
             PROVE  HistoryInv
  OBVIOUS
<1>1. TypeOK
  BY InitTyped
<1>2. IsFiniteSet(DOMAIN events) /\ EventsAreApart
  BY FS_EmptySet DEF Init, EventsAreApart, Recording, HasEvent, Idle
<1>3. \A s, t : Recorded(s, t) = {} /\ UnderWay(s, t) = {}
  BY DEF Init, Recorded, UnderWay, Recording, Idle
<1>4. Cardinality({}) = 0 /\ Cardinality(Worker) \in Nat
  BY FS_EmptySet, FS_CardinalityType, ScanLogAssumption
<1> QED
  BY <1>1, <1>2, <1>3, <1>4 DEF HistoryInv, FewAtATime

\* Every step keeps what is known of the history.
LEMMA NextHistory == HistoryInv /\ [Next]_vars => HistoryInv'
<1> SUFFICES ASSUME HistoryInv, [Next]_vars
             PROVE  HistoryInv'
  OBVIOUS
<1>1. TypeOK' /\ now \in Nat
  BY NextTyped, ScanLogAssumption DEF HistoryInv, TypeOK, Time
<1>2. CASE (\E b \in Browser : OwnersOwn(b)) \/ Purge \/ Tick \/ UNCHANGED vars
  <2>1. /\ request' = request /\ now <= now'
        /\ \A e \in DOMAIN events' : e \in DOMAIN events /\ events'[e] = events[e]
    BY <1>1, <1>2 DEF OwnersOwn, Purge, Tick, vars
  <2> QED
    BY <1>1, <2>1, QuietStep DEF HasEvent, Recording
<1> QED
  BY <1>1, <1>2, HandlerKeepsHistory DEF Next

\* Of one scanner, no window of deduplication ever holds more events than there
\* are workers: with one worker, one.
THEOREM ScannersAreDeduplicated == Spec => []ScansAreDeduplicated
<1>1. HistoryInv => ScansAreDeduplicated
  <2> SUFFICES ASSUME HistoryInv, NEW e \in DOMAIN events,
                      events[e].scanner # Unknown
               PROVE  Cardinality({f \in DOMAIN events :
                        /\ events[f].scanner = events[e].scanner
                        /\ events[e].at <= events[f].at
                        /\ events[f].at <= events[e].at + DedupWindow}) <= Cardinality(Worker)
    BY DEF ScansAreDeduplicated
  <2> DEFINE s == events[e].scanner
             t == events[e].at
  <2>1. s \in Address \ {Unknown} /\ t \in Time
    BY DEF HistoryInv, TypeOK, EventRow
  <2>2. Cardinality(Recorded(s, t)) + Cardinality(UnderWay(s, t)) <= Cardinality(Worker)
    BY <2>1 DEF HistoryInv, FewAtATime
  <2>3. Cardinality(Recorded(s, t)) <= Cardinality(Worker)
    <3> HIDE DEF s, t
    <3> QED
      BY <2>2, WindowsAreFinite
  <2> QED
    BY <2>3 DEF Recorded, Within
<1> QED
  BY <1>1, InitHistory, NextHistory, PTL DEF Spec

-----------------------------------------------------------------------------
(* What finders share *)

\* A place is shared inside the window of the event it is written into.
InWindow(row) == \A at \in row.shared : at <= row.at + DedupWindow

SharedInv ==
    /\ TypeOK
    /\ \A e \in DOMAIN events : InWindow(events[e])
    /\ \A w \in Worker : HasEvent(w) => InWindow(request[w].row)

\* A handler's step keeps what is known of the places.
LEMMA HandlerKeepsPlaces ==
    ASSUME SharedInv, TypeOK', NEW w \in Worker, Handler(w)
    PROVE  SharedInv'
<1>1. /\ now \in Nat /\ DedupWindow \in Nat /\ DOMAIN request = Worker /\ TypeOK
      /\ \A v \in Worker : HasEvent(v) => InWindow(request[v].row)
      /\ \A e \in DOMAIN events : InWindow(events[e])
  BY ScanLogAssumption DEF SharedInv, TypeOK, Time
<1>2. SUFFICES /\ \A e \in DOMAIN events' : InWindow(events'[e])
               /\ HasEvent(w)' => InWindow(request'[w].row)
  <2>1. \A v \in Worker : v # w => request'[v] = request[v]
    BY <1>1 DEF Handler, BeginUpdate, CommitUpdate, BeginRead, CommitRead, RepeatView, BeginView,
                BeginShare, SendMail, MailFails, CommitView, CommitShare, RefuseShare, Crash,
                Serve, Respond
  <2> QED
    BY <1>1, <2>1 DEF SharedInv, InWindow, HasEvent
<1>3. CASE \/ BeginUpdate(w) \/ CommitUpdate(w) \/ CommitRead(w)
           \/ \E by \in Browser \cup {Automated}, retired \in Codes : BeginRead(w, by, retired)
           \/ RefuseShare(w) \/ Crash(w)
           \/ \E b \in Browser : RepeatView(w, b)
  <2>1. UNCHANGED events
    BY <1>3 DEF BeginUpdate, CommitUpdate, CommitRead, BeginRead, RefuseShare, Crash, RepeatView
  <2>2. ~HasEvent(w)'
    <3>1. CASE BeginUpdate(w)
      BY <1>1, <3>1 DEF BeginUpdate, Serve, HasEvent
    <3>2. CASE CommitUpdate(w) \/ CommitRead(w) \/ RefuseShare(w) \/ Crash(w)
      BY <1>1, <3>2 DEF CommitUpdate, CommitRead, RefuseShare, Crash, Respond, HasEvent, Idle
    <3>3. ASSUME NEW by \in Browser \cup {Automated}, NEW retired \in Codes,
                 BeginRead(w, by, retired)
          PROVE  ~HasEvent(w)'
      BY <1>1, <3>3 DEF BeginRead, Serve, HasEvent
    <3>4. CASE \E b \in Browser : RepeatView(w, b)
      BY <3>4 DEF RepeatView, HasEvent, Idle
    <3> QED
      BY <1>3, <3>1, <3>2, <3>3, <3>4
  <2> QED
    BY <1>1, <2>1, <2>2
<1>4. CASE SendMail(w) \/ MailFails(w)
  <2> DEFINE q == request[w]
             Form == [op: {"mail", "view"}, loaded: TagRow, edited: TagRow, by: Browser,
                      event: Event, row: EventRow]
  <2>1. PICK r \in Form : /\ request' = [request EXCEPT ![w] = r]
                          /\ r.row.at = q.row.at /\ r.row.shared = q.row.shared
    BY <1>1, <1>4, MailedRequest
  <2>2. HasEvent(w) /\ UNCHANGED events
    BY <1>4 DEF SendMail, MailFails, HasEvent
  <2> QED
    BY <1>1, <2>1, <2>2 DEF InWindow
<1>5. ASSUME NEW b \in Browser, NEW retired \in Codes, BeginView(w, b, retired)
      PROVE  UNCHANGED events /\ InWindow(request'[w].row)
  <2> DEFINE row == Scan(b, NameReleased(tag, retired))
  <2>1. row.shared = {}
    BY DEF Scan, NULL
  <2> HIDE DEF row
  <2>2. request'[w].row = row
    BY <1>1, <1>5 DEF BeginView, Serve, row
  <2> QED
    BY <1>5, <2>1, <2>2 DEF BeginView, InWindow
<1>6. ASSUME NEW b \in Browser, BeginShare(w, b)
      PROVE  UNCHANGED events /\ InWindow(request'[w].row)
  <2>1. CASE Recent(b) # {}
    <3> DEFINE e == RecentDuplicate(b)
               row == [events[e] EXCEPT !.shared = {now}]
    <3>1. /\ events[e].at + DedupWindow >= now /\ events[e] \in EventRow
          /\ events[e].at \in Nat
      BY <1>1, <2>1, DuplicateIsRecent, ScanLogAssumption DEF Recent, TypeOK, EventRow, Time
    <3>2. row.shared = {now} /\ row.at = events[e].at
      BY <3>1 DEF EventRow
    <3>3. request'[w].row = row
      BY <1>1, <1>6, <2>1 DEF BeginShare, Serve
    <3> HIDE DEF e, row
    <3> QED
      BY <1>1, <1>6, <3>1, <3>2, <3>3 DEF BeginShare, InWindow
  <2>2. CASE Recent(b) = {}
    <3> DEFINE row == [Scan(b, NameReleased(tag, FALSE)) EXCEPT !.shared = {now}]
    <3>1. row.shared = {now} /\ row.at = now
      BY DEF Scan
    <3>2. PICK e \in Event : request' = [request EXCEPT ![w] =
            [op |-> "share", by |-> b, event |-> e, fresh |-> TRUE, row |-> row]]
      BY <1>6, <2>2 DEF BeginShare, Serve
    <3> HIDE DEF row
    <3>3. request'[w].row = row
      BY <1>1, <3>2
    <3> QED
      BY <1>1, <1>6, <3>1, <3>3 DEF BeginShare, InWindow
  <2> QED
    BY <2>1, <2>2
<1>7. CASE CommitView(w) \/ CommitShare(w)
  <2> DEFINE r == request[w]
  <2>1. HasEvent(w) /\ ~HasEvent(w)'
    <3>1. request' = [request EXCEPT ![w] = Idle] /\ HasEvent(w)
      BY <1>7 DEF CommitView, CommitShare, Respond, HasEvent
    <3>2. request'[w] = Idle
      BY <1>1, <3>1
    <3> QED
      BY <3>1, <3>2 DEF HasEvent, Idle
  <2>2. events' = [e \in DOMAIN events \cup {r.event} |-> IF e = r.event THEN r.row ELSE events[e]]
    BY <1>7 DEF CommitView, CommitShare
  <2>3. InWindow(r.row)
    BY <1>1, <2>1
  <2> HIDE DEF r
  <2>4. \A e \in DOMAIN events' : InWindow(events'[e])
    BY <1>1, <2>2, <2>3
  <2> QED
    BY <2>1, <2>4
<1>8. ASSUME NEW b \in Browser, BeginShare(w, b) \/ \E retired \in Codes : BeginView(w, b, retired)
      PROVE  /\ \A e \in DOMAIN events' : InWindow(events'[e])
             /\ HasEvent(w)' => InWindow(request'[w].row)
  BY <1>1, <1>5, <1>6, <1>8
<1> QED
  BY <1>3, <1>4, <1>7, <1>8 DEF Handler

\* Every step keeps it.
LEMMA NextPlaces == SharedInv /\ [Next]_vars => SharedInv'
<1> SUFFICES ASSUME SharedInv, [Next]_vars
             PROVE  SharedInv'
  OBVIOUS
<1>1. TypeOK'
  BY NextTyped DEF SharedInv
<1>2. CASE (\E b \in Browser : OwnersOwn(b)) \/ Purge \/ Tick \/ UNCHANGED vars
  <2>1. /\ request' = request
        /\ \A e \in DOMAIN events' : e \in DOMAIN events /\ events'[e] = events[e]
    BY <1>2 DEF OwnersOwn, Purge, Tick, vars
  <2> QED
    BY <1>1, <2>1 DEF SharedInv, HasEvent, InWindow
<1> QED
  BY <1>1, <1>2, HandlerKeepsPlaces DEF Next

\* A shared place is kept for the retention period less the window in which the
\* scans of its finder are taken for one, however late its commit comes.
THEOREM PlacesAreKept == Spec => SharedPlacesAreKept
<1>1. Init => SharedInv
  BY InitTyped DEF Init, SharedInv, HasEvent, Idle
<1> DEFINE Kept == \A e \in DOMAIN events \ DOMAIN events' : \A at \in events[e].shared :
                      now + DedupWindow >= at + Retention
<1>2. SharedInv /\ [Next]_vars => [Kept]_vars
  <2> SUFFICES ASSUME SharedInv, Next, NEW e \in DOMAIN events \ DOMAIN events',
                      NEW at \in events[e].shared
               PROVE  now + DedupWindow >= at + Retention
    BY DEF vars
  <2>1. CASE Purge
    <3>1. events[e].at + Retention <= now
      BY <2>1 DEF Purge, Expired
    <3>2. at <= events[e].at + DedupWindow
      BY DEF SharedInv, InWindow
    <3>3. {at, events[e].at, now, DedupWindow, Retention} \subseteq Nat
      BY ScanLogAssumption DEF SharedInv, TypeOK, EventRow, Time
    <3> QED
      BY <3>1, <3>2, <3>3
  <2>2. ASSUME NEW w \in Worker, Handler(w)
        PROVE  FALSE
    BY <2>2 DEF Handler, BeginUpdate, CommitUpdate, BeginRead, CommitRead, RepeatView, BeginView,
                BeginShare, SendMail, MailFails, CommitView, CommitShare, RefuseShare, Crash
  <2> QED
    BY <2>1, <2>2 DEF Next, OwnersOwn, Tick
<1> QED
  BY <1>1, <1>2, NextPlaces, PTL DEF Spec, SharedPlacesAreKept

-----------------------------------------------------------------------------
(* The mails *)

\* The mails that were noted while no other announcement was under way: each is no
\* later than the last_notified_at of the row, and than the one any announcement
\* still under way has loaded, which was loaded since (unless there is no cooldown,
\* when a note of the same moment is not written again).  A mail is due only when
\* the cooldown of the loaded one is over, and nothing else moves it.
Settled == {e \in DOMAIN mails : mails[e].noted /\ ~mails[e].raced}

NotedBy(times) ==
    Cooldown > 0 => \A e \in Settled : \E a \in times : mails[e].at <= a

Due(r, at) == \A a \in r.loaded.lastNotified : at >= a + Cooldown

\* (For an announcement.)
IsDue(w) ==
    LET r == request[w] IN
    /\ NotedBy(r.loaded.lastNotified)
    /\ r.op = "mail" => Due(r, now) /\ r.event \notin DOMAIN mails
    /\ IF r.event \in DOMAIN mails
       THEN /\ Due(r, mails[r.event].at)
            /\ r.edited.lastNotified = {mails[r.event].at}
       ELSE r.edited.lastNotified = r.loaded.lastNotified

MailsAreNoted ==
    /\ \A e \in DOMAIN mails : mails[e].at <= now
    /\ NotedBy(tag.lastNotified)
    /\ \A w \in Worker : request[w].op \in {"update", "read"} =>
          request[w].edited.lastNotified = request[w].loaded.lastNotified
    /\ \A w \in Worker : request[w].op \in {"mail", "view"} => IsDue(w)

MailInv == HistoryInv /\ MailsAreNoted

\* A step that settles no mail and leaves the row's note, and every request about
\* the tag, as they are.
LEMMA UnnotedStep ==
    ASSUME MailInv, HistoryInv', now <= now',
           mails' = mails, tag'.lastNotified = tag.lastNotified,
           \A v \in Worker : WritesTag(v)' => WritesTag(v) /\ request'[v] = request[v]
    PROVE  MailInv'
<1> SUFFICES MailsAreNoted'
  BY DEF MailInv
<1>1. /\ now \in Nat /\ now' \in Nat /\ Cooldown \in Nat
      /\ \A e \in DOMAIN mails : mails[e].at \in Nat
  BY ScanLogAssumption DEF MailInv, HistoryInv, TypeOK, Time, Mail
<1>2. MailsAreNoted /\ Settled' = Settled /\ \A times : NotedBy(times)' <=> NotedBy(times)
  BY DEF MailInv, Settled, NotedBy
<1>3. ASSUME NEW v \in Worker, request'[v].op \in {"mail", "view"}
      PROVE  IsDue(v)'
  <2>1. request'[v] = request[v] /\ request[v].op \in {"mail", "view"}
    BY <1>3 DEF WritesTag
  <2>2. \A a \in request[v].loaded.lastNotified : a \in Nat
    BY <2>1, RequestForms, ScanLogAssumption DEF MailInv, HistoryInv, TagRow, Time
  <2>3. Due(request[v], now) => Due(request[v], now')
    BY <1>1, <2>2 DEF Due
  <2>4. IsDue(v)
    BY <1>2, <2>1 DEF MailsAreNoted
  <2> QED
    BY <1>2, <2>1, <2>3, <2>4 DEF IsDue, NotedBy
<1>4. \A v \in Worker : request'[v].op \in {"update", "read"} => request'[v] = request[v]
  BY DEF WritesTag
<1>5. \A e \in DOMAIN mails : mails[e].at <= now'
  BY <1>1, <1>2 DEF MailsAreNoted
<1> QED
  BY <1>2, <1>3, <1>4, <1>5 DEF MailsAreNoted, NotedBy, WritesTag

\* A request that loads the row as it is, and moves nothing but counters and
\* settings on it yet.
LEMMA LoadStep ==
    ASSUME MailInv, HistoryInv', NEW w \in Worker, UNCHANGED <<now, tag, mails>>,
           \A v \in Worker : v # w => request'[v] = request[v],
           request'[w].op \in {"update", "read", "mail", "view"},
           request'[w].loaded = tag, request'[w].edited.lastNotified = tag.lastNotified,
           request'[w].op = "mail" => ShouldNotify(tag),
           request'[w].op \in {"mail", "view"} => request'[w].event \notin DOMAIN mails
    PROVE  MailInv'
<1> SUFFICES MailsAreNoted'
  BY DEF MailInv
<1>1. MailsAreNoted
  BY DEF MailInv
<1>2. ASSUME NEW v \in Worker, request'[v].op \in {"mail", "view"}
      PROVE  IsDue(v)'
  <2>1. CASE v = w
    BY <1>1, <1>2, <2>1 DEF MailsAreNoted, IsDue, Due, NotedBy, Settled, ShouldNotify
  <2>2. CASE v # w
    <3>1. IsDue(v)
      BY <1>1, <1>2, <2>2 DEF MailsAreNoted
    <3> QED
      BY <2>2, <3>1 DEF IsDue, Due, NotedBy, Settled
  <2> QED
    BY <2>1, <2>2
<1>3. ASSUME NEW v \in Worker, request'[v].op \in {"update", "read"}
      PROVE  request'[v].edited.lastNotified = request'[v].loaded.lastNotified
  BY <1>1, <1>3 DEF MailsAreNoted
<1> QED
  BY <1>1, <1>2, <1>3 DEF MailsAreNoted, NotedBy, Settled

\* The mail of an announcement, sent or not.
LEMMA SendStep ==
    ASSUME MailInv, HistoryInv', NEW w \in Worker, SendMail(w) \/ MailFails(w)
    PROVE  MailInv'
<1> SUFFICES MailsAreNoted'
  BY DEF MailInv
<1> DEFINE q == request[w]
           Form == [op: {"mail", "view"}, loaded: TagRow, edited: TagRow, by: Browser,
                    event: Event, row: EventRow]
<1>1. /\ TypeOK /\ MailsAreNoted /\ now \in Nat /\ DOMAIN request = Worker
  BY ScanLogAssumption DEF MailInv, HistoryInv, TypeOK, Time
<1>2. PICK r \in Form :
            /\ request' = [request EXCEPT ![w] = r]
            /\ r.op = "view" /\ r.loaded = q.loaded /\ r.event = q.event
            /\ r.edited.lastNotified = IF SendMail(w) THEN {now} ELSE q.edited.lastNotified
  BY <1>1, MailedRequest
<1>3. request'[w] = r /\ \A v \in Worker : v # w => request'[v] = request[v]
  BY <1>1, <1>2
<1>4. q.op = "mail" /\ IsDue(w) /\ UNCHANGED <<now, tag>>
  BY <1>1 DEF SendMail, MailFails, MailsAreNoted
<1>5. q.event \notin DOMAIN mails /\ Due(q, now) /\ NotedBy(q.loaded.lastNotified)
  BY <1>4 DEF IsDue
<1>6. /\ DOMAIN mails' = IF SendMail(w) THEN DOMAIN mails \cup {q.event} ELSE DOMAIN mails
      /\ \A e \in DOMAIN mails : mails'[e] = mails[e]
      /\ SendMail(w) => mails'[q.event].at = now /\ ~mails'[q.event].noted
  <2>1. CASE SendMail(w)
    BY <1>5, <2>1 DEF SendMail
  <2>2. CASE ~SendMail(w)
    BY <2>2 DEF MailFails
  <2> QED
    BY <2>1, <2>2
<1>7. ASSUME NEW v \in Worker, v # w, request[v].op \in {"mail", "view"}
      PROVE  request[v].event # q.event
  BY <1>4, <1>7 DEF MailInv, HistoryInv, EventsAreApart, Recording, HasEvent
<1> HIDE DEF q, Form
<1>8. Settled' = Settled /\ \A e \in Settled : mails'[e] = mails[e] /\ e \in DOMAIN mails
  BY <1>5, <1>6 DEF Settled
<1>9. \A e \in DOMAIN mails' : mails'[e].at <= now
  BY <1>1, <1>5, <1>6 DEF MailsAreNoted
<1>10. IsDue(w)'
  <2>1. NotedBy(request[w].loaded.lastNotified)'
    BY <1>2, <1>3, <1>5, <1>8 DEF NotedBy
  <2>2. CASE SendMail(w)
    BY <1>2, <1>3, <1>5, <1>6, <2>1, <2>2 DEF IsDue, Due
  <2>3. CASE ~SendMail(w)
    BY <1>2, <1>3, <1>4, <1>5, <1>6, <2>1, <2>3 DEF IsDue, Due, q
  <2> QED
    BY <2>2, <2>3
<1>11. ASSUME NEW v \in Worker, v # w, request[v].op \in {"mail", "view"}
       PROVE  IsDue(v)'
  <2>1. IsDue(v) /\ request'[v] = request[v] /\ request[v].event # q.event
    BY <1>1, <1>3, <1>7, <1>11 DEF MailsAreNoted
  <2>2. NotedBy(request[v].loaded.lastNotified)'
    BY <1>8, <2>1 DEF NotedBy, IsDue
  <2>3. now' = now
    BY <1>4
  <2> QED
    BY <1>6, <2>1, <2>2, <2>3 DEF IsDue, Due
<1>12. NotedBy(tag.lastNotified)'
  BY <1>1, <1>4, <1>8 DEF MailsAreNoted, NotedBy
<1> QED
  BY <1>1, <1>2, <1>3, <1>4, <1>9, <1>10, <1>11, <1>12 DEF MailsAreNoted

\* A scan is recorded, and the mail about it is noted, if one was sent: it is later
\* than any that settled before, and nobody else's load is older.
LEMMA NoteStep ==
    ASSUME MailInv, HistoryInv', NEW w \in Worker, CommitView(w)
    PROVE  MailInv'
<1> SUFFICES MailsAreNoted'
  BY DEF MailInv
<1> DEFINE q == request[w]
           raced == Overlapped(w, {"mail", "view"})
<1>1. /\ TypeOK /\ MailsAreNoted /\ now \in Nat /\ DOMAIN request = Worker /\ tag \in TagRow
      /\ \A e \in DOMAIN mails : mails[e] \in Mail
      /\ \A e \in DOMAIN mails : mails[e].at \in Nat
      /\ Cooldown \in Nat
  BY ScanLogAssumption DEF MailInv, HistoryInv, TypeOK, Mail, Time
<1>2. /\ q.op = "view" /\ IsDue(w) /\ now' = now /\ tag' = Flushed(tag, q.loaded, q.edited)
      /\ request' = [request EXCEPT ![w] = Idle]
      /\ mails' = [e \in DOMAIN mails |->
                    IF e = q.event THEN [mails[e] EXCEPT !.noted = TRUE, !.raced = raced]
                    ELSE mails[e]]
  BY <1>1 DEF CommitView, MailsAreNoted, Save, Respond
<1>3. q.loaded \in TagRow /\ q.edited \in TagRow
  BY <1>1, <1>2, RequestForms
<1>4. /\ DOMAIN mails' = DOMAIN mails
      /\ \A e \in DOMAIN mails : mails'[e].at = mails[e].at
      /\ \A e \in Settled' : e \in Settled \/ (e = q.event /\ ~raced)
      /\ q.event \in Settled' => ~raced
  <2>1. DOMAIN mails' = DOMAIN mails
    BY <1>2
  <2>2. raced \in BOOLEAN
    BY DEF Overlapped
  <2> HIDE DEF q, raced
  <2>3. ASSUME NEW e \in DOMAIN mails
        PROVE  /\ mails'[e].at = mails[e].at
               /\ e = q.event => mails'[e].raced = raced
               /\ e # q.event => mails'[e] = mails[e]
    BY <1>1, <1>2, <2>2 DEF Mail
  <2> QED
    BY <2>1, <2>3 DEF Settled
<1>5. ASSUME ~raced, NEW v \in Worker, v # w
      PROVE  request[v].op \notin {"mail", "view"}
  BY <1>5 DEF Overlapped
<1> HIDE DEF raced
<1>6. /\ request'[w] = Idle
      /\ \A v \in Worker : v # w => request'[v] = request[v]
  BY <1>1, <1>2
<1>7. NotedBy(tag.lastNotified)'
  <2> SUFFICES ASSUME Cooldown > 0, NEW e \in Settled'
               PROVE  \E a \in tag'.lastNotified : mails[e].at <= a
    BY <1>4 DEF NotedBy, Settled
  <2>1. tag'.lastNotified = IF q.edited.lastNotified # q.loaded.lastNotified
                            THEN q.edited.lastNotified ELSE tag.lastNotified
    BY <1>1, <1>2, <1>3, FlushedTag
  <2>2. e \in DOMAIN mails /\ mails[e].at \in Nat
    BY <1>1, <1>4 DEF Settled
  <2>3. CASE q.event \notin DOMAIN mails
    <3>1. tag'.lastNotified = tag.lastNotified /\ e \in Settled
      BY <1>2, <1>4, <2>1, <2>2, <2>3 DEF IsDue
    <3> QED
      BY <1>1, <3>1 DEF MailsAreNoted, NotedBy
  <2>4. CASE q.event \in DOMAIN mails
    <3> DEFINE m == mails[q.event].at
    <3>1. /\ q.edited.lastNotified = {m} /\ m \in Nat
          /\ \A a \in q.loaded.lastNotified : a \in Nat /\ m >= a + Cooldown
      <4>1. q.edited.lastNotified = {m} /\ \A a \in q.loaded.lastNotified : m >= a + Cooldown
        BY <1>2, <2>4 DEF IsDue, Due
      <4>2. \A a \in q.loaded.lastNotified : a \in Nat
        BY <1>3, ScanLogAssumption DEF TagRow, Time
      <4> QED
        BY <1>1, <2>4, <4>1, <4>2
    <3>2. tag'.lastNotified = {m}
      <4>1. m \notin q.loaded.lastNotified
        BY <1>1, <3>1
      <4> QED
        BY <2>1, <3>1, <4>1
    <3>3. mails[e].at <= m
      <4>1. CASE e = q.event
        BY <3>1, <4>1
      <4>2. CASE e # q.event
        <5>1. e \in Settled
          BY <1>4, <4>2
        <5>2. PICK a \in q.loaded.lastNotified : mails[e].at <= a
          BY <1>2, <5>1 DEF IsDue, NotedBy
        <5> HIDE DEF m
        <5> QED
          BY <1>1, <2>2, <3>1, <5>2
      <4> QED
        BY <4>1, <4>2
    <3> QED
      BY <3>2, <3>3
  <2> QED
    BY <2>3, <2>4
<1>8. ASSUME NEW v \in Worker, request'[v].op \in {"mail", "view"}
      PROVE  IsDue(v)'
  <2>1. v # w /\ request'[v] = request[v]
    BY <1>6, <1>8 DEF Idle
  <2>2. IsDue(v) /\ raced
    BY <1>1, <1>5, <1>8, <2>1 DEF MailsAreNoted
  <2>3. \A e \in Settled' : e \in Settled
    BY <1>4, <2>2
  <2>4. NotedBy(request[v].loaded.lastNotified)'
    BY <1>4, <2>1, <2>2, <2>3 DEF IsDue, NotedBy, Settled
  <2>5. now' = now
    BY <1>2
  <2> QED
    BY <1>4, <2>1, <2>2, <2>4, <2>5 DEF IsDue, Due
<1>9. ASSUME NEW v \in Worker, request'[v].op \in {"update", "read"}
      PROVE  request'[v].edited.lastNotified = request'[v].loaded.lastNotified
  BY <1>1, <1>6, <1>9 DEF MailsAreNoted, Idle
<1>10. \A e \in DOMAIN mails' : mails'[e].at <= now'
  BY <1>1, <1>2, <1>4 DEF MailsAreNoted
<1> QED
  BY <1>7, <1>8, <1>9, <1>10 DEF MailsAreNoted

\* A handler's step keeps what is known of the mails.
LEMMA HandlerKeepsMails ==
    ASSUME MailInv, HistoryInv', NEW w \in Worker, Handler(w)
    PROVE  MailInv'
<1>1. /\ now \in Nat /\ DOMAIN request = Worker /\ tag \in TagRow /\ TypeOK
      /\ WritesTag(w) => request[w].loaded \in TagRow /\ request[w].edited \in TagRow
  <2>1. TypeOK
    BY DEF MailInv, HistoryInv
  <2> QED
    BY <2>1, RequestForms, ScanLogAssumption DEF TypeOK, Time, WritesTag
<1>2. CASE BeginUpdate(w)
  <2>1. PICK edited \in {[tag EXCEPT !.status = s] : s \in Status}
                   \cup {[tag EXCEPT !.disclosure = d] : d \in Disclosure}
                   \cup {[tag EXCEPT !.notify = n] : n \in Notify} :
          Serve(w, [op |-> "update", loaded |-> tag, edited |-> edited])
    BY <1>2 DEF BeginUpdate
  <2>2. edited.lastNotified = tag.lastNotified
    BY <1>1, <2>1 DEF TagRow
  <2>3. /\ request'[w] = [op |-> "update", loaded |-> tag, edited |-> edited]
        /\ \A v \in Worker : v # w => request'[v] = request[v]
        /\ UNCHANGED <<now, tag, mails>>
    BY <1>1, <1>2, <2>1 DEF BeginUpdate, Serve
  <2> QED
    BY <2>2, <2>3, LoadStep
<1>3. ASSUME NEW by \in Browser \cup {Automated}, NEW retired \in Codes,
             BeginRead(w, by, retired)
      PROVE  MailInv'
  <2> DEFINE edited == Counted(tag, retired)
  <2>1. edited.lastNotified = tag.lastNotified
    BY <1>1, CountedRow
  <2>2. /\ request'[w] = [op |-> "read", loaded |-> tag, by |-> by, retired |-> retired,
                          edited |-> edited]
        /\ \A v \in Worker : v # w => request'[v] = request[v]
        /\ UNCHANGED <<now, tag, mails>>
    BY <1>1, <1>3 DEF BeginRead, Serve
  <2> HIDE DEF edited
  <2> QED
    BY <2>1, <2>2, LoadStep
<1>4. ASSUME NEW b \in Browser, NEW retired \in Codes, BeginView(w, b, retired)
      PROVE  MailInv'
  <2> DEFINE op == IF ShouldNotify(tag) THEN "mail" ELSE "view"
             edited == [tag EXCEPT !.scans = @ + 1]
             row == Scan(b, NameReleased(tag, retired))
  <2>1. PICK e \in Event : FreshEvent(e) /\ request' = [request EXCEPT ![w] =
            [op |-> op, loaded |-> tag, edited |-> edited, by |-> b, event |-> e, row |-> row]]
    BY <1>4 DEF BeginView, Serve
  <2>2. /\ op \in {"mail", "view"} /\ (op = "mail" => ShouldNotify(tag))
        /\ edited.lastNotified = tag.lastNotified /\ e \notin DOMAIN mails
    BY <1>1, <2>1 DEF TagRow, FreshEvent
  <2> HIDE DEF op, edited, row
  <2>3. /\ request'[w].op = op /\ request'[w].loaded = tag /\ request'[w].edited = edited
        /\ request'[w].event = e
        /\ \A v \in Worker : v # w => request'[v] = request[v]
    BY <1>1, <2>1
  <2>4. UNCHANGED <<now, tag, mails>>
    BY <1>4 DEF BeginView
  <2> QED
    BY <2>2, <2>3, <2>4, LoadStep
<1>5. ASSUME NEW b \in Browser, BeginShare(w, b)
      PROVE  MailInv'
  <2>1. ASSUME NEW e, NEW fresh, NEW row,
               Serve(w, [op |-> "share", by |-> b, event |-> e, fresh |-> fresh, row |-> row])
        PROVE  /\ request'[w].op = "share"
               /\ \A v \in Worker : v # w => request'[v] = request[v]
    BY <1>1, <2>1 DEF Serve
  <2>2. /\ request'[w].op = "share"
        /\ \A v \in Worker : v # w => request'[v] = request[v]
    BY <1>5, <2>1 DEF BeginShare
  <2>3. UNCHANGED <<now, tag, mails>>
    BY <1>5 DEF BeginShare
  <2> QED
    BY <1>1, <2>2, <2>3, UnnotedStep DEF WritesTag
<1>6. CASE CommitUpdate(w) \/ CommitRead(w)
  <2>1. /\ request[w].op \in {"update", "read"} /\ Save(request[w]) /\ Respond(w)
        /\ UNCHANGED <<now, mails>>
    BY <1>6 DEF CommitUpdate, CommitRead
  <2>2. \A v \in Worker : WritesTag(v)' => WritesTag(v) /\ request'[v] = request[v]
    BY <1>1, <2>1 DEF Respond, WritesTag, Idle
  <2>3. tag'.lastNotified = tag.lastNotified
    <3> DEFINE q == request[w]
    <3>1. q.loaded \in TagRow /\ q.edited \in TagRow /\ tag' = Flushed(tag, q.loaded, q.edited)
      BY <1>1, <2>1 DEF WritesTag, Save
    <3>2. q.edited.lastNotified = q.loaded.lastNotified
      BY <2>1 DEF MailInv, MailsAreNoted
    <3> HIDE DEF q
    <3> QED
      BY <1>1, <3>1, <3>2, FlushedTag
  <2> QED
    BY <1>1, <2>1, <2>2, <2>3, UnnotedStep
<1>7. CASE CommitShare(w) \/ RefuseShare(w) \/ Crash(w)
  <2>1. Respond(w) /\ UNCHANGED <<now, tag, mails>>
    BY <1>7 DEF CommitShare, RefuseShare, Crash
  <2>2. \A v \in Worker : WritesTag(v)' => WritesTag(v) /\ request'[v] = request[v]
    BY <1>1, <2>1 DEF Respond, WritesTag, Idle
  <2> QED
    BY <1>1, <2>1, <2>2, UnnotedStep
<1>8. CASE \E b \in Browser : RepeatView(w, b)
  <2>1. UNCHANGED <<now, tag, mails, request>>
    BY <1>8 DEF RepeatView
  <2> QED
    BY <1>1, <2>1, UnnotedStep DEF WritesTag
<1> QED
  BY <1>2, <1>3, <1>4, <1>5, <1>6, <1>7, <1>8, SendStep, NoteStep DEF Handler

\* Every step keeps it.
LEMMA NextMails == MailInv /\ [Next]_vars => MailInv'
<1> SUFFICES ASSUME MailInv, [Next]_vars
             PROVE  MailInv'
  OBVIOUS
<1>1. HistoryInv' /\ now \in Nat
  BY NextHistory, ScanLogAssumption DEF MailInv, HistoryInv, TypeOK, Time
<1>2. CASE (\E b \in Browser : OwnersOwn(b)) \/ Purge \/ Tick \/ UNCHANGED vars
  <2>1. UNCHANGED <<tag, mails, request>> /\ now <= now'
    BY <1>1, <1>2 DEF OwnersOwn, Purge, Tick, vars
  <2> QED
    BY <1>1, <2>1, UnnotedStep DEF WritesTag
<1> QED
  BY <1>1, <1>2, HandlerKeepsMails DEF Next

\* A scan mail goes out only once the cooldown of every mail is over that was noted
\* while no other announcement was under way, whatever other requests were.
THEOREM ScanMailsAreSpaced == Spec => MailsAreSpaced
<1>1. Init => MailInv
  BY InitHistory DEF Init, MailInv, MailsAreNoted, NotedBy, Settled, Idle
<1> DEFINE Spaced == \A f \in DOMAIN mails' \ DOMAIN mails : \A e \in DOMAIN mails :
                        mails[e].noted /\ ~mails[e].raced => mails'[f].at >= mails[e].at + Cooldown
<1>2. MailInv /\ [Next]_vars => [Spaced]_vars
  <2> SUFFICES ASSUME MailInv, Next
               PROVE  Spaced
    BY DEF vars
  <2>1. ASSUME NEW w \in Worker, SendMail(w)
        PROVE  Spaced
    <3> SUFFICES ASSUME NEW f \in DOMAIN mails' \ DOMAIN mails, NEW e \in DOMAIN mails,
                        mails[e].noted, ~mails[e].raced
                 PROVE  mails'[f].at >= mails[e].at + Cooldown
      OBVIOUS
    <3>1. mails'[f].at = now
      BY <2>1 DEF SendMail
    <3>2. TypeOK /\ mails[e].at \in Nat /\ now \in Nat /\ Cooldown \in Nat
      BY ScanLogAssumption DEF MailInv, HistoryInv, TypeOK, Mail, Time
    <3>3. CASE Cooldown > 0
      <4>1. MailsAreNoted /\ IsDue(w) /\ request[w].op = "mail"
        BY <2>1, <3>3 DEF MailInv, MailsAreNoted, SendMail
      <4>2. PICK a \in request[w].loaded.lastNotified : mails[e].at <= a
        BY <3>3, <4>1 DEF IsDue, NotedBy, Settled
      <4>3. now >= a + Cooldown /\ a \in Nat
        <5>1. request[w].loaded \in TagRow
          BY <3>2, <4>1, RequestForms
        <5> QED
          BY <4>1, <4>2, <5>1, ScanLogAssumption DEF IsDue, Due, TagRow, Time
      <4> QED
        BY <3>1, <3>2, <4>2, <4>3
    <3>4. CASE ~(Cooldown > 0)
      <4>1. mails[e].at <= now
        BY DEF MailInv, MailsAreNoted
      <4> QED
        BY <3>1, <3>2, <3>4, <4>1
    <3> QED
      BY <3>3, <3>4
  <2>2. ASSUME NEW w \in Worker, Handler(w), ~SendMail(w)
        PROVE  DOMAIN mails' = DOMAIN mails
    BY <2>2 DEF Handler, BeginUpdate, CommitUpdate, BeginRead, CommitRead, RepeatView, BeginView,
                BeginShare, MailFails, CommitView, CommitShare, RefuseShare, Crash
  <2> QED
    BY <2>1, <2>2 DEF Next, OwnersOwn, Purge, Tick
<1> QED
  BY <1>1, <1>2, NextMails, PTL DEF Spec, MailsAreSpaced

=============================================================================
