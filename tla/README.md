# Dynamic luggage tag: a verification project

TLA+ models of the luggage-tag service in `src/`, their model-checking
configurations for TLC, and machine-checked proofs (TLAPS): of all the safety
properties the runs check but one, for every value of the constants.

1. [The system](#1-the-system): components, state, operations, interactions
2. [What is modelled, and how it maps to the code](#2-what-is-modelled)
3. [The runs: what is checked, and the bounds](#3-the-runs)
4. [Fairness and liveness](#4-fairness)
5. [The proofs](#5-the-proofs)
6. [What the models found](#6-what-the-models-found)
7. [What is not modelled, and the plan](#7-plan)

## 1. The system

An owner registers a bag and gets a *tag*: a design, a QR code and perhaps an
NFC sticker, all carrying one random *code*. Whoever scans it sees a page that
says whether the bag is lost; if it is, the finder can write to the owner
through a masked relay. The API is a Flask application
(`src/api/app`) over PostgreSQL, the web client a React application
(`src/web/src`).

**The process model.** gunicorn runs four synchronous workers
(`src/docs/self-hosting.md:199`). A worker serves one request at a time, with
one SQLAlchemy session per request (`extensions.py:53-68`), at the database's
default isolation level, READ COMMITTED, with `expire_on_commit` off. A handler
loads rows, edits the objects and commits once, sometimes twice; nothing locks a
row. So between the load and the commit of one request another worker's commits
may land, and what holds then rests on unique indexes and on what the UPDATE of
a commit names. Background work is `cli.py purge`, run from cron.

| Component | State | Operations | What makes it hard / correct |
|---|---|---|---|
| Tag codes (`api/tags.py`, `api/scan.py:64-104`) | `tags`: code hash, `token_version`, `block_retired_tokens`; `retired_tokens` | create, update, rotate, delete, look up | A printed code must lead to its tag for ever, through any rotations; limit and version are read-then-written |
| Scan page and history (`api/scan.py`, `services/notifications.py`) | counters and `last_notified_at` of a tag; `scan_events` | read page, announce, share location, mail the owner | Three windows (dedup, cooldown, retention), counters written back unlocked, a mail between read and commit |
| Masked relay (`api/relay.py`, `api/scan.py:344-428`) | `relay_threads`, `relay_messages` | open, reply (either side), read, list, close, stop mails, mail the finder | Guards on loaded rows, two commits with a mail between, read marks, the release of the name |
| Retention (`services/retention.py`) | none of its own | purge events, conversations, audit rows, sessions, tokens | SELECT and DELETE are two statements; each reply extends a conversation |
| Settings of a tag (`api/tags.py:187-250`) | columns of `tags` | update | Every decision above depends on them, at the time they were loaded |
| Claims (`services/claims.py`, `api/admin.py`, `pages/Admin.tsx`) | `tag_claims`; the operator's page | issue, invite again, withdraw, register, turn into tags | A code is printed before its account exists; issues, withdrawals and the account's own list race; the printed design must be the account's |
| Login (`api/auth.py`, `services/accounts.py`, `pages/Login.tsx`) | `users`, `pending_logins`, `recovery_codes`; the page with its boxes and widget | log in, second factor | Counters and single-use secrets are checked and used up in two steps; two-step form with tickets, tokens and timers |
| Sign-up (`api/auth.py`, `pages/Register.tsx`, `VerifyEmail.tsx`, `ResetPassword.tsx`, `ResendVerification.tsx`) | `users`, `email_tokens`; the page that is open | register, verify, resend, reset | Links are single-use and replaced; invitations end while a form is open |
| Sessions (`security/sessions.py`, `csrf.py`, `authz.py`, `state/session.tsx`) | `sessions`; each tab's idea of it | probe, issue, load, revoke, prune | The tabs of one browser share a cookie, not a state; sliding and absolute expiry, a cap |
| Keyring (`security/crypto.py`, `pii.py`, `cli.py`) | wrapped data keys of users and claims | seal, open, rewrap under a new KEK, shred | An old KEK may go only when nothing needs it |
| Account (`api/account.py`, `pages/Settings.tsx`) | `users`; six sections of a page | profile, notifications, second factor, sessions, password, export, delete | The sections work at the same time and each loads the whole account anew |
| NFC (`api/tags.py:310-459`, `web/src/lib/nfc.ts`, `components/NfcCard.tsx`) | `tags.nfc_uid`; the stickers | bind, unbind, look up; read, write | Unique chip; read, link, ask, write are four steps, with a physical sticker that may be another by then |
| Handing a scan over (`lib/appTabs.ts`, `pages/ScanPage.tsx`) | messages between tabs | claim, answer, give up | Whose scan it is, is decided by a race of a lookup, a session and other tabs |
| Bot check (`lib/turnstile.tsx`, `security/turnstile.py`) | widget and token of a form | draw, solve, expire, spend, reset | Tokens are single-use; the widget lives in a container that may go away |
| Privacy, location (`security/privacy.py`, `services/geo.py`) | none | hash an address per day, reduce a location | Pure functions at a boundary |
| Design, QR, print (`core/`) | none | draw | Pure functions |
| Web client (`web/src/api/client.ts`, pages) | calls in flight, page state | | A call may be served and its answer lost; answers come in any order; no call has a time-out |
| Audit, mail, config, headers, schemas, migrations, infrastructure | | | I/O and wording |

**How they interact.** A scan looks a code up (tag codes), counts and records it
(scan log) and may mail the owner; a finder opens a conversation with the same
lookup (relay). Rotating a code touches three tables at once: the tag, the
retired codes and every open conversation. The owner's settings decide what the
scan page, the history, the mail and the relay disclose. The purge deletes
under all of them. The browser talks to all of it through one client
(`api/client.ts`); a page keeps what it was told, and what it was told may be
old.

`PROJECT.json` lists every component with its sources and, under `hazards`,
each place where the code is exposed to something a test hardly reaches, with
the properties that cover it.

## 2. What is modelled

The convention of all state machines here:

* a handler is a **Begin** action, which evaluates its guards on the committed
  tables and stores in `request[w]` what the handler loaded and what it made of
  it, and a **Commit** action, which applies the transaction atomically. A mail,
  or a second commit, is a step of its own between or after them, where the code
  has it there;
* the steps of a handler before its commit read the tables once (one snapshot
  per handler). The window that matters, between the load and the commit, is
  kept; a handler whose own SELECTs see different states is noted as a hazard
  where that matters (`_lookup`);
* `Worker` is any finite set. The runs have two workers, so that every
  interleaving of two requests is explored, and where it matters either may be
  killed; the proofs of section 5 are for any number. `SignIn` alone is about
  exactly two clients of one account, the page and another device;
* early returns that change nothing (404, 403, 409) are guards: such a request
  is a stuttering step. A refused commit (unique index, row gone) and a killed
  worker roll back: `Rollback`, `Refuse…`, `Crash`;
* nullable timestamps are sets with at most one element.

### `Orm`: what an UPDATE writes
`Flushed(stored, loaded, edited)` is the heart of every race here: SQLAlchemy
writes the columns whose edited value differs from the *loaded* one, so other
columns keep what another transaction committed, and a column assigned its
loaded value is not written at all. External: modelled from its use.

### `TagCodes`: one owner's codes
`live`/`tags` are the rows of `tags` (code, version, block), `retired` is the
table `retired_tokens` as the function its unique index makes it, `claims` are the
codes of `tag_claims` and what has become of each, `minted` keeps `new_token` from
repeating itself (256 bits), `issued` is history.
`BeginCreate/Update/Rotate/Delete` with their commits are the handlers of
`api/tags.py`; `Lookup` is `_lookup`. `CommitRotate` is refused when the
outgoing code has been retired already (the unique index). `BeginTake` and
`CommitTake` are `materialise`, which `list_tags` and `create_user` call: every
open claim becomes a tag, all of them or none, and nobody counts the tags there
are. The commit needs the rows of the claims and a code that is no tag's now
(`IsFree`, the unique index on `tags.token_hash`), and not that the claim is still
open: two lists that overlap may make two tags of one claim if the first has lost
its code meanwhile (`TakenTwice`). `IssueClaim` and
`BeginWithdraw`/`CommitWithdraw` are the operator's; what operator and buyer *see*
of claims is `Claims`. A rotation's closing of conversations is in `Relay`.

### `ScanLog`: what a tag remembers of its scans
One tag, `now` a bounded clock in the unit of the windows. `page[b]` is what
browser `b` shows, which the code keeps only on the screen: the link between
what the GET displayed and what the later POST records. `BeginRead`/`CommitRead`
is `read_scan_page`, `BeginView`/`RepeatView`, `SendMail`, `MailFails`,
`CommitView` is `record_scan`, `BeginShare`/`CommitShare` is `share_location`,
`OwnersOwn` the branch of `ScanPage.tsx:72-108` that leaves without announcing
itself. `AddressOf` gives browsers their (daily, truncated, keyed) address hash;
two browsers may share one, and an address that cannot be told (`Unknown`) makes
each scan a new one (`recent_duplicate`). `reads` and `mails` are history: how many
reads were answered while another was under way (`overlapped`), and of each mail
whether the row got a note of it (`noted`) and whether another announcement was
under way then (`raced`).

### `Relay`: the masked conversations of one tag
`threads` and `messages` are the two tables, deadlines (`expires_at` and the
mail cooldown) counted down rather than compared with a clock, which keeps the
state space finite without bounding time. Columns that are compared with each
other (`last_message_at`, `owner_read_at`) hold the instants of the `utcnow()`
calls, taken in Begin as in the code, so their order may differ from the order
of the commits. The owner's reply commits twice, with the mail between
(`CommitReply`, `SendMail`, `CommitEdits`); its response lists the messages the
guard loaded (`listed`). The purge is a process of its own with a step between
its SELECT and its DELETE. `history` keeps what the tables do not: the code a
conversation was opened with, what each side was shown, opt-outs and mails:
`crossed`, the owner read or answered while the finder was writing; `unwanted`, the
mails sent after an opt-out; `gap`, how much longer the last noted mail forbids
another.
Mails to the *owner* about a message change no state and are left out.

### The browser's side

The modules above look inside a request; those below look at what a person has
in front of them, and take a request of the server for one step, except where
what happens inside it is what the module is about (`SignIn`, `Claims`). In all
of them a page keeps the state its `useState` hooks keep, an action is a press
of a button the page offers in that state (`disabled`, early returns and
confirmations are its guards), and a call is answered by an action that does the
whole `then`, `catch` and `finally` of its handler. Everything a handler awaits
before its next call is one action per call.

**`Api`** is `request` of `client.ts`: calls in flight are a set of records, so
they are served and answered in any order; `Lost` is a rejected `fetch`, which
may come before or after the server has served the call. A call the page has given
up on may also be served later still: `TagPage`, `Settings` and `SignUp` keep such
calls in `late` until `ServeLate` serves them, with nobody to answer to. (In
`Mailroom`, `SignIn` and `Claims` a lost call was served before it was lost or never
is. `Mailroom`'s properties count the lost calls or ask that there are none; the
bounds of `SignIn` are those of two requests at a time, and a login given up on and
served late would be a third.) `crossed`
marks calls that overlapped one from another part of the page, or one served late.
The bookkeeping has no counterpart in `client.ts`: it stands for `fetch` and the
network.

**`Turnstile`** is `useTurnstile` and the check of its token
(`security/turnstile.py`): the site key and the script arrive or fail, the
container is mounted or not, the token is solved, expires, is sent. Operators on
a record; the pages own the record.

**`TagPage`** is `TagDetail.tsx` with `NfcCard.tsx` and `lib/nfc.ts` against
`api/tags.py`. Settings and new code share `busy`, the delete button has nothing
to wait for, the NFC card has a phase of its own. `sticker` is what is written
on each chip, `holder` whose tag the server thinks it is on. `ReadChip` and
`WriteChip` take *any* chip: a person holds one to the phone each time. `row`
is the tag as the server has it; `doubt` is history, the page may show an older
answer than the last because calls crossed, were lost or were served late.

**`ScanDecision`** is what a scan promises: checked until decided, decided once,
announced at most once and never while it is being checked. **`Handoff`** is
`ScanPage` up to what it shows, `lib/appTabs.ts`, `Layout` and the session of
each tab: `Read`, `Identify`, `LookupFails`, `Ask`, `Claimed`, `NobodyAnswers`,
`Record` are the three effects of the page; `Answer` is `useOpenTagHandoff` in a
tab of the app, which answers and shows the tag unless it has no user any more. A
scan tab whose owner has moved on into the app is a tab of the app from then on
(`InApp`) and answers like one.
`Handoff` implements `ScanDecision` under a refinement mapping from each tab's
hooks to a screen (`Screen`), with stutters for everything the person cannot see.

**`SignIn`** is `Login.tsx` with `CodeInput.tsx` against `login`: the request
loads (`Load`), decides (`Decision`, in the order of the handler: ticket or
password, lockout, second factor, confirmation of the address) and commits
(`Commit`) in separate steps, against another device on the same account
(`OtherTries`). A password or a code is right or wrong; a recovery code is
itself. `guesses` and `granted` are history.

**`Settings`** is `Settings.tsx` with its six sections against `api/account.py`
and the second factor's handlers; **`SignUp`** is `Register.tsx`,
`VerifyEmail.tsx`, `ResetPassword.tsx` and `ResendVerification.tsx` against the
handlers and the email tokens (a password itself is left out), with a mailbox of links the user may follow and a
world that registers the same address or withdraws the invitation.
**`Accounts`** composes them the way `App.tsx` routes: a browser that is signed
in on the account's page, or one that is not on any of the others.

**`Mailroom`** is one conversation from its two ends: `Inbox.tsx`, and
`MessageForm`, `LocationShare` and `RelayPage.tsx`. Conversations only grow, so
what a page shows of one is a number; texts are numbered as they are typed. The
answer to a reply lists the messages its guard had loaded (`Body`), not the reply
itself, as `Relay` says of the server; what a person has seen of a conversation
(`Known`) is that list and the reply they have just written themselves.

**`Claims`** is one buyer's address: `tag_claims`, the design seed of the
account, and three requests that may overlap: two of the operator (the buttons
of `Admin.tsx` wait only for their own handler) and one of the buyer (`register`,
or `list_tags` with `materialise`). An UPDATE of a row that has gone fails the
whole transaction; a DELETE of one does not. `raced` is history.

`MCTagCodes`, `MCScanLog`, `MCRelay`, `MCTagPage`, `MCHandoff`, `MCSignIn` define
the model values, the initial situations and the symmetry sets; the other modules
need none. Runs with a liveness property use no symmetry.

Operators named `…` as a variant next to an original and marked *Mutant*
are plausible mistakes; each one, put in place of the original, breaks the
property it is paired with in `PROJECT.json`.

## 3. The runs

Passing runs:

| Run | Question | Bounds |
|---|---|---|
| `TagCodes` | Does every code lead to its tag, does the version count the codes, does the limit of created tags hold but for the workers racing, does a rotation strand a tag? | 2 workers, 3 tag ids, 4 codes, limit 1: two creations at the last free place, two rotations of one tag, a rotation against a deletion and against an update of the block, claims issued, taken by two lists at once and withdrawn |
| `ScanLogRaces` | Does dedup fail by more than the race, does a stale write take back the note of a mail, is a shared place kept? | 2 workers that may be killed, 2 browsers behind one address, windows 1 (dedup), 2 (cooldown), 2 (retention), time 4, 3 events, 2 reads: announcements that overlap, at instants in one window and in two, and each window running out |
| `ScanLogPurge` | How many reads are missed, is one ever invented, is every event purged? | 2 workers that may be killed, a browser with an address and one without, 2 events, 2 reads, the bag being reported lost and safe in between |
| `RelayMails` | Is the name earned, do opt-out and cooldown of reply mails hold but for the race, do decisions stand? | 2 workers that may be killed, 1 conversation with a mail address, 3 messages, cooldown 1, retention 2: two replies and an opt-out around one mail, a crash between mail and note |
| `RelayRaces` | By how much are limit and closing overrun; is a message hidden that the owner was not shown; does every conversation end? | 2 workers that may be killed, 1 conversation, limit 2, the owner reading up to instant 4, each reply extending the deadline |
| `TagPage` | Does the page show the tag as it is; does a sticker that is said to be done open the bag; is none taken from a bag unasked, or written without being linked; does the card come back? | 2 stickers in every distinct situation (on this tag, another of the owner's, another account's, on none), 2 changes of the page (one field of the settings), 2 of the card, 1 lost call, served before, late or never: a confirmation and its override, a rotation during a write, a swapped sticker |
| `Handoff` | Is the owner told of their own scan; does a page say falsely that it is shown elsewhere; does a scan hang; is `ScanDecision` implemented? | 2 scans at once (own, own under an old code, not own), 2 tabs of the app, scan tabs that have moved on into it, the session changing once |
| `SignIn` | How many wrong guesses and uses of a recovery code get through; is a token sent twice; do the boxes come back? | lockout after 2, codes of 2 digits, 1 recovery code, 3 attempts of the page and 1 of the other device, 1 lost call, the bot check on: every step of the form and its way back |
| `Accounts` | Is what the pages about an account say at rest so; do their forms come back? | settings: 2 changes in any sections at once; others: 3 calls, 2 links; 1 lost call, served before, late or never; the bot check on |
| `Mailroom` | Does anything typed once arrive twice; is what is marked read what was shown? | 3 conversations, 2 texts, 2 calls of each side, 1 lost call; the widget off (its states are those of `SignIn` and `Accounts`) |
| `Claims` | Is the printed design the account's; does a withdrawn code come back; does every code reach its buyer? | 3 claims, 2 of them open at once, 3 changes by the operator, 1 lost call: a code withdrawn while the other one is taken, an account that comes between two issues |

What requests that overlap could break is stated for any number of workers, with
what the race costs in the property itself. A limit is overrun by fewer requests
than there are workers (`TagLimit`, `MessageLimit`, `LateMessagesAreFew`,
`StopMeansStop`), or met by as many (`ScansAreDeduplicated`); a counter misses no
more reads than overlapped (`ReadsAreMissedOnlyByRace`); the note of a mail holds
unless another announcement or answer was under way as it was made
(`MailsAreSpaced`, `ReplyMailsAreSpaced`); a message is hidden only while both
sides are at the conversation (`UnreadIsNeverLost`). For one worker each of them
says what the code's texts say.

One conversation is enough for `Relay`: conversations share only the tag, which
no handler of a conversation writes, and the rotation and the purge, which treat
each conversation by itself.

The pages' properties excuse what the code cannot know, by name: an answer lost
(`doubt`, `made["lost"]`), a call served after the page gave it up, a sticker
swapped between the reading and the writing, a code rotated during a write, a tab
whose session has ended, requests of the claims that overlap (`raced`). Each is a state the run reaches; what
happens then is in section 6.

Each module of the browser also has a `TypeOK` that ties every `busy` flag to
the calls in flight. It is an aid for whoever changes the module and not a
property of the runs; adding its name to the cfg checks it, and section 5 proves
it for every one of them (for `Settings` and `SignUp` with `Accounts`).

Name of a bound and what it caps: `Tag`, `Code`, `Event`, `Thread` the ids that
may ever be used; `MaxReads` the reads of the page, `MaxTime` the clock
(`ScanLog`); `LastRead` and `LastCrash` the instants up to which the owner reads and
workers are killed (`Relay`); `MaxCalls`, `MaxCard`, `MaxOwner`, `MaxFinder`, `MaxTries`, `MaxClicks`, `MaxTexts` what a person does, `MaxLost`
the calls that fail on the way, `Logins` the changes of a session, `Token`,
`Ticket`, `Conv`, `Claim` the rows that may be made. `CHECK_DEADLOCK FALSE` is set because
of them: a run stops when its ids or its time are used up, and the code never
waits for anything another request has to provide. `MaxTime` also keeps an event
from being recorded when it could not expire any more, so that
`EveryEventIsPurged` is a question about the purge and not about the bound.
The expected violation is in section 6.

## 4. Fairness

`FairSpec` of `ScanLog` assumes `WF(Tick)` (time passes) and `WF(Purge)` (the
operator schedules `flask purge` daily,
`src/docs/self-hosting.md:224`); nothing is assumed of requests: an event that a request
never commits does not exist. `FairSpec` of `Relay` assumes the same of its clock and
purge, with the two steps of a purge each fair, and `WF(Proceed(w))`: a request
that has begun is finished. gunicorn justifies it: a worker that does not answer
within its timeout (30 s) is killed, and the only call that can take long, SMTP,
has a timeout of 15 s (`services/mailer.py:84,89`). No fairness is assumed of
finders and owners. Its `Tick` waits for a request that is about to outlast
the retention time, which no request lives to do.

Without the limit on messages `EveryConversationEnds` would not hold, since
every reply extends the deadline: it is the limit, not the deadline, that ends a
lively conversation.

The modules of the browser assume of calls that they are served and answered,
or fail (`WF` of `Serve` and `Take`, of `Load`, `Commit` and `Answered` in
`SignIn`): `client.ts` sets no time-out, but a worker is killed after 30 s and a
broken connection rejects the `fetch`. Of timers, that they run out: the claim
of a tab (`appTabs.ts:62`), the refusal of a code (`Login.tsx:46`), the
countdown (`ResendVerification.tsx:47`), the reader of a sticker
(`nfc.ts:71`). Of a dialog of the browser that it is answered in the end, with
"cancel" (`Decline`). Nothing is assumed of presses of buttons, of stickers held
to the phone, or of other people. In `Claims` the buyer opens the list of tags
again and again (`WF(OpenTags)`): the code turns claims into tags only then, so
`CodesReachTheirBuyer` could not hold without it.

## 5. The proofs

Each component's proofs are in a module of their own, `…Proofs`, that extends
it; `BrowserProofs` is about two, `Handoff` and `Accounts`. Every theorem holds for all values of the constants that satisfy the
module's named assumptions (`MaxTagsAssumption`, `WorkerAssumption`,
`ScanLogAssumption`, `RelayAssumption`, `HandoffAssumption`, `SignInAssumption`,
`ClaimsAssumption`, `TagPageAssumption`, `MailroomAssumption`,
`AccountsAssumption`), which TLC
evaluates in the runs. They say what the code has: finitely many workers (and in
`Relay` at least one), windows and limits in order (a dedup window shorter than
the retention time), claims numbered in the order they are issued,
mailed links numbered from 1, a recovery code that is not "no code". `Mailroom` keeps room for the conversations its
finder may open (`Conv > MaxFinder`): a row id is never refused by the database.

An invariant is seldom inductive by itself. Each section below names the
property and what had to be added to it; the strengthened invariants were
checked by TLC on the runs' instances before they were proved. A proof has one
lemma per handler, then one that puts the steps together (`Next…`), then the
theorems.

### `TagCodesProofs` (invariant `IInv`)

* `TypeCorrect`: `Spec => []TypeOK`;
* `CodesAlwaysLeadToTheirTag`: `Spec => []CodesLeadToTheirTag`;
* `VersionsAlwaysCountCodes`: `Spec => []VersionCountsCodes`;
* `TagLimitHolds`: `Spec => []TagLimit` (of the tags the owner creates);
* `RotationsStrandOnlyByRace`: `Spec => RotationStrandsOnlyByRace`.

The third is the surprising one: `token_version += 1` is an unlocked read and
write, and yet no rotation is lost. `IInv` adds the partition of a tag's codes
into the retired ones and the current one (`Accounted`), that no two tags have the
same current code (`CurrentApart`, the unique index) and only a claim can have given
a code to two tags one after the other (`SharedAreClaims`, with `DrawnAreFresh`: a
code is drawn once, and `TakesAreClaims`), that a tag about to be inserted is
unknown to others (`PromisedAreUnborn`),
and the fact that carries the argument, `LoadedWasStored`: a request that loaded
a code which *is still current* also loaded the current version. If another
rotation came in between, the outgoing code has been retired and the unique
index refuses the second commit; if none did, the version loaded is the version
stored. So the index on `retired_tokens.token_hash` is what makes the counter
safe. The limit needs an invariant of its own, `RoomLeft`: created tags and creations
under way together are fewer than the limit plus the workers; taking a claim adds to
neither, because no code that was drawn for a creation is ever a claim's. The last
theorem, an action property, follows from `IInv` and the fact that a rotation under way
always means to lift the block.

### `ScanLogProofs` (`CountInv`, `HistoryInv`, `SharedInv`, `MailInv`)

* `NoReadIsEverInvented`: `Spec => []NoReadIsInvented`;
  `MissedReadsOverlapped`: `Spec => []ReadsAreMissedOnlyByRace`. `CountInv` adds, for
  each request under way, that the counts it loaded were at most the reads then
  answered, that it writes one more or leaves them alone, and that what has been
  answered since is counted as overlapping (`PendingCounts`): a stale number may
  overwrite a higher one, never a true one by a false one, and by no more than the
  race.
* `ScanLogIsTyped`: `Spec => []TypeOK`.
* `ScannersAreDeduplicated`: `Spec => []ScansAreDeduplicated`. Counting the events
  in a window is not inductive, since a request about to insert one is not in the
  table. `HistoryInv` counts both, for every window of time (`FewAtATime`):
  recorded events and requests about to record one are together at most as many
  as the workers. A request that passes the check found *none* recorded, so what
  it adds to is only other workers. Events under way have ids and times of their
  own (`EventsAreApart`).
* `PlacesAreKept`: `Spec => SharedPlacesAreKept`. A place is written into the event
  of an earlier scan and goes with that one; `SharedInv` says that it is shared
  within that event's window, also while the request that shares it is under way.
* `ScanMailsAreSpaced`: `Spec => MailsAreSpaced`. `MailInv` says that every mail
  noted without a race is no later than the row's `last_notified_at`, and no later
  than what any announcement under way has loaded, or the loaded cooldown is over
  (`MailsAreNoted`): whatever else a request writes back, it is not the note.

### `RelayProofs` (`Known`, `RelayInv`, `FreshInv`, `TypeInv`)

* `DecisionsAlwaysStand`: `Spec => DecisionsStand`;
  `NamesAreEarned`: `Spec => []NameIsEarned`. `Known` says what is in the rows and
  in the requests: none is about to write `closed` back to false or an address
  back, because an UPDATE writes only edited columns and no handler edits them
  that way; a name that was shown had an answer or a public setting behind it.
* `MessagesAreLimited`: `Spec => []MessageLimit`;
  `LateMessagesStayFew`: `Spec => []LateMessagesAreFew`. As with the limit of
  tags, messages and replies under way are counted together (`RoomLeft`), and for
  a closed conversation the late messages and the replies still under way
  (`LateLeft`): no reply begins to a closed conversation, and the worker that
  closed it was not replying.
* `NoMessageIsLost`: `Spec => []UnreadIsNeverLost`;
  `ReplyMailsStaySpaced`: `Spec => ReplyMailsAreSpaced`. `FreshInv` ties the read
  mark and the message times to the clock of the `utcnow()` calls and the recorded
  cooldown to the time since the last mail that was noted undisturbed (`RowIsFresh`),
  and says the same of what every request has loaded and is about to write
  (`RequestIsFresh`): a reply under way is newer than what the owner has read, or the
  sides have crossed; a mail that follows is due. The cooldown is the delicate part:
  between the mail and the second commit it exists only in the request.
* `StoppedMailsStayFew`: `Spec => []StopMeansStop`. Mails sent after the opt-out and
  answers under way that loaded the address are counted together (`MailsLeft`,
  `Mailers`), and the worker that stopped the mails sends none.
* `RelayIsTyped`: `Spec => []TypeOK`. `TypeOK` says of an update of the tag only
  which columns it writes and of an opening nothing of the code it used; `TypeInv`
  adds their values (`UpdateIsTyped`), and that a request has the fields its
  handler gave it is in `Known`.

### `BrowserProofs` (`PageInv`, `AccountsInv`)

Of `Handoff`:

* `PagesAreTyped`; `OwnersAreNotAnnounced`: `Spec => []OwnerIsNotAnnounced`;
  `HandOffsWereTaken`: `Spec => []HandedOffWasTaken`. `PageInv` ties each effect
  of the page to what it has found so far (`PageHangsTogether`), an announced scan
  to a finder on a page that was shown, and an answer on the channel to the tab
  that gave it.
* `TabsDecide`: `Spec => ImplementsScanDecision`, the refinement of `ScanDecision`
  under the mapping `Screen`, action by action: the effects of the page map to
  steps of `ScanDecision`, everything the other tabs, the channel and the sessions
  do maps to a stutter.

Of `Accounts`:

* `AccountPagesAreTrue`: `AccountsSpec => []PagesTellTheTruth`;
  `AccountsAreTyped`: `AccountsSpec => []AccountsTypeOK`. `AccountsInv` is
  `SettingsInv /\ AnyoneInv` with what is known of the calls given up on
  (`SettingsLate`, `AnyoneLate`): the router shows one page at a time, so a step of one
  leaves the other as it was (`SettingsFrame`, `AnyoneFrame`), and each is proved
  with its own `Next`. A call served late changes what is stored under the page: on
  the settings it crosses every call in flight (`SettingsServesLate`), on the other
  pages it takes back nothing they go by (`AnyoneServesLate`).
* `SettingsInv`. What the page shows is seldom the account while calls are in
  flight, so the property alone says nothing of most states. `AccountIsShown` has
  the alternatives: the page shows the row, or some call under way *brings* it
  (`Brings`: a load that the server has yet to serve or that has the row as it is,
  or a change whose handler goes on to a load), or the history says that an answer
  was lost or crossed. That is inductive only with what a section may wait for
  (`MadeBy`, `Apart`: one call, or the load and the probe after a saved profile)
  and with `SettingsCallIsKnown`: an answer whose call crossed no other carries
  the row as it is. `CodesAreShown` says the same of the recovery codes, which only
  the answer to `totp_enable` brings, unless one of those was given up on.
* `AnyoneInv`. `OneCallAtATime`: a page waits for one call, and what is known of
  that call is tied to the page (`AnyoneCallIsKnown`: a registration is about the
  invitation the page shows, and an accepted one has made its account under the
  printed name). `AddressInv` is about the server: an address that has an account
  has no invitation left, only such an address was ever mailed a link, and of each
  kind one link works at most, which is what `issue_email_token` keeps by using up
  the ones before (`LinkIssued`). Nothing that happens meanwhile, not the other
  registration, the withdrawal or the expiry of a link, takes back what the page
  goes by (`AccountStays`).

### `SignInProofs` (`SignInInv`)

* `SignInIsTyped`; `LocksInTime`: `Spec => []GuessesAreBounded`. The interesting
  one: a stale count replaces a higher one, so the count alone says little. With
  `failed_login_count = k` at most `n + (n-1) + …`, k terms, guesses have been made
  (`Hidden`, doubled to stay in the integers); a client that has loaded a lower
  count than the stored one is bounded by what *it* loaded (`GuessesAreHidden`).
* `RecoveryCodesLetFewIn`: `Spec => []RecoveryCodesAreScarce`, from
  `CodesAreMarked`: those whom a code has let in and those about to be let in are
  counted together, and a code that has let someone in is marked.
* `TokensGoOutOnce`: `Spec => TokensAreSentOnce`, from `PageIsBusy`: while a token
  that was sent is in the widget, the form is busy.

### `ClaimsProofs` (`ClaimsInv`)

* `ClaimsAreTyped`; `WithdrawnClaimsStayWithdrawn`:
  `Spec => WithdrawnStaysWithdrawn`, from `TakenAreTags`;
* `PrintedDesignsAreShown`: `Spec => []PrintedDesignIsShown`. `OneDesign` adds that
  all open claims agree on one design, which is the account's if there is one, and
  that a call which has loaded goes by what is still so, all as long as no two
  requests have overlapped.

### `TagPageProofs` (`TagPageInv`)

* `TagPageIsTyped`; `PagesShowTheRow`: `Spec => []PageShowsTheRow`. `ShowsTheRow`
  says what the page shows while calls are in flight: the row as it is, unless an
  answer that was given and not yet taken says otherwise; `AnswersAreFresh` says
  that such an answer, if its call crossed no other, carries the row as it is.
* `StickersWrittenAreLinked`, `StickersAreTakenAsked`, `DoneOpensTheTag`: the three
  action properties of the NFC card, from `CardIsKnown` and `BindsAreKnown`: what
  is known of the chip that was read at every step of read, link, ask, write.

### `MailroomProofs` (`MailroomInv`)

* `TextsAndCityOnce`: `Spec => []NothingIsSentTwice`. A copy in the table is not
  the whole story: a text may be in a field, in a call, or in both. `MayArrive(t)`
  says that it can still arrive, and then one copy fewer is allowed
  (`TextsArriveOnce`): sending again is possible only after a call was lost.
* `ReadMeansShown`: `Spec => []ReadWasShown`. `ReadIsShown` adds that a
  conversation marked as read has been shown to its end, or to the reply the owner
  wrote there, or an answer in flight will see to it (`WillShow`). The answer to a
  reply does not list the reply; the owner knows it from having written it
  (`Known`).
* `MailroomIsTyped`: `Spec => []TypeOK`. What a page waits for is in `PagesWait`.

### What proving changed in the models

* `SignIn`: `granted` counted a recovery code sent along with a correct password
  even if the account has no second factor, where `login` never looks at it. The
  count goes by the account that was loaded now (`Grants`).
* `ScanLog`, `Relay`: the workers are finite, which the bounds by their number
  rest on. `Claims`: so are the claims. `Mailroom`: the room for conversations,
  above, is an assumption and no longer a matter of the cfg.
* `Settings`: any load that was answered ended the doubt that a lost answer leaves,
  and `PagesTellTheTruth` held in the run, whose calls are too few to tell. It is
  false with seven: a load brings the account and never the recovery codes, so
  after the answer to an `enable` was lost the page may show the codes of the time
  before, next to a second factor that is on (section 6). `doubt` now says what is
  doubted, the account or the codes, and a load settles the first only. TLC found
  the trace on an instance of the two sections it takes, when the proof of
  `CodesAreShown` called for an alternative that was not there.

### Only model-checked

* liveness: `EveryEventIsPurged`, `EveryConversationEnds`, `CardComesBack`,
  `ScanSettles`, `CheckInEnds`, `PagesComeToRest`, `CodesReachTheirBuyer`. The
  provers at hand have no rules for fairness and `ENABLED`.

Every safety invariant and every action property that a passing run checks is
stated by a theorem of this section.

## 6. What the models found

One disagreement between the code and what it says is a run that must end in a
violation; the trace is the scenario.

* `ResendReturns` (module `Accounts`): `ResendVerification.tsx:105` says "You can
  request another link in …", but the countdown takes the container of the bot
  check away, `turnstile.tsx` draws the widget in an effect that runs once, and
  the container that comes back stays empty: the button is disabled for the life
  of the page. `Login.tsx:296-298` knows this and hides its widget instead.

The cfgs below are kept beside the modules for the same purpose and are not
among the runs; TLC refutes the property of each.

* `TagCodesRotated` (`OnlyCurrentCodesResolve`): a rotated code still resolves,
  against `docs/index.html:556` (the comments in `models/tag.py` describe what
  the code does).
* `TagCodesClaims` (`EveryTagIsLimited`): "You can have up to … tags"
  (`tags.py:140-145`), but the tags that claims become are not counted: the list of
  tags (`tags.py:104-119`) and the registration (`accounts.py:84-85`) insert them
  without a look at the limit (`claims.py:220-238`). One worker is enough.
* `ScanLogWatched` (`WatchedMeansUnrendered`): the owner's own scans raise the
  "someone is watching" notice, because the page counts the read and then does
  not announce itself (`models/tag.py:93-97` says no browser was behind them).
* `ScanLogMailHistory` (`MailAgreesWithHistory`): a retired code of a lost,
  public tag: the mail claims the name was shown, the history says it was not
  (`scan.py:279` lacks `retired`, which `_name_was_released` asks for).
* `RelayNames` (`RetiredCodeNeverNames`): a conversation opened with a retired
  code is given the name, against `models/tag.py:212-213`.
* `RelayReplyHidden` (`ReplyIsShown`): the response to a reply lacks that reply,
  because the guard has loaded the messages and `expire_on_commit` is off.
* `RelayPurgeRace` (`ActiveIsNotPurged`): a reply between the two statements of
  the purge extends a conversation that is deleted all the same, with the reply
  in it.
* `HandedOffIsShown` (module `MCHandoff`): `appTabs.ts` says that the tab that answers moves to
  the tag; every tab with `Layout` answers first and then finds that it has no
  user, so a scan can be said to be open in a tab that shows nothing of it.
* `ClaimsWithdrawn` (module `Claims`, `WithdrawnIsDead`): a claim that is taken between the check and
  the DELETE is withdrawn all the same; the operator is told that the code has
  stopped working (`Admin.tsx:110`), and it works, on its owner's tag.

What the races cost, each visible in the bound or the exception of its property in
the passing run:

* two lists of tags at once can make two tags of one claim, if the first has lost
  its code by the time the second commits; the code then leads to the current one
  (`TakenTwice` in `CodesLeadToTheirTag`);
* two creations at the last free place both succeed (`TagLimit`), two replies
  pass the limit of messages together (`MessageLimit`), and a reply loaded before
  a rotation closes its conversation is still added (`LateMessagesAreFew`);
* a rotation that loaded the tag unblocked does not write the block column, so a
  block committed meanwhile survives it (`RotationStrandsOnlyByRace`);
* browsers behind one address that announce themselves at once are recorded once
  per worker (`ScansAreDeduplicated`) and may cost a mail each (`MailsAreSpaced`
  speaks of mails that were not `raced`), and of reads of the page at once only one
  is counted (`ReadsAreMissedOnlyByRace`);
* a worker killed between a mail and the commit that notes it leads to a second
  mail within the cooldown, to the owner (`noted` in `MailsAreSpaced`) and to the
  finder (`gap` in `ReplyMailsAreSpaced` runs from the note);
* an opt-out committed between the owner's reply and its mail does not stop that
  mail (`StopMeansStop`), and a second reply loaded before the first one's mail
  is noted mails again (`ReplyMailsAreSpaced`);
* a finder's message committed while the owner is reading or replying is marked as
  read without having been shown, until the owner next opens the conversation
  undisturbed (`UnreadIsNeverLost`);
* a request the browser has given up on may be served after all: the page then shows
  the state before it until it is told otherwise (`doubt` in `PageShowsTheRow` and
  `PagesTellTheTruth`);
* with two attempts at a time an account is locked after n + (n-1) + … + 1 wrong
  guesses rather than n (`GuessesAreBounded`), and two devices may both be let in
  by one recovery code (`RecoveryCodesAreScarce`);
* a change of the NFC card and one of the settings that overlap may leave the
  older of the two answers on the page (`PageShowsTheRow` excuses it by name);
* writing to a sticker swapped for another after the reading links one and writes
  the other, and the page says "Done" (`DoneMeansItOpens`); a sticker that is on
  another tag displaces this tag's own without a question about it
  (`NoStickerTakenUnasked`), because the second attempt overrides both refusals;
* an issue that overlaps a registration of the same address chooses a design of
  its own, and the printed tag does not match the account
  (`PrintedDesignIsShown`);
* `Settings.tsx:283` shows the recovery codes that `totp_enable` answered and never
  takes them away. After the second factor was removed, and after it was set up
  anew with the answer lost, they stay on the page under "Each works once"
  (`Settings.tsx:335`) although none works; `PagesTellTheTruth` excuses the one
  (it asks of the codes only while the second factor is on) and the other
  (`"codes" \in doubt`) by name;
* two invitations of one claim sent at once mail two links of which one is dead,
  and the later mail may be the dead one (`Admin.tsx:140` does not wait for
  itself).

## 7. Plan

What is left, in this order:

| Module | Models | Properties worth having | Proofs |
|---|---|---|---|
| `Sessions` | issue, slide, revoke, prune | a revoked session never answers again; cap; absolute expiry | revocation |
| `Keyring` | KEK versions, rewrap, users and claims, shredding | after rewrap nothing needs an old key; shredded data stays closed | rewrap |
| `Lookup` | `_lookup` in its two queries against `Claims` and `TagCodes` | a code is a claim or a tag, never neither for longer than one request | one owner per code |
| `Account` | deletion against requests under way | nothing of a deleted account comes back | |
| `ClientIp`, `Geo`, `Motif`, `Layout` | pure operators, checked against reference definitions over small inputs | truncation, coarsening, parity, fit | |

### Not modelled

Mail and page wording, configuration parsing, HTTP headers, schema validation,
migrations and deployment scripts have no behaviour worth a model. The drawing
of the artwork, the illustrations, the mole and the animations
(`TagArt.tsx`, `story.tsx`, `MoleCompanion.tsx`, `PasswordStrength.tsx` and their
like, about a third of the web client) are presentation: what they say of the
state is in the pages' modules where anything depends on it. The counters of
Flask-Limiter and the ciphers of `cryptography` are libraries the code only
configures. Downloads (exports, PDFs) read and change nothing; the list of tags
turns claims into tags, which is modelled (`TagCodes`, `Claims`). Claims being looked up by a scan before they are taken is left to `Lookup`.
