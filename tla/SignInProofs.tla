---------------------------- MODULE SignInProofs ----------------------------
(***************************************************************************)
(* Proofs about SignIn, for every login_max_attempts, every number of      *)
(* boxes, of recovery codes, of tickets and of attempts: how many wrong    *)
(* guesses an account takes before it is locked although two clients count *)
(* them on what each has loaded, how many sign-ins a recovery code is good *)
(* for, and that no Turnstile token is sent twice.                         *)
(***************************************************************************)
EXTENDS SignIn, FiniteSetTheorems, TLAPS

\* A request that will be counted as a guess once it commits.
Counts(r) ==
    r.out = "invalid_code" \/ (r.out = "invalid_credentials" /\ ~r.loaded.account.locked)

\* A request that locks the account.
Locks(r) == r.edited.account.locked /\ ~r.loaded.account.locked

\* What the failed logins have come to when a request loaded the account.
Loads(r) == r.loaded.account.failed_login_count

\* What a loaded request is about to write.
Reckoned(r) ==
    /\ Counts(r) => IF Loads(r) + 1 >= MaxAttempts
                    THEN Locks(r) /\ r.edited.account.failed_login_count = 0
                    ELSE ~Locks(r) /\ r.edited.account.failed_login_count = Loads(r) + 1
    /\ ~Counts(r) => /\ ~Locks(r)
                     /\ r.edited.account.failed_login_count =
                            IF r.out = "signed_in" THEN 0 ELSE Loads(r)
    /\ Loads(r) < MaxAttempts
    /\ \A c \in Code : r.edited.codes[c] = (r.loaded.codes[c] \/ Grants(r, c))
    /\ \A c \in Code : Grants(r, c) => ~r.loaded.codes[c]

\* Twice the guesses that n clicks of the count may hide: n + (n - 1) + ... , as
\* many terms as the count has come to.  A client that has loaded the count k lets
\* the other one guess up to the limit, and then sets the count to k + 1.
Hidden(k) == k * (2 * MaxAttempts + 1 - k)

\* The count of failed logins against the guesses that were made.
GuessesAreHidden ==
    /\ guesses \in Nat
    /\ 2 * guesses <= Hidden(account.failed_login_count)
    /\ \A c \in Client :
        request[c].stage = "loaded" /\ Loads(request[c]) <= account.failed_login_count =>
            2 * guesses <= Hidden(Loads(request[c]))
                            + 2 * (account.failed_login_count - Loads(request[c]))
    \* Nobody counts while both have loaded: the last of them has the count.
    /\ (\A c \in Client : request[c].stage = "loaded") =>
            \E c \in Client : Loads(request[c]) = account.failed_login_count

\* Whether a request under way is about to let someone in with a recovery code.
Granting(client, c) ==
    IF request[client].stage = "loaded" /\ Grants(request[client], c) THEN 1 ELSE 0

\* A code that has let someone in is marked, and while it is not, each client is
\* about to use it at most once.
CodesAreMarked ==
    /\ granted \in [Code -> Nat]
    /\ \A c \in Code :
        /\ granted[c] > 0 => codes[c]
        /\ granted[c] + Granting("page", c) + Granting("other", c) <= 2

\* A sign-in that is shown as done has its answer, and a token that was sent is
\* thrown away before the form can be used again.
PageIsBusy ==
    /\ page.checkIn = "tagged" => request["page"].stage = "none"
    /\ widget.token = "sent" => page.busy

SignInInv ==
    /\ TypeOK
    /\ request["other"].stage \in {"none", "loaded"}
    /\ \A c \in Client : request[c].stage = "loaded" => Reckoned(request[c])
    /\ GuessesAreHidden
    /\ CodesAreMarked
    /\ PageIsBusy

-----------------------------------------------------------------------------
(* How much a count hides. *)

\* One more on the count hides one guess less than the one before.
LEMMA HiddenNext ==
    ASSUME NEW k \in 0..MaxAttempts
    PROVE  /\ Hidden(k) \in Int
           /\ Hidden(k + 1) = Hidden(k) + 2 * (MaxAttempts - k)
<1>1. MaxAttempts \in Nat /\ k \in Nat
  BY SignInAssumption
<1>2. (k + 1) * (2 * MaxAttempts + 1 - (k + 1))
            = k * (2 * MaxAttempts + 1 - k) + 2 * (MaxAttempts - k)
  BY <1>1
<1> QED
  BY <1>1, <1>2 DEF Hidden

\* Up to the limit a higher count hides more, by a guess for each attempt at least.
LEMMA HiddenGrows ==
    ASSUME NEW k \in 0..MaxAttempts, NEW m \in 0..MaxAttempts, k <= m
    PROVE  Hidden(m) >= Hidden(k) + 2 * (m - k)
<1>1. MaxAttempts \in Nat /\ k \in Nat /\ m \in Nat
  BY SignInAssumption
<1>2. CASE k = m
  BY <1>1, <1>2, HiddenNext
<1>3. CASE k < m
  <2>1. PICK d \in Nat : d = m - k - 1
    BY <1>1, <1>3
  <2>2. PICK e \in Nat : e = 2 * MaxAttempts - 1 - k - m
    BY <1>1, <1>3
  <2>3. Hidden(m) = Hidden(k) + (d + 1) * (e + 2)
    <3>1. m = k + d + 1 /\ 2 * MaxAttempts = e + 1 + k + m
      BY <1>1, <2>1, <2>2
    <3>2. Hidden(m) = m * (e + 2 + k) /\ Hidden(k) = k * (e + 2 + m)
      BY <1>1, <2>2, <3>1 DEF Hidden
    <3> QED
      BY <1>1, <3>1, <3>2
  <2>4. (d + 1) * (e + 2) = 2 * (d + 1) + d * e + e
    OBVIOUS
  <2>5. d * e >= 0
    OBVIOUS
  <2>6. Hidden(k) \in Int
    BY HiddenNext
  <2> QED
    BY <1>1, <2>1, <2>3, <2>4, <2>5, <2>6
<1> QED
  BY <1>1, <1>2, <1>3

\* What is hidden below the limit, and at it.
LEMMA HiddenIsBounded ==
    ASSUME NEW k \in 0..MaxAttempts - 1
    PROVE  0 <= Hidden(k) /\ Hidden(k) < MaxAttempts * (MaxAttempts + 1)
<1>1. MaxAttempts \in Nat \ {0} /\ k \in 0..MaxAttempts /\ k < MaxAttempts
  BY SignInAssumption
<1>2. Hidden(MaxAttempts) = MaxAttempts * (MaxAttempts + 1)
  BY <1>1 DEF Hidden
<1>3. Hidden(MaxAttempts) >= Hidden(k) + 2 * (MaxAttempts - k)
  BY <1>1, HiddenGrows
<1>4. Hidden(0) = 0
  BY <1>1 DEF Hidden
<1>5. Hidden(k) >= Hidden(0) + 2 * k
  BY <1>1, HiddenGrows
<1>6. Hidden(k) \in Int
  BY <1>1, HiddenNext
<1> QED
  BY <1>1, <1>2, <1>3, <1>4, <1>5, <1>6

-----------------------------------------------------------------------------
(* What login makes of a call. *)

Database ==
    [account : Account, tickets : [Ticket -> {"new", "live", "used"}], codes : [Code -> BOOLEAN]]

\* A failure is counted, and the one that reaches the limit locks.
LEMMA FailureIsCounted ==
    ASSUME NEW db \in Database, db.account.failed_login_count < MaxAttempts
    PROVE  LET n == db.account.failed_login_count
               new == RegisterFailure(db) IN
           /\ new \in Database
           /\ new.codes = db.codes
           /\ n + 1 >= MaxAttempts =>
                new.account.failed_login_count = 0 /\ new.account.locked
           /\ n + 1 < MaxAttempts =>
                /\ new.account.failed_login_count = n + 1
                /\ new.account.locked = db.account.locked
<1> DEFINE n == db.account.failed_login_count
           new == RegisterFailure(db)
<1>1. n \in 0..MaxAttempts /\ n < MaxAttempts /\ MaxAttempts \in Nat
  BY SignInAssumption DEF Database, Account
<1>2. CASE n + 1 >= MaxAttempts
  <2>1. new = [db EXCEPT !.account.failed_login_count = 0, !.account.locked = TRUE]
    BY <1>2 DEF RegisterFailure
  <2>2. new.account = [db.account EXCEPT !.failed_login_count = 0, !.locked = TRUE]
        /\ new.codes = db.codes /\ new.tickets = db.tickets
    BY <2>1 DEF Database
  <2>3. new.account \in Account
    <3>1. db.account \in Account /\ 0 \in 0..MaxAttempts
      BY <1>1 DEF Database
    <3> QED
      BY <2>2, <3>1 DEF Account
  <2>4. new = [account |-> new.account, tickets |-> new.tickets, codes |-> new.codes]
    BY <2>1 DEF Database
  <2>5. new \in Database
    BY <2>2, <2>3, <2>4 DEF Database
  <2>6. new.account.failed_login_count = 0
    BY <2>2 DEF Database, Account
  <2>7. new.account.locked
    BY <2>2 DEF Database, Account
  <2>8. ~(n + 1 < MaxAttempts)
    BY <1>1, <1>2
  <2> QED
    BY <2>2, <2>5, <2>6, <2>7, <2>8
<1>3. CASE n + 1 < MaxAttempts
  <2>1. new = [db EXCEPT !.account.failed_login_count = n + 1]
    BY <1>1, <1>3 DEF RegisterFailure
  <2>2. new.account = [db.account EXCEPT !.failed_login_count = n + 1]
        /\ new.codes = db.codes /\ new.tickets = db.tickets
    BY <2>1 DEF Database
  <2>3. new.account \in Account
    BY <1>1, <2>2 DEF Database, Account
  <2>4. new = [account |-> new.account, tickets |-> new.tickets, codes |-> new.codes]
    BY <2>1 DEF Database
  <2>5. new \in Database
    BY <2>2, <2>3, <2>4 DEF Database
  <2>6. new.account.failed_login_count = n + 1
    BY <2>2 DEF Database, Account
  <2>7. new.account.locked = db.account.locked
    BY <2>2 DEF Database, Account
  <2>8. ~(n + 1 >= MaxAttempts)
    BY <1>1, <1>3
  <2> QED
    BY <2>2, <2>5, <2>6, <2>7, <2>8
<1> QED
  BY <1>1, <1>2, <1>3

\* A recovery code that has not been used is marked, and nothing else changes.
LEMMA CodeIsMarked ==
    ASSUME NEW r, NEW db \in Database, r.recovery \in Code \cup {NoCode}
    PROVE  /\ Consume(r, db) \in Database
           /\ Consume(r, db).account = db.account
           /\ \A c \in Code : Consume(r, db).codes[c] = (db.codes[c] \/ r.recovery = c)
<1>1. CASE Unused(r.recovery, db)
  <2>1. Consume(r, db) = [db EXCEPT !.codes[r.recovery] = TRUE]
    BY <1>1 DEF Consume
  <2>2. Consume(r, db).codes = [db.codes EXCEPT ![r.recovery] = TRUE]
        /\ Consume(r, db).account = db.account
    BY <2>1 DEF Database
  <2>3. Consume(r, db) \in Database
    <3>1. Consume(r, db).codes \in [Code -> BOOLEAN]
      BY <2>2 DEF Database
    <3> QED
      BY <2>1, <3>1 DEF Database
  <2>4. \A c \in Code : Consume(r, db).codes[c] = IF c = r.recovery THEN TRUE ELSE db.codes[c]
    BY <2>2 DEF Database
  <2>5. db.codes \in [Code -> BOOLEAN]
    BY DEF Database
  <2> QED
    BY <2>2, <2>3, <2>4, <2>5
<1>2. CASE ~Unused(r.recovery, db)
  <2>1. Consume(r, db) = db
    BY <1>2 DEF Consume
  <2>2. db.codes \in [Code -> BOOLEAN]
    BY DEF Database
  <2>3. \A c \in Code : r.recovery = c => db.codes[c]
    BY <1>2, SignInAssumption DEF Unused
  <2> QED
    BY <2>1, <2>2, <2>3
<1> QED
  BY <1>1, <1>2

\* Redeeming a ticket or issuing one changes nothing but tickets.
LEMMA TicketsOnly ==
    ASSUME NEW r, NEW db \in Database, r.ticket \in {0} \cup Ticket, NEW t
    PROVE  /\ Redeemed(r, db) \in Database
           /\ Redeemed(r, db).account = db.account /\ Redeemed(r, db).codes = db.codes
           /\ IssueTicket(db, t) \in Database
           /\ IssueTicket(db, t).account = db.account /\ IssueTicket(db, t).codes = db.codes
<1>1. /\ Redeemed(r, db) \in Database
      /\ Redeemed(r, db).account = db.account /\ Redeemed(r, db).codes = db.codes
  BY SignInAssumption DEF Redeemed, Database
<1>2. /\ IssueTicket(db, t) \in Database
      /\ IssueTicket(db, t).account = db.account /\ IssueTicket(db, t).codes = db.codes
  BY DEF IssueTicket, Database
<1> QED
  BY <1>1, <1>2

\* What login decides, and when.
Outcomes ==
    {"signed_in", "totp_required", "email_unverified", "invalid_credentials",
     "invalid_code", "verification_failed"}

\* What login can decide, and what it has checked when it does.
LEMMA Decisions ==
    ASSUME NEW r, NEW db
    PROVE  /\ Decision(r, db) \in Outcomes
           /\ Decision(r, db) = "invalid_code" => ~db.account.locked
           /\ Decision(r, db) = "signed_in" =>
                ~db.account.locked /\ (r.recovery # NoCode /\ db.account.totp => Unused(r.recovery, db))
  BY DEF Decision, Outcomes, SecondFactorOk

\* What login has edited when it decided: a guess is counted, and only the code
\* that lets someone in is marked.
LEMMA EditedIsReckoned ==
    ASSUME NEW r, r.ticket \in {0} \cup Ticket, r.recovery \in Code \cup {NoCode}, NEW t,
           NEW db \in Database, db.account.failed_login_count < MaxAttempts
    PROVE  LET n == db.account.failed_login_count
               out == Decision(r, db)
               new == Edited(r, db, t)
               counts == out = "invalid_code" \/ (out = "invalid_credentials" /\ ~db.account.locked)
           IN
           /\ new \in Database
           /\ counts /\ n + 1 >= MaxAttempts =>
                new.account.failed_login_count = 0 /\ new.account.locked
           /\ counts /\ n + 1 < MaxAttempts =>
                new.account.failed_login_count = n + 1 /\ new.account.locked = db.account.locked
           /\ ~counts => new.account.locked = db.account.locked
           /\ ~counts => new.account.failed_login_count = IF out = "signed_in" THEN 0 ELSE n
           /\ \A c \in Code : new.codes[c] =
                (db.codes[c] \/ (out = "signed_in" /\ db.account.totp /\ r.recovery = c))
<1> DEFINE n == db.account.failed_login_count
           out == Decision(r, db)
           new == Edited(r, db, t)
           now == Redeemed(r, db)
<1>1. now \in Database /\ now.account = db.account /\ now.codes = db.codes
  BY TicketsOnly
<1>2. db.account \in Account /\ db.codes \in [Code -> BOOLEAN] /\ n \in Nat /\ MaxAttempts \in Nat
      /\ 0 \in 0..MaxAttempts
  BY SignInAssumption DEF Database, Account
<1>3. CASE out \in {"verification_failed", "email_unverified"}
           \/ (out = "invalid_credentials" /\ db.account.locked)
  <2>1. new = db \/ new = now
    BY <1>3 DEF Edited
  <2> QED
    BY <1>1, <1>2, <1>3, <2>1
<1>4. CASE out = "totp_required"
  <2>1. new = IssueTicket(now, t)
    BY <1>4 DEF Edited
  <2>2. new \in Database /\ new.account = db.account /\ new.codes = db.codes
    BY <1>1, <2>1, TicketsOnly
  <2> QED
    BY <1>2, <1>4, <2>2
<1>5. CASE out = "invalid_code" \/ (out = "invalid_credentials" /\ ~db.account.locked)
  <2>1. new = RegisterFailure(now)
    BY <1>5 DEF Edited
  <2>2. now.account.failed_login_count < MaxAttempts
    BY <1>1
  <2>3. /\ new \in Database
        /\ new.codes = db.codes
        /\ n + 1 >= MaxAttempts => new.account.failed_login_count = 0 /\ new.account.locked
        /\ n + 1 < MaxAttempts =>
                new.account.failed_login_count = n + 1 /\ new.account.locked = db.account.locked
    BY <1>1, <2>1, <2>2, FailureIsCounted
  <2> QED
    BY <1>2, <1>5, <2>3
<1>6. CASE out = "signed_in"
  <2> DEFINE in == IF db.account.totp THEN Consume(r, now) ELSE now
  <2>1. new = [in EXCEPT !.account.failed_login_count = 0, !.account.locked = FALSE]
    BY <1>6 DEF Edited
  <2>2. /\ in \in Database /\ in.account = db.account
        /\ \A c \in Code : in.codes[c] = (db.codes[c] \/ (db.account.totp /\ r.recovery = c))
    BY <1>1, <1>2, CodeIsMarked
  <2>3. new.account = [db.account EXCEPT !.failed_login_count = 0, !.locked = FALSE]
        /\ new.codes = in.codes /\ new.tickets = in.tickets
        /\ new = [account |-> new.account, tickets |-> new.tickets, codes |-> new.codes]
    <3> HIDE DEF in
    <3> QED
      BY <2>1, <2>2 DEF Database
  <2>4. new.account \in Account
    BY <1>2, <2>3 DEF Account
  <2>5. new \in Database
    <3> HIDE DEF in, new
    <3> QED
      BY <2>2, <2>3, <2>4 DEF Database
  <2>6. new.account.failed_login_count = 0
    BY <1>2, <2>3 DEF Account
  <2>7. ~new.account.locked
    BY <1>2, <2>3 DEF Account
  <2>8. ~db.account.locked
    BY <1>6, Decisions
  <2>9. \A c \in Code : new.codes[c] = (db.codes[c] \/ (db.account.totp /\ r.recovery = c))
    BY <2>2, <2>3
  <2>10. new.account.locked = db.account.locked
    BY <1>2, <2>4, <2>7, <2>8 DEF Account
  <2> HIDE DEF in
  <2> QED
    BY <1>6, <2>5, <2>6, <2>9, <2>10
<1> QED
  BY <1>3, <1>4, <1>5, <1>6, Decisions DEF Outcomes

\* The fields of a request that has loaded.
LEMMA LoadedFields ==
    ASSUME NEW r, NEW t
    PROVE  Loaded(r, t) =
             [stage |-> "loaded", password |-> "right", digits |-> "none",
              recovery |-> r.recovery, ticket |-> IF Decision(r, Stored) = "totp_required" THEN t ELSE 0,
              token |-> "none", out |-> Decision(r, Stored),
              loaded |-> Stored, edited |-> Edited(r, Stored, t)]
<1> DEFINE out == Decision(r, Stored)
           ticket == IF out = "totp_required" THEN t ELSE 0
           edited == Edited(r, Stored, t)
<1>1. PICK row : NoRequest =
        [stage |-> "none", password |-> "right", digits |-> "none", recovery |-> NoCode,
         ticket |-> 0, token |-> "none", out |-> "none", loaded |-> row, edited |-> row]
  BY Zenon DEF NoRequest
<1>2. Loaded(r, t) = [NoRequest EXCEPT !.stage = "loaded", !.out = out, !.recovery = r.recovery,
                                       !.ticket = ticket, !.loaded = Stored, !.edited = edited]
  BY Zenon DEF Loaded
<1> HIDE DEF out, ticket, edited
<1>3. Loaded(r, t) =
        [stage |-> "loaded", password |-> "right", digits |-> "none", recovery |-> r.recovery,
         ticket |-> ticket, token |-> "none", out |-> out, loaded |-> Stored, edited |-> edited]
  BY <1>1, <1>2
<1> QED
  BY Zenon, <1>3 DEF out, ticket, edited

\* What a request has loaded and edited is what is stored, and what it may write.
LEMMA LoadedIsReckoned ==
    ASSUME TypeOK, NEW r, r.ticket \in {0} \cup Ticket, r.recovery \in Code \cup {NoCode}, NEW t,
           Decision(r, Stored) = "totp_required" => t \in Ticket
    PROVE  /\ Loaded(r, t) \in Request
           /\ Reckoned(Loaded(r, t))
           /\ Loads(Loaded(r, t)) = account.failed_login_count
           /\ Loaded(r, t).loaded.codes = codes
           /\ Loaded(r, t).stage = "loaded"
<1> DEFINE new == Loaded(r, t)
           out == Decision(r, Stored)
<1>1. /\ new.stage = "loaded" /\ new.out = out /\ new.recovery = r.recovery
      /\ new.ticket = IF out = "totp_required" THEN t ELSE 0
      /\ new.loaded = Stored /\ new.edited = Edited(r, Stored, t)
  BY LoadedFields
<1>2. Stored \in Database /\ Stored.account = account /\ Stored.codes = codes
      /\ Stored.account.failed_login_count < MaxAttempts
  BY DEF TypeOK, Stored, Database
<1>3. Edited(r, Stored, t) \in Database
  BY <1>2, EditedIsReckoned
<1>4. out \in Outcomes
  BY Decisions
<1>5. new \in Request
  <2>1. (IF out = "totp_required" THEN t ELSE 0) \in {0} \cup Ticket
    OBVIOUS
  <2>2. Stored \in [account : Account, tickets : [Ticket -> {"new", "live", "used"}],
                    codes : [Code -> BOOLEAN]]
        /\ Edited(r, Stored, t) \in [account : Account, codes : [Code -> BOOLEAN],
                                     tickets : [Ticket -> {"new", "live", "used"}]]
    BY <1>2, <1>3 DEF Database
  <2> HIDE DEF out
  <2> QED
    BY <1>4, <2>1, <2>2, LoadedFields DEF Request, Outcomes, out
<1>6. Reckoned(new)
  <2>1. account.failed_login_count \in Nat /\ MaxAttempts \in Nat
    BY SignInAssumption DEF TypeOK, Account
  <2>2. account.locked \in BOOLEAN
    BY DEF TypeOK, Account
  <2>3. codes \in [Code -> BOOLEAN]
    BY DEF TypeOK
  <2>4. Counts(new) <=> out = "invalid_code" \/ (out = "invalid_credentials" /\ ~account.locked)
    BY <1>1, <1>2 DEF Counts
  <2>5. Counts(new) => IF Loads(new) + 1 >= MaxAttempts
                       THEN Locks(new) /\ new.edited.account.failed_login_count = 0
                       ELSE ~Locks(new) /\ new.edited.account.failed_login_count = Loads(new) + 1
    <3>1. Counts(new) => ~account.locked
      BY <2>4, <1>2, Decisions
    <3> HIDE DEF new, out
    <3> QED
      BY <1>1, <1>2, <2>1, <2>4, <3>1, EditedIsReckoned DEF Locks, Loads, out
  <2>6. ~Counts(new) => ~Locks(new)
    BY <1>1, <1>2, <2>4, EditedIsReckoned DEF Locks
  <2>7. ~Counts(new) => new.edited.account.failed_login_count =
                            IF new.out = "signed_in" THEN 0 ELSE Loads(new)
    BY <1>1, <1>2, <2>4, EditedIsReckoned DEF Loads
  <2>8. \A c \in Code : new.edited.codes[c] = (new.loaded.codes[c] \/ Grants(new, c))
    <3>1. ASSUME NEW c \in Code
          PROVE  Edited(r, Stored, t).codes[c] =
                    (codes[c] \/ (out = "signed_in" /\ account.totp /\ r.recovery = c))
      BY <1>2, EditedIsReckoned
    <3> QED
      BY <1>1, <1>2, <3>1 DEF Grants
  <2>9. \A c \in Code : Grants(new, c) => ~new.loaded.codes[c]
    <3> SUFFICES ASSUME NEW c \in Code, Grants(new, c)
                 PROVE  ~codes[c]
      BY <1>1, <1>2
    <3>1. out = "signed_in" /\ r.recovery = c /\ account.totp /\ c # NoCode
      BY <1>1, <1>2, SignInAssumption DEF Grants
    <3>2. Unused(c, Stored)
      BY <1>2, <3>1, Decisions
    <3> QED
      BY <1>2, <3>2 DEF Unused
  <2>10. Loads(new) < MaxAttempts
    BY <1>1, <1>2 DEF Loads
  <2> HIDE DEF new, out
  <2> QED
    BY <2>5, <2>6, <2>7, <2>8, <2>9, <2>10 DEF Reckoned
<1> HIDE DEF new
<1> QED
  BY <1>1, <1>2, <1>5, <1>6 DEF Loads, new

-----------------------------------------------------------------------------
(* The counters, as requests load and commit. *)

\* What is said of the server and of the requests under way.
Accounted ==
    /\ \A c \in Client : request[c].stage = "loaded" => Reckoned(request[c])
    /\ GuessesAreHidden
    /\ CodesAreMarked

\* The initial states: nothing has been tried.
LEMMA InitSignIn == Init => SignInInv
<1> SUFFICES ASSUME Init
             PROVE  SignInInv
  OBVIOUS
<1> USE SignInAssumption DEF Init
<1>1. NoRequest \in Request /\ NoRequest.stage = "none"
  BY DEF NoRequest, Request, Account
<1>2. account \in Account /\ account.failed_login_count = 0
  BY DEF Account
<1>3. page \in Page /\ ~page.busy /\ page.checkIn = "idle"
  BY DEF Page, Blank, Digit
<1>4. widget \in Widget /\ widget.token = "none"
  BY DEF Widget, NewWidget
<1>5. TypeOK
  <2>1. tickets \in [Ticket -> {"new", "live", "used"}] /\ codes \in [Code -> BOOLEAN]
    OBVIOUS
  <2>2. request \in [Client -> Request] /\ request["page"].stage = "none"
    BY <1>1 DEF Client
  <2>3. 0 < MaxAttempts
    OBVIOUS
  <2> QED
    BY ONLY <1>2, <1>3, <1>4, <2>1, <2>2, <2>3 DEF TypeOK
<1>6. Hidden(0) = 0
  BY DEF Hidden
<1>7. GuessesAreHidden
  BY <1>1, <1>2, <1>6 DEF GuessesAreHidden, Client
<1>8. CodesAreMarked
  BY <1>1 DEF CodesAreMarked, Granting, Client
<1> QED
  BY <1>1, <1>3, <1>4, <1>5, <1>7, <1>8 DEF SignInInv, PageIsBusy, Client

\* While nothing is written, requests that do not load keep the books.
LEMMA BooksStay ==
    ASSUME SignInInv, UNCHANGED <<account, codes, guesses, granted>>,
           \A c \in Client : request'[c].stage = "loaded" => request'[c] = request[c]
    PROVE  Accounted'
<1>1. \A c \in Client : request'[c].stage = "loaded" => Reckoned(request[c])'
  BY DEF SignInInv, Reckoned, Counts, Locks, Loads, Grants
<1>2. GuessesAreHidden'
  BY DEF SignInInv, GuessesAreHidden, Loads, Hidden, Client
<1>3. CodesAreMarked'
  <2>1. \A client \in Client, c \in Code :
            /\ Granting(client, c) \in {0, 1} /\ Granting(client, c)' \in {0, 1}
            /\ Granting(client, c)' <= Granting(client, c)
    BY DEF Granting, Grants
  <2> QED
    BY <2>1 DEF SignInInv, CodesAreMarked, Client
<1> QED
  BY <1>1, <1>2, <1>3 DEF Accounted

\* A request that loads goes by the count as it is, and takes only a code that has
\* let nobody in yet.
LEMMA LoadingKeeps ==
    ASSUME SignInInv, NEW c \in Client, request[c].stage # "loaded",
           NEW r, r.ticket \in {0} \cup Ticket, r.recovery \in Code \cup {NoCode}, NEW t,
           Decision(r, Stored) = "totp_required" => t \in Ticket,
           request' = [request EXCEPT ![c] = Loaded(r, t)],
           UNCHANGED <<account, codes, guesses, granted>>
    PROVE  request' \in [Client -> Request] /\ request'[c].stage = "loaded" /\ Accounted'
<1> DEFINE new == Loaded(r, t)
           n == account.failed_login_count
<1>1. TypeOK /\ request \in [Client -> Request]
  BY DEF SignInInv, TypeOK
<1>2. /\ new \in Request /\ new.stage = "loaded" /\ Reckoned(new)
      /\ Loads(new) = n /\ new.loaded.codes = codes
  BY <1>1, LoadedIsReckoned
<1>3. request'[c] = new /\ \A d \in Client \ {c} : request'[d] = request[d]
  BY <1>1
<1>4. request' \in [Client -> Request]
  BY <1>1, <1>2
<1>5. \A d \in Client : Loads(request'[d]) = Loads(request[d])'
  BY DEF Loads
<1> HIDE DEF new
<1>6. \A d \in Client : request'[d].stage = "loaded" => Reckoned(request[d])'
  <2>1. \A d \in Client : Reckoned(request'[d]) = Reckoned(request[d])'
    BY DEF Reckoned, Counts, Locks, Loads, Grants
  <2> QED
    BY <1>2, <1>3, <2>1 DEF SignInInv
<1>7. n \in 0..MaxAttempts /\ MaxAttempts \in Nat /\ n \in Nat
  BY <1>1, SignInAssumption DEF TypeOK, Account
<1>8. GuessesAreHidden'
  <2>1. \A d \in Client \ {c} : Loads(request[d])' = Loads(request[d])
    BY <1>3 DEF Loads
  <2>2. Loads(request[c])' = n
    BY <1>2, <1>3, <1>5
  <2> QED
    BY <1>3, <1>7, <2>1, <2>2 DEF SignInInv, GuessesAreHidden, Hidden
<1>9. CodesAreMarked'
  <2>1. \A client \in Client, d \in Code :
            Granting(client, d) \in {0, 1} /\ Granting(client, d)' \in {0, 1}
    BY DEF Granting
  <2>2. \A client \in Client \ {c}, d \in Code : Granting(client, d)' = Granting(client, d)
    BY <1>3 DEF Granting, Grants
  <2>3. ASSUME NEW d \in Code, Granting(c, d)' = 1
        PROVE  granted[d] = 0
    <3>1. Grants(new, d)
      BY <1>3, <2>3 DEF Granting, Grants
    <3>2. ~codes[d]
      BY <1>2, <3>1 DEF Reckoned
    <3> QED
      BY <3>2 DEF SignInInv, CodesAreMarked
  <2> QED
    BY <2>1, <2>2, <2>3 DEF SignInInv, CodesAreMarked, Client
<1> QED
  BY <1>2, <1>3, <1>4, <1>6, <1>8, <1>9 DEF Accounted

\* The columns of the account after a commit.
LEMMA FlushedAccount ==
    ASSUME NEW stored \in Account, NEW loaded \in Account, NEW edited \in Account
    PROVE  LET new == Flushed(stored, loaded, edited) IN
           /\ new \in Account
           /\ new.failed_login_count =
                IF edited.failed_login_count # loaded.failed_login_count
                THEN edited.failed_login_count ELSE stored.failed_login_count
  BY DEF Flushed, Account

\* A commit keeps the books: a guess that is counted on a stale count moves the
\* count to where it hides one guess more.
LEMMA CommitKeeps ==
    ASSUME SignInInv, NEW c \in Client, Commit(c)
    PROVE  /\ account' \in Account /\ account'.failed_login_count < MaxAttempts
           /\ tickets' \in [Ticket -> {"new", "live", "used"}]
           /\ codes' \in [Code -> BOOLEAN]
           /\ request' \in [Client -> Request]
           /\ request'[c].stage # "loaded" /\ \A d \in Client \ {c} : request'[d] = request[d]
           /\ Accounted'
<1> DEFINE r == request[c]
           f == account.failed_login_count
           k == Loads(r)
<1>1. /\ TypeOK /\ r.stage = "loaded" /\ Reckoned(r) /\ r \in Request
      /\ GuessesAreHidden /\ CodesAreMarked
  BY DEF SignInInv, Commit, TypeOK
<1>2. /\ account \in Account /\ r.loaded.account \in Account /\ r.edited.account \in Account
      /\ account' = Flushed(account, r.loaded.account, r.edited.account)
  BY <1>1 DEF TypeOK, Request, Commit
<1>3. /\ account' \in Account
      /\ account'.failed_login_count =
            IF r.edited.account.failed_login_count # k
            THEN r.edited.account.failed_login_count ELSE f
  BY <1>2, FlushedAccount DEF Loads
<1>4. f \in 0..MaxAttempts - 1 /\ k \in 0..MaxAttempts - 1 /\ MaxAttempts \in Nat \ {0}
  BY <1>1, <1>2, SignInAssumption DEF TypeOK, Account, Reckoned, Loads
<1>5. account'.failed_login_count \in 0..MaxAttempts - 1
  BY <1>1, <1>3, <1>4 DEF Reckoned
<1>6. tickets' \in [Ticket -> {"new", "live", "used"}]
  BY <1>1 DEF Commit, Flushed, TypeOK, Request
<1>7. codes' \in [Code -> BOOLEAN]
      /\ \A x \in Code : codes'[x] = (codes[x] \/ Grants(r, x))
  <2>1. /\ codes \in [Code -> BOOLEAN] /\ r.loaded.codes \in [Code -> BOOLEAN]
        /\ r.edited.codes \in [Code -> BOOLEAN]
        /\ codes' = Flushed(codes, r.loaded.codes, r.edited.codes)
    BY <1>1 DEF TypeOK, Request, Commit
  <2>2. codes' \in [Code -> BOOLEAN]
        /\ \A x \in Code : codes'[x] = IF r.edited.codes[x] # r.loaded.codes[x]
                                       THEN r.edited.codes[x] ELSE codes[x]
    BY <2>1 DEF Flushed
  <2>3. \A x \in Code : r.edited.codes[x] = (r.loaded.codes[x] \/ Grants(r, x))
                        /\ (Grants(r, x) => ~r.loaded.codes[x])
    BY <1>1 DEF Reckoned
  <2> QED
    BY <2>1, <2>2, <2>3
<1>8. /\ request' \in [Client -> Request]
      /\ request'[c].stage # "loaded" /\ \A d \in Client \ {c} : request'[d] = request[d]
  <2>1. PICK new : /\ request' = [request EXCEPT ![c] = new]
                   /\ new = IF c = "page" THEN [NoRequest EXCEPT !.stage = "answered", !.out = r.out,
                                                                 !.ticket = r.ticket]
                            ELSE NoRequest
    BY DEF Commit
  <2>2. NoRequest \in Request
    BY SignInAssumption DEF NoRequest, Request, Account
  <2>3. NoRequest.stage = "none"
    BY DEF NoRequest
  <2>4. new \in Request /\ new.stage # "loaded"
    BY ZenonT(30), <1>1, <2>1, <2>2, <2>3 DEF Request
  <2> QED
    BY <1>1, <2>1, <2>4 DEF TypeOK
<1>9. \A d \in Client : request'[d].stage = "loaded" =>
            d # c /\ request[d].stage = "loaded" /\ Loads(request[d])' = Loads(request[d])
  BY <1>8 DEF Loads
<1>10. \A d \in Client : request'[d].stage = "loaded" => Reckoned(request[d])'
  BY <1>8, <1>9 DEF SignInInv, Reckoned, Counts, Locks, Loads, Grants
<1>11. GuessesAreHidden'
  <2>1. guesses \in Nat /\ guesses' = Guesses(r)
    BY <1>1 DEF GuessesAreHidden, Commit
  <2>2. ~(\A d \in Client : request'[d].stage = "loaded")
    BY <1>8
  <2>3. \A d \in Client : request[d].stage = "loaded" => Loads(request[d]) \in 0..MaxAttempts - 1
    BY <1>1, <1>4 DEF SignInInv, TypeOK, Request, Account, Reckoned, Loads
  <2>4. \A m \in 0..MaxAttempts - 1 : 0 <= Hidden(m) /\ Hidden(m) \in Int
    BY <1>4, HiddenIsBounded, HiddenNext
  <2>5. Hidden(account.failed_login_count)' = Hidden(account'.failed_login_count)
    BY DEF Hidden
  <2>6. \A d \in Client : Hidden(Loads(request[d]))' = Hidden(Loads(request[d])')
    BY DEF Hidden
  <2>7. CASE r.out = "signed_in" \/ Locks(r)
    <3>1. guesses' = 0
      BY <2>1, <2>7 DEF Guesses, Locks
    <3> QED
      BY <1>4, <1>5, <1>9, <2>2, <2>3, <2>4, <2>5, <2>6, <3>1 DEF GuessesAreHidden
  <2>8. CASE Counts(r) /\ ~Locks(r)
    <3>1. guesses' = guesses + 1
      BY <2>1, <2>8 DEF Guesses, Locks, Counts
    <3>2. account'.failed_login_count = k + 1 /\ k + 1 < MaxAttempts
      BY <1>1, <1>3, <1>4, <2>8 DEF Reckoned
    <3>3. 2 * guesses + 2 <= Hidden(k + 1)
      <4>1. CASE k <= f
        <5>1. 2 * guesses <= Hidden(k) + 2 * (f - k)
          BY <1>1, <4>1 DEF GuessesAreHidden
        <5>2. Hidden(k + 1) = Hidden(k) + 2 * (MaxAttempts - k) /\ Hidden(k) \in Int
          BY <1>4, HiddenNext
        <5> QED
          BY <1>4, <2>1, <5>1, <5>2
      <4>2. CASE k > f
        <5>1. 2 * guesses <= Hidden(f)
          BY <1>1 DEF GuessesAreHidden
        <5>2. Hidden(k + 1) >= Hidden(f) + 2 * (k + 1 - f)
          <6>1. k + 1 \in 0..MaxAttempts /\ f \in 0..MaxAttempts /\ f <= k + 1
            BY <1>4, <3>2, <4>2
          <6>2. PICK m \in 0..MaxAttempts : m = k + 1
            BY <6>1
          <6>3. Hidden(m) >= Hidden(f) + 2 * (m - f)
            BY <6>1, <6>2, HiddenGrows
          <6> QED
            BY <1>4, <2>4, <6>2, <6>3
        <5>3. Hidden(f) \in Int /\ Hidden(k + 1) \in Int
          BY <1>4, <2>4, <3>2
        <5> QED
          BY <1>4, <2>1, <4>2, <5>1, <5>2, <5>3
      <4> QED
        BY <1>4, <4>1, <4>2
    <3>4. ASSUME NEW d \in Client \ {c}, request[d].stage = "loaded", Loads(request[d]) <= k + 1
          PROVE  2 * guesses + 2 <= Hidden(Loads(request[d])) + 2 * (k + 1 - Loads(request[d]))
      <4> DEFINE j == Loads(request[d])
      <4>1. j \in 0..MaxAttempts - 1 /\ Hidden(j) \in Int
        BY <2>3, <2>4, <3>4
      <4>2. j = f \/ k = f
        BY <1>1, <3>4 DEF GuessesAreHidden, Client
      <4>3. j <= f => 2 * guesses <= Hidden(j) + 2 * (f - j)
        BY <1>1, <3>4 DEF GuessesAreHidden
      <4> SUFFICES 2 * guesses + 2 <= Hidden(j) + 2 * (k + 1 - j)
        OBVIOUS
      <4>6. j <= k + 1
        BY <3>4
      <4> HIDE DEF j
      <4>4. CASE j = k + 1
        BY <1>4, <3>3, <4>1, <4>4
      <4>5. CASE j <= k
        BY <1>4, <2>1, <4>1, <4>2, <4>3, <4>5
      <4> QED
        BY <1>4, <4>1, <4>4, <4>5, <4>6
    <3>5. \A d \in Client : request'[d].stage = "loaded" /\ Loads(request[d])' <= k + 1 =>
            2 * guesses + 2 <= Hidden(Loads(request[d])') + 2 * (k + 1 - Loads(request[d])')
      BY <1>9, <3>4
    <3> HIDE DEF k
    <3>6. k \in Nat /\ guesses \in Nat /\ 2 * guesses' = 2 * guesses + 2
      BY <1>4, <2>1, <3>1
    <3>7. guesses' \in Nat /\ 2 * guesses' <= Hidden(account.failed_login_count)'
      BY <2>5, <3>1, <3>2, <3>3, <3>6
    <3>8. \A d \in Client :
            request'[d].stage = "loaded" /\ Loads(request[d])' <= account'.failed_login_count =>
                2 * guesses' <= Hidden(Loads(request[d]))'
                                + 2 * (account'.failed_login_count - Loads(request[d])')
      <4> SUFFICES ASSUME NEW d \in Client, request'[d].stage = "loaded",
                          Loads(request[d])' <= account'.failed_login_count
                   PROVE  2 * guesses' <= Hidden(Loads(request[d]))'
                                + 2 * (account'.failed_login_count - Loads(request[d])')
        OBVIOUS
      <4>1. Hidden(Loads(request[d]))' = Hidden(Loads(request[d])')
        BY <2>6
      <4>2. 2 * guesses + 2 <= Hidden(Loads(request[d])') + 2 * (k + 1 - Loads(request[d])')
        BY <3>2, <3>5
      <4>3. Loads(request[d])' \in Nat /\ Hidden(Loads(request[d])') \in Int
        BY <1>9, <2>3, <2>4
      <4> QED
        BY <3>2, <3>6, <4>1, <4>2, <4>3
    <3> QED
      BY <2>2, <3>7, <3>8 DEF GuessesAreHidden
  <2>9. CASE ~Counts(r) /\ r.out # "signed_in"
    <3>1. guesses' = guesses
      BY <1>1, <2>1, <2>9 DEF Guesses, Counts, Reckoned, Locks
    <3>2. account'.failed_login_count = f
      BY <1>1, <1>3, <2>9 DEF Reckoned
    <3> QED
      BY <1>1, <1>9, <2>2, <2>5, <2>6, <3>1, <3>2 DEF GuessesAreHidden
  <2> QED
    BY <2>7, <2>8, <2>9
<1>12. CodesAreMarked'
  <2>1. /\ granted \in [Code -> Nat]
        /\ granted' = [x \in Code |-> granted[x] + (IF Grants(r, x) THEN 1 ELSE 0)]
    BY <1>1 DEF CodesAreMarked, Commit
  <2>2. \A x \in Code : Granting(c, x)' = 0 /\ Granting(c, x) = IF Grants(r, x) THEN 1 ELSE 0
    BY <1>1, <1>8 DEF Granting
  <2>3. \A d \in Client \ {c}, x \in Code : Granting(d, x)' = Granting(d, x)
    BY <1>8 DEF Granting, Grants
  <2>4. \A d \in Client, x \in Code : Granting(d, x) \in {0, 1}
    BY DEF Granting
  <2>5. granted' \in [Code -> Nat]
    BY <2>1
  <2>6. ASSUME NEW x \in Code
        PROVE  /\ granted'[x] > 0 => codes'[x]
               /\ granted'[x] + Granting("page", x)' + Granting("other", x)' <= 2
    <3>1. granted[x] \in Nat /\ (granted[x] > 0 => codes[x])
          /\ granted[x] + Granting("page", x) + Granting("other", x) <= 2
      BY <1>1 DEF CodesAreMarked
    <3>2. CASE Grants(r, x)
      <4>1. granted'[x] = granted[x] + 1 /\ codes'[x] /\ Granting(c, x)' = 0 /\ Granting(c, x) = 1
        BY <1>7, <2>1, <2>2, <3>2
      <4> QED
        BY <2>3, <2>4, <3>1, <4>1 DEF Client
    <3>3. CASE ~Grants(r, x)
      <4>1. granted'[x] = granted[x] /\ (codes'[x] <=> codes[x])
            /\ Granting(c, x)' = 0 /\ Granting(c, x) = 0
        BY <1>7, <2>1, <2>2, <3>1, <3>3
      <4> QED
        BY <2>3, <2>4, <3>1, <4>1 DEF Client
    <3> QED
      BY <3>2, <3>3
  <2> QED
    BY <2>5, <2>6 DEF CodesAreMarked
<1> HIDE DEF r, f, k
<1> QED
  BY <1>3, <1>4, <1>5, <1>6, <1>7, <1>8, <1>10, <1>11, <1>12 DEF Accounted

-----------------------------------------------------------------------------
(* The page. *)

\* What may become of a widget: only a call makes its token a sent one.
LEMMA WidgetMovesOn ==
    ASSUME NEW w \in Widget
    PROVE  /\ SendsToken(w) \in Widget
           /\ Reset(w) \in Widget /\ Reset(w).token = "none"
           /\ \A v \in Moves(w, Enabled) : v \in Widget /\ (v.token = "sent" => w.token = "sent")
<1>1. SendsToken(w) \in Widget
  BY DEF SendsToken, Widget
<1>2. Reset(w) \in Widget /\ Reset(w).token = "none"
  BY DEF Reset, Widget
<1>3. ASSUME NEW k \in Keys(Enabled)
      PROVE  Keyed(w, k) \in Widget /\ Keyed(w, k).token = w.token
  BY <1>3 DEF Keys, Keyed, Widget
<1>4. ASSUME NEW loads \in BOOLEAN
      PROVE  Scripted(w, loads) \in Widget /\ Scripted(w, loads).token = w.token
  BY DEF Scripted, Widget
<1>5. /\ Solved(w) \in Widget /\ Solved(w).token = "fresh"
      /\ Expired(w) \in Widget /\ Expired(w).token = "none"
  BY DEF Solved, Expired, Widget
<1> QED
  BY <1>1, <1>2, <1>3, <1>4, <1>5 DEF Moves

\* A step of the page that leaves the server alone and keeps track of its call.
LEMMA PageStep ==
    ASSUME SignInInv, UNCHANGED Server,
           request' \in [Client -> Request],
           request'["other"] = request["other"],
           request'["page"].stage = "loaded" => request'["page"] = request["page"],
           page' \in Page, widget' \in Widget,
           request'["page"].stage # "none" => page'.busy,
           page'.checkIn = "tagged" => page'.busy /\ request'["page"].stage = "none",
           widget'.token = "sent" => page'.busy
    PROVE  SignInInv'
<1>1. UNCHANGED <<account, tickets, codes, guesses, granted>>
  BY DEF Server
<1>2. TypeOK'
  BY <1>1 DEF SignInInv, TypeOK
<1>3. \A c \in Client : request'[c].stage = "loaded" => request'[c] = request[c]
  BY DEF Client
<1>4. Accounted'
  BY <1>1, <1>3, BooksStay
<1>5. request'["other"].stage \in {"none", "loaded"}
  BY DEF SignInInv
<1> QED
  BY <1>2, <1>4, <1>5 DEF SignInInv, Accounted, PageIsBusy

\* A step that changes fields of the page only, and does not give the form back.
LEMMA FieldsStep ==
    ASSUME SignInInv, UNCHANGED <<Server, request, widget>>,
           page' \in Page, page'.busy = page.busy, page'.checkIn \in {page.checkIn, "idle"}
    PROVE  SignInInv'
<1>1. UNCHANGED Server
  BY DEF Server
<1> QED
  BY <1>1, PageStep DEF SignInInv, TypeOK, PageIsBusy

\* Typing, going back, and the timers.
LEMMA KeepsFields ==
    ASSUME SignInInv,
           \/ EditPassword \/ EditRecovery \/ ToggleRecovery \/ BackToPassword
           \/ \E i \in 1..Length : Backspace(i)
           \/ CheckedIn \/ RejectedEnds
    PROVE  SignInInv'
<1>1. page \in Page /\ Blank \in [1..Length -> Digit]
  BY DEF SignInInv, TypeOK, Blank, Digit
<1>2. CASE EditPassword
  <2>1. page' \in Page /\ page'.busy = page.busy /\ page'.checkIn = page.checkIn
    BY <1>1, <1>2 DEF EditPassword, Page
  <2> QED
    BY <1>2, <2>1, FieldsStep DEF EditPassword
<1>3. CASE EditRecovery
  <2>1. page' \in Page /\ page'.busy = page.busy /\ page'.checkIn = page.checkIn
    BY <1>1, <1>3 DEF EditRecovery, Page
  <2> QED
    BY <1>3, <2>1, FieldsStep DEF EditRecovery
<1>4. CASE ToggleRecovery
  <2>1. page' \in Page /\ page'.busy = page.busy /\ page'.checkIn = page.checkIn
    BY <1>1, <1>4 DEF ToggleRecovery, Page
  <2> QED
    BY <1>4, <2>1, FieldsStep DEF ToggleRecovery
<1>5. CASE BackToPassword
  <2>1. page' \in Page /\ page'.busy = page.busy /\ page'.checkIn = "idle"
    BY <1>1, <1>5 DEF BackToPassword, Page
  <2> QED
    BY <1>5, <2>1, FieldsStep DEF BackToPassword
<1>6. ASSUME NEW i \in 1..Length, Backspace(i)
      PROVE  SignInInv'
  <2>1. PICK digits : /\ digits = [page.digits EXCEPT ![IF page.digits[i] # "blank" THEN i ELSE i - 1] = "blank"]
                      /\ page' = [page EXCEPT !.digits = digits]
    BY <1>1, <1>6 DEF Backspace, Page
  <2>2. digits \in [1..Length -> Digit]
    BY <1>1, <2>1 DEF Page, Digit
  <2>3. page' \in Page /\ page'.busy = page.busy /\ page'.checkIn = page.checkIn
    BY <1>1, <2>1, <2>2 DEF Page
  <2> QED
    BY <1>6, <2>3, FieldsStep DEF Backspace
<1>7. CASE CheckedIn
  <2>1. page' \in Page /\ page'.busy = page.busy /\ page'.checkIn = page.checkIn
    BY <1>1, <1>7 DEF CheckedIn, Page
  <2> QED
    BY <1>7, <2>1, FieldsStep DEF CheckedIn
<1>8. CASE RejectedEnds
  <2>1. page' \in Page /\ page'.busy = page.busy /\ page'.checkIn = "idle"
    BY <1>1, <1>8 DEF RejectedEnds, Page
  <2> QED
    BY <1>8, <2>1, FieldsStep DEF RejectedEnds
<1> QED
  BY <1>2, <1>3, <1>4, <1>5, <1>6, <1>7, <1>8

\* An attempt begins on a form that waits for nothing.
LEMMA KeepsAttempt ==
    ASSUME SignInInv, NEW digits \in [1..Length -> Digit], Attempt(digits), UNCHANGED Server
    PROVE  SignInInv'
<1> DEFINE sending == page.needsSecondFactor /\ ~page.useRecovery /\ digits # Blank
           call == [NoRequest EXCEPT !.stage = "sent", !.password = page.password,
                              !.digits = Typed(digits), !.recovery = page.recovery,
                              !.ticket = page.ticket, !.token = widget.token]
<1>1. /\ page \in Page /\ ~page.busy /\ widget \in Widget /\ request \in [Client -> Request]
      /\ page.checkIn # "tagged"
  BY DEF SignInInv, TypeOK, Attempt
<1>2. page' = [page EXCEPT !.busy = TRUE, !.errorCode = "none", !.digits = digits,
                            !.sending = sending, !.checkIn = IF sending THEN "merging" ELSE @]
  BY DEF Attempt
<1>3. page' \in Page /\ page'.busy /\ page'.checkIn # "tagged"
  <2>1. sending \in BOOLEAN
    BY <1>1 DEF Page
  <2> HIDE DEF sending
  <2>2. page' \in Page
    BY <1>1, <1>2, <2>1 DEF Page
  <2>3. page'.checkIn # "tagged"
    BY <1>1, <1>2 DEF Page
  <2> QED
    BY <1>1, <1>2, <2>2, <2>3 DEF Page
<1>4. call \in Request /\ call.stage = "sent"
  <2>1. Typed(digits) \in {"none", "right", "wrong"}
    BY DEF Typed
  <2>2. NoRequest \in Request
    BY SignInAssumption DEF NoRequest, Request, Account
  <2> QED
    BY ZenonT(30), <1>1, <2>1, <2>2 DEF Request, Page, Widget
<1>5. request' = [request EXCEPT !["page"] = call]
  BY DEF Attempt
<1> HIDE DEF call
<1>6. /\ request' \in [Client -> Request] /\ request'["other"] = request["other"]
      /\ request'["page"] = call
  BY <1>1, <1>4, <1>5 DEF Client
<1>7. widget' \in Widget
  BY <1>1, WidgetMovesOn DEF Attempt
<1> QED
  BY <1>3, <1>4, <1>6, <1>7, PageStep

\* A row of boxes that is typed into is a row of boxes.
LEMMA KeepsPut ==
    ASSUME SignInInv, NEW i \in 1..Length, NEW typed \in Inputs, Put(i, typed)
    PROVE  SignInInv'
<1> DEFINE next == [j \in 1..Length |-> IF j >= i /\ j < i + Len(typed)
                                        THEN typed[j - i + 1] ELSE page.digits[j]]
<1>1. page \in Page /\ Length \in Nat
  BY SignInAssumption DEF SignInInv, TypeOK
<1>2. next \in [1..Length -> Digit]
  <2>1. typed \in Seq(Digit)
    <3>1. "right" \in Digit /\ "wrong" \in Digit
      BY DEF Digit
    <3>2. <<"right">> \in Seq(Digit) /\ <<"wrong">> \in Seq(Digit)
      BY <3>1
    <3>3. [b \in 1..Length |-> "right"] \in Seq(Digit)
      BY <1>1, <3>1
    <3> QED
      BY <3>2, <3>3 DEF Inputs
  <2>2. ASSUME NEW j \in 1..Length, j >= i /\ j < i + Len(typed)
        PROVE  typed[j - i + 1] \in Digit
    BY <1>1, <2>1, <2>2
  <2>3. page.digits \in [1..Length -> Digit]
    BY <1>1 DEF Page
  <2> HIDE DEF Inputs
  <2> QED
    BY <2>2, <2>3
<1>3. /\ UNCHANGED Server
      /\ Attempt(next) \/ (page' = [page EXCEPT !.digits = next] /\ UNCHANGED <<request, tries, widget>>)
  BY DEF Put
<1>4. CASE Attempt(next)
  BY <1>2, <1>3, <1>4, KeepsAttempt
<1>5. CASE page' = [page EXCEPT !.digits = next] /\ UNCHANGED <<request, tries, widget>>
  <2> HIDE DEF next
  <2>1. page' \in Page /\ page'.busy = page.busy /\ page'.checkIn = page.checkIn
    BY <1>1, <1>2, <1>5 DEF Page
  <2> QED
    BY <1>3, <1>5, <2>1, FieldsStep
<1> QED
  BY <1>3, <1>4, <1>5

-----------------------------------------------------------------------------
(* The call's end, and the invariant. *)

\* A refusal gives the form back without its token.
LEMMA KeepsRefused ==
    ASSUME SignInInv, request["page"].stage \in {"sent", "answered"}, NEW code, Refused(code),
           request' = [request EXCEPT !["page"] = NoRequest], UNCHANGED Server
    PROVE  SignInInv'
<1>1. page \in Page /\ widget \in Widget /\ request \in [Client -> Request]
      /\ page.checkIn # "tagged"
  BY DEF SignInInv, TypeOK, PageIsBusy
<1>2. NoRequest \in Request /\ NoRequest.stage = "none"
  BY SignInAssumption DEF NoRequest, Request, Account
<1>3. page' \in Page /\ page'.checkIn # "tagged"
  <2>1. Blank \in [1..Length -> Digit]
    BY DEF Blank, Digit
  <2>2. PICK error \in {"invalid_code", "email_unverified", "other"} :
            page' = [page EXCEPT
                        !.checkIn = IF page.sending THEN "rejected" ELSE @,
                        !.errorCode = error, !.digits = Blank, !.recovery = NoCode,
                        !.ticket = 0, !.busy = FALSE, !.sending = FALSE]
    BY DEF Refused
  <2> QED
    BY ZenonT(30), <1>1, <2>1, <2>2 DEF Page
<1>4. widget' \in Widget /\ widget'.token # "sent"
  BY <1>1, WidgetMovesOn DEF Refused
<1>5. /\ request' \in [Client -> Request] /\ request'["other"] = request["other"]
      /\ request'["page"].stage = "none"
  BY <1>1, <1>2 DEF Client
<1> QED
  BY <1>3, <1>4, <1>5, PageStep

\* An answer: the second factor is asked for, the page goes on, or it is refused.
LEMMA KeepsAnswered ==
    ASSUME SignInInv, Answered
    PROVE  SignInInv'
<1> DEFINE r == request["page"]
<1>1. /\ page \in Page /\ widget \in Widget /\ request \in [Client -> Request]
      /\ r.stage = "answered" /\ page.busy /\ page.checkIn # "tagged" /\ r \in Request
  BY DEF SignInInv, TypeOK, Answered, PageIsBusy, Client
<1>2. request' = [request EXCEPT !["page"] = NoRequest] /\ UNCHANGED Server
  BY DEF Answered
<1>3. NoRequest \in Request /\ NoRequest.stage = "none"
  BY SignInAssumption DEF NoRequest, Request, Account
<1>4. /\ request' \in [Client -> Request] /\ request'["other"] = request["other"]
      /\ request'["page"].stage = "none"
  BY <1>1, <1>2, <1>3 DEF Client
<1>5. CASE r.out = "totp_required"
  <2>1. /\ page' = [page EXCEPT !.needsSecondFactor = TRUE, !.ticket = r.ticket,
                                !.busy = FALSE, !.sending = FALSE]
        /\ widget' = Reset(widget)
    BY <1>5 DEF Answered
  <2>2. page' \in Page /\ page'.checkIn = page.checkIn
    BY <1>1, <2>1 DEF Page, Request
  <2>3. widget' \in Widget /\ widget'.token # "sent"
    BY <1>1, <2>1, WidgetMovesOn
  <2> QED
    BY <1>1, <1>2, <1>4, <2>2, <2>3, PageStep
<1>6. CASE r.out = "signed_in" /\ page.sending
  <2>1. page' = [page EXCEPT !.checkIn = "tagged"] /\ UNCHANGED widget
    BY <1>6 DEF Answered
  <2>2. page' \in Page /\ page'.busy
    BY <1>1, <2>1 DEF Page
  <2> QED
    BY <1>1, <1>2, <1>4, <2>1, <2>2, PageStep
<1>7. CASE r.out = "signed_in" /\ ~page.sending
  <2>1. page' = [page EXCEPT !.at = "app"] /\ UNCHANGED widget
    BY <1>7 DEF Answered
  <2>2. page' \in Page /\ page'.busy
    BY <1>1, <2>1 DEF Page
  <2> QED
    BY <1>1, <1>2, <1>4, <2>1, <2>2, PageStep
<1>8. CASE r.out \notin {"totp_required", "signed_in"}
  <2>1. Refused(r.out)
    BY <1>8 DEF Answered
  <2> QED
    BY <1>1, <1>2, <2>1, KeepsRefused
<1> QED
  BY <1>5, <1>6, <1>7, <1>8

\* The server serves a call of the page, or one of the other device.
LEMMA KeepsLoading ==
    ASSUME SignInInv, Load \/ OtherTries
    PROVE  SignInInv'
<1>1. TypeOK /\ request \in [Client -> Request]
  BY DEF SignInInv, TypeOK
<1>2. CASE Load
  <2>1. PICK ticket \in {0, request["page"].ticket} :
          \E t \in IF Decision([request["page"] EXCEPT !.ticket = ticket], Stored) = "totp_required"
                   THEN NextTicket ELSE {0} :
              request' = [request EXCEPT !["page"] =
                            Loaded([request["page"] EXCEPT !.ticket = ticket], t)]
    BY <1>2 DEF Load
  <2> DEFINE r == [request["page"] EXCEPT !.ticket = ticket]
  <2>2. PICK t : /\ Decision(r, Stored) = "totp_required" => t \in Ticket
                 /\ request' = [request EXCEPT !["page"] = Loaded(r, t)]
    BY <2>1 DEF NextTicket
  <2>3. r.ticket \in {0} \cup Ticket /\ r.recovery \in Code \cup {NoCode}
    BY <1>1, <2>1 DEF Request, Client
  <2>4. "page" \in Client /\ request["page"].stage # "loaded"
        /\ UNCHANGED <<account, codes, guesses, granted>>
    BY <1>2 DEF Load, Client
  <2> HIDE DEF r
  <2>5. request' \in [Client -> Request] /\ request'["page"].stage = "loaded" /\ Accounted'
    BY <2>2, <2>3, <2>4, LoadingKeeps
  <2>6. request'["other"] = request["other"]
    BY <1>1, <2>2 DEF Client
  <2>7. UNCHANGED <<account, tickets, codes, page, widget>> /\ page.busy /\ page.checkIn # "tagged"
    BY <1>2 DEF Load, SignInInv, TypeOK, PageIsBusy
  <2>8. TypeOK'
    BY <1>1, <2>5, <2>7 DEF TypeOK
  <2> QED
    BY <2>5, <2>6, <2>7, <2>8 DEF SignInInv, Accounted, PageIsBusy
<1>3. CASE OtherTries
  <2>1. PICK recovery \in Code \cup {NoCode} :
            request' = [request EXCEPT !["other"] =
                Loaded([NoRequest EXCEPT !.digits = "wrong", !.recovery = recovery,
                                         !.token = "fresh"], 0)]
    BY <1>3 DEF OtherTries
  <2> DEFINE r == [NoRequest EXCEPT !.digits = "wrong", !.recovery = recovery, !.token = "fresh"]
  <2>2. /\ r.ticket = 0 /\ r.recovery = recovery /\ r.password = "right" /\ r.digits = "wrong"
        /\ r.token = "fresh"
    BY DEF NoRequest
  <2>3. Decision(r, Stored) # "totp_required"
    BY <2>2 DEF Decision
  <2>4. "other" \in Client /\ request["other"].stage # "loaded"
        /\ UNCHANGED <<account, codes, guesses, granted>>
    BY <1>3 DEF OtherTries, Client
  <2> HIDE DEF r
  <2>5. request' \in [Client -> Request] /\ request'["other"].stage = "loaded" /\ Accounted'
    BY <2>1, <2>2, <2>3, <2>4, LoadingKeeps DEF r
  <2>6. request'["page"] = request["page"]
    BY <1>1, <2>1 DEF Client
  <2>7. UNCHANGED <<account, tickets, codes, page, widget>>
    BY <1>3 DEF OtherTries
  <2>8. TypeOK'
    BY <1>1, <2>5, <2>6, <2>7 DEF TypeOK
  <2> QED
    BY <2>5, <2>6, <2>7, <2>8 DEF SignInInv, Accounted, PageIsBusy
<1> QED
  BY <1>2, <1>3

\* The server writes what a request has edited.
LEMMA KeepsCommit ==
    ASSUME SignInInv, NEW c \in Client, Commit(c)
    PROVE  SignInInv'
<1>1. /\ account' \in Account /\ account'.failed_login_count < MaxAttempts
      /\ tickets' \in [Ticket -> {"new", "live", "used"}]
      /\ codes' \in [Code -> BOOLEAN]
      /\ request' \in [Client -> Request]
      /\ request'[c].stage # "loaded" /\ \A d \in Client \ {c} : request'[d] = request[d]
      /\ Accounted'
  BY CommitKeeps
<1>2. UNCHANGED <<page, widget>> /\ request[c].stage = "loaded"
  BY DEF Commit
<1>3. c = "other" => request'["other"].stage = "none"
  <2>1. c = "other" => request' = [request EXCEPT !["other"] = NoRequest]
    BY DEF Commit
  <2> QED
    BY <2>1 DEF SignInInv, TypeOK, NoRequest, Client
<1>4. request'["other"].stage \in {"none", "loaded"}
  BY <1>1, <1>3 DEF SignInInv, Client
<1>5. request["page"].stage # "none" \/ request'["page"].stage = "none"
  BY <1>1, <1>2 DEF Client
<1>6. TypeOK'
  BY <1>1, <1>2, <1>5 DEF SignInInv, TypeOK
<1>7. PageIsBusy'
  BY <1>2, <1>5 DEF SignInInv, PageIsBusy
<1> QED
  BY <1>1, <1>4, <1>6, <1>7 DEF SignInInv, Accounted

\* The lock ends: the count was begun anew when it was set.
LEMMA KeepsLockEnds ==
    ASSUME SignInInv, LockEnds
    PROVE  SignInInv'
<1>1. account \in Account /\ account' = [account EXCEPT !.locked = FALSE]
      /\ UNCHANGED <<tickets, codes, request, page, widget, guesses, granted>>
  BY DEF SignInInv, TypeOK, LockEnds
<1>2. account' \in Account /\ account'.failed_login_count = account.failed_login_count
  BY <1>1 DEF Account
<1>3. TypeOK'
  BY <1>1, <1>2 DEF SignInInv, TypeOK
<1>4. \A c \in Client : request'[c].stage = "loaded" => Reckoned(request[c])'
  BY <1>1 DEF SignInInv, Reckoned, Counts, Locks, Loads, Grants
<1>5. GuessesAreHidden'
  BY <1>1, <1>2 DEF SignInInv, GuessesAreHidden, Loads, Hidden
<1>6. CodesAreMarked'
  BY <1>1 DEF SignInInv, CodesAreMarked, Granting, Grants
<1> QED
  BY <1>1, <1>3, <1>4, <1>5, <1>6 DEF SignInInv, PageIsBusy

\* Every step, by who takes it.
LEMMA NextSignIn == SignInInv /\ [Next]_vars => SignInInv'
<1> SUFFICES ASSUME SignInInv, [Next]_vars
             PROVE  SignInInv'
  OBVIOUS
<1>1. CASE User
  <2>1. CASE Submit
    <3>1. page.digits \in [1..Length -> Digit]
      BY DEF SignInInv, TypeOK, Page
    <3> QED
      BY <2>1, <3>1, KeepsAttempt DEF Submit
  <2>2. CASE \E i \in 1..Length : \E typed \in Inputs : Put(i, typed)
    BY <2>2, KeepsPut
  <2>3. CASE \/ EditPassword \/ EditRecovery \/ ToggleRecovery \/ BackToPassword
             \/ \E i \in 1..Length : Backspace(i)
    BY <2>3, KeepsFields
  <2> QED
    BY <1>1, <2>1, <2>2, <2>3 DEF User
<1>2. CASE WidgetMoves
  <2>1. widget' \in Widget /\ (widget'.token = "sent" => widget.token = "sent")
    BY <1>2, WidgetMovesOn DEF WidgetMoves, SignInInv, TypeOK
  <2> QED
    BY <1>2, <2>1, PageStep DEF WidgetMoves, SignInInv, TypeOK, PageIsBusy
<1>3. CASE Load \/ OtherTries
  BY <1>3, KeepsLoading
<1>4. ASSUME NEW c \in Client, Commit(c)
      PROVE  SignInInv'
  BY <1>4, KeepsCommit
<1>5. CASE Answered
  BY <1>5, KeepsAnswered
<1>6. CASE Lost
  BY <1>6, KeepsRefused DEF Lost
<1>7. CASE CheckedIn \/ RejectedEnds
  BY <1>7, KeepsFields
<1>8. CASE LockEnds
  BY <1>8, KeepsLockEnds
<1>9. CASE UNCHANGED vars
  BY <1>9, PageStep DEF vars, Server, SignInInv, TypeOK, PageIsBusy
<1> QED
  BY <1>1, <1>2, <1>3, <1>4, <1>5, <1>6, <1>7, <1>8, <1>9 DEF Next

\* The invariant holds from the start and is kept.
LEMMA SignInInvariant == Spec => []SignInInv
<1> QED
  BY InitSignIn, NextSignIn, PTL DEF Spec

-----------------------------------------------------------------------------
(* The theorems. *)

\* Every variable keeps its type, and a count that reaches the limit is never
\* stored: _register_failure writes 0 and the lock instead.
THEOREM SignInIsTyped == Spec => []TypeOK
<1>1. SignInInv => TypeOK
  BY DEF SignInInv
<1> QED
  BY <1>1, SignInInvariant, PTL

\* However two clients interleave on the count they have each loaded, an account
\* takes fewer than n + (n - 1) + ... + 1 wrong guesses before it is locked.
THEOREM LocksInTime == Spec => []GuessesAreBounded
<1>1. SignInInv => GuessesAreBounded
  <2> SUFFICES ASSUME SignInInv
               PROVE  GuessesAreBounded
    OBVIOUS
  <2>1. account.failed_login_count \in 0..MaxAttempts - 1 /\ MaxAttempts \in Nat
    BY SignInAssumption DEF SignInInv, TypeOK, Account
  <2>2. Hidden(account.failed_login_count) < MaxAttempts * (MaxAttempts + 1)
        /\ Hidden(account.failed_login_count) \in Int
    BY <2>1, HiddenIsBounded, HiddenNext
  <2>3. guesses \in Nat /\ 2 * guesses <= Hidden(account.failed_login_count)
    BY DEF SignInInv, GuessesAreHidden
  <2>4. MaxAttempts * (MaxAttempts + 1) \in Int
    BY <2>1
  <2> QED
    BY <2>2, <2>3, <2>4 DEF GuessesAreBounded
<1> QED
  BY <1>1, SignInInvariant, PTL

\* A recovery code lets in at most the two clients that tried it at the same time.
THEOREM RecoveryCodesLetFewIn == Spec => []RecoveryCodesAreScarce
<1>1. Cardinality(Client) = 2
  <2>1. Client = {"page"} \cup {"other"} /\ IsFiniteSet({"page"}) /\ Cardinality({"page"}) = 1
    BY FS_Singleton DEF Client
  <2>2. Cardinality({"page"} \cup {"other"}) = Cardinality({"page"}) + 1
    BY <2>1, FS_AddElement
  <2> QED
    BY <2>1, <2>2
<1>2. SignInInv => RecoveryCodesAreScarce
  BY <1>1 DEF SignInInv, CodesAreMarked, Granting, RecoveryCodesAreScarce
<1> QED
  BY <1>2, SignInInvariant, PTL

\* The form cannot be submitted with a token that went out before: whatever ends
\* an attempt throws the token away, and until then the form is busy.
THEOREM TokensGoOutOnce == Spec => TokensAreSentOnce
<1>1. ASSUME SignInInv, [Next]_vars,
             request["page"].stage = "none", request'["page"].stage = "sent"
      PROVE  widget.token # "sent"
  <2>1. ~page.busy => widget.token # "sent"
    BY <1>1 DEF SignInInv, PageIsBusy
  <2>2. \A digits : Attempt(digits) => ~page.busy
    BY DEF Attempt
  <2>3. request \in [Client -> Request]
    BY <1>1 DEF SignInInv, TypeOK
  <2>4. NoRequest.stage = "none"
    BY DEF NoRequest
  <2>5. CASE User
    BY <1>1, <2>1, <2>2, <2>5
       DEF User, Submit, Put, EditPassword, EditRecovery, ToggleRecovery, BackToPassword, Backspace
  <2>6. CASE OtherTries
    BY <1>1, <2>3, <2>6 DEF OtherTries, Client
  <2>7. ASSUME NEW c \in Client, Commit(c)
        PROVE  FALSE
    <3>1. request[c].stage = "loaded" /\ c = "other"
      BY <1>1, <2>7 DEF Commit, Client
    <3>2. \A d \in Client \ {c} : request'[d] = request[d]
      BY <1>1, <2>7, CommitKeeps
    <3> QED
      BY <1>1, <3>1, <3>2 DEF Client
  <2>8. CASE Answered \/ Lost \/ Load
    BY <1>1, <2>8 DEF Answered, Lost, Load
  <2>9. CASE WidgetMoves \/ CheckedIn \/ RejectedEnds \/ LockEnds \/ UNCHANGED vars
    BY <1>1, <2>9 DEF WidgetMoves, CheckedIn, RejectedEnds, LockEnds, vars
  <2> QED
    BY <1>1, <2>5, <2>6, <2>7, <2>8, <2>9 DEF Next
<1> QED
  BY <1>1, SignInInvariant, PTL DEF Spec, TokensAreSentOnce

=============================================================================
