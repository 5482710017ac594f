---------------------------- MODULE ClaimsProofs ----------------------------
(***************************************************************************)
(* Proofs about Claims, for any number of claims, of changes and of lost   *)
(* calls: a claim that was withdrawn never turns into a tag, and as long   *)
(* as no two requests overlap the design that was printed for a code is    *)
(* the one its account shows.                                              *)
(***************************************************************************)
EXTENDS Claims, FiniteSetTheorems, WellFoundedInduction, TLAPS

\* A call, by who makes it: a form of the operator's page issues, the buyer
\* registers or opens the list.  Until it has loaded it writes nothing.
CallIsFormed(s) ==
    LET r == request[s] IN
    /\ r.stage = "none" => r = NoRequest
    /\ s \in Operator => r.what \in {"list", "issue", "invite", "withdraw"}
    /\ s = "buyer" /\ r.stage # "none" => r.what \in {"register", "tags"}
    /\ r.what = "issue" => r.who = "form"
    /\ r.what \in {"invite", "withdraw"} => r.claim \in Claim
    /\ r.stage = "sent" => r.seed = 0 /\ r.waiting = {}
    /\ r.stage = "sent" /\ r.what = "issue" => r.claim = 0
    /\ r.stage = "loaded" => r.what # "list"

\* The form is busy while its handler is at work, so one claim is issued at a time.
OneForm ==
    \A s, t \in Operator :
        /\ request[s].stage # "none" /\ request[s].who = "form"
        /\ request[t].stage # "none" /\ request[t].who = "form"
        => s = t

\* What a call that has loaded is about to write still has its row.
CallHasItsRows(s) ==
    LET r == request[s] IN
    /\ r.what = "issue" /\ r.stage = "sent" => \E c \in Claim : claims[c].state = "none"
    /\ r.what = "issue" /\ r.stage = "loaded" =>
            r.claim \in Claim /\ claims[r.claim].state = "none" /\ r.seed \in Seed
    /\ r.what = "register" /\ r.stage = "loaded" => r.seed \in Seed
    /\ r.what \in {"invite", "withdraw"} /\ r.stage = "loaded" => claims[r.claim].state # "none"
    /\ r.stage = "loaded" => \A c \in r.waiting : claims[c].state # "none"
    /\ r.what = "tags" => user # 0

\* A claim is taken as a tag of the account, which may be withdrawn all the same.
TakenAreTags ==
    /\ \A c \in Claim : claims[c].state = "taken" => c \in tags
    /\ \A c \in tags : claims[c].state \in {"taken", "gone"}
    /\ \A c \in Claim : claims[c].state = "open" => claims[c].seed \in Seed
    /\ tags # {} => user # 0

\* What a call that has loaded goes by, when no other has loaded beside it.
CallIsCurrent(s) ==
    LET r == request[s] IN
    r.stage = "loaded" =>
        /\ \A t \in Slot \ {s} : request[t].stage # "loaded"
        /\ r.what = "issue" => /\ user # 0 => r.seed = user
                               /\ user = 0 => \A c \in Open : claims[c].seed = r.seed
        /\ r.what = "register" => \A c \in Open : claims[c].seed = r.seed
        /\ r.waiting \subseteq Open

\* One design at a time: the account's, or that of the claims that wait for it.
OneDesign ==
    /\ PrintedDesignIsShown
    /\ ~raced => /\ \A c \in Open : user # 0 => claims[c].seed = user
                 /\ \A c, d \in Open : claims[c].seed = claims[d].seed
                 /\ \A s \in Slot : CallIsCurrent(s)

ClaimsInv ==
    /\ TypeOK
    /\ \A s \in Slot : CallIsFormed(s) /\ CallHasItsRows(s)
    /\ OneForm
    /\ TakenAreTags
    /\ OneDesign

-----------------------------------------------------------------------------
(* The seeds. *)

\* A set of numbers that is not empty has a least one.
LEMMA LeastExists ==
    ASSUME NEW S \in SUBSET Nat, S # {}
    PROVE  Min(S) \in S /\ \A y \in S : Min(S) <= y
<1> DEFINE R == {ss \in Nat \X Nat : ss[1] < ss[2]}
<1>1. IsWellFoundedOn(R, Nat)
  BY NatLessThanWellFounded DEF OpToRel
<1> HIDE DEF R
<1>2. PICK x \in S : \A y \in S : ~(<<y, x>> \in R)
  BY <1>1, WFMin
<1>3. ASSUME NEW y \in S
      PROVE  x <= y
  <2>1. x \in Nat /\ y \in Nat /\ ~(<<y, x>> \in R)
    BY <1>2
  <2>2. ~(y < x)
    BY <2>1 DEF R
  <2> QED
    BY <2>1, <2>2
<1> QED
  BY <1>3 DEF Min

\* The claims are numbers, and finitely many.
LEMMA ClaimsAreNumbers ==
    /\ Cardinality(Claim) \in Nat /\ IsFiniteSet(Claim)
    /\ Claim \subseteq Nat \ {0} /\ Seed \subseteq Nat \ {0}
<1>1. Cardinality(Claim) \in Nat /\ IsFiniteSet(Claim)
  BY ClaimsAssumption, FS_CardinalityType
<1>2. \A n \in Nat : 1..n \subseteq Nat \ {0}
  OBVIOUS
<1> QED
  BY <1>1, <1>2, ClaimsAssumption DEF Seed

\* There is always a seed that is not in use: fewer are than there are claims and
\* other requests.
LEMMA FreshSeed ==
    ASSUME TypeOK, NEW s \in Slot, user = 0, request[s].seed = 0
    PROVE  NewSeed \in Seed
<1> DEFINE printed == {claims[c].seed : c \in Claim}
           held == {request[t].seed : t \in Slot}
           used == {user} \cup printed \cup held
<1>1. Cardinality(Claim) \in Nat /\ IsFiniteSet(Claim) /\ Seed \subseteq Nat \ {0}
  BY ClaimsAreNumbers
<1>2. IsFiniteSet(printed) /\ Cardinality(printed) <= Cardinality(Claim)
  <2>1. [c \in Claim |-> claims[c].seed] \in Surjection(Claim, printed)
    BY DEF Surjection
  <2> HIDE DEF printed
  <2> QED
    BY <1>1, <2>1, FS_Surjection
<1>3. PICK a, b : held \subseteq {0, a, b}
  <2>1. Slot = {"op1", "op2", "buyer"}
    BY DEF Slot, Operator
  <2>2. held = {request["op1"].seed, request["op2"].seed, request["buyer"].seed}
    BY <2>1
  <2> HIDE DEF held
  <2>3. CASE s = "op1"
    <3>1. held \subseteq {0, request["op2"].seed, request["buyer"].seed}
      BY <2>2, <2>3
    <3> QED
      BY <3>1
  <2>4. CASE s = "op2"
    <3>1. held \subseteq {0, request["op1"].seed, request["buyer"].seed}
      BY <2>2, <2>4
    <3> QED
      BY <3>1
  <2>5. CASE s = "buyer"
    <3>1. held \subseteq {0, request["op1"].seed, request["op2"].seed}
      BY <2>2, <2>5
    <3> QED
      BY <3>1
  <2> QED
    BY <2>1, <2>3, <2>4, <2>5
<1> DEFINE most == printed \cup {a} \cup {b}
<1> HIDE DEF printed, held
<1>4. IsFiniteSet(most) /\ Cardinality(most) <= Cardinality(Claim) + 2
  <2>1. /\ IsFiniteSet(printed \cup {a}) /\ Cardinality(printed) \in Nat
        /\ Cardinality(printed \cup {a}) \in {Cardinality(printed), Cardinality(printed) + 1}
    BY <1>2, FS_AddElement, FS_CardinalityType
  <2>2. /\ IsFiniteSet(most) /\ Cardinality(most) \in Nat
        /\ Cardinality(most) \in {Cardinality(printed \cup {a}), Cardinality(printed \cup {a}) + 1}
    BY <2>1, FS_AddElement, FS_CardinalityType
  <2> QED
    BY <1>1, <1>2, <2>1, <2>2
<1>5. Seed \ used # {}
  <2>1. SUFFICES ASSUME Seed \subseteq used
                 PROVE  FALSE
    OBVIOUS
  <2>2. Seed \subseteq most
    BY <1>1, <1>3, <2>1
  <2>3. Cardinality(Seed) = Cardinality(Claim) + 3 /\ IsFiniteSet(Seed)
    <3>1. PICK n \in Nat : n = Cardinality(Claim) + 3
      BY <1>1
    <3>2. 1 \in Int /\ n \in Int /\ ~(1 > n) /\ n - 1 + 1 = n
      BY <1>1, <3>1
    <3>3. IsFiniteSet(1..n) /\ Cardinality(1..n) = n
      BY <3>2, FS_Interval
    <3> QED
      BY <1>1, <3>1, <3>3 DEF Seed
  <2>4. Cardinality(Seed) <= Cardinality(most)
    BY <1>4, <2>2, FS_Subset
  <2>5. Cardinality(most) \in Nat
    BY <1>4, FS_CardinalityType
  <2> QED
    BY <1>1, <1>4, <2>3, <2>4, <2>5
<1>6. (Seed \ used) \in SUBSET Nat
  BY <1>1
<1>7. Min(Seed \ used) \in Seed \ used
  BY <1>5, <1>6, LeastExists
<1> QED
  BY <1>7 DEF NewSeed, printed, held

\* The oldest claim that is open is one.
LEMMA OldestIsOpen ==
    ASSUME Open # {}
    PROVE  Min(Open) \in Open
<1>1. Open \in SUBSET Nat
  BY ClaimsAreNumbers DEF Open
<1> QED
  BY <1>1, LeastExists

\* The seed of a new claim, or of a new account, is the one in use.
LEMMA SeedsAgree ==
    ASSUME ClaimsInv, NEW s \in Slot, request[s].stage = "sent"
    PROVE  /\ user = 0 => SeedFor \in Seed /\ SeedForNewUser \in Seed
           /\ user # 0 => SeedFor = user /\ user \in Seed
           /\ ~raced /\ user = 0 => \A c \in Open : claims[c].seed = SeedFor
                                                 /\ claims[c].seed = SeedForNewUser
<1>1. TypeOK /\ request[s].seed = 0
  BY DEF ClaimsInv, CallIsFormed
<1>2. CASE user # 0
  BY <1>1, <1>2 DEF SeedFor, TypeOK
<1>3. CASE user = 0 /\ Open # {}
  <2>1. Min(Open) \in Open
    BY <1>3, OldestIsOpen
  <2>2. SeedFor = claims[Min(Open)].seed /\ SeedForNewUser = claims[Min(Open)].seed
    BY <1>3 DEF SeedFor, SeedForNewUser
  <2>3. claims[Min(Open)].seed \in Seed
    BY <2>1 DEF ClaimsInv, TakenAreTags, Open
  <2>4. ~raced => \A c, d \in Open : claims[c].seed = claims[d].seed
    BY DEF ClaimsInv, OneDesign
  <2> QED
    BY <1>3, <2>1, <2>2, <2>3, <2>4
<1>4. CASE user = 0 /\ Open = {}
  <2>1. NewSeed \in Seed
    BY <1>1, <1>4, FreshSeed
  <2> QED
    BY <1>4, <2>1 DEF SeedFor, SeedForNewUser
<1> QED
  BY <1>2, <1>3, <1>4

\* While a form issues a claim, the next one is a claim nobody was issued.
LEMMA NextClaimIsThere ==
    ASSUME ClaimsInv, NEW s \in Slot, request[s].stage = "sent", request[s].what = "issue"
    PROVE  NewClaim \in Claim /\ claims[NewClaim].state = "none"
<1> DEFINE left == {c \in Claim : /\ claims[c].state = "none"
                                  /\ \A t \in Slot : request[t].what = "issue" => request[t].claim # c}
<1>1. PICK c \in Claim : claims[c].state = "none"
  BY DEF ClaimsInv, CallHasItsRows
<1>2. ASSUME NEW t \in Slot, request[t].what = "issue"
      PROVE  t = s
  <2>1. request[t].stage # "none"
    BY <1>2 DEF ClaimsInv, CallIsFormed, NoRequest
  <2>2. ASSUME NEW u \in Slot, request[u].what = "issue", request[u].stage # "none"
        PROVE  u \in Operator /\ request[u].who = "form"
    BY <2>2 DEF ClaimsInv, CallIsFormed, Slot
  <2> QED
    BY <1>2, <2>1, <2>2 DEF ClaimsInv, OneForm
<1>3. request[s].claim = 0 /\ c # 0
  BY ClaimsAreNumbers DEF ClaimsInv, CallIsFormed
<1>4. c \in left
  BY <1>1, <1>2, <1>3
<1>5. left \in SUBSET Nat
  BY ClaimsAreNumbers
<1>6. Min(left) \in left
  BY <1>4, <1>5, LeastExists
<1> QED
  BY <1>6 DEF NewClaim

-----------------------------------------------------------------------------
(* Steps that leave the server alone. *)

\* A handler of the form is at work.
Working(s) == request[s].stage # "none" /\ request[s].who = "form"

\* The initial states: nothing is issued, and the page loads its list.
LEMMA InitClaims == Init => ClaimsInv
<1> SUFFICES ASSUME Init
             PROVE  ClaimsInv
  OBVIOUS
<1> USE ClaimsAreNumbers DEF Init
<1>1. NoRequest \in Request /\ Empty \in List
  BY DEF NoRequest, Request, Empty, List
<1>2. request \in [Slot -> Request]
  BY <1>1 DEF Request
<1>3. \A s \in Slot : /\ request[s].stage = IF s = "op1" THEN "sent" ELSE "none"
                      /\ request[s].what = "list" /\ request[s].who = "mount"
                      /\ request[s].seed = 0 /\ request[s].waiting = {}
                      /\ (s # "op1" => request[s] = NoRequest)
  BY DEF NoRequest
<1>4. page \in Page /\ ~page.busy
  BY <1>1 DEF Page
<1>5. 1 \in Seed
  BY DEF Seed
<1>6. TypeOK
  <2>1. user \in {0} \cup Seed /\ tags \subseteq Claim /\ mine \subseteq Claim
    BY <1>5
  <2>2. claims \in [Claim -> Row]
    BY DEF Row
  <2>3. Operator \subseteq Slot
    BY DEF Slot
  <2> QED
    BY <1>2, <1>3, <1>4, <2>1, <2>2, <2>3 DEF TypeOK
<1>7. \A s \in Slot : CallIsFormed(s) /\ CallHasItsRows(s)
  BY <1>3 DEF CallIsFormed, CallHasItsRows, Slot, Operator
<1>8. OneForm
  BY <1>3 DEF OneForm, Slot
<1>9. Open = {}
  BY DEF Open
<1>10. TakenAreTags /\ OneDesign
  BY <1>3, <1>9 DEF TakenAreTags, OneDesign, PrintedDesignIsShown, CallIsCurrent
<1> QED
  BY <1>6, <1>7, <1>8, <1>10 DEF ClaimsInv

\* One call moves on and nothing is written: the form is busy for as long as its
\* handler is at work.
LEMMA CallMoves ==
    ASSUME ClaimsInv, NEW s \in Slot, UNCHANGED <<user, claims, tags>>,
           request' \in [Slot -> Request], \A t \in Slot \ {s} : request'[t] = request[t],
           page' \in Page, mine' \subseteq Claim,
           CallIsFormed(s)', CallHasItsRows(s)',
           ~raced' => ~raced /\ CallIsCurrent(s)',
           \/ s \in Operator /\ ~page.busy /\ Working(s)' /\ page'.busy
           \/ s \in Operator /\ ~Working(s)' /\ page'.busy = (page.busy /\ ~Working(s))
           \/ s \in Operator /\ (Working(s)' <=> Working(s)) /\ page'.busy = page.busy
           \/ s \notin Operator /\ page'.busy = page.busy
    PROVE  ClaimsInv'
<1>1. Operator \subseteq Slot
  BY DEF Slot
<1>2. /\ page.busy <=> \E t \in Operator : Working(t)
      /\ \A t, u \in Operator : Working(t) /\ Working(u) => t = u
  BY DEF ClaimsInv, TypeOK, OneForm, Working
<1>3. \A t \in Slot \ {s} : Working(t)' <=> Working(t)
  BY DEF Working
<1>4. /\ page'.busy <=> \E t \in Operator : Working(t)'
      /\ \A t, u \in Operator : Working(t)' /\ Working(u)' => t = u
  <2>1. CASE s \notin Operator
    BY <1>1, <1>2, <1>3, <2>1
  <2>2. CASE s \in Operator /\ ~page.busy /\ Working(s)' /\ page'.busy
    BY <1>1, <1>2, <1>3, <2>2
  <2>3. CASE s \in Operator /\ ~Working(s)' /\ page'.busy = (page.busy /\ ~Working(s))
    BY <1>1, <1>2, <1>3, <2>3
  <2>4. CASE s \in Operator /\ (Working(s)' <=> Working(s)) /\ page'.busy = page.busy
    BY <1>1, <1>2, <1>3, <2>4
  <2> QED
    BY <2>1, <2>2, <2>3, <2>4
<1>5. TypeOK'
  BY <1>1, <1>4 DEF ClaimsInv, TypeOK, Working
<1>6. \A t \in Slot : (CallIsFormed(t) /\ CallHasItsRows(t))'
  <2>1. \A t \in Slot \ {s} : (CallIsFormed(t) /\ CallHasItsRows(t))'
    BY <1>1 DEF ClaimsInv, CallIsFormed, CallHasItsRows
  <2> QED
    BY <2>1
<1>7. OneForm'
  BY <1>4 DEF OneForm, Working
<1>8. TakenAreTags'
  BY <1>1 DEF ClaimsInv, TakenAreTags
<1>9. OneDesign'
  <2>1. PrintedDesignIsShown' /\ Open' = Open
    BY DEF ClaimsInv, OneDesign, PrintedDesignIsShown, Open
  <2>2. ASSUME ~raced', NEW t \in Slot \ {s}
        PROVE  CallIsCurrent(t)'
    <3>1. CallIsCurrent(t) /\ CallIsCurrent(s)'
      BY <2>2 DEF ClaimsInv, OneDesign
    <3>2. request'[t].stage = "loaded" => request'[s].stage # "loaded"
      BY <2>2, <3>1 DEF CallIsCurrent
    <3> QED
      BY <2>1, <2>2, <3>1, <3>2 DEF CallIsCurrent
  <2>3. ~raced' => \A t \in Slot : CallIsCurrent(t)'
    BY <2>2
  <2> QED
    BY <2>1, <2>3 DEF ClaimsInv, OneDesign
<1> QED
  BY <1>5, <1>6, <1>7, <1>8, <1>9 DEF ClaimsInv

\* The same, for a call that has not loaded: the server is left alone.
LEMMA CallStep ==
    ASSUME ClaimsInv, NEW s \in Slot, UNCHANGED Server,
           request' \in [Slot -> Request], \A t \in Slot \ {s} : request'[t] = request[t],
           page' \in Page, mine' \subseteq Claim,
           request'[s].stage # "loaded",
           CallIsFormed(s)', CallHasItsRows(s)',
           \/ s \in Operator /\ ~page.busy /\ Working(s)' /\ page'.busy
           \/ s \in Operator /\ ~Working(s)' /\ page'.busy = (page.busy /\ ~Working(s))
           \/ s \in Operator /\ (Working(s)' <=> Working(s)) /\ page'.busy = page.busy
           \/ s \notin Operator /\ page'.busy = page.busy
    PROVE  ClaimsInv'
<1>1. UNCHANGED <<user, claims, tags>> /\ raced' = raced
  BY DEF Server
<1>2. CallIsCurrent(s)'
  BY DEF CallIsCurrent
<1> QED
  BY <1>1, <1>2, CallMoves

\* A call that asks for the list, or none, is formed and needs no row.
LEMMA ListsNeedNothing ==
    ASSUME NEW s \in Operator,
           \/ request[s] = NoRequest
           \/ \E who : request[s] = [NoRequest EXCEPT !.stage = "sent", !.who = who]
    PROVE  CallIsFormed(s) /\ CallHasItsRows(s)
<1>1. /\ request[s].what = "list" /\ request[s].seed = 0 /\ request[s].waiting = {}
      /\ request[s].stage \in {"none", "sent"} /\ (request[s].stage = "none" => request[s] = NoRequest)
  <2>1. NoRequest.what = "list" /\ NoRequest.seed = 0 /\ NoRequest.waiting = {}
        /\ NoRequest.stage = "none"
    BY DEF NoRequest
  <2>2. ASSUME NEW who, request[s] = [NoRequest EXCEPT !.stage = "sent", !.who = who]
        PROVE  /\ request[s].what = "list" /\ request[s].seed = 0 /\ request[s].waiting = {}
               /\ request[s].stage = "sent"
    BY <2>2 DEF NoRequest
  <2> QED
    BY <2>1, <2>2
<1>2. s # "buyer"
  BY DEF Operator
<1> QED
  BY <1>1, <1>2 DEF CallIsFormed, CallHasItsRows

\* The operator presses a button.
LEMMA KeepsAsk ==
    ASSUME ClaimsInv, NEW who, NEW what, NEW c \in {0} \cup Claim, Ask(who, what, c),
           page' \in Page,
           \/ /\ who = "form" /\ what = "issue" /\ c = 0
              /\ ~page.busy /\ page'.busy /\ \E d \in Claim : claims[d].state = "none"
           \/ /\ who = "row" /\ what \in {"invite", "withdraw"} /\ c \in Claim
              /\ page' = page
    PROVE  ClaimsInv'
<1> DEFINE call == [NoRequest EXCEPT !.stage = "sent", !.what = what, !.who = who, !.claim = c,
                                     !.held = page.issued]
<1>1. PICK s \in Operator :
        /\ request[s].stage = "none"
        /\ request' = [request EXCEPT ![s] = call]
  BY DEF Ask
<1>2. page \in Page /\ request \in [Slot -> Request] /\ s \in Slot
  BY DEF ClaimsInv, TypeOK, Slot
<1>3. /\ call.stage = "sent" /\ call.what = what /\ call.who = who /\ call.claim = c
      /\ call.seed = 0 /\ call.waiting = {}
  BY DEF NoRequest
<1>4. call \in Request
  <2>1. NoRequest \in Request
    BY DEF NoRequest, Request, Empty, List
  <2>2. page.issued \in {0} \cup Claim
    BY <1>2 DEF Page
  <2>3. what \in {"list", "issue", "invite", "withdraw", "register", "tags"}
        /\ who \in {"form", "row", "mount", "buyer"}
    OBVIOUS
  <2> QED
    BY ZenonT(30), <2>1, <2>2, <2>3 DEF Request
<1> HIDE DEF call
<1>5. /\ request' \in [Slot -> Request] /\ request'[s] = call
      /\ \A t \in Slot \ {s} : request'[t] = request[t]
  BY <1>1, <1>2, <1>4
<1>6. UNCHANGED Server /\ UNCHANGED <<user, claims, tags>> /\ mine' \subseteq Claim
  BY DEF Ask, Server, ClaimsInv, TypeOK
<1>7. CallIsFormed(s)' /\ CallHasItsRows(s)'
  BY <1>1, <1>3, <1>5, <1>6 DEF CallIsFormed, CallHasItsRows, Operator
<1>8. ~Working(s) /\ (Working(s)' <=> who = "form")
  BY <1>1, <1>3, <1>5 DEF Working
<1> QED
  BY <1>1, <1>2, <1>3, <1>5, <1>6, <1>7, <1>8, CallStep

\* A press of the operator asks for one call, of the form or of a button.
LEMMA KeepsClicks ==
    ASSUME ClaimsInv, Clicks
    PROVE  ClaimsInv'
<1>1. page \in Page
  BY DEF ClaimsInv, TypeOK
<1>2. CASE Issue
  <2>1. page' \in Page /\ page'.busy
    BY <1>1, <1>2 DEF Issue, Page
  <2> QED
    BY <1>2, <2>1, KeepsAsk DEF Issue
<1>3. ASSUME NEW c \in Claim, Invite(c)
      PROVE  ClaimsInv'
  BY <1>1, <1>3, KeepsAsk DEF Invite
<1>4. ASSUME NEW c \in Claim, Withdraw(c)
      PROVE  ClaimsInv'
  BY <1>1, <1>4, KeepsAsk DEF Withdraw
<1> QED
  BY <1>2, <1>3, <1>4 DEF Clicks

\* The operator's page takes an answer, or learns that the call was lost.
LEMMA KeepsAnswer ==
    ASSUME ClaimsInv, NEW s \in Operator, NEW out, Answer(s, out),
           request[s].stage \in {"sent", "answered"}, UNCHANGED <<Server, mine>>
    PROVE  ClaimsInv'
<1> DEFINE r == request[s]
<1>1. page \in Page /\ request \in [Slot -> Request] /\ s \in Slot /\ r \in Request
  BY DEF ClaimsInv, TypeOK, Slot
<1>2. NoRequest \in Request /\ NoRequest.stage = "none" /\ Empty \in List
  BY DEF NoRequest, Request, Empty, List
<1>3. UNCHANGED Server /\ mine' \subseteq Claim
  BY DEF ClaimsInv, TypeOK
<1>4. CASE request' = [request EXCEPT ![s] = NoRequest]
           /\ \E p \in Page : page' = Rest(p, r) /\ p.busy = page.busy
  <2>1. page' \in Page /\ page'.busy = (page.busy /\ ~Working(s))
    <3>1. PICK p \in Page : page' = Rest(p, r) /\ p.busy = page.busy
      BY <1>4
    <3>2. page' = [p EXCEPT !.busy = IF r.who = "form" THEN FALSE ELSE @]
      BY <3>1 DEF Rest
    <3>3. p.busy \in BOOLEAN /\ (Working(s) <=> r.who = "form")
      BY DEF Page, Working
    <3>4. page'.busy = IF r.who = "form" THEN FALSE ELSE p.busy
      BY <3>2 DEF Page
    <3>5. page' \in Page
      BY <3>2, <3>3 DEF Page
    <3> QED
      BY <3>1, <3>3, <3>4, <3>5
  <2>2. /\ request' \in [Slot -> Request] /\ request'[s] = NoRequest
        /\ \A t \in Slot \ {s} : request'[t] = request[t]
    BY <1>1, <1>2, <1>4
  <2>3. CallIsFormed(s)' /\ CallHasItsRows(s)'
    <3>1. request[s]' = NoRequest
      BY <2>2
    <3>2. NoRequest.what = "list" /\ NoRequest.seed = 0 /\ NoRequest.waiting = {}
      BY DEF NoRequest
    <3> QED
      BY <1>2, <3>1, <3>2 DEF CallIsFormed, CallHasItsRows, Operator
  <2>4. ~Working(s)'
    BY <1>2, <2>2 DEF Working
  <2> QED
    BY <1>1, <1>2, <1>3, <2>1, <2>2, <2>3, <2>4, CallStep
<1>5. CASE page' = After(r) /\ Reload(s)
  <2>1. page' \in Page /\ page'.busy = page.busy
    BY <1>1, <1>5 DEF After, Page, Request
  <2> DEFINE call == [NoRequest EXCEPT !.stage = "sent", !.who = r.who]
  <2>2. /\ call.stage = "sent" /\ call.what = "list" /\ call.who = r.who
        /\ call.seed = 0 /\ call.waiting = {}
    BY DEF NoRequest
  <2>3. call \in Request
    BY ZenonT(30), <1>1, <1>2 DEF Request
  <2> HIDE DEF call
  <2>4. /\ request' \in [Slot -> Request] /\ request'[s] = call
        /\ \A t \in Slot \ {s} : request'[t] = request[t]
    BY <1>1, <1>5, <2>3 DEF Reload, call
  <2>5. CallIsFormed(s)' /\ CallHasItsRows(s)'
    <3>1. request[s]' = call
      BY <2>4
    <3> QED
      BY <2>2, <3>1 DEF CallIsFormed, CallHasItsRows, Operator
  <2>6. Working(s)' <=> Working(s)
    BY <2>2, <2>4 DEF Working
  <2> QED
    BY <1>1, <1>3, <2>1, <2>2, <2>4, <2>5, <2>6, CallStep
<1>6. CASE ListAnswer(s, out)
  <2>1. (IF out = "ok" THEN r.list ELSE Empty) \in List
    BY <1>1, <1>2 DEF Request
  <2>2. PICK p : p = [page EXCEPT !.list = IF out = "ok" THEN r.list ELSE Empty]
    OBVIOUS
  <2>3. p \in Page /\ p.busy = page.busy
    BY <1>1, <2>1, <2>2 DEF Page
  <2>4. request' = [request EXCEPT ![s] = NoRequest] /\ page' = Rest(p, r)
    BY <1>6, <2>2 DEF ListAnswer
  <2> QED
    BY <1>4, <2>3, <2>4
<1> QED
  BY <1>1, <1>4, <1>5, <1>6 DEF Answer

\* The buyer asks, and is answered.
LEMMA KeepsBuyer ==
    ASSUME ClaimsInv, Register \/ OpenTags \/ BuyerAnswered
    PROVE  ClaimsInv'
<1>1. page \in Page /\ request \in [Slot -> Request] /\ "buyer" \in Slot /\ "buyer" \notin Operator
  BY DEF ClaimsInv, TypeOK, Slot, Operator
<1>2. NoRequest \in Request /\ NoRequest.stage = "none"
  BY DEF NoRequest, Request, Empty, List
<1>3. UNCHANGED Server /\ UNCHANGED page
  BY DEF Register, OpenTags, BuyerAsks, BuyerAnswered
<1>4. ASSUME NEW what \in {"register", "tags"}, NEW c \in {0} \cup Claim, BuyerAsks(what, c),
             what = "tags" => user # 0
      PROVE  ClaimsInv'
  <2> DEFINE call == [NoRequest EXCEPT !.stage = "sent", !.what = what, !.who = "buyer", !.claim = c]
  <2>1. call.stage = "sent" /\ call.what = what /\ call.seed = 0 /\ call.waiting = {}
    BY DEF NoRequest
  <2>2. call \in Request
    BY <1>2 DEF Request
  <2> HIDE DEF call
  <2>3. /\ request' \in [Slot -> Request] /\ request'["buyer"] = call
        /\ \A t \in Slot \ {"buyer"} : request'[t] = request[t]
    BY <1>1, <1>4, <2>2 DEF BuyerAsks, call
  <2>4. user' = user /\ mine' \subseteq Claim
    BY <1>3, <1>4 DEF Server, BuyerAsks, ClaimsInv, TypeOK
  <2>5. CallIsFormed("buyer")' /\ CallHasItsRows("buyer")'
    <3>1. request["buyer"]' = call
      BY <2>3
    <3> QED
      BY <1>1, <1>4, <2>1, <2>4, <3>1 DEF CallIsFormed, CallHasItsRows
  <2> QED
    BY <1>1, <1>3, <2>1, <2>3, <2>4, <2>5, CallStep
<1>5. CASE BuyerAnswered
  <2>1. /\ request' \in [Slot -> Request] /\ request'["buyer"] = NoRequest
        /\ \A t \in Slot \ {"buyer"} : request'[t] = request[t]
    BY <1>1, <1>2, <1>5 DEF BuyerAnswered
  <2>2. mine' \subseteq Claim
    BY <1>1, <1>5 DEF BuyerAnswered, ClaimsInv, TypeOK, Request
  <2>3. CallIsFormed("buyer")' /\ CallHasItsRows("buyer")'
    <3>1. request["buyer"]' = NoRequest
      BY <2>1
    <3>2. NoRequest.what = "list" /\ NoRequest.seed = 0 /\ NoRequest.waiting = {}
      BY DEF NoRequest
    <3> QED
      BY <1>1, <1>2, <3>1, <3>2 DEF CallIsFormed, CallHasItsRows
  <2> QED
    BY <1>1, <1>2, <1>3, <2>1, <2>2, <2>3, CallStep
<1> QED
  BY <1>4, <1>5 DEF Register, OpenTags

-----------------------------------------------------------------------------
(* Steps of the server. *)

\* A call that loads notes what it is about to write.
LEMMA KeepsLoad ==
    ASSUME ClaimsInv, NEW s \in Slot, Load(s)
    PROVE  ClaimsInv'
<1> DEFINE r == request[s]
           new == IF Accepted(r) THEN Loaded(r)
                  ELSE [r EXCEPT !.stage = "answered", !.out = "refused"]
<1>1. /\ page \in Page /\ mine \subseteq Claim /\ request \in [Slot -> Request] /\ r \in Request
      /\ r.stage = "sent" /\ r.seed = 0 /\ r.waiting = {}
      /\ user \in {0} \cup Seed /\ tags \subseteq Claim
  BY DEF ClaimsInv, TypeOK, Load, CallIsFormed
<1>2. CallIsFormed(s) /\ CallHasItsRows(s)
  BY DEF ClaimsInv
<1>3. /\ request' = [request EXCEPT ![s] = new]
      /\ UNCHANGED <<user, claims, tags, page, mine>>
      /\ raced' = (raced \/ \E other \in Slot \ {s} : request[other].stage = "loaded")
  BY DEF Load
<1>4. Open \subseteq Claim /\ \A c \in Open : claims[c].state = "open"
  BY DEF Open
<1>5. new \in Request /\ new.who = r.who /\ new.stage # "none"
  <2>1. CASE ~Accepted(r) \/ r.what \in {"invite", "withdraw"}
    <3>1. new \in {[r EXCEPT !.stage = "answered", !.out = "refused"], [r EXCEPT !.stage = "loaded"]}
      BY <2>1 DEF Loaded
    <3> HIDE DEF new
    <3> QED
      BY ZenonT(30), <1>1, <3>1 DEF Request
  <2>2. CASE Accepted(r) /\ r.what = "issue"
    <3>1. NewClaim \in Claim /\ SeedFor \in Seed
      BY <1>1, <2>2, NextClaimIsThere, SeedsAgree
    <3>2. new = [r EXCEPT !.stage = "loaded", !.claim = NewClaim, !.seed = SeedFor,
                          !.known = user # 0]
      BY <2>2 DEF Loaded
    <3> HIDE DEF new
    <3> QED
      BY ZenonT(30), <1>1, <3>1, <3>2 DEF Request
  <2>3. CASE Accepted(r) /\ r.what = "register"
    <3>1. SeedForNewUser \in Seed
      BY <1>1, <2>3, SeedsAgree DEF Accepted
    <3>2. new = [r EXCEPT !.stage = "loaded", !.waiting = Open, !.seed = SeedForNewUser]
      BY <2>3 DEF Loaded
    <3> HIDE DEF new
    <3> QED
      BY <1>1, <1>4, <3>1, <3>2 DEF Request
  <2>4. CASE Accepted(r) /\ r.what = "tags"
    <3>1. new = IF Open # {} THEN [r EXCEPT !.stage = "loaded", !.waiting = Open]
                ELSE [r EXCEPT !.stage = "answered", !.shown = tags]
      BY <2>4 DEF Loaded
    <3> HIDE DEF new
    <3> QED
      BY ZenonT(30), <1>1, <1>4, <3>1 DEF Request
  <2>5. CASE Accepted(r) /\ r.what = "list"
    <3>1. Listed \in List
      BY DEF Listed, List, ClaimsInv, TypeOK, Row
    <3>2. new = [r EXCEPT !.stage = "answered", !.list = Listed]
      BY <2>5 DEF Loaded
    <3> HIDE DEF new
    <3> QED
      BY <1>1, <3>1, <3>2 DEF Request
  <2> QED
    BY <1>1, <2>1, <2>2, <2>3, <2>4, <2>5 DEF Request
<1>6. new.what = r.what
  BY <1>1 DEF Loaded, Request
<1>7. new.stage = "loaded" =>
        /\ r.what = "issue" => new.claim = NewClaim /\ new.seed = SeedFor
        /\ r.what # "issue" => new.claim = r.claim
        /\ r.what = "register" => new.seed = SeedForNewUser /\ user = 0
        /\ new.waiting = IF r.what \in {"register", "tags"} THEN Open ELSE {}
        /\ r.what # "list"
  BY <1>1 DEF Loaded, Request, Accepted
<1>8. r.what \in {"invite", "withdraw"} =>
        new.claim = r.claim /\ (new.stage = "loaded" => claims[r.claim].state = "open")
  BY <1>1 DEF Loaded, Request, Accepted
<1> HIDE DEF new
<1>9. /\ request' \in [Slot -> Request] /\ request'[s] = new
      /\ \A t \in Slot \ {s} : request'[t] = request[t]
  BY <1>1, <1>3, <1>5
<1>10. request[s]' = new
  BY <1>9
<1>11. CallIsFormed(s)'
  <2>1. new.stage # "sent"
    BY <1>1 DEF Loaded, Request, new
  <2> QED
    BY <1>1, <1>2, <1>5, <1>6, <1>7, <1>8, <1>10, <2>1 DEF CallIsFormed
<1>12. CallHasItsRows(s)'
  <2>1. new.stage # "sent"
    BY <1>1 DEF Loaded, Request, new
  <2>2. r.what = "issue" => NewClaim \in Claim /\ claims[NewClaim].state = "none" /\ SeedFor \in Seed
    BY <1>1, NextClaimIsThere, SeedsAgree
  <2>3. user = 0 => SeedForNewUser \in Seed
    BY <1>1, SeedsAgree
  <2>4. r.what = "tags" => user # 0
    BY <1>2 DEF CallHasItsRows
  <2> QED
    BY <1>3, <1>4, <1>6, <1>7, <1>8, <1>10, <2>1, <2>2, <2>3, <2>4 DEF CallHasItsRows
<1>13. ASSUME ~raced'
       PROVE  ~raced /\ CallIsCurrent(s)'
  <2>1. ~raced /\ \A t \in Slot \ {s} : request'[t].stage # "loaded"
    BY <1>3, <1>9, <1>13
  <2>2. Open' = Open
    BY <1>3 DEF Open
  <2>3. user # 0 => SeedFor = user
    BY <1>1, SeedsAgree
  <2>4. user = 0 => \A c \in Open : claims[c].seed = SeedFor /\ claims[c].seed = SeedForNewUser
    BY <1>1, <2>1, SeedsAgree
  <2> QED
    BY <1>3, <1>6, <1>7, <1>10, <2>1, <2>2, <2>3, <2>4 DEF CallIsCurrent
<1>14. Working(s)' <=> Working(s)
  BY <1>1, <1>5, <1>10 DEF Working
<1> QED
  BY <1>1, <1>3, <1>9, <1>11, <1>12, <1>13, <1>14, CallMoves

\* A call that commits is done; what it wrote keeps the rows of the others, and the
\* design.
LEMMA CommitStep ==
    ASSUME ClaimsInv, NEW s \in Slot, request[s].stage = "loaded",
           NEW shown \in SUBSET Claim,
           request' = [request EXCEPT ![s].stage = "answered", ![s].shown = shown],
           UNCHANGED <<page, mine, raced>>,
           claims' \in [Claim -> Row], tags' \subseteq Claim, user' \in {0} \cup Seed,
           user # 0 => user' # 0,
           \A c \in Claim : claims'[c].state = "none" <=>
                claims[c].state = "none" /\ ~(request[s].what = "issue" /\ c = request[s].claim),
           TakenAreTags', PrintedDesignIsShown',
           ~raced => /\ \A c \in Open' : user' # 0 => claims'[c].seed = user'
                     /\ \A c, d \in Open' : claims'[c].seed = claims'[d].seed
    PROVE  ClaimsInv'
<1> DEFINE r == request[s]
           done == [r EXCEPT !.stage = "answered", !.shown = shown]
<1>1. request \in [Slot -> Request] /\ r \in Request /\ CallIsFormed(s) /\ CallHasItsRows(s)
  BY DEF ClaimsInv, TypeOK
<1>2. /\ done \in Request /\ done.stage = "answered" /\ done.what = r.what /\ done.who = r.who
      /\ done.claim = r.claim
  BY <1>1 DEF Request
<1>3. /\ request' \in [Slot -> Request] /\ request'[s] = done
      /\ \A t \in Slot \ {s} : request'[t] = request[t]
  BY <1>1, <1>2
<1> HIDE DEF done
<1>4. request[s]' = done
  BY <1>3
<1>5. \A t \in Slot : Working(t)' <=> Working(t)
  BY <1>2, <1>3, <1>4 DEF Working
<1>6. TypeOK'
  <2>1. Operator \subseteq Slot
    BY DEF Slot
  <2>2. page.busy <=> \E t \in Operator : Working(t)
    BY DEF ClaimsInv, TypeOK, Working
  <2>3. page'.busy <=> \E t \in Operator : Working(t)'
    BY <1>5, <2>1, <2>2
  <2> QED
    BY <1>3, <2>3 DEF ClaimsInv, TypeOK, Working
<1>7. OneForm'
  <2>1. Operator \subseteq Slot
    BY DEF Slot
  <2>2. \A t, u \in Operator : Working(t) /\ Working(u) => t = u
    BY DEF ClaimsInv, OneForm, Working
  <2>3. \A t, u \in Operator : Working(t)' /\ Working(u)' => t = u
    BY <1>5, <2>1, <2>2
  <2> QED
    BY <2>3 DEF OneForm, Working
<1>8. CallIsFormed(s)'
  BY <1>1, <1>2, <1>4 DEF CallIsFormed
<1>9. CallHasItsRows(s)'
  <2>1. r.what = "tags" => user' # 0
    BY <1>1 DEF CallHasItsRows
  <2> QED
    BY <1>2, <1>4, <2>1 DEF CallHasItsRows
<1>10. ASSUME NEW t \in Slot \ {s}
       PROVE  CallIsFormed(t)' /\ CallHasItsRows(t)'
  <2>1. request[t]' = request[t] /\ CallIsFormed(t) /\ CallHasItsRows(t) /\ request[t] \in Request
    BY <1>1, <1>3 DEF ClaimsInv
  <2>2. CallIsFormed(t)'
    BY <2>1 DEF CallIsFormed
  <2>3. request[t].what = "issue" /\ request[t].stage # "none" => r.what # "issue"
    <3>1. ASSUME NEW u \in Slot, request[u].what = "issue", request[u].stage # "none"
          PROVE  u \in Operator /\ request[u].who = "form"
      BY <3>1 DEF ClaimsInv, CallIsFormed, Slot
    <3> QED
      BY <3>1 DEF ClaimsInv, OneForm
  <2>4. request[t].waiting \subseteq Claim
    BY <2>1 DEF Request
  <2> HIDE DEF r
  <2>5. /\ request[t].what = "issue" /\ request[t].stage = "sent" =>
                \E c \in Claim : claims'[c].state = "none"
        /\ request[t].what = "issue" /\ request[t].stage = "loaded" =>
                request[t].claim \in Claim /\ claims'[request[t].claim].state = "none"
                /\ request[t].seed \in Seed
    BY <2>1, <2>3 DEF CallHasItsRows, r
  <2>6. request[t].what \in {"invite", "withdraw"} /\ request[t].stage = "loaded" =>
                claims'[request[t].claim].state # "none"
    BY <2>1 DEF CallHasItsRows, CallIsFormed
  <2>7. request[t].stage = "loaded" => \A c \in request[t].waiting : claims'[c].state # "none"
    BY <2>1, <2>4 DEF CallHasItsRows
  <2>8. CallHasItsRows(t)'
    BY <2>1, <2>5, <2>6, <2>7 DEF CallHasItsRows
  <2> QED
    BY <2>2, <2>8
<1>11. OneDesign'
  <2>1. ASSUME ~raced, NEW t \in Slot
        PROVE  CallIsCurrent(t)'
    <3>1. \A u \in Slot \ {s} : request[u].stage # "loaded"
      BY <2>1 DEF ClaimsInv, OneDesign, CallIsCurrent
    <3>2. request'[t].stage # "loaded"
      BY <1>2, <1>3, <3>1
    <3> QED
      BY <3>2 DEF CallIsCurrent
  <2> QED
    BY <2>1 DEF OneDesign
<1> QED
  BY <1>6, <1>7, <1>8, <1>9, <1>10, <1>11 DEF ClaimsInv

\* What a commit leaves of a call that went through.
LEMMA CommitFields ==
    ASSUME ClaimsInv, NEW s \in Slot, Commit(s), Commits(request[s])
    PROVE  /\ request[s].stage = "loaded" /\ request[s] \in Request
           /\ CallIsFormed(s) /\ CallHasItsRows(s) /\ (~raced => CallIsCurrent(s))
           /\ claims' = Written(request[s])
           /\ tags' = tags \cup (IF request[s].what \in {"register", "tags"}
                                 THEN request[s].waiting ELSE {})
           /\ user' = IF request[s].what = "register" THEN request[s].seed ELSE user
           /\ UNCHANGED <<page, mine, raced>>
           /\ \E shown \in SUBSET Claim :
                request' = [request EXCEPT ![s].stage = "answered", ![s].shown = shown]
<1> DEFINE r == request[s]
<1>1. r.stage = "loaded" /\ r \in Request /\ CallIsFormed(s) /\ CallHasItsRows(s)
      /\ tags \subseteq Claim
  BY DEF Commit, ClaimsInv, TypeOK
<1>2. /\ claims' = Written(r)
      /\ tags' = tags \cup (IF r.what \in {"register", "tags"} THEN r.waiting ELSE {})
      /\ user' = IF r.what = "register" THEN r.seed ELSE user
      /\ UNCHANGED <<page, mine, raced>>
  BY DEF Commit, Taken
<1>3. request' = [request EXCEPT ![s].stage = "answered",
                                 ![s].shown = IF r.what = "tags" THEN tags' ELSE @]
  BY DEF Commit
<1>4. r.waiting \subseteq Claim /\ r.shown \subseteq Claim
  BY <1>1 DEF Request
<1>5. tags' \subseteq Claim
  BY <1>1, <1>2, <1>4
<1>6. PICK shown : shown = IF r.what = "tags" THEN tags' ELSE r.shown
  OBVIOUS
<1>7. request' = [request EXCEPT ![s].stage = "answered", ![s].shown = shown]
  <2>1. request \in [Slot -> Request]
    BY DEF ClaimsInv, TypeOK
  <2> QED
    BY <1>1, <1>3, <1>6, <2>1 DEF Request
<1>8. ~raced => CallIsCurrent(s)
  BY DEF ClaimsInv, OneDesign
<1> QED
  BY <1>1, <1>2, <1>4, <1>5, <1>6, <1>7, <1>8

\* A new claim has the seed in use.
LEMMA KeepsIssued ==
    ASSUME ClaimsInv, NEW s \in Slot, Commit(s), Commits(request[s]), request[s].what = "issue"
    PROVE  ClaimsInv'
<1> DEFINE r == request[s]
<1>1. /\ r.stage = "loaded" /\ r \in Request /\ (~raced => CallIsCurrent(s))
      /\ r.claim \in Claim /\ claims[r.claim].state = "none" /\ r.seed \in Seed
      /\ tags' = tags /\ user' = user /\ UNCHANGED <<page, mine, raced>>
  BY CommitFields DEF CallHasItsRows
<1>2. PICK row \in Row : /\ claims' = [claims EXCEPT ![r.claim] = row]
                         /\ row.state = "open" /\ row.seed = r.seed
  <2>1. claims' = [claims EXCEPT ![r.claim] =
                        [state |-> "open", seed |-> r.seed, invite |-> ~r.known]]
    BY CommitFields DEF Written
  <2>2. [state |-> "open", seed |-> r.seed, invite |-> ~r.known] \in Row
    BY <1>1 DEF Row
  <2> QED
    BY <2>1, <2>2
<1>3. claims \in [Claim -> Row] /\ tags \subseteq Claim /\ user \in {0} \cup Seed
  BY DEF ClaimsInv, TypeOK
<1>4. /\ claims' \in [Claim -> Row] /\ claims'[r.claim] = row
      /\ \A c \in Claim \ {r.claim} : claims'[c] = claims[c]
  BY <1>1, <1>2, <1>3
<1>5. r.claim \notin tags
  BY <1>1 DEF ClaimsInv, TakenAreTags
<1>6. TakenAreTags'
  BY <1>1, <1>2, <1>3, <1>4, <1>5 DEF ClaimsInv, TakenAreTags
<1>7. PrintedDesignIsShown'
  BY <1>1, <1>3, <1>4, <1>5 DEF ClaimsInv, OneDesign, PrintedDesignIsShown
<1>8. \A c \in Open' : c \in Claim /\ (c = r.claim \/ c \in Open)
  BY <1>4 DEF Open
<1>9. ASSUME ~raced
      PROVE  /\ \A c \in Open' : user' # 0 => claims'[c].seed = user'
             /\ \A c, d \in Open' : claims'[c].seed = claims'[d].seed
  <2>1. /\ user # 0 => r.seed = user
        /\ user = 0 => \A c \in Open : claims[c].seed = r.seed
    BY <1>1, <1>9 DEF CallIsCurrent
  <2>2. \A c \in Open : user # 0 => claims[c].seed = user
    BY <1>9 DEF ClaimsInv, OneDesign
  <2>3. \A c \in Open' : claims'[c].seed = r.seed
    BY <1>2, <1>4, <1>8, <2>1, <2>2
  <2> QED
    BY <1>1, <2>1, <2>3
<1>10. \A c \in Claim : claims'[c].state = "none" <=> claims[c].state = "none" /\ c # r.claim
  BY <1>2, <1>4
<1>11. PICK shown \in SUBSET Claim :
            request' = [request EXCEPT ![s].stage = "answered", ![s].shown = shown]
  BY CommitFields
<1> QED
  BY <1>1, <1>3, <1>4, <1>6, <1>7, <1>9, <1>10, <1>11, CommitStep

\* The columns of a claim that are written.
LEMMA UpdatedRow ==
    ASSUME NEW row \in Row
    PROVE  /\ LET new == Updated(row, [invite |-> TRUE]) IN
              new \in Row /\ new.state = row.state /\ new.seed = row.seed
           /\ LET new == Updated(row, [state |-> "taken", invite |-> FALSE]) IN
              new \in Row /\ new.state = "taken" /\ new.seed = row.seed
<1>1. ASSUME NEW edits, DOMAIN edits = {"invite"}, edits.invite = TRUE
      PROVE  LET new == Updated(row, edits) IN
             new \in Row /\ new.state = row.state /\ new.seed = row.seed
  BY <1>1 DEF Updated, Row
<1>2. ASSUME NEW edits, DOMAIN edits = {"state", "invite"}, edits.invite = FALSE,
             edits.state = "taken"
      PROVE  LET new == Updated(row, edits) IN
             new \in Row /\ new.state = "taken" /\ new.seed = row.seed
  BY <1>2 DEF Updated, Row
<1>3. PICK one : one = [invite |-> TRUE]
  OBVIOUS
<1>4. PICK both : both = [state |-> "taken", invite |-> FALSE]
  OBVIOUS
<1> QED
  BY <1>1, <1>2, <1>3, <1>4

\* An invitation changes no design, and a claim that is withdrawn is gone, also as
\* the tag it may have become.
LEMMA KeepsInvitedAndWithdrawn ==
    ASSUME ClaimsInv, NEW s \in Slot, Commit(s), Commits(request[s]),
           request[s].what \in {"invite", "withdraw"}
    PROVE  ClaimsInv'
<1> DEFINE r == request[s]
<1>1. /\ r.stage = "loaded" /\ r \in Request
      /\ r.claim \in Claim /\ claims[r.claim].state # "none"
      /\ tags' = tags /\ user' = user /\ UNCHANGED <<page, mine, raced>>
  BY CommitFields DEF CallHasItsRows, CallIsFormed
<1>2. claims \in [Claim -> Row] /\ tags \subseteq Claim /\ user \in {0} \cup Seed
  BY DEF ClaimsInv, TypeOK
<1>3. PICK row \in Row : /\ claims' = [claims EXCEPT ![r.claim] = row]
                         /\ row.seed = claims[r.claim].seed
                         /\ row.state = "gone" \/ row.state = claims[r.claim].state
  <2>1. claims[r.claim] \in Row
    BY <1>1, <1>2
  <2>2. CASE r.what = "invite"
    <3>1. claims' = [claims EXCEPT ![r.claim] = Updated(claims[r.claim], [invite |-> TRUE])]
      BY <2>2, CommitFields DEF Written
    <3>2. PICK row : row = Updated(claims[r.claim], [invite |-> TRUE])
      OBVIOUS
    <3>3. row \in Row /\ row.state = claims[r.claim].state /\ row.seed = claims[r.claim].seed
      BY <2>1, <3>2, UpdatedRow
    <3> QED
      BY <3>1, <3>2, <3>3
  <2>3. CASE r.what = "withdraw"
    <3>1. claims' = [claims EXCEPT ![r.claim].state = "gone"]
      BY <2>3, CommitFields DEF Written
    <3>2. PICK row : row = [claims[r.claim] EXCEPT !.state = "gone"]
      OBVIOUS
    <3>3. row \in Row /\ row.seed = claims[r.claim].seed /\ row.state = "gone"
      BY <2>1, <3>2 DEF Row
    <3> QED
      BY <3>1, <3>2, <3>3
  <2> QED
    BY <2>2, <2>3
<1>4. /\ claims' \in [Claim -> Row] /\ claims'[r.claim] = row
      /\ \A c \in Claim \ {r.claim} : claims'[c] = claims[c]
  BY <1>1, <1>2, <1>3
<1>5. \A c \in Claim : /\ claims'[c].seed = claims[c].seed
                       /\ claims'[c].state = "gone" \/ claims'[c].state = claims[c].state
  BY <1>3, <1>4
<1>6. TakenAreTags'
  BY <1>1, <1>2, <1>5 DEF ClaimsInv, TakenAreTags
<1>7. PrintedDesignIsShown'
  BY <1>1, <1>2, <1>5 DEF ClaimsInv, OneDesign, PrintedDesignIsShown
<1>8. Open' \subseteq Open
  BY <1>5 DEF Open
<1>9. ~raced => /\ \A c \in Open' : user' # 0 => claims'[c].seed = user'
                /\ \A c, d \in Open' : claims'[c].seed = claims'[d].seed
  BY <1>1, <1>5, <1>8 DEF ClaimsInv, OneDesign, Open
<1>10. \A c \in Claim : claims'[c].state = "none" <=> claims[c].state = "none"
  BY <1>1, <1>3, <1>4
<1>11. PICK shown \in SUBSET Claim :
            request' = [request EXCEPT ![s].stage = "answered", ![s].shown = shown]
  BY CommitFields
<1> QED
  BY <1>1, <1>2, <1>4, <1>6, <1>7, <1>9, <1>10, <1>11, CommitStep

\* The claims that wait for an account become its tags: they are still open.
LEMMA TakenWereOpen ==
    ASSUME ClaimsInv, NEW s \in Slot, request[s].stage = "loaded",
           request[s].what \in {"register", "tags"}, Commits(request[s])
    PROVE  \A c \in request[s].waiting : c \in Claim /\ claims[c].state = "open"
<1>1. request[s].waiting \subseteq Claim /\ claims \in [Claim -> Row]
  BY DEF ClaimsInv, TypeOK, Request
<1>2. \A c \in request[s].waiting : claims[c].state \notin {"none", "gone"} /\ c \notin tags
  BY DEF ClaimsInv, CallHasItsRows, Commits, MayTake
<1> QED
  BY <1>1, <1>2 DEF ClaimsInv, TakenAreTags, Row

\* Registering and opening the list take the claims that were waiting, in the design
\* the account has or gets; a row that is gone fails all of it.
LEMMA KeepsTaken ==
    ASSUME ClaimsInv, NEW s \in Slot, Commit(s), Commits(request[s]),
           request[s].what \in {"register", "tags"}
    PROVE  ClaimsInv'
<1> DEFINE r == request[s]
<1>1. /\ r.stage = "loaded" /\ r \in Request /\ (~raced => CallIsCurrent(s))
      /\ tags' = tags \cup r.waiting /\ UNCHANGED <<page, mine, raced>>
      /\ user' = IF r.what = "register" THEN r.seed ELSE user
      /\ r.what = "register" => r.seed \in Seed /\ user = 0
      /\ r.what = "tags" => user # 0
  BY CommitFields DEF CallHasItsRows, Commits, MayTake
<1>2. claims \in [Claim -> Row] /\ tags \subseteq Claim /\ user \in {0} \cup Seed
  BY DEF ClaimsInv, TypeOK
<1>3. r.waiting \subseteq Claim /\ \A c \in r.waiting : claims[c].state = "open"
  BY <1>1, TakenWereOpen
<1>4. /\ claims' \in [Claim -> Row]
      /\ \A c \in Claim : /\ claims'[c].seed = claims[c].seed
                          /\ claims'[c].state = IF c \in r.waiting THEN "taken" ELSE claims[c].state
  <2>1. claims' = [c \in Claim |-> IF c \in r.waiting
                        THEN Updated(claims[c], [state |-> "taken", invite |-> FALSE])
                        ELSE claims[c]]
    BY CommitFields DEF Written, Taken
  <2>2. ASSUME NEW c \in Claim
        PROVE  LET new == Updated(claims[c], [state |-> "taken", invite |-> FALSE]) IN
               new \in Row /\ new.state = "taken" /\ new.seed = claims[c].seed
    BY <1>2, UpdatedRow
  <2> QED
    BY <1>2, <2>1, <2>2
<1>5. tags' \subseteq Claim /\ user' \in Seed /\ 0 \notin Seed
  BY <1>1, <1>2, <1>3, ClaimsAreNumbers
<1>6. TakenAreTags'
  BY <1>1, <1>2, <1>3, <1>4, <1>5 DEF ClaimsInv, TakenAreTags
<1>7. ASSUME ~raced
      PROVE  /\ \A c \in r.waiting : claims[c].seed = user'
             /\ \A c \in Open : claims[c].seed = user'
  <2>1. r.waiting \subseteq Open /\ (r.what = "register" => \A c \in Open : claims[c].seed = r.seed)
    BY <1>1, <1>7 DEF CallIsCurrent
  <2>2. user # 0 => \A c \in Open : claims[c].seed = user
    BY <1>7 DEF ClaimsInv, OneDesign
  <2> QED
    BY <1>1, <2>1, <2>2
<1>8. PrintedDesignIsShown'
  <2>1. r.what = "register" => tags = {}
    BY <1>1 DEF ClaimsInv, TakenAreTags
  <2>2. ~raced => \A c \in tags : claims[c].seed = user
    BY DEF ClaimsInv, OneDesign, PrintedDesignIsShown
  <2> QED
    BY <1>1, <1>2, <1>3, <1>4, <1>7, <2>1, <2>2 DEF PrintedDesignIsShown
<1>9. Open' \subseteq Open
  BY <1>4 DEF Open
<1>10. ~raced => /\ \A c \in Open' : user' # 0 => claims'[c].seed = user'
                 /\ \A c, d \in Open' : claims'[c].seed = claims'[d].seed
  BY <1>4, <1>7, <1>9 DEF Open
<1>11. \A c \in Claim : claims'[c].state = "none" <=> claims[c].state = "none"
  BY <1>3, <1>4
<1>12. PICK shown \in SUBSET Claim :
            request' = [request EXCEPT ![s].stage = "answered", ![s].shown = shown]
  BY CommitFields
<1> QED
  BY <1>1, <1>4, <1>5, <1>6, <1>8, <1>10, <1>11, <1>12, CommitStep

\* Whatever a call writes when it commits.
LEMMA KeepsCommit ==
    ASSUME ClaimsInv, NEW s \in Slot, Commit(s)
    PROVE  ClaimsInv'
<1> DEFINE r == request[s]
<1>1. r.stage = "loaded" /\ r \in Request /\ CallIsFormed(s) /\ r.what # "list"
  BY DEF Commit, ClaimsInv, TypeOK, CallIsFormed
<1>2. CASE Commits(r)
  <2>1. r.what \in {"issue", "invite", "withdraw", "register", "tags"}
    BY <1>1 DEF Request
  <2> QED
    BY <1>2, <2>1, KeepsIssued, KeepsInvitedAndWithdrawn, KeepsTaken
<1>3. CASE ~Commits(r)
  <2> DEFINE new == [r EXCEPT !.stage = "answered", !.out = "refused"]
  <2>1. /\ new \in Request /\ new.stage = "answered" /\ new.what = r.what /\ new.who = r.who
        /\ new.claim = r.claim
    BY <1>1 DEF Request
  <2>2. /\ request' = [request EXCEPT ![s].stage = "answered", ![s].out = "refused"]
        /\ UNCHANGED <<user, claims, tags, page, mine, raced>>
    BY <1>3 DEF Commit
  <2>3. request \in [Slot -> Request] /\ page \in Page /\ mine \subseteq Claim
    BY DEF ClaimsInv, TypeOK
  <2>4. /\ request' \in [Slot -> Request] /\ request'[s] = new
        /\ \A t \in Slot \ {s} : request'[t] = request[t]
    BY <2>1, <2>2, <2>3
  <2> HIDE DEF new
  <2>5. request[s]' = new
    BY <2>4
  <2>6. CallIsFormed(s)'
    BY <1>1, <2>1, <2>5 DEF CallIsFormed
  <2>7. CallHasItsRows(s)'
    <3>1. r.what = "tags" => user # 0
      BY DEF ClaimsInv, CallHasItsRows
    <3> QED
      BY <2>1, <2>2, <2>5, <3>1 DEF CallHasItsRows
  <2>8. Working(s)' <=> Working(s)
    BY <1>1, <2>1, <2>5 DEF Working
  <2>9. UNCHANGED Server
    BY <2>2 DEF Server
  <2> QED
    BY <2>1, <2>2, <2>3, <2>4, <2>6, <2>7, <2>8, <2>9, CallStep
<1> QED
  BY <1>2, <1>3

\* Every step, by who takes it.
LEMMA NextClaims == ClaimsInv /\ [Next]_vars => ClaimsInv'
<1> SUFFICES ASSUME ClaimsInv, [Next]_vars
             PROVE  ClaimsInv'
  OBVIOUS
<1>1. CASE Clicks
  BY <1>1, KeepsClicks
<1>2. CASE Register \/ OpenTags \/ BuyerAnswered
  BY <1>2, KeepsBuyer
<1>3. ASSUME NEW s \in Slot, Load(s) \/ Commit(s)
      PROVE  ClaimsInv'
  BY <1>3, KeepsLoad, KeepsCommit
<1>4. ASSUME NEW s \in Operator, Take(s)
      PROVE  ClaimsInv'
  BY <1>4, KeepsAnswer DEF Take
<1>5. ASSUME NEW s \in Operator, Drop(s)
      PROVE  ClaimsInv'
  BY <1>5, KeepsAnswer DEF Drop
<1>6. CASE UNCHANGED vars
  <2>1. Open' = Open
    BY <1>6 DEF vars, Open
  <2> QED
    BY <1>6, <2>1 DEF vars, ClaimsInv, TypeOK, CallIsFormed, CallHasItsRows, OneForm, TakenAreTags,
                      OneDesign, PrintedDesignIsShown, CallIsCurrent
<1> QED
  BY <1>1, <1>2, <1>3, <1>4, <1>5, <1>6 DEF Next

\* The invariant holds from the start and is kept.
LEMMA ClaimsInvariant == Spec => []ClaimsInv
<1> QED
  BY InitClaims, NextClaims, PTL DEF Spec

-----------------------------------------------------------------------------
(* The theorems. *)

\* Every variable keeps its type, and the form is busy exactly while its handler is
\* at work.
THEOREM ClaimsAreTyped == Spec => []TypeOK
<1>1. ClaimsInv => TypeOK
  BY DEF ClaimsInv
<1> QED
  BY <1>1, ClaimsInvariant, PTL

\* Whatever is issued, invited, withdrawn and taken, the artwork printed for a code
\* is that of the account whose tag it becomes, unless two requests overlapped.
THEOREM PrintedDesignsAreShown == Spec => []PrintedDesignIsShown
<1>1. ClaimsInv => PrintedDesignIsShown
  BY DEF ClaimsInv, OneDesign
<1> QED
  BY <1>1, ClaimsInvariant, PTL

\* Only an open claim becomes a tag, however the DELETE of the operator and the
\* UPDATE of the buyer's request race.
THEOREM WithdrawnClaimsStayWithdrawn == Spec => WithdrawnStaysWithdrawn
<1>1. ASSUME ClaimsInv, [Next]_vars
      PROVE  \A c \in tags' \ tags : claims[c].state = "open"
  <2>1. CASE \E s \in Slot : Commit(s)
    <3>1. PICK s \in Slot : Commit(s)
      BY <2>1
    <3>2. CASE Commits(request[s]) /\ request[s].what \in {"register", "tags"}
      BY <1>1, <3>1, <3>2, CommitFields, TakenWereOpen
    <3>3. CASE ~(Commits(request[s]) /\ request[s].what \in {"register", "tags"})
      BY <3>1, <3>3 DEF Commit
    <3> QED
      BY <3>2, <3>3
  <2>2. CASE Clicks
    BY <2>2 DEF Clicks, Issue, Invite, Withdraw, Ask, Server
  <2>3. CASE Register \/ OpenTags \/ BuyerAnswered
    BY <2>3 DEF Register, OpenTags, BuyerAsks, BuyerAnswered, Server
  <2>4. CASE \E s \in Slot : Load(s)
    BY <2>4 DEF Load
  <2>5. CASE \E s \in Operator : Take(s) \/ Drop(s)
    BY <2>5 DEF Take, Drop, Server
  <2>6. CASE UNCHANGED vars
    BY <2>6 DEF vars
  <2> QED
    BY <1>1, <2>1, <2>2, <2>3, <2>4, <2>5, <2>6 DEF Next
<1> QED
  BY <1>1, ClaimsInvariant, PTL DEF Spec, WithdrawnStaysWithdrawn

=============================================================================
