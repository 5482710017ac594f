--------------------------- MODULE TagCodesProofs ---------------------------
(***************************************************************************)
(* Proofs about TagCodes, for every set of tags, codes and workers: a code *)
(* always leads to the tag it was handed out for, token_version counts the *)
(* codes of a tag, the limit of created tags is overrun by the workers     *)
(* that race for the last place and no more, and only a race leaves a      *)
(* block behind.                                                           *)
(***************************************************************************)
EXTENDS TagCodes, FiniteSetTheorems, TLAPS

-----------------------------------------------------------------------------
(* The inductive invariant, part by part *)

\* A request about one tag, whose row it has loaded or is going to insert.
Busy(w) == request[w].op \in {"create", "update", "rotate", "delete"}

Drawing(w) == request[w].op \in {"create", "rotate"}

\* A request that is going to insert tags.
Promising(w) == request[w].op \in {"create", "take"}

\* The codes of a live tag are its retired codes and the current one.
Accounted ==
    \A t \in live :
      /\ issued[t] = {c \in DOMAIN retired : retired[c] = t} \cup {tags[t].code}
      /\ ~(tags[t].code \in DOMAIN retired /\ retired[tags[t].code] = t)

RetiredAreLive == \A c \in DOMAIN retired : retired[c] \in live

\* The unique index on tags.token_hash.
CurrentApart == \A t, u \in live : tags[t].code = tags[u].code => t = u

\* Only a claim can have given its code to two tags.
SharedAreClaims ==
    \A t, u \in Tag : \A c \in Code :
        c \in issued[t] /\ c \in issued[u] => t = u \/ c \in DOMAIN claims

IssuedAreMinted == \A t \in Tag : issued[t] \subseteq minted

ClaimsAreMinted == DOMAIN claims \subseteq minted

IssuedAreNotOpen == \A t \in Tag : issued[t] \cap Open = {}

\* The code a request has drawn is nobody else's.
DrawnAreFresh ==
    \A w \in Worker : Drawing(w) =>
      /\ request[w].edited.code \in minted
      /\ request[w].edited.code \notin DOMAIN claims
      /\ \A t \in Tag : request[w].edited.code \notin issued[t]
      /\ \A v \in Worker : Drawing(v) /\ v # w =>
            request[v].edited.code # request[w].edited.code

\* A tag that is going to be inserted is not known to any other request.
PromisedAreUnborn ==
    \A w \in Worker : Promising(w) =>
      \A t \in Subjects(request[w]) :
        /\ issued[t] = {}
        /\ \A v \in Worker : v # w => t \notin Subjects(request[v])

\* The codes of a take are those of claims, one for each tag.
TakesAreClaims ==
    \A w \in Worker : request[w].op = "take" =>
      LET codeOf == request[w].codeOf IN
      /\ \A t \in DOMAIN codeOf : codeOf[t] \in DOMAIN claims
      /\ \A t, u \in DOMAIN codeOf : codeOf[t] = codeOf[u] => t = u

\* What a request has loaded was once so; if the code still is, so is the version.
LoadedWasStored ==
    \A w \in Worker : Busy(w) =>
      LET r == request[w] IN
      /\ r.op = "create" => r.edited.version = 1
      /\ r.op # "create" => r.loaded.code \in issued[r.tag]
      /\ r.op # "create" /\ r.tag \in live /\ r.loaded.code = tags[r.tag].code =>
            r.loaded.version = tags[r.tag].version
      /\ r.op = "update" =>
            r.edited.code = r.loaded.code /\ r.edited.version = r.loaded.version
      /\ r.op = "rotate" => r.edited.version = r.loaded.version + 1

VersionsCount ==
    \A t \in live : IsFiniteSet(issued[t]) /\ tags[t].version = Cardinality(issued[t])

\* The parts that only the tables decide ...
Stored ==
    /\ Accounted
    /\ RetiredAreLive
    /\ CurrentApart
    /\ SharedAreClaims
    /\ IssuedAreMinted
    /\ ClaimsAreMinted
    /\ IssuedAreNotOpen
    /\ VersionsCount

\* ... and those about what the workers are serving.
Pending ==
    /\ DrawnAreFresh
    /\ PromisedAreUnborn
    /\ TakesAreClaims
    /\ LoadedWasStored

IInv == TypeOK /\ Stored /\ Pending

-----------------------------------------------------------------------------
(* Lemmas about what is written *)

\* An UPDATE leaves a row a row, and takes each edited column from the handler.
LEMMA FlushedRow ==
    ASSUME NEW s \in Row, NEW l \in Row, NEW e \in Row
    PROVE  /\ Flushed(s, l, e) \in Row
           /\ Flushed(s, l, e).code = IF e.code # l.code THEN e.code ELSE s.code
           /\ Flushed(s, l, e).version =
                 IF e.version # l.version THEN e.version ELSE s.version
  BY DEF Flushed, Row

\* The loaded and edited rows of a request are rows.
LEMMA BusyRequest ==
    ASSUME TypeOK, NEW w \in Worker, Busy(w)
    PROVE  /\ request[w] \in Request
           /\ request[w].tag \in Tag
           /\ request[w].loaded \in Row
           /\ request[w].edited \in Row
  BY DEF TypeOK, Busy, Idle, Request, Take, Withdrawal

\* A take knows a code for each of its tags.
LEMMA TakeRequest ==
    ASSUME TypeOK, NEW w \in Worker, request[w].op = "take"
    PROVE  /\ DOMAIN request[w].codeOf \subseteq Tag
           /\ request[w].codeOf \in [DOMAIN request[w].codeOf -> Code]
  BY DEF TypeOK, Idle, Request, Take, Withdrawal

\* What each kind of request is about.
LEMMA WhatSubjects ==
    ASSUME NEW r
    PROVE  /\ r.op \in {"create", "update", "rotate", "delete"} => Subjects(r) = {r.tag}
           /\ r.op = "take" => Subjects(r) = DOMAIN r.codeOf
           /\ r.op \in {"idle", "withdraw"} => Subjects(r) = {}
  BY DEF Subjects

LEMMA IdleHasNoSubjects == Subjects(Idle) = {}
  BY WhatSubjects DEF Idle

-----------------------------------------------------------------------------
(* Type correctness *)

\* No step breaks the types.
LEMMA TypeStep == TypeOK /\ [Next]_vars => TypeOK'
<1> SUFFICES ASSUME TypeOK, [Next]_vars PROVE TypeOK'
  OBVIOUS
<1>1. ASSUME NEW w \in Worker, NEW op \in {"create", "update", "rotate", "delete"},
             NEW t \in Tag, NEW l \in Row, NEW e \in Row,
             Serve(w, op, t, l, e), minted' \subseteq Code
      PROVE  TypeOK'
  BY <1>1 DEF Serve, TypeOK, Request
<1>2. ASSUME NEW w \in Worker, BeginCreate(w) PROVE TypeOK'
  <2>1. PICK t \in Tag, c \in Code :
          LET row == [code |-> c, version |-> 1, block |-> FALSE] IN
          FreshId(t) /\ Mint(c) /\ Serve(w, "create", t, row, row)
    BY <1>2 DEF BeginCreate, FirstRow
  <2>2. minted' \subseteq Code
    BY <2>1 DEF Mint, TypeOK
  <2>3. [code |-> c, version |-> 1, block |-> FALSE] \in Row
    BY DEF Row
  <2> QED
    BY <1>1, <2>1, <2>2, <2>3
<1>3. ASSUME NEW w \in Worker, NEW t \in live, BeginUpdate(w, t) PROVE TypeOK'
  <2>1. PICK block \in BOOLEAN :
          Serve(w, "update", t, tags[t], [tags[t] EXCEPT !.block = block])
    BY <1>3 DEF BeginUpdate
  <2>2. t \in Tag /\ tags[t] \in Row /\ [tags[t] EXCEPT !.block = block] \in Row
    BY DEF TypeOK, Row
  <2> QED
    BY <1>1, <1>3, <2>1, <2>2 DEF BeginUpdate, TypeOK
<1>4. ASSUME NEW w \in Worker, NEW t \in live, BeginRotate(w, t) PROVE TypeOK'
  <2>1. PICK c \in Code :
          /\ Mint(c)
          /\ Serve(w, "rotate", t, tags[t],
                   [code |-> c, version |-> tags[t].version + 1, block |-> FALSE])
    BY <1>4 DEF BeginRotate, Rotated
  <2>2. /\ t \in Tag /\ tags[t] \in Row
        /\ [code |-> c, version |-> tags[t].version + 1, block |-> FALSE] \in Row
    BY DEF TypeOK, Row
  <2>3. minted' \subseteq Code
    BY <2>1 DEF Mint, TypeOK
  <2> QED
    BY <1>1, <2>1, <2>2, <2>3
<1>5. ASSUME NEW w \in Worker, NEW t \in live, BeginDelete(w, t) PROVE TypeOK'
  <2>1. t \in Tag /\ tags[t] \in Row
    BY DEF TypeOK
  <2> QED
    BY <1>1, <1>5, <2>1 DEF BeginDelete, TypeOK
<1>6. ASSUME NEW w \in Worker, CommitCreate(w) PROVE TypeOK'
  <2>1. request[w].tag \in Tag /\ request[w].edited \in Row
    BY <1>6, BusyRequest DEF CommitCreate, Busy
  <2>2. request[w].edited.code \in Code
    BY <2>1 DEF Row
  <2> QED
    BY <1>6, <2>1, <2>2 DEF CommitCreate, Respond, TypeOK
<1>7. ASSUME NEW w \in Worker, CommitUpdate(w) PROVE TypeOK'
  <2>1. request[w].loaded \in Row /\ request[w].edited \in Row
    BY <1>7, BusyRequest DEF CommitUpdate, Busy
  <2>2. Flushed(tags[request[w].tag], request[w].loaded, request[w].edited) \in Row
    BY <1>7, <2>1, FlushedRow DEF CommitUpdate, TypeOK
  <2> QED
    BY <1>7, <2>2 DEF CommitUpdate, Save, Respond, TypeOK
<1>8. ASSUME NEW w \in Worker, CommitRotate(w) PROVE TypeOK'
  <2>1. /\ request[w].tag \in Tag
        /\ request[w].loaded \in Row /\ request[w].edited \in Row
    BY <1>8, BusyRequest DEF CommitRotate, MayRetire, Busy
  <2>2. request[w].loaded.code \in Code /\ request[w].edited.code \in Code
    BY <2>1 DEF Row
  <2>3. Flushed(tags[request[w].tag], request[w].loaded, request[w].edited) \in Row
    BY <1>8, <2>1, FlushedRow DEF CommitRotate, MayRetire, TypeOK
  <2> QED
    BY <1>8, <2>1, <2>2, <2>3 DEF CommitRotate, MayRetire, Save, Respond, TypeOK
<1>9. ASSUME NEW w \in Worker, CommitDelete(w) PROVE TypeOK'
  BY <1>9 DEF CommitDelete, Respond, TypeOK
<1>10. ASSUME NEW w \in Worker, Rollback(w) PROVE TypeOK'
  BY <1>10 DEF Rollback, Respond, TypeOK
<1>11. ASSUME IssueClaim PROVE TypeOK'
  <2>1. PICK c \in Code :
          /\ Mint(c)
          /\ claims' = [d \in DOMAIN claims \cup {c} |-> IF d = c THEN "open" ELSE claims[d]]
          /\ UNCHANGED <<live, tags, retired, request, issued>>
    BY <1>11 DEF IssueClaim
  <2>2. minted' \subseteq Code
    BY <2>1 DEF Mint, TypeOK
  <2> QED
    BY <2>1, <2>2 DEF TypeOK
<1>12. ASSUME NEW w \in Worker, BeginTake(w) PROVE TypeOK'
  <2>0. PICK ids \in SUBSET Tag :
          \E codeOf \in [ids -> Code] : Loads(w, [op |-> "take", codeOf |-> codeOf])
    <3>1. PICK ids \in SUBSET Tag :
            \E codeOf \in [ids -> Open] : Loads(w, [op |-> "take", codeOf |-> codeOf])
      BY <1>12 DEF BeginTake
    <3>2. [ids -> Open] \subseteq [ids -> Code]
      BY DEF Open, TypeOK
    <3> QED
      BY <3>1, <3>2
  <2>1. PICK codeOf \in [ids -> Code] : Loads(w, [op |-> "take", codeOf |-> codeOf])
    BY <2>0
  <2>2. [op |-> "take", codeOf |-> codeOf] \in Take
    <3>1. codeOf \in UNION {[is -> Code] : is \in SUBSET Tag}
      OBVIOUS
    <3> QED
      BY <3>1 DEF Take
  <2> QED
    BY <2>1, <2>2 DEF Loads, TypeOK
<1>13. ASSUME NEW w \in Worker, BeginWithdraw(w) PROVE TypeOK'
  <2>1. PICK c \in Code : Loads(w, [op |-> "withdraw", code |-> c])
    BY <1>13 DEF BeginWithdraw, Open, TypeOK
  <2>2. [op |-> "withdraw", code |-> c] \in Withdrawal
    BY DEF Withdrawal
  <2> QED
    BY <2>1, <2>2 DEF Loads, TypeOK
<1>14. ASSUME NEW w \in Worker, CommitTake(w) PROVE TypeOK'
  <2> DEFINE codeOf == request[w].codeOf
             taken == {codeOf[t] : t \in DOMAIN codeOf}
  <2>1. DOMAIN codeOf \subseteq Tag /\ \A t \in DOMAIN codeOf : codeOf[t] \in Code
    BY <1>14, TakeRequest DEF CommitTake
  <2>2. /\ live' = live \cup DOMAIN codeOf
        /\ tags' = [t \in live' |-> IF t \in DOMAIN codeOf THEN FirstRow(codeOf[t]) ELSE tags[t]]
        /\ claims' = [c \in DOMAIN claims |-> IF c \in taken THEN "taken" ELSE claims[c]]
        /\ issued' = [t \in Tag |-> IF t \in DOMAIN codeOf THEN {codeOf[t]} ELSE issued[t]]
        /\ request' = [request EXCEPT ![w] = Idle]
        /\ retired' = retired /\ minted' = minted
    BY <1>14 DEF CommitTake, Respond
  <2> HIDE DEF codeOf, taken
  <2>3. \A t \in DOMAIN codeOf : FirstRow(codeOf[t]) \in Row
    BY <2>1 DEF FirstRow, Row
  <2>4. live' \subseteq Tag /\ tags' \in [live' -> Row]
    BY <2>1, <2>2, <2>3 DEF TypeOK
  <2>5. DOMAIN claims' \subseteq Code /\ \A c \in DOMAIN claims' : claims'[c] \in {"open", "taken", "gone"}
    BY <2>2 DEF TypeOK
  <2>6. issued' \in [Tag -> SUBSET Code]
    BY <2>1, <2>2 DEF TypeOK
  <2> QED
    BY <2>2, <2>4, <2>5, <2>6 DEF TypeOK
<1>15. ASSUME NEW w \in Worker, CommitWithdraw(w) PROVE TypeOK'
  BY <1>15 DEF CommitWithdraw, Respond, TypeOK
<1>16. CASE UNCHANGED vars
  BY <1>16 DEF vars, TypeOK
<1> QED
  BY <1>2, <1>3, <1>4, <1>5, <1>6, <1>7, <1>8, <1>9, <1>10, <1>11, <1>12, <1>13, <1>14, <1>15,
     <1>16 DEF Next, Requests

\* Every variable keeps its type: rows are whole, pending requests too.
THEOREM TypeCorrect == Spec => []TypeOK
<1>1. Init => TypeOK
  BY DEF Init, TypeOK, Idle
<1> QED
  BY <1>1, TypeStep, PTL DEF Spec

-----------------------------------------------------------------------------
(* The inductive invariant: what requests begin with *)

\* Reading rows and drawing a code changes nothing that is stored.
LEMMA BeginKeepsStored ==
    ASSUME Stored, UNCHANGED <<live, tags, retired, claims, issued>>, minted \subseteq minted'
    PROVE  Stored'
  BY DEF Stored, Accounted, RetiredAreLive, CurrentApart, SharedAreClaims, IssuedAreMinted,
         ClaimsAreMinted, IssuedAreNotOpen, Open, VersionsCount

\* A live tag has a code, so it is not one that is still to be inserted.
LEMMA LiveAreBorn ==
    ASSUME IInv, NEW t \in live
    PROVE  /\ t \in Tag
           /\ tags[t] \in Row
           /\ tags[t].code \in issued[t]
           /\ \A v \in Worker : Promising(v) => t \notin Subjects(request[v])
  BY DEF IInv, TypeOK, Stored, Accounted, Pending, PromisedAreUnborn

\* A request may begin if the code it draws is new, the tags it promises are
\* unknown or the tag it changes is live, and it has loaded what is stored.
LEMMA BeginStep ==
    ASSUME IInv, TypeOK', NEW w \in Worker, NEW r,
           request[w] = Idle, request' = [request EXCEPT ![w] = r],
           UNCHANGED <<live, tags, retired, claims, issued>>, minted \subseteq minted',
           r.op \in {"create", "rotate"} =>
              r.edited.code \in minted' /\ r.edited.code \notin minted,
           r.op \in {"create", "take"} =>
              \A t \in Subjects(r) : t \in Tag /\ FreshId(t),
           r.op \in {"update", "rotate", "delete"} =>
              /\ r.tag \in live /\ r.loaded = tags[r.tag]
              /\ r.op = "update" =>
                    r.edited.code = r.loaded.code /\ r.edited.version = r.loaded.version
              /\ r.op = "rotate" => r.edited.version = r.loaded.version + 1,
           r.op = "create" => r.edited.version = 1,
           r.op = "take" =>
              /\ \A t \in DOMAIN r.codeOf : r.codeOf[t] \in DOMAIN claims
              /\ \A t, u \in DOMAIN r.codeOf : r.codeOf[t] = r.codeOf[u] => t = u,
           r.op \in {"create", "update", "rotate", "delete", "take", "withdraw"}
    PROVE  IInv'
<1>1. Stored'
  BY BeginKeepsStored DEF IInv
<1>2. request'[w] = r /\ \A v \in Worker : v # w => request'[v] = request[v]
  BY DEF IInv, TypeOK
<1>3. DrawnAreFresh'
  <2>1. r.op \in {"create", "rotate"} =>
          /\ r.edited.code \notin DOMAIN claims
          /\ \A t \in Tag : r.edited.code \notin issued[t]
          /\ \A v \in Worker : Drawing(v) => r.edited.code # request[v].edited.code
    BY DEF IInv, Stored, Pending, ClaimsAreMinted, IssuedAreMinted, DrawnAreFresh
  <2> QED
    BY <1>2, <2>1 DEF IInv, Pending, DrawnAreFresh, Drawing
<1>4. PromisedAreUnborn'
  <2>1. ASSUME r.op \in {"create", "take"}, NEW t \in Subjects(r)
        PROVE  issued[t] = {} /\ \A v \in Worker : t \notin Subjects(request[v])
    BY <2>1 DEF FreshId
  <2>2. ASSUME NEW v \in Worker, v # w, Promising(v), NEW t \in Subjects(request[v])
        PROVE  issued[t] = {} /\ t \notin Subjects(r)
    <3>1. issued[t] = {}
      BY <2>2 DEF IInv, Pending, PromisedAreUnborn
    <3>2. CASE r.op \in {"create", "take"}
      BY <2>1, <2>2, <3>1, <3>2
    <3>3. CASE r.op \in {"update", "rotate", "delete"}
      <4>1. Subjects(r) = {r.tag}
        BY <3>3, WhatSubjects
      <4> QED
        BY <2>2, <3>1, <3>3, <4>1, LiveAreBorn
    <3>4. CASE r.op = "withdraw"
      BY <3>1, <3>4, WhatSubjects
    <3> QED
      BY <3>2, <3>3, <3>4
  <2> QED
    BY <1>2, <2>1, <2>2 DEF IInv, Pending, PromisedAreUnborn, Promising
<1>5. TakesAreClaims'
  BY <1>2 DEF IInv, Pending, TakesAreClaims
<1>6. LoadedWasStored'
  <2>1. r.op \in {"update", "rotate", "delete"} => r.loaded.code \in issued[r.tag]
    BY LiveAreBorn
  <2>2. ASSUME NEW v \in Worker, v # w, Busy(v)'
        PROVE  Busy(v) /\ request'[v] = request[v]
    BY <1>2, <2>2 DEF Busy
  <2>3. CASE Busy(w)'
    BY <1>2, <2>1, <2>2, <2>3 DEF IInv, Pending, LoadedWasStored, Busy
  <2>4. CASE ~Busy(w)'
    BY <2>2, <2>4 DEF IInv, Pending, LoadedWasStored
  <2> QED
    BY <2>3, <2>4
<1> QED
  BY <1>1, <1>3, <1>4, <1>5, <1>6 DEF IInv, Pending

\* A tag being created has a code of its own and an id nobody else knows.
LEMMA BeginCreateStep ==
    ASSUME IInv, TypeOK', NEW w \in Worker, BeginCreate(w)
    PROVE  IInv'
<1>1. PICK t \in Tag, c \in Code :
        FreshId(t) /\ Mint(c) /\ Serve(w, "create", t, FirstRow(c), FirstRow(c))
  BY DEF BeginCreate
<1> DEFINE r == [op |-> "create", tag |-> t, loaded |-> FirstRow(c), edited |-> FirstRow(c)]
<1>2. r.op = "create" /\ r.edited.code = c /\ r.edited.version = 1
  BY DEF FirstRow
<1>3. Subjects(r) = {t}
  BY WhatSubjects
<1>4. /\ request[w] = Idle /\ request' = [request EXCEPT ![w] = r]
      /\ UNCHANGED <<live, tags, retired, claims, issued>>
      /\ c \notin minted /\ minted' = minted \cup {c}
  BY <1>1 DEF Serve, Mint
<1> HIDE DEF r
<1> QED
  BY <1>1, <1>2, <1>3, <1>4, BeginStep

\* The owner's edit leaves the code and the version as they were loaded.
LEMMA BeginUpdateStep ==
    ASSUME IInv, TypeOK', NEW w \in Worker, NEW t \in live, BeginUpdate(w, t)
    PROVE  IInv'
<1>1. PICK block \in BOOLEAN :
        Serve(w, "update", t, tags[t], [tags[t] EXCEPT !.block = block])
  BY DEF BeginUpdate
<1> DEFINE row == [tags[t] EXCEPT !.block = block]
           r == [op |-> "update", tag |-> t, loaded |-> tags[t], edited |-> row]
<1>2. row.code = tags[t].code /\ row.version = tags[t].version
  BY LiveAreBorn DEF Row
<1>3. r.op = "update" /\ r.tag = t /\ r.loaded = tags[t] /\ r.edited = row
  OBVIOUS
<1>4. /\ request[w] = Idle /\ minted' = minted
      /\ request' = [request EXCEPT ![w] = r]
      /\ UNCHANGED <<live, tags, retired, claims, issued>>
  BY <1>1 DEF Serve, BeginUpdate
<1> HIDE DEF row, r
<1> QED
  BY <1>2, <1>3, <1>4, BeginStep

\* A rotation draws a code and adds one to the version it has loaded.
LEMMA BeginRotateStep ==
    ASSUME IInv, TypeOK', NEW w \in Worker, NEW t \in live, BeginRotate(w, t)
    PROVE  IInv'
<1>1. PICK c \in Code : Mint(c) /\ Serve(w, "rotate", t, tags[t], Rotated(tags[t], c))
  BY DEF BeginRotate
<1> DEFINE r == [op |-> "rotate", tag |-> t, loaded |-> tags[t],
                 edited |-> Rotated(tags[t], c)]
<1>2. /\ r.op = "rotate" /\ r.tag = t /\ r.loaded = tags[t]
      /\ r.edited.code = c /\ r.edited.version = tags[t].version + 1
  BY DEF Rotated
<1>3. /\ request[w] = Idle /\ request' = [request EXCEPT ![w] = r]
      /\ UNCHANGED <<live, tags, retired, claims, issued>>
      /\ c \notin minted /\ minted' = minted \cup {c}
  BY <1>1 DEF Serve, Mint
<1> HIDE DEF r
<1> QED
  BY <1>2, <1>3, BeginStep

\* A deletion has loaded the tag and changes nothing yet.
LEMMA BeginDeleteStep ==
    ASSUME IInv, TypeOK', NEW w \in Worker, NEW t \in live, BeginDelete(w, t)
    PROVE  IInv'
<1> DEFINE r == [op |-> "delete", tag |-> t, loaded |-> tags[t], edited |-> tags[t]]
<1>1. /\ request[w] = Idle /\ minted' = minted
      /\ request' = [request EXCEPT ![w] = r]
      /\ UNCHANGED <<live, tags, retired, claims, issued>>
  BY DEF BeginDelete, Serve
<1>2. r.op = "delete" /\ r.tag = t /\ r.loaded = tags[t]
  OBVIOUS
<1> HIDE DEF r
<1> QED
  BY <1>1, <1>2, BeginStep

\* A take has new ids for the tags and one open claim for each.
LEMMA BeginTakeStep ==
    ASSUME IInv, TypeOK', NEW w \in Worker, BeginTake(w)
    PROVE  IInv'
<1>1. PICK ids \in SUBSET {t \in Tag : FreshId(t)} :
        \E codeOf \in [ids -> Open] :
          /\ \A t, u \in ids : codeOf[t] = codeOf[u] => t = u
          /\ Loads(w, [op |-> "take", codeOf |-> codeOf])
  BY DEF BeginTake
<1>2. PICK codeOf \in [ids -> Open] :
        /\ \A t, u \in ids : codeOf[t] = codeOf[u] => t = u
        /\ Loads(w, [op |-> "take", codeOf |-> codeOf])
  BY <1>1
<1> DEFINE r == [op |-> "take", codeOf |-> codeOf]
<1>3. r.op = "take" /\ r.codeOf = codeOf /\ DOMAIN codeOf = ids
  OBVIOUS
<1>4. Subjects(r) = ids
  BY <1>3, WhatSubjects
<1>5. \A t \in ids : codeOf[t] \in DOMAIN claims
  BY DEF Open
<1>6. /\ request[w] = Idle /\ request' = [request EXCEPT ![w] = r]
      /\ UNCHANGED <<live, tags, retired, claims, issued, minted>>
  BY <1>2 DEF Loads
<1> HIDE DEF r
<1> QED
  BY <1>2, <1>3, <1>4, <1>5, <1>6, BeginStep

\* A withdrawal is about no tag.
LEMMA BeginWithdrawStep ==
    ASSUME IInv, TypeOK', NEW w \in Worker, BeginWithdraw(w)
    PROVE  IInv'
<1>1. PICK c \in Open : Loads(w, [op |-> "withdraw", code |-> c])
  BY DEF BeginWithdraw
<1> DEFINE r == [op |-> "withdraw", code |-> c]
<1>2. r.op = "withdraw"
  OBVIOUS
<1>3. /\ request[w] = Idle /\ request' = [request EXCEPT ![w] = r]
      /\ UNCHANGED <<live, tags, retired, claims, issued, minted>>
  BY <1>1 DEF Loads
<1> HIDE DEF r
<1> QED
  BY <1>2, <1>3, BeginStep

\* The code of a new claim is no tag's and no request's.
LEMMA IssueClaimStep ==
    ASSUME IInv, TypeOK', IssueClaim
    PROVE  IInv'
<1>1. PICK c \in Code :
        /\ c \notin minted /\ minted' = minted \cup {c}
        /\ claims' = [d \in DOMAIN claims \cup {c} |-> IF d = c THEN "open" ELSE claims[d]]
        /\ UNCHANGED <<live, tags, retired, request, issued>>
  BY DEF IssueClaim, Mint
<1>2. DOMAIN claims' = DOMAIN claims \cup {c} /\ Open' \subseteq Open \cup {c}
  BY <1>1 DEF Open
<1>3. \A t \in Tag : c \notin issued[t]
  BY <1>1 DEF IInv, Stored, IssuedAreMinted
<1>4. Stored'
  BY <1>1, <1>2, <1>3
     DEF IInv, Stored, Accounted, RetiredAreLive, CurrentApart, SharedAreClaims,
         IssuedAreMinted, ClaimsAreMinted, IssuedAreNotOpen, VersionsCount
<1>5. Pending'
  BY <1>1, <1>2 DEF IInv, Pending, DrawnAreFresh, Drawing, PromisedAreUnborn, Promising,
                    TakesAreClaims, LoadedWasStored, Busy
<1> QED
  BY <1>4, <1>5 DEF IInv

-----------------------------------------------------------------------------
(* The inductive invariant: what requests commit *)

\* A request that ends changes no other request and draws no code.
LEMMA RespondFrame ==
    ASSUME TypeOK, NEW w \in Worker, Respond(w)
    PROVE  /\ minted' = minted
           /\ request'[w].op = "idle"
           /\ \A v \in Worker : v # w => request'[v] = request[v]
  BY DEF Respond, TypeOK, Idle

\* What a request that ends may do to the tables without disturbing the others:
\* it issues only codes it drew itself or that are claims, only for its own
\* tags, and a tag that gets another code gets one it never had.
LEMMA EndKeepsPending ==
    ASSUME IInv, NEW w \in Worker, Respond(w),
           DOMAIN claims' = DOMAIN claims,
           \A t \in Tag : \A c \in issued'[t] :
              \/ c \in issued[t]
              \/ Drawing(w) /\ c = request[w].edited.code
              \/ c \in DOMAIN claims,
           \A t \in Tag : /\ issued[t] \subseteq issued'[t]
                          /\ issued'[t] = issued[t] \/ t \in Subjects(request[w]),
           \A t \in live' :
              \/ tags'[t].code \notin issued[t]
              \/ /\ t \in live
                 /\ tags'[t].code = tags[t].code /\ tags'[t].version = tags[t].version
    PROVE  Pending'
<1>1. /\ minted' = minted /\ request'[w].op = "idle"
      /\ \A v \in Worker : v # w => request'[v] = request[v]
  BY RespondFrame DEF IInv
<1>2. ASSUME NEW v \in Worker, request'[v].op # "idle"
      PROVE  v # w /\ request'[v] = request[v]
  BY <1>1, <1>2
<1>3. DrawnAreFresh'
  BY <1>1, <1>2 DEF IInv, Pending, DrawnAreFresh, Drawing
<1>4. PromisedAreUnborn'
  <2> SUFFICES ASSUME NEW v \in Worker, Promising(v)', NEW t \in Subjects(request'[v])
               PROVE  /\ issued'[t] = {}
                      /\ \A u \in Worker : u # v => t \notin Subjects(request'[u])
    BY DEF PromisedAreUnborn
  <2>1. v # w /\ request'[v] = request[v] /\ Promising(v)
    BY <1>2 DEF Promising
  <2>2. /\ issued[t] = {} /\ t \notin Subjects(request[w])
        /\ \A u \in Worker : u # v => t \notin Subjects(request[u])
    BY <2>1 DEF IInv, Pending, PromisedAreUnborn
  <2>3. t \in Tag
    BY <2>1, BusyRequest, TakeRequest, WhatSubjects DEF IInv, Promising, Busy
  <2>4. Subjects(request'[w]) = {}
    BY <1>1, WhatSubjects
  <2> QED
    BY <1>1, <2>2, <2>3, <2>4
<1>5. TakesAreClaims'
  BY <1>2 DEF IInv, Pending, TakesAreClaims
<1>6. LoadedWasStored'
  <2> SUFFICES ASSUME NEW v \in Worker, Busy(v)'
               PROVE  LET r == request'[v] IN
                      /\ r.op = "create" => r.edited.version = 1
                      /\ r.op # "create" => r.loaded.code \in issued'[r.tag]
                      /\ r.op # "create" /\ r.tag \in live' /\ r.loaded.code = tags'[r.tag].code =>
                            r.loaded.version = tags'[r.tag].version
                      /\ r.op = "update" =>
                            r.edited.code = r.loaded.code /\ r.edited.version = r.loaded.version
                      /\ r.op = "rotate" => r.edited.version = r.loaded.version + 1
    BY DEF LoadedWasStored
  <2>1. request'[v] = request[v] /\ Busy(v)
    BY <1>2 DEF Busy
  <2>2. request[v].tag \in Tag
    BY <2>1, BusyRequest DEF IInv
  <2> QED
    BY <2>1, <2>2 DEF IInv, Pending, LoadedWasStored
<1> QED
  BY <1>3, <1>4, <1>5, <1>6 DEF Pending

\* The new tag has one code, its first.
LEMMA CommitCreateStep ==
    ASSUME IInv, TypeOK', NEW w \in Worker, CommitCreate(w)
    PROVE  IInv'
<1> DEFINE t == request[w].tag
           row == request[w].edited
<1>1. /\ Busy(w) /\ Drawing(w) /\ t \in Tag /\ row \in Row
      /\ request[w].op = "create"
  BY BusyRequest DEF CommitCreate, IInv, Busy, Drawing
<1>2. Subjects(request[w]) = {t} /\ Promising(w)
  BY <1>1, WhatSubjects DEF Promising
<1>3. issued[t] = {} /\ row.version = 1 /\ row.code \in minted
  BY <1>1, <1>2 DEF IInv, Pending, PromisedAreUnborn, LoadedWasStored, DrawnAreFresh
<1>4. /\ live' = live \cup {t}
      /\ tags' = [u \in live' |-> IF u = t THEN row ELSE tags[u]]
      /\ issued' = [issued EXCEPT ![t] = {row.code}]
      /\ retired' = retired /\ claims' = claims
      /\ minted' = minted
      /\ Respond(w)
  BY RespondFrame DEF CommitCreate, IInv
<1>5. t \notin live /\ (\A c \in DOMAIN retired : retired[c] # t)
  BY <1>3, LiveAreBorn DEF IInv, Stored, RetiredAreLive
<1>6. row.code \in Code /\ row.code \notin DOMAIN claims /\ \A u \in Tag : row.code \notin issued[u]
  BY <1>1 DEF IInv, Pending, DrawnAreFresh, Row
<1>7. issued'[t] = {row.code} /\ \A u \in Tag : u # t => issued'[u] = issued[u]
  BY <1>1, <1>4 DEF IInv, TypeOK
<1>8. \A u \in Tag : \A c \in issued'[u] :
        c \in issued[u] \/ (Drawing(w) /\ c = request[w].edited.code) \/ c \in DOMAIN claims
  BY <1>1, <1>7
<1> HIDE DEF t, row
<1>9. Accounted'
  BY <1>4, <1>5, <1>7 DEF IInv, Stored, Accounted, TypeOK
<1>10. CurrentApart'
  <2>1. \A u \in live : tags[u].code # row.code
    BY <1>6, LiveAreBorn
  <2> QED
    BY <1>4, <2>1 DEF IInv, Stored, CurrentApart
<1>11. RetiredAreLive' /\ SharedAreClaims' /\ IssuedAreMinted' /\ ClaimsAreMinted'
  BY <1>3, <1>4, <1>6, <1>7
     DEF IInv, Stored, RetiredAreLive, SharedAreClaims, IssuedAreMinted, ClaimsAreMinted
<1>12. IssuedAreNotOpen'
  BY <1>4, <1>6, <1>7 DEF IInv, Stored, IssuedAreNotOpen, Open
<1>13. VersionsCount'
  <2>1. IsFiniteSet({row.code}) /\ Cardinality({row.code}) = 1
    BY FS_Singleton
  <2> QED
    BY <1>3, <1>4, <1>5, <1>7, <2>1 DEF IInv, Stored, TypeOK, VersionsCount
<1>14. Pending'
  <2>1. \A u \in Tag : /\ issued[u] \subseteq issued'[u]
                       /\ issued'[u] = issued[u] \/ u \in Subjects(request[w])
    BY <1>2, <1>3, <1>7
  <2>2. \A u \in live' : \/ tags'[u].code \notin issued[u]
                         \/ /\ u \in live
                            /\ tags'[u].code = tags[u].code /\ tags'[u].version = tags[u].version
    BY <1>3, <1>4
  <2> QED
    BY <1>4, <1>8, <2>1, <2>2, EndKeepsPending
<1> QED
  BY <1>9, <1>10, <1>11, <1>12, <1>13, <1>14 DEF IInv, Stored

\* Only the columns that were edited are written, and never the code.
LEMMA CommitUpdateStep ==
    ASSUME IInv, TypeOK', NEW w \in Worker, CommitUpdate(w)
    PROVE  IInv'
<1> DEFINE r == request[w]
<1>1. /\ Busy(w) /\ r.op = "update" /\ r.tag \in live
      /\ r.tag \in Tag /\ r.loaded \in Row /\ r.edited \in Row
  BY BusyRequest DEF CommitUpdate, IInv, Busy
<1>2. r.edited.code = r.loaded.code /\ r.edited.version = r.loaded.version
  BY <1>1 DEF IInv, Pending, LoadedWasStored
<1>3. /\ live' = live /\ retired' = retired /\ claims' = claims /\ issued' = issued /\ Respond(w)
      /\ tags' = [tags EXCEPT ![r.tag] = Flushed(tags[r.tag], r.loaded, r.edited)]
      /\ minted' = minted
  BY RespondFrame DEF CommitUpdate, Save, IInv
<1>4. \A t \in live : tags'[t].code = tags[t].code /\ tags'[t].version = tags[t].version
  <2>1. tags[r.tag] \in Row
    BY <1>1 DEF IInv, TypeOK
  <2>2. /\ Flushed(tags[r.tag], r.loaded, r.edited).code = tags[r.tag].code
        /\ Flushed(tags[r.tag], r.loaded, r.edited).version = tags[r.tag].version
    BY <1>1, <1>2, <2>1, FlushedRow
  <2> HIDE DEF r
  <2> QED
    BY <1>3, <2>2 DEF IInv, TypeOK
<1> HIDE DEF r
<1>5. Stored'
  BY <1>3, <1>4 DEF IInv, Stored, Accounted, RetiredAreLive, CurrentApart, SharedAreClaims,
                    IssuedAreMinted, ClaimsAreMinted, IssuedAreNotOpen, Open, VersionsCount
<1>6. Pending'
  BY <1>3, <1>4, EndKeepsPending
<1> QED
  BY <1>5, <1>6 DEF IInv

\* The unique index lets a rotation through only if the code it retires is current.
LEMMA CommitRotateStep ==
    ASSUME IInv, TypeOK', NEW w \in Worker, CommitRotate(w)
    PROVE  IInv'
<1> DEFINE t == request[w].tag
           old == request[w].loaded
           new == request[w].edited
<1>1. /\ Busy(w) /\ Drawing(w) /\ request[w].op = "rotate"
      /\ t \in live /\ t \in Tag /\ old \in Row /\ new \in Row /\ tags[t] \in Row
  BY BusyRequest DEF CommitRotate, MayRetire, IInv, TypeOK, Busy, Drawing
<1>2. /\ live' = live /\ claims' = claims /\ minted' = minted /\ Respond(w)
      /\ old.code \notin DOMAIN retired
      /\ retired' = [c \in DOMAIN retired \cup {old.code} |->
                        IF c = old.code THEN t ELSE retired[c]]
      /\ tags' = [tags EXCEPT ![t] = Flushed(tags[t], old, new)]
      /\ issued' = [issued EXCEPT ![t] = @ \cup {new.code}]
  BY RespondFrame DEF CommitRotate, MayRetire, Save, IInv
<1>3. /\ new.code \in minted /\ new.code \in Code /\ new.code \notin DOMAIN claims
      /\ \A u \in Tag : new.code \notin issued[u]
  BY <1>1 DEF IInv, Pending, DrawnAreFresh, Row
\* The unique index makes sure that the code retired is the current one.
<1>4. old.code = tags[t].code
  BY <1>1, <1>2 DEF IInv, Pending, LoadedWasStored, Stored, Accounted
<1>5. /\ old.version = tags[t].version /\ new.version = old.version + 1
      /\ new.code # old.code
  BY <1>1, <1>3, <1>4, LiveAreBorn DEF IInv, Pending, LoadedWasStored
<1>6. Flushed(tags[t], old, new).code = new.code
  BY <1>1, <1>5, FlushedRow
<1>7. Flushed(tags[t], old, new).version = tags[t].version + 1
  BY <1>1, <1>5, FlushedRow DEF Row
<1>8. Subjects(request[w]) = {t}
  BY <1>1, WhatSubjects
<1>9. \A u \in Tag : \A c \in issued'[u] :
        c \in issued[u] \/ (Drawing(w) /\ c = request[w].edited.code) \/ c \in DOMAIN claims
  <2> HIDE DEF t
  <2> QED
    BY <1>1, <1>2 DEF IInv, TypeOK
<1> HIDE DEF t, old, new
<1>10. /\ tags'[t].code = new.code /\ tags'[t].version = tags[t].version + 1
       /\ \A u \in live : u # t => tags'[u] = tags[u]
  BY <1>1, <1>2, <1>6, <1>7 DEF IInv, TypeOK
<1>11. /\ issued'[t] = issued[t] \cup {new.code}
       /\ \A u \in Tag : u # t => issued'[u] = issued[u]
  BY <1>1, <1>2 DEF IInv, TypeOK
<1>12. new.code \notin DOMAIN retired
  <2>1. \A c \in DOMAIN retired : c \in issued[retired[c]] /\ retired[c] \in Tag
    BY DEF IInv, TypeOK, Stored, Accounted, RetiredAreLive
  <2> QED
    BY <1>3, <2>1
<1>13. DOMAIN retired' = DOMAIN retired \cup {old.code}
  BY <1>2
<1>14. Accounted'
  <2> SUFFICES ASSUME NEW u \in live
               PROVE  /\ issued'[u] = {c \in DOMAIN retired' : retired'[c] = u} \cup {tags'[u].code}
                      /\ ~(tags'[u].code \in DOMAIN retired' /\ retired'[tags'[u].code] = u)
    BY <1>2 DEF Accounted
  <2>1. CASE u = t
    <3>1. {c \in DOMAIN retired' : retired'[c] = t}
            = {c \in DOMAIN retired : retired[c] = t} \cup {old.code}
      BY <1>2, <1>13
    <3> QED
      BY <1>1, <1>4, <1>5, <1>10, <1>11, <1>12, <1>13, <2>1, <3>1 DEF IInv, Stored, Accounted
  <2>2. CASE u # t
    <3>1. {c \in DOMAIN retired' : retired'[c] = u} = {c \in DOMAIN retired : retired[c] = u}
      BY <1>2, <1>13, <2>2
    <3>2. tags[u].code # old.code
      BY <1>1, <1>4, <2>2 DEF IInv, Stored, CurrentApart
    <3>3. u \in Tag
      BY DEF IInv, TypeOK
    <3> QED
      BY <1>2, <1>10, <1>11, <1>13, <2>2, <3>1, <3>2, <3>3 DEF IInv, Stored, Accounted
  <2> QED
    BY <2>1, <2>2
<1>15. RetiredAreLive'
  BY <1>1, <1>2 DEF IInv, Stored, RetiredAreLive
<1>16. CurrentApart'
  <2>1. \A u \in live : tags[u].code # new.code
    BY <1>3, LiveAreBorn
  <2> QED
    BY <1>2, <1>10, <2>1 DEF IInv, Stored, CurrentApart
<1>17. SharedAreClaims' /\ IssuedAreMinted' /\ ClaimsAreMinted'
  BY <1>2, <1>3, <1>11 DEF IInv, Stored, SharedAreClaims, IssuedAreMinted, ClaimsAreMinted
<1>18. IssuedAreNotOpen'
  BY <1>2, <1>3, <1>11 DEF IInv, Stored, IssuedAreNotOpen, Open
<1>19. VersionsCount'
  <2>1. /\ IsFiniteSet(issued[t] \cup {new.code})
        /\ Cardinality(issued[t] \cup {new.code}) = Cardinality(issued[t]) + 1
    BY <1>1, <1>3, FS_AddElement DEF IInv, Stored, VersionsCount
  <2>2. \A u \in live : u \in Tag
    BY DEF IInv, TypeOK
  <2> QED
    BY <1>1, <1>2, <1>10, <1>11, <2>1, <2>2 DEF IInv, Stored, VersionsCount
\* No other request can have loaded the code that has just been issued.
<1>20. Pending'
  <2>1. \A u \in Tag : /\ issued[u] \subseteq issued'[u]
                       /\ issued'[u] = issued[u] \/ u \in Subjects(request[w])
    BY <1>8, <1>11
  <2>2. \A u \in live' : \/ tags'[u].code \notin issued[u]
                         \/ /\ u \in live
                            /\ tags'[u].code = tags[u].code /\ tags'[u].version = tags[u].version
    BY <1>1, <1>2, <1>3, <1>10
  <2> QED
    BY <1>2, <1>9, <2>1, <2>2, EndKeepsPending
<1> QED
  BY <1>14, <1>15, <1>16, <1>17, <1>18, <1>19, <1>20 DEF IInv, Stored

\* With a tag go its retired codes.
LEMMA CommitDeleteStep ==
    ASSUME IInv, TypeOK', NEW w \in Worker, CommitDelete(w)
    PROVE  IInv'
<1> DEFINE t == request[w].tag
<1>1. t \in live
  BY DEF CommitDelete
<1>2. /\ live' = live \ {t}
      /\ tags' = [u \in live' |-> tags[u]]
      /\ retired' = [c \in {d \in DOMAIN retired : retired[d] # t} |-> retired[c]]
      /\ issued' = issued /\ claims' = claims /\ minted' = minted /\ Respond(w)
  BY RespondFrame DEF CommitDelete, IInv
<1> HIDE DEF t
<1>3. Accounted'
  <2>1. \A u \in live' : /\ u \in live /\ tags'[u] = tags[u]
                        /\ {c \in DOMAIN retired' : retired'[c] = u}
                             = {c \in DOMAIN retired : retired[c] = u}
    BY <1>2
  <2>2. \A c \in DOMAIN retired' : c \in DOMAIN retired /\ retired'[c] = retired[c]
    BY <1>2
  <2> QED
    BY <1>2, <2>1, <2>2 DEF IInv, Stored, Accounted
<1>4. RetiredAreLive' /\ CurrentApart' /\ SharedAreClaims' /\ IssuedAreMinted'
  BY <1>2 DEF IInv, Stored, RetiredAreLive, CurrentApart, SharedAreClaims, IssuedAreMinted
<1>5. ClaimsAreMinted' /\ IssuedAreNotOpen' /\ VersionsCount'
  BY <1>2 DEF IInv, Stored, ClaimsAreMinted, IssuedAreNotOpen, Open, VersionsCount
<1>6. Pending'
  BY <1>2, EndKeepsPending
<1> QED
  BY <1>3, <1>4, <1>5, <1>6 DEF IInv, Stored

\* Each tag that a claim becomes has the code of the claim, and no tag has that
\* code now.
LEMMA CommitTakeStep ==
    ASSUME IInv, TypeOK', NEW w \in Worker, CommitTake(w)
    PROVE  IInv'
<1> DEFINE codeOf == request[w].codeOf
           ids == DOMAIN codeOf
           taken == {codeOf[t] : t \in ids}
<1>1. request[w].op = "take" /\ Promising(w)
  BY DEF CommitTake, Promising
<1>2. ids \subseteq Tag /\ \A t \in ids : codeOf[t] \in Code
  BY <1>1, TakeRequest DEF IInv
<1>3. /\ \A t \in ids : codeOf[t] \in DOMAIN claims
      /\ \A t, u \in ids : codeOf[t] = codeOf[u] => t = u
  BY <1>1 DEF IInv, Pending, TakesAreClaims
<1>4. Subjects(request[w]) = ids
  BY <1>1, WhatSubjects
<1>5. \A t \in ids : issued[t] = {}
  BY <1>1, <1>4 DEF IInv, Pending, PromisedAreUnborn
<1>6. /\ live' = live \cup ids
      /\ tags' = [t \in live' |-> IF t \in ids THEN FirstRow(codeOf[t]) ELSE tags[t]]
      /\ claims' = [c \in DOMAIN claims |-> IF c \in taken THEN "taken" ELSE claims[c]]
      /\ issued' = [t \in Tag |-> IF t \in ids THEN {codeOf[t]} ELSE issued[t]]
      /\ retired' = retired /\ minted' = minted /\ Respond(w)
  BY RespondFrame DEF CommitTake, IInv
<1>7. \A t \in ids : IsFree(codeOf[t])
  BY DEF CommitTake
<1>8. DOMAIN claims' = DOMAIN claims /\ \A t \in ids : codeOf[t] \in taken
  BY <1>6
<1> HIDE DEF codeOf, ids, taken
<1>9. \A t \in ids : t \notin live /\ \A c \in DOMAIN retired : retired[c] # t
  BY <1>5, LiveAreBorn DEF IInv, Stored, RetiredAreLive
<1>10. \A t \in live' : /\ t \in ids => /\ tags'[t].code = codeOf[t] /\ tags'[t].version = 1
                        /\ t \notin ids => t \in live /\ tags'[t] = tags[t]
  BY <1>6 DEF FirstRow
<1>11. \A t \in Tag : issued'[t] = IF t \in ids THEN {codeOf[t]} ELSE issued[t]
  BY <1>6
<1>12. live' \subseteq Tag
  BY DEF TypeOK
<1>13. Accounted'
  <2> SUFFICES ASSUME NEW t \in live'
               PROVE  /\ issued'[t] = {c \in DOMAIN retired' : retired'[c] = t} \cup {tags'[t].code}
                      /\ ~(tags'[t].code \in DOMAIN retired' /\ retired'[tags'[t].code] = t)
    BY DEF Accounted
  <2>1. CASE t \in ids
    <3>1. {c \in DOMAIN retired : retired[c] = t} = {}
      BY <1>9, <2>1
    <3> QED
      BY <1>6, <1>9, <1>10, <1>11, <1>12, <2>1, <3>1
  <2>2. CASE t \notin ids
    BY <1>6, <1>10, <1>11, <1>12, <2>2 DEF IInv, Stored, Accounted
  <2> QED
    BY <2>1, <2>2
<1>14. RetiredAreLive' /\ IssuedAreMinted' /\ ClaimsAreMinted'
  BY <1>3, <1>6, <1>8, <1>11 DEF IInv, Stored, RetiredAreLive, IssuedAreMinted, ClaimsAreMinted
<1>15. CurrentApart'
  <2> SUFFICES ASSUME NEW t \in live', NEW u \in live', tags'[t].code = tags'[u].code
               PROVE  t = u
    BY DEF CurrentApart
  <2>1. ASSUME NEW x \in ids, NEW y \in live PROVE tags[y].code # codeOf[x]
    BY <1>7 DEF IsFree
  <2> QED
    BY <1>3, <1>10, <2>1 DEF IInv, Stored, CurrentApart
<1>16. SharedAreClaims'
  <2> SUFFICES ASSUME NEW t \in Tag, NEW u \in Tag, NEW c \in issued'[t], c \in issued'[u],
                      c \notin DOMAIN claims, t # u
               PROVE  FALSE
    BY <1>8 DEF SharedAreClaims
  <2>1. t \notin ids /\ u \notin ids
    BY <1>3, <1>11
  <2>2. c \in issued[t] /\ c \in issued[u] /\ c \in Code
    BY <1>11, <2>1 DEF IInv, TypeOK
  <2> QED
    BY <2>2 DEF IInv, Stored, SharedAreClaims
<1>17. IssuedAreNotOpen'
  <2>1. \A c \in Open' : c \in Open /\ c \notin taken
    BY <1>6 DEF Open
  <2> QED
    BY <1>8, <1>11, <2>1 DEF IInv, Stored, IssuedAreNotOpen
<1>18. VersionsCount'
  <2> SUFFICES ASSUME NEW t \in live'
               PROVE  IsFiniteSet(issued'[t]) /\ tags'[t].version = Cardinality(issued'[t])
    BY DEF VersionsCount
  <2>1. CASE t \in ids
    <3>1. IsFiniteSet({codeOf[t]}) /\ Cardinality({codeOf[t]}) = 1
      BY FS_Singleton
    <3> QED
      BY <1>10, <1>11, <1>12, <2>1, <3>1
  <2>2. CASE t \notin ids
    BY <1>10, <1>11, <1>12, <2>2 DEF IInv, Stored, VersionsCount
  <2> QED
    BY <2>1, <2>2
<1>19. Pending'
  <2>1. \A t \in Tag : \A c \in issued'[t] : c \in issued[t] \/ c \in DOMAIN claims
    BY <1>3, <1>11
  <2>2. \A t \in Tag : /\ issued[t] \subseteq issued'[t]
                       /\ issued'[t] = issued[t] \/ t \in Subjects(request[w])
    BY <1>4, <1>5, <1>11
  <2>3. \A t \in live' : \/ tags'[t].code \notin issued[t]
                         \/ /\ t \in live
                            /\ tags'[t].code = tags[t].code /\ tags'[t].version = tags[t].version
    BY <1>5, <1>10
  <2> QED
    BY <1>6, <1>8, <2>1, <2>2, <2>3, EndKeepsPending
<1> QED
  BY <1>13, <1>14, <1>15, <1>16, <1>17, <1>18, <1>19 DEF IInv, Stored

\* A withdrawal opens no claim.
LEMMA CommitWithdrawStep ==
    ASSUME IInv, TypeOK', NEW w \in Worker, CommitWithdraw(w)
    PROVE  IInv'
<1>1. /\ UNCHANGED <<live, tags, retired, issued, minted>> /\ Respond(w)
      /\ claims' = [claims EXCEPT ![request[w].code] = "gone"]
  BY RespondFrame DEF CommitWithdraw, IInv
<1>2. DOMAIN claims' = DOMAIN claims /\ Open' \subseteq Open
  BY <1>1 DEF Open
<1>3. Stored'
  BY <1>1, <1>2 DEF IInv, Stored, Accounted, RetiredAreLive, CurrentApart, SharedAreClaims,
                    IssuedAreMinted, ClaimsAreMinted, IssuedAreNotOpen, VersionsCount
<1>4. Pending'
  BY <1>1, <1>2, EndKeepsPending
<1> QED
  BY <1>3, <1>4 DEF IInv

\* A refused or killed request leaves the tables alone.
LEMMA RollbackStep ==
    ASSUME IInv, TypeOK', NEW w \in Worker, Rollback(w)
    PROVE  IInv'
<1>1. Respond(w) /\ UNCHANGED <<live, tags, retired, claims, issued, minted>>
  BY RespondFrame DEF Rollback, IInv
<1>2. Stored'
  BY <1>1, BeginKeepsStored DEF IInv
<1>3. Pending'
  BY <1>1, EndKeepsPending
<1> QED
  BY <1>2, <1>3 DEF IInv

-----------------------------------------------------------------------------
(* The theorems *)

\* The invariant holds from the start and is kept.
LEMMA Invariance == Spec => []IInv
<1>1. Init => IInv
  <2> SUFFICES ASSUME Init PROVE IInv
    OBVIOUS
  <2>1. TypeOK
    BY DEF Init, TypeOK, Idle
  <2>2. Stored
    BY DEF Init, Stored, Accounted, RetiredAreLive, CurrentApart, SharedAreClaims,
           IssuedAreMinted, ClaimsAreMinted, IssuedAreNotOpen, Open, VersionsCount
  <2>3. \A w \in Worker : request[w].op = "idle"
    BY DEF Init, Idle
  <2>4. Pending
    BY <2>3 DEF Pending, DrawnAreFresh, Drawing, PromisedAreUnborn, Promising,
                TakesAreClaims, LoadedWasStored, Busy
  <2> QED
    BY <2>1, <2>2, <2>4 DEF IInv
<1>2. IInv /\ [Next]_vars => IInv'
  <2> SUFFICES ASSUME IInv, [Next]_vars PROVE IInv'
    OBVIOUS
  <2>1. TypeOK'
    BY TypeStep DEF IInv
  <2>2. CASE UNCHANGED vars
    <3>1. Stored'
      BY <2>2, BeginKeepsStored DEF vars, IInv
    <3>2. Pending'
      BY <2>2 DEF vars, IInv, Pending, DrawnAreFresh, Drawing, PromisedAreUnborn, Promising,
                  TakesAreClaims, LoadedWasStored, Busy
    <3> QED
      BY <2>1, <3>1, <3>2 DEF IInv
  <2> QED
    BY <2>1, <2>2, BeginCreateStep, BeginUpdateStep, BeginRotateStep, BeginDeleteStep,
       BeginTakeStep, BeginWithdrawStep, IssueClaimStep,
       CommitCreateStep, CommitUpdateStep, CommitRotateStep, CommitDeleteStep,
       CommitTakeStep, CommitWithdrawStep, RollbackStep
       DEF Next, Requests
<1> QED
  BY <1>1, <1>2, PTL DEF Spec

\* Whatever the workers' requests interleave to, a code handed out for a tag
\* leads to that tag while it exists (unless retired and blocked), and nowhere
\* once it is deleted - but for the code of a claim that two tags were made of.
THEOREM CodesAlwaysLeadToTheirTag == Spec => []CodesLeadToTheirTag
<1>1. IInv => CodesLeadToTheirTag
  <2> SUFFICES ASSUME IInv, NEW t \in Tag, NEW c \in issued[t], ~TakenTwice(t, c)
               PROVE  Lookup(c) = Expected(t, c)
    BY DEF CodesLeadToTheirTag
  <2>1. c \in Code /\ c \notin Open
    BY DEF IInv, TypeOK, Stored, IssuedAreNotOpen
  <2>2. \A u \in Tag : c \in issued[u] => u = t
    BY <2>1 DEF IInv, Stored, SharedAreClaims, TakenTwice
  <2>3. \A u \in live : tags[u].code = c => u = t
    BY <2>2, LiveAreBorn
  <2>4. c \in DOMAIN retired => retired[c] = t /\ t \in live
    BY <2>2 DEF IInv, TypeOK, Stored, Accounted, RetiredAreLive
  <2>5. t \in live /\ c # tags[t].code => c \in DOMAIN retired
    BY DEF IInv, Stored, Accounted
  <2> QED
    BY <2>1, <2>3, <2>4, <2>5 DEF Lookup, Expected
<1> QED
  BY <1>1, Invariance, PTL

\* No rotation is lost: the version of a tag is the number of its codes.
THEOREM VersionsAlwaysCountCodes == Spec => []VersionCountsCodes
<1>1. IInv => VersionCountsCodes
  BY DEF IInv, Stored, VersionsCount, VersionCountsCodes
<1> QED
  BY <1>1, Invariance, PTL

-----------------------------------------------------------------------------
(* The limit of tags *)

\* The requests that have found room for a tag and not yet inserted it.
Creating == {w \in Worker : request[w].op = "create"}

\* Created and promised tags together leave room for one worker; what claims
\* become is not bounded by it, and finite because the claims are.
RoomLeft ==
    /\ IsFiniteSet(DOMAIN claims) /\ IsFiniteSet(live)
    /\ Cardinality(Created) + Cardinality(Creating) < MaxTags + Cardinality(Worker)

\* There are no more creations under way than workers.
LEMMA CreatingIsFinite ==
    /\ IsFiniteSet(Creating) /\ Cardinality(Creating) \in Nat
    /\ Cardinality(Creating) <= Cardinality(Worker) /\ Cardinality(Worker) \in Nat
  BY WorkerAssumption, FS_Subset, FS_CardinalityType DEF Creating

\* A request that ends no longer promises a tag.
LEMMA RespondEndsPromise ==
    ASSUME TypeOK, NEW w \in Worker, Respond(w)
    PROVE  Creating' = Creating \ {w}
  BY RespondFrame DEF Creating

\* Room is left where no tag is created and no creation begins.
LEMMA RoomKept ==
    ASSUME RoomLeft, IsFiniteSet(live'), IsFiniteSet(DOMAIN claims'),
           Created' \subseteq Created, Creating' \subseteq Creating
    PROVE  RoomLeft'
<1>1. IsFiniteSet(Created)
  BY FS_Subset DEF RoomLeft, Created
<1>2. /\ IsFiniteSet(Created') /\ Cardinality(Created') <= Cardinality(Created)
      /\ IsFiniteSet(Creating') /\ Cardinality(Creating') <= Cardinality(Creating)
  BY <1>1, CreatingIsFinite, FS_Subset
<1>3. /\ Cardinality(Created) \in Nat /\ Cardinality(Created') \in Nat
      /\ Cardinality(Creating') \in Nat
  BY <1>1, <1>2, FS_CardinalityType
<1> QED
  BY <1>2, <1>3, CreatingIsFinite, MaxTagsAssumption DEF RoomLeft

\* A creation passes the guard while there is room, and becomes at most one tag.
LEMMA RoomStep == IInv /\ RoomLeft /\ [Next]_vars => RoomLeft'
<1> SUFFICES ASSUME IInv, RoomLeft, [Next]_vars PROVE RoomLeft'
  OBVIOUS
<1>0. /\ IsFiniteSet(live) /\ IsFiniteSet(DOMAIN claims) /\ Cardinality(live) \in Nat
      /\ IsFiniteSet(Created) /\ Cardinality(Created) \in Nat
      /\ Cardinality(Created) <= Cardinality(live)
  BY FS_Subset, FS_CardinalityType DEF RoomLeft, Created
<1>1. ASSUME NEW w \in Worker, BeginCreate(w) PROVE RoomLeft'
  <2>1. UNCHANGED <<live, claims, issued>> /\ Cardinality(live) < MaxTags
    BY <1>1 DEF BeginCreate, BelowLimit, Serve
  <2>2. Cardinality(Creating') <= Cardinality(Worker) /\ Cardinality(Creating') \in Nat
    BY WorkerAssumption, FS_Subset, FS_CardinalityType DEF Creating
  <2>3. Created' = Created
    BY <2>1 DEF Created
  <2> QED
    BY <1>0, <2>1, <2>2, <2>3, CreatingIsFinite, MaxTagsAssumption DEF RoomLeft
<1>2. ASSUME NEW w \in Worker, UNCHANGED <<live, claims, issued>>,
             request'[w].op # "create", \A v \in Worker : v # w => request'[v] = request[v]
      PROVE  RoomLeft'
  <2>1. Created' = Created /\ Creating' \subseteq Creating
    BY <1>2 DEF Created, Creating
  <2> QED
    BY <1>0, <1>2, <2>1, RoomKept
<1>3. ASSUME NEW w \in Worker, NEW t \in live,
             BeginUpdate(w, t) \/ BeginRotate(w, t) \/ BeginDelete(w, t)
      PROVE  RoomLeft'
  <2>1. /\ UNCHANGED <<live, claims, issued>> /\ request'[w].op # "create"
        /\ \A v \in Worker : v # w => request'[v] = request[v]
    BY <1>3 DEF BeginUpdate, BeginRotate, BeginDelete, Serve, IInv, TypeOK
  <2> QED
    BY <1>2, <2>1
<1>4. ASSUME NEW w \in Worker, BeginTake(w) \/ BeginWithdraw(w) PROVE RoomLeft'
  <2>1. /\ UNCHANGED <<live, claims, issued>> /\ request'[w].op # "create"
        /\ \A v \in Worker : v # w => request'[v] = request[v]
    BY <1>4 DEF BeginTake, BeginWithdraw, Loads, IInv, TypeOK
  <2> QED
    BY <1>2, <2>1
\* The code of a new claim is no tag's, so it makes no created tag a claimed one.
<1>5. ASSUME IssueClaim PROVE RoomLeft'
  <2>1. PICK c \in Code : /\ c \notin minted /\ DOMAIN claims' = DOMAIN claims \cup {c}
                          /\ UNCHANGED <<live, request, issued>>
    BY <1>5 DEF IssueClaim, Mint
  <2>2. IsFiniteSet(DOMAIN claims')
    BY <1>0, <2>1, FS_AddElement
  <2>3. Created' = Created /\ Creating' = Creating
    BY <2>1 DEF Created, Creating, IInv, TypeOK, Stored, IssuedAreMinted
  <2> QED
    BY <1>0, <2>1, <2>2, <2>3, RoomKept
<1>6. ASSUME NEW w \in Worker, CommitCreate(w) PROVE RoomLeft'
  <2> DEFINE t == request[w].tag
  <2>1. /\ live' = live \cup {t} /\ claims' = claims
        /\ issued' = [issued EXCEPT ![t] = {request[w].edited.code}]
        /\ Creating' = Creating \ {w} /\ w \in Creating
    BY <1>6, RespondEndsPromise DEF CommitCreate, Creating, IInv
  <2>2. Cardinality(Creating') = Cardinality(Creating) - 1
    BY <2>1, CreatingIsFinite, FS_RemoveElement
  <2> HIDE DEF t
  <2>3. Created' \subseteq Created \cup {t}
    BY <2>1 DEF Created, IInv, TypeOK
  <2>4. /\ IsFiniteSet(Created \cup {t})
        /\ Cardinality(Created \cup {t}) \in {Cardinality(Created), Cardinality(Created) + 1}
    BY <1>0, FS_AddElement
  <2>5. Cardinality(Created') \in Nat /\ Cardinality(Created') <= Cardinality(Created) + 1
    BY <1>0, <2>3, <2>4, FS_Subset, FS_CardinalityType
  <2>6. IsFiniteSet(live')
    BY <1>0, <2>1, FS_AddElement
  <2> QED
    BY <1>0, <2>1, <2>2, <2>5, <2>6, CreatingIsFinite, MaxTagsAssumption DEF RoomLeft
<1>7. ASSUME NEW w \in Worker, CommitUpdate(w) \/ Rollback(w) PROVE RoomLeft'
  <2>1. UNCHANGED <<live, claims, issued>> /\ Respond(w)
    BY <1>7 DEF CommitUpdate, Rollback
  <2> QED
    BY <1>2, <2>1, RespondFrame DEF IInv
<1>8. ASSUME NEW w \in Worker, CommitRotate(w) PROVE RoomLeft'
  <2>1. UNCHANGED <<live, claims>> /\ Respond(w) /\ \A t \in Tag : issued[t] \subseteq issued'[t]
    BY <1>8 DEF CommitRotate, IInv, TypeOK
  <2>2. Created' \subseteq Created
    BY <2>1 DEF Created, IInv, TypeOK
  <2>3. Creating' \subseteq Creating
    BY <2>1, RespondEndsPromise DEF IInv
  <2> QED
    BY <1>0, <2>1, <2>2, <2>3, RoomKept
<1>9. ASSUME NEW w \in Worker, CommitDelete(w) PROVE RoomLeft'
  <2>1. live' \subseteq live /\ claims' = claims /\ issued' = issued /\ Respond(w)
    BY <1>9 DEF CommitDelete
  <2>2. IsFiniteSet(live') /\ Created' \subseteq Created
    BY <1>0, <2>1, FS_Subset DEF Created
  <2>3. Creating' \subseteq Creating
    BY <2>1, RespondEndsPromise DEF IInv
  <2> QED
    BY <1>0, <2>1, <2>2, <2>3, RoomKept
\* A take makes no more tags than there are claims, and none of them is created.
<1>10. ASSUME NEW w \in Worker, CommitTake(w) PROVE RoomLeft'
  <2> DEFINE codeOf == request[w].codeOf
             ids == DOMAIN codeOf
  <2>1. request[w].op = "take"
    BY <1>10 DEF CommitTake
  <2>2. /\ \A t \in ids : codeOf[t] \in DOMAIN claims
        /\ \A t, u \in ids : codeOf[t] = codeOf[u] => t = u
    BY <2>1 DEF IInv, Pending, TakesAreClaims
  <2>3. codeOf \in [ids -> Code] /\ ids \subseteq Tag
    BY <2>1, TakeRequest DEF IInv
  <2>4. /\ live' = live \cup ids /\ DOMAIN claims' = DOMAIN claims /\ Respond(w)
        /\ issued' = [t \in Tag |-> IF t \in ids THEN {codeOf[t]} ELSE issued[t]]
    BY <1>10 DEF CommitTake
  <2> HIDE DEF codeOf, ids
  <2>5. codeOf \in Injection(ids, DOMAIN claims)
    BY <2>2, <2>3 DEF Injection, IsInjective
  <2>6. IsFiniteSet(ids)
    BY <1>0, <2>5, FS_Injection
  <2>7. IsFiniteSet(live')
    BY <1>0, <2>4, <2>6, FS_Union
  <2>8. Created' \subseteq Created
    BY <2>2, <2>3, <2>4 DEF Created, IInv, TypeOK
  <2>9. Creating' \subseteq Creating
    BY <2>4, RespondEndsPromise DEF IInv
  <2> QED
    BY <1>0, <2>4, <2>7, <2>8, <2>9, RoomKept
<1>11. ASSUME NEW w \in Worker, CommitWithdraw(w) PROVE RoomLeft'
  <2>1. UNCHANGED <<live, issued>> /\ DOMAIN claims' = DOMAIN claims /\ Respond(w)
    BY <1>11 DEF CommitWithdraw
  <2>2. Created' = Created /\ Creating' \subseteq Creating
    BY <2>1, RespondEndsPromise DEF Created, IInv
  <2> QED
    BY <1>0, <2>1, <2>2, RoomKept
<1>12. CASE UNCHANGED vars
  BY <1>12 DEF vars, RoomLeft, Created, Creating
<1> QED
  BY <1>1, <1>3, <1>4, <1>5, <1>6, <1>7, <1>8, <1>9, <1>10, <1>11, <1>12 DEF Next, Requests

\* Although nothing is locked, the limit is exceeded by fewer created tags than
\* there are workers, whatever else becomes a tag.
THEOREM TagLimitHolds == Spec => []TagLimit
<1>1. Init => RoomLeft
  <2> SUFFICES ASSUME Init PROVE RoomLeft
    OBVIOUS
  <2>1. live = {} /\ DOMAIN claims = {} /\ Created = {} /\ Creating = {}
    BY DEF Init, Created, Creating, Idle
  <2>2. Cardinality(Worker) \in Nat /\ Cardinality(Worker) # 0
    BY WorkerAssumption, FS_CardinalityType, FS_EmptySet
  <2> QED
    BY <2>1, <2>2, FS_EmptySet, MaxTagsAssumption DEF RoomLeft
<1>2. RoomLeft => TagLimit
  <2>1. RoomLeft => Cardinality(Created) \in Nat
    BY FS_Subset, FS_CardinalityType DEF RoomLeft, Created
  <2> QED
    BY <2>1, CreatingIsFinite, MaxTagsAssumption DEF RoomLeft, TagLimit
<1> QED
  BY <1>1, <1>2, RoomStep, Invariance, PTL DEF Spec

-----------------------------------------------------------------------------
(* Rotations and the block *)

\* What a rotation makes of the row it has loaded never blocks the old codes.
RotationsUnblock ==
    \A w \in Worker : request[w].op = "rotate" => ~request[w].edited.block

\* No other handler makes a rotation that leaves the block on.
LEMMA UnblockStep == TypeOK /\ RotationsUnblock /\ [Next]_vars => RotationsUnblock'
<1> SUFFICES ASSUME TypeOK, RotationsUnblock, [Next]_vars PROVE RotationsUnblock'
  OBVIOUS
<1>1. ASSUME NEW w \in Worker, \A v \in Worker : v # w => request'[v] = request[v],
             request'[w].op = "rotate" => ~request'[w].edited.block
      PROVE  RotationsUnblock'
  BY <1>1 DEF RotationsUnblock
<1>2. ASSUME NEW w \in Worker, Respond(w) PROVE RotationsUnblock'
  BY <1>1, <1>2, RespondFrame
<1>3. ASSUME NEW w \in Worker, BeginCreate(w) PROVE RotationsUnblock'
  <2>1. PICK t \in Tag, c \in Code : Serve(w, "create", t, FirstRow(c), FirstRow(c))
    BY <1>3 DEF BeginCreate
  <2> QED
    BY <1>1, <2>1 DEF Serve, TypeOK
<1>4. ASSUME NEW w \in Worker, NEW t \in live, BeginRotate(w, t) PROVE RotationsUnblock'
  <2>1. PICK c \in Code : Serve(w, "rotate", t, tags[t], Rotated(tags[t], c))
    BY <1>4 DEF BeginRotate
  <2>2. request'[w].edited = Rotated(tags[t], c)
    BY <2>1 DEF Serve, TypeOK
  <2> QED
    BY <1>1, <2>1, <2>2 DEF Serve, TypeOK, Rotated
<1>5. ASSUME NEW w \in Worker, NEW t \in live, BeginUpdate(w, t) \/ BeginDelete(w, t)
      PROVE  RotationsUnblock'
  BY <1>1, <1>5 DEF BeginUpdate, BeginDelete, Serve, TypeOK
<1>6. ASSUME NEW w \in Worker, BeginTake(w) \/ BeginWithdraw(w) PROVE RotationsUnblock'
  BY <1>1, <1>6 DEF BeginTake, BeginWithdraw, Loads, TypeOK
<1>7. CASE IssueClaim \/ UNCHANGED vars
  BY <1>7 DEF IssueClaim, vars, RotationsUnblock
<1> QED
  BY <1>2, <1>3, <1>4, <1>5, <1>6, <1>7
     DEF Next, Requests, CommitCreate, CommitUpdate, CommitRotate, CommitDelete, CommitTake,
         CommitWithdraw, Rollback

\* A step that raises the version of a tag is the commit of a rotation of it.
LEMMA StrandStep ==
    ASSUME IInv, RotationsUnblock, [Next]_vars, NEW t \in live \cap live',
           tags'[t].version > tags[t].version, tags'[t].block
    PROVE  \E w \in Worker :
              LET r == request[w] IN
              r # Idle /\ r.op = "rotate" /\ r.tag = t /\ ~r.loaded.block
<1>1. tags[t] \in Row /\ tags[t].version \in Nat
  BY DEF IInv, TypeOK, Row
<1>2. tags'[t] # tags[t]
  BY <1>1
<1>3. PICK w \in Worker : CommitUpdate(w) \/ CommitRotate(w)
  <2>1. ASSUME NEW w \in Worker, CommitCreate(w) \/ CommitTake(w) PROVE tags'[t] = tags[t]
    <3>1. t \notin Subjects(request[w])
      BY <2>1, LiveAreBorn DEF CommitCreate, CommitTake, Promising
    <3> QED
      BY <2>1, <3>1, WhatSubjects DEF CommitCreate, CommitTake
  <2>2. ASSUME NEW w \in Worker, CommitDelete(w) PROVE tags'[t] = tags[t]
    BY <2>2 DEF CommitDelete
  <2>3. ASSUME NEW w \in Worker, NEW u \in live,
               BeginUpdate(w, u) \/ BeginRotate(w, u) \/ BeginDelete(w, u)
        PROVE  tags' = tags
    BY <2>3 DEF BeginUpdate, BeginRotate, BeginDelete, Serve
  <2>4. ASSUME NEW w \in Worker, BeginCreate(w) \/ BeginTake(w) \/ BeginWithdraw(w)
        PROVE  tags' = tags
    BY <2>4 DEF BeginCreate, BeginTake, BeginWithdraw, Serve, Loads
  <2>5. ASSUME NEW w \in Worker, CommitWithdraw(w) \/ Rollback(w) PROVE tags' = tags
    BY <2>5 DEF CommitWithdraw, Rollback
  <2> QED
    BY <1>2, <2>1, <2>2, <2>3, <2>4, <2>5 DEF Next, Requests, IssueClaim, vars
<1> DEFINE r == request[w]
<1>4. /\ Busy(w) /\ r.tag \in live /\ r.loaded \in Row /\ r.edited \in Row
      /\ tags' = [tags EXCEPT ![r.tag] = Flushed(tags[r.tag], r.loaded, r.edited)]
  BY <1>3, BusyRequest DEF IInv, CommitUpdate, CommitRotate, Save, Busy
<1>5. r.tag = t /\ tags'[t] = Flushed(tags[t], r.loaded, r.edited)
  BY <1>2, <1>4 DEF IInv, TypeOK
<1>6. tags'[t].version = IF r.edited.version # r.loaded.version THEN r.edited.version
                         ELSE tags[t].version
  BY <1>1, <1>4, <1>5, FlushedRow
<1>7. r.op = "rotate"
  <2>1. r.op = "update" => r.edited.version = r.loaded.version
    BY <1>4 DEF IInv, Pending, LoadedWasStored
  <2> QED
    BY <1>1, <1>3, <1>6, <2>1 DEF CommitUpdate, CommitRotate
<1>8. ~r.loaded.block
  <2>1. ~r.edited.block
    BY <1>4, <1>7 DEF RotationsUnblock
  <2>2. r.edited.block # r.loaded.block => tags'[t].block = r.edited.block
    BY <1>1, <1>5 DEF Flushed, Row
  <2>3. r.loaded.block \in BOOLEAN /\ r.edited.block \in BOOLEAN
    BY <1>4 DEF Row
  <2> QED
    BY <2>1, <2>2, <2>3
<1> QED
  BY <1>5, <1>7, <1>8 DEF Idle

\* A rotation that saw the block lifts it, and one that did not leaves no block
\* but one put on meanwhile.
THEOREM RotationsStrandOnlyByRace == Spec => RotationStrandsOnlyByRace
<1>1. Init => RotationsUnblock
  BY DEF Init, RotationsUnblock, Idle
<1>2. TypeOK /\ IInv /\ RotationsUnblock /\ [Next]_vars =>
        [\A t \in live \cap live' :
            tags'[t].version > tags[t].version /\ tags'[t].block =>
                \E w \in Worker :
                    LET r == request[w] IN
                    r # Idle /\ r.op = "rotate" /\ r.tag = t /\ ~r.loaded.block]_vars
  BY StrandStep
<1> QED
  BY <1>1, <1>2, UnblockStep, Invariance, TypeCorrect, PTL DEF Spec, RotationStrandsOnlyByRace

=============================================================================
