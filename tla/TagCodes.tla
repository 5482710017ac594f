------------------------------ MODULE TagCodes ------------------------------
(***************************************************************************)
(* The scan codes of one owner's tags: api/tags.py (list, create, update,  *)
(* rotate, delete), the claims of services/claims.py that become tags, and *)
(* the lookup of api/scan.py.                                              *)
(*                                                                         *)
(* A tag carries one current code; rotating it issues a new one and keeps  *)
(* the outgoing one as a retired code, because the bag and its NFC sticker *)
(* still carry it.  A retired code goes on resolving until the owner       *)
(* blocks the retired codes of the tag.                                    *)
(*                                                                         *)
(* Each gunicorn worker serves one request at a time: it reads the rows of *)
(* the request in a Begin action and commits in a later Commit action,     *)
(* under READ COMMITTED, so requests of two workers interleave.  The       *)
(* unique indexes on tags.token_hash and retired_tokens.token_hash are the *)
(* only protection.                                                        *)
(*                                                                         *)
(* A code may also be printed before it is a tag's: the operator issues a  *)
(* claim for the owner's address, and registering or listing the tags      *)
(* makes a tag of each claim that is open (what the operator and the buyer *)
(* see of that is in the module Claims).                                   *)
(***************************************************************************)
EXTENDS Naturals, FiniteSets, Orm

CONSTANTS
    Tag,        \* tag ids (uuid4: never reused)
    Code,       \* scan codes, standing for their keyed hashes (never drawn twice)
    Worker,     \* gunicorn workers
    MaxTags     \* MAX_TAGS_PER_USER

ASSUME MaxTagsAssumption == MaxTags \in Nat

ASSUME WorkerAssumption == IsFiniteSet(Worker) /\ Worker # {}

VARIABLES
    live,       \* the ids of the rows of table tags
    tags,       \* the row of each live tag
    retired,    \* table retired_tokens, by its unique index: code -> tag
    claims,     \* table tag_claims for the owner's address: code -> state
    request,    \* the request each worker is serving
    minted,     \* every code drawn so far, committed or not
    issued      \* history: the codes that were handed out for each tag

vars == <<live, tags, retired, claims, request, minted, issued>>

Row == [code: Code, version: Nat \ {0}, block: BOOLEAN]

Idle == [op |-> "idle"]

Request == [op: {"create", "update", "rotate", "delete"}, tag: Tag, loaded: Row, edited: Row]

\* A request that makes tags of claims, with the ids and codes they get, and one
\* that withdraws a claim.
Take == [op: {"take"}, codeOf: UNION {[ids -> Code] : ids \in SUBSET Tag}]
Withdrawal == [op: {"withdraw"}, code: Code]

TypeOK ==
    /\ live \subseteq Tag
    /\ tags \in [live -> Row]
    /\ DOMAIN retired \subseteq Code
    /\ \A c \in DOMAIN retired : retired[c] \in Tag
    /\ DOMAIN claims \subseteq Code
    /\ \A c \in DOMAIN claims : claims[c] \in {"open", "taken", "gone"}
    /\ \A w \in Worker : \/ request[w] = Idle \/ request[w] \in Request
                         \/ request[w] \in Take \/ request[w] \in Withdrawal
    /\ DOMAIN request = Worker
    /\ minted \subseteq Code
    /\ issued \in [Tag -> SUBSET Code]

-----------------------------------------------------------------------------
(* The lookup of a code *)

NotFound == [status |-> 404]
NotSetUp == [status |-> 409]

Answer(t, isRetired) == [tag |-> t, retired |-> isRetired]

\* The claims that no account has taken.
Open == {c \in DOMAIN claims : claims[c] = "open"}

\* _lookup: the current code first, then a retired code, unless its tag blocks
\* those, then a claim.
Lookup(c) ==
    IF \E t \in live : tags[t].code = c
    THEN Answer(CHOOSE t \in live : tags[t].code = c, FALSE)
    ELSE IF c \in DOMAIN retired
         THEN IF tags[retired[c]].block THEN NotFound ELSE Answer(retired[c], TRUE)
         ELSE IF c \in Open THEN NotSetUp ELSE NotFound

-----------------------------------------------------------------------------
(* The handlers: what they read ... *)

Init ==
    /\ live = {}
    /\ tags = [t \in {} |-> {}]
    /\ retired = [c \in {} |-> {}]
    /\ claims = [c \in {} |-> {}]
    /\ request = [w \in Worker |-> Idle]
    /\ minted = {}
    /\ issued = [t \in Tag |-> {}]

Serve(w, op, t, loaded, edited) ==
    /\ request[w] = Idle
    /\ request' = [request EXCEPT ![w] =
                      [op |-> op, tag |-> t, loaded |-> loaded, edited |-> edited]]
    /\ UNCHANGED <<live, tags, retired, claims, issued>>

\* new_token(32): 256 random bits, never seen before.
Mint(c) == c \in Code \ minted /\ minted' = minted \cup {c}

\* The tags a request is about.
Subjects(r) ==
    CASE r.op \in {"create", "update", "rotate", "delete"} -> {r.tag}
      [] r.op = "take" -> DOMAIN r.codeOf
      [] OTHER -> {}

\* uuid4: an id no row and no pending request has.
FreshId(t) == issued[t] = {} /\ \A w \in Worker : t \notin Subjects(request[w])

\* (Mutants: one tag too many; versions counted from zero.)
UpToLimit == Cardinality(live) <= MaxTags
FirstRowAtZero(c) == [code |-> c, version |-> 0, block |-> FALSE]

\* create_tag: the limit is read from the tags the owner has now.
BelowLimit == Cardinality(live) < MaxTags

FirstRow(c) == [code |-> c, version |-> 1, block |-> FALSE]

BeginCreate(w) ==
    /\ BelowLimit
    /\ \E t \in Tag, c \in Code :
         FreshId(t) /\ Mint(c) /\ Serve(w, "create", t, FirstRow(c), FirstRow(c))

\* update_tag: block_retired_tokens is the one field of it that concerns codes.
BeginUpdate(w, t) ==
    /\ \E block \in BOOLEAN : Serve(w, "update", t, tags[t], [tags[t] EXCEPT !.block = block])
    /\ UNCHANGED minted

\* (Mutant: the block stays on.)
RotatedBlocked(row, c) == [row EXCEPT !.code = c, !.version = @ + 1]

\* rotate_token: the new code takes over and the block is lifted.
Rotated(row, c) == [code |-> c, version |-> row.version + 1, block |-> FALSE]

BeginRotate(w, t) ==
    \E c \in Code : Mint(c) /\ Serve(w, "rotate", t, tags[t], Rotated(tags[t], c))

BeginDelete(w, t) == Serve(w, "delete", t, tags[t], tags[t]) /\ UNCHANGED minted

\* issue, an INSERT of a code of its own.
IssueClaim ==
    \E c \in Code :
        /\ Mint(c)
        /\ claims' = [d \in DOMAIN claims \cup {c} |-> IF d = c THEN "open" ELSE claims[d]]
        /\ UNCHANGED <<live, tags, retired, request, issued>>

Loads(w, r) ==
    /\ request[w] = Idle
    /\ request' = [request EXCEPT ![w] = r]
    /\ UNCHANGED <<live, tags, retired, claims, minted, issued>>

\* list_tags and create_user: every open claim becomes a tag (materialise), and
\* nobody counts the tags there are.
BeginTake(w) ==
    \E ids \in SUBSET {t \in Tag : FreshId(t)} : \E codeOf \in [ids -> Open] :
        /\ ids # {}
        /\ \A c \in Open : \E t \in ids : codeOf[t] = c
        /\ \A t, u \in ids : codeOf[t] = codeOf[u] => t = u
        /\ Loads(w, [op |-> "take", codeOf |-> codeOf])

\* withdraw_claim
BeginWithdraw(w) == \E c \in Open : Loads(w, [op |-> "withdraw", code |-> c])

-----------------------------------------------------------------------------
(* ... and what they commit.  An UPDATE of a row that has gone is refused
   (StaleDataError) and a DELETE of one does nothing, so each of them needs the
   tag to be live; otherwise the request ends as in Rollback. *)

Respond(w) == request' = [request EXCEPT ![w] = Idle] /\ UNCHANGED minted

\* (Mutant: a code may be retired twice.)
MayRetireAgain(c) == c \in Code

Save(r) == tags' = [tags EXCEPT ![r.tag] = Flushed(tags[r.tag], r.loaded, r.edited)]

CommitCreate(w) ==
    LET r == request[w] IN
    /\ r.op = "create"
    /\ live' = live \cup {r.tag}
    /\ tags' = [t \in live' |-> IF t = r.tag THEN r.edited ELSE tags[t]]
    /\ issued' = [issued EXCEPT ![r.tag] = {r.edited.code}]
    /\ Respond(w)
    /\ UNCHANGED <<retired, claims>>

CommitUpdate(w) ==
    LET r == request[w] IN
    /\ r.op = "update" /\ r.tag \in live
    /\ Save(r)
    /\ Respond(w)
    /\ UNCHANGED <<live, retired, claims, issued>>

\* The outgoing code is inserted as a retired code: the unique index refuses
\* the second of two rotations that loaded the same one.
MayRetire(c) == c \notin DOMAIN retired

CommitRotate(w) ==
    LET r == request[w] IN
    /\ r.op = "rotate" /\ r.tag \in live
    /\ MayRetire(r.loaded.code)
    /\ retired' = [c \in DOMAIN retired \cup {r.loaded.code} |->
                      IF c = r.loaded.code THEN r.tag ELSE retired[c]]
    /\ Save(r)
    /\ issued' = [issued EXCEPT ![r.tag] = @ \cup {r.edited.code}]
    /\ Respond(w)
    /\ UNCHANGED <<live, claims>>

\* A hard delete; the retired codes go with the tag (delete-orphan, ON DELETE CASCADE).
CommitDelete(w) ==
    LET r == request[w] IN
    /\ r.op = "delete" /\ r.tag \in live
    /\ live' = live \ {r.tag}
    /\ tags' = [t \in live' |-> tags[t]]
    /\ retired' = [c \in {d \in DOMAIN retired : retired[d] # r.tag} |-> retired[c]]
    /\ Respond(w)
    /\ UNCHANGED <<claims, issued>>

\* The unique index on tags.token_hash refuses a code that is a tag's now.
IsFree(c) == \A t \in live : tags[t].code # c

\* materialise: all of the claims or none.  The UPDATE that marks a claim as taken
\* needs its row, and asks nothing of it: a claim that another list has taken
\* meanwhile is taken again if its code is free again.
CommitTake(w) ==
    LET codeOf == request[w].codeOf
        taken == {codeOf[t] : t \in DOMAIN codeOf} IN
    /\ request[w].op = "take"
    /\ \A c \in taken : claims[c] # "gone" /\ IsFree(c)
    /\ live' = live \cup DOMAIN codeOf
    /\ tags' = [t \in live' |-> IF t \in DOMAIN codeOf THEN FirstRow(codeOf[t]) ELSE tags[t]]
    /\ claims' = [c \in DOMAIN claims |-> IF c \in taken THEN "taken" ELSE claims[c]]
    /\ issued' = [t \in Tag |-> IF t \in DOMAIN codeOf THEN {codeOf[t]} ELSE issued[t]]
    /\ Respond(w)
    /\ UNCHANGED retired

\* The DELETE is by id: it takes the row of a claim that was taken meanwhile too.
CommitWithdraw(w) ==
    LET r == request[w] IN
    /\ r.op = "withdraw" /\ claims[r.code] # "gone"
    /\ claims' = [claims EXCEPT ![r.code] = "gone"]
    /\ Respond(w)
    /\ UNCHANGED <<live, tags, retired, issued>>

\* A refused commit, or a worker killed before it: the transaction rolls back.
Rollback(w) ==
    /\ request[w] # Idle
    /\ Respond(w)
    /\ UNCHANGED <<live, tags, retired, claims, issued>>

Requests ==
    \E w \in Worker :
      \/ BeginCreate(w) \/ BeginTake(w) \/ BeginWithdraw(w)
      \/ \E t \in live : BeginUpdate(w, t) \/ BeginRotate(w, t) \/ BeginDelete(w, t)
      \/ CommitCreate(w) \/ CommitUpdate(w) \/ CommitRotate(w) \/ CommitDelete(w)
      \/ CommitTake(w) \/ CommitWithdraw(w) \/ Rollback(w)

Next == Requests \/ IssueClaim

Spec == Init /\ [][Next]_vars

-----------------------------------------------------------------------------
(* Properties *)

\* Where a code that was handed out for a tag leads, if all is well.
Expected(t, c) ==
    IF t \notin live THEN NotFound
    ELSE IF c = tags[t].code THEN Answer(t, FALSE)
    ELSE IF tags[t].block THEN NotFound
    ELSE Answer(t, TRUE)

\* Two lists that overlapped have made two tags of one claim: the first of them
\* lost its code, to a rotation or by its deletion, before the second committed.
TakenTwice(t, c) == c \in DOMAIN claims /\ \E u \in Tag \ {t} : c \in issued[u]

\* Every code ever handed out for a tag leads to that tag and to no other, for
\* as long as the tag exists: as the current code, or as a retired one unless
\* the owner blocks those.  A code of a deleted tag leads nowhere.  (_lookup of
\* scan.py; rotation "goes on resolving", tags.py:269-272.)
CodesLeadToTheirTag ==
    \A t \in Tag : \A c \in issued[t] : Lookup(c) = Expected(t, c) \/ TakenTwice(t, c)

\* token_version counts the codes of a tag: `token_version += 1` is a read, an
\* addition and a write, and still no rotation is lost between two workers.
VersionCountsCodes ==
    \A t \in live : tags[t].version = Cardinality(issued[t])

\* A rotation leaves the block on only if it was put on while the rotation was
\* under way: the printed code has just become a retired one, and "leaving the
\* block set would strand the tag" (rotate_token, tags.py:264-267).
RotationStrandsOnlyByRace ==
    [][\A t \in live \cap live' :
          tags'[t].version > tags[t].version /\ tags'[t].block =>
              \E w \in Worker :
                  LET r == request[w] IN
                  r # Idle /\ r.op = "rotate" /\ r.tag = t /\ ~r.loaded.block]_vars

\* The live tags that the owner created, which no claim became.
Created == {t \in live : issued[t] \cap DOMAIN claims = {}}

\* "You can have up to MAX_TAGS_PER_USER tags" (create_tag, tags.py:140-145):
\* the limit is checked without a lock, and still the tags the owner creates exceed
\* it by no more than one for every worker but one, whatever is created, deleted
\* and taken of claims meanwhile.  Tags that claims become are not limited at all.
TagLimit == Cardinality(Created) < MaxTags + Cardinality(Worker)

\* The words of that answer, taken to be about all the tags there are.
EveryTagIsLimited == Cardinality(live) <= MaxTags

\* "Not registered" is shown for "a code that never existed, a deleted tag, a
\* rotated code, and a deleted account alike" (docs/index.html:556).
OnlyCurrentCodesResolve ==
    \A t \in live : \A c \in issued[t] \ {tags[t].code} : Lookup(c) = NotFound

=============================================================================
