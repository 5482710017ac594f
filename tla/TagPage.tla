------------------------------- MODULE TagPage -------------------------------
(***************************************************************************)
(* The owner's page of one tag (web/src/pages/TagDetail.tsx), with the     *)
(* NFC card on it (components/NfcCard.tsx, lib/nfc.ts), the watch notice   *)
(* and the icon picker, against the handlers of api/tags.py it calls.      *)
(*                                                                         *)
(* Three parts of the page work at the same time: the settings and the new *)
(* code, which share the flag busy; the NFC card, with a phase of its own; *)
(* the delete button.  Each sends calls that the server serves in any      *)
(* order and whose answers arrive in any order.  The stickers are          *)
(* physical: each time the phone looks for one, any of them may be there.  *)
(* A request is one step of the server here; what happens inside one is    *)
(* the subject of TagCodes, ScanLog and Relay.                             *)
(***************************************************************************)
EXTENDS Naturals, FiniteSets, Api

CONSTANTS
    Chip,      \* stickers the owner may hold to the phone
    NoChip,    \* no chip
    Field,     \* settings of the tag that the page can change
    Verified,  \* user.email_verified
    Links,     \* bound: how the chips are linked to begin with
    MaxCalls,  \* bound: changes, deletions and new codes asked for
    MaxCard,   \* bound: calls of the NFC card
    MaxLost    \* bound: calls that fail on the way

\* Whose tag a chip is linked to: this page's, another of the owner's, another
\* account's, nobody's.
Party == {"here", "there", "other", "nobody"}

\* nfc_uid_bidx is one column of a tag: of the owner's two tags, each has at
\* most one chip.
OneChipPerTag(h) ==
    \A c, d \in Chip : h[c] = h[d] /\ h[c] \in {"here", "there"} => c = d

ASSUME TagPageAssumption ==
    /\ "status" \in Field
    /\ NoChip \notin Chip
    /\ Verified \in BOOLEAN
    /\ Links \subseteq {h \in [Chip -> Party] : OneChipPerTag(h)}
    /\ {MaxCalls, MaxCard, MaxLost} \subseteq Nat

VARIABLES
    row,      \* server: the tag's settings, the version of its code, whether it is deleted
    holder,   \* server: nfc_uid_bidx, read backwards: whose tag each chip is linked to
    sticker,  \* the link written on each chip
    calls,    \* calls in flight
    late,     \* calls given up on by the browser that the server may still serve
    made,     \* number of calls made, by part of the page, and of those lost
    page,     \* state of TagDetail
    card,     \* state of NfcCard
    doubt     \* history: the answer the page shows may not be the last one

vars == <<row, holder, sticker, calls, late, made, page, card, doubt>>

\* A link as a sticker carries it.  Only this tag's code has versions here.
Url == [to : Party, code : Nat]
Blank == [to |-> "nobody", code |-> 0]
LinkTo(v) == [to |-> "here", code |-> v]

\* A tag as the API returns it.
Tag == [set : [Field -> 0..1], code : Nat, linked : BOOLEAN]
Serialize(r, h) ==
    [set |-> r.set, code |-> r.code, linked |-> \E c \in Chip : h[c] = "here"]

NoTag == [set |-> [f \in Field |-> 0], code |-> 0, linked |-> FALSE]

\* scan_url
ScanUrl(tag) == LinkTo(tag.code)

\* useState of TagDetail.  at leaves "tag" when the page is left.
PageState ==
    [at : {"tag", "list"}, tag : Tag, loaded : BOOLEAN,
     busy : BOOLEAN, deleting : BOOLEAN]

\* useState of NfcCard and the local variables of its handlers.  supported is
\* nfcSupported().  asked and strayed are history: the last question the owner
\* agreed to, and whether a late call was served since the handler began.
CardState ==
    [supported : BOOLEAN, phase : {"idle", "waiting", "working"},
     step : {"none", "read", "bind", "ask", "rebind", "write", "look", "unlink"},
     goal : {"write", "typed", "verify", "unlink"},
     chip : Chip \cup {NoChip}, url : Url, want : Url,
     question : {"none", "nfc_chip_on_other_tag", "nfc_tag_has_other_chip", "unlink"},
     asked : {"none", "nfc_chip_on_other_tag", "nfc_tag_has_other_chip", "unlink"},
     strayed : BOOLEAN, result : {"none", "done", "info", "warn", "error"}]

\* The parts of the page whose answers replace the tag on it.
Writers == {"page", "card"}

TypeOK ==
    /\ row \in [set : [Field -> 0..1], code : Nat, gone : BOOLEAN]
    /\ holder \in [Chip -> Party]
    /\ OneChipPerTag(holder)
    /\ sticker \in [Chip -> Url]
    /\ page \in PageState
    /\ card \in CardState
    \* Exactly one handler of the settings runs when they are disabled.
    /\ page.busy <=> Cardinality(InFlight(calls, {"page"})) = 1
    /\ (card.phase = "idle") <=> (card.step = "none")
    /\ Cardinality(InFlight(calls, {"card"})) <= 1
    /\ \A c \in late : c.who = "nobody"

-----------------------------------------------------------------------------
(* The server: the handlers of api/tags.py, each in one step. *)

\* The answer goes to who waits for it.  To a late call nobody does, and what it
\* did crosses the calls in flight.
Reply(c, out, body) ==
    calls' = IF c \in calls THEN (calls \ {c}) \cup {Served(c, out, body)}
             ELSE {[d EXCEPT !.crossed = TRUE] : d \in calls}

\* Mutant: the chip this tag has already is not looked at.
BindRefusalForOther(c, replace) ==
    IF holder[c] = "other" THEN "nfc_chip_claimed"
    ELSE IF ~replace /\ holder[c] = "there" THEN "nfc_chip_on_other_tag"
    ELSE "none"

\* bind_nfc's refusals, in the order it looks for them.
BindRefusal(c, replace) ==
    IF holder[c] = "other" THEN "nfc_chip_claimed"
    ELSE IF replace THEN "none"
    ELSE IF holder[c] = "there" THEN "nfc_chip_on_other_tag"
    ELSE IF \E d \in Chip \ {c} : holder[d] = "here" THEN "nfc_tag_has_other_chip"
    ELSE "none"

\* nfc_uid_bidx after bind_nfc.
Bound(chip) ==
    [d \in Chip |-> IF d = chip THEN "here"
                    ELSE IF holder[d] = "here" THEN "nobody" ELSE holder[d]]

\* bind_nfc: the chip leaves the owner's other tag, and this tag its old chip.
ServeBind(c) ==
    LET chip == c.arg.chip
        refusal == BindRefusal(chip, c.what = "rebind")
        bound == Bound(chip) IN
    IF refusal # "none"
    THEN /\ Reply(c, refusal, c.body)
         /\ UNCHANGED <<row, holder>>
    ELSE /\ holder' = bound
         /\ Reply(c, "ok", Serialize(row, bound))
         /\ UNCHANGED row

\* unbind_nfc
ServeUnbind(c) ==
    /\ holder' = [d \in Chip |-> IF holder[d] = "here" THEN "nobody" ELSE holder[d]]
    /\ Reply(c, "ok", Serialize(row, holder'))
    /\ UNCHANGED row

\* update_tag, rotate_token (which switches old codes back on) and read_tag.
Patched(c) ==
    CASE c.what = "get" -> row
      [] c.what = "patch" -> [row EXCEPT !.set[c.arg.field] = c.arg.value]
      [] c.what = "rotate" ->
            [row EXCEPT !.code = @ + 1,
                        !.set = [f \in Field |-> IF f = "block_retired_tokens" THEN 0 ELSE @[f]]]

ServeTag(c) ==
    /\ row' = Patched(c)
    /\ Reply(c, "ok", Serialize(row', holder))
    /\ UNCHANGED holder

\* delete_tag: the row goes, and the chip with it.
ServeDelete(c) ==
    /\ row' = [row EXCEPT !.gone = TRUE]
    /\ holder' = [d \in Chip |-> IF holder[d] = "here" THEN "nobody" ELSE holder[d]]
    /\ Reply(c, "ok", c.body)

\* lookup_nfc
ServeLookup(c) ==
    /\ Reply(c, holder[c.arg.chip], Serialize(row, holder))
    /\ UNCHANGED <<row, holder>>

\* owned_tag: nothing is found of a tag that was deleted.
ServeMissing(c) ==
    /\ row.gone /\ c.what # "lookup"
    /\ Reply(c, "not_found", c.body)
    /\ UNCHANGED <<row, holder>>

Request(c) ==
    /\ page.at = "tag" /\ c.out = "pending"
    /\ \/ ServeMissing(c)
       \/ c.what = "lookup" /\ ServeLookup(c)
       \/ /\ ~row.gone
          /\ \/ c.what \in {"bind", "rebind"} /\ ServeBind(c)
             \/ c.what = "unbind" /\ ServeUnbind(c)
             \/ c.what \in {"get", "patch", "rotate"} /\ ServeTag(c)
             \/ c.what = "delete" /\ ServeDelete(c)
    /\ UNCHANGED <<sticker, made, page>>

Serve(c) == Request(c) /\ UNCHANGED <<card, doubt>>

\* A request that arrives after fetch has rejected.
ServeLate(c) ==
    /\ Request(c)
    /\ late' = late \ {c}
    /\ doubt' = TRUE
    /\ card' = [card EXCEPT !.strayed = card.phase # "idle"]

-----------------------------------------------------------------------------
(* The page: what it offers, sends, and does with an answer. *)

NoArg == [field |-> "status", value |-> 0, chip |-> NoChip, asked |-> "none"]

\* api.get/post/patch/delete: the call is on its way.
Call(who, what, arg) ==
    /\ IF who = "card" THEN made["card"] < MaxCard ELSE made["page"] + made["delete"] < MaxCalls
    /\ made' = [made EXCEPT ![who] = @ + 1]
    /\ calls' = Send(calls, Sent(made[who], who, what, arg, NoTag), Writers)

\* What the rest of the page can do is drawn only once the tag is there.
Drawn == page.at = "tag" /\ page.loaded

\* Mutant: the controls are not disabled while a change is under way.
OfferedAlways(f, v) == Drawn /\ v # page.tag.set[f] /\ (f = "status" /\ v = 1 => Verified)

\* The settings that are enabled: every control is disabled while busy, a tag
\* is reported lost only under a confirmed address, and a label is saved when
\* it differs.  The watch notice can only switch old codes off.
Offered(f, v) ==
    /\ Drawn /\ ~page.busy
    /\ v # page.tag.set[f]
    /\ f = "status" /\ v = 1 => Verified
    /\ f = "block_retired_tokens" => v = 1

\* patch
Patch(f, v) ==
    /\ Offered(f, v)
    /\ Call("page", "patch", [NoArg EXCEPT !.field = f, !.value = v])
    /\ page' = [page EXCEPT !.busy = TRUE]
    /\ UNCHANGED <<row, holder, sticker, card, doubt>>

\* rotate, once the owner has confirmed it.
Rotate ==
    /\ Drawn /\ ~page.busy
    /\ Call("page", "rotate", NoArg)
    /\ page' = [page EXCEPT !.busy = TRUE]
    /\ UNCHANGED <<row, holder, sticker, card, doubt>>

\* remove, once confirmed.  Nothing says it is under way until it has succeeded.
Remove ==
    /\ Drawn /\ ~page.deleting
    /\ Call("delete", "delete", NoArg)
    /\ UNCHANGED <<row, holder, sticker, page, card, doubt>>

\* An answer that crossed another, or that never came, leaves the page behind.
Doubtful(c) == c.crossed \/ c.out = "network_error"

\* load: the tag and its scans have both arrived.  A failure is final.
LoadAnswer(c) ==
    /\ c.who = "load"
    /\ page' = IF c.out = "ok" THEN [page EXCEPT !.loaded = TRUE, !.tag = c.body]
                               ELSE page
    /\ UNCHANGED <<card, doubt>>

\* The rest of patch and of rotate.
PageAnswer(c) ==
    /\ c.who = "page"
    /\ page' = [page EXCEPT !.busy = FALSE, !.tag = IF c.out = "ok" THEN c.body ELSE @]
    /\ doubt' = IF c.out = "not_found" THEN doubt ELSE Doubtful(c)
    /\ UNCHANGED card

\* The rest of remove: the page folds away.
RemoveAnswer(c) ==
    /\ c.who = "delete"
    /\ page' = [page EXCEPT !.deleting = @ \/ c.out = "ok"]
    /\ UNCHANGED <<card, doubt>>

\* ... and its timer leaves for the list, 420 ms later.
FoldAway ==
    /\ page.at = "tag" /\ page.deleting
    /\ page' = [page EXCEPT !.at = "list"]
    /\ UNCHANGED <<row, holder, sticker, calls, made, card, doubt>>

-----------------------------------------------------------------------------
(* The NFC card. *)

\* A handler starts; the notice of the last one goes.
Start(goal, phase, step) ==
    [card EXCEPT !.goal = goal, !.phase = phase, !.step = step, !.result = "none",
                 !.chip = NoChip, !.url = Blank, !.want = Blank, !.question = "none",
                 !.asked = "none", !.strayed = FALSE]

\* finally: whatever happened, the card is idle again, under its notice.
Finish(result) == [Start("verify", "idle", "none") EXCEPT !.result = result]

CardIdle == Drawn /\ card.phase = "idle"

\* write: the link is the one the page showed when the button was pressed.
StartWrite ==
    /\ CardIdle /\ card.supported
    /\ card' = [Start("write", "waiting", "read") EXCEPT !.want = ScanUrl(page.tag)]
    /\ UNCHANGED <<row, holder, sticker, calls, made, page, doubt>>

\* verify
StartVerify ==
    /\ CardIdle /\ card.supported
    /\ card' = Start("verify", "waiting", "read")
    /\ UNCHANGED <<row, holder, sticker, calls, made, page, doubt>>

\* WriteElsewhere: a serial read in another app and typed in.
StartTyped(chip) ==
    /\ CardIdle /\ ~card.supported
    /\ Call("card", "bind", [NoArg EXCEPT !.chip = chip])
    /\ card' = [Start("typed", "working", "bind") EXCEPT !.chip = chip]
    /\ UNCHANGED <<row, holder, sticker, page, doubt>>

\* unlink, once confirmed.
StartUnlink ==
    /\ CardIdle /\ page.tag.linked
    /\ Call("card", "unbind", [NoArg EXCEPT !.asked = "unlink"])
    /\ card' = [Start("unlink", "working", "unlink") EXCEPT !.asked = "unlink"]
    /\ UNCHANGED <<row, holder, sticker, page, doubt>>

\* readChip: a chip is there, and its serial goes to the server.
ReadChip(chip) ==
    /\ page.at = "tag" /\ card.step = "read"
    /\ LET writes == card.goal = "write" IN
       /\ Call("card", IF writes THEN "bind" ELSE "lookup", [NoArg EXCEPT !.chip = chip])
       /\ card' = [card EXCEPT !.chip = chip, !.url = sticker[chip], !.phase = "working",
                               !.step = IF writes THEN "bind" ELSE "look"]
    /\ UNCHANGED <<row, holder, sticker, page, doubt>>

\* readingerror, a refusal of the browser, or TIMEOUT_MS: readChip and writeUrl
\* throw an NfcError.
ChipFails ==
    /\ page.at = "tag" /\ card.step \in {"read", "write"}
    /\ card' = Finish("error")
    /\ UNCHANGED <<row, holder, sticker, calls, made, page, doubt>>

\* writeUrl: to the sticker at the phone, whichever that is by now.
WriteChip(chip) ==
    /\ page.at = "tag" /\ card.step = "write"
    /\ sticker' = [sticker EXCEPT ![chip] = card.want]
    /\ card' = Finish("done")
    /\ UNCHANGED <<row, holder, calls, made, page, doubt>>

\* Mutant: a sticker that carries any link is taken to be written.
LinkedIfBlank ==
    IF card.goal = "typed" THEN Finish("info")
    ELSE IF card.url = Blank THEN [card EXCEPT !.phase = "waiting", !.step = "write"]
    ELSE Finish("done")

\* The card once link has returned a tag: write what is not on the chip yet.
Linked ==
    IF card.goal = "typed" THEN Finish("info")
    ELSE IF card.url # card.want THEN [card EXCEPT !.phase = "waiting", !.step = "write"]
    ELSE Finish("done")

Confirmable == {"nfc_chip_on_other_tag", "nfc_tag_has_other_chip"}

\* link: the server's answer to the serial, asking first where it wants that.
BindAnswer(c) ==
    /\ card.step \in {"bind", "rebind"}
    /\ IF c.out = "ok"
       THEN card' = Linked /\ page' = [page EXCEPT !.tag = c.body]
       ELSE /\ UNCHANGED page
            /\ card' = IF card.step = "bind" /\ c.out \in Confirmable
                       THEN [card EXCEPT !.step = "ask", !.question = c.out]
                       ELSE Finish("error")

\* window.confirm in link.
Agree ==
    /\ page.at = "tag" /\ card.step = "ask"
    /\ Call("card", "rebind", [NoArg EXCEPT !.chip = card.chip, !.asked = card.question])
    /\ card' = [card EXCEPT !.step = "rebind", !.asked = card.question]
    /\ UNCHANGED <<row, holder, sticker, page, doubt>>

\* Mutant: the handler goes on after the owner has declined.
DeclineThenWrite ==
    /\ page.at = "tag" /\ card.step = "ask"
    /\ card' = [card EXCEPT !.phase = "waiting", !.step = "write"]
    /\ UNCHANGED <<row, holder, sticker, calls, made, page, doubt>>

Decline ==
    /\ page.at = "tag" /\ card.step = "ask"
    /\ card' = Finish("info")
    /\ UNCHANGED <<row, holder, sticker, calls, made, page, doubt>>

\* What verify says of a chip, in the order it asks.
Verdict(c) ==
    LET url == IF c.out = "here" THEN ScanUrl(c.body) ELSE [to |-> "there", code |-> 0] IN
    CASE c.out = "nobody" -> "warn"
      [] c.out \in {"here", "there"} -> IF card.url # url THEN "warn" ELSE "info"
      [] OTHER -> "error"

\* Mutant: an answer that fails leaves the phase as it is.
LookAnswerStuck(c) ==
    /\ card.step = "look"
    /\ card' = IF c.out = "network_error" THEN card ELSE Finish(Verdict(c))
    /\ UNCHANGED page

LookAnswer(c) ==
    /\ card.step = "look"
    /\ card' = Finish(Verdict(c))
    /\ UNCHANGED page

UnlinkAnswer(c) ==
    /\ card.step = "unlink"
    /\ card' = Finish(IF c.out = "ok" THEN "info" ELSE "error")
    /\ page' = [page EXCEPT !.tag = IF c.out = "ok" THEN c.body ELSE @]

CardAnswer(c) ==
    /\ c.who = "card"
    /\ BindAnswer(c) \/ LookAnswer(c) \/ UnlinkAnswer(c)
    /\ doubt' = IF c.out = "ok" \/ c.out = "network_error" THEN Doubtful(c) ELSE doubt

-----------------------------------------------------------------------------

\* What the page does with the outcome of a call.
Handle(c) == LoadAnswer(c) \/ PageAnswer(c) \/ RemoveAnswer(c) \/ CardAnswer(c)

\* The server's answer arrives.  A page that was left takes none.
Take(c) ==
    /\ page.at = "tag" /\ c.out # "pending"
    /\ Handle(c)
    /\ calls' = calls \ {c}
    /\ UNCHANGED <<row, holder, sticker, made>>

\* Nobody waits for it any more.
GivenUp(c) == [c EXCEPT !.who = "nobody"]

\* fetch rejects.  The server has served the call, or it may yet.
Drop(c) ==
    /\ page.at = "tag" /\ made["lost"] < MaxLost
    /\ made' = [made EXCEPT !["lost"] = @ + 1]
    /\ Handle(Lost(c))
    /\ calls' = calls \ {c}
    /\ late' = IF c.out = "pending" /\ c.what \notin {"get", "lookup"}
               THEN late \cup {GivenUp(c)} ELSE late
    /\ UNCHANGED <<row, holder, sticker>>

Init ==
    /\ row = [set |-> [f \in Field |-> 0], code |-> 0, gone |-> FALSE]
    /\ holder \in Links
    /\ sticker = [c \in Chip |-> [to |-> holder[c], code |-> 0]]
    /\ calls = {Sent(0, "load", "get", NoArg, Serialize(row, holder))}
    /\ late = {}
    /\ made = [who \in {"page", "card", "delete", "lost"} |-> 0]
    /\ page = [at |-> "tag", tag |-> Serialize(row, holder), loaded |-> FALSE,
               busy |-> FALSE, deleting |-> FALSE]
    /\ \E s \in BOOLEAN :
       card = [supported |-> s, phase |-> "idle", step |-> "none", goal |-> "verify",
               chip |-> NoChip, url |-> Blank, want |-> Blank, question |-> "none",
               asked |-> "none", strayed |-> FALSE, result |-> "none"]
    /\ doubt = FALSE

Owner ==
    \/ \E f \in Field, v \in 0..1 : Patch(f, v)
    \/ Rotate \/ Remove
    \/ StartWrite \/ StartVerify \/ StartUnlink
    \/ \E chip \in Chip : StartTyped(chip)

Answer == Agree \/ Decline

Phone ==
    \/ \E chip \in Chip : ReadChip(chip) \/ WriteChip(chip)
    \/ ChipFails \/ FoldAway

Answers(c) == Serve(c) \/ Take(c)

Next ==
    \/ (Owner \/ Answer \/ Phone \/ \E c \in calls : Answers(c)) /\ UNCHANGED late
    \/ \E c \in calls : Drop(c)
    \/ \E c \in late : ServeLate(c)

Spec == Init /\ [][Next]_vars

\* A call is served and its answer taken, unless it fails; the timers of nfc.ts and
\* of remove run out; a modal question is answered.
Fairness ==
    /\ WF_vars((\E c \in calls : Serve(c)) /\ UNCHANGED late)
    /\ WF_vars((\E c \in calls : Take(c)) /\ UNCHANGED late)
    /\ WF_vars(ChipFails /\ UNCHANGED late)
    /\ WF_vars(FoldAway /\ UNCHANGED late)
    /\ WF_vars(Decline /\ UNCHANGED late)

FairSpec == Spec /\ Fairness

-----------------------------------------------------------------------------
(* Properties. *)

\* When nothing is in flight the page shows the tag as the server has it: no
\* answer of an earlier change is shown over that of a later one.  Not so once
\* an answer was lost, a request given up on was served after all, or a change of
\* the NFC card crossed one of the settings, which nothing keeps apart: from then
\* on until a later answer, sent after all that, is on the page.
PageShowsTheRow ==
    page.at = "tag" /\ page.loaded /\ ~doubt /\ ~row.gone
    /\ InFlight(calls, Writers) = {}
        => page.tag = Serialize(row, holder)

\* "Done" is said only of a chip that is linked to this tag and opens it: the
\* one that was read is linked, and it carries the code the tag has, or another
\* does that took its place before the write.  Excused are a code rotated, a
\* tag deleted and a request given up on that is served meanwhile.
DoneMeansItOpens ==
    [][(card'.result = "done" /\ card.result # "done" /\ ~card.strayed
        /\ card.want = LinkTo(row.code) /\ ~row.gone)
        => /\ holder[card.chip] = "here"
           /\ \/ sticker'[card.chip] = card.want
              \/ card.step = "write" /\ \E c \in Chip \ {card.chip} : sticker'[c] = card.want]_vars

\* What the owner was asked before what the server does now: by the handler that
\* waits for it, or by the one that gave up on it.
Asked == {c.arg.asked : c \in late \ late'} \cup (IF late' = late THEN {card.asked} ELSE {})

\* A chip leaves a tag of the owner's only after a question about it: the tag it
\* was on, or the tag it is displaced from, however late the request is served.
\* A chip that was on another tag may displace this tag's own, of which nothing
\* is asked: the second attempt overrides both refusals.
NoStickerTakenUnasked ==
    [][\A c \in Chip :
        /\ (holder[c] = "there" /\ holder'[c] # "there" => "nfc_chip_on_other_tag" \in Asked)
        /\ (holder[c] = "here" /\ holder'[c] # "here" /\ ~row'.gone
            => Asked \ {"none"} # {})]_vars

\* A sticker is written only when it is linked to this tag: nothing is written
\* to one the owner was refused, or declined to take.  Excused are a
\* sticker swapped for another between the reading and the writing, and a request
\* given up on that is served in between.
OnlyLinkedStickersAreWritten ==
    [][\A c \in Chip : sticker'[c] # sticker[c] /\ c = card.chip
        => holder[c] = "here" \/ row.gone \/ card.strayed]_vars

\* The NFC card never stays busy: every handler ends.
CardComesBack == (card.phase # "idle") ~> (card.phase = "idle" \/ page.at = "list")

=============================================================================
