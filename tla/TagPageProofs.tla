---------------------------- MODULE TagPageProofs -----------------------------
(***************************************************************************)
(* Proofs about TagPage, for any stickers and settings and any number of   *)
(* calls: what the page shows once its calls are answered, and what the    *)
(* NFC card does to stickers, in whatever order the server serves the      *)
(* calls and the answers arrive.                                           *)
(***************************************************************************)
EXTENDS TagPage, FiniteSetTheorems, TLAPS

\* What is said of a call, but for a failure of the network.
Outs ==
    {"pending", "ok", "not_found", "nfc_chip_claimed", "nfc_chip_on_other_tag",
     "nfc_tag_has_other_chip"} \cup Party

\* What the owner may be asked, and may have agreed to.
Questions == {"none", "nfc_chip_on_other_tag", "nfc_tag_has_other_chip", "unlink"}

Calls ==
    [id : Nat, who : {"load", "page", "card", "delete"},
     what : {"get", "patch", "rotate", "bind", "rebind", "lookup", "unbind", "delete"},
     arg : [field : Field, value : 0..1, chip : Chip \cup {NoChip}, asked : Questions],
     out : Outs, body : Tag, crossed : BOOLEAN]

\* Everything has its type.
Typed ==
    /\ row \in [set : [Field -> 0..1], code : Nat, gone : BOOLEAN]
    /\ holder \in [Chip -> Party] /\ OneChipPerTag(holder)
    /\ sticker \in [Chip -> Url]
    /\ calls \in SUBSET Calls
    /\ made \in [{"page", "card", "delete", "lost"} -> Nat]
    /\ page \in PageState /\ card \in CardState
    /\ doubt \in BOOLEAN
    /\ (card.phase = "idle") <=> (card.step = "none")

\* The call that a step of the NFC card waits for.
CallOf == [bind |-> "bind", rebind |-> "rebind", look |-> "lookup", unlink |-> "unbind"]

\* The settings and the card each wait for one call at most, and know which; what
\* each asks for, and what it may be told.
CallsAreKnown ==
    /\ \A c, d \in calls : c.who = d.who /\ c.who # "delete" => c = d
    /\ page.busy <=> \E c \in calls : c.who = "page"
    /\ card.step \in DOMAIN CallOf <=> \E c \in calls : c.who = "card"
    /\ \A c \in calls :
        /\ c.who = "load" => c.what = "get"
        /\ c.who = "page" => c.what \in {"patch", "rotate"} /\ c.out \in {"pending", "ok", "not_found"}
        /\ c.who = "delete" => c.what = "delete"
        /\ c.who = "card" =>
            /\ card.step \in DOMAIN CallOf /\ c.what = CallOf[card.step]
            /\ c.what # "unbind" => c.arg.chip = card.chip
            /\ c.what \in {"rebind", "unbind"} => c.arg.asked = card.asked
            /\ c.what = "lookup" => c.out \in {"pending"} \cup Party
            /\ c.what # "lookup" => c.out \notin Party
        /\ c.out = "not_found" => row.gone

\* Calls of both parts of the page that are in flight together are marked; what
\* an unmarked one has been answered is how things still are.
AnswersAreFresh ==
    \A c \in InFlight(calls, Writers) :
        /\ \A d \in InFlight(calls, Writers) : d.who # c.who => c.crossed
        /\ c.out = "ok" /\ ~c.crossed => row.gone \/ c.body = Serialize(row, holder)

\* Until the tag is loaded nothing can be asked for.
FirstLoad ==
    IF page.loaded
    THEN \A c \in calls : c.who # "load"
    ELSE /\ ~row.gone /\ card.step = "none" /\ page.tag = Serialize(row, holder)
         /\ \A c \in calls : c.who = "load" /\ c.body = Serialize(row, holder)

\* The page shows the tag as it is, unless an answer it waits for says otherwise.
ShowsTheRow ==
    /\ page.loaded /\ ~doubt /\ ~row.gone
    /\ \A c \in InFlight(calls, Writers) : c.out # "ok"
    => page.tag = Serialize(row, holder)

\* A question that matters less is asked only of a chip that is not on the owner's
\* other tag.
Asks(question) ==
    /\ question \in Confirmable
    /\ holder[card.chip] = "there" => question = "nfc_chip_on_other_tag"

\* The card's chip, from its reading to the end of the handler.
CardIsKnown ==
    /\ card.step \in {"bind", "ask", "rebind", "write", "look"} => card.chip \in Chip
    /\ card.step \in {"bind", "ask", "rebind"} => card.goal \in {"write", "typed"}
    /\ card.step \in {"bind", "ask", "rebind"} /\ card.goal = "write" =>
            card.url = sticker[card.chip]
    /\ card.step = "ask" => Asks(card.question)
    /\ card.step = "rebind" => Asks(card.asked)
    /\ card.step = "unlink" => card.asked = "unlink"
    /\ card.step = "write" => row.gone \/ card.strayed \/ holder[card.chip] = "here"

\* What the server's answers to a serial mean for its chip, until they are taken.
BindsAreKnown ==
    \A c \in calls :
        /\ c.what \in {"bind", "rebind"} /\ c.out = "ok" =>
                row.gone \/ card.strayed \/ holder[c.arg.chip] = "here"
        /\ c.what = "bind" /\ c.out = "nfc_tag_has_other_chip" => holder[c.arg.chip] # "there"

TagPageInv ==
    /\ Typed /\ CallsAreKnown /\ AnswersAreFresh /\ FirstLoad /\ ShowsTheRow
    /\ CardIsKnown /\ BindsAreKnown

-----------------------------------------------------------------------------
(* Records. *)

\* A tag as the API returns it.
LEMMA SerializeTyped ==
    ASSUME NEW r \in [set : [Field -> 0..1], code : Nat, gone : BOOLEAN],
           NEW h \in [Chip -> Party]
    PROVE  Serialize(r, h) \in Tag
<1> DEFINE linked == \E c \in Chip : h[c] = "here"
<1>1. linked \in BOOLEAN
  OBVIOUS
<1>2. Serialize(r, h) = [set |-> r.set, code |-> r.code, linked |-> linked]
  BY DEF Serialize
<1> HIDE DEF linked
<1> QED
  BY <1>1, <1>2 DEF Tag

\* An answer keeps what it answers.
LEMMA ServedCall ==
    ASSUME NEW c \in Calls, NEW out \in Outs, NEW body \in Tag
    PROVE  /\ Served(c, out, body) \in Calls
           /\ Served(c, out, body).out = out /\ Served(c, out, body).body = body
           /\ Served(c, out, body).who = c.who /\ Served(c, out, body).what = c.what
           /\ Served(c, out, body).arg = c.arg /\ Served(c, out, body).crossed = c.crossed
  BY DEF Served, Calls

\* A call marked as crossed by one that is sent.
Marked(d, who) == IF d.who \in Writers \ {who} THEN [d EXCEPT !.crossed = TRUE] ELSE d

\* The mark changes nothing else.
LEMMA MarkedCall ==
    ASSUME NEW d \in Calls, NEW who
    PROVE  /\ Marked(d, who) \in Calls
           /\ Marked(d, who).who = d.who /\ Marked(d, who).what = d.what
           /\ Marked(d, who).arg = d.arg /\ Marked(d, who).out = d.out
           /\ Marked(d, who).body = d.body
           /\ d.crossed => Marked(d, who).crossed
           /\ d.who \in Writers /\ d.who # who => Marked(d, who).crossed
           /\ ~Marked(d, who).crossed => Marked(d, who) = d
<1>1. CASE d.who \in Writers \ {who}
  BY <1>1 DEF Marked, Calls
<1>2. CASE d.who \notin Writers \ {who}
  BY <1>2 DEF Marked
<1> QED
  BY <1>1, <1>2

\* Sending a call marks those it crosses, and itself.
LEMMA SendMarks ==
    ASSUME NEW cs \in SUBSET Calls, NEW n \in Calls, NEW who, n.who = who
    PROVE  \E m \in Calls :
              /\ Send(cs, n, Writers) = {Marked(d, who) : d \in cs} \cup {m}
              /\ m.who = who /\ m.what = n.what /\ m.arg = n.arg /\ m.out = n.out
              /\ m.body = n.body
              /\ \A d \in cs : d.who \in Writers /\ d.who # who => m.crossed
<1> DEFINE others == {d \in cs : d.who \in Writers /\ d.who # who}
           crossed == others # {}
           m == [n EXCEPT !.crossed = crossed]
<1>1. crossed \in BOOLEAN /\ \A d \in cs : d.who \in Writers /\ d.who # who => crossed
  OBVIOUS
<1>2. Send(cs, n, Writers) = (cs \ others) \cup {[d EXCEPT !.crossed = TRUE] : d \in others} \cup {m}
  BY DEF Send
<1>3. (cs \ others) \cup {[d EXCEPT !.crossed = TRUE] : d \in others} = {Marked(d, who) : d \in cs}
  <2>1. \A d \in others : Marked(d, who) = [d EXCEPT !.crossed = TRUE]
    BY DEF Marked
  <2>2. \A d \in cs \ others : Marked(d, who) = d
    BY DEF Marked
  <2>3. others \subseteq cs
    OBVIOUS
  <2> HIDE DEF others
  <2> QED
    BY <2>1, <2>2, <2>3
<1> HIDE DEF crossed, others
<1>4. /\ m \in Calls /\ m.who = who /\ m.what = n.what /\ m.arg = n.arg /\ m.out = n.out
      /\ m.body = n.body /\ (m.crossed <=> crossed)
  BY <1>1 DEF Calls
<1> HIDE DEF m
<1> QED
  BY <1>1, <1>2, <1>3, <1>4

-----------------------------------------------------------------------------
(* A call is sent. *)

Args == [field : Field, value : 0..1, chip : Chip \cup {NoChip}, asked : Questions]

\* A part of the page that waits for nothing sends a call and waits for it; the
\* rest is as it was.
LEMMA SendStep ==
    ASSUME TagPageInv, NEW who \in {"page", "card", "delete"},
           NEW what \in {"patch", "rotate", "bind", "rebind", "lookup", "unbind", "delete"},
           NEW arg \in Args, Call(who, what, arg), page.loaded,
           UNCHANGED <<row, holder, sticker, doubt>>,
           page' \in PageState, page'.tag = page.tag, page'.loaded = page.loaded,
           card' \in CardState, (card'.phase = "idle") <=> (card'.step = "none"),
           CardIsKnown',
           \/ /\ who = "page" /\ what \in {"patch", "rotate"}
              /\ ~page.busy /\ page'.busy /\ card' = card
           \/ who = "delete" /\ what = "delete" /\ page' = page /\ card' = card
           \/ /\ who = "card" /\ page' = page /\ what \notin {"patch", "rotate", "delete"}
              /\ card.step \notin DOMAIN CallOf /\ card'.step \in DOMAIN CallOf
              /\ what = CallOf[card'.step] /\ (what # "unbind" => arg.chip = card'.chip)
              /\ (what \in {"rebind", "unbind"} => arg.asked = card'.asked)
    PROVE  TagPageInv'
<1> DEFINE n == Sent(made[who], who, what, arg, NoTag)
<1>1. /\ NoTag \in Tag /\ calls \in SUBSET Calls
      /\ made \in [{"page", "card", "delete", "lost"} -> Nat]
  BY DEF TagPageInv, Typed, NoTag, Tag
<1>2. /\ n \in Calls /\ n.who = who /\ n.what = what /\ n.arg = arg /\ n.out = "pending"
  <2>1. made[who] \in Nat
    BY <1>1
  <2> QED
    BY <1>1, <2>1 DEF Sent, Calls, Args, Outs
<1>3. calls' = Send(calls, n, Writers)
  BY DEF Call
<1> HIDE DEF n
<1>4. PICK m \in Calls :
        /\ calls' = {Marked(d, who) : d \in calls} \cup {m}
        /\ m.who = who /\ m.what = what /\ m.arg = arg /\ m.out = "pending"
        /\ \A d \in calls : d.who \in Writers /\ d.who # who => m.crossed
  BY SMTT(30), <1>1, <1>2, <1>3, SendMarks
<1>5. \A d \in calls :
        /\ Marked(d, who) \in Calls
        /\ Marked(d, who).who = d.who /\ Marked(d, who).what = d.what
        /\ Marked(d, who).arg = d.arg /\ Marked(d, who).out = d.out
        /\ Marked(d, who).body = d.body
        /\ d.crossed => Marked(d, who).crossed
        /\ d.who \in Writers /\ d.who # who => Marked(d, who).crossed
        /\ ~Marked(d, who).crossed => Marked(d, who) = d
  BY <1>1, MarkedCall
<1>6. \A e \in calls' : e = m \/ \E d \in calls : e = Marked(d, who)
  BY <1>4
<1>7. m \in calls' /\ \A d \in calls : Marked(d, who) \in calls'
  BY <1>4
<1>8. \A d \in calls : who # "delete" => d.who # who
  <2>1. CallsAreKnown
    BY DEF TagPageInv
  <2> QED
    BY <2>1 DEF CallsAreKnown
<1>9. Typed'
  <2>1. calls' \in SUBSET Calls
    BY <1>4, <1>5
  <2>2. made' \in [{"page", "card", "delete", "lost"} -> Nat]
    BY <1>1 DEF Call
  <2> QED
    BY <2>1, <2>2 DEF TagPageInv, Typed, OneChipPerTag
<1>10. CallsAreKnown'
  <2>1. ASSUME NEW e \in calls', NEW f \in calls', e.who = f.who, e.who # "delete"
        PROVE  e = f
    <3>1. CASE e.who = who
      <4>1. \A d \in calls : Marked(d, who).who # who
        BY <1>5, <1>8, <2>1, <3>1
      <4>2. e = m /\ f = m
        BY <1>6, <2>1, <3>1, <4>1
      <4> QED
        BY <4>2
    <3>2. CASE e.who # who
      <4>1. PICK d \in calls : e = Marked(d, who)
        BY <1>4, <1>6, <3>2
      <4>2. PICK g \in calls : f = Marked(g, who)
        BY <1>4, <1>6, <2>1, <3>2
      <4>3. d.who = g.who /\ d.who # "delete"
        BY <1>5, <2>1, <4>1, <4>2
      <4> QED
        BY <4>1, <4>2, <4>3 DEF TagPageInv, CallsAreKnown
    <3> QED
      BY <3>1, <3>2
  <2>2. \A x \in {"page", "card"} :
            (\E e \in calls' : e.who = x) <=> (x = who \/ \E d \in calls : d.who = x)
    BY <1>4, <1>5, <1>6, <1>7
  <2>3. page'.busy <=> \E e \in calls' : e.who = "page"
    <3>1. page.busy <=> \E e \in calls : e.who = "page"
      BY DEF TagPageInv, CallsAreKnown
    <3> QED
      BY <2>2, <3>1
  <2>4. card'.step \in DOMAIN CallOf <=> \E e \in calls' : e.who = "card"
    <3>1. card.step \in DOMAIN CallOf <=> \E e \in calls : e.who = "card"
      BY DEF TagPageInv, CallsAreKnown
    <3> QED
      BY <2>2, <3>1
  <2>5. ASSUME NEW e \in calls'
        PROVE  /\ e.who = "load" => e.what = "get"
               /\ e.who = "page" => e.what \in {"patch", "rotate"}
                                    /\ e.out \in {"pending", "ok", "not_found"}
               /\ e.who = "delete" => e.what = "delete"
               /\ e.who = "card" =>
                    /\ card'.step \in DOMAIN CallOf /\ e.what = CallOf[card'.step]
                    /\ e.what # "unbind" => e.arg.chip = card'.chip
                    /\ e.what \in {"rebind", "unbind"} => e.arg.asked = card'.asked
                    /\ e.what = "lookup" => e.out \in {"pending"} \cup Party
                    /\ e.what # "lookup" => e.out \notin Party
               /\ e.out = "not_found" => row'.gone
    <3>1. CASE e = m
      BY <1>4, <3>1 DEF Party
    <3>2. CASE e # m
      <4>1. PICK d \in calls : e = Marked(d, who)
        BY <1>6, <3>2
      <4>2. d.who = "card" => card' = card
        BY <1>8
      <4>3. /\ d.who = "load" => d.what = "get"
            /\ d.who = "page" => d.what \in {"patch", "rotate"}
                                 /\ d.out \in {"pending", "ok", "not_found"}
            /\ d.who = "delete" => d.what = "delete"
            /\ d.who = "card" =>
                 /\ card.step \in DOMAIN CallOf /\ d.what = CallOf[card.step]
                 /\ d.what # "unbind" => d.arg.chip = card.chip
                 /\ d.what \in {"rebind", "unbind"} => d.arg.asked = card.asked
                 /\ d.what = "lookup" => d.out \in {"pending"} \cup Party
                 /\ d.what # "lookup" => d.out \notin Party
            /\ d.out = "not_found" => row.gone
        BY DEF TagPageInv, CallsAreKnown
      <4> QED
        BY <1>5, <4>1, <4>2, <4>3
    <3> QED
      BY <3>1, <3>2
  <2> QED
    BY <2>1, <2>3, <2>4, <2>5 DEF CallsAreKnown
<1>11. AnswersAreFresh'
  <2> SUFFICES ASSUME NEW e \in calls', e.who \in Writers
               PROVE  /\ \A f \in calls' : f.who \in Writers /\ f.who # e.who => e.crossed
                      /\ e.out = "ok" /\ ~e.crossed => row.gone \/ e.body = Serialize(row, holder)
    BY DEF AnswersAreFresh, InFlight
  <2>1. CASE e = m
    BY <1>4, <1>5, <1>6, <2>1
  <2>2. CASE e # m
    <3>1. PICK d \in calls : e = Marked(d, who)
      BY <1>6, <2>2
    <3>2. d \in InFlight(calls, Writers)
      BY <1>5, <3>1 DEF InFlight
    <3>3. ASSUME NEW f \in calls', f.who \in Writers, f.who # e.who
          PROVE  e.crossed
      <4>1. CASE f = m
        BY <1>4, <1>5, <3>1, <3>3, <4>1
      <4>2. CASE f # m
        <5>1. PICK g \in calls : f = Marked(g, who)
          BY <1>6, <4>2
        <5>2. g \in InFlight(calls, Writers) /\ g.who # d.who
          BY <1>5, <3>1, <3>3, <5>1 DEF InFlight
        <5> QED
          BY <1>5, <3>1, <3>2, <5>2 DEF TagPageInv, AnswersAreFresh
      <4> QED
        BY <4>1, <4>2
    <3>4. e.out = "ok" /\ ~e.crossed => row.gone \/ e.body = Serialize(row, holder)
      BY <1>5, <3>1, <3>2 DEF TagPageInv, AnswersAreFresh
    <3> QED
      BY <3>3, <3>4
  <2> QED
    BY <2>1, <2>2
<1>12. FirstLoad'
  <2>1. \A d \in calls : d.who # "load"
    BY DEF TagPageInv, FirstLoad
  <2>2. \A e \in calls' : e.who # "load"
    BY <1>4, <1>5, <1>6, <2>1
  <2> QED
    BY <2>2 DEF FirstLoad
<1>13. ShowsTheRow'
  <2> SUFFICES ASSUME ~doubt, ~row.gone, \A e \in InFlight(calls', Writers) : e.out # "ok"
               PROVE  page.tag = Serialize(row, holder)
    BY DEF ShowsTheRow
  <2>1. \A d \in InFlight(calls, Writers) : d.out # "ok"
    BY <1>5, <1>7 DEF InFlight
  <2> QED
    BY <2>1 DEF TagPageInv, ShowsTheRow
<1>14. BindsAreKnown'
  <2> SUFFICES ASSUME NEW e \in calls'
               PROVE  /\ e.what \in {"bind", "rebind"} /\ e.out = "ok" =>
                            row.gone \/ card'.strayed \/ holder[e.arg.chip] = "here"
                      /\ e.what = "bind" /\ e.out = "nfc_tag_has_other_chip" =>
                            holder[e.arg.chip] # "there"
    BY DEF BindsAreKnown
  <2>1. CASE e = m
    BY <1>4, <2>1
  <2>2. CASE e # m
    <3>1. PICK d \in calls : e = Marked(d, who)
      BY <1>6, <2>2
    <3>2. d.what \in {"bind", "rebind"} => d.who = "card"
      BY <1>1 DEF TagPageInv, CallsAreKnown, Calls
    <3>3. d.what \in {"bind", "rebind"} => card' = card
      BY <1>8, <3>2
    <3> QED
      BY <1>5, <3>1, <3>3 DEF TagPageInv, BindsAreKnown
  <2> QED
    BY <2>1, <2>2
<1> QED
  BY <1>9, <1>10, <1>11, <1>12, <1>13, <1>14 DEF TagPageInv

-----------------------------------------------------------------------------
(* A call is served. *)

\* An answer under the rules of the server: what an unmarked answer says is how
\* things are, whatever else they were before; a chip that is bound, or refused, is
\* where the answer says.
LEMMA ServedStep ==
    ASSUME TagPageInv, NEW c \in calls, NEW out \in Outs, NEW body \in Tag,
           calls' = (calls \ {c}) \cup {Served(c, out, body)},
           UNCHANGED <<sticker, made, page, card, doubt>>,
           row' \in [set : [Field -> 0..1], code : Nat, gone : BOOLEAN],
           holder' \in [Chip -> Party], OneChipPerTag(holder)',
           row.gone => row'.gone, out = "not_found" => row'.gone,
           c.who = "load" => out = "ok" /\ row' = row /\ holder' = holder
                             /\ body = Serialize(row, holder),
           c.who = "page" => out \in {"ok", "not_found"} /\ holder' = holder,
           c.what = "lookup" <=> out \in Party,
           c.what # "lookup" \/ (row' = row /\ holder' = holder),
           \/ row'.gone
           \/ row' = row /\ holder' = holder
           \/ c.who \in Writers /\ out = "ok",
           out = "ok" => row'.gone \/ body = Serialize(row', holder'),
           \A x \in Chip : holder'[x] = "there" => holder[x] = "there",
           \/ row'.gone \/ holder' = holder
           \/ c.who = "card" /\ c.what # "lookup",
           c.what \in {"bind", "rebind"} /\ out = "ok" => row'.gone \/ holder'[c.arg.chip] = "here",
           c.what = "bind" /\ out = "nfc_tag_has_other_chip" => holder'[c.arg.chip] # "there",
           c.out = "pending"
    PROVE  TagPageInv'
<1> DEFINE s == Served(c, out, body)
<1>1. /\ calls \in SUBSET Calls /\ CallsAreKnown /\ AnswersAreFresh /\ FirstLoad
      /\ ShowsTheRow /\ CardIsKnown /\ BindsAreKnown
  BY DEF TagPageInv, Typed
<1>2. /\ s \in Calls /\ s.out = out /\ s.body = body
      /\ s.who = c.who /\ s.what = c.what /\ s.arg = c.arg /\ s.crossed = c.crossed
  BY <1>1, ServedCall
<1>3. /\ s \in calls' /\ \A e \in calls' : e = s \/ (e \in calls /\ e # c)
      /\ \A d \in calls : d # c => d \in calls'
  OBVIOUS
<1> HIDE DEF s
<1>4. Typed'
  <2>1. calls' \in SUBSET Calls
    BY <1>1, <1>2, <1>3
  <2> QED
    BY <2>1 DEF TagPageInv, Typed, OneChipPerTag
<1>5. CallsAreKnown'
  <2>1. ASSUME NEW e \in calls', NEW f \in calls', e.who = f.who, e.who # "delete"
        PROVE  e = f
    <3>1. \A d \in calls : d # c => d.who # c.who \/ c.who = "delete"
      BY <1>1 DEF CallsAreKnown
    <3> QED
      BY <1>1, <1>2, <1>3, <2>1, <3>1 DEF CallsAreKnown
  <2>2. \A x : (\E e \in calls' : e.who = x) <=> (\E d \in calls : d.who = x)
    BY <1>2, <1>3
  <2>3. /\ page'.busy <=> \E e \in calls' : e.who = "page"
        /\ card'.step \in DOMAIN CallOf <=> \E e \in calls' : e.who = "card"
    BY <1>1, <2>2 DEF CallsAreKnown
  <2>4. ASSUME NEW e \in calls'
        PROVE  /\ e.who = "load" => e.what = "get"
               /\ e.who = "page" => e.what \in {"patch", "rotate"}
                                    /\ e.out \in {"pending", "ok", "not_found"}
               /\ e.who = "delete" => e.what = "delete"
               /\ e.who = "card" =>
                    /\ card'.step \in DOMAIN CallOf /\ e.what = CallOf[card'.step]
                    /\ e.what # "unbind" => e.arg.chip = card'.chip
                    /\ e.what \in {"rebind", "unbind"} => e.arg.asked = card'.asked
                    /\ e.what = "lookup" => e.out \in {"pending"} \cup Party
                    /\ e.what # "lookup" => e.out \notin Party
               /\ e.out = "not_found" => row'.gone
    <3>1. CASE e = s
      BY <1>1, <1>2, <3>1 DEF CallsAreKnown
    <3>2. CASE e # s
      <4>1. e \in calls
        BY <1>3, <3>2
      <4> QED
        BY <1>1, <4>1 DEF CallsAreKnown
    <3> QED
      BY <3>1, <3>2
  <2> QED
    BY <2>1, <2>3, <2>4 DEF CallsAreKnown
<1>6. \A e \in InFlight(calls', Writers) :
        \/ e = s /\ c \in InFlight(calls, Writers)
        \/ e # s /\ e \in InFlight(calls, Writers) /\ (e.who # c.who \/ c.who = "delete")
  BY <1>1, <1>2, <1>3 DEF InFlight, CallsAreKnown
<1>7. AnswersAreFresh'
  <2> SUFFICES ASSUME NEW e \in InFlight(calls', Writers)
               PROVE  /\ \A f \in InFlight(calls', Writers) : f.who # e.who => e.crossed
                      /\ e.out = "ok" /\ ~e.crossed =>
                            row'.gone \/ e.body = Serialize(row', holder')
    BY DEF AnswersAreFresh
  <2>1. \A f \in InFlight(calls', Writers) : f.who # e.who => e.crossed
    BY <1>1, <1>2, <1>6 DEF AnswersAreFresh
  <2>2. e.out = "ok" /\ ~e.crossed => row'.gone \/ e.body = Serialize(row', holder')
    <3>1. CASE e = s
      BY <1>2, <3>1
    <3>2. CASE e # s /\ ~row'.gone /\ ~e.crossed
      <4>1. e \in InFlight(calls, Writers) /\ (e.who # c.who \/ c.who = "delete")
        BY <1>6, <3>2
      <4>2. c.who \notin Writers
        BY <1>1, <3>2, <4>1 DEF AnswersAreFresh, InFlight, Writers
      <4>3. row' = row /\ holder' = holder
        BY <3>2, <4>2
      <4> QED
        BY <1>1, <4>1, <4>3 DEF AnswersAreFresh
    <3> QED
      BY <3>1, <3>2
  <2> QED
    BY <2>1, <2>2
<1>8. FirstLoad'
  <2>1. CASE page.loaded
    <3>1. \A e \in calls' : e.who # "load"
      BY <1>1, <1>2, <1>3, <2>1 DEF FirstLoad
    <3> QED
      BY <2>1, <3>1 DEF FirstLoad
  <2>2. CASE ~page.loaded
    <3>1. /\ ~row.gone /\ card.step = "none" /\ page.tag = Serialize(row, holder)
          /\ \A d \in calls : d.who = "load" /\ d.body = Serialize(row, holder)
      BY <1>1, <2>2 DEF FirstLoad
    <3>2. row' = row /\ holder' = holder /\ body = Serialize(row, holder)
      BY <3>1
    <3>3. \A e \in calls' : e.who = "load" /\ e.body = Serialize(row, holder)
      BY <1>2, <1>3, <3>1, <3>2
    <3> QED
      BY <2>2, <3>1, <3>2, <3>3 DEF FirstLoad
  <2> QED
    BY <2>1, <2>2
<1>9. ShowsTheRow'
  <2> SUFFICES ASSUME page.loaded, ~doubt, ~row'.gone,
                      \A e \in InFlight(calls', Writers) : e.out # "ok"
               PROVE  page.tag = Serialize(row', holder')
    BY DEF ShowsTheRow
  <2>1. c.who \in Writers => out # "ok"
    BY <1>2, <1>3 DEF InFlight
  <2>2. row' = row /\ holder' = holder
    BY <2>1
  <2>3. \A d \in InFlight(calls, Writers) : d.out # "ok" \/ d = c
    BY <1>3 DEF InFlight
  <2> QED
    BY <1>1, <2>2, <2>3 DEF ShowsTheRow
<1>10. BindsAreKnown'
  <2> SUFFICES ASSUME NEW e \in calls'
               PROVE  /\ e.what \in {"bind", "rebind"} /\ e.out = "ok" =>
                            row'.gone \/ card.strayed \/ holder'[e.arg.chip] = "here"
                      /\ e.what = "bind" /\ e.out = "nfc_tag_has_other_chip" =>
                            holder'[e.arg.chip] # "there"
    BY DEF BindsAreKnown
  <2>1. CASE e = s
    BY <1>2, <2>1
  <2>2. CASE e # s /\ e.what \in {"bind", "rebind"}
    <3>1. e \in calls /\ e # c /\ e \in Calls
      BY <1>1, <1>3, <2>2
    <3>2. e.who = "card"
      BY <1>1, <2>2, <3>1 DEF Calls, CallsAreKnown
    <3>3. c.who # "card" /\ card.step \in DOMAIN CallOf /\ e.what = CallOf[card.step]
          /\ e.arg.chip = card.chip
      BY <1>1, <2>2, <3>1, <3>2 DEF CallsAreKnown
    <3>4. e.arg.chip \in Chip
      BY <1>1, <2>2, <3>3 DEF CallOf, CardIsKnown
    <3> QED
      BY <1>1, <3>1, <3>3, <3>4 DEF BindsAreKnown
  <2> QED
    BY <2>1, <2>2
<1>11. CardIsKnown'
  <2>1. card.step = "write" => c.who # "card"
    BY <1>1 DEF CallsAreKnown, CallOf
  <2> QED
    BY <1>1, <2>1 DEF CardIsKnown, Asks
<1> QED
  BY <1>4, <1>5, <1>7, <1>8, <1>9, <1>10, <1>11 DEF TagPageInv

\* Which call is about what.
LEMMA CallForms ==
    ASSUME TagPageInv, NEW c \in calls
    PROVE  /\ c \in Calls /\ c.body \in Tag
           /\ c.what \in {"bind", "rebind", "lookup", "unbind"} <=> c.who = "card"
           /\ c.what \in {"patch", "rotate"} <=> c.who = "page"
           /\ c.what = "get" <=> c.who = "load"
           /\ c.what = "delete" <=> c.who = "delete"
           /\ c.what \in {"bind", "rebind", "lookup"} => c.arg.chip = card.chip /\ c.arg.chip \in Chip
<1>1. c \in Calls /\ CallsAreKnown /\ CardIsKnown
  BY DEF TagPageInv, Typed
<1>2. /\ c.who \in {"load", "page", "card", "delete"} /\ c.body \in Tag
      /\ c.what \in {"get", "patch", "rotate", "bind", "rebind", "lookup", "unbind", "delete"}
  BY <1>1 DEF Calls
<1>3. /\ c.who = "load" => c.what = "get"
      /\ c.who = "page" => c.what \in {"patch", "rotate"}
      /\ c.who = "delete" => c.what = "delete"
      /\ c.who = "card" =>
            /\ card.step \in {"bind", "rebind", "look", "unlink"} /\ c.what = CallOf[card.step]
            /\ c.what # "unbind" => c.arg.chip = card.chip
  BY <1>1 DEF CallsAreKnown, CallOf
<1>4. c.who = "card" => \/ card.step = "bind" /\ c.what = "bind"
                        \/ card.step = "rebind" /\ c.what = "rebind"
                        \/ card.step = "look" /\ c.what = "lookup"
                        \/ card.step = "unlink" /\ c.what = "unbind"
  BY <1>3 DEF CallOf
<1> QED
  BY <1>1, <1>2, <1>3, <1>4 DEF CardIsKnown

\* The server answers, and TagPageInv holds of what is left.
LEMMA ServeStep ==
    ASSUME TagPageInv, NEW c \in calls, Serve(c)
    PROVE  TagPageInv'
<1>1. /\ row \in [set : [Field -> 0..1], code : Nat, gone : BOOLEAN]
      /\ holder \in [Chip -> Party] /\ OneChipPerTag(holder)
  BY DEF TagPageInv, Typed
<1>2. /\ c \in Calls /\ c.body \in Tag /\ c.out = "pending"
      /\ UNCHANGED <<sticker, made, page, card, doubt>> /\ Request(c)
      /\ c.who \in {"load", "page", "card", "delete"}
  BY CallForms DEF Serve, Request, Calls
<1>3. CASE ServeMissing(c)
  <2>1. c.who # "load"
    BY <1>3, CallForms DEF ServeMissing, TagPageInv, FirstLoad
  <2> QED
    BY <1>1, <1>2, <1>3, <2>1, ServedStep DEF Reply, ServeMissing, Outs, Party, OneChipPerTag
<1>4. CASE ServeLookup(c) /\ c.what = "lookup"
  <2>1. holder[c.arg.chip] \in Party /\ c.who = "card"
    BY <1>1, <1>4, CallForms
  <2>2. Serialize(row, holder) \in Tag
    BY <1>1, SerializeTyped
  <2> QED
    BY <1>1, <1>2, <1>4, <2>1, <2>2, ServedStep DEF Reply, ServeLookup, Outs, Party, OneChipPerTag
<1>5. CASE ServeBind(c) /\ c.what \in {"bind", "rebind"} /\ ~row.gone
  <2> DEFINE chip == c.arg.chip
             refusal == BindRefusal(chip, c.what = "rebind")
             bound == Bound(chip)
  <2>1. chip \in Chip /\ c.who = "card"
    BY <1>5, CallForms
  <2>2. CASE refusal # "none"
    <3>1. /\ calls' = (calls \ {c}) \cup {Served(c, refusal, c.body)}
          /\ UNCHANGED <<row, holder>>
      BY <1>5, <2>2 DEF ServeBind, Reply
    <3>2. /\ refusal \in {"nfc_chip_claimed", "nfc_chip_on_other_tag", "nfc_tag_has_other_chip"}
          /\ refusal = "nfc_tag_has_other_chip" => holder[chip] # "there"
      BY <1>5, <2>2 DEF BindRefusal
    <3> HIDE DEF refusal
    <3> QED
      BY <1>1, <1>2, <1>5, <2>1, <3>1, <3>2, ServedStep DEF Outs, Party, OneChipPerTag
  <2>3. CASE refusal = "none"
    <3>1. /\ calls' = (calls \ {c}) \cup {Served(c, "ok", Serialize(row, bound))}
          /\ holder' = bound /\ row' = row
      BY <1>5, <2>3 DEF ServeBind, Reply
    <3>2. /\ bound \in [Chip -> Party] /\ OneChipPerTag(bound) /\ bound[chip] = "here"
          /\ \A x \in Chip : bound[x] = "there" => holder[x] = "there"
      BY <1>1, <2>1 DEF Bound, Party, OneChipPerTag
    <3> HIDE DEF bound
    <3>3. Serialize(row, bound) \in Tag
      BY <1>1, <3>2, SerializeTyped
    <3>4. OneChipPerTag(holder)'
      BY <3>1, <3>2 DEF OneChipPerTag
    <3> QED
      BY <1>1, <1>2, <1>5, <2>1, <3>1, <3>2, <3>3, <3>4, ServedStep DEF Outs, Party, Writers
  <2> QED
    BY <2>2, <2>3
<1>6. CASE ServeUnbind(c) /\ c.what = "unbind" /\ ~row.gone
  <2> DEFINE freed == [d \in Chip |-> IF holder[d] = "here" THEN "nobody" ELSE holder[d]]
  <2>1. /\ holder' = freed /\ row' = row
        /\ calls' = (calls \ {c}) \cup {Served(c, "ok", Serialize(row, freed))}
    BY <1>6 DEF ServeUnbind, Reply
  <2>2. /\ freed \in [Chip -> Party] /\ OneChipPerTag(freed)
        /\ \A x \in Chip : freed[x] = "there" => holder[x] = "there"
    BY <1>1 DEF Party, OneChipPerTag
  <2> HIDE DEF freed
  <2>3. Serialize(row, freed) \in Tag /\ c.who = "card"
    BY <1>1, <1>6, <2>2, SerializeTyped, CallForms
  <2>4. OneChipPerTag(holder)'
    BY <2>1, <2>2 DEF OneChipPerTag
  <2> QED
    BY <1>1, <1>2, <1>6, <2>1, <2>2, <2>3, <2>4, ServedStep DEF Outs, Party, Writers
<1>7. CASE ServeTag(c) /\ c.what \in {"get", "patch", "rotate"} /\ ~row.gone
  <2> DEFINE r == Patched(c)
  <2>1. /\ row' = r /\ holder' = holder
        /\ calls' = (calls \ {c}) \cup {Served(c, "ok", Serialize(r, holder))}
    BY <1>7 DEF ServeTag, Reply
  <2>2. /\ r \in [set : [Field -> 0..1], code : Nat, gone : BOOLEAN] /\ r.gone = row.gone
        /\ c.what = "get" => r = row
    <3>1. CASE c.what = "get"
      BY <1>1, <3>1 DEF Patched
    <3>2. CASE c.what = "patch"
      <4>1. c.arg.field \in Field /\ c.arg.value \in 0..1
        BY <1>2 DEF Calls
      <4> DEFINE changed == [row.set EXCEPT ![c.arg.field] = c.arg.value]
      <4>2. changed \in [Field -> 0..1]
        BY <1>1, <4>1
      <4>3. r = [row EXCEPT !.set = changed]
        BY <1>1, <3>2 DEF Patched
      <4> HIDE DEF changed, r
      <4> QED
        BY <1>1, <3>2, <4>2, <4>3
    <3>3. CASE c.what = "rotate"
      <4> DEFINE cleared == [f \in Field |-> IF f = "block_retired_tokens" THEN 0 ELSE row.set[f]]
                 next == row.code + 1
      <4>1. cleared \in [Field -> 0..1] /\ next \in Nat
        BY <1>1
      <4>2. r = [row EXCEPT !.code = next, !.set = cleared]
        BY <1>1, <3>3 DEF Patched
      <4> HIDE DEF cleared, next, r
      <4> QED
        BY <1>1, <3>3, <4>1, <4>2
    <3> QED
      BY <1>7, <3>1, <3>2, <3>3
  <2>3. c.who = (IF c.what = "get" THEN "load" ELSE "page")
    BY <1>7, CallForms
  <2> HIDE DEF r
  <2>4. Serialize(r, holder) \in Tag /\ OneChipPerTag(holder)'
    BY <1>1, <2>1, <2>2, SerializeTyped DEF OneChipPerTag
  <2> QED
    BY <1>1, <1>2, <1>7, <2>1, <2>2, <2>3, <2>4, ServedStep DEF Outs, Party, Writers
<1>8. CASE ServeDelete(c) /\ c.what = "delete" /\ ~row.gone
  <2>1. /\ row' = [row EXCEPT !.gone = TRUE]
        /\ holder' = [d \in Chip |-> IF holder[d] = "here" THEN "nobody" ELSE holder[d]]
        /\ calls' = (calls \ {c}) \cup {Served(c, "ok", c.body)}
    BY <1>8 DEF ServeDelete, Reply
  <2>2. /\ row' \in [set : [Field -> 0..1], code : Nat, gone : BOOLEAN] /\ row'.gone
    BY <1>1, <2>1
  <2>3. /\ holder' \in [Chip -> Party] /\ OneChipPerTag(holder)'
        /\ \A x \in Chip : holder'[x] = "there" => holder[x] = "there"
    BY <1>1, <2>1 DEF Party, OneChipPerTag
  <2>4. c.who = "delete"
    BY <1>8, CallForms
  <2> QED
    BY <1>2, <1>8, <2>1, <2>2, <2>3, <2>4, ServedStep DEF Outs, Party
<1> QED
  BY <1>2, <1>3, <1>4, <1>5, <1>6, <1>7, <1>8 DEF Request

-----------------------------------------------------------------------------
(* The page and the card move. *)

\* The values of the card's fields.
Goals == {"write", "typed", "verify", "unlink"}
Phases == {"idle", "waiting", "working"}
Steps == {"none", "read", "bind", "ask", "rebind", "write", "look", "unlink"}
Results == {"none", "done", "info", "warn", "error"}

\* The card has its type whichever of them it has.
LEMMA CardFields ==
    CardState = [supported : BOOLEAN, phase : Phases, step : Steps, goal : Goals,
                 chip : Chip \cup {NoChip}, url : Url, want : Url,
                 question : Questions, asked : Questions, strayed : BOOLEAN, result : Results]
  BY DEF CardState, Phases, Steps, Goals, Questions, Results

\* A handler of the card begins, or ends, with everything of the last one gone.
LEMMA StartCard ==
    ASSUME card \in CardState, NEW goal \in Goals, NEW phase \in Phases, NEW step \in Steps
    PROVE  /\ Start(goal, phase, step) \in CardState
           /\ Start(goal, phase, step).goal = goal /\ Start(goal, phase, step).phase = phase
           /\ Start(goal, phase, step).step = step /\ Start(goal, phase, step).result = "none"
<1>1. Blank \in Url /\ NoChip \in Chip \cup {NoChip}
  BY DEF Blank, Url, Party
<1>2. "none" \in Questions /\ "none" \in Results
  BY DEF Questions, Results
<1> HIDE DEF Blank
<1> DEFINE chips == Chip \cup {NoChip}
<1>3. /\ NoChip \in chips
      /\ card \in [supported : BOOLEAN, phase : Phases, step : Steps, goal : Goals,
                   chip : chips, url : Url, want : Url,
                   question : Questions, asked : Questions, strayed : BOOLEAN, result : Results]
  BY <1>1, CardFields
<1> HIDE DEF chips
<1>4. /\ Start(goal, phase, step) \in
              [supported : BOOLEAN, phase : Phases, step : Steps, goal : Goals,
               chip : chips, url : Url, want : Url,
               question : Questions, asked : Questions, strayed : BOOLEAN, result : Results]
  BY <1>1, <1>2, <1>3 DEF Start
<1>5. /\ Start(goal, phase, step).goal = goal /\ Start(goal, phase, step).phase = phase
      /\ Start(goal, phase, step).step = step /\ Start(goal, phase, step).result = "none"
  BY <1>3 DEF Start
<1> QED
  BY <1>4, <1>5, CardFields DEF chips

\* The card under its notice.
LEMMA FinishCard ==
    ASSUME card \in CardState, NEW result \in Results
    PROVE  /\ Finish(result) \in CardState
           /\ Finish(result).phase = "idle" /\ Finish(result).step = "none"
           /\ Finish(result).result = result
<1> DEFINE s == Start("verify", "idle", "none")
<1>1. s \in CardState /\ s.phase = "idle" /\ s.step = "none"
  <2>1. "verify" \in Goals /\ "idle" \in Phases /\ "none" \in Steps
    BY DEF Goals, Phases, Steps
  <2> QED
    BY <2>1, StartCard
<1>2. Finish(result) = [s EXCEPT !.result = result]
  BY DEF Finish
<1> HIDE DEF s
<1> QED
  BY <1>1, <1>2, CardFields

\* A step of the page alone: no call is sent and none is answered.
LEMMA LocalStep ==
    ASSUME TagPageInv, UNCHANGED <<row, holder, calls, made, doubt>>,
           sticker' \in [Chip -> Url], page' \in PageState, card' \in CardState,
           (card'.phase = "idle") <=> (card'.step = "none"),
           page'.tag = page.tag, page'.loaded = page.loaded, page'.busy = page.busy,
           \/ card' = card
           \/ page.loaded /\ card.step \notin DOMAIN CallOf /\ card'.step \notin DOMAIN CallOf,
           CardIsKnown'
    PROVE  TagPageInv'
<1>1. Typed'
  BY DEF TagPageInv, Typed, OneChipPerTag
<1>2. CallsAreKnown'
  <2>1. card' # card => \A c \in calls : c.who # "card"
    BY DEF TagPageInv, CallsAreKnown
  <2> QED
    BY <2>1 DEF TagPageInv, CallsAreKnown
<1>3. AnswersAreFresh' /\ ShowsTheRow' /\ BindsAreKnown'
  <2>1. card' # card => \A c \in calls : c.what \notin {"bind", "rebind"}
    BY DEF TagPageInv, Typed, Calls, CallsAreKnown
  <2> QED
    BY <2>1 DEF TagPageInv, AnswersAreFresh, ShowsTheRow, BindsAreKnown, InFlight
<1>4. FirstLoad'
  BY DEF TagPageInv, FirstLoad
<1> QED
  BY <1>1, <1>2, <1>3, <1>4 DEF TagPageInv

\* An answer is taken: the part of the page that waited for it waits no more.
LEMMA AnswerStep ==
    ASSUME TagPageInv, NEW c \in calls, calls' = calls \ {c},
           UNCHANGED <<row, holder, sticker>>,
           made' \in [{"page", "card", "delete", "lost"} -> Nat], doubt' \in BOOLEAN,
           page' \in PageState, card' \in CardState,
           (card'.phase = "idle") <=> (card'.step = "none"),
           IF c.who = "page" THEN ~page'.busy ELSE page'.busy = page.busy,
           IF c.who = "card" THEN card'.step \notin DOMAIN CallOf ELSE card' = card,
           page'.loaded \/ page' = page, page.loaded => page'.loaded,
           page'.loaded => page.loaded \/ c.who = "load",
           CardIsKnown', ShowsTheRow'
    PROVE  TagPageInv'
<1>1. CallsAreKnown /\ AnswersAreFresh /\ FirstLoad /\ BindsAreKnown
  BY DEF TagPageInv
<1>2. Typed'
  BY DEF TagPageInv, Typed, OneChipPerTag
<1>3. CallsAreKnown'
  <2>1. \A d \in calls' : d \in calls /\ (d.who = c.who => d.who = "delete")
    BY <1>1 DEF CallsAreKnown
  <2>2. \A x \in {"page", "card"} :
            (\E d \in calls' : d.who = x) <=> (c.who # x /\ \E d \in calls : d.who = x)
    BY <2>1
  <2>3. page'.busy <=> \E d \in calls' : d.who = "page"
    <3>1. page.busy <=> \E d \in calls : d.who = "page"
      BY <1>1 DEF CallsAreKnown
    <3> QED
      BY <2>2, <3>1
  <2>4. card'.step \in DOMAIN CallOf <=> \E d \in calls' : d.who = "card"
    <3>1. card.step \in DOMAIN CallOf <=> \E d \in calls : d.who = "card"
      BY <1>1 DEF CallsAreKnown
    <3> QED
      BY <2>2, <3>1
  <2>5. \A d \in calls' : d.who = "card" => card' = card
    BY <2>1
  <2> QED
    BY <1>1, <2>1, <2>3, <2>4, <2>5 DEF CallsAreKnown
<1>4. AnswersAreFresh' /\ BindsAreKnown'
  <2>1. card' # card => \A d \in calls' : d.what \notin {"bind", "rebind"}
    BY <1>1 DEF TagPageInv, Typed, Calls, CallsAreKnown
  <2> QED
    BY <1>1, <2>1 DEF AnswersAreFresh, BindsAreKnown, InFlight
<1>5. FirstLoad'
  <2>1. CASE page'.loaded
    <3>1. \A d \in calls' : d.who # "load"
      BY <1>1, <2>1 DEF FirstLoad, CallsAreKnown
    <3> QED
      BY <2>1, <3>1 DEF FirstLoad
  <2>2. CASE ~page'.loaded
    <3>1. page' = page /\ ~page.loaded
      BY <2>2
    <3>2. c.who = "load"
      BY <1>1, <3>1 DEF FirstLoad
    <3> QED
      BY <1>1, <3>1, <3>2 DEF FirstLoad
  <2> QED
    BY <2>1, <2>2
<1> QED
  BY <1>2, <1>3, <1>4, <1>5 DEF TagPageInv

\* An unmarked call is the only one of its kind that is in flight.
LEMMA AloneInFlight ==
    ASSUME TagPageInv, NEW c \in InFlight(calls, Writers), ~c.crossed
    PROVE  /\ \A d \in InFlight(calls, Writers) : d = c
           /\ c.out = "ok" => row.gone \/ c.body = Serialize(row, holder)
<1>1. AnswersAreFresh /\ CallsAreKnown
  BY DEF TagPageInv
<1>2. \A d \in InFlight(calls, Writers) : d.who = c.who
  BY <1>1 DEF AnswersAreFresh
<1>3. c.who # "delete" /\ c \in calls /\ \A d \in InFlight(calls, Writers) : d \in calls
  BY DEF InFlight, Writers
<1> QED
  BY <1>1, <1>2, <1>3 DEF AnswersAreFresh, CallsAreKnown

-----------------------------------------------------------------------------
(* The invariant holds of every state. *)

\* What is sent along with a call.
LEMMA ArgsTyped ==
    /\ NoArg \in Args
    /\ \A f \in Field, v \in 0..1 : [NoArg EXCEPT !.field = f, !.value = v] \in Args
    /\ \A chip \in Chip : /\ [NoArg EXCEPT !.chip = chip] \in Args
                          /\ [NoArg EXCEPT !.chip = chip].chip = chip
    /\ \A chip \in Chip, q \in Questions :
            LET arg == [NoArg EXCEPT !.chip = chip, !.asked = q] IN
            arg \in Args /\ arg.chip = chip /\ arg.asked = q
    /\ \A q \in Questions : LET arg == [NoArg EXCEPT !.asked = q] IN
            arg \in Args /\ arg.asked = q
<1>1. "status" \in Field /\ 0 \in 0..1
  BY TagPageAssumption
<1>2. NoArg \in Args
  BY <1>1 DEF NoArg, Args, Questions
<1>3. /\ \A f \in Field, v \in 0..1 : [NoArg EXCEPT !.field = f, !.value = v] \in Args
      /\ \A chip \in Chip : /\ [NoArg EXCEPT !.chip = chip] \in Args
                            /\ [NoArg EXCEPT !.chip = chip].chip = chip
  BY <1>2 DEF Args
<1>4. ASSUME NEW chip \in Chip, NEW q \in Questions
      PROVE  LET arg == [NoArg EXCEPT !.chip = chip, !.asked = q] IN
             arg \in Args /\ arg.chip = chip /\ arg.asked = q
  BY <1>2 DEF Args
<1>5. ASSUME NEW q \in Questions
      PROVE  LET arg == [NoArg EXCEPT !.asked = q] IN arg \in Args /\ arg.asked = q
  BY <1>2 DEF Args
<1> QED
  BY <1>2, <1>3, <1>4, <1>5

\* The card's fields, while it does something.
LEMMA CardWorks ==
    ASSUME TagPageInv
    PROVE  /\ card \in CardState /\ page \in PageState /\ page.tag \in Tag
           /\ card.chip \in Chip \cup {NoChip} /\ card.question \in Questions
           /\ card.want \in Url /\ card.step \in Steps
           /\ card.step # "none" => page.loaded /\ card.phase # "idle"
           /\ card.phase = "idle" => card.step = "none"
<1>1. card \in CardState /\ page \in PageState
  BY DEF TagPageInv, Typed
<1>2. /\ card.chip \in Chip \cup {NoChip} /\ card.question \in Questions
      /\ card.want \in Url /\ card.step \in Steps
  BY <1>1, CardFields
<1>3. page.tag \in Tag
  BY <1>1 DEF PageState
<1> QED
  BY <1>1, <1>2, <1>3 DEF TagPageInv, Typed, FirstLoad

\* The settings, a new code and the deletion are asked for.
LEMMA SettingsStep ==
    ASSUME TagPageInv, NEW f \in Field, NEW v \in 0..1, Patch(f, v) \/ Rotate \/ Remove
    PROVE  TagPageInv'
<1>1. /\ page.loaded /\ UNCHANGED <<row, holder, sticker, doubt>> /\ card' = card
      /\ page \in PageState
  BY CardWorks DEF Patch, Offered, Rotate, Remove, Drawn
<1>2. CardIsKnown'
  BY <1>1 DEF TagPageInv, CardIsKnown, Asks
<1>3. card' \in CardState /\ (card'.phase = "idle" <=> card'.step = "none")
  BY <1>1 DEF TagPageInv, Typed
<1>4. CASE Patch(f, v) \/ Rotate
  <2>1. /\ ~page.busy /\ page' \in PageState /\ page'.busy
        /\ page'.tag = page.tag /\ page'.loaded = page.loaded
    BY <1>1, <1>4 DEF Patch, Offered, Rotate, PageState
  <2>2. CASE Patch(f, v)
    <3>1. Call("page", "patch", [NoArg EXCEPT !.field = f, !.value = v])
      BY <2>2 DEF Patch
    <3> QED
      BY <1>1, <1>2, <1>3, <2>1, <3>1, ArgsTyped, SendStep
  <2>3. CASE Rotate
    <3>1. Call("page", "rotate", NoArg)
      BY <2>3 DEF Rotate
    <3> QED
      BY <1>1, <1>2, <1>3, <2>1, <3>1, ArgsTyped, SendStep
  <2> QED
    BY <1>4, <2>2, <2>3
<1>5. CASE Remove
  <2>1. Call("delete", "delete", NoArg) /\ page' = page
    BY <1>5 DEF Remove
  <2> QED
    BY <1>1, <1>2, <1>3, <2>1, ArgsTyped, SendStep
<1> QED
  BY <1>4, <1>5

\* The card sends the serial, or asks for the chip to go.
LEMMA CardSendStep ==
    ASSUME TagPageInv,
           \/ Agree \/ StartUnlink
           \/ \E chip \in Chip : StartTyped(chip) \/ ReadChip(chip)
    PROVE  TagPageInv'
<1>1. /\ card \in CardState /\ card.chip \in Chip \cup {NoChip} /\ card.question \in Questions
      /\ card.step # "none" => page.loaded /\ card.phase # "idle"
      /\ card.phase = "idle" => card.step = "none"
      /\ CardIsKnown /\ page \in PageState
      /\ sticker \in [Chip -> Url]
  BY CardWorks DEF TagPageInv, Typed
<1>2. \A s \in {"none", "read", "ask", "write"} : s \notin DOMAIN CallOf
  BY DEF CallOf
<1>3. CASE Agree
  <2>1. /\ card.step = "ask" /\ page' = page /\ UNCHANGED <<row, holder, sticker, doubt>>
        /\ Call("card", "rebind", [NoArg EXCEPT !.chip = card.chip, !.asked = card.question])
        /\ card' = [card EXCEPT !.step = "rebind", !.asked = card.question]
    BY <1>3 DEF Agree
  <2>2. card.chip \in Chip
    BY <1>1, <2>1 DEF CardIsKnown
  <2>3. /\ card'.step = "rebind" /\ card'.asked = card.question /\ card'.chip = card.chip
        /\ card'.phase = card.phase /\ card'.goal = card.goal /\ card'.url = card.url
    BY <1>1, <2>1 DEF CardState
  <2>4. card' \in CardState
    BY <1>1, <2>1, CardFields DEF Steps
  <2>5. CardIsKnown'
    BY <1>1, <2>1, <2>2, <2>3 DEF CardIsKnown, Asks
  <2>6. "rebind" \in DOMAIN CallOf /\ CallOf["rebind"] = "rebind"
    BY DEF CallOf
  <2> DEFINE arg == [NoArg EXCEPT !.chip = card.chip, !.asked = card.question]
  <2>7. arg \in Args /\ arg.chip = card.chip /\ arg.asked = card.question
    BY <1>1, <2>2, ArgsTyped
  <2>8. Call("card", "rebind", arg)
    BY <2>1
  <2> HIDE DEF arg
  <2> QED
    BY <1>1, <1>2, <2>1, <2>3, <2>4, <2>5, <2>6, <2>7, <2>8, SendStep
<1>4. CASE StartUnlink
  <2> DEFINE s == Start("unlink", "working", "unlink")
             arg == [NoArg EXCEPT !.asked = "unlink"]
  <2>1. /\ page.loaded /\ card.step = "none" /\ page' = page
        /\ UNCHANGED <<row, holder, sticker, doubt>>
        /\ Call("card", "unbind", arg)
        /\ card' = [s EXCEPT !.asked = "unlink"]
    BY <1>1, <1>4 DEF StartUnlink, CardIdle, Drawn
  <2>2. "unlink" \in Goals /\ "working" \in Phases /\ "unlink" \in Steps /\ "unlink" \in Questions
    BY DEF Goals, Phases, Steps, Questions
  <2>3. s \in CardState /\ s.phase = "working" /\ s.step = "unlink"
    BY <1>1, <2>2, StartCard
  <2>7. arg \in Args /\ arg.asked = "unlink"
    BY <2>2, ArgsTyped
  <2> HIDE DEF s, arg
  <2>4. /\ card' \in CardState /\ card'.phase = "working" /\ card'.step = "unlink"
        /\ card'.asked = "unlink"
    BY <2>1, <2>2, <2>3, CardFields
  <2>5. CardIsKnown'
    BY <2>4 DEF CardIsKnown
  <2>6. "unlink" \in DOMAIN CallOf /\ CallOf["unlink"] = "unbind"
    BY DEF CallOf
  <2> QED
    BY <1>1, <1>2, <2>1, <2>4, <2>5, <2>6, <2>7, SendStep
<1>5. ASSUME NEW chip \in Chip, StartTyped(chip)
      PROVE  TagPageInv'
  <2> DEFINE s == Start("typed", "working", "bind")
             arg == [NoArg EXCEPT !.chip = chip]
  <2>1. /\ page.loaded /\ card.step = "none" /\ page' = page
        /\ UNCHANGED <<row, holder, sticker, doubt>>
        /\ Call("card", "bind", arg)
        /\ card' = [s EXCEPT !.chip = chip]
    BY <1>1, <1>5 DEF StartTyped, CardIdle, Drawn
  <2>2. "typed" \in Goals /\ "working" \in Phases /\ "bind" \in Steps
    BY DEF Goals, Phases, Steps
  <2>3. s \in CardState /\ s.phase = "working" /\ s.step = "bind" /\ s.goal = "typed"
    BY <1>1, <2>2, StartCard
  <2>4. arg \in Args /\ arg.chip = chip
    BY ArgsTyped
  <2> HIDE DEF s, arg
  <2>5. /\ card' \in CardState /\ card'.phase = "working" /\ card'.step = "bind"
        /\ card'.goal = "typed" /\ card'.chip = chip
    BY <2>1, <2>3, CardFields
  <2>6. CardIsKnown'
    BY <2>5 DEF CardIsKnown
  <2>7. "bind" \in DOMAIN CallOf /\ CallOf["bind"] = "bind"
    BY DEF CallOf
  <2> QED
    BY <1>1, <1>2, <2>1, <2>4, <2>5, <2>6, <2>7, SendStep
<1>6. ASSUME NEW chip \in Chip, ReadChip(chip)
      PROVE  TagPageInv'
  <2> DEFINE writes == card.goal = "write"
             what == IF writes THEN "bind" ELSE "lookup"
             step == IF writes THEN "bind" ELSE "look"
             arg == [NoArg EXCEPT !.chip = chip]
  <2>1. /\ page.loaded /\ card.step = "read" /\ page' = page
        /\ UNCHANGED <<row, holder, sticker, doubt>>
        /\ Call("card", what, arg)
        /\ card' = [card EXCEPT !.chip = chip, !.url = sticker[chip], !.phase = "working",
                                !.step = step]
    BY <1>1, <1>6 DEF ReadChip
  <2>2. step \in Steps /\ "working" \in Phases /\ sticker[chip] \in Url
    BY <1>1 DEF Steps, Phases
  <2>3. /\ step \in DOMAIN CallOf /\ what = CallOf[step] /\ what \in {"bind", "lookup"}
        /\ step \in {"bind", "look"} /\ (step = "bind" => card.goal = "write")
    BY DEF CallOf
  <2>4. arg \in Args /\ arg.chip = chip
    BY ArgsTyped
  <2> HIDE DEF what, step, arg
  <2>5. /\ card'.phase = "working" /\ card'.step = step
        /\ card'.goal = card.goal /\ card'.chip = chip /\ card'.url = sticker[chip]
    BY <1>1, <2>1 DEF CardState
  <2>6. card' \in CardState
    BY <1>1, <2>1, <2>2, CardFields
  <2>7. CardIsKnown'
    BY <2>1, <2>3, <2>5 DEF CardIsKnown
  <2>8. card'.phase # "idle" /\ card'.step # "none"
    BY <2>3, <2>5
  <2> QED
    BY <1>1, <1>2, <2>1, <2>3, <2>4, <2>5, <2>6, <2>7, <2>8, SendStep
<1> QED
  BY <1>3, <1>4, <1>5, <1>6

\* The owner presses a button of the card, a chip fails or is written, a question
\* is declined, the page folds away: nothing is sent.
LEMMA LocalSteps ==
    ASSUME TagPageInv,
           \/ StartWrite \/ StartVerify \/ ChipFails \/ Decline \/ FoldAway
           \/ \E chip \in Chip : WriteChip(chip)
    PROVE  TagPageInv'
<1>1. /\ card \in CardState /\ card.want \in Url /\ page \in PageState /\ page.tag \in Tag
      /\ card.step # "none" => page.loaded
      /\ card.phase = "idle" => card.step = "none"
      /\ CardIsKnown /\ sticker \in [Chip -> Url]
  BY CardWorks DEF TagPageInv, Typed
<1>2. \A s \in {"none", "read", "ask", "write"} : s \notin DOMAIN CallOf
  BY DEF CallOf
<1>3. "verify" \in Goals /\ "write" \in Goals /\ "waiting" \in Phases /\ "read" \in Steps
  BY DEF Goals, Phases, Steps
<1>4. CASE StartWrite
  <2> DEFINE s == Start("write", "waiting", "read")
             link == ScanUrl(page.tag)
  <2>1. /\ UNCHANGED <<row, holder, sticker, calls, made, page, doubt>>
        /\ page.loaded /\ card.step = "none" /\ card' = [s EXCEPT !.want = link]
    BY <1>1, <1>4 DEF StartWrite, CardIdle, Drawn
  <2>2. link \in Url
    BY <1>1 DEF ScanUrl, LinkTo, Url, Tag, Party
  <2>3. s \in CardState /\ s.phase = "waiting" /\ s.step = "read"
    BY <1>1, <1>3, StartCard
  <2> HIDE DEF s, link
  <2>4. card' \in CardState /\ card'.phase = "waiting" /\ card'.step = "read"
    BY <2>1, <2>2, <2>3, CardFields
  <2>5. CardIsKnown'
    BY <2>4 DEF CardIsKnown
  <2> QED
    BY <1>1, <1>2, <2>1, <2>4, <2>5, LocalStep
<1>5. CASE StartVerify
  <2> DEFINE s == Start("verify", "waiting", "read")
  <2>1. /\ UNCHANGED <<row, holder, sticker, calls, made, page, doubt>>
        /\ page.loaded /\ card.step = "none" /\ card' = s
    BY <1>1, <1>5 DEF StartVerify, CardIdle, Drawn
  <2>2. s \in CardState /\ s.phase = "waiting" /\ s.step = "read"
    BY <1>1, <1>3, StartCard
  <2> HIDE DEF s
  <2>3. CardIsKnown'
    BY <2>1, <2>2 DEF CardIsKnown
  <2> QED
    BY <1>1, <1>2, <2>1, <2>2, <2>3, LocalStep
<1>6. CASE \/ ChipFails \/ Decline \/ \E chip \in Chip : WriteChip(chip)
  <2>1. PICK result \in Results : card' = Finish(result)
    BY <1>6 DEF ChipFails, Decline, WriteChip, Results
  <2>2. card' \in CardState /\ card'.phase = "idle" /\ card'.step = "none"
    BY <1>1, <2>1, FinishCard
  <2>3. /\ UNCHANGED <<row, holder, calls, made, page, doubt>>
        /\ page.loaded /\ card.step \in {"read", "ask", "write"}
    BY <1>1, <1>6 DEF ChipFails, Decline, WriteChip
  <2>4. sticker' \in [Chip -> Url]
    BY <1>1, <1>6 DEF ChipFails, Decline, WriteChip
  <2>5. CardIsKnown'
    BY <2>2 DEF CardIsKnown
  <2> QED
    BY <1>1, <1>2, <2>2, <2>3, <2>4, <2>5, LocalStep
<1>7. CASE FoldAway
  <2>1. /\ UNCHANGED <<row, holder, sticker, calls, made, card, doubt>>
        /\ page' = [page EXCEPT !.at = "list"]
    BY <1>7 DEF FoldAway
  <2>2. /\ page' \in PageState /\ page'.tag = page.tag /\ page'.loaded = page.loaded
        /\ page'.busy = page.busy
    BY <1>1, <2>1 DEF PageState
  <2>3. CardIsKnown'
    BY <1>1, <2>1 DEF CardIsKnown, Asks
  <2>4. card' \in CardState /\ (card'.phase = "idle" <=> card'.step = "none")
    BY <2>1 DEF TagPageInv, Typed
  <2> QED
    BY <1>1, <2>1, <2>2, <2>3, <2>4, LocalStep
<1> QED
  BY <1>4, <1>5, <1>6, <1>7

\* The outcome e of a call c: what the server answered, or a failure.
Outcome(c, e) ==
    /\ e.who = c.who /\ e.what = c.what /\ e.arg = c.arg /\ e.body = c.body
    /\ e.crossed = c.crossed
    /\ e.out = "network_error" \/ (e.out = c.out /\ c.out # "pending")

\* What is known of an outcome when it is taken.
LEMMA OutcomeMeans ==
    ASSUME TagPageInv, NEW c \in calls, NEW e, Outcome(c, e)
    PROVE  /\ c.who \in {"load", "page", "card", "delete"} /\ e.body \in Tag
           /\ e.crossed \in BOOLEAN
           /\ e.out # "network_error" => e.out \in Outs \ {"pending"} /\ c.out = e.out
           /\ c.who \in Writers /\ e.out = "ok" /\ ~e.crossed /\ ~row.gone =>
                e.body = Serialize(row, holder)
           /\ c.who # "load" => page.loaded
           /\ c.who = "load" => ~page.loaded /\ ~row.gone /\ e.body = Serialize(row, holder)
           /\ c.out = "not_found" => row.gone
<1>1. c \in Calls /\ c.out # "network_error"
  BY DEF TagPageInv, Typed, Calls, Outs, Party
<1>2. c.who \in {"load", "page", "card", "delete"} /\ c.body \in Tag /\ c.crossed \in BOOLEAN
      /\ c.out \in Outs
  BY <1>1 DEF Calls
<1>3. c.who \in Writers /\ e.out = "ok" /\ ~e.crossed /\ ~row.gone =>
        e.body = Serialize(row, holder)
  <2> SUFFICES ASSUME c.who \in Writers, e.out = "ok", ~e.crossed, ~row.gone
               PROVE  e.body = Serialize(row, holder)
    OBVIOUS
  <2>1. c \in InFlight(calls, Writers) /\ ~c.crossed /\ c.out = "ok"
    BY DEF InFlight, Outcome
  <2> QED
    BY <2>1, AloneInFlight DEF Outcome
<1>4. /\ c.who # "load" => page.loaded
      /\ c.who = "load" => ~page.loaded /\ ~row.gone /\ c.body = Serialize(row, holder)
  BY DEF TagPageInv, FirstLoad
<1>5. c.out = "not_found" => row.gone
  BY DEF TagPageInv, CallsAreKnown
<1> QED
  BY <1>1, <1>2, <1>3, <1>4, <1>5 DEF Outcome

\* The settings' answers, the first load and the deletion.
LEMMA PageAnswerStep ==
    ASSUME TagPageInv, NEW c \in calls, NEW e, Outcome(c, e), calls' = calls \ {c},
           UNCHANGED <<row, holder, sticker>>,
           made' \in [{"page", "card", "delete", "lost"} -> Nat],
           LoadAnswer(e) \/ PageAnswer(e) \/ RemoveAnswer(e)
    PROVE  TagPageInv'
<1>1. /\ card' = card /\ c.who # "card" /\ e.who = c.who
      /\ page \in PageState /\ card \in CardState /\ doubt \in BOOLEAN
      /\ (card.phase = "idle" <=> card.step = "none")
      /\ ShowsTheRow /\ CardIsKnown
  BY DEF LoadAnswer, PageAnswer, RemoveAnswer, Outcome, TagPageInv, Typed
<1>2. CardIsKnown'
  BY <1>1 DEF CardIsKnown, Asks
<1>3. CASE LoadAnswer(e)
  <2>1. c.who = "load" /\ doubt' = doubt /\ ~page.loaded
        /\ e.body \in Tag /\ e.body = Serialize(row, holder)
    BY <1>3, OutcomeMeans DEF LoadAnswer, Outcome
  <2>2. /\ page' \in PageState /\ page'.busy = page.busy
        /\ page'.loaded \/ page' = page
        /\ page'.loaded => page'.tag = e.body
    BY <1>1, <1>3, <2>1 DEF LoadAnswer, PageState
  <2>3. ShowsTheRow'
    BY <2>1, <2>2 DEF ShowsTheRow, Serialize
  <2> QED
    BY <1>1, <1>2, <2>1, <2>2, <2>3, AnswerStep
<1>4. CASE PageAnswer(e)
  <2>1. c.who = "page" /\ page.loaded /\ e.body \in Tag /\ e.crossed \in BOOLEAN
        /\ c.out \in {"pending", "ok", "not_found"}
    BY <1>4, OutcomeMeans DEF PageAnswer, Outcome, TagPageInv, CallsAreKnown
  <2>2. doubt' = IF e.out = "not_found" THEN doubt ELSE e.crossed \/ e.out = "network_error"
    BY <1>4 DEF PageAnswer, Doubtful
  <2>3. /\ page' \in PageState /\ ~page'.busy /\ page'.loaded = page.loaded
        /\ e.out = "ok" => page'.tag = e.body
    BY <1>1, <1>4, <2>1 DEF PageAnswer, PageState
  <2>4. ShowsTheRow'
    <3> SUFFICES ASSUME ~doubt', ~row.gone
                 PROVE  page'.tag = Serialize(row, holder)
      BY DEF ShowsTheRow, Serialize
    <3>1. e.out # "not_found" /\ ~e.crossed /\ e.out # "network_error"
      BY <2>2, OutcomeMeans
    <3>2. e.out = "ok"
      BY <2>1, <3>1 DEF Outcome
    <3> QED
      BY <2>1, <2>3, <3>1, <3>2, OutcomeMeans DEF Writers
  <2>5. doubt' \in BOOLEAN
    BY <1>1, <2>1, <2>2
  <2> QED
    BY <1>1, <1>2, <2>1, <2>3, <2>4, <2>5, AnswerStep
<1>5. CASE RemoveAnswer(e)
  <2> DEFINE leaving == page.deleting \/ e.out = "ok"
  <2>1. c.who = "delete" /\ page.loaded /\ doubt' = doubt
        /\ page' = [page EXCEPT !.deleting = leaving]
    BY <1>1, <1>5, OutcomeMeans DEF RemoveAnswer, PageState
  <2>2. leaving \in BOOLEAN
    BY <1>1 DEF PageState
  <2> HIDE DEF leaving
  <2>3. /\ page' \in PageState /\ page'.busy = page.busy /\ page'.loaded = page.loaded
        /\ page'.tag = page.tag
    BY <1>1, <2>1, <2>2 DEF PageState
  <2>4. InFlight(calls', Writers) = InFlight(calls, Writers)
    BY <2>1 DEF InFlight, Writers
  <2>5. ShowsTheRow'
    BY <1>1, <2>1, <2>3, <2>4 DEF ShowsTheRow, Serialize
  <2> QED
    BY <1>1, <1>2, <2>1, <2>3, <2>5, AnswerStep
<1> QED
  BY <1>3, <1>4, <1>5

\* What the card is after an answer, and what the page shows then.
LEMMA CardAfter ==
    ASSUME TagPageInv, NEW c \in calls, NEW e, Outcome(c, e), CardAnswer(e)
    PROVE  /\ card' \in CardState /\ (card'.phase = "idle" <=> card'.step = "none")
           /\ card'.step \in {"none", "write", "ask"}
           /\ card'.step # "none" => /\ card.step \in {"bind", "rebind"}
                                     /\ card'.chip = card.chip /\ card'.url = card.url
                                     /\ card'.goal = card.goal /\ card'.strayed = card.strayed
           /\ card'.step = "write" => e.out = "ok" /\ c.what \in {"bind", "rebind"}
           /\ card'.step = "ask" => /\ card.step = "bind" /\ card'.question = e.out
                                    /\ e.out \in Confirmable /\ c.what = "bind"
           /\ page' = IF e.out = "ok" THEN [page EXCEPT !.tag = e.body] ELSE page
           /\ card'.result = "done" /\ card.result # "done" =>
                /\ card.step \in {"bind", "rebind"} /\ c.what \in {"bind", "rebind"}
                /\ e.out = "ok" /\ card.url = card.want /\ card.goal # "typed"
<1>1. /\ card \in CardState /\ page \in PageState /\ page.tag \in Tag
      /\ card.step # "none" => card.phase # "idle"
      /\ e.who = "card" /\ e.who = c.who /\ e.what = c.what
  BY CardWorks DEF CardAnswer, Outcome
<1>2. /\ card.step \in DOMAIN CallOf /\ c.what = CallOf[card.step]
      /\ c.what = "lookup" => c.out \in {"pending"} \cup Party
  BY <1>1 DEF TagPageInv, CallsAreKnown
<1>3. /\ card.step = "bind" => c.what = "bind"
      /\ card.step = "rebind" => c.what = "rebind"
      /\ card.step = "look" => c.what = "lookup"
  BY <1>2 DEF CallOf
<1>4. \A r \in Results : /\ Finish(r) \in CardState /\ Finish(r).phase = "idle"
                         /\ Finish(r).step = "none" /\ Finish(r).result = r
  BY <1>1, FinishCard
<1>5. {"done", "info", "warn", "error"} \subseteq Results
  BY DEF Results
<1> DEFINE write == [card EXCEPT !.phase = "waiting", !.step = "write"]
           ask == [card EXCEPT !.step = "ask", !.question = e.out]
<1>6. /\ write \in CardState /\ write.phase = "waiting" /\ write.step = "write"
      /\ write.chip = card.chip /\ write.url = card.url /\ write.goal = card.goal
      /\ write.result = card.result /\ write.strayed = card.strayed
  <2>1. "waiting" \in Phases /\ "write" \in Steps
    BY DEF Phases, Steps
  <2> QED
    BY <1>1, <2>1, CardFields
<1>7. e.out \in Confirmable =>
      /\ ask \in CardState /\ ask.phase = card.phase /\ ask.step = "ask"
      /\ ask.chip = card.chip /\ ask.url = card.url /\ ask.goal = card.goal
      /\ ask.question = e.out /\ ask.result = card.result /\ ask.strayed = card.strayed
  <2>1. "ask" \in Steps /\ (e.out \in Confirmable => e.out \in Questions)
    BY DEF Steps, Confirmable, Questions
  <2> QED
    BY <1>1, <2>1, CardFields
<1> HIDE DEF write, ask
<1>8. CASE LookAnswer(e)
  <2>1. card.step = "look" /\ page' = page /\ card' = Finish(Verdict(e))
    BY <1>8 DEF LookAnswer
  <2>2. Verdict(e) \in {"warn", "info", "error"}
    BY DEF Verdict
  <2>3. e.out # "ok"
    BY <1>2, <1>3, <2>1 DEF Outcome, Party
  <2> HIDE DEF Verdict
  <2> QED
    BY <1>4, <1>5, <2>1, <2>2, <2>3
<1>9. CASE UnlinkAnswer(e)
  <2> DEFINE r == IF e.out = "ok" THEN "info" ELSE "error"
  <2>1. card' = Finish(r)
    BY <1>9 DEF UnlinkAnswer
  <2>2. r \in Results /\ r # "done"
    BY <1>5
  <2> HIDE DEF r
  <2>3. page' = IF e.out = "ok" THEN [page EXCEPT !.tag = e.body] ELSE page
    BY <1>1, <1>9 DEF UnlinkAnswer, PageState
  <2> QED
    BY <1>4, <2>1, <2>2, <2>3
<1>10. CASE BindAnswer(e)
  <2>1. card.step \in {"bind", "rebind"} /\ c.what \in {"bind", "rebind"}
    BY <1>3, <1>10 DEF BindAnswer
  <2>2. CASE e.out = "ok"
    <3>1. page' = [page EXCEPT !.tag = e.body] /\ card' = Linked
      BY <1>10, <2>2 DEF BindAnswer
    <3>2. \/ card.goal = "typed" /\ card' = Finish("info")
          \/ card.goal # "typed" /\ card.url # card.want /\ card' = write
          \/ card.goal # "typed" /\ card.url = card.want /\ card' = Finish("done")
      BY <3>1 DEF Linked, write
    <3>3. CASE card.goal = "typed" /\ card' = Finish("info")
      BY <1>4, <1>5, <2>2, <3>1, <3>3
    <3>4. CASE card' = write
      BY <1>6, <2>1, <2>2, <3>1, <3>4
    <3>5. CASE card.goal # "typed" /\ card.url = card.want /\ card' = Finish("done")
      BY <1>4, <1>5, <2>1, <2>2, <3>1, <3>5
    <3> QED
      BY <3>2, <3>3, <3>4, <3>5
  <2>3. CASE e.out # "ok"
    <3>1. /\ page' = page
          /\ \/ card.step = "bind" /\ e.out \in Confirmable /\ card' = ask
             \/ card' = Finish("error")
      BY <1>10, <2>3 DEF BindAnswer, ask
    <3>2. CASE card.step = "bind" /\ e.out \in Confirmable /\ card' = ask
      BY <1>1, <1>3, <1>7, <2>1, <2>3, <3>1, <3>2
    <3>3. CASE card' = Finish("error")
      BY <1>4, <1>5, <2>3, <3>1, <3>3
    <3> QED
      BY <3>1, <3>2, <3>3
  <2> QED
    BY <2>2, <2>3
<1> QED
  BY <1>8, <1>9, <1>10 DEF CardAnswer

\* What the answers to a serial mean for the chip they are about.
LEMMA BindAnswered ==
    ASSUME TagPageInv, NEW c \in calls, c.what \in {"bind", "rebind"}
    PROVE  /\ card.chip \in Chip /\ c.arg.chip = card.chip
           /\ c.out = "ok" => row.gone \/ card.strayed \/ holder[card.chip] = "here"
           /\ c.what = "bind" /\ c.out \in Confirmable => Asks(c.out)
<1>1. card.chip \in Chip /\ c.arg.chip = card.chip
  BY CallForms
<1>2. /\ c.out = "ok" => row.gone \/ card.strayed \/ holder[card.chip] = "here"
      /\ c.what = "bind" /\ c.out = "nfc_tag_has_other_chip" => holder[card.chip] # "there"
  BY <1>1 DEF TagPageInv, BindsAreKnown
<1> QED
  BY <1>1, <1>2 DEF Asks, Confirmable

\* The card's answers.
LEMMA CardAnswerStep ==
    ASSUME TagPageInv, NEW c \in calls, NEW e, Outcome(c, e), calls' = calls \ {c},
           UNCHANGED <<row, holder, sticker>>,
           made' \in [{"page", "card", "delete", "lost"} -> Nat], CardAnswer(e)
    PROVE  TagPageInv'
<1>1. /\ c.who = "card" /\ page \in PageState /\ card \in CardState /\ doubt \in BOOLEAN
      /\ ShowsTheRow /\ CardIsKnown
  BY DEF CardAnswer, Outcome, TagPageInv, Typed
<1>2. /\ e.body \in Tag /\ e.crossed \in BOOLEAN /\ page.loaded
      /\ e.out # "network_error" => c.out = e.out
      /\ e.out = "ok" /\ ~e.crossed /\ ~row.gone => e.body = Serialize(row, holder)
  BY <1>1, OutcomeMeans DEF Writers
<1>3. /\ card' \in CardState /\ (card'.phase = "idle" <=> card'.step = "none")
      /\ card'.step \in {"none", "write", "ask"}
      /\ card'.step # "none" => /\ card.step \in {"bind", "rebind"}
                                /\ card'.chip = card.chip /\ card'.url = card.url
                                /\ card'.goal = card.goal /\ card'.strayed = card.strayed
      /\ card'.step = "write" => e.out = "ok" /\ c.what \in {"bind", "rebind"}
      /\ card'.step = "ask" => /\ card.step = "bind" /\ card'.question = e.out
                               /\ e.out \in Confirmable /\ c.what = "bind"
      /\ page' = IF e.out = "ok" THEN [page EXCEPT !.tag = e.body] ELSE page
  BY CardAfter
<1>4. /\ page' \in PageState /\ page'.busy = page.busy /\ page'.loaded
      /\ IF e.out = "ok" THEN page'.tag = e.body ELSE page'.tag = page.tag
  <2>1. CASE e.out = "ok"
    BY <1>1, <1>2, <1>3, <2>1 DEF PageState
  <2>2. CASE e.out # "ok"
    BY <1>1, <1>2, <1>3, <2>2
  <2> QED
    BY <2>1, <2>2
<1>5. card'.step \notin DOMAIN CallOf
  BY <1>3 DEF CallOf
<1>6. doubt' = IF e.out = "ok" \/ e.out = "network_error"
               THEN e.crossed \/ e.out = "network_error" ELSE doubt
  BY DEF CardAnswer, Doubtful
<1>7. doubt' \in BOOLEAN
  BY <1>1, <1>2, <1>6
<1>8. CardIsKnown'
  <2>1. CASE card'.step = "none"
    BY <2>1 DEF CardIsKnown
  <2>2. CASE card'.step = "write"
    <3>1. c.out = "ok" /\ c.what \in {"bind", "rebind"}
      BY <1>2, <1>3, <2>2
    <3> QED
      BY <1>3, <2>2, <3>1, BindAnswered DEF CardIsKnown
  <2>3. CASE card'.step = "ask"
    <3>1. c.out = e.out /\ c.what = "bind" /\ c.out \in Confirmable
      BY <1>2, <1>3, <2>3 DEF Confirmable
    <3>2. card.chip \in Chip /\ Asks(c.out)
      BY <3>1, BindAnswered
    <3> QED
      BY <1>1, <1>3, <2>3, <3>1, <3>2 DEF CardIsKnown, Asks
  <2> QED
    BY <1>3, <2>1, <2>2, <2>3
<1>9. ShowsTheRow'
  <2> SUFFICES ASSUME ~doubt', ~row.gone, \A d \in InFlight(calls', Writers) : d.out # "ok"
               PROVE  page'.tag = Serialize(row, holder)
    BY DEF ShowsTheRow, Serialize
  <2>1. e.out # "network_error"
    BY <1>6
  <2>2. CASE e.out = "ok"
    BY <1>2, <1>4, <1>6, <2>2
  <2>3. CASE e.out # "ok"
    <3>1. doubt' = doubt /\ c.out # "ok" /\ page'.tag = page.tag
      BY <1>2, <1>4, <1>6, <2>1, <2>3
    <3>2. \A d \in InFlight(calls, Writers) : d.out # "ok"
      BY <3>1 DEF InFlight
    <3> QED
      BY <1>1, <1>2, <3>1, <3>2 DEF ShowsTheRow
  <2> QED
    BY <2>2, <2>3
<1> QED
  BY <1>1, <1>2, <1>3, <1>4, <1>5, <1>7, <1>8, <1>9, AnswerStep

\* An answer is taken, or a call fails.
LEMMA HandleStep ==
    ASSUME TagPageInv, NEW c \in calls, Take(c) \/ Drop(c)
    PROVE  TagPageInv' /\ \E e : Outcome(c, e) /\ Handle(e)
<1>1. c \in Calls /\ made \in [{"page", "card", "delete", "lost"} -> Nat]
  BY DEF TagPageInv, Typed
<1>2. PICK e : Outcome(c, e) /\ Handle(e)
  <2>1. Outcome(c, Lost(c))
    BY <1>1 DEF Outcome, Lost, Calls
  <2>2. c.out # "pending" => Outcome(c, c)
    BY DEF Outcome
  <2> QED
    BY <2>1, <2>2 DEF Take, Drop
<1>3. calls' = calls \ {c} /\ UNCHANGED <<row, holder, sticker>>
  BY DEF Take, Drop
<1>4. made' \in [{"page", "card", "delete", "lost"} -> Nat]
  BY <1>1 DEF Take, Drop
<1> QED
  BY <1>2, <1>3, <1>4, PageAnswerStep, CardAnswerStep DEF Handle

\* Nothing has been asked for yet but the first load.
LEMMA InitInv == Init => TagPageInv
<1> SUFFICES ASSUME Init PROVE TagPageInv
  OBVIOUS
<1> DEFINE settings == [f \in Field |-> 0]
           tag == Serialize(row, holder)
           n == Sent(0, "load", "get", NoArg, tag)
<1>1. row \in [set : [Field -> 0..1], code : Nat, gone : BOOLEAN] /\ ~row.gone
  <2>1. settings \in [Field -> 0..1] /\ row = [set |-> settings, code |-> 0, gone |-> FALSE]
    BY DEF Init
  <2> HIDE DEF settings
  <2> QED
    BY <2>1
<1>2. holder \in [Chip -> Party] /\ OneChipPerTag(holder)
  BY TagPageAssumption DEF Init
<1>3. sticker \in [Chip -> Url]
  BY <1>2 DEF Init, Url
<1>4. tag \in Tag
  BY <1>1, <1>2, SerializeTyped
<1>5. /\ calls = {n} /\ doubt = FALSE
      /\ page = [at |-> "tag", tag |-> tag, loaded |-> FALSE, busy |-> FALSE, deleting |-> FALSE]
  BY DEF Init
<1> HIDE DEF tag
<1>6. n \in Calls /\ n.who = "load" /\ n.what = "get" /\ n.out = "pending" /\ n.body = tag
  BY <1>4, ArgsTyped DEF Sent, Calls, Outs, Args
<1> HIDE DEF n
<1>7. page \in PageState /\ ~page.loaded /\ ~page.busy /\ page.tag = tag
  BY <1>4, <1>5 DEF PageState
<1>8. card \in CardState /\ card.phase = "idle" /\ card.step = "none"
  <2>1. PICK s \in BOOLEAN :
       card = [supported |-> s, phase |-> "idle", step |-> "none", goal |-> "verify",
               chip |-> NoChip, url |-> Blank, want |-> Blank, question |-> "none",
               asked |-> "none", strayed |-> FALSE, result |-> "none"]
    BY DEF Init
  <2>2. /\ Blank \in Url /\ "idle" \in Phases /\ "none" \in Steps /\ "verify" \in Goals
        /\ "none" \in Questions /\ "none" \in Results
    BY DEF Blank, Url, Party, Phases, Steps, Goals, Questions, Results
  <2> QED
    BY <2>1, <2>2, CardFields
<1>9. made \in [{"page", "card", "delete", "lost"} -> Nat]
  BY DEF Init
<1>10. Typed
  BY <1>1, <1>2, <1>3, <1>5, <1>6, <1>7, <1>8, <1>9 DEF Typed
<1>11. CallsAreKnown
  BY <1>5, <1>6, <1>7, <1>8 DEF CallsAreKnown, CallOf
<1>12. AnswersAreFresh
  BY <1>5, <1>6 DEF AnswersAreFresh, InFlight
<1>13. FirstLoad /\ ShowsTheRow
  BY <1>1, <1>5, <1>6, <1>7, <1>8 DEF FirstLoad, ShowsTheRow, tag
<1>14. CardIsKnown /\ BindsAreKnown
  BY <1>5, <1>6, <1>8 DEF CardIsKnown, BindsAreKnown
<1> QED
  BY <1>10, <1>11, <1>12, <1>13, <1>14 DEF TagPageInv

-----------------------------------------------------------------------------
(* Calls that were given up on. *)

\* Calls the server may still serve: what they ask for, and what the owner was
\* asked before.
LateIsKnown ==
    \A c \in late :
        /\ c.who = "nobody" /\ c.arg \in Args /\ page.loaded
        /\ c.what \in {"patch", "rotate", "bind", "rebind", "unbind", "delete"}
        /\ c.what \in {"bind", "rebind"} => c.arg.chip \in Chip
        /\ c.what = "unbind" => c.arg.asked = "unlink"
        /\ c.what = "rebind" =>
            /\ c.arg.asked \in Confirmable
            /\ holder[c.arg.chip] = "there" => c.arg.asked = "nfc_chip_on_other_tag"

\* What any request may do at the server.
LEMMA RequestMoves ==
    ASSUME row \in [set : [Field -> 0..1], code : Nat, gone : BOOLEAN],
           holder \in [Chip -> Party], OneChipPerTag(holder),
           NEW c, c.arg \in Args, Request(c)
    PROVE  /\ row' \in [set : [Field -> 0..1], code : Nat, gone : BOOLEAN]
           /\ holder' \in [Chip -> Party] /\ OneChipPerTag(holder)'
           /\ \A x \in Chip : holder'[x] = "there" => holder[x] = "there"
           /\ row.gone => row'.gone
           /\ c \notin calls => calls' = {[d EXCEPT !.crossed = TRUE] : d \in calls}
           /\ \/ holder' = holder
              \/ ServeBind(c) /\ c.what \in {"bind", "rebind"}
              \/ ServeUnbind(c) /\ c.what = "unbind"
              \/ ServeDelete(c)
<1>1. CASE ServeMissing(c) \/ ServeLookup(c)
  BY <1>1 DEF ServeMissing, ServeLookup, Reply, OneChipPerTag
<1>2. CASE ServeBind(c) /\ c.what \in {"bind", "rebind"}
  <2>1. CASE BindRefusal(c.arg.chip, c.what = "rebind") # "none"
    BY <1>2, <2>1 DEF ServeBind, Reply, OneChipPerTag
  <2>2. CASE BindRefusal(c.arg.chip, c.what = "rebind") = "none"
    <3>1. holder' = Bound(c.arg.chip) /\ row' = row
      BY <1>2, <2>2 DEF ServeBind
    <3>2. c \notin calls => calls' = {[d EXCEPT !.crossed = TRUE] : d \in calls}
      BY <1>2, <2>2 DEF ServeBind, Reply
    <3>3. /\ Bound(c.arg.chip) \in [Chip -> Party] /\ OneChipPerTag(Bound(c.arg.chip))
          /\ \A x \in Chip : Bound(c.arg.chip)[x] = "there" => holder[x] = "there"
      BY DEF Bound, Party, OneChipPerTag
    <3> QED
      BY <1>2, <3>1, <3>2, <3>3 DEF OneChipPerTag
  <2> QED
    BY <2>1, <2>2
<1>3. CASE ServeUnbind(c) /\ c.what = "unbind"
  <2>1. /\ holder' = [d \in Chip |-> IF holder[d] = "here" THEN "nobody" ELSE holder[d]]
        /\ row' = row
        /\ c \notin calls => calls' = {[d EXCEPT !.crossed = TRUE] : d \in calls}
    BY <1>3 DEF ServeUnbind, Reply
  <2>2. holder' \in [Chip -> Party] /\ OneChipPerTag(holder)'
    BY <2>1 DEF Party, OneChipPerTag
  <2> QED
    BY <1>3, <2>1, <2>2
<1>4. CASE ServeTag(c) /\ c.what \in {"get", "patch", "rotate"}
  <2>1. /\ row' = Patched(c) /\ holder' = holder
        /\ c \notin calls => calls' = {[d EXCEPT !.crossed = TRUE] : d \in calls}
    BY <1>4 DEF ServeTag, Reply
  <2>2. CASE c.what = "get"
    BY <2>1, <2>2 DEF Patched, OneChipPerTag
  <2>3. CASE c.what = "patch"
    <3>1. c.arg.field \in Field /\ c.arg.value \in 0..1
      BY DEF Args
    <3> DEFINE changed == [row.set EXCEPT ![c.arg.field] = c.arg.value]
    <3>2. changed \in [Field -> 0..1]
      BY <3>1
    <3>3. row' = [row EXCEPT !.set = changed]
      BY <2>1, <2>3 DEF Patched
    <3> HIDE DEF changed
    <3> QED
      BY <2>1, <3>2, <3>3 DEF OneChipPerTag
  <2>4. CASE c.what = "rotate"
    <3> DEFINE cleared == [f \in Field |-> IF f = "block_retired_tokens" THEN 0 ELSE row.set[f]]
               next == row.code + 1
    <3>1. cleared \in [Field -> 0..1] /\ next \in Nat
      OBVIOUS
    <3>2. row' = [row EXCEPT !.code = next, !.set = cleared]
      BY <2>1, <2>4 DEF Patched
    <3> HIDE DEF cleared, next
    <3> QED
      BY <2>1, <3>1, <3>2 DEF OneChipPerTag
  <2> QED
    BY <1>4, <2>2, <2>3, <2>4
<1>5. CASE ServeDelete(c)
  <2>1. /\ row' = [row EXCEPT !.gone = TRUE]
        /\ holder' = [d \in Chip |-> IF holder[d] = "here" THEN "nobody" ELSE holder[d]]
        /\ c \notin calls => calls' = {[d EXCEPT !.crossed = TRUE] : d \in calls}
    BY <1>5 DEF ServeDelete, Reply
  <2>2. holder' \in [Chip -> Party] /\ OneChipPerTag(holder)'
    BY <2>1 DEF Party, OneChipPerTag
  <2> QED
    BY <1>5, <2>1, <2>2
<1> QED
  BY <1>1, <1>2, <1>3, <1>4, <1>5 DEF Request

\* A late call is served: what it did crosses whatever is in flight, and the page
\* may be behind from now on.
LEMMA LateStep ==
    ASSUME TagPageInv, LateIsKnown, NEW c \in late, ServeLate(c)
    PROVE  TagPageInv'
<1>1. /\ row \in [set : [Field -> 0..1], code : Nat, gone : BOOLEAN]
      /\ holder \in [Chip -> Party] /\ OneChipPerTag(holder)
      /\ c.arg \in Args /\ page.loaded /\ Request(c) /\ calls \in SUBSET Calls
      /\ CallsAreKnown /\ FirstLoad /\ CardIsKnown /\ BindsAreKnown
      /\ c.who = "nobody"
  BY DEF TagPageInv, Typed, LateIsKnown, ServeLate
<1>2. /\ row' \in [set : [Field -> 0..1], code : Nat, gone : BOOLEAN]
      /\ holder' \in [Chip -> Party] /\ OneChipPerTag(holder)'
      /\ \A x \in Chip : holder'[x] = "there" => holder[x] = "there"
      /\ row.gone => row'.gone
      /\ calls' = {[d EXCEPT !.crossed = TRUE] : d \in calls}
  <2>1. c \notin calls
    BY <1>1 DEF Calls
  <2> QED
    BY <1>1, <2>1, RequestMoves
<1>3. /\ UNCHANGED <<sticker, made, page>> /\ doubt' = TRUE
      /\ card' = [card EXCEPT !.strayed = card.phase # "idle"]
  BY <1>1 DEF ServeLate, Request
<1>4. /\ card \in CardState /\ card' \in CardState
      /\ card'.phase = card.phase /\ card'.step = card.step /\ card'.chip = card.chip
      /\ card'.goal = card.goal /\ card'.url = card.url /\ card'.question = card.question
      /\ card'.asked = card.asked /\ (card.step # "none" => card'.strayed)
  <2>1. card \in CardState /\ (card.phase = "idle" => card.step = "none")
    BY CardWorks
  <2> QED
    BY <1>3, <2>1, CardFields
<1>5. \A e \in calls' : \E d \in calls :
        /\ e = [d EXCEPT !.crossed = TRUE]
        /\ e \in Calls /\ e.who = d.who /\ e.what = d.what /\ e.arg = d.arg /\ e.out = d.out
        /\ e.body = d.body /\ e.crossed
  <2> SUFFICES ASSUME NEW d \in calls, NEW e, e = [d EXCEPT !.crossed = TRUE]
               PROVE  /\ e \in Calls /\ e.who = d.who /\ e.what = d.what /\ e.arg = d.arg
                      /\ e.out = d.out /\ e.body = d.body /\ e.crossed
    BY <1>2
  <2>1. d \in Calls
    BY <1>1
  <2> QED
    BY <2>1 DEF Calls
<1>6. \A d \in calls : /\ [d EXCEPT !.crossed = TRUE] \in calls'
                       /\ [d EXCEPT !.crossed = TRUE].who = d.who
  <2> SUFFICES ASSUME NEW d \in calls PROVE [d EXCEPT !.crossed = TRUE].who = d.who
    BY <1>2
  <2>1. d \in Calls
    BY <1>1
  <2> QED
    BY <2>1 DEF Calls
<1>7. Typed'
  <2>1. calls' \in SUBSET Calls
    BY <1>5
  <2> QED
    BY <1>2, <1>3, <1>4, <2>1 DEF TagPageInv, Typed
<1>8. CallsAreKnown'
  <2>1. \A e, f \in calls' : e.who = f.who /\ e.who # "delete" => e = f
    <3> SUFFICES ASSUME NEW e \in calls', NEW f \in calls', e.who = f.who, e.who # "delete"
                 PROVE  e = f
      OBVIOUS
    <3>1. PICK d \in calls : e = [d EXCEPT !.crossed = TRUE] /\ e.who = d.who
      BY <1>5
    <3>2. PICK g \in calls : f = [g EXCEPT !.crossed = TRUE] /\ f.who = g.who
      BY <1>5
    <3>3. d = g
      BY <1>1, <3>1, <3>2 DEF CallsAreKnown
    <3> QED
      BY <3>1, <3>2, <3>3
  <2>2. \A x : (\E e \in calls' : e.who = x) <=> (\E d \in calls : d.who = x)
    <3> SUFFICES ASSUME NEW x
                 PROVE  (\E e \in calls' : e.who = x) <=> (\E d \in calls : d.who = x)
      OBVIOUS
    <3>1. ASSUME NEW e \in calls', e.who = x PROVE \E d \in calls : d.who = x
      BY <1>5, <3>1
    <3>2. ASSUME NEW d \in calls, d.who = x PROVE \E e \in calls' : e.who = x
      BY <1>6, <3>2
    <3> QED
      BY <3>1, <3>2
  <2>3. /\ page'.busy <=> \E e \in calls' : e.who = "page"
        /\ card'.step \in DOMAIN CallOf <=> \E e \in calls' : e.who = "card"
    BY <1>1, <1>3, <1>4, <2>2 DEF CallsAreKnown
  <2>4. ASSUME NEW e \in calls'
        PROVE  /\ e.who = "load" => e.what = "get"
               /\ e.who = "page" => e.what \in {"patch", "rotate"}
                                    /\ e.out \in {"pending", "ok", "not_found"}
               /\ e.who = "delete" => e.what = "delete"
               /\ e.who = "card" =>
                    /\ card'.step \in DOMAIN CallOf /\ e.what = CallOf[card'.step]
                    /\ e.what # "unbind" => e.arg.chip = card'.chip
                    /\ e.what \in {"rebind", "unbind"} => e.arg.asked = card'.asked
                    /\ e.what = "lookup" => e.out \in {"pending"} \cup Party
                    /\ e.what # "lookup" => e.out \notin Party
               /\ e.out = "not_found" => row'.gone
    <3>1. PICK d \in calls :
            e.who = d.who /\ e.what = d.what /\ e.arg = d.arg /\ e.out = d.out
      BY <1>5
    <3> QED
      BY <1>1, <1>2, <1>4, <3>1 DEF CallsAreKnown
  <2> QED
    BY <2>1, <2>3, <2>4 DEF CallsAreKnown
<1>9. AnswersAreFresh' /\ ShowsTheRow'
  BY <1>3, <1>5 DEF AnswersAreFresh, ShowsTheRow, InFlight
<1>10. FirstLoad'
  <2>1. \A e \in calls' : e.who # "load"
    BY <1>1, <1>5 DEF FirstLoad
  <2> QED
    BY <1>1, <1>3, <2>1 DEF FirstLoad
<1>11. CardIsKnown'
  BY <1>1, <1>2, <1>3, <1>4 DEF CardIsKnown, Asks
<1>12. BindsAreKnown'
  <2> SUFFICES ASSUME NEW e \in calls', e.what \in {"bind", "rebind"}
               PROVE  /\ card'.strayed
                      /\ e.what = "bind" /\ e.out = "nfc_tag_has_other_chip" =>
                            holder'[e.arg.chip] # "there"
    BY DEF BindsAreKnown
  <2>1. PICK d \in calls :
          e.who = d.who /\ e.what = d.what /\ e.arg = d.arg /\ e.out = d.out
    BY <1>5
  <2>2. d.who = "card" /\ d.arg.chip \in Chip
    BY <2>1, CallForms
  <2>3. card.step # "none"
    BY <1>1, <2>2 DEF CallsAreKnown, CallOf
  <2> QED
    BY <1>1, <1>2, <1>4, <2>1, <2>2, <2>3 DEF BindsAreKnown
<1> QED
  BY <1>7, <1>8, <1>9, <1>10, <1>11, <1>12 DEF TagPageInv

\* No chip comes to be on the owner's other tag.
LEMMA ThereShrinks ==
    ASSUME TagPageInv, LateIsKnown, [Next]_vars, NEW x \in Chip, holder'[x] = "there"
    PROVE  holder[x] = "there"
<1>1. /\ row \in [set : [Field -> 0..1], code : Nat, gone : BOOLEAN]
      /\ holder \in [Chip -> Party] /\ OneChipPerTag(holder) /\ calls \in SUBSET Calls
  BY DEF TagPageInv, Typed
<1>2. ASSUME NEW c \in calls \cup late, Request(c)
      PROVE  holder[x] = "there"
  <2>1. c.arg \in Args
    BY <1>1 DEF Calls, Args, LateIsKnown
  <2> QED
    BY <1>1, <1>2, <2>1, RequestMoves
<1>3. CASE holder' = holder
  BY <1>3
<1>4. CASE Owner \/ Answer \/ Phone
  BY <1>4 DEF Owner, Patch, Rotate, Remove, StartWrite, StartVerify, StartUnlink, StartTyped,
         Answer, Agree, Decline, Phone, ChipFails, FoldAway, ReadChip, WriteChip
<1>5. CASE \E c \in calls : Take(c) \/ Drop(c)
  BY <1>5 DEF Take, Drop
<1> QED
  BY <1>2, <1>3, <1>4, <1>5 DEF Next, Answers, Serve, ServeLate, vars

\* Nothing has been asked for yet but the first load, and whoever acts, the
\* invariant holds of what is left.
LEMMA NextInv == TagPageInv /\ LateIsKnown /\ [Next]_vars => TagPageInv'
<1> SUFFICES ASSUME TagPageInv, LateIsKnown, [Next]_vars PROVE TagPageInv'
  OBVIOUS
<1>1. CASE UNCHANGED vars
  BY <1>1 DEF vars, TagPageInv, Typed, OneChipPerTag, CallsAreKnown, AnswersAreFresh, InFlight,
              FirstLoad, ShowsTheRow, Serialize, CardIsKnown, Asks, BindsAreKnown
<1>2. CASE Owner
  <2>1. CASE \/ \E f \in Field, v \in 0..1 : Patch(f, v)
             \/ Rotate \/ Remove
    <3>1. "status" \in Field /\ 0 \in 0..1
      BY TagPageAssumption
    <3> QED
      BY <2>1, <3>1, SettingsStep
  <2>2. CASE StartWrite \/ StartVerify
    BY <2>2, LocalSteps
  <2>3. CASE StartUnlink \/ \E chip \in Chip : StartTyped(chip)
    BY <2>3, CardSendStep
  <2> QED
    BY <1>2, <2>1, <2>2, <2>3 DEF Owner
<1>3. CASE Answer
  BY <1>3, CardSendStep, LocalSteps DEF Answer
<1>4. CASE Phone
  BY <1>4, CardSendStep, LocalSteps DEF Phone
<1>5. CASE \E c \in calls : Serve(c) \/ Drop(c) \/ Take(c)
  BY <1>5, ServeStep, HandleStep
<1>6. CASE \E c \in late : ServeLate(c)
  BY <1>6, LateStep
<1> QED
  BY <1>1, <1>2, <1>3, <1>4, <1>5, <1>6 DEF Next, Answers

\* What is known of the calls given up on stays so.
LEMMA NextLate == TagPageInv /\ LateIsKnown /\ [Next]_vars => LateIsKnown'
<1> SUFFICES ASSUME TagPageInv, LateIsKnown, [Next]_vars, NEW c \in late'
             PROVE  /\ c.who = "nobody" /\ c.arg \in Args /\ page'.loaded
                    /\ c.what \in {"patch", "rotate", "bind", "rebind", "unbind", "delete"}
                    /\ c.what \in {"bind", "rebind"} => c.arg.chip \in Chip
                    /\ c.what = "unbind" => c.arg.asked = "unlink"
                    /\ c.what = "rebind" =>
                        /\ c.arg.asked \in Confirmable
                        /\ holder'[c.arg.chip] = "there" => c.arg.asked = "nfc_chip_on_other_tag"
  BY DEF LateIsKnown
<1>1. page.loaded => page'.loaded
  <2>1. page \in PageState
    BY DEF TagPageInv, Typed
  <2>2. ASSUME NEW e, Handle(e) PROVE page.loaded => page'.loaded
    BY <2>1, <2>2 DEF Handle, LoadAnswer, PageAnswer, RemoveAnswer, CardAnswer, BindAnswer,
              LookAnswer, UnlinkAnswer, PageState
  <2>3. CASE Owner \/ Answer \/ Phone
    BY <2>1, <2>3 DEF Owner, Patch, Rotate, Remove, StartWrite, StartVerify, StartUnlink, StartTyped,
         Answer, Agree, Decline, Phone, ChipFails, FoldAway, ReadChip, WriteChip, PageState
  <2>4. CASE \E d \in calls : Take(d) \/ Drop(d)
    BY <2>2, <2>4 DEF Take, Drop
  <2>5. CASE UNCHANGED page
    BY <2>5
  <2> QED
    BY <2>3, <2>4, <2>5 DEF Next, Answers, Serve, ServeLate, Request, vars
<1>2. CASE c \in late
  BY <1>1, <1>2, ThereShrinks DEF LateIsKnown
<1>3. CASE c \notin late
  <2>1. PICK d \in calls : /\ Drop(d) /\ c = GivenUp(d) /\ d.what \notin {"get", "lookup"}
    BY <1>3 DEF Next, vars, Drop, ServeLate
  <2>2. /\ d \in Calls /\ CallsAreKnown /\ CardIsKnown /\ FirstLoad
    BY DEF TagPageInv, Typed
  <2>3. c.who = "nobody" /\ c.what = d.what /\ c.arg = d.arg /\ c.arg \in Args
    BY <2>1, <2>2 DEF GivenUp, Calls, Args
  <2>4. d.what \in {"patch", "rotate", "bind", "rebind", "unbind", "delete"}
    BY <2>1, <2>2 DEF Calls
  <2>5. page.loaded
    <3>1. d.who # "load"
      BY <2>4, CallForms
    <3> QED
      BY <2>2, <3>1 DEF FirstLoad
  <2>6. holder' = holder
    BY <2>1 DEF Drop
  <2>7. d.what \in {"bind", "rebind"} => d.arg.chip \in Chip /\ d.arg.chip = card.chip
    BY CallForms
  <2>8. d.what \in {"unbind", "rebind"} =>
            /\ d.arg.asked = card.asked
            /\ card.step = (IF d.what = "unbind" THEN "unlink" ELSE "rebind")
    <3>1. d.what \in {"unbind", "rebind"} => d.who = "card"
      BY CallForms
    <3> QED
      BY <2>2, <3>1 DEF CallsAreKnown, CallOf
  <2> QED
    BY <1>1, <2>2, <2>3, <2>4, <2>5, <2>6, <2>7, <2>8 DEF CardIsKnown, Asks
<1> QED
  BY <1>2, <1>3

\* TagPageInv is an invariant.
LEMMA TagPageInvariant == Spec => [](TagPageInv /\ LateIsKnown)
<1>1. Init => LateIsKnown
  BY DEF Init, LateIsKnown
<1> QED
  BY <1>1, InitInv, NextInv, NextLate, PTL DEF Spec

-----------------------------------------------------------------------------
(* What follows of it. *)

\* The page shows the tag as the server has it whenever nothing is in flight, unless
\* an answer was lost or two parts of the page crossed: the flag busy of TagDetail
\* and the phase of NfcCard keep all other answers apart.
THEOREM PagesShowTheRow == Spec => []PageShowsTheRow
<1>1. TagPageInv => PageShowsTheRow
  BY DEF TagPageInv, ShowsTheRow, PageShowsTheRow
<1> QED
  BY <1>1, TagPageInvariant, PTL

\* Only writeUrl changes a sticker, and it writes to the chip the server has just
\* linked to this tag, or to one that was swapped for it.
LEMMA StickersAreWritten ==
    TagPageInv /\ [Next]_vars =>
        \/ sticker' = sticker
        \/ /\ \E chip \in Chip : sticker' = [sticker EXCEPT ![chip] = card.want]
           /\ card.step = "write" /\ card.chip \in Chip
           /\ row.gone \/ card.strayed \/ holder[card.chip] = "here"
<1> SUFFICES ASSUME TagPageInv, Next PROVE
        \/ sticker' = sticker
        \/ /\ \E chip \in Chip : sticker' = [sticker EXCEPT ![chip] = card.want]
           /\ card.step = "write" /\ card.chip \in Chip
           /\ row.gone \/ card.strayed \/ holder[card.chip] = "here"
  BY DEF vars
<1>1. CASE Owner \/ Answer \/ ChipFails \/ FoldAway \/ \E chip \in Chip : ReadChip(chip)
  BY <1>1 DEF Owner, Patch, Rotate, Remove, StartWrite, StartVerify, StartUnlink, StartTyped,
              Answer, Agree, Decline, ChipFails, FoldAway, ReadChip
<1>2. CASE \/ \E c \in calls : Serve(c) \/ Drop(c) \/ Take(c)
           \/ \E c \in late : ServeLate(c)
  BY <1>2 DEF Serve, ServeLate, Request, Drop, Take
<1>3. CASE \E chip \in Chip : WriteChip(chip)
  BY <1>3 DEF WriteChip, TagPageInv, CardIsKnown
<1> QED
  BY <1>1, <1>2, <1>3 DEF Next, Phone, Answers

\* A sticker whose serial the server refused, or the owner declined to link, is
\* never written.
THEOREM StickersWrittenAreLinked == Spec => OnlyLinkedStickersAreWritten
<1>1. TagPageInv /\ [Next]_vars =>
        [\A c \in Chip : sticker'[c] # sticker[c] /\ c = card.chip
            => holder[c] = "here" \/ row.gone \/ card.strayed]_vars
  BY StickersAreWritten
<1> QED
  BY <1>1, TagPageInvariant, PTL DEF Spec, OnlyLinkedStickersAreWritten

\* Only the server moves a chip: for a call that is waited for, or for a late one.
LEMMA ChipsMove ==
    ASSUME TagPageInv, LateIsKnown, [Next]_vars, holder' # holder
    PROVE  \E c :
            /\ \/ c \in calls /\ late' = late
               \/ c \in late /\ late' = late \ {c}
            /\ \/ ServeBind(c) /\ c.what \in {"bind", "rebind"}
               \/ ServeUnbind(c) /\ c.what = "unbind"
               \/ ServeDelete(c)
<1>1. Next
  BY DEF vars
<1>2. ~(Owner \/ Answer \/ Phone)
  BY DEF Owner, Patch, Rotate, Remove, StartWrite, StartVerify, StartUnlink, StartTyped,
         Answer, Agree, Decline, Phone, ChipFails, FoldAway, ReadChip, WriteChip
<1>3. PICK c : /\ \/ c \in calls /\ late' = late
                  \/ c \in late /\ late' = late \ {c}
               /\ Request(c)
  BY <1>1, <1>2 DEF Next, Answers, Serve, ServeLate, Drop, Take
<1> QED
  BY <1>3 DEF Request, ServeMissing, ServeLookup, ServeTag

\* What bind_nfc does to the chips: one moves to this tag, and the tag's own leaves
\* it; without replace neither the other tag's chip moves nor this tag's own.
LEMMA BindMoves ==
    ASSUME NEW c, ServeBind(c), c.what \in {"bind", "rebind"}, c.arg.chip \in Chip,
           holder \in [Chip -> Party],
           NEW x \in Chip, holder'[x] # holder[x], holder[x] \in {"here", "there"}
    PROVE  c.what = "rebind" /\ (holder[x] = "there" => x = c.arg.chip)
<1>1. holder' = Bound(c.arg.chip) /\ BindRefusal(c.arg.chip, c.what = "rebind") = "none"
  BY DEF ServeBind
<1>2. c.arg.chip \in Chip
  OBVIOUS
<1>3. holder[x] = "there" => x = c.arg.chip
  BY <1>1 DEF Bound
<1>4. holder[x] = "here" => x # c.arg.chip
  BY <1>1, <1>2 DEF Bound
<1>5. c.what # "bind"
  <2> SUFFICES ASSUME c.what = "bind" PROVE FALSE
    OBVIOUS
  <2>1. holder[c.arg.chip] # "there" /\ ~\E d \in Chip \ {c.arg.chip} : holder[d] = "here"
    BY <1>1 DEF BindRefusal
  <2> QED
    BY <1>3, <1>4, <2>1
<1> QED
  BY <1>3, <1>5

\* A chip leaves a tag of the owner's only after a question about it was agreed to,
\* be it one of a handler that has given up on its request since.
THEOREM StickersAreTakenAsked == Spec => NoStickerTakenUnasked
<1> DEFINE OnlyAsked ==
      \A c \in Chip :
        /\ (holder[c] = "there" /\ holder'[c] # "there" => "nfc_chip_on_other_tag" \in Asked)
        /\ (holder[c] = "here" /\ holder'[c] # "here" /\ ~row'.gone
            => Asked \ {"none"} # {})
<1>1. TagPageInv /\ LateIsKnown /\ [Next]_vars => OnlyAsked
  <2> SUFFICES ASSUME TagPageInv, LateIsKnown, [Next]_vars, NEW x \in Chip,
                      holder[x] \in {"here", "there"}, holder'[x] # holder[x]
               PROVE  /\ holder[x] = "there" => "nfc_chip_on_other_tag" \in Asked
                      /\ holder[x] = "here" /\ ~row'.gone => Asked \ {"none"} # {}
    OBVIOUS
  <2>1. PICK c : /\ \/ c \in calls /\ late' = late
                    \/ c \in late /\ late' = late \ {c}
                 /\ \/ ServeBind(c) /\ c.what \in {"bind", "rebind"}
                    \/ ServeUnbind(c) /\ c.what = "unbind"
                    \/ ServeDelete(c)
    BY ChipsMove
  <2>2. /\ holder \in [Chip -> Party]
        /\ row \in [set : [Field -> 0..1], code : Nat, gone : BOOLEAN]
        /\ CallsAreKnown /\ CardIsKnown
    BY DEF TagPageInv, Typed
  <2>3. c.what \in {"rebind", "unbind"} => c.arg.asked \in Asked
    <3>1. CASE c \in late /\ late' = late \ {c}
      BY <3>1 DEF Asked
    <3>2. CASE c \in calls /\ late' = late
      <4>1. c.what \in {"rebind", "unbind"} => c.who = "card"
        BY <3>2, CallForms
      <4>2. c.what \in {"rebind", "unbind"} => c.arg.asked = card.asked
        BY <2>2, <3>2, <4>1 DEF CallsAreKnown
      <4> QED
        BY <3>2, <4>2 DEF Asked
    <3> QED
      BY <2>1, <3>1, <3>2
  <2>4. c.what \in {"bind", "rebind"} => c.arg.chip \in Chip
    BY <2>1, CallForms DEF LateIsKnown
  <2>5. c.what = "rebind" => /\ c.arg.asked \in Confirmable
                             /\ holder[c.arg.chip] = "there" =>
                                    c.arg.asked = "nfc_chip_on_other_tag"
    <3>1. CASE c \in late
      BY <3>1 DEF LateIsKnown
    <3>2. CASE c \in calls
      <4>1. c.what = "rebind" => c.who = "card" /\ c.arg.chip = card.chip
        BY <3>2, CallForms
      <4>2. c.what = "rebind" => card.step = "rebind" /\ c.arg.asked = card.asked
        BY <2>2, <3>2, <4>1 DEF CallsAreKnown, CallOf
      <4> QED
        BY <2>2, <4>1, <4>2 DEF CardIsKnown, Asks
    <3> QED
      BY <2>1, <3>1, <3>2
  <2>6. c.what = "unbind" => c.arg.asked = "unlink"
    <3>1. CASE c \in late
      BY <3>1 DEF LateIsKnown
    <3>2. CASE c \in calls
      <4>1. c.what = "unbind" => c.who = "card"
        BY <3>2, CallForms
      <4>2. c.what = "unbind" => card.step = "unlink" /\ c.arg.asked = card.asked
        BY <2>2, <3>2, <4>1 DEF CallsAreKnown, CallOf
      <4> QED
        BY <2>2, <4>2 DEF CardIsKnown
    <3> QED
      BY <2>1, <3>1, <3>2
  <2>7. CASE ServeBind(c) /\ c.what \in {"bind", "rebind"}
    <3>1. c.what = "rebind" /\ (holder[x] = "there" => x = c.arg.chip)
      BY <2>2, <2>4, <2>7, BindMoves
    <3> QED
      BY <2>3, <2>5, <3>1 DEF Confirmable
  <2>8. CASE ServeUnbind(c) /\ c.what = "unbind"
    <3>1. holder[x] # "there"
      BY <2>2, <2>8 DEF ServeUnbind
    <3> QED
      BY <2>3, <2>6, <2>8, <3>1
  <2>9. CASE ServeDelete(c)
    BY <2>2, <2>9 DEF ServeDelete
  <2> QED
    BY <2>1, <2>7, <2>8, <2>9
<1> QED
  BY <1>1, TagPageInvariant, PTL DEF Spec, NoStickerTakenUnasked

\* Until a sticker is written or the server has answered, the card does not say done.
LEMMA NotDoneYet ==
    ASSUME TagPageInv, card.result # "done",
           \/ Owner \/ Answer \/ ChipFails \/ FoldAway
           \/ \E chip \in Chip : ReadChip(chip)
           \/ \E c \in calls : Serve(c)
           \/ \E c \in late : ServeLate(c)
    PROVE  card'.result # "done"
<1>1. card \in CardState
  BY CardWorks
<1>2. \A r \in Results : Finish(r).result = r
  BY <1>1, FinishCard
<1>3. \A g \in Goals, p \in Phases, s \in Steps :
        Start(g, p, s) \in CardState /\ Start(g, p, s).result = "none"
  BY <1>1, StartCard
<1>4. /\ {"write", "verify", "typed", "unlink"} \subseteq Goals
      /\ {"waiting", "working"} \subseteq Phases
      /\ {"read", "bind", "unlink"} \subseteq Steps
      /\ {"info", "error"} \subseteq Results
  BY DEF Goals, Phases, Steps, Results
<1>5. CASE UNCHANGED card
  BY <1>5
<1>6. CASE StartWrite
  <2> DEFINE s == Start("write", "waiting", "read")
  <2>1. s \in CardState /\ s.result = "none" /\ card' = [s EXCEPT !.want = ScanUrl(page.tag)]
    BY <1>3, <1>4, <1>6 DEF StartWrite
  <2> HIDE DEF s
  <2> QED
    BY <2>1 DEF CardState
<1>7. CASE StartVerify
  BY <1>3, <1>4, <1>7 DEF StartVerify
<1>8. ASSUME NEW chip \in Chip, StartTyped(chip) PROVE card'.result # "done"
  <2> DEFINE s == Start("typed", "working", "bind")
  <2>1. s \in CardState /\ s.result = "none" /\ card' = [s EXCEPT !.chip = chip]
    BY <1>3, <1>4, <1>8 DEF StartTyped
  <2> HIDE DEF s
  <2> QED
    BY <2>1 DEF CardState
<1>9. CASE StartUnlink
  <2> DEFINE s == Start("unlink", "working", "unlink")
  <2>1. s \in CardState /\ s.result = "none" /\ card' = [s EXCEPT !.asked = "unlink"]
    BY <1>3, <1>4, <1>9 DEF StartUnlink
  <2> HIDE DEF s
  <2> QED
    BY <2>1 DEF CardState
<1>10. CASE Agree
  BY <1>1, <1>10 DEF Agree, CardState
<1>11. CASE Decline \/ ChipFails
  BY <1>2, <1>4, <1>11 DEF Decline, ChipFails
<1>12. ASSUME NEW chip \in Chip, ReadChip(chip) PROVE card'.result # "done"
  <2>1. card'.result = card.result
    BY <1>1, <1>12 DEF ReadChip, CardState
  <2> QED
    BY <2>1
<1>13. CASE \/ \E f \in Field, v \in 0..1 : Patch(f, v)
            \/ Rotate \/ Remove \/ FoldAway
            \/ \E c \in calls : Serve(c)
  BY <1>13 DEF Patch, Rotate, Remove, FoldAway, Serve
<1>14. CASE \E c \in late : ServeLate(c)
  BY <1>1, <1>14 DEF ServeLate, CardState
<1> QED
  BY <1>6, <1>7, <1>8, <1>9, <1>10, <1>11, <1>12, <1>13, <1>14 DEF Owner, Answer

\* "Done" means a chip that is linked to this tag and opens it: the one that was
\* read, or another that took its place before the write.
THEOREM DoneOpensTheTag == Spec => DoneMeansItOpens
<1> DEFINE Opens ==
        /\ holder[card.chip] = "here"
        /\ \/ sticker'[card.chip] = card.want
           \/ card.step = "write" /\ \E c \in Chip \ {card.chip} : sticker'[c] = card.want
<1>1. TagPageInv /\ [Next]_vars =>
        [(card'.result = "done" /\ card.result # "done" /\ ~card.strayed
          /\ card.want = LinkTo(row.code) /\ ~row.gone) => Opens]_vars
  <2> SUFFICES ASSUME TagPageInv, Next, card'.result = "done", card.result # "done", ~row.gone,
                      ~card.strayed
               PROVE  Opens
    BY DEF vars
  <2>1. sticker \in [Chip -> Url] /\ CardIsKnown
    BY DEF TagPageInv, Typed
  <2>2. \/ \E chip \in Chip : WriteChip(chip)
        \/ \E c \in calls : Drop(c) \/ Take(c)
    BY NotDoneYet DEF Next, Phone, Answers
  <2>3. CASE \E chip \in Chip : WriteChip(chip)
    <3>1. PICK chip \in Chip : WriteChip(chip)
      BY <2>3
    <3>2. /\ card.step = "write" /\ card.chip \in Chip /\ holder[card.chip] = "here"
          /\ sticker'[chip] = card.want
      BY <2>1, <3>1 DEF WriteChip, CardIsKnown
    <3> QED
      BY <3>1, <3>2
  <2>4. CASE \E c \in calls : Drop(c) \/ Take(c)
    <3>1. PICK c \in calls : Drop(c) \/ Take(c)
      BY <2>4
    <3>2. PICK e : Outcome(c, e) /\ Handle(e)
      BY <3>1, HandleStep
    <3>3. CardAnswer(e)
      BY <3>2 DEF Handle, LoadAnswer, PageAnswer, RemoveAnswer
    <3>4. /\ card.step \in {"bind", "rebind"} /\ c.what \in {"bind", "rebind"}
          /\ e.out = "ok" /\ card.url = card.want /\ card.goal # "typed"
      BY <3>2, <3>3, CardAfter
    <3>5. c.out = "ok"
      BY <3>2, <3>4, OutcomeMeans
    <3>6. holder[card.chip] = "here" /\ card.chip \in Chip
      BY <3>4, <3>5, BindAnswered
    <3>7. card.url = sticker[card.chip]
      BY <2>1, <3>4 DEF CardIsKnown
    <3>8. sticker' = sticker
      BY <3>1 DEF Take, Drop
    <3> QED
      BY <3>4, <3>6, <3>7, <3>8
  <2> QED
    BY <2>2, <2>3, <2>4
<1> QED
  BY <1>1, TagPageInvariant, PTL DEF Spec, DoneMeansItOpens

\* Everything has its type, and each part of the page waits for as many calls as it
\* says.
THEOREM TagPageIsTyped == Spec => []TypeOK
<1>1. TagPageInv /\ LateIsKnown => TypeOK
  <2> SUFFICES ASSUME TagPageInv, LateIsKnown PROVE TypeOK
    OBVIOUS
  <2>1. /\ Typed /\ CallsAreKnown
    BY DEF TagPageInv
  <2>2. \A x \in {"page", "card"} :
            InFlight(calls, {x}) = {} \/ \E c \in calls : InFlight(calls, {x}) = {c}
    BY <2>1 DEF InFlight, CallsAreKnown
  <2>3. \A x \in {"page", "card"} :
            /\ Cardinality(InFlight(calls, {x})) <= 1
            /\ Cardinality(InFlight(calls, {x})) = 1 <=> InFlight(calls, {x}) # {}
    <3> SUFFICES ASSUME NEW x \in {"page", "card"}
                 PROVE  /\ Cardinality(InFlight(calls, {x})) <= 1
                        /\ Cardinality(InFlight(calls, {x})) = 1 <=> InFlight(calls, {x}) # {}
      OBVIOUS
    <3> DEFINE waiting == InFlight(calls, {x})
    <3>1. waiting = {} \/ \E c \in calls : waiting = {c}
      BY <2>2
    <3> HIDE DEF waiting
    <3>2. waiting = {} => Cardinality(waiting) = 0
      BY FS_EmptySet
    <3>3. \A c \in calls : waiting = {c} => Cardinality(waiting) = 1
      BY FS_Singleton
    <3>4. Cardinality(waiting) <= 1 /\ (Cardinality(waiting) = 1 <=> waiting # {})
      BY <3>1, <3>2, <3>3
    <3> QED
      BY <3>4 DEF waiting
  <2>4. page.busy <=> InFlight(calls, {"page"}) # {}
    BY <2>1 DEF InFlight, CallsAreKnown
  <2> QED
    BY <2>1, <2>3, <2>4 DEF Typed, TypeOK, LateIsKnown
<1> QED
  BY <1>1, TagPageInvariant, PTL
=============================================================================
