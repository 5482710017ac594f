------------------------------- MODULE Turnstile -------------------------------
(***************************************************************************)
(* The bot check on a form: useTurnstile of web/src/lib/turnstile.tsx.     *)
(*                                                                         *)
(* The widget is drawn by an effect that runs when the site key arrives,   *)
(* into the container the page has mounted by then.  A page that takes the *)
(* container away and puts it back has an empty one: the effect does not   *)
(* run again.  A token is known by whether it has been sent yet.           *)
(***************************************************************************)

Widget ==
    [key : {"unknown", "off", "on"}, mounted : BOOLEAN,
     drawn : {"no", "loading", "yes", "gone", "failed"}, token : {"none", "fresh", "sent"}]

\* useTurnstile on a page that mounts the container, or does not yet.
NewWidget(mounted) ==
    [key |-> "unknown", mounted |-> mounted, drawn |-> "no", token |-> "none"]

\* What siteKey may return: null also when it fails.
Keys(enabled) == IF enabled THEN {"on", "off"} ELSE {"off"}

\* The key is there; with a container, loadScript begins.
Keyed(w, key) ==
    [w EXCEPT !.key = key, !.drawn = IF key = "on" /\ w.mounted THEN "loading" ELSE @]

\* loadScript succeeds, and the widget is rendered if the container is still
\* there; or it fails, for the life of the page (loadError).
Scripted(w, loads) ==
    [w EXCEPT !.drawn = IF ~loads THEN "failed" ELSE IF w.mounted THEN "yes" ELSE "no"]

\* The callbacks: a token, or its end (expired-callback, error-callback).
Solved(w) == [w EXCEPT !.token = "fresh"]
Expired(w) == [w EXCEPT !.token = "none"]

\* The page's container comes and goes with what the page shows.  What was drawn
\* in it goes with it.
Mount(w, mounted) ==
    [w EXCEPT !.mounted = mounted,
              !.drawn = IF ~mounted /\ @ = "yes" THEN "gone" ELSE @]

\* The token goes out with a call.
SendsToken(w) == [w EXCEPT !.token = IF @ = "none" THEN "none" ELSE "sent"]

\* Mutant: the token is kept.
ResetNothing(w) == w

\* reset
Reset(w) == [w EXCEPT !.token = "none"]

\* ready
Ready(w) == w.key = "off" \/ (w.key = "on" /\ w.token # "none")

\* The next states of a widget by itself.
Moves(w, enabled) ==
    (IF w.key = "unknown" THEN {Keyed(w, k) : k \in Keys(enabled)} ELSE {})
    \cup (IF w.drawn = "loading" THEN {Scripted(w, loads) : loads \in BOOLEAN} ELSE {})
    \cup (IF w.drawn = "yes" THEN IF w.token = "none" THEN {Solved(w)} ELSE {Expired(w)} ELSE {})

\* enforce, at the server: whether the token that came with a call passes.
Genuine(token, enabled) == ~enabled \/ token = "fresh"

=============================================================================
