--------------------------- MODULE ReleaseDelivery ---------------------------
(***************************************************************************)
(* What the deployment of the web client promises to a player: the site    *)
(* offers one version at a time and never goes back to an older one; a     *)
(* version that is out keeps its content, unless it is built again or was  *)
(* brought out incomplete, which spoils it; a page asks for the version    *)
(* once; and the game it then runs has every file with the content of that *)
(* version, if nothing spoilt it, whatever is published, cached or taken   *)
(* over by another worker meanwhile, until the player leaves or loads      *)
(* again.                                                                  *)
(***************************************************************************)
EXTENDS Integers

CONSTANTS Page, Version, File, Content

VARIABLES
  published,  \* the version that the site offers
  content,    \* what each version that is out consists of, 0 before
  spoilt,     \* the versions of which nothing is promised
  chosen,     \* the version each page has been told, 0 before
  playing     \* the content of each file of a page's game, 0 without a game

vars == <<published, content, spoilt, chosen, playing>>

NoGame == [f \in File |-> 0]

Init ==
  /\ published = 1
  /\ content = [v \in Version |-> IF v = 1 THEN 1 ELSE 0]
  /\ spoilt = {}
  /\ chosen = [p \in Page |-> 0]
  /\ playing = [p \in Page |-> NoGame]

Publish(v) ==
  /\ v > published
  /\ published' = v
  /\ content' \in [Version -> Content]
  /\ \A u \in Version : u <= published => content'[u] = content[u]
  /\ spoilt' \in {spoilt, spoilt \cup {v}}
  /\ UNCHANGED <<chosen, playing>>

\* The version that is out is built again.
Rework ==
  /\ spoilt' = spoilt \cup {published}
  /\ content' \in [Version -> Content]
  /\ \A u \in Version : u # published => content'[u] = content[u]
  /\ UNCHANGED <<published, chosen, playing>>

Choose(p) ==
  /\ chosen[p] = 0
  /\ chosen' = [chosen EXCEPT ![p] = published]
  /\ UNCHANGED <<published, content, spoilt, playing>>

\* Of a version that is spoilt the page may get anything.
Play(p) ==
  /\ chosen[p] # 0 /\ playing[p] = NoGame
  /\ UNCHANGED <<published, content, spoilt, chosen>>
  /\ playing'[p] \in [File -> Content]
  /\ playing' = [playing EXCEPT ![p] = playing'[p]]
  /\ chosen[p] \notin spoilt => playing'[p] = [f \in File |-> content[chosen[p]]]

\* A player leaves, or another worker makes several pages load again.
Leave(pages) ==
  /\ chosen' = [p \in Page |-> IF p \in pages THEN 0 ELSE chosen[p]]
  /\ playing' = [p \in Page |-> IF p \in pages THEN NoGame ELSE playing[p]]
  /\ UNCHANGED <<published, content, spoilt>>

Next ==
  \/ \E v \in Version : Publish(v)
  \/ Rework
  \/ \E p \in Page : Choose(p) \/ Play(p)
  \/ \E pages \in SUBSET Page : Leave(pages)

Spec == Init /\ [][Next]_vars
=============================================================================
