------------------------------ MODULE SpriteWalk ------------------------------
(***************************************************************************)
(* What the sprite lists promise, whatever the sprites do to them while    *)
(* one of them is walked: a sprite is in one list at most; every sprite in *)
(* the list when its walk ends was offered exactly one turn, those that    *)
(* joined it during the walk included; no sprite is offered a second one.  *)
(***************************************************************************)
CONSTANTS Lists, Sprites, NoList

VARIABLES
  members,  \* [Lists -> the sprites in each]
  walking,  \* the list whose walk is under way, or NoList
  waiting   \* the sprites that walk has still to offer a turn

vars == <<members, walking, waiting>>

Init ==
  /\ members = [l \in Lists |-> {}]
  /\ walking = NoList
  /\ waiting = {}

\* A new sprite joins a list; if the list is being walked it waits its turn.
Enter(l, u) ==
  /\ \A m \in Lists : u \notin members[m]
  /\ members' = [members EXCEPT ![l] = @ \cup {u}]
  /\ waiting' = IF walking = l THEN waiting \cup {u} ELSE waiting
  /\ UNCHANGED walking

\* Some of the sprites of a list are deleted.
Leave(l, S) ==
  /\ S # {} /\ S \subseteq members[l]
  /\ members' = [members EXCEPT ![l] = @ \ S]
  /\ waiting' = waiting \ S
  /\ UNCHANGED walking

\* A sprite changes lists, between walks.
Move(l, m, u) ==
  /\ walking = NoList
  /\ l # m /\ u \in members[l]
  /\ members' = [members EXCEPT ![l] = @ \ {u}, ![m] = @ \cup {u}]
  /\ UNCHANGED <<walking, waiting>>

Start(l) ==
  /\ walking = NoList
  /\ walking' = l
  /\ waiting' = members[l]
  /\ UNCHANGED members

Offer(u) ==
  /\ u \in waiting
  /\ waiting' = waiting \ {u}
  /\ UNCHANGED <<members, walking>>

Finish ==
  /\ walking # NoList /\ waiting = {}
  /\ walking' = NoList
  /\ UNCHANGED <<members, waiting>>

Next ==
  \/ Finish
  \/ \E u \in Sprites : Offer(u)
  \/ \E l \in Lists :
       \/ Start(l)
       \/ \E u \in Sprites : Enter(l, u)
       \/ \E S \in SUBSET Sprites : Leave(l, S)
       \/ \E m \in Lists, u \in Sprites : Move(l, m, u)

Spec == Init /\ [][Next]_vars
===============================================================================
