----------------------------- MODULE SpriteLists -----------------------------
(***************************************************************************)
(* The sprite lists of the engine (src/src/sprite.cpp, class sprite_list): *)
(* guys, items, Ewpns, Lwpns, decorations, chainlinks.                     *)
(*                                                                         *)
(* A list is an array of pointers with a count, a map from the UID of each *)
(* sprite to its index, a one-entry cache of the last UID a script asked   *)
(* for, and the index (active_iterator) of the loop that is walking it.    *)
(* animate() and run_script() walk a list and call back into every sprite; *)
(* the callback may create sprites, delete any of them, swap two of them,  *)
(* look one up or clear a whole list before it returns.                    *)
(*                                                                         *)
(* A sprite is named by its UID: UIDs are handed out in increasing order   *)
(* and a sprite keeps its own until it is deleted.  A pointer to a sprite  *)
(* is modelled by the UID it had when it was allocated, also after it has  *)
(* been freed, and NULL by NoSprite.  Indices are the program's, from 0;   *)
(* element i of the array is sprites[i+1].                                 *)
(***************************************************************************)
EXTENDS Integers, Sequences, FiniteSets, SequencesExt

CONSTANTS
  Lists,          \* the sprite lists
  MaxUID,         \* bound: UIDs 1..MaxUID are handed out (0 is the hero's)
  Limits,         \* the values a quest may give max_sprites
  Freezable,      \* UIDs of the sprites whose canfreeze flag is set
  ReflectIntoFull \* is a weapon reflected when the other list is full?

ASSUME ListsAssumption   == Lists # {}
ASSUME MaxUIDAssumption  == MaxUID \in Nat
ASSUME LimitsAssumption  == Limits # {} /\ Limits \subseteq Nat \ {0}
ASSUME FlagsAssumption   == ReflectIntoFull \in BOOLEAN

NoSprite == -1  \* NULL
NoIndex  == -1  \* the index of a UID that containedUIDs does not contain
NoList   == "none"
UID      == 1 .. MaxUID

ASSUME NoListAssumption  == NoList \notin Lists

VARIABLES
  list,        \* [Lists -> the fields of a sprite_list]
  nextUID,     \* the static counter of sprite::getNextUID
  live,        \* the sprites made for a list that are allocated
  stray,       \* history: those the code has let go of without freeing them
  freeze_guys, \* the global that suspends the sprites that can freeze
  pass,        \* the walk in progress: its list, its kind, where it is
  turns        \* history: the turns each sprite was given in this walk

vars == <<list, nextUID, live, stray, freeze_guys, pass, turns>>

-----------------------------------------------------------------------------
(* Operations on one list                                                  *)

Count(L) == Len(L.sprites)

\* sprite_list::spr: the pointer at index i, NULL outside the list.
Spr(L, i) == IF i \in 0 .. Count(L) - 1 THEN L.sprites[i + 1] ELSE NoSprite

\* The constructor.
EmptyList(max) ==
  [sprites |-> <<>>, containedUIDs |-> [u \in UID |-> NoIndex],
   lastUIDRequested |-> 0, lastSpriteRequested |-> NoSprite,
   active_iterator |-> 0, max_sprites |-> max]

\* Mutant: the cache keeps a sprite that leaves the list.
KeepsCache(L, u) == L

\* The cache forgets sprite u before u leaves the list.
Forget(L, u) ==
  IF L.lastSpriteRequested = u
  THEN [L EXCEPT !.lastUIDRequested = 0, !.lastSpriteRequested = NoSprite]
  ELSE L

\* A sequence without its element k, the later ones moved down by one.
Without(s, k) == [i \in 1 .. Len(s) - 1 |-> IF i < k THEN s[i] ELSE s[i + 1]]

\* Mutant: the map is not told the new indices.
ClosesGapSilently(L, j) == [L EXCEPT !.sprites = Without(@, j + 1)]

\* The loop that closes the gap at index j: every later sprite moves down by
\* one and the map is told its new index.
CloseGap(L, j) ==
  LET s     == Without(L.sprites, j + 1)
      moved == j + 1 .. Len(s)
  IN  [L EXCEPT
         !.sprites = s,
         !.containedUIDs =
            [u \in UID |-> IF \E k \in moved : s[k] = u
                           THEN (CHOOSE k \in moved : s[k] = u) - 1 ELSE @[u]]]

\* sprite_list::add of a sprite when there is room for it.
Added(L, u) ==
  [L EXCEPT !.sprites = Append(@, u), !.containedUIDs[u] = Count(L)]

HasRoom(L) == Count(L) < L.max_sprites

\* Mutants of del: the walk's index does not follow; follows only when the
\* sprite was before it; always follows.
DeletedWithoutStep(L, j) ==
  LET u == Spr(L, j) IN CloseGap(Forget([L EXCEPT !.containedUIDs[u] = NoIndex], u), j)

DeletedOffByOne(L, j) ==
  LET M == DeletedWithoutStep(L, j)
  IN  IF j < L.active_iterator THEN [M EXCEPT !.active_iterator = @ - 1] ELSE M

DeletedAlwaysSteps(L, j) == [DeletedWithoutStep(L, j) EXCEPT !.active_iterator = @ - 1]

\* sprite_list::del(j), j an index of the list.
Deleted(L, j) ==
  LET u == Spr(L, j)
      M == CloseGap(Forget([L EXCEPT !.containedUIDs[u] = NoIndex], u), j)
  IN  IF j <= L.active_iterator
      THEN [M EXCEPT !.active_iterator = @ - 1] ELSE M

\* Mutant of remove: the sprite stays in the array.
RemovedFromMap(L, s, uid) == [Forget(L, s) EXCEPT !.containedUIDs[uid] = NoIndex]

\* sprite_list::remove(s): s is the pointer, uid what s->getUID() reads.
Removed(L, s, uid) ==
  LET M == [Forget(L, s) EXCEPT !.containedUIDs[uid] = NoIndex]
  IN  IF \E k \in DOMAIN M.sprites : M.sprites[k] = s
      THEN CloseGap(M, (CHOOSE k \in DOMAIN M.sprites : M.sprites[k] = s) - 1)
      ELSE M

\* sprite_list::swap(a, b), both of them indices of the list.
Swapped(L, a, b) ==
  [L EXCEPT !.sprites[a + 1] = Spr(L, b), !.sprites[b + 1] = Spr(L, a),
            !.containedUIDs[Spr(L, b)] = a, !.containedUIDs[Spr(L, a)] = b]

\* sprite_list::clear: del(0) until the list is empty, then reset the cache.
\* Every del(0) moves active_iterator down by one, but never below -1.
Cleared(L) ==
  [L EXCEPT
     !.sprites = <<>>,
     !.containedUIDs = [u \in UID |-> IF u \in ToSet(L.sprites) THEN NoIndex ELSE @[u]],
     !.lastUIDRequested = 0,
     !.lastSpriteRequested = NoSprite,
     !.active_iterator = IF @ >= Count(L) THEN @ - Count(L) ELSE -1]

\* sprite_list::getByUID: its result (Spr of NoIndex is NULL), and the list
\* after it: the cache is updated only when the UID was found.
Found(L, u) ==
  IF u = L.lastUIDRequested THEN L.lastSpriteRequested
  ELSE Spr(L, L.containedUIDs[u])

LookedUp(L, u) ==
  IF u # L.lastUIDRequested /\ L.containedUIDs[u] # NoIndex
  THEN [L EXCEPT !.lastUIDRequested = u, !.lastSpriteRequested = Found(L, u)]
  ELSE L

-----------------------------------------------------------------------------
(* The walks                                                               *)

Idle      == [list |-> NoList, kind |-> "none", at |-> "none", cur |-> NoSprite]
Walking(l)== pass.list = l
InBody(l) == Walking(l) /\ pass.at = "body"

\* Code that is not a list's own loop runs between walks, or in the callback.
OutsideLoop == pass.at # "loop"

\* freeze_guys && canfreeze: the sprite gets no turn.
Frozen(u) == freeze_guys /\ u \in Freezable

Init ==
  /\ list \in [Lists -> {EmptyList(m) : m \in Limits}]
  /\ nextUID = 1
  /\ live = {}
  /\ stray = {}
  /\ freeze_guys = FALSE
  /\ pass = Idle
  /\ turns = [u \in UID |-> 0]

\* sprite_list::animate and run_script: active_iterator = 0.
StartWalk(l, kind) ==
  /\ pass = Idle
  /\ list' = [list EXCEPT ![l].active_iterator = 0]
  /\ pass' = [list |-> l, kind |-> kind, at |-> "loop", cur |-> NoSprite]
  /\ turns' = [u \in UID |-> 0]
  /\ UNCHANGED <<nextUID, live, stray, freeze_guys>>

\* The loop reaches a sprite and calls it.
CallSprite(l) ==
  /\ Walking(l) /\ pass.at = "loop"
  /\ LET u == Spr(list[l], list[l].active_iterator)
     IN  /\ list[l].active_iterator < Count(list[l])
         /\ ~Frozen(u)
         /\ pass' = [pass EXCEPT !.at = "body", !.cur = u]
         /\ turns' = [turns EXCEPT ![u] = @ + 1]
  /\ UNCHANGED <<list, nextUID, live, stray, freeze_guys>>

\* The loop passes over a sprite that is frozen.
SkipFrozen(l) ==
  /\ Walking(l) /\ pass.at = "loop"
  /\ list[l].active_iterator < Count(list[l])
  /\ Frozen(Spr(list[l], list[l].active_iterator))
  /\ list' = [list EXCEPT ![l].active_iterator = @ + 1]
  /\ UNCHANGED <<nextUID, live, stray, freeze_guys, pass, turns>>

\* The callback returns false, or it was run_script's and its result is not
\* used: on to the next sprite.
KeepSprite(l) ==
  /\ InBody(l)
  /\ list' = [list EXCEPT ![l].active_iterator = @ + 1]
  /\ pass' = [pass EXCEPT !.at = "loop", !.cur = NoSprite]
  /\ UNCHANGED <<nextUID, live, stray, freeze_guys, turns>>

\* The loop deletes whatever is at active_iterator when animate() returned
\* true, then moves on.
DropSprite(l) ==
  /\ InBody(l) /\ pass.kind = "animate"
  /\ LET L == list[l]
         i == L.active_iterator
         M == IF i \in 0 .. Count(L) - 1 THEN Deleted(L, i) ELSE L
     IN  /\ list' = [list EXCEPT ![l] = [M EXCEPT !.active_iterator = @ + 1]]
         /\ live' = live \ {Spr(L, i)}
  /\ pass' = [pass EXCEPT !.at = "loop", !.cur = NoSprite]
  /\ UNCHANGED <<nextUID, stray, freeze_guys, turns>>

\* The sprite's own script calls its Remove(): RUNSCRIPT_SELFDELETE makes the
\* callback return false at once.
RemoveSelf(l) ==
  /\ InBody(l) /\ pass.cur \in ToSet(list[l].sprites)
  /\ LET L == list[l]
         M == Deleted(L, (CHOOSE k \in DOMAIN L.sprites : L.sprites[k] = pass.cur) - 1)
     IN  list' = [list EXCEPT ![l] = [M EXCEPT !.active_iterator = @ + 1]]
  /\ live' = live \ {pass.cur}
  /\ pass' = [pass EXCEPT !.at = "loop", !.cur = NoSprite]
  /\ UNCHANGED <<nextUID, stray, freeze_guys, turns>>

\* The loop is over.
EndWalk(l) ==
  /\ Walking(l) /\ pass.at = "loop"
  /\ list[l].active_iterator >= Count(list[l])
  /\ list' = [list EXCEPT ![l].active_iterator = -1]
  /\ pass' = Idle
  /\ UNCHANGED <<nextUID, live, stray, freeze_guys, turns>>

-----------------------------------------------------------------------------
(* What callers do with a list, between walks or in a callback             *)

\* l.add(new ...): the constructor takes the next UID; add deletes the sprite
\* when the list is full.
Create(l) ==
  /\ OutsideLoop /\ nextUID <= MaxUID
  /\ nextUID' = nextUID + 1
  /\ IF HasRoom(list[l])
     THEN /\ list' = [list EXCEPT ![l] = Added(@, nextUID)]
          /\ live' = live \cup {nextUID}
     ELSE UNCHANGED <<list, live>>
  /\ UNCHANGED <<stray, freeze_guys, pass, turns>>

\* l.del(j) of a sprite other than the one whose callback is running.
Delete(l, j) ==
  /\ OutsideLoop
  /\ j \in 0 .. Count(list[l]) - 1
  /\ Spr(list[l], j) # pass.cur
  /\ list' = [list EXCEPT ![l] = Deleted(@, j)]
  /\ live' = live \ {Spr(list[l], j)}
  /\ UNCHANGED <<nextUID, stray, freeze_guys, pass, turns>>

\* A reflected weapon changes lists: to.add(s); from.remove(s), between walks.
\* add frees s when the other list is full, and remove then reads its UID from
\* freed memory: it may read any value.
Reflect(from, to, s) ==
  /\ pass = Idle /\ from # to
  /\ s \in ToSet(list[from].sprites)
  /\ IF HasRoom(list[to])
     THEN /\ list' = [list EXCEPT ![to] = Added(@, s), ![from] = Removed(@, s, s)]
          /\ UNCHANGED live
     ELSE /\ ReflectIntoFull
          /\ \E uid \in UID : list' = [list EXCEPT ![from] = Removed(@, s, uid)]
          /\ live' = live \ {s}
  /\ UNCHANGED <<nextUID, stray, freeze_guys, pass, turns>>

\* Weapons far off the screen are taken out of their list once a frame, one by
\* one, with remove alone: nobody frees them and nobody has them any more.
PhantomsCleanup(l, s) ==
  /\ pass = Idle
  /\ s \in ToSet(list[l].sprites)
  /\ list' = [list EXCEPT ![l] = Removed(@, s, s)]
  /\ stray' = stray \cup {s}
  /\ UNCHANGED <<nextUID, live, freeze_guys, pass, turns>>

\* A dying Ganon makes his pile of dust and does not add it: that line is
\* commented out.
Dustpile ==
  /\ OutsideLoop /\ nextUID <= MaxUID
  /\ nextUID' = nextUID + 1
  /\ live' = live \cup {nextUID}
  /\ stray' = stray \cup {nextUID}
  /\ UNCHANGED <<list, freeze_guys, pass, turns>>

\* l.swap(a, b).  In a callback of l both sprites are behind the current one:
\* segmented enemies reorder their own segments.
Swap(l, a, b) ==
  /\ OutsideLoop
  /\ {a, b} \subseteq 0 .. Count(list[l]) - 1
  /\ Walking(l) => list[l].active_iterator < a /\ list[l].active_iterator < b
  /\ list' = [list EXCEPT ![l] = Swapped(@, a, b)]
  /\ UNCHANGED <<nextUID, live, stray, freeze_guys, pass, turns>>

\* l.clear(): a script of one of its sprites may ask for it during the walk,
\* and goes on in a sprite that is freed.
Clear(l) ==
  /\ OutsideLoop
  /\ list' = [list EXCEPT ![l] = Cleared(@)]
  /\ live' = live \ ToSet(list[l].sprites)
  /\ UNCHANGED <<nextUID, stray, freeze_guys, pass, turns>>

\* l.getByUID(u), u any UID a script has kept.
Lookup(l, u) ==
  /\ OutsideLoop
  /\ list' = [list EXCEPT ![l] = LookedUp(@, u)]
  /\ UNCHANGED <<nextUID, live, stray, freeze_guys, pass, turns>>

\* A quest script changes the size of a list; the list may already be longer.
SetMax(l, m) ==
  /\ OutsideLoop
  /\ list' = [list EXCEPT ![l].max_sprites = m]
  /\ UNCHANGED <<nextUID, live, stray, freeze_guys, pass, turns>>

\* The hero starts or ends a hold-up: guys freeze, or thaw.
SetFreeze ==
  /\ pass = Idle
  /\ freeze_guys' = ~freeze_guys
  /\ UNCHANGED <<list, nextUID, live, stray, pass, turns>>

Walk(l) ==
  \/ \E kind \in {"animate", "script"} : StartWalk(l, kind)
  \/ CallSprite(l)
  \/ SkipFrozen(l)
  \/ KeepSprite(l)
  \/ DropSprite(l)
  \/ RemoveSelf(l)
  \/ EndWalk(l)

Caller(l) ==
  \/ Create(l)
  \/ \E j \in 0 .. Count(list[l]) - 1 : Delete(l, j)
  \/ \E to \in Lists, s \in UID : Reflect(l, to, s)
  \/ \E s \in UID : PhantomsCleanup(l, s)
  \/ \E a, b \in 0 .. Count(list[l]) - 1 : Swap(l, a, b)
  \/ Clear(l)
  \/ \E u \in UID : Lookup(l, u)
  \/ \E m \in Limits : SetMax(l, m)

Next == SetFreeze \/ Dustpile \/ \E l \in Lists : Walk(l) \/ Caller(l)

Spec == Init /\ [][Next]_vars

-----------------------------------------------------------------------------
(* What must hold                                                          *)

Listed(l) == ToSet(list[l].sprites)

SpriteList ==
  [sprites : Seq(UID), containedUIDs : [UID -> Nat \cup {NoIndex}],
   lastUIDRequested : UID \cup {0}, lastSpriteRequested : UID \cup {NoSprite},
   active_iterator : Int, max_sprites : Limits]

\* Between two steps of the code that walks a list, active_iterator is the
\* index of an element or the end of the list, and it is -1 (0 before the first
\* walk) when no walk is under way; in a callback it is never at the end, so
\* that the loop's ++ cannot go past it.
TypeOK ==
  /\ list \in [Lists -> SpriteList]
  /\ nextUID \in 1 .. MaxUID + 1
  /\ live \subseteq UID /\ stray \subseteq UID
  /\ freeze_guys \in BOOLEAN
  /\ pass = Idle \/ pass \in [list : Lists, kind : {"animate", "script"},
                             at : {"loop", "body"}, cur : UID \cup {NoSprite}]
  /\ turns \in [UID -> Nat]
  /\ \A l \in Lists :
       list[l].active_iterator \in
         IF ~Walking(l) THEN {-1, 0}
         ELSE IF InBody(l) THEN -1 .. Count(list[l]) - 1 ELSE 0 .. Count(list[l])

Contained(L) == {u \in UID : L.containedUIDs[u] # NoIndex}

\* sprite_list::checkConsistency, the assertions the calls of which are
\* commented out, of every list at every moment code can call it: the map has
\* an entry per sprite, a sprite is found under its own UID, and the cached
\* UID is one of the list's.  (The last conjunct is what getByUID returns.)
Consistent ==
  \A l \in Lists :
    LET L == list[l]
    IN  /\ Cardinality(Contained(L)) = Count(L)
        /\ L.lastUIDRequested = 0 \/ L.lastUIDRequested \in Contained(L)
        /\ \A i \in 0 .. Count(L) - 1 : Found(L, Spr(L, i)) = Spr(L, i)

\* Ownership: a sprite made for a list is in exactly one list, at one index,
\* until it is freed (clear, del, add of a full list): nothing that lists do to
\* one another loses it or has it freed while a list holds it.  The code itself
\* lets go of a few sprites, in PhantomsCleanup and with the dust pile: those
\* are in no list, and never freed.
OneOwner ==
  /\ live = stray \cup UNION {Listed(l) : l \in Lists}
  /\ \A l \in Lists : IsInjective(list[l].sprites) /\ Listed(l) \cap stray = {}
  /\ \A l, m \in Lists : l # m => Listed(l) \cap Listed(m) = {}

\* getByUID never returns a pointer to a freed sprite, or a sprite other than
\* the one asked for, whatever UID a script has kept.
NoStaleLookup ==
  \A l \in Lists, u \in UID :
    Found(list[l], u) = IF u \in Listed(l) THEN u ELSE NoSprite

\* How many sprites of the list its walk has offered a turn: those before
\* active_iterator, and the one at it once the loop has called it.
Reached(l) == list[l].active_iterator + IF pass.at = "loop" THEN 0 ELSE 1

\* The sprites it has still to reach.
Waiting(l) ==
  {list[l].sprites[k] : k \in {k \in DOMAIN list[l].sprites : k > Reached(l)}}

\* When a walk ends every sprite in its list has had one turn, or none if it
\* is frozen: deletions, swaps and additions made by the sprites on the way
\* neither skip a sprite nor call one twice.
EveryoneHadOneTurn ==
  [][\A l \in Lists : EndWalk(l) =>
       \A u \in Listed(l) : turns[u] = IF Frozen(u) THEN 0 ELSE 1]_vars

\* Why these hold, in a form every step preserves.  No UID is given out twice;
\* the sprite in its callback is the one at active_iterator, or no longer in
\* the list; and the walk has given a turn to the sprites it has passed and to
\* no other.
TurnsInOrder ==
  /\ \A u \in UID : u >= nextUID => u \notin live /\ turns[u] = 0
  /\ \A l \in Lists : InBody(l) =>
       /\ pass.cur \in UID /\ pass.cur < nextUID
       /\ \A k \in DOMAIN list[l].sprites : list[l].sprites[k] = pass.cur <=> k = Reached(l)
  /\ \A l \in Lists : Walking(l) =>
       \A k \in DOMAIN list[l].sprites :
         turns[list[l].sprites[k]] =
           IF k > Reached(l) \/ Frozen(list[l].sprites[k]) THEN 0 ELSE 1

\* The map and the cache of a list tell the truth.
Exact(L) ==
  /\ Contained(L) = ToSet(L.sprites)
  /\ \A k \in DOMAIN L.sprites : L.containedUIDs[L.sprites[k]] = k - 1
  /\ \/ L.lastUIDRequested = 0 /\ L.lastSpriteRequested = NoSprite
     \/ L.lastUIDRequested \in Contained(L) /\ L.lastSpriteRequested = L.lastUIDRequested

WalkInv == TypeOK /\ OneOwner /\ TurnsInOrder
MapsInv == \A l \in Lists : Exact(list[l])

\* The lists do what SpriteWalk promises.  A walk has still to offer
\* a turn to the sprites of Waiting.
Promised == INSTANCE SpriteWalk WITH
  Sprites <- UID,
  members <- [l \in Lists |-> Listed(l)],
  walking <- pass.list,
  waiting <- IF pass = Idle THEN {} ELSE Waiting(pass.list)

PromiseKept == Promised!Spec
=============================================================================
