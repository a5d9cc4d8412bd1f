--------------------------- MODULE SpriteWalkProofs ---------------------------
(* Proof that SpriteLists implements SpriteWalk, for any lists, limits and    *)
(* number of sprites.                                                         *)
EXTENDS SpriteListsProofs

\* What a sequence holds after its first i elements.
Rest(s, i) == {s[k] : k \in {k \in DOMAIN s : k > i}}

LEMMA RestMember ==
  ASSUME NEW s, NEW i, NEW u
  PROVE  u \in Rest(s, i) <=> \E k \in DOMAIN s : k > i /\ s[k] = u
  BY DEF Rest

LEMMA RestAppend ==
  ASSUME NEW s \in Seq(UID), NEW u \in UID, NEW i \in 0 .. Len(s)
  PROVE  Rest(Append(s, u), i) = Rest(s, i) \cup {u}
<1> DEFINE t == Append(s, u)
<1>1. /\ DOMAIN t = 1 .. Len(s) + 1 /\ DOMAIN s = 1 .. Len(s) /\ Len(s) \in Nat
      /\ t[Len(s) + 1] = u /\ \A k \in DOMAIN s : t[k] = s[k]
  OBVIOUS
<1> HIDE DEF t
<1>2. \A v : v \in Rest(t, i) <=> v \in Rest(s, i) \/ v = u
  <2> TAKE v
  <2>1. \A k \in DOMAIN t : k \in DOMAIN s \/ k = Len(s) + 1
    BY <1>1
  <2>2. Len(s) + 1 \in DOMAIN t /\ Len(s) + 1 > i /\ DOMAIN s \subseteq DOMAIN t
    BY <1>1
  <2> QED BY <2>1, <2>2, <1>1, RestMember
<1>3. Rest(t, i) = Rest(s, i) \cup {u}
  BY <1>2
<1> QED BY <1>3 DEF t

\* Taking an element out of a sequence takes it out of what is left of it.
LEMMA RestWithout ==
  ASSUME NEW s \in Seq(UID), IsInjective(s), NEW j \in 1 .. Len(s), NEW i \in Int
  PROVE  Rest(Without(s, j), IF j <= i THEN i - 1 ELSE i) = Rest(s, i) \ {s[j]}
<1> DEFINE t == Without(s, j)
           n == IF j <= i THEN i - 1 ELSE i
<1>1. /\ DOMAIN t = 1 .. Len(s) - 1 /\ DOMAIN s = 1 .. Len(s) /\ Len(s) \in Nat
      /\ \A k \in 1 .. Len(s) - 1 : t[k] = IF k < j THEN s[k] ELSE s[k + 1]
  BY WithoutElement
<1>2. \A a, b \in DOMAIN s : s[a] = s[b] => a = b
  BY DEF IsInjective
<1> HIDE DEF t
<1>3. ASSUME NEW k \in DOMAIN t, k > n PROVE t[k] \in Rest(s, i) \ {s[j]}
  <2>1. k \in Int /\ k \in 1 .. Len(s) - 1
    BY <1>1
  <2>2. CASE k < j
    <3>1. t[k] = s[k] /\ k \in DOMAIN s /\ k > i /\ k # j
      BY <2>1, <2>2, <1>1, <1>3
    <3> QED BY <3>1, <1>1, <1>2, RestMember
  <2>3. CASE ~(k < j)
    <3>1. t[k] = s[k + 1] /\ k + 1 \in DOMAIN s /\ k + 1 > i /\ k + 1 # j
      BY <2>1, <2>3, <1>1, <1>3
    <3> QED BY <3>1, <1>1, <1>2, RestMember
  <2> QED BY <2>2, <2>3
<1>4. ASSUME NEW k \in DOMAIN s, k > i, k # j PROVE s[k] \in Rest(t, n)
  <2>1. k \in Int /\ k \in 1 .. Len(s)
    BY <1>1
  <2>2. CASE k < j
    <3>1. t[k] = s[k] /\ k \in DOMAIN t /\ k > n
      BY <2>1, <2>2, <1>1, <1>4
    <3> QED BY <3>1, RestMember
  <2>3. CASE k > j
    <3>1. (k - 1) + 1 = k /\ k - 1 \in DOMAIN t /\ k - 1 > n /\ ~(k - 1 < j)
      BY <2>1, <2>3, <1>1, <1>4
    <3>2. t[k - 1] = s[k]
      BY <3>1, <1>1
    <3> QED BY <3>1, <3>2, RestMember
  <2> QED BY <2>1, <2>2, <2>3, <1>4
<1> HIDE DEF n
<1>5. \A u : u \in Rest(t, n) <=> u \in Rest(s, i) \ {s[j]}
  <2> TAKE u
  <2>1. u \in Rest(t, n) => u \in Rest(s, i) \ {s[j]}
    BY <1>3, RestMember
  <2>2. u \in Rest(s, i) \ {s[j]} => u \in Rest(t, n)
    BY <1>4, RestMember
  <2> QED BY <2>1, <2>2
<1>6. Rest(t, n) = Rest(s, i) \ {s[j]}
  BY <1>5
<1> QED BY <1>6 DEF t, n

\* Exchanging two elements of what is left of a sequence keeps its elements.
LEMMA RestExchanged ==
  ASSUME NEW s \in Seq(UID), IsInjective(s), NEW i \in Int,
         NEW a \in DOMAIN s, NEW b \in DOMAIN s, a > i, b > i
  PROVE  Rest(Exchanged(s, a, b), i) = Rest(s, i)
<1> DEFINE t == Exchanged(s, a, b)
<1>1. /\ DOMAIN t = DOMAIN s
      /\ \A k \in DOMAIN s : t[k] = IF k = b THEN s[a] ELSE IF k = a THEN s[b] ELSE s[k]
  BY SwapSet
<1> HIDE DEF t
<1>2. \A u : u \in Rest(t, i) <=> u \in Rest(s, i)
  <2> TAKE u
  <2>1. u \in Rest(t, i) => u \in Rest(s, i)
    BY <1>1, RestMember
  <2>2. ASSUME NEW k \in DOMAIN s, k > i, s[k] = u PROVE u \in Rest(t, i)
    <3>1. t[b] = s[a] /\ (a # b => t[a] = s[b]) /\ (k \notin {a, b} => t[k] = s[k])
      BY <1>1
    <3> QED BY <3>1, <2>2, <1>1, RestMember
  <2> QED BY <2>1, <2>2, RestMember
<1> QED BY <1>2 DEF t

\* The walk moves on over an element.
LEMMA RestNext ==
  ASSUME NEW s \in Seq(UID), IsInjective(s), NEW i \in 0 .. Len(s) - 1
  PROVE  s[i + 1] \in Rest(s, i) /\ Rest(s, i + 1) = Rest(s, i) \ {s[i + 1]}
<1>1. DOMAIN s = 1 .. Len(s) /\ Len(s) \in Nat /\ i + 1 \in DOMAIN s /\ i + 1 > i
  OBVIOUS
<1>2. \A k \in DOMAIN s : k > i + 1 <=> k > i /\ k # i + 1
  BY <1>1
<1>3. \A k \in DOMAIN s : k # i + 1 <=> s[k] # s[i + 1]
  BY <1>1 DEF IsInjective
<1>4. \A u : u \in Rest(s, i + 1) <=> u \in Rest(s, i) /\ u # s[i + 1]
  BY <1>2, <1>3, RestMember
<1> QED BY <1>1, <1>4, RestMember

LEMMA RestEnds ==
  ASSUME NEW s \in Seq(UID)
  PROVE  /\ Rest(s, 0) = ToSet(s)
         /\ \A i \in Int : i >= Len(s) => Rest(s, i) = {}
  BY DEF Rest, ToSet

-----------------------------------------------------------------------------
(* What SpriteWalk sees of a state                                         *)

Members  == [l \in Lists |-> Listed(l)]
Awaiting == IF pass = Idle THEN {} ELSE Waiting(pass.list)

LEMMA WaitingRest == ASSUME NEW l PROVE Waiting(l) = Rest(list[l].sprites, Reached(l))
  BY DEF Waiting, Rest

\* A step that replaces list l by M, and leaves the walk where it is when the
\* walk is of another list.
LEMMA ViewStep ==
  ASSUME WalkInv, NEW l \in Lists, NEW M, list' = [list EXCEPT ![l] = M],
         pass'.list = pass.list, Walking(l) \/ pass' = pass
  PROVE  /\ Members' = [Members EXCEPT ![l] = ToSet(M.sprites)]
         /\ ~Walking(l) => Awaiting' = Awaiting
         /\ Walking(l) => /\ Awaiting = Rest(list[l].sprites, Reached(l))
                          /\ Awaiting' = Rest(M.sprites, Reached(l)')
<1>1. list'[l] = M /\ \A m \in Lists : m # l => list'[m] = list[m]
  BY DEF WalkInv, TypeOK
<1>2. Members' = [Members EXCEPT ![l] = ToSet(M.sprites)]
  <2>1. \A m \in Lists : Listed(m)' = IF m = l THEN ToSet(M.sprites) ELSE Listed(m)
    BY <1>1 DEF Listed
  <2>2. Members' = [m \in Lists |-> Listed(m)']
    BY DEF Members
  <2> QED BY <2>1, <2>2 DEF Members
<1>3. ASSUME Walking(l)
      PROVE  /\ Awaiting = Rest(list[l].sprites, Reached(l))
             /\ Awaiting' = Rest(M.sprites, Reached(l)')
  <2>1. pass.list = l /\ pass'.list = l /\ pass # Idle /\ pass' # Idle
    BY <1>3, NoListAssumption DEF Walking, Idle
  <2>2. Awaiting = Waiting(l) /\ Awaiting' = Waiting(l)'
    BY <2>1 DEF Awaiting, Waiting, Reached
  <2>3. Waiting(l)' = Rest(list'[l].sprites, Reached(l)')
    BY DEF Waiting, Rest
  <2> QED BY <2>2, <2>3, <1>1, WaitingRest
<1>4. ASSUME ~Walking(l) PROVE Awaiting' = Awaiting
  <2>1. pass' = pass
    BY <1>4
  <2>2. CASE pass = Idle
    BY <2>1, <2>2 DEF Awaiting
  <2>3. CASE pass # Idle
    <3>1. pass.list \in Lists /\ pass.list # l
      BY <1>4, <2>3 DEF WalkInv, TypeOK, Walking
    <3>2. list'[pass.list] = list[pass.list]
      BY <3>1, <1>1
    <3> QED BY <2>1, <2>3, <3>2 DEF Awaiting, Waiting, Reached
  <2> QED BY <2>2, <2>3
<1> QED BY <1>2, <1>3, <1>4

Viewed == Promised!Next \/ UNCHANGED Promised!vars

LEMMA StutterView ==
  ASSUME Members' = Members, pass'.list = pass.list, Awaiting' = Awaiting
  PROVE  Viewed
  BY DEF Viewed, Promised!vars, Members, Awaiting

\* Sprites leave list l.
LEMMA LeaveView ==
  ASSUME NEW l \in Lists, NEW S \in SUBSET UID, S \subseteq Listed(l), pass'.list = pass.list,
         Members' = [Members EXCEPT ![l] = Listed(l) \ S], Awaiting' = Awaiting \ S
  PROVE  Viewed
<1>1. CASE S = {}
  <2>1. Members' = Members /\ Awaiting' = Awaiting
    BY <1>1 DEF Members
  <2> QED BY <2>1, StutterView
<1>2. CASE S # {}
  <2>1. Promised!Leave(l, S)
    BY <1>2 DEF Promised!Leave, Members, Awaiting
  <2> QED BY <2>1 DEF Viewed, Promised!Next
<1> QED BY <1>1, <1>2

\* What is waiting is in the list being walked.
LEMMA AwaitingListed ==
  ASSUME WalkInv, NEW l \in Lists, ~Walking(l)
  PROVE  Awaiting \cap Listed(l) = {}
<1>1. CASE pass = Idle
  BY <1>1 DEF Awaiting
<1>2. CASE pass # Idle
  <2>1. pass.list \in Lists /\ pass.list # l
    BY <1>2 DEF WalkInv, TypeOK, Walking
  <2>2. Awaiting \subseteq Listed(pass.list)
    BY <1>2 DEF Awaiting, Waiting, Listed, ToSet
  <2> QED BY <2>1, <2>2 DEF WalkInv, OneOwner
<1> QED BY <1>1, <1>2

\* A step in which list l loses the sprites S, and the walk stays where it is
\* among the others.
LEMMA LossView ==
  ASSUME WalkInv, NEW l \in Lists, NEW M, list' = [list EXCEPT ![l] = M],
         pass'.list = pass.list, Walking(l) \/ pass' = pass,
         NEW S \in SUBSET UID, S \subseteq Listed(l), ToSet(M.sprites) = Listed(l) \ S,
         Walking(l) => Rest(M.sprites, Reached(l)') = Rest(list[l].sprites, Reached(l)) \ S
  PROVE  Viewed
<1>1. Members' = [Members EXCEPT ![l] = Listed(l) \ S]
  BY ViewStep
<1>2. Awaiting' = Awaiting \ S
  <2>1. CASE Walking(l)
    BY <2>1, ViewStep
  <2>2. CASE ~Walking(l)
    <3>1. Awaiting' = Awaiting
      BY <2>2, ViewStep
    <3>2. Awaiting \cap S = {}
      BY <2>2, AwaitingListed
    <3> QED BY <3>1, <3>2
  <2> QED BY <2>1, <2>2
<1> QED BY <1>1, <1>2, LeaveView

-----------------------------------------------------------------------------
(* Every step is one of SpriteWalk's, or changes nothing it sees           *)

LEMMA InitView == Init => Promised!Init
<1> SUFFICES ASSUME Init PROVE Promised!Init
  OBVIOUS
<1>1. \A l \in Lists : Listed(l) = {}
  <2>1. \A m \in Limits : EmptyList(m).sprites = <<>>
    BY DEF EmptyList
  <2>2. \A l \in Lists : list[l].sprites = <<>>
    BY <2>1 DEF Init
  <2> QED BY <2>2 DEF Listed, ToSet
<1>2. pass = Idle /\ pass.list = NoList
  BY DEF Init, Idle
<1>3. [l \in Lists |-> Listed(l)] = [l \in Lists |-> {}]
  BY <1>1
<1> QED BY <1>2, <1>3 DEF Promised!Init

\* A caller's step in which list l loses the sprite at index j.
LEMMA DeleteView ==
  ASSUME WalkInv, NEW l \in Lists, NEW j \in 0 .. Count(list[l]) - 1, Delete(l, j)
  PROVE  Viewed
<1> DEFINE L == list[l]
           M == Deleted(L, j)
           u == L.sprites[j + 1]
<1>1. OutsideLoop /\ pass' = pass /\ list' = [list EXCEPT ![l] = M]
  BY DEF Delete
<1>2. /\ L \in SpriteList /\ L.sprites \in Seq(UID) /\ IsInjective(L.sprites)
      /\ Len(L.sprites) \in Nat
      /\ Walking(l) => InBody(l) /\ L.active_iterator \in -1 .. Len(L.sprites) - 1
  BY <1>1, CallerFinds
<1>3. /\ M.sprites = Without(L.sprites, j + 1)
      /\ M.active_iterator =
           IF j <= L.active_iterator THEN L.active_iterator - 1 ELSE L.active_iterator
  BY <1>2, DeletedFields
<1>4. j + 1 \in 1 .. Len(L.sprites) /\ u \in UID /\ j \in Int
  BY <1>2 DEF Count
<1>5. ToSet(M.sprites) = Listed(l) \ {u} /\ {u} \subseteq Listed(l)
  <2>1. ToSet(Without(L.sprites, j + 1)) = ToSet(L.sprites) \ {u}
    BY <1>2, <1>4, WithoutSet
  <2>2. u \in ToSet(L.sprites)
    BY <1>2, <1>4 DEF ToSet
  <2> QED BY <2>1, <2>2, <1>3 DEF Listed
<1>6. list'[l] = M
  BY <1>1 DEF WalkInv, TypeOK
<1> HIDE DEF M, L, u
<1>7. ASSUME Walking(l)
      PROVE  Rest(M.sprites, Reached(l)') = Rest(list[l].sprites, Reached(l)) \ {u}
  <2> DEFINE i == L.active_iterator + 1
  <2>1. L.active_iterator \in Int
    BY <1>2, <1>7
  <2>2. /\ Reached(l) = i
        /\ Reached(l)' = IF j + 1 <= i THEN i - 1 ELSE i
    BY <2>1, <1>1, <1>2, <1>3, <1>4, <1>6, <1>7 DEF Reached, InBody, L
  <2>3. i \in Int
    BY <2>1
  <2> HIDE DEF i
  <2>4. Rest(Without(L.sprites, j + 1), IF j + 1 <= i THEN i - 1 ELSE i)
          = Rest(L.sprites, i) \ {L.sprites[j + 1]}
    BY <2>3, <1>2, <1>4, RestWithout
  <2> QED BY <2>2, <2>4, <1>3 DEF L, u
<1> QED BY <1>1, <1>4, <1>5, <1>7, LossView

LEMMA CreateView ==
  ASSUME WalkInv, NEW l \in Lists, Create(l)
  PROVE  Viewed
<1> DEFINE L == list[l]
           u == nextUID
           M == Added(L, u)
<1>1. OutsideLoop /\ pass' = pass /\ u \in UID
  BY MaxUIDAssumption DEF Create, WalkInv, TypeOK, UID
<1>2. /\ L \in SpriteList /\ L.sprites \in Seq(UID) /\ IsInjective(L.sprites)
      /\ Len(L.sprites) \in Nat /\ ToSet(L.sprites) \subseteq live
      /\ Walking(l) => InBody(l) /\ L.active_iterator \in -1 .. Len(L.sprites) - 1
  BY <1>1, CallerFinds
<1>3. u \notin live
  BY <1>1 DEF WalkInv, TurnsInOrder, UID
<1>4. CASE HasRoom(L)
  <2>1. /\ list' = [list EXCEPT ![l] = M] /\ M.sprites = Append(L.sprites, u)
        /\ M.active_iterator = L.active_iterator
    BY <1>1, <1>2, <1>4, AddedFields DEF Create
  <2>2. ToSet(M.sprites) = Listed(l) \cup {u}
    BY <1>1, <1>2, <1>3, <2>1, AppendSet DEF Listed
  <2>3. list'[l] = M
    BY <2>1 DEF WalkInv, TypeOK
  <2> HIDE DEF M, L
  <2>4. Members' = [Members EXCEPT ![l] = Listed(l) \cup {u}]
    BY <1>1, <2>1, <2>2, ViewStep
  <2>5. ASSUME Walking(l) PROVE Awaiting' = Awaiting \cup {u}
    <3>1. /\ Reached(l) = L.active_iterator + 1 /\ Reached(l)' = L.active_iterator + 1
          /\ L.active_iterator + 1 \in 0 .. Len(L.sprites)
      BY <2>1, <2>3, <2>5, <1>1, <1>2 DEF Reached, InBody, L
    <3>2. Rest(M.sprites, Reached(l)') = Rest(L.sprites, Reached(l)) \cup {u}
      BY <3>1, <2>1, <1>1, <1>2, RestAppend
    <3> QED BY <3>2, <2>1, <2>5, <1>1, ViewStep DEF L
  <2>6. ~Walking(l) => Awaiting' = Awaiting
    BY <2>1, <1>1, ViewStep
  <2>7. \A m \in Lists : u \notin Listed(m)
    BY <1>3 DEF WalkInv, OneOwner
  <2> HIDE DEF u
  <2>8. Members[l] = Listed(l) /\ \A m \in Lists : u \notin Members[m]
    BY <2>7 DEF Members
  <2>9. Promised!Enter(l, u)
    BY <2>4, <2>5, <2>6, <2>8, <1>1 DEF Promised!Enter, Members, Awaiting, Walking
  <2> QED BY <2>9, <1>1 DEF Viewed, Promised!Next
<1>5. CASE ~HasRoom(L)
  <2>1. Members' = Members /\ Awaiting' = Awaiting
    BY <1>1, <1>5 DEF Create, Members, Awaiting, Listed, Waiting, Reached
  <2> QED BY <2>1, <1>1, StutterView
<1> QED BY <1>4, <1>5

LEMMA ReflectView ==
  ASSUME WalkInv, NEW from \in Lists, NEW to \in Lists, NEW s \in UID, Reflect(from, to, s)
  PROVE  Viewed
<1> DEFINE F == list[from]
           T == list[to]
<1>1. /\ pass = Idle /\ pass' = pass /\ pass.list = NoList /\ OutsideLoop
      /\ from # to /\ s \in Listed(from) /\ ~Walking(from)
  BY NoListAssumption DEF Reflect, Listed, Idle, OutsideLoop, Walking
<1>2. /\ F \in SpriteList /\ F.sprites \in Seq(UID) /\ IsInjective(F.sprites)
      /\ T \in SpriteList /\ T.sprites \in Seq(UID) /\ IsInjective(T.sprites)
  BY <1>1, CallerFinds
<1>3. Awaiting = {} /\ Awaiting' = {}
  BY <1>1 DEF Awaiting
<1>4. ASSUME NEW uid \in UID PROVE ToSet(Removed(F, s, uid).sprites) = Listed(from) \ {s}
  BY <1>1, <1>2, RemovedSprite DEF Listed
<1>5. CASE HasRoom(T)
  <2> DEFINE A == Added(T, s)
             R == Removed(F, s, s)
  <2>1. list' = [list EXCEPT ![to] = A, ![from] = R]
    BY <1>1, <1>5 DEF Reflect
  <2>2. s \notin Listed(to)
    BY <1>1 DEF WalkInv, OneOwner
  <2>3. ToSet(A.sprites) = Listed(to) \cup {s}
    <3>1. A.sprites = Append(T.sprites, s)
      BY <1>2, AddedFields
    <3>2. ToSet(Append(T.sprites, s)) = ToSet(T.sprites) \cup {s}
      BY <1>2, <2>2, AppendSet DEF Listed
    <3> QED BY <3>1, <3>2 DEF Listed
  <2>4. ToSet(R.sprites) = Listed(from) \ {s}
    BY <1>4
  <2> HIDE DEF A, R, F, T
  <2>5. \A m \in Lists : Listed(m)' = IF m = from THEN Listed(from) \ {s}
                                      ELSE IF m = to THEN Listed(to) \cup {s} ELSE Listed(m)
    <3>1. /\ list'[to] = A /\ list'[from] = R
          /\ \A m \in Lists : m # to /\ m # from => list'[m] = list[m]
      BY <2>1, <1>1 DEF WalkInv, TypeOK
    <3>2. \A m : Listed(m)' = ToSet(list'[m].sprites)
      BY DEF Listed
    <3>3. \A m \in Lists : m # to /\ m # from => Listed(m)' = Listed(m)
      BY <3>1, <3>2 DEF Listed
    <3> QED BY <3>1, <3>2, <3>3, <2>3, <2>4, <1>1
  <2>6. Members' = [m \in Lists |-> Listed(m)']
    BY DEF Members
  <2>7. Members' = [Members EXCEPT ![from] = Members[from] \ {s}, ![to] = Members[to] \cup {s}]
    BY <2>5, <2>6, <1>1 DEF Members
  <2>8. s \in Members[from]
    BY <1>1 DEF Members
  <2>9. Promised!Move(from, to, s)
    BY <2>7, <2>8, <1>1, <1>3 DEF Promised!Move, Members, Awaiting
  <2> QED BY <2>9 DEF Viewed, Promised!Next
<1>6. CASE ~HasRoom(T)
  <2>1. PICK uid \in UID : list' = [list EXCEPT ![from] = Removed(F, s, uid)]
    BY <1>6 DEF Reflect
  <2> DEFINE R == Removed(F, s, uid)
  <2>2. list' = [list EXCEPT ![from] = R] /\ ToSet(R.sprites) = Listed(from) \ {s}
    BY <2>1, <1>4
  <2> HIDE DEF R
  <2>3. {s} \subseteq Listed(from) /\ {s} \in SUBSET UID
    BY <1>1
  <2> QED BY <2>2, <2>3, <1>1, LossView
<1> QED BY <1>5, <1>6

LEMMA PhantomsCleanupView ==
  ASSUME WalkInv, NEW l \in Lists, NEW s \in UID, PhantomsCleanup(l, s)
  PROVE  Viewed
<1> DEFINE R == Removed(list[l], s, s)
<1>1. /\ pass' = pass /\ OutsideLoop /\ s \in Listed(l) /\ ~Walking(l)
      /\ list' = [list EXCEPT ![l] = R]
  BY NoListAssumption DEF PhantomsCleanup, Listed, Idle, OutsideLoop, Walking
<1>2. list[l] \in SpriteList /\ IsInjective(list[l].sprites)
  BY <1>1, CallerFinds
<1>3. ToSet(R.sprites) = Listed(l) \ {s}
  BY <1>1, <1>2, RemovedSprite DEF Listed
<1> HIDE DEF R
<1>4. {s} \subseteq Listed(l) /\ {s} \in SUBSET UID
  BY <1>1
<1> QED BY <1>1, <1>3, <1>4, LossView

\* Steps of a caller that change neither the members nor what is waiting, and
\* clear.
LEMMA OtherCallerView ==
  ASSUME WalkInv, NEW l \in Lists,
         \/ \E a, b \in 0 .. Count(list[l]) - 1 : Swap(l, a, b)
         \/ Clear(l)
         \/ \E u \in UID : Lookup(l, u)
         \/ \E m \in Limits : SetMax(l, m)
  PROVE  Viewed
<1> DEFINE L == list[l]
<1>1. OutsideLoop /\ pass' = pass
  BY DEF Swap, Clear, Lookup, SetMax
<1>2. /\ L \in SpriteList /\ L.sprites \in Seq(UID) /\ IsInjective(L.sprites)
      /\ DOMAIN L.sprites = 1 .. Len(L.sprites) /\ Len(L.sprites) \in Nat
      /\ Walking(l) => InBody(l) /\ L.active_iterator \in -1 .. Len(L.sprites) - 1
  BY <1>1, CallerFinds
<1>3. Walking(l) => Reached(l) = L.active_iterator + 1
  BY <1>2 DEF Reached, InBody
<1>4. ASSUME NEW M, list' = [list EXCEPT ![l] = M], M.active_iterator = L.active_iterator,
             ToSet(M.sprites) = Listed(l),
             Walking(l) => Rest(M.sprites, L.active_iterator + 1) = Rest(L.sprites, L.active_iterator + 1)
      PROVE  Viewed
  <2>1. list'[l] = M
    BY <1>4 DEF WalkInv, TypeOK
  <2>2. Walking(l) => Reached(l)' = L.active_iterator + 1
    BY <2>1, <1>1, <1>2, <1>4 DEF Reached, InBody
  <2> HIDE DEF L
  <2>3. Walking(l) => Rest(M.sprites, Reached(l)') = Rest(L.sprites, Reached(l)) \ {}
    BY <2>2, <1>3, <1>4
  <2>4. ToSet(M.sprites) = Listed(l) \ {} /\ {} \subseteq Listed(l) /\ {} \in SUBSET UID
    BY <1>4
  <2> QED BY <2>3, <2>4, <1>1, <1>4, LossView DEF L
<1>5. ASSUME NEW a \in 0 .. Count(L) - 1, NEW b \in 0 .. Count(L) - 1, Swap(l, a, b) PROVE Viewed
  <2> DEFINE M == Swapped(L, a, b)
  <2>1. list' = [list EXCEPT ![l] = M]
    BY <1>5 DEF Swap
  <2>2. M.sprites = Exchanged(L.sprites, a + 1, b + 1) /\ M.active_iterator = L.active_iterator
    BY <1>2, SwappedFields
  <2>3. a + 1 \in DOMAIN L.sprites /\ b + 1 \in DOMAIN L.sprites
    BY <1>2 DEF Count
  <2>4. ToSet(M.sprites) = Listed(l)
    BY <1>2, <2>2, <2>3, SwapSet DEF Listed
  <2>5. ASSUME Walking(l)
        PROVE  Rest(M.sprites, L.active_iterator + 1) = Rest(L.sprites, L.active_iterator + 1)
    <3>1. L.active_iterator < a /\ L.active_iterator < b
      BY <1>5, <2>5 DEF Swap
    <3>2. /\ L.active_iterator + 1 \in Int
          /\ a + 1 > L.active_iterator + 1 /\ b + 1 > L.active_iterator + 1
      BY <3>1, <1>2, <2>5
    <3> QED BY <3>2, <2>2, <2>3, <1>2, RestExchanged
  <2> HIDE DEF M
  <2> QED BY <2>1, <2>2, <2>4, <2>5, <1>4
<1>6. ASSUME Clear(l) PROVE Viewed
  <2> DEFINE M == Cleared(L)
  <2>1. list' = [list EXCEPT ![l] = M] /\ M.sprites = <<>>
    BY <1>2, <1>6, ClearedFields DEF Clear
  <2> HIDE DEF M
  <2>2. /\ ToSet(M.sprites) = Listed(l) \ Listed(l) /\ Rest(M.sprites, Reached(l)') = {}
        /\ Listed(l) \in SUBSET UID
    BY <2>1, <1>2 DEF ToSet, Rest, Listed
  <2>3. Rest(list[l].sprites, Reached(l)) \subseteq Listed(l)
    BY DEF Rest, Listed, ToSet
  <2> QED BY <2>1, <2>2, <2>3, <1>1, LossView
<1>7. ASSUME NEW u \in UID, Lookup(l, u) PROVE Viewed
  <2>1. list' = [list EXCEPT ![l] = LookedUp(L, u)]
    BY <1>7 DEF Lookup
  <2>2. LookedUp(L, u).sprites = L.sprites /\ LookedUp(L, u).active_iterator = L.active_iterator
    BY <1>2, LookedUpFields
  <2> QED BY <2>1, <2>2, <1>4 DEF Listed
<1>8. ASSUME NEW m \in Limits, SetMax(l, m) PROVE Viewed
  <2> DEFINE M == [L EXCEPT !.max_sprites = m]
  <2>1. list' = [list EXCEPT ![l] = M]
    BY <1>8 DEF SetMax
  <2>2. M.sprites = L.sprites /\ M.active_iterator = L.active_iterator
    BY <1>2 DEF SpriteList
  <2> HIDE DEF M
  <2> QED BY <2>1, <2>2, <1>4 DEF Listed
<1> QED BY <1>5, <1>6, <1>7, <1>8

\* The loop starts and ends a walk, calls a sprite or passes over one, and
\* comes back from a callback.
LEMMA LoopView ==
  ASSUME WalkInv, NEW l \in Lists,
         \/ \E kind \in {"animate", "script"} : StartWalk(l, kind)
         \/ CallSprite(l) \/ SkipFrozen(l) \/ KeepSprite(l) \/ EndWalk(l)
  PROVE  Viewed
<1> DEFINE L == list[l]
           i == L.active_iterator
<1>1. L.sprites \in Seq(UID) /\ IsInjective(L.sprites) /\ Len(L.sprites) \in Nat /\ l # NoList
  BY NoListAssumption DEF WalkInv, TypeOK, OneOwner, SpriteList
<1>2. ASSUME NEW n, list' = [list EXCEPT ![l].active_iterator = n]
      PROVE  Members' = Members /\ list'[l].sprites = L.sprites /\ list'[l].active_iterator = n
  <2>1. \A m \in Lists : list'[m].sprites = list[m].sprites
    BY <1>2 DEF WalkInv, TypeOK, SpriteList
  <2>2. list'[l].active_iterator = n
    BY <1>2 DEF WalkInv, TypeOK, SpriteList
  <2> QED BY <2>1, <2>2 DEF Members, Listed
<1>3. Walking(l) => pass # Idle /\ pass.list = l
                    /\ Awaiting = Rest(L.sprites, Reached(l))
  BY NoListAssumption, WaitingRest DEF Walking, Idle, Awaiting
<1>4. Walking(l)' => pass' # Idle /\ pass'.list = l
                     /\ Awaiting' = Rest(list'[l].sprites, Reached(l)')
  <2>1. Waiting(l)' = Rest(list'[l].sprites, Reached(l)')
    BY DEF Waiting, Rest
  <2> QED BY <2>1, NoListAssumption DEF Walking, Idle, Awaiting, Waiting, Reached
<1>5. ASSUME NEW kind \in {"animate", "script"}, StartWalk(l, kind) PROVE Viewed
  <2>1. /\ pass = Idle /\ pass.list = NoList /\ Walking(l)' /\ pass'.list = l
        /\ pass'.at = "loop" /\ list' = [list EXCEPT ![l].active_iterator = 0]
    BY <1>5 DEF StartWalk, Idle, Walking
  <2>2. Reached(l)' = 0 /\ list'[l].sprites = L.sprites /\ Members' = Members
    <3>1. Members' = Members /\ list'[l].sprites = L.sprites /\ list'[l].active_iterator = 0
      BY <2>1, <1>2
    <3> QED BY <2>1, <3>1 DEF Reached
  <2>3. Awaiting' = Listed(l)
    BY <2>1, <2>2, <1>1, <1>4, RestEnds DEF Listed
  <2>4. Promised!Start(l)
    BY <2>1, <2>2, <2>3 DEF Promised!Start, Members, Awaiting
  <2> QED BY <2>4 DEF Viewed, Promised!Next
<1>6. ASSUME Walking(l), Walking(l)', i \in 0 .. Len(L.sprites) - 1, Members' = Members,
             Reached(l) = i, Reached(l)' = i + 1, list'[l].sprites = L.sprites
      PROVE  Viewed
  <2> DEFINE u == L.sprites[i + 1]
  <2>1. u \in Awaiting /\ Awaiting' = Awaiting \ {u}
    BY <1>1, <1>3, <1>4, <1>6, RestNext
  <2>2. u \in UID
    BY <1>1, <1>6
  <2>3. pass'.list = pass.list
    BY <1>6 DEF Walking
  <2> HIDE DEF u
  <2>4. Promised!Offer(u)
    BY <1>6, <2>1, <2>3 DEF Promised!Offer, Members, Awaiting
  <2> QED BY <2>2, <2>4 DEF Viewed, Promised!Next
<1>7. ASSUME CallSprite(l) PROVE Viewed
  <2>1. /\ Walking(l) /\ pass.at = "loop" /\ i < Count(L) /\ list' = list
        /\ pass' = [pass EXCEPT !.at = "body", !.cur = Spr(L, i)]
    BY <1>7 DEF CallSprite
  <2>2. Walking(l)' /\ pass'.at = "body"
    BY <2>1, WalkFinds DEF Walking
  <2>3. i \in 0 .. Len(L.sprites) - 1
    BY <2>1, <1>1, LoopFinds DEF Count
  <2>4. Reached(l) = i /\ Reached(l)' = i + 1
    BY <2>1, <2>2, <2>3 DEF Reached
  <2>5. Members' = Members
    BY <2>1 DEF Members, Listed
  <2> QED BY <1>6, <2>1, <2>2, <2>3, <2>4, <2>5
<1>8. ASSUME SkipFrozen(l) PROVE Viewed
  <2>1. /\ Walking(l) /\ pass.at = "loop" /\ i < Count(L) /\ pass' = pass
        /\ list' = [list EXCEPT ![l].active_iterator = i + 1]
    BY <1>8 DEF SkipFrozen
  <2>2. i \in 0 .. Len(L.sprites) - 1
    BY <2>1, <1>1, LoopFinds DEF Count
  <2>3. Walking(l)' /\ pass'.at = "loop"
    BY <2>1 DEF Walking
  <2>4. Members' = Members /\ list'[l].sprites = L.sprites /\ list'[l].active_iterator = i + 1
    BY <2>1, <1>2
  <2>5. Reached(l) = i /\ Reached(l)' = i + 1
    BY <2>1, <2>2, <2>3, <2>4 DEF Reached
  <2> QED BY <1>6, <2>1, <2>2, <2>3, <2>4, <2>5
<1>9. ASSUME KeepSprite(l) PROVE Viewed
  <2>1. /\ Walking(l) /\ InBody(l) /\ pass.at = "body"
        /\ list' = [list EXCEPT ![l].active_iterator = i + 1]
        /\ pass' = [pass EXCEPT !.at = "loop", !.cur = NoSprite]
    BY <1>9 DEF KeepSprite, InBody
  <2>2. Walking(l)' /\ pass'.at = "loop" /\ pass'.list = pass.list
    BY <2>1, WalkFinds DEF Walking
  <2>3. Members' = Members /\ list'[l].sprites = L.sprites /\ list'[l].active_iterator = i + 1
    BY <2>1, <1>2
  <2>4. i \in Int
    BY <2>1, BodyFinds
  <2>5. Reached(l) = i + 1 /\ Reached(l)' = i + 1
    BY <2>1, <2>2, <2>3, <2>4 DEF Reached
  <2>6. Awaiting' = Awaiting
    BY <2>1, <2>2, <2>3, <2>5, <1>3, <1>4
  <2> QED BY <2>2, <2>3, <2>6, StutterView
<1>10. ASSUME EndWalk(l) PROVE Viewed
  <2>1. /\ Walking(l) /\ pass.at = "loop" /\ i >= Count(L) /\ pass' = Idle /\ pass'.list = NoList
        /\ list' = [list EXCEPT ![l].active_iterator = -1]
    BY <1>10 DEF EndWalk, Idle
  <2>2. Members' = Members
    BY <2>1, <1>2
  <2>3. i \in Int /\ i >= Len(L.sprites) /\ Reached(l) = i
    BY <2>1, LoopFinds DEF Reached, Count
  <2>4. Awaiting = {} /\ Awaiting' = {}
    <3>1. Rest(L.sprites, Reached(l)) = {}
      BY <2>3, <1>1, RestEnds
    <3> QED BY <3>1, <2>1, <1>3 DEF Awaiting
  <2>5. Promised!Finish
    BY <2>1, <2>2, <2>4, <1>1, <1>3 DEF Promised!Finish, Members, Awaiting
  <2> QED BY <2>5 DEF Viewed, Promised!Next
<1> QED BY <1>5, <1>7, <1>8, <1>9, <1>10

\* The loop goes on after the sprite whose callback it was has gone.
LEMMA DroppedView ==
  ASSUME WalkInv, NEW l \in Lists, InBody(l),
         NEW i, i = list[l].active_iterator, i \in 0 .. Count(list[l]) - 1,
         list' = [list EXCEPT ![l] = [Deleted(list[l], i) EXCEPT !.active_iterator = @ + 1]],
         pass' = [pass EXCEPT !.at = "loop", !.cur = NoSprite]
  PROVE  Viewed
<1> DEFINE L == list[l]
           D == Deleted(L, i)
           M == MovedTo(D, i)
           u == L.sprites[i + 1]
<1>1. /\ Walking(l) /\ pass.at = "body" /\ pass'.at = "loop" /\ pass'.list = pass.list
      /\ L \in SpriteList /\ L.sprites \in Seq(UID) /\ IsInjective(L.sprites)
      /\ Len(L.sprites) \in Nat
  BY WalkFinds DEF InBody
<1>2. i \in 0 .. Len(L.sprites) - 1 /\ i \in Int /\ i + 1 \in 1 .. Len(L.sprites)
  BY <1>1 DEF Count
<1>3. D \in SpriteList /\ D.sprites = Without(L.sprites, i + 1) /\ D.active_iterator = i - 1
  BY <1>1, <1>2, DeletedFields
<1>4. list' = [list EXCEPT ![l] = M]
  <2> HIDE DEF D
  <2>1. (i - 1) + 1 = i
    BY <1>2
  <2> QED BY <2>1, <1>3 DEF MovedTo, D
<1>5. M.sprites = Without(L.sprites, i + 1) /\ M.active_iterator = i
  <2> HIDE DEF D
  <2> QED BY <1>2, <1>3, MovedToFields
<1>6. ToSet(M.sprites) = Listed(l) \ {u} /\ {u} \subseteq Listed(l) /\ {u} \in SUBSET UID
  <2>1. ToSet(Without(L.sprites, i + 1)) = ToSet(L.sprites) \ {u}
    BY <1>1, <1>2, WithoutSet
  <2>2. u \in ToSet(L.sprites) /\ u \in UID
    BY <1>1, <1>2 DEF ToSet
  <2> QED BY <2>1, <2>2, <1>5 DEF Listed
<1>7. list'[l] = M
  BY <1>4 DEF WalkInv, TypeOK
<1> HIDE DEF M, L, u, D
<1>8. Reached(l) = i + 1 /\ Reached(l)' = i
  <2>1. Reached(l) = i + 1
    BY <1>1 DEF Reached
  <2>2. list'[l].active_iterator = i
    BY <1>5, <1>7
  <2>3. Reached(l)' = list'[l].active_iterator + 0
    BY <1>1 DEF Reached
  <2> QED BY <2>1, <2>2, <2>3, <1>2
<1>9. Rest(M.sprites, Reached(l)') = Rest(list[l].sprites, Reached(l)) \ {u}
  <2>1. /\ i + 1 \in Int /\ i + 1 <= i + 1 /\ (i + 1) - 1 = i
    BY <1>2
  <2>2. Rest(Without(L.sprites, i + 1), IF i + 1 <= i + 1 THEN (i + 1) - 1 ELSE i + 1)
          = Rest(L.sprites, i + 1) \ {L.sprites[i + 1]}
    BY <2>1, <1>1, <1>2, RestWithout
  <2> QED BY <2>1, <2>2, <1>5, <1>8 DEF L, u
<1> QED BY <1>1, <1>4, <1>6, <1>9, LossView

LEMMA DropView ==
  ASSUME WalkInv, NEW l \in Lists, DropSprite(l) \/ RemoveSelf(l)
  PROVE  Viewed
<1> DEFINE L == list[l]
           i == L.active_iterator
<1>1. /\ InBody(l) /\ Walking(l) /\ UNCHANGED <<nextUID, stray, freeze_guys, turns>>
      /\ pass' = [pass EXCEPT !.at = "loop", !.cur = NoSprite]
  BY DEF DropSprite, RemoveSelf, InBody
<1>2. /\ i \in -1 .. Len(L.sprites) - 1 /\ Len(L.sprites) \in Nat /\ L \in SpriteList
      /\ DOMAIN L.sprites = 1 .. Len(L.sprites) /\ InOrder(L.sprites, i)
  BY <1>1, BodyFinds, WalkFinds
<1>3. CASE DropSprite(l) /\ i \in 0 .. Count(L) - 1
  <2>1. list' = [list EXCEPT ![l] = [Deleted(L, i) EXCEPT !.active_iterator = @ + 1]]
    BY <1>3 DEF DropSprite
  <2> QED BY <1>1, <1>3, <2>1, DroppedView
<1>4. CASE DropSprite(l) /\ i \notin 0 .. Count(L) - 1
  <2>1. /\ Spr(L, i) = NoSprite
        /\ list' = [list EXCEPT ![l] = [L EXCEPT !.active_iterator = @ + 1]]
    BY <1>4 DEF DropSprite, Spr
  <2>2. live' = live
    <3>1. NoSprite \notin UID
      BY MaxUIDAssumption DEF NoSprite, UID
    <3>2. live' = live \ {Spr(L, i)}
      BY <1>4 DEF DropSprite
    <3> QED BY <2>1, <3>1, <3>2 DEF WalkInv, TypeOK
  <2>3. KeepSprite(l)
    BY <1>1, <2>1, <2>2 DEF KeepSprite
  <2> QED BY <2>3, LoopView
<1>5. CASE RemoveSelf(l)
  <2> DEFINE c == CHOOSE j \in DOMAIN L.sprites : L.sprites[j] = pass.cur
  <2>1. PICK k \in DOMAIN L.sprites : L.sprites[k] = pass.cur
    BY <1>5 DEF RemoveSelf, ToSet
  <2>2. c = i + 1 /\ i + 1 \in DOMAIN L.sprites
    BY <2>1, <1>2 DEF InOrder
  <2>3. list' = [list EXCEPT ![l] = [Deleted(L, c - 1) EXCEPT !.active_iterator = @ + 1]]
    BY <1>5 DEF RemoveSelf
  <2> HIDE DEF c
  <2>4. c - 1 = i /\ i \in 0 .. Count(L) - 1
    BY <2>2, <1>2 DEF Count
  <2>5. list' = [list EXCEPT ![l] = [Deleted(L, i) EXCEPT !.active_iterator = @ + 1]]
    BY <2>3, <2>4
  <2> QED BY <1>1, <2>4, <2>5, DroppedView
<1> QED BY <1>3, <1>4, <1>5

LEMMA NextView == WalkInv /\ [Next]_vars => Viewed
<1> SUFFICES ASSUME WalkInv, [Next]_vars PROVE Viewed
  OBVIOUS
<1>1. CASE SetFreeze \/ Dustpile \/ UNCHANGED vars
  <2>1. list' = list /\ pass' = pass
    BY <1>1 DEF SetFreeze, Dustpile, vars
  <2>2. Members' = Members /\ Awaiting' = Awaiting
    BY <2>1 DEF Members, Awaiting, Listed, Waiting, Reached
  <2> QED BY <2>1, <2>2, StutterView
<1>2. ASSUME NEW l \in Lists, Walk(l) PROVE Viewed
  BY <1>2, LoopView, DropView DEF Walk
<1>3. ASSUME NEW l \in Lists, Caller(l) PROVE Viewed
  BY <1>3, CreateView, DeleteView, ReflectView, PhantomsCleanupView, OtherCallerView
     DEF Caller
<1> QED BY <1>1, <1>2, <1>3 DEF Next

\* The lists keep SpriteWalk's promise: a sprite is in one list at most, and a
\* walk offers one turn to each sprite that its list has when it ends and two
\* to none, whatever the callbacks do (active_iterator in sprite_list::animate,
\* run_script, del and clear).
THEOREM Refinement == Spec => PromiseKept
<1>1. WalkInv /\ [Next]_vars => [Promised!Next]_(Promised!vars)
  BY NextView DEF Viewed
<1> QED BY <1>1, InitView, WalkCorrect, PTL DEF Spec, PromiseKept, Promised!Spec

=============================================================================
