-------------------------- MODULE SpriteListsProofs --------------------------
(* Proofs about SpriteLists, for any lists, limits and number of sprites. *)
EXTENDS SpriteLists, FiniteSetTheorems, TLAPS

-----------------------------------------------------------------------------
(* The operations on one list                                              *)

\* Closing a gap keeps every element but the one at k.
LEMMA WithoutElement ==
  ASSUME NEW S, NEW s \in Seq(S), NEW k \in 1 .. Len(s)
  PROVE  /\ Without(s, k) \in Seq(S)
         /\ Len(Without(s, k)) = Len(s) - 1
         /\ DOMAIN Without(s, k) = 1 .. Len(s) - 1
         /\ \A i \in 1 .. Len(s) - 1 : Without(s, k)[i] = IF i < k THEN s[i] ELSE s[i + 1]
<1>1. Len(s) \in Nat /\ Len(s) > 0
  OBVIOUS
<1>2. \A i \in 1 .. Len(s) - 1 : (IF i < k THEN s[i] ELSE s[i + 1]) \in S
  OBVIOUS
<1> QED
  BY <1>1, <1>2 DEF Without

LEMMA WithoutSet ==
  ASSUME NEW S, NEW s \in Seq(S), IsInjective(s), NEW k \in 1 .. Len(s)
  PROVE  /\ IsInjective(Without(s, k))
         /\ ToSet(Without(s, k)) = ToSet(s) \ {s[k]}
<1> DEFINE t == Without(s, k)
<1>1. /\ DOMAIN t = 1 .. Len(s) - 1 /\ DOMAIN s = 1 .. Len(s)
      /\ \A i \in 1 .. Len(s) - 1 : t[i] = IF i < k THEN s[i] ELSE s[i + 1]
  BY WithoutElement
<1>2. \A i, j \in 1 .. Len(s) : s[i] = s[j] => i = j
  BY <1>1 DEF IsInjective
<1> HIDE DEF t
<1>3. IsInjective(t)
  BY <1>1, <1>2 DEF IsInjective
<1>4. ASSUME NEW i \in 1 .. Len(s) - 1 PROVE t[i] \in ToSet(s) \ {s[k]}
  <2>1. PICK j \in 1 .. Len(s) : j # k /\ t[i] = s[j]
    BY <1>1
  <2> QED BY <2>1, <1>1, <1>2 DEF ToSet
<1>5. ASSUME NEW j \in 1 .. Len(s), j # k PROVE s[j] \in ToSet(t)
  <2>1. CASE j < k
    BY <2>1, <1>1 DEF ToSet
  <2>2. CASE j > k
    <3>1. j - 1 \in 1 .. Len(s) - 1 /\ t[j - 1] = s[j]
      BY <2>2, <1>1
    <3> QED BY <3>1, <1>1 DEF ToSet
  <2> QED BY <2>1, <2>2, <1>5
<1>6. ToSet(t) = ToSet(s) \ {s[k]}
  BY <1>1, <1>4, <1>5 DEF ToSet
<1> QED BY <1>3, <1>6 DEF t

\* A list with another array and another map.
Stored(L, s, m) == [L EXCEPT !.sprites = s, !.containedUIDs = m]

LEMMA StoredFields ==
  ASSUME NEW L \in SpriteList, NEW s \in Seq(UID), NEW m \in [UID -> Nat \cup {NoIndex}]
  PROVE  /\ Stored(L, s, m) \in SpriteList
         /\ Stored(L, s, m).sprites = s
         /\ Stored(L, s, m).containedUIDs = m
         /\ Stored(L, s, m).active_iterator = L.active_iterator
         /\ Stored(L, s, m).max_sprites = L.max_sprites
         /\ Stored(L, s, m).lastUIDRequested = L.lastUIDRequested
         /\ Stored(L, s, m).lastSpriteRequested = L.lastSpriteRequested
  BY DEF SpriteList, Stored

LEMMA CloseGapFields ==
  ASSUME NEW L \in SpriteList, NEW j \in 0 .. Count(L) - 1
  PROVE  /\ CloseGap(L, j) \in SpriteList
         /\ CloseGap(L, j).sprites = Without(L.sprites, j + 1)
         /\ CloseGap(L, j).active_iterator = L.active_iterator
         /\ CloseGap(L, j).max_sprites = L.max_sprites
         /\ CloseGap(L, j).lastUIDRequested = L.lastUIDRequested
         /\ CloseGap(L, j).lastSpriteRequested = L.lastSpriteRequested
<1> DEFINE s == Without(L.sprites, j + 1)
           moved == j + 1 .. Len(s)
           m == [u \in UID |-> IF \E k \in moved : s[k] = u
                               THEN (CHOOSE k \in moved : s[k] = u) - 1
                               ELSE L.containedUIDs[u]]
<1>1. L.sprites \in Seq(UID) /\ L.containedUIDs \in [UID -> Nat \cup {NoIndex}]
  BY DEF SpriteList
<1>2. s \in Seq(UID) /\ Len(s) = Count(L) - 1
  <2>1. j + 1 \in 1 .. Len(L.sprites)
    BY <1>1 DEF Count
  <2> QED BY <1>1, <2>1, WithoutElement DEF Count
<1>3. m \in [UID -> Nat \cup {NoIndex}]
  <2>1. ASSUME NEW u \in UID, \E k \in moved : s[k] = u
        PROVE  (CHOOSE k \in moved : s[k] = u) - 1 \in Nat
    <3>1. (CHOOSE k \in moved : s[k] = u) \in moved
      BY <2>1
    <3> QED BY <3>1, <1>2, <1>1 DEF Count
  <2> QED BY <2>1, <1>1
<1>4. CloseGap(L, j) = Stored(L, s, m)
  BY DEF CloseGap, Stored
<1> QED BY <1>2, <1>3, <1>4, StoredFields

LEMMA ForgetFields ==
  ASSUME NEW L \in SpriteList, NEW u
  PROVE  /\ Forget(L, u) \in SpriteList
         /\ Forget(L, u).sprites = L.sprites
         /\ Forget(L, u).containedUIDs = L.containedUIDs
         /\ Forget(L, u).active_iterator = L.active_iterator
         /\ Forget(L, u).max_sprites = L.max_sprites
  BY DEF Forget, SpriteList, NoSprite

\* del(j) takes the sprite at j out of the array and nothing else; the walk's
\* index moves with the elements at and before it.
LEMMA DeletedFields ==
  ASSUME NEW L \in SpriteList, NEW j \in 0 .. Count(L) - 1
  PROVE  /\ Deleted(L, j) \in SpriteList
         /\ Deleted(L, j).sprites = Without(L.sprites, j + 1)
         /\ Deleted(L, j).active_iterator =
              IF j <= L.active_iterator THEN L.active_iterator - 1 ELSE L.active_iterator
         /\ Deleted(L, j).max_sprites = L.max_sprites
<1> DEFINE u == Spr(L, j)
           E == [L EXCEPT !.containedUIDs[u] = NoIndex]
           M == CloseGap(Forget(E, u), j)
<1>1. u \in UID
  BY DEF Spr, SpriteList, Count
<1>2. E \in SpriteList /\ E.sprites = L.sprites /\ E.active_iterator = L.active_iterator
      /\ E.max_sprites = L.max_sprites
  BY <1>1 DEF SpriteList, NoIndex
<1> HIDE DEF E
<1>3. Forget(E, u) \in SpriteList /\ j \in 0 .. Count(Forget(E, u)) - 1
  BY <1>2, ForgetFields DEF Count
<1>4. M \in SpriteList /\ M.sprites = Without(L.sprites, j + 1)
      /\ M.active_iterator = L.active_iterator /\ M.max_sprites = L.max_sprites
  BY <1>2, <1>3, ForgetFields, CloseGapFields
<1>5. Deleted(L, j) = IF j <= L.active_iterator
                      THEN [M EXCEPT !.active_iterator = @ - 1] ELSE M
  BY DEF Deleted, E
<1> HIDE DEF M
<1> QED BY SMTT(30), <1>4, <1>5 DEF SpriteList

LEMMA AddedFields ==
  ASSUME NEW L \in SpriteList, NEW u \in UID
  PROVE  /\ Added(L, u) \in SpriteList
         /\ Added(L, u).sprites = Append(L.sprites, u)
         /\ Added(L, u).active_iterator = L.active_iterator
         /\ Added(L, u).max_sprites = L.max_sprites
         /\ Added(L, u).containedUIDs = [L.containedUIDs EXCEPT ![u] = Count(L)]
         /\ Added(L, u).lastUIDRequested = L.lastUIDRequested
         /\ Added(L, u).lastSpriteRequested = L.lastSpriteRequested
<1> DEFINE s == Append(L.sprites, u)
           m == [L.containedUIDs EXCEPT ![u] = Count(L)]
<1>1. L.sprites \in Seq(UID) /\ L.containedUIDs \in [UID -> Nat \cup {NoIndex}]
  BY DEF SpriteList
<1>2. s \in Seq(UID) /\ m \in [UID -> Nat \cup {NoIndex}]
  BY <1>1 DEF Count
<1>3. Added(L, u) = Stored(L, s, m)
  BY DEF Added, Stored, SpriteList
<1> HIDE DEF s, m
<1>4. /\ Added(L, u) \in SpriteList
      /\ Added(L, u).sprites = s
      /\ Added(L, u).containedUIDs = m
      /\ Added(L, u).active_iterator = L.active_iterator
      /\ Added(L, u).max_sprites = L.max_sprites
      /\ Added(L, u).lastUIDRequested = L.lastUIDRequested
      /\ Added(L, u).lastSpriteRequested = L.lastSpriteRequested
  BY <1>3, <1>2, StoredFields
<1> QED BY <1>4, Zenon DEF s, m

\* remove(s) of a listed sprite: it leaves the array, wherever the map and
\* the cache say it is.
LEMMA RemovedFields ==
  ASSUME NEW L \in SpriteList, NEW k \in 1 .. Count(L), NEW uid \in UID,
         IsInjective(L.sprites)
  PROVE  /\ Removed(L, L.sprites[k], uid) \in SpriteList
         /\ Removed(L, L.sprites[k], uid).sprites = Without(L.sprites, k)
         /\ Removed(L, L.sprites[k], uid).active_iterator = L.active_iterator
         /\ Removed(L, L.sprites[k], uid).max_sprites = L.max_sprites
<1> DEFINE s == L.sprites[k]
           M == [Forget(L, s) EXCEPT !.containedUIDs[uid] = NoIndex]
<1>1. M \in SpriteList /\ M.sprites = L.sprites /\ M.active_iterator = L.active_iterator
      /\ M.max_sprites = L.max_sprites
  BY ForgetFields DEF SpriteList, NoIndex
<1>2. k \in DOMAIN M.sprites /\ M.sprites[k] = s
  BY <1>1 DEF SpriteList, Count
<1>3. \A i \in DOMAIN M.sprites : M.sprites[i] = s => i = k
  BY <1>1, <1>2 DEF IsInjective
<1>4. (CHOOSE i \in DOMAIN M.sprites : M.sprites[i] = s) = k
  BY <1>2, <1>3
<1>5. Removed(L, s, uid) = CloseGap(M, k - 1)
  BY <1>2, <1>4 DEF Removed
<1>6. k - 1 \in 0 .. Count(M) - 1 /\ (k - 1) + 1 = k
  BY <1>1, <1>2 DEF Count, SpriteList
<1> HIDE DEF M
<1> QED BY <1>1, <1>5, <1>6, CloseGapFields

\* A sequence with two of its elements exchanged.
Exchanged(s, i, k) == [s EXCEPT ![i] = s[k], ![k] = s[i]]

LEMMA SwappedFields ==
  ASSUME NEW L \in SpriteList, NEW a \in 0 .. Count(L) - 1, NEW b \in 0 .. Count(L) - 1
  PROVE  /\ Swapped(L, a, b) \in SpriteList
         /\ Swapped(L, a, b).sprites = Exchanged(L.sprites, a + 1, b + 1)
         /\ Swapped(L, a, b).containedUIDs =
              [L.containedUIDs EXCEPT ![L.sprites[b + 1]] = a, ![L.sprites[a + 1]] = b]
         /\ Swapped(L, a, b).active_iterator = L.active_iterator
         /\ Swapped(L, a, b).max_sprites = L.max_sprites
         /\ Swapped(L, a, b).lastUIDRequested = L.lastUIDRequested
         /\ Swapped(L, a, b).lastSpriteRequested = L.lastSpriteRequested
<1>1. L.sprites \in Seq(UID) /\ a + 1 \in DOMAIN L.sprites /\ b + 1 \in DOMAIN L.sprites
  BY DEF SpriteList, Count
<1>2. Spr(L, a) = L.sprites[a + 1] /\ Spr(L, b) = L.sprites[b + 1]
  BY DEF Spr
<1> DEFINE s == [L.sprites EXCEPT ![a + 1] = L.sprites[b + 1], ![b + 1] = L.sprites[a + 1]]
           m == [L.containedUIDs EXCEPT ![L.sprites[b + 1]] = a, ![L.sprites[a + 1]] = b]
<1>3. L.containedUIDs \in [UID -> Nat \cup {NoIndex}] /\ a \in Nat /\ b \in Nat
  BY DEF SpriteList
<1>4. s \in Seq(UID)
  BY <1>1
<1>5. m \in [UID -> Nat \cup {NoIndex}]
  BY <1>1, <1>3
<1>6. Swapped(L, a, b) = Stored(L, s, m)
  BY <1>2 DEF Swapped, Stored, SpriteList
<1> HIDE DEF s, m
<1>7. /\ Swapped(L, a, b) \in SpriteList
      /\ Swapped(L, a, b).sprites = s
      /\ Swapped(L, a, b).containedUIDs = m
      /\ Swapped(L, a, b).active_iterator = L.active_iterator
      /\ Swapped(L, a, b).max_sprites = L.max_sprites
      /\ Swapped(L, a, b).lastUIDRequested = L.lastUIDRequested
      /\ Swapped(L, a, b).lastSpriteRequested = L.lastSpriteRequested
  BY <1>6, <1>4, <1>5, StoredFields
<1> QED BY <1>7, Zenon DEF s, m, Exchanged

LEMMA ClearedFields ==
  ASSUME NEW L \in SpriteList
  PROVE  /\ Cleared(L) \in SpriteList
         /\ Cleared(L).sprites = <<>>
         /\ Cleared(L).active_iterator =
              IF L.active_iterator >= Count(L) THEN L.active_iterator - Count(L) ELSE -1
<1> DEFINE m == [u \in UID |-> IF u \in ToSet(L.sprites) THEN NoIndex ELSE L.containedUIDs[u]]
           i == IF L.active_iterator >= Count(L) THEN L.active_iterator - Count(L) ELSE -1
<1>1. /\ L.containedUIDs \in [UID -> Nat \cup {NoIndex}]
      /\ L.sprites \in Seq(UID) /\ L.active_iterator \in Int
  BY DEF SpriteList
<1>2. m \in [UID -> Nat \cup {NoIndex}] /\ i \in Int /\ <<>> \in Seq(UID)
  BY <1>1 DEF Count
<1>3. Cleared(L) = [L EXCEPT !.sprites = <<>>, !.containedUIDs = m, !.lastUIDRequested = 0,
                             !.lastSpriteRequested = NoSprite, !.active_iterator = i]
  BY DEF Cleared
<1> HIDE DEF m, i
<1>4. Cleared(L) \in SpriteList /\ Cleared(L).sprites = <<>> /\ Cleared(L).active_iterator = i
  BY <1>2, <1>3 DEF SpriteList
<1> QED BY <1>4 DEF i

LEMMA LookedUpFields ==
  ASSUME NEW L \in SpriteList, NEW u \in UID
  PROVE  /\ LookedUp(L, u) \in SpriteList
         /\ LookedUp(L, u).sprites = L.sprites
         /\ LookedUp(L, u).containedUIDs = L.containedUIDs
         /\ LookedUp(L, u).active_iterator = L.active_iterator
<1>1. Found(L, u) \in UID \cup {NoSprite}
  BY DEF Found, Spr, SpriteList, Count
<1> QED BY <1>1 DEF LookedUp, SpriteList

-----------------------------------------------------------------------------
(* The map and the cache stay exact                                        *)

\* What a list's map says when it is exact, sprite by sprite.
LEMMA ExactPointwise ==
  ASSUME NEW L \in SpriteList,
         \A k \in DOMAIN L.sprites : L.containedUIDs[L.sprites[k]] = k - 1,
         \A v \in UID \ ToSet(L.sprites) : L.containedUIDs[v] = NoIndex,
         \/ L.lastUIDRequested = 0 /\ L.lastSpriteRequested = NoSprite
         \/ L.lastUIDRequested \in ToSet(L.sprites) /\ L.lastSpriteRequested = L.lastUIDRequested
  PROVE  Exact(L)
<1>1. L.sprites \in Seq(UID) /\ DOMAIN L.sprites = 1 .. Len(L.sprites)
  BY DEF SpriteList
<1>2. ASSUME NEW v \in ToSet(L.sprites) PROVE v \in UID /\ L.containedUIDs[v] # NoIndex
  <2>1. PICK k \in DOMAIN L.sprites : v = L.sprites[k]
    BY DEF ToSet
  <2>2. L.containedUIDs[v] = k - 1 /\ k \in 1 .. Len(L.sprites)
    BY <2>1, <1>1
  <2> QED BY <2>1, <2>2, <1>1 DEF NoIndex
<1>3. Contained(L) = ToSet(L.sprites)
  BY <1>2 DEF Contained
<1> QED BY <1>3 DEF Exact

\* The loop that closes a gap tells the map the index of every sprite it moves.
LEMMA CloseGapMap ==
  ASSUME NEW L \in SpriteList, IsInjective(L.sprites), NEW j \in 0 .. Count(L) - 1
  PROVE  LET s == Without(L.sprites, j + 1)
             m == CloseGap(L, j).containedUIDs
         IN  /\ \A k \in j + 1 .. Len(s) : m[s[k]] = k - 1
             /\ \A u \in UID : (\A k \in j + 1 .. Len(s) : s[k] # u) => m[u] = L.containedUIDs[u]
<1> DEFINE s == Without(L.sprites, j + 1)
           moved == j + 1 .. Len(s)
           m == [u \in UID |-> IF \E k \in moved : s[k] = u
                               THEN (CHOOSE k \in moved : s[k] = u) - 1
                               ELSE L.containedUIDs[u]]
<1>1. L.sprites \in Seq(UID) /\ j + 1 \in 1 .. Len(L.sprites)
  BY DEF SpriteList, Count
<1>2. s \in Seq(UID) /\ DOMAIN s = 1 .. Len(s) /\ IsInjective(s)
  BY <1>1, WithoutElement, WithoutSet
<1>3. CloseGap(L, j).containedUIDs = m
  BY DEF CloseGap, SpriteList
<1>4. ASSUME NEW k \in moved PROVE m[s[k]] = k - 1
  <2> HIDE DEF s
  <2>1. s[k] \in UID /\ k \in DOMAIN s
    BY <1>2
  <2>2. \A i \in moved : s[i] = s[k] => i = k
    BY <1>2 DEF IsInjective
  <2>3. (CHOOSE i \in moved : s[i] = s[k]) = k
    BY <2>2
  <2> QED BY <2>1, <2>3
<1>5. ASSUME NEW u \in UID, \A k \in moved : s[k] # u PROVE m[u] = L.containedUIDs[u]
  BY <1>5
<1> HIDE DEF s, m
<1> QED BY <1>3, <1>4, <1>5 DEF s

LEMMA CloseGapExact ==
  ASSUME NEW L \in SpriteList, IsInjective(L.sprites), NEW j \in 0 .. Count(L) - 1,
         L.containedUIDs[L.sprites[j + 1]] = NoIndex,
         \A k \in DOMAIN L.sprites : k # j + 1 => L.containedUIDs[L.sprites[k]] = k - 1,
         \A v \in UID \ ToSet(L.sprites) : L.containedUIDs[v] = NoIndex,
         \/ L.lastUIDRequested = 0 /\ L.lastSpriteRequested = NoSprite
         \/ /\ L.lastUIDRequested \in ToSet(L.sprites) \ {L.sprites[j + 1]}
            /\ L.lastSpriteRequested = L.lastUIDRequested
  PROVE  Exact(CloseGap(L, j))
<1> DEFINE s == Without(L.sprites, j + 1)
           M == CloseGap(L, j)
           m == M.containedUIDs
<1>1. L.sprites \in Seq(UID) /\ j + 1 \in 1 .. Len(L.sprites) /\ j \in Nat
      /\ DOMAIN L.sprites = 1 .. Len(L.sprites)
  BY DEF SpriteList, Count
<1>2. /\ s \in Seq(UID) /\ DOMAIN s = 1 .. Len(s) /\ Len(s) = Len(L.sprites) - 1
      /\ \A k \in 1 .. Len(s) : s[k] = IF k < j + 1 THEN L.sprites[k] ELSE L.sprites[k + 1]
  <2>1. /\ s \in Seq(UID) /\ Len(s) = Len(L.sprites) - 1
        /\ DOMAIN s = 1 .. Len(L.sprites) - 1
        /\ \A k \in 1 .. Len(L.sprites) - 1 :
             s[k] = IF k < j + 1 THEN L.sprites[k] ELSE L.sprites[k + 1]
    BY <1>1, WithoutElement
  <2> HIDE DEF s
  <2> QED BY <2>1
<1>3. IsInjective(s) /\ ToSet(s) = ToSet(L.sprites) \ {L.sprites[j + 1]}
  BY <1>1, WithoutSet
<1>4. /\ M \in SpriteList /\ M.sprites = s
      /\ M.lastUIDRequested = L.lastUIDRequested
      /\ M.lastSpriteRequested = L.lastSpriteRequested
  BY CloseGapFields
<1>5. /\ \A k \in j + 1 .. Len(s) : m[s[k]] = k - 1
      /\ \A u \in UID : (\A k \in j + 1 .. Len(s) : s[k] # u) => m[u] = L.containedUIDs[u]
  BY CloseGapMap
<1> HIDE DEF s, M
<1>6. ASSUME NEW k \in DOMAIN s PROVE m[s[k]] = k - 1
  <2>1. CASE k >= j + 1
    BY <2>1, <1>2, <1>5
  <2>2. CASE k < j + 1
    <3>1. s[k] = L.sprites[k] /\ k \in DOMAIN L.sprites /\ s[k] \in UID
      BY SMTT(30), <2>2, <1>1, <1>2
    <3>2. ASSUME NEW i \in j + 1 .. Len(s) PROVE s[i] # s[k]
      <4>1. i \in DOMAIN s /\ k \in DOMAIN s /\ i # k
        BY <2>2, <1>1, <1>2
      <4> QED BY <4>1, <1>3 DEF IsInjective
    <3> QED BY <3>1, <3>2, <2>2, <1>5
  <2> QED BY <2>1, <2>2, <1>1, <1>2
<1>7. ASSUME NEW v \in UID \ ToSet(s) PROVE m[v] = NoIndex
  <2>1. \A k \in j + 1 .. Len(s) : s[k] # v
    BY <1>1, <1>2 DEF ToSet
  <2>2. m[v] = L.containedUIDs[v]
    BY <2>1, <1>5
  <2> QED BY <2>2, <1>3
<1> QED BY <1>3, <1>4, <1>6, <1>7, ExactPointwise DEF M

LEMMA DeletedExact ==
  ASSUME NEW L \in SpriteList, IsInjective(L.sprites), Exact(L), NEW j \in 0 .. Count(L) - 1
  PROVE  Exact(Deleted(L, j))
<1> DEFINE u == L.sprites[j + 1]
           E == [L EXCEPT !.containedUIDs[u] = NoIndex]
           F == Forget(E, u)
           M == CloseGap(F, j)
<1>1. L.sprites \in Seq(UID) /\ j + 1 \in DOMAIN L.sprites /\ u \in UID /\ u \in ToSet(L.sprites)
  BY DEF SpriteList, Count, ToSet
<1>2. /\ E \in SpriteList /\ E.sprites = L.sprites
      /\ E.containedUIDs = [L.containedUIDs EXCEPT ![u] = NoIndex]
      /\ E.lastUIDRequested = L.lastUIDRequested /\ E.lastSpriteRequested = L.lastSpriteRequested
  BY <1>1 DEF SpriteList, NoIndex
<1>3. F \in SpriteList /\ F.sprites = L.sprites /\ F.containedUIDs = E.containedUIDs
  BY <1>2, ForgetFields
<1>4. Contained(L) = ToSet(L.sprites)
  BY DEF Exact
<1>5. \/ F.lastUIDRequested = 0 /\ F.lastSpriteRequested = NoSprite
      \/ /\ F.lastUIDRequested \in ToSet(L.sprites) \ {u}
         /\ F.lastSpriteRequested = F.lastUIDRequested
  <2>1. CASE L.lastSpriteRequested = u
    BY <2>1, <1>2 DEF Forget, SpriteList
  <2>2. CASE L.lastSpriteRequested # u
    <3>1. F = E
      BY <2>2, <1>2 DEF Forget
    <3> QED BY <3>1, <2>2, <1>2, <1>4 DEF Exact
  <2> QED BY <2>1, <2>2
<1>6. L.containedUIDs \in [UID -> Nat \cup {NoIndex}]
  BY DEF SpriteList
<1>7. F.containedUIDs[u] = NoIndex
  BY <1>1, <1>2, <1>3, <1>6
<1>8. ASSUME NEW k \in DOMAIN L.sprites, k # j + 1 PROVE F.containedUIDs[L.sprites[k]] = k - 1
  <2>1. L.sprites[k] # u /\ L.sprites[k] \in UID
    BY <1>1, <1>8 DEF IsInjective
  <2>2. L.containedUIDs[L.sprites[k]] = k - 1
    BY DEF Exact
  <2> QED BY <2>1, <2>2, <1>2, <1>3, <1>6
<1>9. ASSUME NEW v \in UID \ ToSet(L.sprites) PROVE F.containedUIDs[v] = NoIndex
  BY <1>1, <1>2, <1>3, <1>4, <1>6 DEF Contained
<1>10. j \in 0 .. Count(F) - 1
  BY <1>3 DEF Count
<1>11. Deleted(L, j) = IF j <= L.active_iterator
                       THEN [M EXCEPT !.active_iterator = @ - 1] ELSE M
  BY DEF Deleted, Spr
<1> HIDE DEF E, F
<1>12. Exact(M) /\ M \in SpriteList
  BY <1>3, <1>5, <1>7, <1>8, <1>9, <1>10, CloseGapExact, CloseGapFields
<1> HIDE DEF M
<1>13. Exact([M EXCEPT !.active_iterator = @ - 1])
  BY <1>12 DEF Exact, Contained, SpriteList
<1> QED BY <1>11, <1>12, <1>13

LEMMA RemovedExact ==
  ASSUME NEW L \in SpriteList, IsInjective(L.sprites), Exact(L), NEW k \in 1 .. Count(L)
  PROVE  Exact(Removed(L, L.sprites[k], L.sprites[k]))
<1> DEFINE u == L.sprites[k]
           F == Forget(L, u)
           M == [F EXCEPT !.containedUIDs[u] = NoIndex]
<1>1. L.sprites \in Seq(UID) /\ k \in DOMAIN L.sprites /\ u \in UID /\ u \in ToSet(L.sprites)
      /\ L.containedUIDs \in [UID -> Nat \cup {NoIndex}]
  BY DEF SpriteList, Count, ToSet
<1>2. F \in SpriteList /\ F.sprites = L.sprites /\ F.containedUIDs = L.containedUIDs
  BY ForgetFields
<1>3. Contained(L) = ToSet(L.sprites)
  BY DEF Exact
<1>4. \/ F.lastUIDRequested = 0 /\ F.lastSpriteRequested = NoSprite
      \/ /\ F.lastUIDRequested \in ToSet(L.sprites) \ {u}
         /\ F.lastSpriteRequested = F.lastUIDRequested
  <2>1. CASE L.lastSpriteRequested = u
    BY <2>1 DEF Forget, SpriteList
  <2>2. CASE L.lastSpriteRequested # u
    BY <2>2, <1>3 DEF Exact, Forget
  <2> QED BY <2>1, <2>2
<1>5. /\ M \in SpriteList /\ M.sprites = L.sprites
      /\ M.containedUIDs = [L.containedUIDs EXCEPT ![u] = NoIndex]
      /\ M.lastUIDRequested = F.lastUIDRequested /\ M.lastSpriteRequested = F.lastSpriteRequested
  <2> HIDE DEF F
  <2> QED BY <1>1, <1>2 DEF SpriteList, NoIndex
<1> HIDE DEF F, M
<1>6. M.containedUIDs[u] = NoIndex
  BY <1>1, <1>5
<1>7. ASSUME NEW i \in DOMAIN L.sprites, i # k PROVE M.containedUIDs[L.sprites[i]] = i - 1
  <2>1. L.sprites[i] # u /\ L.sprites[i] \in UID
    BY <1>1, <1>7 DEF IsInjective
  <2>2. L.containedUIDs[L.sprites[i]] = i - 1
    BY DEF Exact
  <2> QED BY <2>1, <2>2, <1>1, <1>5
<1>8. ASSUME NEW v \in UID \ ToSet(L.sprites) PROVE M.containedUIDs[v] = NoIndex
  BY <1>1, <1>3, <1>5 DEF Contained
<1>9. (CHOOSE i \in DOMAIN M.sprites : M.sprites[i] = u) = k
  <2>1. \A i \in DOMAIN L.sprites : L.sprites[i] = u => i = k
    BY <1>1 DEF IsInjective
  <2> QED BY <1>1, <1>5, <2>1
<1>10. Removed(L, u, u) = CloseGap(M, k - 1)
  BY <1>1, <1>5, <1>9 DEF Removed, F, M
<1>11. k - 1 \in 0 .. Count(M) - 1 /\ (k - 1) + 1 = k
  BY <1>1, <1>5 DEF Count
<1>12. Exact(CloseGap(M, k - 1))
  BY ZenonT(30), <1>4, <1>5, <1>6, <1>7, <1>8, <1>11, CloseGapExact
<1> QED BY <1>10, <1>12

LEMMA AppendSet ==
  ASSUME NEW S, NEW s \in Seq(S), NEW u \in S \ ToSet(s), IsInjective(s)
  PROVE  /\ IsInjective(Append(s, u))
         /\ ToSet(Append(s, u)) = ToSet(s) \cup {u}
<1> DEFINE t == Append(s, u)
<1>1. /\ t \in Seq(S) /\ Len(s) \in Nat
      /\ DOMAIN t = 1 .. Len(s) + 1 /\ DOMAIN s = 1 .. Len(s)
      /\ t[Len(s) + 1] = u /\ \A k \in 1 .. Len(s) : t[k] = s[k]
  OBVIOUS
<1>2. \A k \in 1 .. Len(s) : s[k] # u
  BY <1>1 DEF ToSet
<1> HIDE DEF t
<1>3. ASSUME NEW a \in DOMAIN t, NEW b \in DOMAIN t, t[a] = t[b] PROVE a = b
  <2>1. CASE a \in 1 .. Len(s) /\ b \in 1 .. Len(s)
    BY <2>1, <1>1, <1>3 DEF IsInjective
  <2>2. CASE a = Len(s) + 1 \/ b = Len(s) + 1
    BY <2>2, <1>1, <1>2, <1>3
  <2> QED BY <2>1, <2>2, <1>1
<1>4. IsInjective(t)
  BY <1>3 DEF IsInjective
<1>5. \A k \in DOMAIN t : k \in DOMAIN s \/ k = Len(s) + 1
  BY <1>1
<1>6. DOMAIN s \subseteq DOMAIN t /\ Len(s) + 1 \in DOMAIN t
  BY <1>1
<1>7. ToSet(t) = ToSet(s) \cup {u}
  BY <1>1, <1>5, <1>6 DEF ToSet
<1> QED BY <1>4, <1>7 DEF t

LEMMA AddedExact ==
  ASSUME NEW L \in SpriteList, IsInjective(L.sprites), Exact(L), NEW u \in UID \ ToSet(L.sprites)
  PROVE  Exact(Added(L, u))
<1> DEFINE M == Added(L, u)
<1>1. /\ L.sprites \in Seq(UID) /\ Count(L) = Len(L.sprites) /\ Len(L.sprites) \in Nat
      /\ L.containedUIDs \in [UID -> Nat \cup {NoIndex}]
      /\ DOMAIN L.sprites = 1 .. Len(L.sprites)
  BY DEF SpriteList, Count
<1>2. /\ M \in SpriteList /\ M.sprites = Append(L.sprites, u)
      /\ M.containedUIDs = [L.containedUIDs EXCEPT ![u] = Len(L.sprites)]
      /\ M.lastUIDRequested = L.lastUIDRequested /\ M.lastSpriteRequested = L.lastSpriteRequested
  BY <1>1, AddedFields
<1>3. ToSet(M.sprites) = ToSet(L.sprites) \cup {u}
  BY <1>1, <1>2, AppendSet
<1>4. /\ Contained(L) = ToSet(L.sprites)
      /\ \A k \in DOMAIN L.sprites : L.containedUIDs[L.sprites[k]] = k - 1
      /\ \/ L.lastUIDRequested = 0 /\ L.lastSpriteRequested = NoSprite
         \/ L.lastUIDRequested \in ToSet(L.sprites) /\ L.lastSpriteRequested = L.lastUIDRequested
  BY DEF Exact
<1> HIDE DEF M
<1>5. DOMAIN M.sprites = 1 .. Len(L.sprites) + 1 /\ M.sprites[Len(L.sprites) + 1] = u
      /\ \A k \in DOMAIN L.sprites : M.sprites[k] = L.sprites[k] /\ L.sprites[k] \in UID /\ L.sprites[k] # u
  BY <1>1, <1>2 DEF ToSet
<1>6. ASSUME NEW k \in DOMAIN M.sprites PROVE M.containedUIDs[M.sprites[k]] = k - 1
  <2>1. CASE k \in DOMAIN L.sprites
    BY <2>1, <1>1, <1>2, <1>4, <1>5
  <2>2. CASE k = Len(L.sprites) + 1
    BY <2>2, <1>1, <1>2, <1>5
  <2> QED BY <2>1, <2>2, <1>1, <1>5
<1>7. \A v \in UID \ ToSet(M.sprites) : M.containedUIDs[v] = NoIndex
  BY <1>1, <1>2, <1>3, <1>4 DEF Contained
<1> QED BY <1>2, <1>3, <1>4, <1>6, <1>7, ExactPointwise DEF M

\* Exchanging two elements keeps a sequence free of repetitions and its set.
LEMMA SwapSet ==
  ASSUME NEW S, NEW s \in Seq(S), IsInjective(s), NEW a \in DOMAIN s, NEW b \in DOMAIN s
  PROVE  LET t == Exchanged(s, a, b)
         IN  /\ IsInjective(t) /\ ToSet(t) = ToSet(s) /\ DOMAIN t = DOMAIN s
             /\ \A k \in DOMAIN s : t[k] = IF k = b THEN s[a] ELSE IF k = a THEN s[b] ELSE s[k]
<1> DEFINE t == Exchanged(s, a, b)
<1>1. /\ DOMAIN t = DOMAIN s
      /\ \A k \in DOMAIN s : t[k] = IF k = b THEN s[a] ELSE IF k = a THEN s[b] ELSE s[k]
  BY DEF Exchanged
<1> HIDE DEF t
<1>2. IsInjective(t)
  BY <1>1 DEF IsInjective
<1>3. ASSUME NEW k \in DOMAIN s PROVE t[k] \in ToSet(s) /\ s[k] \in ToSet(t)
  <2>1. t[k] \in ToSet(s)
    BY <1>1 DEF ToSet
  <2>2. CASE k = a
    BY <2>2, <1>1 DEF ToSet
  <2>3. CASE k = b
    BY <2>3, <1>1 DEF ToSet
  <2>4. CASE k # a /\ k # b
    BY <2>4, <1>1 DEF ToSet
  <2> QED BY <2>1, <2>2, <2>3, <2>4
<1>4. ToSet(t) = ToSet(s)
  BY <1>1, <1>3 DEF ToSet
<1> QED BY <1>1, <1>2, <1>4 DEF t

LEMMA SwappedExact ==
  ASSUME NEW L \in SpriteList, IsInjective(L.sprites), Exact(L),
         NEW a \in 0 .. Count(L) - 1, NEW b \in 0 .. Count(L) - 1
  PROVE  Exact(Swapped(L, a, b))
<1> DEFINE M == Swapped(L, a, b)
           s == L.sprites
<1>1. /\ s \in Seq(UID) /\ a + 1 \in DOMAIN s /\ b + 1 \in DOMAIN s /\ DOMAIN s \subseteq Int
      /\ L.containedUIDs \in [UID -> Nat \cup {NoIndex}]
      /\ a \in Int /\ b \in Int /\ \A k \in DOMAIN s : s[k] \in UID
  BY DEF SpriteList, Count
<1>2. /\ M \in SpriteList
      /\ M.sprites = Exchanged(s, a + 1, b + 1)
      /\ M.containedUIDs = [L.containedUIDs EXCEPT ![s[b + 1]] = a, ![s[a + 1]] = b]
      /\ M.lastUIDRequested = L.lastUIDRequested /\ M.lastSpriteRequested = L.lastSpriteRequested
  BY SwappedFields
<1>3. /\ DOMAIN M.sprites = DOMAIN s /\ ToSet(M.sprites) = ToSet(s)
      /\ \A k \in DOMAIN s :
           M.sprites[k] = IF k = b + 1 THEN s[a + 1] ELSE IF k = a + 1 THEN s[b + 1] ELSE s[k]
  BY <1>1, <1>2, SwapSet
<1>4. /\ Contained(L) = ToSet(s)
      /\ \A k \in DOMAIN s : L.containedUIDs[s[k]] = k - 1
      /\ \/ L.lastUIDRequested = 0 /\ L.lastSpriteRequested = NoSprite
         \/ L.lastUIDRequested \in ToSet(s) /\ L.lastSpriteRequested = L.lastUIDRequested
  BY DEF Exact
<1>5. \A u \in UID : M.containedUIDs[u] = IF u = s[a + 1] THEN b ELSE IF u = s[b + 1] THEN a
                                          ELSE L.containedUIDs[u]
  BY <1>1, <1>2
<1> HIDE DEF M, s
<1>6. ASSUME NEW k \in DOMAIN s PROVE M.containedUIDs[M.sprites[k]] = k - 1
  <2>1. \A i, j \in DOMAIN s : s[i] = s[j] => i = j
    BY DEF IsInjective, s
  <2>2. CASE k = b + 1
    <3>1. M.sprites[k] = s[a + 1] /\ s[a + 1] \in UID
      BY <2>2, <1>1, <1>3
    <3> QED BY <3>1, <2>2, <1>1, <1>5
  <2>3. CASE k = a + 1 /\ a # b
    <3>1. M.sprites[k] = s[b + 1] /\ s[b + 1] \in UID /\ s[b + 1] # s[a + 1]
      BY <2>1, <2>3, <1>1, <1>3
    <3> QED BY <3>1, <2>3, <1>1, <1>5
  <2>4. CASE k # a + 1 /\ k # b + 1
    <3>1. M.sprites[k] = s[k] /\ s[k] \in UID /\ s[k] # s[a + 1] /\ s[k] # s[b + 1]
      BY <2>1, <2>4, <1>1, <1>3
    <3> QED BY <3>1, <1>1, <1>4, <1>5
  <2> QED BY <2>2, <2>3, <2>4
<1>7. \A v \in UID \ ToSet(s) : M.containedUIDs[v] = NoIndex
  <2>1. s[a + 1] \in ToSet(s) /\ s[b + 1] \in ToSet(s)
    BY <1>1 DEF ToSet
  <2> QED BY <2>1, <1>4, <1>5 DEF Contained
<1> QED BY <1>2, <1>3, <1>4, <1>6, <1>7, ExactPointwise DEF M

LEMMA ClearedExact ==
  ASSUME NEW L \in SpriteList, Exact(L)
  PROVE  Exact(Cleared(L))
<1> DEFINE M == Cleared(L)
<1>1. L.containedUIDs \in [UID -> Nat \cup {NoIndex}] /\ Contained(L) = ToSet(L.sprites)
  BY DEF SpriteList, Exact
<1>2. M \in SpriteList /\ M.sprites = <<>>
  BY ClearedFields
<1>3. /\ M.lastUIDRequested = 0 /\ M.lastSpriteRequested = NoSprite
      /\ M.containedUIDs = [u \in UID |-> IF u \in ToSet(L.sprites) THEN NoIndex
                                         ELSE L.containedUIDs[u]]
  BY DEF Cleared, SpriteList
<1>4. \A u \in UID : M.containedUIDs[u] = NoIndex
  BY <1>1, <1>3 DEF Contained
<1> HIDE DEF M
<1> QED BY <1>2, <1>3, <1>4, ExactPointwise DEF M

LEMMA LookedUpExact ==
  ASSUME NEW L \in SpriteList, Exact(L), NEW u \in UID
  PROVE  /\ Exact(LookedUp(L, u))
         /\ Found(L, u) = IF u \in ToSet(L.sprites) THEN u ELSE NoSprite
<1>1. /\ L.sprites \in Seq(UID) /\ DOMAIN L.sprites = 1 .. Len(L.sprites)
      /\ L.containedUIDs \in [UID -> Nat \cup {NoIndex}]
  BY DEF SpriteList
<1>2. /\ Contained(L) = ToSet(L.sprites)
      /\ \A k \in DOMAIN L.sprites : L.containedUIDs[L.sprites[k]] = k - 1
      /\ \/ L.lastUIDRequested = 0 /\ L.lastSpriteRequested = NoSprite
         \/ L.lastUIDRequested \in ToSet(L.sprites) /\ L.lastSpriteRequested = L.lastUIDRequested
  BY DEF Exact
<1>3. ASSUME u \in ToSet(L.sprites) PROVE Spr(L, L.containedUIDs[u]) = u /\ L.containedUIDs[u] # NoIndex
  <2>1. PICK k \in DOMAIN L.sprites : L.sprites[k] = u
    BY <1>3 DEF ToSet
  <2>2. L.containedUIDs[u] = k - 1 /\ k - 1 \in 0 .. Count(L) - 1
    BY <1>1, <1>2, <2>1 DEF Count
  <2> QED BY <2>1, <2>2, <1>1 DEF Spr, NoIndex
<1>4. ASSUME u \notin ToSet(L.sprites) PROVE Spr(L, L.containedUIDs[u]) = NoSprite /\ L.containedUIDs[u] = NoIndex
  <2>1. L.containedUIDs[u] = NoIndex
    BY <1>2, <1>4 DEF Contained
  <2>2. NoIndex \notin 0 .. Count(L) - 1
    BY <1>1 DEF NoIndex, Count
  <2> QED BY <2>1, <2>2 DEF Spr
<1>5. u \in Int /\ u > 0
  BY MaxUIDAssumption DEF UID
<1>6. Found(L, u) = IF u \in ToSet(L.sprites) THEN u ELSE NoSprite
  BY <1>2, <1>3, <1>4, <1>5 DEF Found
<1>7. Exact(LookedUp(L, u))
  <2>1. CASE u # L.lastUIDRequested /\ L.containedUIDs[u] # NoIndex
    <3> DEFINE M == [L EXCEPT !.lastUIDRequested = u, !.lastSpriteRequested = Found(L, u)]
    <3>1. LookedUp(L, u) = M
      BY <2>1 DEF LookedUp
    <3>2. u \in ToSet(L.sprites) /\ Found(L, u) = u
      BY <2>1, <1>4, <1>6
    <3>3. /\ M.sprites = L.sprites /\ M.containedUIDs = L.containedUIDs
          /\ M.lastUIDRequested = u /\ M.lastSpriteRequested = u
      BY <3>2 DEF SpriteList
    <3> HIDE DEF M
    <3> QED BY <3>1, <3>2, <3>3, <1>2 DEF Exact, Contained
  <2>2. CASE ~(u # L.lastUIDRequested /\ L.containedUIDs[u] # NoIndex)
    <3>1. LookedUp(L, u) = L
      BY <2>2 DEF LookedUp
    <3> QED BY <3>1
  <2> QED BY <2>1, <2>2
<1> QED BY <1>6, <1>7

-----------------------------------------------------------------------------
(* The walk's invariant, action by action                                  *)

LEMMA InitWalkInv == Init => WalkInv
<1> SUFFICES ASSUME Init PROVE WalkInv
  OBVIOUS
<1>1. \A m \in Limits : EmptyList(m) \in SpriteList /\ EmptyList(m).sprites = <<>>
                        /\ EmptyList(m).active_iterator = 0
  BY DEF EmptyList, SpriteList, NoIndex, NoSprite
<1>2. \A l \in Lists : list[l] \in SpriteList /\ list[l].sprites = <<>>
                       /\ list[l].active_iterator = 0
  BY <1>1 DEF Init
<1>3. list \in [Lists -> SpriteList]
  BY <1>1, <1>2 DEF Init
<1>4. \A l \in Lists : ~Walking(l) /\ ~InBody(l)
  BY NoListAssumption DEF Init, Walking, InBody, Idle
<1>5. TypeOK
  <2>1. nextUID \in 1 .. MaxUID + 1
    BY MaxUIDAssumption DEF Init
  <2>2. /\ live \subseteq UID /\ stray \subseteq UID /\ freeze_guys \in BOOLEAN
        /\ pass = Idle /\ turns \in [UID -> Nat]
    BY DEF Init
  <2> QED BY <1>2, <1>3, <1>4, <2>1, <2>2 DEF TypeOK
<1>6. OneOwner
  BY <1>2 DEF Init, OneOwner, Listed, ToSet, IsInjective
<1>7. TurnsInOrder
  BY <1>4 DEF Init, TurnsInOrder
<1> QED BY <1>5, <1>6, <1>7 DEF WalkInv

\* In a callback, the walk has reached index i of the sequence s of sprites:
\* the sprite there is the one whose callback it is, and those up to it have
\* had their turns.
InOrder(s, i) ==
  \A k \in DOMAIN s :
    /\ s[k] = pass.cur <=> k = i + 1
    /\ turns[s[k]] = IF k > i + 1 \/ Frozen(s[k]) THEN 0 ELSE 1

\* Code that runs between walks, or in a callback, may put another array, map,
\* cache and limit into one list, as long as the list only loses sprites of its
\* own or gains the one just allocated, and the walk's index follows the sprite
\* whose callback it is.
LEMMA CallerStep ==
  ASSUME WalkInv, OutsideLoop, NEW l \in Lists, NEW M \in SpriteList,
         list' = [list EXCEPT ![l] = M],
         UNCHANGED <<stray, pass, turns, freeze_guys>>,
         nextUID' \in 1 .. MaxUID + 1, nextUID <= nextUID',
         IsInjective(M.sprites),
         \A u \in ToSet(M.sprites) \ Listed(l) : u = nextUID /\ nextUID' = nextUID + 1,
         live' = (live \ Listed(l)) \cup ToSet(M.sprites),
         ~Walking(l) => M.active_iterator \in {-1, 0},
         Walking(l) =>
           /\ M.active_iterator \in -1 .. Count(M) - 1
           /\ InOrder(M.sprites, M.active_iterator)
  PROVE  WalkInv'
<1>1. /\ list' \in [Lists -> SpriteList] /\ list'[l] = M
      /\ \A m \in Lists : m # l => list'[m] = list[m]
  BY DEF WalkInv, TypeOK
<1>2. Listed(l)' = ToSet(M.sprites) /\ \A m \in Lists : m # l => Listed(m)' = Listed(m)
  BY <1>1 DEF Listed
<1>3. /\ live = stray \cup UNION {Listed(m) : m \in Lists}
      /\ \A m, n \in Lists : m # n => Listed(m) \cap Listed(n) = {}
      /\ \A m \in Lists : IsInjective(list[m].sprites) /\ Listed(m) \cap stray = {}
  BY DEF WalkInv, OneOwner
<1>4. /\ \A u \in UID : u >= nextUID => u \notin live /\ turns[u] = 0
      /\ nextUID \in Int /\ nextUID' \in Int /\ UID \subseteq Int
  BY DEF WalkInv, TurnsInOrder, TypeOK, UID
<1>5. ToSet(M.sprites) \subseteq UID
  BY DEF SpriteList, ToSet
<1>6. \A m \in Lists : m # l => Listed(m) \cap ToSet(M.sprites) = {}
  <2> SUFFICES ASSUME NEW m \in Lists, m # l, NEW u \in Listed(m), u \in ToSet(M.sprites)
               PROVE  FALSE
    OBVIOUS
  <2>1. u \in live /\ u \notin Listed(l)
    BY <1>3
  <2> QED BY <2>1, <1>4, <1>5
<1>7. OneOwner'
  <2>1. live' = stray' \cup UNION {Listed(m)' : m \in Lists}
    <3>1. \A u : u \in live' <=> u \in stray \/ \E m \in Lists : u \in Listed(m)'
      BY <1>2, <1>3
    <3> QED BY <3>1
  <2>2. ASSUME NEW m \in Lists
        PROVE  IsInjective(list'[m].sprites) /\ Listed(m)' \cap stray' = {}
    <3>1. nextUID \in UID => nextUID \notin stray
      BY <1>3, <1>4
    <3>2. ToSet(M.sprites) \cap stray = {}
      BY <3>1, <1>3, <1>5
    <3> QED BY <3>2, <1>1, <1>2, <1>3
  <2>3. \A m, n \in Lists : m # n => Listed(m)' \cap Listed(n)' = {}
    BY <1>2, <1>3, <1>6
  <2> QED BY <2>1, <2>2, <2>3 DEF OneOwner
<1>8. \A m \in Lists : (Walking(m)' <=> Walking(m)) /\ (InBody(m)' <=> InBody(m))
  BY DEF Walking, InBody
<1>9. \A m \in Lists : Walking(m) => InBody(m)
  BY NoListAssumption DEF WalkInv, TypeOK, OutsideLoop, Walking, InBody, Idle
<1>10. \A m \in Lists : m # l => Reached(m)' = Reached(m) /\ Count(list'[m]) = Count(list[m])
  BY <1>1 DEF Reached
<1>11. TypeOK'
  <2>1. live' \subseteq UID /\ stray' \subseteq UID
    BY <1>5 DEF WalkInv, TypeOK
  <2>2. ASSUME NEW m \in Lists
        PROVE  list'[m].active_iterator \in
                 IF ~Walking(m) THEN {-1, 0}
                 ELSE IF InBody(m) THEN -1 .. Count(list'[m]) - 1 ELSE 0 .. Count(list'[m])
    <3>1. CASE m = l
      BY <3>1, <1>1, <1>9
    <3>2. CASE m # l
      BY <3>2, <1>1, <1>10 DEF WalkInv, TypeOK
    <3> QED BY <3>1, <3>2
  <2>3. \A m \in Lists : list'[m].active_iterator \in
                 IF ~Walking(m)' THEN {-1, 0}
                 ELSE IF InBody(m)' THEN -1 .. Count(list'[m]) - 1 ELSE 0 .. Count(list'[m])
    BY <2>2, <1>8
  <2>4. /\ freeze_guys' \in BOOLEAN /\ turns' \in [UID -> Nat]
        /\ pass' = Idle \/ pass' \in [list : Lists, kind : {"animate", "script"},
                                     at : {"loop", "body"}, cur : UID \cup {NoSprite}]
    BY DEF WalkInv, TypeOK
  <2>5. nextUID' \in 1 .. MaxUID + 1 /\ list' \in [Lists -> SpriteList]
    BY <1>1
  <2> QED BY <2>1, <2>3, <2>4, <2>5, Zenon DEF TypeOK
<1>12. TurnsInOrder'
  <2>1. ASSUME NEW u \in UID, u >= nextUID' PROVE u \notin live' /\ turns'[u] = 0
    <3>1. u \notin live /\ turns[u] = 0
      BY <2>1, <1>4
    <3>2. u \notin ToSet(M.sprites)
      <4>1. u \notin Listed(l)
        BY <3>1, <1>3
      <4> QED BY <4>1, <2>1, <1>4
    <3> QED BY <3>1, <3>2
  <2>2. Walking(l) => pass.at = "body"
    BY <1>9 DEF InBody
  <2>3. Walking(l) => Reached(l)' = M.active_iterator + 1
    BY <2>2, <1>1 DEF Reached
  <2>4. ASSUME NEW m \in Lists, InBody(m)
        PROVE  /\ pass.cur \in UID /\ pass.cur < nextUID'
               /\ \A k \in DOMAIN list'[m].sprites :
                    list'[m].sprites[k] = pass.cur <=> k = Reached(m)'
    <3>1. pass.cur \in UID /\ pass.cur < nextUID'
      <4>1. pass.cur \in UID /\ pass.cur < nextUID
        BY <2>4 DEF WalkInv, TurnsInOrder
      <4>2. pass.cur \in Int /\ nextUID \in Int /\ nextUID' \in Int /\ nextUID <= nextUID'
        BY <4>1, <1>4
      <4>3. \A i, j, k \in Int : i < j /\ j <= k => i < k
        OBVIOUS
      <4> QED BY <4>1, <4>2, <4>3
    <3>2. CASE m = l
      BY <2>3, <2>4, <3>1, <3>2, <1>1 DEF InBody, InOrder
    <3>3. CASE m # l
      BY <2>4, <3>1, <3>3, <1>1, <1>10 DEF WalkInv, TurnsInOrder
    <3> QED BY <3>2, <3>3
  <2>5. ASSUME NEW m \in Lists, Walking(m), NEW k \in DOMAIN list'[m].sprites
        PROVE  turns[list'[m].sprites[k]] =
                 IF k > Reached(m)' \/ Frozen(list'[m].sprites[k]) THEN 0 ELSE 1
    <3>1. CASE m = l
      BY <2>3, <2>5, <3>1, <1>1 DEF InOrder
    <3>2. CASE m # l
      BY <2>5, <3>2, <1>1, <1>10 DEF WalkInv, TurnsInOrder
    <3> QED BY <3>1, <3>2
  <2> QED BY <2>1, <2>4, <2>5, <1>8 DEF TurnsInOrder, Frozen
<1> QED BY <1>7, <1>11, <1>12 DEF WalkInv

\* What a caller finds in a list, between walks or in a callback.
LEMMA CallerFinds ==
  ASSUME WalkInv, OutsideLoop, NEW l \in Lists
  PROVE  LET L == list[l]
         IN  /\ L \in SpriteList /\ L.sprites \in Seq(UID) /\ IsInjective(L.sprites)
             /\ ToSet(L.sprites) \subseteq live
             /\ DOMAIN L.sprites = 1 .. Len(L.sprites) /\ Len(L.sprites) \in Nat
             /\ ~Walking(l) => L.active_iterator \in {-1, 0}
             /\ Walking(l) =>
                  /\ InBody(l) /\ L.active_iterator \in -1 .. Len(L.sprites) - 1
                  /\ pass.cur \in UID /\ pass.cur < nextUID
                  /\ InOrder(L.sprites, L.active_iterator)
<1> DEFINE L == list[l]
<1>1. /\ L \in SpriteList /\ L.sprites \in Seq(UID) /\ IsInjective(L.sprites)
      /\ ToSet(L.sprites) \subseteq live
      /\ DOMAIN L.sprites = 1 .. Len(L.sprites) /\ Len(L.sprites) \in Nat
  BY DEF WalkInv, TypeOK, OneOwner, Listed, SpriteList
<1>2. ~Walking(l) => L.active_iterator \in {-1, 0}
  BY DEF WalkInv, TypeOK
<1>3. ASSUME Walking(l)
      PROVE  /\ InBody(l) /\ L.active_iterator \in -1 .. Len(L.sprites) - 1
             /\ pass.cur \in UID /\ pass.cur < nextUID
             /\ InOrder(L.sprites, L.active_iterator)
  <2>1. pass # Idle
    BY <1>3, NoListAssumption DEF Walking, Idle
  <2>2. pass.at = "body" /\ InBody(l)
    BY <2>1, <1>3 DEF WalkInv, TypeOK, OutsideLoop, InBody
  <2>3. Reached(l) = L.active_iterator + 1
    BY <2>2 DEF Reached
  <2>4. L.active_iterator \in -1 .. Len(L.sprites) - 1
    BY <2>2, <1>3 DEF WalkInv, TypeOK, Count
  <2> QED BY <2>2, <2>3, <2>4, <1>3 DEF WalkInv, TurnsInOrder, InOrder
<1> QED BY <1>1, <1>2, <1>3

LEMMA CreateWalkInv ==
  ASSUME WalkInv, NEW l \in Lists, Create(l)
  PROVE  WalkInv'
<1> DEFINE L == list[l]
<1>1. /\ nextUID \in UID /\ nextUID' = nextUID + 1 /\ nextUID' \in 1 .. MaxUID + 1
      /\ nextUID <= nextUID' /\ OutsideLoop /\ UNCHANGED <<stray, freeze_guys, pass, turns>>
  BY MaxUIDAssumption DEF Create, WalkInv, TypeOK, UID
<1>2. nextUID \notin live /\ turns[nextUID] = 0
  BY <1>1 DEF WalkInv, TurnsInOrder, UID
<1>3. /\ L \in SpriteList /\ L.sprites \in Seq(UID) /\ IsInjective(L.sprites)
      /\ Listed(l) = ToSet(L.sprites) /\ Listed(l) \subseteq live
      /\ DOMAIN L.sprites = 1 .. Len(L.sprites) /\ Len(L.sprites) \in Nat
      /\ ~Walking(l) => L.active_iterator \in {-1, 0}
  BY <1>1, CallerFinds DEF Listed
<1>4. Walking(l) =>
        /\ InBody(l) /\ L.active_iterator \in -1 .. Len(L.sprites) - 1
        /\ pass.cur \in UID /\ pass.cur < nextUID
        /\ InOrder(L.sprites, L.active_iterator)
  BY <1>1, CallerFinds
<1>5. CASE HasRoom(L)
  <2> DEFINE M == Added(L, nextUID)
  <2>1. /\ M \in SpriteList /\ M.sprites = Append(L.sprites, nextUID)
        /\ M.active_iterator = L.active_iterator
    BY <1>1, <1>3, AddedFields
  <2>2. IsInjective(M.sprites) /\ ToSet(M.sprites) = Listed(l) \cup {nextUID}
    BY <1>1, <1>2, <1>3, <2>1, AppendSet
  <2>3. list' = [list EXCEPT ![l] = M] /\ live' = live \cup {nextUID}
    BY <1>5 DEF Create
  <2>4. live' = (live \ Listed(l)) \cup ToSet(M.sprites)
    BY <2>2, <2>3, <1>3
  <2>5. /\ DOMAIN M.sprites = 1 .. Len(L.sprites) + 1 /\ Count(M) = Len(L.sprites) + 1
        /\ M.sprites[Len(L.sprites) + 1] = nextUID
        /\ \A k \in 1 .. Len(L.sprites) : M.sprites[k] = L.sprites[k]
    BY <1>1, <1>3, <2>1 DEF Count
  <2> HIDE DEF M
  <2>6. ASSUME Walking(l), NEW k \in DOMAIN M.sprites
        PROVE  /\ M.sprites[k] = pass.cur <=> k = M.active_iterator + 1
               /\ turns[M.sprites[k]] =
                    IF k > M.active_iterator + 1 \/ Frozen(M.sprites[k]) THEN 0 ELSE 1
    <3>1. CASE k \in DOMAIN L.sprites
      BY <2>1, <2>5, <2>6, <3>1, <1>3, <1>4 DEF InOrder
    <3>2. CASE k = Len(L.sprites) + 1
      <4>1. nextUID # pass.cur
        BY <2>6, <1>1, <1>4, MaxUIDAssumption DEF UID
      <4>2. k > M.active_iterator + 1
        BY <3>2, <2>1, <2>6, <1>3, <1>4
      <4>3. k # M.active_iterator + 1
        BY <3>2, <2>1, <2>6, <1>3, <1>4
      <4> QED BY <4>1, <4>2, <4>3, <3>2, <2>5, <1>2
    <3> QED BY <3>1, <3>2, <2>5, <1>3
  <2>7. M.active_iterator \in -1 .. Count(M) - 1 \/ ~Walking(l)
    BY <2>1, <2>5, <1>3, <1>4
  <2>8. Walking(l) => InOrder(M.sprites, M.active_iterator)
    BY <2>6 DEF InOrder
  <2> QED BY <1>1, <1>3, <2>1, <2>2, <2>3, <2>4, <2>7, <2>8, CallerStep
<1>6. CASE ~HasRoom(L)
  <2>1. list' = [list EXCEPT ![l] = L] /\ live' = live
    BY <1>6 DEF Create, WalkInv, TypeOK
  <2>2. live' = (live \ Listed(l)) \cup ToSet(L.sprites)
    BY <2>1, <1>3
  <2>3. Count(L) = Len(L.sprites)
    BY DEF Count
  <2> HIDE DEF L
  <2> QED BY <1>1, <1>3, <1>4, <2>1, <2>2, <2>3, CallerStep
<1> QED BY <1>5, <1>6

\* The elements of a walked list are where the walk left them after one that
\* it has passed, or has still to reach, is taken out.
LEMMA WithoutInOrder ==
  ASSUME NEW s \in Seq(UID), NEW i \in Int, InOrder(s, i),
         NEW j \in 0 .. Len(s) - 1, j # i
  PROVE  InOrder(Without(s, j + 1), IF j <= i THEN i - 1 ELSE i)
<1> DEFINE t == Without(s, j + 1)
           n == IF j <= i THEN i - 1 ELSE i
<1>1. /\ DOMAIN t = 1 .. Len(s) - 1 /\ Len(s) \in Nat /\ DOMAIN s = 1 .. Len(s)
      /\ \A k \in 1 .. Len(s) - 1 : t[k] = IF k < j + 1 THEN s[k] ELSE s[k + 1]
  <2>1. j + 1 \in 1 .. Len(s) /\ s \in Seq(UID)
    OBVIOUS
  <2>2. DOMAIN s = 1 .. Len(s) /\ Len(s) \in Nat
    BY <2>1
  <2> HIDE DEF t
  <2>3. DOMAIN t = 1 .. Len(s) - 1
        /\ \A k \in 1 .. Len(s) - 1 : t[k] = IF k < j + 1 THEN s[k] ELSE s[k + 1]
    BY <2>1, WithoutElement DEF t
  <2> QED BY <2>2, <2>3
<1> HIDE DEF t
<1>2. ASSUME NEW k \in DOMAIN t
      PROVE  /\ t[k] = pass.cur <=> k = n + 1
             /\ turns[t[k]] = IF k > n + 1 \/ Frozen(t[k]) THEN 0 ELSE 1
  <2>1. CASE k < j + 1
    <3>1. t[k] = s[k] /\ k \in DOMAIN s
      BY <2>1, <1>1
    <3>2. j > i => (k = n + 1 <=> k = i + 1) /\ (k > n + 1 <=> k > i + 1)
      OBVIOUS
    <3>3. j <= i => j < i /\ k # i + 1 /\ k # n + 1 /\ ~(k > n + 1) /\ ~(k > i + 1)
      BY <2>1, <1>1
    <3> QED BY <3>1, <3>2, <3>3 DEF InOrder
  <2>2. CASE k >= j + 1
    <3>1. t[k] = s[k + 1] /\ k + 1 \in DOMAIN s /\ k \in Int
      BY <2>2, <1>1
    <3>2. j <= i => ((k + 1 = i + 1) <=> (k = n + 1)) /\ ((k + 1 > i + 1) <=> (k > n + 1))
      BY <3>1
    <3>3. ~(j <= i) => k + 1 # i + 1 /\ k # n + 1 /\ k + 1 > i + 1 /\ k > n + 1
      BY <3>1, <2>2
    <3> QED BY <3>1, <3>2, <3>3 DEF InOrder
  <2> QED BY <2>1, <2>2, <1>1
<1> QED BY <1>2 DEF t, InOrder

LEMMA DeleteWalkInv ==
  ASSUME WalkInv, NEW l \in Lists, NEW j \in 0 .. Count(list[l]) - 1, Delete(l, j)
  PROVE  WalkInv'
<1> DEFINE L == list[l]
           M == Deleted(L, j)
<1>1. /\ OutsideLoop /\ UNCHANGED <<nextUID, stray, freeze_guys, pass, turns>>
      /\ nextUID \in 1 .. MaxUID + 1 /\ nextUID <= nextUID
      /\ list' = [list EXCEPT ![l] = M] /\ Spr(L, j) # pass.cur
      /\ live' = live \ {Spr(L, j)}
  BY MaxUIDAssumption DEF Delete, WalkInv, TypeOK
<1>2. /\ L \in SpriteList /\ L.sprites \in Seq(UID) /\ IsInjective(L.sprites)
      /\ Listed(l) = ToSet(L.sprites) /\ Listed(l) \subseteq live
      /\ DOMAIN L.sprites = 1 .. Len(L.sprites) /\ Len(L.sprites) \in Nat
      /\ ~Walking(l) => L.active_iterator \in {-1, 0}
  BY <1>1, CallerFinds DEF Listed
<1>3. Walking(l) =>
        /\ InBody(l) /\ L.active_iterator \in -1 .. Len(L.sprites) - 1
        /\ InOrder(L.sprites, L.active_iterator)
  BY <1>1, CallerFinds
<1>4. j + 1 \in DOMAIN L.sprites /\ j \in Int /\ j \in 0 .. Len(L.sprites) - 1
      /\ Spr(L, j) = L.sprites[j + 1] /\ L.sprites[j + 1] \in Listed(l)
  BY <1>2 DEF Count, Spr, ToSet
<1>5. /\ M \in SpriteList /\ M.sprites = Without(L.sprites, j + 1)
      /\ M.active_iterator = IF j <= L.active_iterator THEN L.active_iterator - 1
                                                       ELSE L.active_iterator
  BY <1>2, DeletedFields
<1>6. IsInjective(M.sprites) /\ ToSet(M.sprites) = Listed(l) \ {L.sprites[j + 1]}
  BY <1>2, <1>4, <1>5, WithoutSet
<1>7. live' = (live \ Listed(l)) \cup ToSet(M.sprites)
  BY <1>1, <1>2, <1>4, <1>6
<1>8. Count(M) = Len(L.sprites) - 1
  <2>1. Len(Without(L.sprites, j + 1)) = Len(L.sprites) - 1
    BY <1>2, <1>4, WithoutElement
  <2> QED BY <2>1, <1>5 DEF Count
<1> HIDE DEF M, L
<1>9. ASSUME Walking(l)
      PROVE  /\ M.active_iterator \in -1 .. Count(M) - 1
             /\ InOrder(M.sprites, M.active_iterator)
  <2>1. j # L.active_iterator /\ L.active_iterator \in Int
    BY <1>1, <1>2, <1>3, <1>4, <1>9 DEF InOrder
  <2>2. M.active_iterator \in -1 .. Count(M) - 1
    BY <2>1, <1>2, <1>3, <1>4, <1>5, <1>8, <1>9
  <2>3. L.sprites \in Seq(UID) /\ InOrder(L.sprites, L.active_iterator)
    BY <1>2, <1>3, <1>9
  <2>4. InOrder(M.sprites, M.active_iterator)
    BY <2>1, <2>3, <1>4, <1>5, WithoutInOrder
  <2> QED BY <2>2, <2>4
<1>10. ~Walking(l) => M.active_iterator \in {-1, 0}
  BY <1>2, <1>4, <1>5
<1> QED BY <1>1, <1>5, <1>6, <1>7, <1>9, <1>10, CallerStep

LEMMA SwapWalkInv ==
  ASSUME WalkInv, NEW l \in Lists, NEW a \in 0 .. Count(list[l]) - 1,
         NEW b \in 0 .. Count(list[l]) - 1, Swap(l, a, b)
  PROVE  WalkInv'
<1> DEFINE L == list[l]
           M == Swapped(L, a, b)
<1>1. /\ OutsideLoop /\ UNCHANGED <<nextUID, live, stray, freeze_guys, pass, turns>>
      /\ nextUID \in 1 .. MaxUID + 1 /\ nextUID <= nextUID
      /\ list' = [list EXCEPT ![l] = M]
      /\ Walking(l) => L.active_iterator < a /\ L.active_iterator < b
  BY MaxUIDAssumption DEF Swap, WalkInv, TypeOK
<1>2. /\ L \in SpriteList /\ L.sprites \in Seq(UID) /\ IsInjective(L.sprites)
      /\ Listed(l) = ToSet(L.sprites) /\ Listed(l) \subseteq live
      /\ DOMAIN L.sprites = 1 .. Len(L.sprites) /\ Len(L.sprites) \in Nat
      /\ ~Walking(l) => L.active_iterator \in {-1, 0}
  BY <1>1, CallerFinds DEF Listed
<1>3. Walking(l) =>
        /\ InBody(l) /\ L.active_iterator \in -1 .. Len(L.sprites) - 1
        /\ InOrder(L.sprites, L.active_iterator)
  BY <1>1, CallerFinds
<1>4. a + 1 \in DOMAIN L.sprites /\ b + 1 \in DOMAIN L.sprites /\ a \in Int /\ b \in Int
  BY <1>2 DEF Count
<1>5. /\ M \in SpriteList
      /\ M.sprites = Exchanged(L.sprites, a + 1, b + 1)
      /\ M.active_iterator = L.active_iterator
  BY <1>2, SwappedFields
<1>6. IsInjective(M.sprites) /\ ToSet(M.sprites) = Listed(l) /\ DOMAIN M.sprites = DOMAIN L.sprites
  BY <1>2, <1>4, <1>5, SwapSet
<1>7. live' = (live \ Listed(l)) \cup ToSet(M.sprites)
  BY <1>1, <1>2, <1>6
<1>8. Count(M) = Len(L.sprites)
  <2>1. M.sprites \in Seq(UID)
    BY <1>5 DEF SpriteList
  <2> QED BY <2>1, <1>2, <1>6 DEF Count
<1>9. \A k \in DOMAIN L.sprites : M.sprites[k] =
         IF k = b + 1 THEN L.sprites[a + 1] ELSE IF k = a + 1 THEN L.sprites[b + 1] ELSE L.sprites[k]
  BY SMTT(30), <1>2, <1>4, <1>5, SwapSet
<1> HIDE DEF M, L
<1>10. ASSUME Walking(l), NEW k \in DOMAIN M.sprites
       PROVE  /\ M.sprites[k] = pass.cur <=> k = M.active_iterator + 1
              /\ turns[M.sprites[k]] =
                   IF k > M.active_iterator + 1 \/ Frozen(M.sprites[k]) THEN 0 ELSE 1
  <2>1. L.active_iterator \in Int /\ k \in Int /\ k \in DOMAIN L.sprites
    BY <1>2, <1>3, <1>6, <1>10
  <2>2. a + 1 > L.active_iterator + 1 /\ b + 1 > L.active_iterator + 1
    BY <2>1, <1>1, <1>4, <1>10
  <2>3. CASE k = a + 1 \/ k = b + 1
    <3>1. PICK i \in {a + 1, b + 1} : M.sprites[k] = L.sprites[i]
      BY <2>1, <2>3, <1>9
    <3>2. /\ i \in DOMAIN L.sprites /\ i > L.active_iterator + 1 /\ i # L.active_iterator + 1
          /\ k > L.active_iterator + 1 /\ k # L.active_iterator + 1
      BY <2>1, <2>2, <2>3, <3>1, <1>4
    <3> QED BY <3>1, <3>2, <1>3, <1>5, <1>10 DEF InOrder
  <2>4. CASE k # a + 1 /\ k # b + 1
    BY <2>1, <2>4, <1>3, <1>5, <1>9, <1>10 DEF InOrder
  <2> QED BY <2>3, <2>4
<1>11. Walking(l) => M.active_iterator \in -1 .. Count(M) - 1
  BY <1>2, <1>3, <1>5, <1>8
<1>12. Walking(l) => InOrder(M.sprites, M.active_iterator)
  BY <1>10 DEF InOrder
<1> QED BY <1>1, <1>2, <1>5, <1>6, <1>7, <1>11, <1>12, CallerStep

LEMMA ClearWalkInv ==
  ASSUME WalkInv, NEW l \in Lists, Clear(l)
  PROVE  WalkInv'
<1> DEFINE L == list[l]
           M == Cleared(L)
<1>1. /\ OutsideLoop /\ UNCHANGED <<nextUID, stray, freeze_guys, pass, turns>>
      /\ nextUID \in 1 .. MaxUID + 1 /\ nextUID <= nextUID
      /\ list' = [list EXCEPT ![l] = M] /\ live' = live \ Listed(l)
  BY MaxUIDAssumption DEF Clear, WalkInv, TypeOK, Listed
<1>2. /\ L \in SpriteList /\ L.sprites \in Seq(UID) /\ IsInjective(L.sprites)
      /\ Listed(l) = ToSet(L.sprites) /\ Listed(l) \subseteq live
      /\ DOMAIN L.sprites = 1 .. Len(L.sprites) /\ Len(L.sprites) \in Nat
      /\ ~Walking(l) => L.active_iterator \in {-1, 0}
  BY <1>1, CallerFinds DEF Listed
<1>3. Walking(l) =>
        /\ InBody(l) /\ L.active_iterator \in -1 .. Len(L.sprites) - 1
        /\ InOrder(L.sprites, L.active_iterator)
  BY <1>1, CallerFinds
<1>4. /\ M \in SpriteList /\ M.sprites = <<>>
      /\ M.active_iterator = IF L.active_iterator >= Len(L.sprites)
                             THEN L.active_iterator - Len(L.sprites) ELSE -1
  BY <1>2, ClearedFields DEF Count
<1>5. IsInjective(M.sprites) /\ ToSet(M.sprites) = {} /\ Count(M) = 0
      /\ InOrder(M.sprites, M.active_iterator)
  BY <1>4 DEF IsInjective, ToSet, Count, InOrder
<1> HIDE DEF M, L
<1>6. /\ Walking(l) => M.active_iterator = -1 /\ M.active_iterator \in -1 .. Count(M) - 1
      /\ ~Walking(l) => M.active_iterator \in {-1, 0}
  BY <1>2, <1>3, <1>4, <1>5
<1>7. live' = (live \ Listed(l)) \cup ToSet(M.sprites) /\ ToSet(M.sprites) \ Listed(l) = {}
  BY <1>1, <1>5
<1> QED BY <1>1, <1>4, <1>5, <1>6, <1>7, CallerStep

\* Looking a sprite up and changing the limit leave the sprites alone.
LEMMA LookupWalkInv ==
  ASSUME WalkInv, NEW l \in Lists,
         (\E u \in UID : Lookup(l, u)) \/ (\E m \in Limits : SetMax(l, m))
  PROVE  WalkInv'
<1> DEFINE L == list[l]
<1>1. /\ OutsideLoop /\ UNCHANGED <<nextUID, live, stray, freeze_guys, pass, turns>>
      /\ nextUID \in 1 .. MaxUID + 1 /\ nextUID <= nextUID
  BY MaxUIDAssumption DEF Lookup, SetMax, WalkInv, TypeOK
<1>2. /\ L \in SpriteList /\ L.sprites \in Seq(UID) /\ IsInjective(L.sprites)
      /\ Listed(l) = ToSet(L.sprites) /\ Listed(l) \subseteq live
      /\ DOMAIN L.sprites = 1 .. Len(L.sprites) /\ Len(L.sprites) \in Nat
      /\ ~Walking(l) => L.active_iterator \in {-1, 0}
  BY <1>1, CallerFinds DEF Listed
<1>3. Walking(l) =>
        /\ InBody(l) /\ L.active_iterator \in -1 .. Len(L.sprites) - 1
        /\ InOrder(L.sprites, L.active_iterator)
  BY <1>1, CallerFinds
<1>4. PICK M \in SpriteList : /\ list' = [list EXCEPT ![l] = M] /\ M.sprites = L.sprites
                            /\ M.active_iterator = L.active_iterator
  <2>1. CASE \E u \in UID : Lookup(l, u)
    <3>1. PICK u \in UID : list' = [list EXCEPT ![l] = LookedUp(L, u)]
      BY <2>1 DEF Lookup
    <3> QED BY <3>1, <1>2, LookedUpFields
  <2>2. CASE \E m \in Limits : SetMax(l, m)
    <3>1. PICK m \in Limits : list' = [list EXCEPT ![l] = [L EXCEPT !.max_sprites = m]]
      BY <2>2 DEF SetMax
    <3>2. LET M == [L EXCEPT !.max_sprites = m]
          IN  M \in SpriteList /\ M.sprites = L.sprites /\ M.active_iterator = L.active_iterator
      BY <1>2 DEF SpriteList
    <3> QED BY <3>1, <3>2
  <2> QED BY <2>1, <2>2
<1>5. live' = (live \ Listed(l)) \cup ToSet(M.sprites) /\ Count(M) = Len(L.sprites)
      /\ ToSet(M.sprites) \ Listed(l) = {} /\ IsInjective(M.sprites)
  BY <1>1, <1>2, <1>4 DEF Count
<1>6. /\ ~Walking(l) => M.active_iterator \in {-1, 0}
      /\ Walking(l) => M.active_iterator \in -1 .. Count(M) - 1
      /\ Walking(l) => InOrder(M.sprites, M.active_iterator)
  BY <1>2, <1>3, <1>4, <1>5
<1>7. nextUID' \in 1 .. MaxUID + 1 /\ nextUID <= nextUID' /\ UNCHANGED <<stray, pass, turns, freeze_guys>>
  BY <1>1
<1> HIDE DEF L
<1> QED BY <1>1, <1>4, <1>5, <1>6, <1>7, CallerStep

\* remove(s) of a listed sprite, whatever UID is read from it.
LEMMA RemovedSprite ==
  ASSUME NEW L \in SpriteList, IsInjective(L.sprites), NEW s \in ToSet(L.sprites), NEW uid \in UID
  PROVE  LET R == Removed(L, s, uid)
         IN  /\ R \in SpriteList /\ IsInjective(R.sprites)
             /\ ToSet(R.sprites) = ToSet(L.sprites) \ {s}
             /\ R.active_iterator = L.active_iterator
<1>1. L.sprites \in Seq(UID) /\ DOMAIN L.sprites = 1 .. Len(L.sprites)
  BY DEF SpriteList
<1>2. PICK k \in 1 .. Len(L.sprites) : s = L.sprites[k]
  BY <1>1 DEF ToSet
<1>3. IsInjective(Without(L.sprites, k)) /\ ToSet(Without(L.sprites, k)) = ToSet(L.sprites) \ {s}
  BY <1>1, <1>2, WithoutSet
<1>4. k \in 1 .. Count(L)
  BY DEF Count
<1>5. /\ Removed(L, s, uid) \in SpriteList
      /\ Removed(L, s, uid).sprites = Without(L.sprites, k)
      /\ Removed(L, s, uid).active_iterator = L.active_iterator
  BY <1>2, <1>4, RemovedFields
<1> QED BY <1>3, <1>5

LEMMA ReflectWalkInv ==
  ASSUME WalkInv, NEW from \in Lists, NEW to \in Lists, NEW s \in UID, Reflect(from, to, s)
  PROVE  WalkInv'
<1> DEFINE F == list[from]
           T == list[to]
<1>1. /\ pass = Idle /\ pass' = pass /\ from # to /\ s \in Listed(from) /\ OutsideLoop
      /\ UNCHANGED <<nextUID, stray, freeze_guys, turns>>
  BY DEF Reflect, Listed, Idle, OutsideLoop
<1>2. \A m \in Lists : ~Walking(m) /\ ~InBody(m) /\ ~Walking(m)' /\ ~InBody(m)'
  BY <1>1, NoListAssumption DEF Walking, InBody, Idle
<1>3. /\ F \in SpriteList /\ F.sprites \in Seq(UID) /\ IsInjective(F.sprites)
      /\ DOMAIN F.sprites = 1 .. Len(F.sprites) /\ F.active_iterator \in {-1, 0}
      /\ T \in SpriteList /\ T.sprites \in Seq(UID) /\ IsInjective(T.sprites)
      /\ T.active_iterator \in {-1, 0}
  BY <1>1, <1>2, CallerFinds
<1>4. /\ live = stray \cup UNION {Listed(m) : m \in Lists}
      /\ \A m, n \in Lists : m # n => Listed(m) \cap Listed(n) = {}
      /\ \A m \in Lists : IsInjective(list[m].sprites) /\ Listed(m) \cap stray = {}
      /\ list \in [Lists -> SpriteList]
      /\ \A m \in Lists : list[m].active_iterator \in {-1, 0}
  BY <1>2 DEF WalkInv, OneOwner, TypeOK
<1>6. ASSUME NEW uid \in UID
      PROVE  LET R == Removed(F, s, uid)
             IN  /\ R \in SpriteList /\ IsInjective(R.sprites)
                 /\ ToSet(R.sprites) = Listed(from) \ {s}
                 /\ R.active_iterator \in {-1, 0}
  <2>1. s \in ToSet(F.sprites) /\ Listed(from) = ToSet(F.sprites)
    BY <1>1 DEF Listed
  <2>2. F \in SpriteList /\ IsInjective(F.sprites) /\ F.active_iterator \in {-1, 0}
    BY <1>3
  <2> DEFINE R == Removed(F, s, uid)
  <2> HIDE DEF F
  <2>3. /\ R \in SpriteList /\ IsInjective(R.sprites)
        /\ ToSet(R.sprites) = ToSet(F.sprites) \ {s}
        /\ R.active_iterator = F.active_iterator
    BY <2>1, <2>2, RemovedSprite
  <2> HIDE DEF R
  <2>4. /\ R \in SpriteList /\ IsInjective(R.sprites)
        /\ ToSet(R.sprites) = Listed(from) \ {s} /\ R.active_iterator \in {-1, 0}
    BY <2>1, <2>2, <2>3
  <2> QED BY <2>4 DEF R, F
<1>7. /\ list' \in [Lists -> SpriteList]
      /\ \A m \in Lists : IsInjective(list'[m].sprites) /\ list'[m].active_iterator \in {-1, 0}
      /\ Listed(from)' = Listed(from) \ {s}
      /\ \/ Listed(to)' = Listed(to) \cup {s} /\ live' = live
         \/ Listed(to)' = Listed(to) /\ live' = live \ {s}
      /\ \A m \in Lists \ {from, to} : Listed(m)' = Listed(m)
  <2>1. CASE HasRoom(T)
    <3> DEFINE A == Added(T, s)
               R == Removed(F, s, s)
    <3>1. list' = [list EXCEPT ![to] = A, ![from] = R] /\ live' = live
      BY <2>1, <1>1 DEF Reflect
    <3>2. s \notin ToSet(T.sprites)
      BY <1>1, <1>4 DEF Listed
    <3>3. /\ A \in SpriteList /\ A.sprites = Append(T.sprites, s)
          /\ A.active_iterator \in {-1, 0}
      BY <1>3, AddedFields
    <3>4. IsInjective(A.sprites) /\ ToSet(A.sprites) = Listed(to) \cup {s}
      BY <3>2, <3>3, <1>3, AppendSet DEF Listed
    <3>5. /\ R \in SpriteList /\ IsInjective(R.sprites) /\ R.active_iterator \in {-1, 0}
          /\ ToSet(R.sprites) = Listed(from) \ {s}
      BY <1>6
    <3> HIDE DEF A, R
    <3> QED BY <3>1, <3>3, <3>4, <3>5, <1>1, <1>4 DEF Listed
  <2>2. CASE ~HasRoom(T)
    <3>1. PICK uid \in UID : list' = [list EXCEPT ![from] = Removed(F, s, uid)]
      BY <2>2 DEF Reflect
    <3>2. live' = live \ {s}
      BY <2>2 DEF Reflect
    <3> DEFINE R == Removed(F, s, uid)
    <3>3. /\ R \in SpriteList /\ IsInjective(R.sprites) /\ R.active_iterator \in {-1, 0}
          /\ ToSet(R.sprites) = Listed(from) \ {s}
      BY <1>6
    <3>4. list' = [list EXCEPT ![from] = R]
      BY <3>1
    <3> HIDE DEF R
    <3> QED BY <3>2, <3>3, <3>4, <1>1, <1>4 DEF Listed
  <2> QED BY <2>1, <2>2
<1>8. OneOwner'
  <2>1. \A u : u \in live' <=> u \in stray \/ \E m \in Lists : u \in Listed(m)'
    BY <1>1, <1>4, <1>7
  <2>2. \A m, n \in Lists : m # n => Listed(m)' \cap Listed(n)' = {}
    BY <1>1, <1>4, <1>7
  <2>3. live' = stray' \cup UNION {Listed(m)' : m \in Lists}
    BY <2>1, <1>1
  <2>4. \A m \in Lists : Listed(m)' \cap stray' = {}
    BY <1>1, <1>4, <1>7
  <2> QED BY <2>2, <2>3, <2>4, <1>7 DEF OneOwner
<1>9. TypeOK'
  BY <1>1, <1>2, <1>7 DEF WalkInv, TypeOK
<1>10. TurnsInOrder'
  <2>1. live' \subseteq live
    BY <1>7
  <2> QED BY <2>1, <1>1, <1>2 DEF WalkInv, TurnsInOrder
<1> QED BY <1>8, <1>9, <1>10 DEF WalkInv

\* A sprite let go of between walks goes from its list to the strays.
LEMMA PhantomsCleanupWalkInv ==
  ASSUME WalkInv, NEW l \in Lists, NEW s \in UID, PhantomsCleanup(l, s)
  PROVE  WalkInv'
<1> DEFINE R == Removed(list[l], s, s)
<1>1. /\ pass = Idle /\ pass' = pass /\ s \in Listed(l) /\ OutsideLoop
      /\ list' = [list EXCEPT ![l] = R] /\ stray' = stray \cup {s}
      /\ UNCHANGED <<nextUID, live, freeze_guys, turns>>
  BY DEF PhantomsCleanup, Listed, Idle, OutsideLoop
<1>2. \A m \in Lists : ~Walking(m) /\ ~InBody(m) /\ ~Walking(m)' /\ ~InBody(m)'
  BY <1>1, NoListAssumption DEF Walking, InBody, Idle
<1>3. /\ live = stray \cup UNION {Listed(m) : m \in Lists}
      /\ \A m, n \in Lists : m # n => Listed(m) \cap Listed(n) = {}
      /\ \A m \in Lists : IsInjective(list[m].sprites) /\ Listed(m) \cap stray = {}
      /\ list \in [Lists -> SpriteList]
      /\ \A m \in Lists : list[m].active_iterator \in {-1, 0}
  BY <1>2 DEF WalkInv, OneOwner, TypeOK
<1>4. /\ R \in SpriteList /\ IsInjective(R.sprites) /\ R.active_iterator \in {-1, 0}
      /\ ToSet(R.sprites) = Listed(l) \ {s}
  BY <1>1, <1>3, RemovedSprite DEF Listed
<1> HIDE DEF R
<1>5. /\ list' \in [Lists -> SpriteList]
      /\ \A m \in Lists : IsInjective(list'[m].sprites) /\ list'[m].active_iterator \in {-1, 0}
      /\ Listed(l)' = Listed(l) \ {s}
      /\ \A m \in Lists \ {l} : Listed(m)' = Listed(m)
  BY <1>1, <1>3, <1>4 DEF Listed
<1>6. OneOwner'
  <2>1. \A u : u \in live <=> u \in stray' \/ \E m \in Lists : u \in Listed(m)'
    BY <1>1, <1>3, <1>5
  <2>2. live' = stray' \cup UNION {Listed(m)' : m \in Lists}
    BY <2>1, <1>1
  <2>3. \A m \in Lists : Listed(m)' \cap stray' = {}
    BY <1>1, <1>3, <1>5
  <2>4. \A m, n \in Lists : m # n => Listed(m)' \cap Listed(n)' = {}
    BY <1>3, <1>5
  <2> QED BY <2>2, <2>3, <2>4, <1>5 DEF OneOwner
<1>7. TypeOK'
  BY <1>1, <1>2, <1>5 DEF WalkInv, TypeOK
<1>8. TurnsInOrder'
  BY <1>1, <1>2 DEF WalkInv, TurnsInOrder
<1> QED BY <1>6, <1>7, <1>8 DEF WalkInv

\* A sprite that is never added is a stray from the start.
LEMMA DustpileWalkInv ==
  ASSUME WalkInv, Dustpile
  PROVE  WalkInv'
<1>1. /\ nextUID \in UID /\ nextUID' = nextUID + 1 /\ nextUID' \in 1 .. MaxUID + 1
      /\ live' = live \cup {nextUID} /\ stray' = stray \cup {nextUID}
      /\ UNCHANGED <<list, freeze_guys, pass, turns>>
  BY MaxUIDAssumption DEF Dustpile, WalkInv, TypeOK, UID
<1>2. \A u \in UID : u >= nextUID => u \notin live /\ turns[u] = 0
  BY DEF WalkInv, TurnsInOrder
<1>3. nextUID \in Int /\ UID \subseteq Int /\ nextUID \notin live
  BY <1>1, <1>2 DEF UID
<1>4. \A m \in Lists : /\ Listed(m)' = Listed(m) /\ Walking(m)' = Walking(m)
                       /\ InBody(m)' = InBody(m) /\ Reached(m)' = Reached(m)
  BY <1>1 DEF Listed, Walking, InBody, Reached
<1>5. OneOwner'
  BY <1>1, <1>3, <1>4 DEF WalkInv, OneOwner
<1>6. TypeOK'
  BY <1>1, <1>4 DEF WalkInv, TypeOK, Count
<1>7. TurnsInOrder'
  <2>1. ASSUME NEW u \in UID, u >= nextUID' PROVE u \notin live' /\ turns'[u] = 0
    <3>1. u >= nextUID /\ u # nextUID
      BY <2>1, <1>1, <1>3
    <3> QED BY <3>1, <1>1, <1>2
  <2>2. ASSUME NEW m \in Lists, InBody(m) PROVE pass.cur \in UID /\ pass.cur < nextUID'
    <3>1. pass.cur \in UID /\ pass.cur < nextUID
      BY <2>2 DEF WalkInv, TurnsInOrder
    <3>2. pass.cur \in Int
      BY <3>1, <1>3
    <3>3. \A i, j \in Int : i < j => i < j + 1
      OBVIOUS
    <3> QED BY <3>1, <3>2, <3>3, <1>1, <1>3
  <2> QED BY <2>1, <2>2, <1>1, <1>4 DEF WalkInv, TurnsInOrder, Frozen
<1> QED BY <1>5, <1>6, <1>7 DEF WalkInv

\* The walk has given a turn to the first i of the sprites in s, and t counts
\* their turns.
Passed(s, i, t) ==
  \A k \in DOMAIN s : t[s[k]] = IF k > i \/ Frozen(s[k]) THEN 0 ELSE 1

\* A step after which the loop of list l is at an index that the walk has
\* reached in order.
LEMMA LoopStep ==
  ASSUME WalkInv, NEW l \in Lists, pass.list \in {l, NoList}, NEW M \in SpriteList,
         list' = [list EXCEPT ![l] = M],
         pass' \in [list : {l}, kind : {"animate", "script"}, at : {"loop"}, cur : UID \cup {NoSprite}],
         UNCHANGED <<nextUID, stray, freeze_guys>>,
         IsInjective(M.sprites), ToSet(M.sprites) \subseteq Listed(l),
         live' = (live \ Listed(l)) \cup ToSet(M.sprites),
         M.active_iterator \in 0 .. Count(M),
         turns' \in [UID -> Nat], \A u \in UID : u >= nextUID => turns'[u] = 0,
         Passed(M.sprites, M.active_iterator, turns')
  PROVE  WalkInv'
<1>1. /\ list' \in [Lists -> SpriteList] /\ list'[l] = M
      /\ \A m \in Lists : m # l => list'[m] = list[m]
  BY DEF WalkInv, TypeOK
<1>2. Listed(l)' = ToSet(M.sprites) /\ \A m \in Lists : m # l => Listed(m)' = Listed(m)
  BY <1>1 DEF Listed
<1>3. /\ live = stray \cup UNION {Listed(m) : m \in Lists}
      /\ \A m, n \in Lists : m # n => Listed(m) \cap Listed(n) = {}
      /\ \A m \in Lists : IsInjective(list[m].sprites) /\ Listed(m) \cap stray = {}
  BY DEF WalkInv, OneOwner
<1>4. /\ Walking(l)' /\ ~InBody(l)' /\ Reached(l)' = M.active_iterator
      /\ \A m \in Lists : m # l => ~Walking(m) /\ ~Walking(m)' /\ ~InBody(m)'
  BY <1>1, NoListAssumption DEF Walking, InBody, Reached
<1>5. OneOwner'
  <2>1. \A u : u \in live' <=> u \in stray \/ \E m \in Lists : u \in Listed(m)'
    BY <1>2, <1>3
  <2>2. live' = stray' \cup UNION {Listed(m)' : m \in Lists}
    BY <2>1
  <2>3. \A m, n \in Lists : m # n => Listed(m)' \cap Listed(n)' = {}
    BY <1>2, <1>3
  <2>4. \A m \in Lists : IsInjective(list'[m].sprites) /\ Listed(m)' \cap stray' = {}
    BY <1>1, <1>2, <1>3
  <2> QED BY <2>2, <2>3, <2>4 DEF OneOwner
<1>6. TypeOK'
  <2>1. live' \subseteq live
    BY <1>3
  <2>2. pass' \in [list : Lists, kind : {"animate", "script"},
                   at : {"loop", "body"}, cur : UID \cup {NoSprite}]
    OBVIOUS
  <2>3. \A m \in Lists : list'[m].active_iterator \in
                 IF ~Walking(m)' THEN {-1, 0}
                 ELSE IF InBody(m)' THEN -1 .. Count(list'[m]) - 1 ELSE 0 .. Count(list'[m])
    BY ZenonT(30), <1>1, <1>4 DEF WalkInv, TypeOK
  <2> QED BY <2>1, <2>2, <2>3, <1>1 DEF WalkInv, TypeOK, Count
<1>7. TurnsInOrder'
  <2>1. \A u \in UID : u >= nextUID' => u \notin live' /\ turns'[u] = 0
    BY <1>3 DEF WalkInv, TurnsInOrder
  <2>2. ASSUME NEW m \in Lists, Walking(m)', NEW k \in DOMAIN list'[m].sprites
        PROVE  turns'[list'[m].sprites[k]] =
                 IF k > Reached(m)' \/ Frozen(list'[m].sprites[k]) THEN 0 ELSE 1
    <3>1. m = l
      BY <2>2, <1>4
    <3> QED BY <2>2, <3>1, <1>1, <1>4 DEF Passed
  <2> QED BY <2>1, <2>2, <1>4 DEF TurnsInOrder, Frozen
<1> QED BY <1>5, <1>6, <1>7 DEF WalkInv

\* What a walk finds in its list.
LEMMA WalkFinds ==
  ASSUME WalkInv, NEW l \in Lists, Walking(l)
  PROVE  LET L == list[l]
         IN  /\ pass \in [list : {l}, kind : {"animate", "script"},
                          at : {"loop", "body"}, cur : UID \cup {NoSprite}]
             /\ L \in SpriteList /\ L.sprites \in Seq(UID) /\ IsInjective(L.sprites)
             /\ Listed(l) = ToSet(L.sprites) /\ Listed(l) \subseteq live
             /\ DOMAIN L.sprites = 1 .. Len(L.sprites) /\ Len(L.sprites) \in Nat
             /\ \A u \in UID : u >= nextUID => u \notin live /\ turns[u] = 0
             /\ turns \in [UID -> Nat]
<1> DEFINE L == list[l]
<1>1. pass # Idle /\ pass.list = l
  BY NoListAssumption DEF Walking, Idle
<1>2. /\ L \in SpriteList /\ L.sprites \in Seq(UID) /\ IsInjective(L.sprites)
      /\ Listed(l) = ToSet(L.sprites) /\ Listed(l) \subseteq live
      /\ DOMAIN L.sprites = 1 .. Len(L.sprites) /\ Len(L.sprites) \in Nat
  BY DEF WalkInv, TypeOK, OneOwner, Listed, SpriteList
<1>3. /\ \A u \in UID : u >= nextUID => u \notin live /\ turns[u] = 0
      /\ turns \in [UID -> Nat]
      /\ pass \in [list : Lists, kind : {"animate", "script"}, at : {"loop", "body"},
                   cur : UID \cup {NoSprite}]
  BY <1>1 DEF WalkInv, TypeOK, TurnsInOrder
<1> QED BY <1>1, <1>2, <1>3

LEMMA LoopFinds ==
  ASSUME WalkInv, NEW l \in Lists, Walking(l), pass.at = "loop"
  PROVE  /\ list[l].active_iterator \in 0 .. Len(list[l].sprites)
         /\ Passed(list[l].sprites, list[l].active_iterator, turns)
<1>1. ~InBody(l)
  BY DEF InBody
<1>2. list[l].active_iterator \in 0 .. Len(list[l].sprites)
  BY <1>1 DEF WalkInv, TypeOK, Count
<1>3. Reached(l) = list[l].active_iterator
  BY <1>2 DEF Reached
<1> QED BY <1>2, <1>3 DEF WalkInv, TurnsInOrder, Passed

\* A list whose walk has moved on.
MovedTo(L, i) == [L EXCEPT !.active_iterator = i]

LEMMA MovedToFields ==
  ASSUME NEW L \in SpriteList, NEW i \in Int
  PROVE  /\ MovedTo(L, i) \in SpriteList
         /\ MovedTo(L, i).sprites = L.sprites
         /\ MovedTo(L, i).containedUIDs = L.containedUIDs
         /\ MovedTo(L, i).active_iterator = i
         /\ MovedTo(L, i).lastUIDRequested = L.lastUIDRequested
         /\ MovedTo(L, i).lastSpriteRequested = L.lastSpriteRequested
  BY DEF MovedTo, SpriteList

LEMMA StartWalkWalkInv ==
  ASSUME WalkInv, NEW l \in Lists, NEW kind \in {"animate", "script"}, StartWalk(l, kind)
  PROVE  WalkInv'
<1> DEFINE L == list[l]
           M == MovedTo(L, 0)
<1>1. /\ pass.list = NoList /\ UNCHANGED <<nextUID, live, stray, freeze_guys>>
      /\ pass' \in [list : {l}, kind : {"animate", "script"}, at : {"loop"}, cur : {NoSprite}]
      /\ list' = [list EXCEPT ![l] = M]
      /\ turns' = [u \in UID |-> 0]
  BY DEF StartWalk, Idle, MovedTo
<1>2. /\ L \in SpriteList /\ L.sprites \in Seq(UID) /\ IsInjective(L.sprites)
      /\ Listed(l) = ToSet(L.sprites) /\ Listed(l) \subseteq live
  BY DEF WalkInv, TypeOK, OneOwner, Listed, SpriteList
<1>3. M \in SpriteList /\ M.sprites = L.sprites /\ M.active_iterator = 0
  BY SMTT(30), <1>2, MovedToFields
<1> HIDE DEF M, L
<1>4. /\ M.active_iterator \in 0 .. Count(M)
      /\ \A k \in DOMAIN M.sprites : k > M.active_iterator /\ M.sprites[k] \in UID
  BY <1>2, <1>3 DEF Count
<1>5. /\ turns' \in [UID -> Nat] /\ \A u \in UID : turns'[u] = 0
      /\ Passed(M.sprites, M.active_iterator, turns')
  BY <1>1, <1>4 DEF Passed
<1>6. live' = (live \ Listed(l)) \cup ToSet(M.sprites) /\ ToSet(M.sprites) \subseteq Listed(l)
  BY <1>1, <1>2, <1>3
<1> QED BY <1>1, <1>2, <1>3, <1>4, <1>5, <1>6, LoopStep

LEMMA SkipFrozenWalkInv ==
  ASSUME WalkInv, NEW l \in Lists, SkipFrozen(l)
  PROVE  WalkInv'
<1> DEFINE L == list[l]
           i == L.active_iterator
           M == MovedTo(L, i + 1)
<1>1. /\ Walking(l) /\ pass.at = "loop" /\ i < Len(L.sprites) /\ Frozen(Spr(L, i))
      /\ UNCHANGED <<nextUID, live, stray, freeze_guys, pass, turns>>
      /\ list' = [list EXCEPT ![l] = M]
  BY DEF SkipFrozen, MovedTo, Count
<1>2. /\ pass \in [list : {l}, kind : {"animate", "script"}, at : {"loop", "body"},
                   cur : UID \cup {NoSprite}]
      /\ L \in SpriteList /\ L.sprites \in Seq(UID) /\ IsInjective(L.sprites)
      /\ Listed(l) = ToSet(L.sprites) /\ Listed(l) \subseteq live
      /\ DOMAIN L.sprites = 1 .. Len(L.sprites) /\ Len(L.sprites) \in Nat
      /\ \A u \in UID : u >= nextUID => u \notin live /\ turns[u] = 0
      /\ turns \in [UID -> Nat]
  BY <1>1, WalkFinds
<1>3. i \in 0 .. Len(L.sprites) /\ Passed(L.sprites, i, turns)
  BY <1>1, LoopFinds
<1>4. M \in SpriteList /\ M.sprites = L.sprites /\ M.active_iterator = i + 1
  <2>1. i + 1 \in Int /\ L \in SpriteList
    BY <1>2, <1>3
  <2> HIDE DEF L
  <2> QED BY <2>1, MovedToFields
<1>5. Spr(L, i) = L.sprites[i + 1]
  BY <1>1, <1>2, <1>3 DEF Spr, Count
<1> HIDE DEF L, M
<1>6. Passed(L.sprites, i + 1, turns)
  <2>1. ASSUME NEW k \in DOMAIN L.sprites
        PROVE  turns[L.sprites[k]] = IF k > i + 1 \/ Frozen(L.sprites[k]) THEN 0 ELSE 1
    <3>1. CASE k = i + 1
      BY <3>1, <1>1, <1>3, <1>5 DEF Passed
    <3>2. CASE k # i + 1
      <4>1. k > i + 1 <=> k > i
        BY <3>2, <1>2, <1>3
      <4> QED BY <4>1, <1>3 DEF Passed
    <3> QED BY <3>1, <3>2
  <2> QED BY <2>1 DEF Passed
<1>7. M.active_iterator \in 0 .. Count(M)
  BY <1>1, <1>2, <1>3, <1>4 DEF Count
<1>8. /\ pass.list \in {l, NoList} /\ live' = (live \ Listed(l)) \cup ToSet(M.sprites)
      /\ pass' \in [list : {l}, kind : {"animate", "script"}, at : {"loop"},
                    cur : UID \cup {NoSprite}]
  BY <1>1, <1>2, <1>4
<1>9. /\ list' = [list EXCEPT ![l] = M] /\ UNCHANGED <<nextUID, stray, freeze_guys>>
      /\ IsInjective(M.sprites) /\ ToSet(M.sprites) \subseteq Listed(l)
  BY <1>1, <1>2, <1>4
<1>10. /\ turns' \in [UID -> Nat] /\ \A u \in UID : u >= nextUID => turns'[u] = 0
       /\ Passed(M.sprites, M.active_iterator, turns')
  BY <1>1, <1>2, <1>4, <1>6
<1>11. M \in SpriteList
  BY <1>4
<1> QED BY <1>7, <1>8, <1>9, <1>10, <1>11, LoopStep

\* What a callback finds in the list being walked.
LEMMA BodyFinds ==
  ASSUME WalkInv, NEW l \in Lists, InBody(l)
  PROVE  /\ list[l].active_iterator \in -1 .. Len(list[l].sprites) - 1
         /\ InOrder(list[l].sprites, list[l].active_iterator)
         /\ Passed(list[l].sprites, list[l].active_iterator + 1, turns)
<1>1. Walking(l) /\ OutsideLoop
  BY DEF InBody, OutsideLoop
<1> QED BY <1>1, CallerFinds DEF InOrder, Passed

LEMMA KeepSpriteWalkInv ==
  ASSUME WalkInv, NEW l \in Lists, KeepSprite(l)
  PROVE  WalkInv'
<1> DEFINE L == list[l]
           i == L.active_iterator
           M == MovedTo(L, i + 1)
<1>1. /\ InBody(l) /\ Walking(l)
      /\ UNCHANGED <<nextUID, live, stray, freeze_guys, turns>>
      /\ list' = [list EXCEPT ![l] = M]
      /\ pass' = [pass EXCEPT !.at = "loop", !.cur = NoSprite]
  BY DEF KeepSprite, MovedTo, InBody
<1>2. /\ pass \in [list : {l}, kind : {"animate", "script"}, at : {"loop", "body"},
                   cur : UID \cup {NoSprite}]
      /\ L \in SpriteList /\ L.sprites \in Seq(UID) /\ IsInjective(L.sprites)
      /\ Listed(l) = ToSet(L.sprites) /\ Listed(l) \subseteq live
      /\ Len(L.sprites) \in Nat
      /\ \A u \in UID : u >= nextUID => u \notin live /\ turns[u] = 0
      /\ turns \in [UID -> Nat]
  BY <1>1, WalkFinds
<1>3. i \in -1 .. Len(L.sprites) - 1 /\ Passed(L.sprites, i + 1, turns)
  BY <1>1, BodyFinds
<1>4. M \in SpriteList /\ M.sprites = L.sprites /\ M.active_iterator = i + 1
  <2>1. i + 1 \in Int /\ L \in SpriteList
    BY <1>2, <1>3
  <2> HIDE DEF L
  <2> QED BY <2>1, MovedToFields
<1> HIDE DEF L, M
<1>5. M.active_iterator \in 0 .. Count(M)
  BY <1>2, <1>3, <1>4 DEF Count
<1>6. /\ pass.list \in {l, NoList} /\ live' = (live \ Listed(l)) \cup ToSet(M.sprites)
      /\ pass' \in [list : {l}, kind : {"animate", "script"}, at : {"loop"},
                    cur : UID \cup {NoSprite}]
  BY <1>1, <1>2, <1>4
<1>7. /\ Passed(M.sprites, M.active_iterator, turns')
      /\ turns' \in [UID -> Nat] /\ \A u \in UID : u >= nextUID => turns'[u] = 0
      /\ IsInjective(M.sprites) /\ ToSet(M.sprites) \subseteq Listed(l)
  BY <1>1, <1>2, <1>3, <1>4
<1> QED BY <1>1, <1>4, <1>5, <1>6, <1>7, LoopStep

\* Taking out the sprite whose callback it is leaves the others passed or not,
\* as they were.
LEMMA WithoutPassed ==
  ASSUME NEW s \in Seq(UID), NEW i \in 0 .. Len(s) - 1, NEW t, Passed(s, i + 1, t)
  PROVE  Passed(Without(s, i + 1), i, t)
<1> DEFINE w == Without(s, i + 1)
<1>1. /\ DOMAIN w = 1 .. Len(s) - 1 /\ Len(s) \in Nat /\ DOMAIN s = 1 .. Len(s)
      /\ \A k \in 1 .. Len(s) - 1 : w[k] = IF k < i + 1 THEN s[k] ELSE s[k + 1]
  <2>1. i + 1 \in 1 .. Len(s) /\ s \in Seq(UID)
    OBVIOUS
  <2>2. DOMAIN s = 1 .. Len(s) /\ Len(s) \in Nat
    BY <2>1
  <2> HIDE DEF w
  <2>3. DOMAIN w = 1 .. Len(s) - 1
        /\ \A k \in 1 .. Len(s) - 1 : w[k] = IF k < i + 1 THEN s[k] ELSE s[k + 1]
    BY <2>1, WithoutElement DEF w
  <2> QED BY <2>2, <2>3
<1> HIDE DEF w
<1>2. ASSUME NEW k \in DOMAIN w PROVE t[w[k]] = IF k > i \/ Frozen(w[k]) THEN 0 ELSE 1
  <2>1. CASE k < i + 1
    <3>1. w[k] = s[k] /\ k \in DOMAIN s /\ ~(k > i) /\ ~(k > i + 1)
      BY <2>1, <1>1
    <3> QED BY <3>1 DEF Passed
  <2>2. CASE k >= i + 1
    <3>1. w[k] = s[k + 1] /\ k + 1 \in DOMAIN s /\ k > i /\ k + 1 > i + 1
      BY <2>2, <1>1
    <3> QED BY <3>1 DEF Passed
  <2> QED BY <2>1, <2>2, <1>1
<1> QED BY <1>2 DEF w, Passed

\* The loop goes on after the sprite at index i was deleted in its turn.
LEMMA DroppedStep ==
  ASSUME WalkInv, NEW l \in Lists, InBody(l),
         NEW i, i = list[l].active_iterator, i \in 0 .. Count(list[l]) - 1,
         list' = [list EXCEPT ![l] = [Deleted(list[l], i) EXCEPT !.active_iterator = @ + 1]],
         live' = live \ {list[l].sprites[i + 1]},
         pass' = [pass EXCEPT !.at = "loop", !.cur = NoSprite],
         UNCHANGED <<nextUID, stray, freeze_guys, turns>>
  PROVE  WalkInv'
<1> DEFINE L == list[l]
           D == Deleted(L, i)
           M == MovedTo(D, i)
<1>1. Walking(l)
  BY DEF InBody
<1>2. /\ pass \in [list : {l}, kind : {"animate", "script"}, at : {"loop", "body"},
                   cur : UID \cup {NoSprite}]
      /\ L \in SpriteList /\ L.sprites \in Seq(UID) /\ IsInjective(L.sprites)
      /\ Listed(l) = ToSet(L.sprites) /\ Listed(l) \subseteq live
      /\ DOMAIN L.sprites = 1 .. Len(L.sprites) /\ Len(L.sprites) \in Nat
      /\ \A u \in UID : u >= nextUID => u \notin live /\ turns[u] = 0
      /\ turns \in [UID -> Nat]
  BY <1>1, WalkFinds
<1>3. Passed(L.sprites, i + 1, turns) /\ i \in 0 .. Len(L.sprites) - 1 /\ i \in Int
      /\ i + 1 \in 1 .. Len(L.sprites)
  BY SMTT(30), <1>2, BodyFinds DEF Count
<1>4. D \in SpriteList /\ D.sprites = Without(L.sprites, i + 1) /\ D.active_iterator = i - 1
  BY <1>2, <1>3, DeletedFields
<1>5. list' = [list EXCEPT ![l] = M]
  <2> HIDE DEF D
  <2>1. (i - 1) + 1 = i
    BY <1>3
  <2> QED BY <2>1, <1>4 DEF MovedTo, D
<1>6. M \in SpriteList /\ M.sprites = D.sprites /\ M.active_iterator = i
  <2> HIDE DEF D
  <2> QED BY <1>3, <1>4, MovedToFields
<1> HIDE DEF L, D, M
<1>7. /\ IsInjective(M.sprites) /\ ToSet(M.sprites) = Listed(l) \ {L.sprites[i + 1]}
      /\ Len(M.sprites) = Len(L.sprites) - 1
  <2>1. M.sprites = Without(L.sprites, i + 1)
    BY <1>4, <1>6
  <2>2. IsInjective(Without(L.sprites, i + 1))
        /\ ToSet(Without(L.sprites, i + 1)) = ToSet(L.sprites) \ {L.sprites[i + 1]}
    BY <1>2, <1>3, WithoutSet
  <2>3. Len(Without(L.sprites, i + 1)) = Len(L.sprites) - 1
    BY <1>2, <1>3, WithoutElement
  <2> QED BY <2>1, <2>2, <2>3, <1>2
<1>8. Passed(M.sprites, M.active_iterator, turns')
  BY <1>2, <1>3, <1>4, <1>6, WithoutPassed
<1>9. L.sprites[i + 1] \in Listed(l)
  BY <1>2, <1>3 DEF ToSet
<1>10. live' = (live \ Listed(l)) \cup ToSet(M.sprites) /\ ToSet(M.sprites) \subseteq Listed(l)
  BY <1>2, <1>7, <1>9 DEF L
<1>11. /\ pass.list \in {l, NoList} /\ M.active_iterator \in 0 .. Count(M)
       /\ pass' \in [list : {l}, kind : {"animate", "script"}, at : {"loop"},
                     cur : UID \cup {NoSprite}]
       /\ turns' \in [UID -> Nat] /\ \A u \in UID : u >= nextUID => turns'[u] = 0
  BY <1>2, <1>3, <1>6, <1>7 DEF Count
<1> QED BY <1>5, <1>6, <1>7, <1>8, <1>10, <1>11, LoopStep

LEMMA DropSpriteWalkInv ==
  ASSUME WalkInv, NEW l \in Lists, DropSprite(l)
  PROVE  WalkInv'
<1> DEFINE L == list[l]
           i == L.active_iterator
<1>1. /\ InBody(l) /\ Walking(l) /\ UNCHANGED <<nextUID, stray, freeze_guys, turns>>
      /\ pass' = [pass EXCEPT !.at = "loop", !.cur = NoSprite]
      /\ live' = live \ {Spr(L, i)}
  BY DEF DropSprite, InBody
<1>2. /\ i \in -1 .. Len(L.sprites) - 1 /\ Len(L.sprites) \in Nat
      /\ L \in SpriteList /\ NoSprite \notin live
  <2>1. /\ i \in -1 .. Len(L.sprites) - 1 /\ Len(L.sprites) \in Nat /\ L \in SpriteList
    BY <1>1, BodyFinds, WalkFinds
  <2>2. NoSprite \notin UID
    BY MaxUIDAssumption DEF NoSprite, UID
  <2> QED BY <2>1, <2>2 DEF WalkInv, TypeOK
<1>3. CASE i \in 0 .. Count(L) - 1
  <2>1. /\ Spr(L, i) = L.sprites[i + 1]
        /\ list' = [list EXCEPT ![l] = [Deleted(L, i) EXCEPT !.active_iterator = @ + 1]]
    BY <1>3 DEF DropSprite, Spr
  <2> QED BY <1>1, <1>3, <2>1, DroppedStep
<1>4. CASE i \notin 0 .. Count(L) - 1
  <2>1. /\ Spr(L, i) = NoSprite
        /\ list' = [list EXCEPT ![l] = [L EXCEPT !.active_iterator = @ + 1]]
    BY <1>4 DEF DropSprite, Spr
  <2>2. live' = live
    BY <1>1, <1>2, <2>1
  <2>3. KeepSprite(l)
    BY <1>1, <2>1, <2>2 DEF KeepSprite
  <2> QED BY <2>3, KeepSpriteWalkInv
<1> QED BY <1>3, <1>4

LEMMA RemoveSelfWalkInv ==
  ASSUME WalkInv, NEW l \in Lists, RemoveSelf(l)
  PROVE  WalkInv'
<1> DEFINE L == list[l]
           i == L.active_iterator
<1>1. /\ InBody(l) /\ Walking(l) /\ UNCHANGED <<nextUID, stray, freeze_guys, turns>>
      /\ pass' = [pass EXCEPT !.at = "loop", !.cur = NoSprite]
      /\ live' = live \ {pass.cur} /\ pass.cur \in ToSet(L.sprites)
  BY DEF RemoveSelf, InBody
<1>2. /\ DOMAIN L.sprites = 1 .. Len(L.sprites) /\ InOrder(L.sprites, i)
      /\ i \in -1 .. Len(L.sprites) - 1 /\ Len(L.sprites) \in Nat
  BY <1>1, BodyFinds, WalkFinds
<1>3. PICK k \in DOMAIN L.sprites : L.sprites[k] = pass.cur
  BY <1>1 DEF ToSet
<1>4. k = i + 1 /\ \A j \in DOMAIN L.sprites : L.sprites[j] = pass.cur => j = i + 1
  BY <1>2, <1>3 DEF InOrder
<1>5. (CHOOSE j \in DOMAIN L.sprites : L.sprites[j] = pass.cur) - 1 = i
  <2> DEFINE c == CHOOSE j \in DOMAIN L.sprites : L.sprites[j] = pass.cur
  <2>1. c = i + 1
    BY <1>3, <1>4
  <2>2. i \in Int
    BY <1>2
  <2> HIDE DEF c, i
  <2>3. c - 1 = i
    BY <2>1, <2>2
  <2> QED BY <2>3 DEF c
<1>6. list' = [list EXCEPT ![l] = [Deleted(L, i) EXCEPT !.active_iterator = @ + 1]]
  BY <1>5 DEF RemoveSelf
<1>7. i \in 0 .. Count(L) - 1
  BY <1>2, <1>3, <1>4 DEF Count
<1> QED BY <1>1, <1>3, <1>4, <1>6, <1>7, DroppedStep

LEMMA CallSpriteWalkInv ==
  ASSUME WalkInv, NEW l \in Lists, CallSprite(l)
  PROVE  WalkInv'
<1> DEFINE L == list[l]
           i == L.active_iterator
           u == L.sprites[i + 1]
<1>1. /\ Walking(l) /\ pass.at = "loop" /\ i < Count(L) /\ ~Frozen(Spr(L, i))
      /\ UNCHANGED <<list, nextUID, live, stray, freeze_guys>>
      /\ pass' = [pass EXCEPT !.at = "body", !.cur = Spr(L, i)]
      /\ turns' = [turns EXCEPT ![Spr(L, i)] = @ + 1]
  BY DEF CallSprite
<1>2. /\ pass \in [list : {l}, kind : {"animate", "script"}, at : {"loop", "body"},
                   cur : UID \cup {NoSprite}]
      /\ L.sprites \in Seq(UID) /\ IsInjective(L.sprites)
      /\ Listed(l) = ToSet(L.sprites) /\ Listed(l) \subseteq live
      /\ DOMAIN L.sprites = 1 .. Len(L.sprites) /\ Len(L.sprites) \in Nat
      /\ \A v \in UID : v >= nextUID => v \notin live /\ turns[v] = 0
      /\ turns \in [UID -> Nat]
  BY <1>1, WalkFinds
<1>3. i \in 0 .. Len(L.sprites) - 1 /\ Passed(L.sprites, i, turns) /\ i + 1 \in DOMAIN L.sprites
  <2>1. i \in 0 .. Len(L.sprites) /\ Passed(L.sprites, i, turns)
    BY <1>1, LoopFinds
  <2> QED BY <2>1, <1>1, <1>2 DEF Count
<1>4. Spr(L, i) = u /\ u \in UID /\ u \in Listed(l) /\ u \in live
  BY SMTT(30), <1>2, <1>3 DEF Spr, Count, ToSet
<1>5. u < nextUID /\ turns[u] = 0
  <2>1. ~(u >= nextUID)
    BY <1>2, <1>4
  <2>2. u \in Int /\ nextUID \in Int
    BY <1>4 DEF WalkInv, TypeOK, UID
  <2>3. turns[u] = 0
    BY <1>1, <1>2, <1>3, <1>4 DEF Passed
  <2> QED BY <2>1, <2>2, <2>3
<1>6. /\ turns' = [turns EXCEPT ![u] = 1] /\ turns' \in [UID -> Nat] /\ ~Frozen(u)
      /\ pass'.at = "body" /\ pass'.cur = u /\ pass'.list = l
      /\ pass' \in [list : {l}, kind : {"animate", "script"}, at : {"loop", "body"},
                    cur : UID \cup {NoSprite}]
  <2>1. /\ pass'.at = "body" /\ pass'.cur = u /\ pass'.list = l
        /\ pass' \in [list : {l}, kind : {"animate", "script"}, at : {"loop", "body"},
                      cur : UID \cup {NoSprite}]
    BY <1>1, <1>2, <1>4
  <2>2. ~Frozen(u) /\ turns' = [turns EXCEPT ![u] = turns[u] + 1]
    BY <1>1, <1>4
  <2> HIDE DEF u
  <2>3. turns' = [turns EXCEPT ![u] = 1] /\ turns' \in [UID -> Nat]
    <3>1. turns[u] + 1 = 1
      BY <1>5
    <3>2. turns' = [turns EXCEPT ![u] = 1]
      BY <2>2, <3>1
    <3> QED BY <3>2, <1>2
  <2> QED BY <2>1, <2>2, <2>3
<1>7. /\ InBody(l)' /\ Walking(l)' /\ Reached(l)' = i + 1
      /\ \A m \in Lists : m # l => ~Walking(m) /\ ~Walking(m)' /\ ~InBody(m)'
  BY <1>1, <1>2, <1>6 DEF InBody, Walking, Reached
<1>8. TypeOK'
  <2>1. \A m \in Lists : list'[m].active_iterator \in
                 IF ~Walking(m)' THEN {-1, 0}
                 ELSE IF InBody(m)' THEN -1 .. Count(list'[m]) - 1 ELSE 0 .. Count(list'[m])
    <3>1. i \in -1 .. Count(L) - 1
      BY <1>3 DEF Count
    <3> QED BY <3>1, <1>1, <1>7 DEF WalkInv, TypeOK
  <2>2. pass' \in [list : Lists, kind : {"animate", "script"}, at : {"loop", "body"},
                   cur : UID \cup {NoSprite}]
    BY <1>6
  <2> QED BY <2>1, <2>2, <1>1, <1>6 DEF WalkInv, TypeOK, Count
<1>9. OneOwner'
  BY <1>1 DEF WalkInv, OneOwner, Listed
<1>10. TurnsInOrder'
  <2>1. ASSUME NEW v \in UID, v >= nextUID PROVE v \notin live /\ turns'[v] = 0
    <3>1. v # u
      BY <2>1, <1>2, <1>4
    <3> QED BY <2>1, <3>1, <1>2, <1>6
  <2>2. ASSUME NEW k \in DOMAIN L.sprites
        PROVE  /\ L.sprites[k] = u <=> k = i + 1
               /\ turns'[L.sprites[k]] = IF k > i + 1 \/ Frozen(L.sprites[k]) THEN 0 ELSE 1
    <3>1. CASE k = i + 1
      BY <3>1, <1>2, <1>3, <1>4, <1>6
    <3>2. CASE k # i + 1
      <4>1. L.sprites[k] # u /\ L.sprites[k] \in UID /\ (k > i + 1 <=> k > i)
        <5>1. L.sprites[k] # u
          BY <3>2, <1>2, <1>3 DEF IsInjective
        <5>2. k \in Int /\ i \in Int
          BY <1>2, <1>3
        <5>3. k > i + 1 <=> k > i
          BY <3>2, <5>2
        <5>4. L.sprites[k] \in UID
          BY <1>2
        <5> QED BY <5>1, <5>3, <5>4
      <4>2. turns'[L.sprites[k]] = turns[L.sprites[k]]
        BY <4>1, <1>2, <1>6
      <4> QED BY <4>1, <4>2, <3>2, <1>3 DEF Passed
    <3> QED BY <3>1, <3>2
  <2>3. ASSUME NEW m \in Lists, InBody(m)' PROVE m = l
    BY <2>3, <1>7
  <2>4. ASSUME NEW m \in Lists, Walking(m)' PROVE m = l
    BY SMTT(30), <2>4, <1>7
  <2>5. ASSUME NEW m \in Lists, InBody(m)'
        PROVE  /\ pass'.cur \in UID /\ pass'.cur < nextUID
               /\ \A k \in DOMAIN list'[m].sprites :
                    list'[m].sprites[k] = pass'.cur <=> k = Reached(m)'
    BY <2>2, <2>3, <2>5, <1>1, <1>4, <1>5, <1>6, <1>7
  <2>6. ASSUME NEW m \in Lists, Walking(m)', NEW k \in DOMAIN list'[m].sprites
        PROVE  turns'[list'[m].sprites[k]] =
                 IF k > Reached(m)' \/ Frozen(list'[m].sprites[k]) THEN 0 ELSE 1
    BY <2>2, <2>4, <2>6, <1>1, <1>7
  <2> QED BY <2>1, <2>5, <2>6, <1>1 DEF TurnsInOrder, Frozen
<1> QED BY <1>8, <1>9, <1>10 DEF WalkInv

LEMMA EndWalkWalkInv ==
  ASSUME WalkInv, NEW l \in Lists, EndWalk(l)
  PROVE  WalkInv'
<1> DEFINE M == MovedTo(list[l], -1)
<1>1. /\ Walking(l) /\ pass' = Idle /\ UNCHANGED <<nextUID, live, stray, freeze_guys, turns>>
      /\ list' = [list EXCEPT ![l] = M]
  BY DEF EndWalk, MovedTo
<1>2. M \in SpriteList /\ M.sprites = list[l].sprites /\ M.active_iterator = -1
  BY MovedToFields DEF WalkInv, TypeOK
<1> HIDE DEF M
<1>3. /\ list' \in [Lists -> SpriteList]
      /\ \A m \in Lists : list'[m].sprites = list[m].sprites
      /\ list'[l].active_iterator = -1
      /\ \A m \in Lists : m # l => list'[m] = list[m]
  BY <1>1, <1>2 DEF WalkInv, TypeOK
<1>4. \A m \in Lists : (m # l => ~Walking(m)) /\ ~Walking(m)' /\ ~InBody(m)'
  BY <1>1, NoListAssumption DEF Walking, InBody, Idle
<1>5. TypeOK'
  BY <1>1, <1>3, <1>4 DEF WalkInv, TypeOK
<1>6. OneOwner'
  BY <1>1, <1>3 DEF WalkInv, OneOwner, Listed
<1>7. TurnsInOrder'
  BY <1>1, <1>4 DEF WalkInv, TurnsInOrder
<1> QED BY <1>5, <1>6, <1>7 DEF WalkInv

LEMMA SetFreezeWalkInv ==
  ASSUME WalkInv, SetFreeze
  PROVE  WalkInv'
<1>1. /\ pass = Idle /\ freeze_guys' \in BOOLEAN
      /\ UNCHANGED <<list, nextUID, live, stray, pass, turns>>
  BY DEF SetFreeze, WalkInv, TypeOK
<1>2. \A m \in Lists : ~Walking(m) /\ ~Walking(m)' /\ ~InBody(m)'
  BY <1>1, NoListAssumption DEF Walking, InBody, Idle
<1>3. TypeOK'
  BY <1>1, <1>2 DEF WalkInv, TypeOK
<1>4. OneOwner'
  BY <1>1 DEF WalkInv, OneOwner, Listed
<1>5. TurnsInOrder'
  BY <1>1, <1>2 DEF WalkInv, TurnsInOrder
<1> QED BY <1>3, <1>4, <1>5 DEF WalkInv

LEMMA NextWalkInv == WalkInv /\ [Next]_vars => WalkInv'
<1> SUFFICES ASSUME WalkInv, [Next]_vars PROVE WalkInv'
  OBVIOUS
<1>1. CASE SetFreeze \/ Dustpile
  BY <1>1, SetFreezeWalkInv, DustpileWalkInv
<1>2. ASSUME NEW l \in Lists, Walk(l) PROVE WalkInv'
  BY <1>2, StartWalkWalkInv, CallSpriteWalkInv, SkipFrozenWalkInv, KeepSpriteWalkInv,
     DropSpriteWalkInv, RemoveSelfWalkInv, EndWalkWalkInv DEF Walk
<1>3. ASSUME NEW l \in Lists, Caller(l) PROVE WalkInv'
  BY <1>3, CreateWalkInv, DeleteWalkInv, ReflectWalkInv, PhantomsCleanupWalkInv, SwapWalkInv,
     ClearWalkInv, LookupWalkInv DEF Caller
<1>4. CASE UNCHANGED vars
  <2>1. UNCHANGED <<list, nextUID, live, stray, freeze_guys, pass, turns>>
    BY <1>4 DEF vars
  <2>2. TypeOK'
    BY <2>1 DEF WalkInv, TypeOK, Walking, InBody, Count
  <2>3. OneOwner'
    BY <2>1 DEF WalkInv, OneOwner, Listed
  <2>4. TurnsInOrder'
    BY <2>1 DEF WalkInv, TurnsInOrder, Walking, InBody, Reached, Frozen
  <2> QED BY <2>2, <2>3, <2>4 DEF WalkInv
<1> QED BY <1>1, <1>2, <1>3, <1>4 DEF Next

\* The walk's index, the ownership of sprites and the turns given are right in
\* every reachable state, whatever the callbacks do, a callback that clears its
\* own list and a reflection into a full list included.
THEOREM WalkCorrect == Spec => []WalkInv
<1> QED BY InitWalkInv, NextWalkInv, PTL DEF Spec

\* The type invariant of the sprite lists.
THEOREM TypeCorrect == Spec => []TypeOK
<1>1. WalkInv => TypeOK
  BY DEF WalkInv
<1> QED BY <1>1, WalkCorrect, PTL

\* A sprite made for a list is in exactly one list, at one index, until it is
\* freed, and no list holds a pointer to a freed one; the few that the code
\* itself lets go of are in none.
THEOREM Ownership == Spec => []OneOwner
<1>1. WalkInv => OneOwner
  BY DEF WalkInv
<1> QED BY <1>1, WalkCorrect, PTL

\* In the midst of a walk too: whoever the index has passed has had one turn,
\* whoever is ahead none, and the sprite that runs stands at the index or has
\* left the list.
THEOREM TurnsAreInOrder == Spec => []TurnsInOrder
<1>1. WalkInv => TurnsInOrder
  BY DEF WalkInv
<1> QED BY <1>1, WalkCorrect, PTL

\* A walk ends only when every sprite in its list has had its one turn.
THEOREM EveryoneServed == Spec => EveryoneHadOneTurn
<1>1. ASSUME WalkInv, NEW l \in Lists, EndWalk(l), NEW u \in Listed(l)
      PROVE  turns[u] = IF Frozen(u) THEN 0 ELSE 1
  <2>1. Walking(l) /\ pass.at = "loop" /\ list[l].active_iterator >= Count(list[l])
    BY <1>1 DEF EndWalk
  <2>2. /\ Passed(list[l].sprites, list[l].active_iterator, turns)
        /\ list[l].active_iterator \in 0 .. Len(list[l].sprites)
    BY <1>1, <2>1, LoopFinds
  <2>3. DOMAIN list[l].sprites = 1 .. Len(list[l].sprites) /\ Len(list[l].sprites) \in Nat
    BY <1>1, <2>1, WalkFinds
  <2>4. PICK k \in DOMAIN list[l].sprites : u = list[l].sprites[k]
    BY DEF Listed, ToSet
  <2>5. ~(k > list[l].active_iterator)
    BY <2>1, <2>2, <2>3 DEF Count
  <2> QED BY <2>2, <2>4, <2>5 DEF Passed
<1>2. WalkInv => [\A l \in Lists : EndWalk(l) =>
                    \A u \in Listed(l) : turns[u] = IF Frozen(u) THEN 0 ELSE 1]_vars
  BY <1>1
<1> QED BY <1>2, WalkCorrect, PTL DEF EveryoneHadOneTurn

-----------------------------------------------------------------------------
(* The maps, when nothing is reflected into a full list                    *)

LEMMA OneListExact ==
  ASSUME WalkInv, MapsInv, NEW l \in Lists, NEW M, Exact(M), list' = [list EXCEPT ![l] = M]
  PROVE  MapsInv'
<1>1. list'[l] = M /\ \A m \in Lists : m # l => list'[m] = list[m]
  BY DEF WalkInv, TypeOK
<1>2. \A m \in Lists : Exact(list'[m])
  BY <1>1 DEF MapsInv
<1> QED BY <1>2 DEF MapsInv, Exact, Contained

LEMMA MovedToExact ==
  ASSUME NEW L \in SpriteList, Exact(L), NEW i \in Int
  PROVE  Exact(MovedTo(L, i))
<1> DEFINE M == MovedTo(L, i)
<1>1. /\ M.sprites = L.sprites /\ M.containedUIDs = L.containedUIDs
      /\ M.lastUIDRequested = L.lastUIDRequested /\ M.lastSpriteRequested = L.lastSpriteRequested
  BY MovedToFields
<1> HIDE DEF M
<1> QED BY <1>1 DEF Exact, Contained, M

LEMMA InitMapsInv == Init => MapsInv
<1>1. ASSUME NEW m \in Limits PROVE Exact(EmptyList(m))
  BY DEF Exact, EmptyList, Contained, ToSet, NoIndex
<1> QED BY <1>1 DEF Init, MapsInv

LEMMA NextMapsInv ==
  ASSUME ~ReflectIntoFull, WalkInv, MapsInv, [Next]_vars
  PROVE  MapsInv'
<1>1. \A l \in Lists : /\ list[l] \in SpriteList /\ IsInjective(list[l].sprites)
                       /\ Exact(list[l]) /\ list[l].active_iterator \in Int
  BY DEF WalkInv, TypeOK, OneOwner, MapsInv, SpriteList
<1>2. ASSUME NEW l \in Lists, NEW i \in Int, list' = [list EXCEPT ![l] = MovedTo(list[l], i)]
      PROVE  MapsInv'
  BY <1>1, <1>2, MovedToExact, OneListExact
<1>3. ASSUME NEW l \in Lists, NEW j \in 0 .. Count(list[l]) - 1,
             list' = [list EXCEPT ![l] = [Deleted(list[l], j) EXCEPT !.active_iterator = @ + 1]]
      PROVE  MapsInv'
  <2> DEFINE D == Deleted(list[l], j)
  <2>1. D \in SpriteList /\ Exact(D)
    BY <1>1, DeletedFields, DeletedExact
  <2> HIDE DEF D
  <2>2. D.active_iterator + 1 \in Int
    BY <2>1 DEF SpriteList
  <2>3. Exact(MovedTo(D, D.active_iterator + 1))
    BY <2>1, <2>2, MovedToExact
  <2>4. list' = [list EXCEPT ![l] = MovedTo(D, D.active_iterator + 1)]
    BY <1>3 DEF MovedTo, D
  <2> QED BY <2>3, <2>4, OneListExact
<1>4. ASSUME UNCHANGED list PROVE MapsInv'
  BY <1>4 DEF MapsInv, Exact, Contained
<1>5. ASSUME NEW l \in Lists, Walk(l) PROVE MapsInv'
  <2>1. ASSUME NEW kind \in {"animate", "script"}, StartWalk(l, kind) PROVE MapsInv'
    <3>1. list' = [list EXCEPT ![l] = MovedTo(list[l], 0)] /\ 0 \in Int
      BY <2>1 DEF StartWalk, MovedTo
    <3> QED BY <3>1, <1>2
  <2>2. CASE CallSprite(l)
    BY <2>2, <1>4 DEF CallSprite
  <2>3. CASE SkipFrozen(l) \/ KeepSprite(l)
    <3>1. list' = [list EXCEPT ![l] = MovedTo(list[l], list[l].active_iterator + 1)]
      BY <2>3 DEF SkipFrozen, KeepSprite, MovedTo
    <3>2. list[l].active_iterator + 1 \in Int
      BY <1>1
    <3> QED BY <3>1, <3>2, <1>2
  <2>4. CASE DropSprite(l)
    <3>1. CASE list[l].active_iterator \in 0 .. Count(list[l]) - 1
      <4>1. list' = [list EXCEPT ![l] = [Deleted(list[l], list[l].active_iterator)
                                           EXCEPT !.active_iterator = @ + 1]]
        BY <2>4, <3>1 DEF DropSprite
      <4> QED BY <3>1, <4>1, <1>3
    <3>2. CASE list[l].active_iterator \notin 0 .. Count(list[l]) - 1
      <4>1. list' = [list EXCEPT ![l] = MovedTo(list[l], list[l].active_iterator + 1)]
        BY <2>4, <3>2 DEF DropSprite, MovedTo
      <4>2. list[l].active_iterator + 1 \in Int
        BY <1>1
      <4> QED BY <4>1, <4>2, <1>2
    <3> QED BY <3>1, <3>2
  <2>5. CASE RemoveSelf(l)
    <3> DEFINE s == list[l].sprites
               c == CHOOSE k \in DOMAIN s : s[k] = pass.cur
    <3>1. c \in DOMAIN s
      BY <2>5 DEF RemoveSelf, ToSet
    <3>2. list' = [list EXCEPT ![l] = [Deleted(list[l], c - 1) EXCEPT !.active_iterator = @ + 1]]
      BY <2>5 DEF RemoveSelf
    <3> HIDE DEF c
    <3>3. c - 1 \in 0 .. Count(list[l]) - 1
      BY <3>1, <1>1 DEF SpriteList, Count
    <3> QED BY <3>2, <3>3, <1>3
  <2>6. CASE EndWalk(l)
    <3>1. list' = [list EXCEPT ![l] = MovedTo(list[l], -1)] /\ -1 \in Int
      BY <2>6 DEF EndWalk, MovedTo
    <3> QED BY <3>1, <1>2
  <2> QED BY <1>5, <2>1, <2>2, <2>3, <2>4, <2>5, <2>6 DEF Walk
<1>6. ASSUME NEW l \in Lists, Caller(l) PROVE MapsInv'
  <2>1. CASE Create(l)
    <3>1. CASE HasRoom(list[l])
      <4>1. /\ nextUID \in UID \ ToSet(list[l].sprites)
        <5>1. nextUID \in UID /\ nextUID \notin live
          BY <2>1, MaxUIDAssumption DEF Create, WalkInv, TypeOK, TurnsInOrder, UID
        <5> QED BY <5>1 DEF WalkInv, OneOwner, Listed
      <4>2. list' = [list EXCEPT ![l] = Added(list[l], nextUID)]
        BY <2>1, <3>1 DEF Create, WalkInv, TypeOK
      <4> QED BY <4>1, <4>2, <1>1, AddedExact, OneListExact
    <3>2. CASE ~HasRoom(list[l])
      BY <2>1, <3>2, <1>4 DEF Create
    <3> QED BY <3>1, <3>2
  <2>2. ASSUME NEW j \in 0 .. Count(list[l]) - 1, Delete(l, j) PROVE MapsInv'
    <3>1. list' = [list EXCEPT ![l] = Deleted(list[l], j)]
      BY <2>2 DEF Delete, WalkInv, TypeOK
    <3> QED BY <3>1, <1>1, DeletedExact, OneListExact
  <2>3. ASSUME NEW to \in Lists, NEW s \in UID, Reflect(l, to, s) PROVE MapsInv'
    <3> DEFINE A == Added(list[to], s)
               R == Removed(list[l], s, s)
    <3>1. list' = [list EXCEPT ![to] = A, ![l] = R] /\ l # to /\ s \in ToSet(list[l].sprites)
      BY <2>3 DEF Reflect, WalkInv, TypeOK
    <3>2. s \notin ToSet(list[to].sprites)
      BY <3>1 DEF WalkInv, OneOwner, Listed
    <3>3. Exact(A)
      BY <3>2, <1>1, AddedExact
    <3>4. Exact(R)
      <4>1. PICK k \in DOMAIN list[l].sprites : s = list[l].sprites[k]
        BY <3>1 DEF ToSet
      <4>2. k \in 1 .. Count(list[l])
        BY <4>1, <1>1 DEF SpriteList, Count
      <4> QED BY <4>1, <4>2, <1>1, RemovedExact
    <3> HIDE DEF A, R
    <3>5. \A m \in Lists : Exact(list'[m])
      BY <3>1, <3>3, <3>4, <1>1 DEF WalkInv, TypeOK
    <3> QED BY <3>5 DEF MapsInv, Exact, Contained
  <2>8. ASSUME NEW s \in UID, PhantomsCleanup(l, s) PROVE MapsInv'
    <3>1. list' = [list EXCEPT ![l] = Removed(list[l], s, s)] /\ s \in ToSet(list[l].sprites)
      BY <2>8 DEF PhantomsCleanup, WalkInv, TypeOK
    <3>2. PICK k \in DOMAIN list[l].sprites : s = list[l].sprites[k]
      BY <3>1 DEF ToSet
    <3>3. k \in 1 .. Count(list[l])
      BY <3>2, <1>1 DEF SpriteList, Count
    <3>4. Exact(Removed(list[l], s, s))
      BY <3>2, <3>3, <1>1, RemovedExact
    <3> QED BY <3>1, <3>4, OneListExact
  <2>4. ASSUME NEW a \in 0 .. Count(list[l]) - 1, NEW b \in 0 .. Count(list[l]) - 1, Swap(l, a, b)
        PROVE  MapsInv'
    <3>1. list' = [list EXCEPT ![l] = Swapped(list[l], a, b)]
      BY <2>4 DEF Swap, WalkInv, TypeOK
    <3> QED BY <3>1, <1>1, SwappedExact, OneListExact
  <2>5. CASE Clear(l)
    <3>1. list' = [list EXCEPT ![l] = Cleared(list[l])]
      BY <2>5 DEF Clear, WalkInv, TypeOK
    <3> QED BY <3>1, <1>1, ClearedExact, OneListExact
  <2>6. ASSUME NEW u \in UID, Lookup(l, u) PROVE MapsInv'
    <3>1. list' = [list EXCEPT ![l] = LookedUp(list[l], u)]
      BY <2>6 DEF Lookup, WalkInv, TypeOK
    <3> QED BY <3>1, <1>1, LookedUpExact, OneListExact
  <2>7. ASSUME NEW m \in Limits, SetMax(l, m) PROVE MapsInv'
    <3> DEFINE M == [list[l] EXCEPT !.max_sprites = m]
    <3>1. list' = [list EXCEPT ![l] = M]
      BY <2>7 DEF SetMax
    <3>2. Exact(M)
      BY <1>1 DEF Exact, Contained, SpriteList
    <3> HIDE DEF M
    <3> QED BY <3>1, <3>2, OneListExact
  <2> QED BY <1>6, <2>1, <2>2, <2>3, <2>4, <2>5, <2>6, <2>7, <2>8 DEF Caller
<1> QED BY <1>4, <1>5, <1>6 DEF Next, SetFreeze, Dustpile, vars

\* The map and the cache of every list are exact in every reachable state.
THEOREM MapsCorrect == ~ReflectIntoFull /\ Spec => []MapsInv
<1>1. ASSUME ~ReflectIntoFull PROVE WalkInv /\ MapsInv /\ [Next]_vars => MapsInv'
  BY <1>1, NextMapsInv
<1>2. CASE ~ReflectIntoFull
  BY <1>1, <1>2, InitMapsInv, WalkCorrect, PTL DEF Spec
<1>3. CASE ReflectIntoFull
  BY <1>3
<1> QED BY <1>2, <1>3

\* An exact list's map has an entry per sprite.
LEMMA ContainedCount ==
  ASSUME NEW L \in SpriteList, IsInjective(L.sprites), Exact(L)
  PROVE  Cardinality(Contained(L)) = Count(L)
<1>1. L.sprites \in [1 .. Count(L) -> UID] /\ Count(L) \in Nat
  BY DEF SpriteList, Count
<1>2. L.sprites \in Bijection(1 .. Count(L), ToSet(L.sprites))
  BY <1>1 DEF Bijection, Injection, Surjection, IsInjective, ToSet
<1>3. IsFiniteSet(1 .. Count(L)) /\ Cardinality(1 .. Count(L)) = Count(L)
  BY <1>1, FS_Interval
<1>4. Cardinality(ToSet(L.sprites)) = Count(L)
  BY <1>2, <1>3, FS_Bijection DEF ExistsBijection
<1> QED BY <1>4 DEF Exact

\* The assertions of checkConsistency hold of every list in every reachable
\* state.
THEOREM ConsistencyHolds == ~ReflectIntoFull /\ Spec => []Consistent
<1>1. ASSUME WalkInv, MapsInv, NEW l \in Lists
      PROVE  LET L == list[l]
             IN  /\ Cardinality(Contained(L)) = Count(L)
                 /\ L.lastUIDRequested = 0 \/ L.lastUIDRequested \in Contained(L)
                 /\ \A i \in 0 .. Count(L) - 1 : Found(L, Spr(L, i)) = Spr(L, i)
  <2> DEFINE L == list[l]
  <2>1. L \in SpriteList /\ IsInjective(L.sprites) /\ Exact(L)
    BY <1>1 DEF WalkInv, TypeOK, OneOwner, MapsInv
  <2> HIDE DEF L
  <2>2. ASSUME NEW i \in 0 .. Count(L) - 1 PROVE Found(L, Spr(L, i)) = Spr(L, i)
    <3>1. Spr(L, i) \in UID /\ Spr(L, i) \in ToSet(L.sprites)
      BY <2>1 DEF Spr, Count, SpriteList, ToSet
    <3> QED BY <3>1, <2>1, LookedUpExact
  <2>3. Cardinality(Contained(L)) = Count(L)
    BY <2>1, ContainedCount
  <2>4. L.lastUIDRequested = 0 \/ L.lastUIDRequested \in Contained(L)
    BY <2>1 DEF Exact
  <2> QED BY <2>2, <2>3, <2>4 DEF L
<1>2. WalkInv /\ MapsInv => Consistent
  BY <1>1 DEF Consistent
<1> QED BY <1>2, WalkCorrect, MapsCorrect, PTL

\* Looking up a UID never yields a freed sprite, or another one than was asked
\* for.
THEOREM LookupsAreFresh == ~ReflectIntoFull /\ Spec => []NoStaleLookup
<1>1. WalkInv /\ MapsInv => NoStaleLookup
  BY LookedUpExact DEF WalkInv, TypeOK, MapsInv, NoStaleLookup, Listed
<1> QED BY <1>1, WalkCorrect, MapsCorrect, PTL
=============================================================================
