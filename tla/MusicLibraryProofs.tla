-------------------------- MODULE MusicLibraryProofs --------------------------
(* Proofs about MusicLibrary, for any addresses, kinds of song and errors.  *)
EXTENDS MusicLibrary, SequenceTheorems, WellFoundedInduction, TLAPS

-----------------------------------------------------------------------------
(* The inductive invariant                                                 *)

\* The calls that may come right after call c: try_zcmusic, play_DmapMusic,
\* music_stop and the end of the program are ways through this graph.
After(c) ==
  CASE c = "stop"                -> {"unload"}
    [] c = "unload"              -> {"install", "load", "exit"}
    [] c \in {"install", "load"} -> {"play"}
    [] c = "play"                -> {"change_track"}
    [] OTHER                     -> {}

\* The calls that do not come last.
GoesOn == {"stop", "install", "load"}

InOrder(calls) ==
  /\ \A i \in 1 .. Len(calls) - 1 : calls[i + 1] \in After(calls[i])
  /\ calls # <<>> => calls[Len(calls)] \notin GoesOn

\* The game's thread is to make call c next, or is in it.
Making(c) == todo # <<>> /\ Head(todo) = c

\* Where the game's thread is tells which call it is in.
InCall ==
  LET place == at["game"]
  IN  /\ InOrder(todo)
      /\ place \in {"poll", "reload"} => Making("poll")
      /\ place = "free" => Making("unload")
      /\ place = "push" => Making("play")
      /\ place = "seek" => Making("seek")
      /\ place = "exit" => Making("exit")

\* The player has a song, or a new one, exactly where its code relies on it.
HasSong ==
  /\ \A h \in {zcmusic, newzcmusic} \ {NoHandle} : h \in Allocated
  /\ zcmusic = newzcmusic => zcmusic = NoHandle
  /\ newzcmusic # NoHandle <=> \E i \in 1 .. Len(todo) : todo[i] = "install"
  /\ Making("install") \/ Making("load") \/ Making("exit") => zcmusic = NoHandle
  /\ Making("play") \/ Making("change_track") => zcmusic # NoHandle
  /\ at["game"] \in {"free", "seek"} => zcmusic # NoHandle

\* A song is not on the playlist before zcmusic_play has put it there, nor
\* when zcmusic_unload_file has taken it off.
Unlisted ==
  /\ newzcmusic \notin ToSet(playlist)
  /\ at["game"] = "free" \/ Making("play")
       => zcmusic \notin ToSet(playlist)

\* A thread holds the mutex in zcmusic_poll and zcmusic_exit, and there only.
HoldsMutex ==
  \A t \in Threads : owner = t <=> at[t] \in {"poll", "reload", "exit"}

\* A song whose file is loaded again has lost its stream, and nothing else.
Reloading ==
  \A t \in Threads :
    at[t] = "reload" =>
      IsFile(Song(t)) /\ music[Song(t)].s = NoStream /\ music[Song(t)].playing = "PLAYING"

\* Modules and emulators have a stream exactly while they are not stopped.
StreamsOfModules ==
  \A h \in Handles :
    IsModule(h) => (music[h].s = NoStream <=> music[h].playing = "STOPPED")

\* From zcmusic_stop to the end of zcmusic_unload_file the song has no stream
\* and nobody is about to give it one.
Silent ==
  zcmusic # NoHandle /\ Making("unload") =>
    /\ music[zcmusic].s = NoStream
    /\ at["timer"] = "reload" => Song("timer") # zcmusic

\* The stream that is sought in is the song's, unless one has failed.
Seeking ==
  at["game"] = "seek" =>
    /\ music[zcmusic].kind = "OGGEX"
    /\ held # NoStream
    /\ failed \/ music[zcmusic].s = held

IInv ==
  /\ TypeOK
  /\ PlaylistValid
  /\ PlayingIsListed
  /\ PollerSafe
  /\ NoLeak
  /\ UsesOpenStream
  /\ InCall
  /\ HasSong
  /\ Unlisted
  /\ HoldsMutex
  /\ Reloading
  /\ StreamsOfModules
  /\ Silent
  /\ Seeking

-----------------------------------------------------------------------------
(* Lists of calls, and the playlist                                        *)

\* What is left to do when a call has returned.
LEMMA Returning ==
  ASSUME NEW l \in Seq(CallNames), InOrder(l), l # <<>>
  PROVE  /\ Tail(l) \in Seq(CallNames) /\ Len(Tail(l)) = Len(l) - 1
         /\ InOrder(Tail(l))
         /\ Head(l) = l[1] /\ Head(l) \in CallNames
         /\ \A i \in 1 .. Len(Tail(l)) : Tail(l)[i] = l[i + 1]
         /\ Tail(l) # <<>> => Head(Tail(l)) \in After(Head(l))
         /\ Tail(l) = <<>> => Head(l) \notin GoesOn
<1> DEFINE m == Tail(l)
<1>1. /\ Len(l) \in Nat \ {0} /\ Head(l) = l[1] /\ Head(l) \in CallNames
      /\ m \in Seq(CallNames) /\ Len(m) = Len(l) - 1
      /\ \A i \in 1 .. Len(m) : m[i] = l[i + 1]
  BY HeadTailProperties, EmptySeq
<1> HIDE DEF m
<1>2. /\ \A i \in 1 .. Len(l) - 1 : l[i + 1] \in After(l[i])
      /\ l[Len(l)] \notin GoesOn
  BY DEF InOrder
<1>3. m # <<>> => Len(m) > 0 /\ Head(m) = m[1]
  BY <1>1, EmptySeq
<1>4. m = <<>> => Len(m) = 0
  OBVIOUS
<1>5. ASSUME NEW i \in 1 .. Len(m) - 1 PROVE m[i + 1] \in After(m[i])
  <2>1. m[i + 1] = l[i + 2] /\ m[i] = l[i + 1] /\ i + 1 \in 1 .. Len(l) - 1
    BY <1>1
  <2> QED BY <2>1, <1>2, i + 2 = (i + 1) + 1
<1>6. m # <<>> => m[Len(m)] \notin GoesOn
  BY <1>1, <1>2, <1>3
<1>7. m # <<>> => Head(m) \in After(Head(l))
  BY <1>1, <1>2, <1>3
<1>8. ASSUME m = <<>> PROVE Head(l) \notin GoesOn
  <2>1. Len(l) = 1
    BY <1>1, <1>4, <1>8
  <2> QED BY <1>1, <1>2, <2>1
<1> QED BY <1>1, <1>5, <1>6, <1>7, <1>8 DEF m, InOrder

LEMMA AtMostFive ==
  ASSUME NEW l \in Seq(CallNames), InOrder(l)
  PROVE  Len(l) <= 5
<1>1. SUFFICES ASSUME Len(l) >= 6 PROVE FALSE
  OBVIOUS
<1>2. /\ l[2] \in After(l[1]) /\ l[3] \in After(l[2]) /\ l[4] \in After(l[3])
      /\ l[5] \in After(l[4]) /\ l[6] \in After(l[5])
  <2>1. \A i \in 1 .. 5 : l[i + 1] \in After(l[i])
    BY <1>1 DEF InOrder
  <2>2. /\ l[1 + 1] \in After(l[1]) /\ l[2 + 1] \in After(l[2]) /\ l[3 + 1] \in After(l[3])
        /\ l[4 + 1] \in After(l[4]) /\ l[5 + 1] \in After(l[5])
    BY <2>1
  <2> QED BY <2>2
<1>3. l[2] \in {"unload", "install", "load", "exit", "play", "change_track"}
  BY <1>2 DEF After
<1>4. l[3] \in {"install", "load", "exit", "play", "change_track"}
  BY <1>2, <1>3 DEF After
<1>5. l[4] \in {"play", "change_track"}
  BY <1>2, <1>4 DEF After
<1>6. l[5] \in {"change_track"}
  BY <1>2, <1>5 DEF After
<1> QED BY <1>2, <1>6 DEF After

\* Erasing what the iterator points to.
LEMMA RemovesOne ==
  ASSUME NEW s \in Seq(Handles), NEW k \in 1 .. Len(s), IsInjective(s)
  PROVE  /\ RemoveAt(s, k) \in Seq(Handles)
         /\ Len(RemoveAt(s, k)) = Len(s) - 1
         /\ IsInjective(RemoveAt(s, k))
         /\ ToSet(RemoveAt(s, k)) = ToSet(s) \ {s[k]}
<1> DEFINE t == RemoveAt(s, k)
           u == SubSeq(s, 1, k - 1)
           v == SubSeq(s, k + 1, Len(s))
<1>1. /\ Len(s) \in Nat /\ DOMAIN s = 1 .. Len(s)
      /\ \A i \in 1 .. Len(s) : s[i] \in Handles
  BY LenProperties, ElementOfSeq
<1>2. /\ u \in Seq(Handles) /\ Len(u) = k - 1
      /\ \A i \in 1 .. k - 1 : u[i] = s[i]
  <2>1. \A i \in 1 .. k - 1 : s[i] \in Handles
    BY <1>1
  <2> QED BY <1>1, <2>1, SubSeqProperties
<1>3. /\ v \in Seq(Handles) /\ Len(v) = Len(s) - k
      /\ \A i \in 1 .. Len(s) - k : v[i] = s[k + i]
  <2>1. \A i \in k + 1 .. Len(s) : s[i] \in Handles
    BY <1>1
  <2>2. /\ v \in Seq(Handles)
        /\ Len(v) = IF k + 1 <= Len(s) THEN Len(s) - (k + 1) + 1 ELSE 0
        /\ \A i \in 1 .. Len(s) - (k + 1) + 1 : v[i] = s[k + 1 + i - 1]
    BY <1>1, <2>1, SubSeqProperties
  <2> HIDE DEF v
  <2>3. \A i \in 1 .. Len(s) - k : i \in 1 .. Len(s) - (k + 1) + 1 /\ k + 1 + i - 1 = k + i
    BY <1>1
  <2>4. Len(v) = Len(s) - k
    <3>1. k \in Nat /\ Len(s) \in Nat /\ 1 <= k /\ k <= Len(s)
      BY <1>1
    <3>2. Len(v) = IF k + 1 <= Len(s) THEN Len(s) - (k + 1) + 1 ELSE 0
      BY <2>2
    <3> HIDE DEF v
    <3> QED BY <3>1, <3>2
  <2> QED BY <2>2, <2>3, <2>4
<1>4. t = u \o v
  BY DEF RemoveAt
<1> HIDE DEF t, u, v
<1>5. /\ t \in Seq(Handles) /\ Len(t) = Len(s) - 1
      /\ \A i \in 1 .. Len(s) - 1 : t[i] = IF i < k THEN s[i] ELSE s[i + 1]
  <2>1. /\ t \in Seq(Handles) /\ Len(t) = Len(u) + Len(v)
        /\ \A i \in 1 .. Len(u) + Len(v) : t[i] = IF i <= Len(u) THEN u[i] ELSE v[i - Len(u)]
    BY <1>2, <1>3, <1>4, ConcatProperties
  <2>2. Len(u) + Len(v) = Len(s) - 1
    BY <1>1, <1>2, <1>3
  <2>3. ASSUME NEW i \in 1 .. Len(s) - 1, i < k PROVE t[i] = s[i]
    BY <1>1, <1>2, <2>1, <2>2, <2>3
  <2>4. ASSUME NEW i \in 1 .. Len(s) - 1, ~ (i < k) PROVE t[i] = s[i + 1]
    <3>1. /\ i - Len(u) \in 1 .. Len(s) - k /\ k + (i - Len(u)) = i + 1
          /\ ~ (i <= Len(u))
      BY <1>1, <1>2, <2>4
    <3> QED BY <1>3, <2>1, <2>2, <3>1
  <2> QED BY <2>1, <2>2, <2>3, <2>4
<1>6. DOMAIN t = 1 .. Len(s) - 1
  BY <1>5, LenProperties
<1>7. \A i, j \in 1 .. Len(s) : s[i] = s[j] => i = j
  BY <1>1 DEF IsInjective
<1>8. IsInjective(t)
  BY <1>1, <1>5, <1>6, <1>7 DEF IsInjective
<1>9. \A i \in 1 .. Len(s) - 1 : \E j \in 1 .. Len(s) : j # k /\ t[i] = s[j]
  BY <1>1, <1>5
<1>10. ASSUME NEW j \in 1 .. Len(s), j # k PROVE \E i \in 1 .. Len(s) - 1 : t[i] = s[j]
  <2>1. CASE j < k
    BY <1>1, <1>5, <2>1
  <2>2. CASE j > k
    <3>1. j - 1 \in 1 .. Len(s) - 1 /\ t[j - 1] = s[j]
      BY <1>1, <1>5, <2>2
    <3> QED BY <3>1
  <2> QED BY <2>1, <2>2, <1>10
<1>11. ToSet(t) = ToSet(s) \ {s[k]}
  <2>1. \A x \in ToSet(t) : x \in ToSet(s) /\ x # s[k]
    BY <1>1, <1>6, <1>7, <1>9 DEF ToSet
  <2>2. \A x \in ToSet(s) : x # s[k] => x \in ToSet(t)
    BY <1>1, <1>6, <1>10 DEF ToSet
  <2> QED BY <2>1, <2>2
<1> QED BY <1>5, <1>8, <1>11 DEF t

LEMMA AddsOne ==
  ASSUME NEW s \in Seq(Handles), NEW h \in Handles
  PROVE  /\ Append(s, h) \in Seq(Handles)
         /\ Len(Append(s, h)) = Len(s) + 1
         /\ ToSet(Append(s, h)) = ToSet(s) \cup {h}
         /\ IsInjective(s) /\ h \notin ToSet(s) => IsInjective(Append(s, h))
<1> DEFINE t == Append(s, h)
<1>1. /\ t \in Seq(Handles) /\ Len(t) = Len(s) + 1 /\ Len(s) \in Nat
      /\ \A i \in 1 .. Len(s) : t[i] = s[i]
      /\ t[Len(s) + 1] = h
  BY AppendProperties, LenProperties
<1>2. DOMAIN s = 1 .. Len(s) /\ DOMAIN t = 1 .. Len(s) + 1
  BY <1>1, LenProperties
<1> HIDE DEF t
<1>3. \A i \in 1 .. Len(s) + 1 : i \in 1 .. Len(s) \/ i = Len(s) + 1
  BY <1>1
<1>4. 1 .. Len(s) \subseteq 1 .. Len(s) + 1 /\ Len(s) + 1 \in 1 .. Len(s) + 1
  BY <1>1
<1>5. ToSet(t) = ToSet(s) \cup {h}
  BY <1>1, <1>2, <1>3, <1>4 DEF ToSet
<1>6. ASSUME IsInjective(s), h \notin ToSet(s) PROVE IsInjective(t)
  <2>1. \A i \in 1 .. Len(s) : s[i] # h
    BY <1>2, <1>6 DEF ToSet
  <2> QED BY <1>1, <1>2, <1>3, <1>6, <2>1 DEF IsInjective
<1> QED BY <1>1, <1>5, <1>6 DEF t

\* A set of numbers has a least one: what the inductions below go by.
LEMMA LeastNumber ==
  ASSUME NEW T \in SUBSET Nat, T # {}
  PROVE  \E m \in T : \A n \in T : m <= n
<1>1. PICK m \in T : \A n \in T : ~ (<<n, m>> \in OpToRel(<, Nat))
  BY WFMin, NatLessThanWellFounded
<1>2. \A n \in T : ~ (n < m)
  BY <1>1 DEF OpToRel
<1>3. m \in Nat /\ \A n \in T : n \in Nat
  OBVIOUS
<1> QED BY <1>2, <1>3

\* What kept[i] is, given kept[i - 1].
Keep(s, h, i, k) == IF s[i] = h THEN k ELSE Append(k, s[i])

\* The function f records what the loop keeps of its first n entries.
Records(f, s, h, n) ==
  /\ f \in [0 .. n -> Seq(Handles)]
  /\ f[0] = <<>>
  /\ \A i \in 1 .. n : f[i] = Keep(s, h, i, f[i - 1])

LEMMA RecordExists ==
  ASSUME NEW s \in Seq(Handles), NEW h
  PROVE  \E f : Records(f, s, h, Len(s))
<1> DEFINE T == {n \in Nat : n <= Len(s) /\ ~ \E f : Records(f, s, h, n)}
<1>1. Len(s) \in Nat /\ \A i \in 1 .. Len(s) : s[i] \in Handles
  BY LenProperties, ElementOfSeq
<1>2. SUFFICES ASSUME T # {} PROVE FALSE
  BY <1>1
<1>3. PICK m \in T : \A n \in T : m <= n
  BY <1>2, LeastNumber
<1>4. m # 0
  <2> DEFINE f == [i \in 0 .. 0 |-> <<>>]
  <2>1. Records(f, s, h, 0)
    BY EmptySeq DEF Records
  <2> QED BY <2>1
<1>5. m - 1 \in Nat /\ m - 1 <= Len(s) /\ m \in 1 .. Len(s) /\ m \in Nat
  BY <1>1, <1>4
<1>6. m - 1 \notin T
  BY <1>3, <1>5
<1>7. PICK f : Records(f, s, h, m - 1)
  BY <1>5, <1>6
<1> DEFINE g == [i \in 0 .. m |-> IF i = m THEN Keep(s, h, m, f[m - 1]) ELSE f[i]]
<1>8. /\ f \in [0 .. m - 1 -> Seq(Handles)] /\ f[0] = <<>>
      /\ \A i \in 1 .. m - 1 : f[i] = Keep(s, h, i, f[i - 1])
  BY <1>7 DEF Records
<1>9. Keep(s, h, m, f[m - 1]) \in Seq(Handles)
  <2>1. f[m - 1] \in Seq(Handles) /\ s[m] \in Handles
    BY <1>1, <1>5, <1>8
  <2> QED BY <2>1, AppendProperties DEF Keep
<1>10. \A i \in 0 .. m : i # m => i \in 0 .. m - 1
  BY <1>5
<1>11. g \in [0 .. m -> Seq(Handles)]
  BY <1>8, <1>9, <1>10
<1>12. g[0] = <<>>
  BY <1>5, <1>8
<1>13. \A i \in 0 .. m : g[i] = IF i = m THEN Keep(s, h, m, f[m - 1]) ELSE f[i]
  OBVIOUS
<1> HIDE DEF g
<1>14. ASSUME NEW i \in 1 .. m PROVE g[i] = Keep(s, h, i, g[i - 1])
  <2>1. i \in 0 .. m /\ i - 1 \in 0 .. m /\ i - 1 # m
    BY <1>5
  <2>2. g[i - 1] = f[i - 1]
    BY <1>13, <2>1
  <2>3. CASE i = m
    BY <1>13, <2>1, <2>2, <2>3
  <2>4. CASE i # m
    <3>1. i \in 1 .. m - 1
      BY <1>5, <2>4
    <3> QED BY <1>8, <1>13, <2>1, <2>2, <2>4, <3>1
  <2> QED BY <2>3, <2>4
<1>15. Records(g, s, h, m)
  BY <1>11, <1>12, <1>14 DEF Records
<1> QED BY <1>15

LEMMA RecordKeeps ==
  ASSUME NEW s \in Seq(Handles), NEW h, NEW f, Records(f, s, h, Len(s))
  PROVE  LET kept == f[Len(s)]
         IN  /\ kept \in Seq(Handles)
             /\ ToSet(kept) = ToSet(s) \ {h}
             /\ IsInjective(s) => IsInjective(kept)
<1> DEFINE Before(i) == {s[j] : j \in 1 .. i}
           Q(i) == /\ ToSet(f[i]) = Before(i) \ {h}
                   /\ IsInjective(s) => IsInjective(f[i])
           T == {n \in Nat : n <= Len(s) /\ ~ Q(n)}
<1>1. /\ Len(s) \in Nat /\ DOMAIN s = 1 .. Len(s)
      /\ \A i \in 1 .. Len(s) : s[i] \in Handles
  BY LenProperties, ElementOfSeq
<1>2. /\ f \in [0 .. Len(s) -> Seq(Handles)] /\ f[0] = <<>>
      /\ \A i \in 1 .. Len(s) : f[i] = Keep(s, h, i, f[i - 1])
  BY DEF Records
<1>3. ASSUME T # {} PROVE FALSE
  <2>1. PICK m \in T : \A n \in T : m <= n
    BY <1>3, LeastNumber
  <2>2. m # 0
    <3>1. DOMAIN f[0] = {} /\ Before(0) = {}
      BY <1>2
    <3>2. ToSet(f[0]) = {} /\ IsInjective(f[0])
      BY <3>1 DEF ToSet, IsInjective
    <3> QED BY <3>1, <3>2
  <2>3. m \in 1 .. Len(s) /\ m - 1 \in Nat /\ m - 1 <= Len(s) /\ m - 1 \in 0 .. Len(s)
    BY <1>1, <2>2
  <2>4. Q(m - 1)
    BY <2>1, <2>3
  <2> DEFINE k == f[m - 1]
  <2>5. k \in Seq(Handles) /\ f[m] = Keep(s, h, m, k) /\ s[m] \in Handles
    BY <1>1, <1>2, <2>3
  <2>6. ToSet(k) = Before(m - 1) \ {h} /\ (IsInjective(s) => IsInjective(k))
    BY <2>4
  <2>7. Before(m) = Before(m - 1) \cup {s[m]}
    <3>1. 1 .. m = (1 .. m - 1) \cup {m}
      BY <2>3
    <3> QED BY <3>1
  <2>8. IsInjective(s) => s[m] \notin Before(m - 1)
    <3>1. \A j \in 1 .. m - 1 : j \in DOMAIN s /\ m \in DOMAIN s /\ j # m
      BY <1>1, <2>3
    <3> QED BY <3>1 DEF IsInjective
  <2> HIDE DEF k, Before
  <2>9. CASE s[m] = h
    BY <2>5, <2>6, <2>7, <2>9 DEF Keep
  <2>10. CASE s[m] # h
    <3>1. f[m] = Append(k, s[m])
      BY <2>5, <2>10 DEF Keep
    <3>2. ToSet(f[m]) = ToSet(k) \cup {s[m]}
      BY <2>5, <3>1, AddsOne
    <3>3. IsInjective(s) => IsInjective(f[m])
      BY <2>5, <2>6, <2>8, <3>1, AddsOne
    <3> QED BY <2>6, <2>7, <2>10, <3>2, <3>3
  <2> QED BY <2>9, <2>10
<1>4. Q(Len(s))
  <2>1. SUFFICES ASSUME ~ Q(Len(s)) PROVE Len(s) \in T
    BY <1>3
  <2> HIDE DEF Q
  <2> QED BY <1>1, <2>1
<1>5. f[Len(s)] \in Seq(Handles)
  BY <1>1, <1>2
<1>6. Before(Len(s)) = ToSet(s)
  BY <1>1 DEF ToSet
<1> QED BY <1>4, <1>5, <1>6

\* zcmusic_unload_file's loop takes every entry of the song away, and no other.
LEMMA ErasesAll ==
  ASSUME NEW s \in Seq(Handles), NEW h
  PROVE  /\ Erased(s, h) \in Seq(Handles)
         /\ ToSet(Erased(s, h)) = ToSet(s) \ {h}
         /\ IsInjective(s) => IsInjective(Erased(s, h))
<1> DEFINE kept == CHOOSE f : f = [i \in 0 .. Len(s) |->
                     IF i = 0 THEN <<>>
                     ELSE IF s[i] = h THEN f[i - 1]
                     ELSE Append(f[i - 1], s[i])]
<1>1. Len(s) \in Nat
  BY LenProperties
<1>2. PICK f : Records(f, s, h, Len(s))
  BY RecordExists
<1>3. f = [i \in 0 .. Len(s) |-> IF i = 0 THEN <<>>
                                 ELSE IF s[i] = h THEN f[i - 1]
                                 ELSE Append(f[i - 1], s[i])]
  <2>1. \A i \in 0 .. Len(s) : i # 0 => i \in 1 .. Len(s)
    BY <1>1
  <2> QED BY <1>2, <2>1 DEF Records, Keep
<1>4. kept = [i \in 0 .. Len(s) |-> IF i = 0 THEN <<>>
                                    ELSE IF s[i] = h THEN kept[i - 1]
                                    ELSE Append(kept[i - 1], s[i])]
  BY <1>3
<1>5. Erased(s, h) = kept[Len(s)]
  BY DEF Erased
<1> HIDE DEF kept
<1>6. /\ kept[0] = <<>>
      /\ \A i \in 1 .. Len(s) : kept[i] = Keep(s, h, i, kept[i - 1])
  <2>1. \A i \in 0 .. Len(s) : kept[i] = IF i = 0 THEN <<>>
                                         ELSE IF s[i] = h THEN kept[i - 1]
                                         ELSE Append(kept[i - 1], s[i])
    BY <1>4
  <2>2. 0 \in 0 .. Len(s) /\ \A i \in 1 .. Len(s) : i \in 0 .. Len(s) /\ i # 0
    BY <1>1
  <2> QED BY <2>1, <2>2 DEF Keep
<1> DEFINE T == {n \in Nat : n <= Len(s) /\ kept[n] \notin Seq(Handles)}
<1>7. ASSUME T # {} PROVE FALSE
  <2>1. PICK m \in T : \A n \in T : m <= n
    BY <1>7, LeastNumber
  <2>2. m # 0
    BY <1>6, EmptySeq
  <2>3. m \in 1 .. Len(s) /\ m - 1 \in Nat /\ m - 1 <= Len(s)
    BY <1>1, <2>2
  <2>4. kept[m - 1] \in Seq(Handles) /\ s[m] \in Handles
    BY <2>1, <2>3, ElementOfSeq
  <2>5. kept[m] \in Seq(Handles)
    <3>1. Append(kept[m - 1], s[m]) \in Seq(Handles)
      BY <2>4, AppendProperties
    <3>2. kept[m] = kept[m - 1] \/ kept[m] = Append(kept[m - 1], s[m])
      BY <1>6, <2>3 DEF Keep
    <3> QED BY <2>4, <3>1, <3>2
  <2> QED BY <2>5
<1>8. kept \in [0 .. Len(s) -> Seq(Handles)]
  <2>1. \A n \in 0 .. Len(s) : kept[n] \in Seq(Handles)
    BY <1>1, <1>7
  <2> QED BY <1>4, <2>1
<1>9. Records(kept, s, h, Len(s))
  BY <1>6, <1>8 DEF Records
<1> QED BY <1>5, <1>9, RecordKeeps

-----------------------------------------------------------------------------
(* What a step needs of the invariant, and what it leaves alone            *)

ASong == [kind : Kinds \cup {"none"}, playing : {"STOPPED", "PLAYING", "PAUSED"},
          s : Streams \cup {NoStream}]

\* The part of TypeOK about the list of calls, and the one about the rest.
TodoOK == todo \in Seq(CallNames) /\ Len(todo) <= 5

RestOK ==
  /\ music \in [Handles -> ASong]
  /\ open \subseteq Streams
  /\ playlist \in Seq(Handles)
  /\ owner \in Threads \cup {NoThread}
  /\ libflags \in BOOLEAN
  /\ zcmusic \in Handles \cup {NoHandle} /\ newzcmusic \in Handles \cup {NoHandle}
  /\ at \in [Threads -> {"idle", "poll", "reload", "free", "push", "seek", "exit"}]
  /\ at["timer"] \in {"idle", "poll", "reload"}
  /\ b \in [Threads -> Nat \ {0}]
  /\ held \in Streams \cup {NoStream}
  /\ failed \in BOOLEAN /\ badUse \in BOOLEAN

LEMMA TypeParts == TypeOK <=> TodoOK /\ RestOK
BY DEF TypeOK, TodoOK, RestOK, ASong

LEMMA TypePartsNext == TypeOK' <=> TodoOK' /\ RestOK'
BY DEF TypeOK, TodoOK, RestOK, ASong

\* A conjunct stays true when its variables do not change.
LEMMA Frame ==
  /\ PlaylistValid /\ UNCHANGED <<music, playlist>> => PlaylistValid'
  /\ PlayingIsListed /\ UNCHANGED <<music, playlist, zcmusic, at>> => PlayingIsListed'
  /\ PollerSafe /\ UNCHANGED <<music, playlist, owner, at, b>> => PollerSafe'
  /\ NoLeak /\ UNCHANGED <<music, open, zcmusic, newzcmusic>> => NoLeak'
  /\ UsesOpenStream /\ UNCHANGED <<failed, badUse>> => UsesOpenStream'
  /\ InCall /\ UNCHANGED <<todo, at>> => InCall'
  /\ HasSong /\ UNCHANGED <<music, zcmusic, newzcmusic, todo, at>> => HasSong'
  /\ Unlisted /\ UNCHANGED <<playlist, zcmusic, newzcmusic, todo, at>> => Unlisted'
  /\ HoldsMutex /\ UNCHANGED <<owner, at>> => HoldsMutex'
  /\ Reloading /\ UNCHANGED <<music, playlist, at, b>> => Reloading'
  /\ StreamsOfModules /\ UNCHANGED music => StreamsOfModules'
  /\ Silent /\ UNCHANGED <<music, playlist, zcmusic, todo, at, b>> => Silent'
  /\ Seeking /\ UNCHANGED <<music, zcmusic, at, held, failed>> => Seeking'
  /\ TodoOK /\ UNCHANGED todo => TodoOK'
<1>1. PlaylistValid /\ UNCHANGED <<music, playlist>> => PlaylistValid'
  BY DEF PlaylistValid, Allocated
<1>2. PlayingIsListed /\ UNCHANGED <<music, playlist, zcmusic, at>> => PlayingIsListed'
  BY DEF PlayingIsListed
<1>3. PollerSafe /\ UNCHANGED <<music, playlist, owner, at, b>> => PollerSafe'
  BY DEF PollerSafe, Song, Allocated
<1>4. NoLeak /\ UNCHANGED <<music, open, zcmusic, newzcmusic>> => NoLeak'
  BY DEF NoLeak, Allocated
<1>5. UsesOpenStream /\ UNCHANGED <<failed, badUse>> => UsesOpenStream'
  BY DEF UsesOpenStream
<1>6. InCall /\ UNCHANGED <<todo, at>> => InCall'
  BY DEF InCall, Making
<1>7. HasSong /\ UNCHANGED <<music, zcmusic, newzcmusic, todo, at>> => HasSong'
  BY DEF HasSong, Making, Allocated
<1>8. Unlisted /\ UNCHANGED <<playlist, zcmusic, newzcmusic, todo, at>> => Unlisted'
  BY DEF Unlisted, Making
<1>9. HoldsMutex /\ UNCHANGED <<owner, at>> => HoldsMutex'
  BY DEF HoldsMutex
<1>10. Reloading /\ UNCHANGED <<music, playlist, at, b>> => Reloading'
  BY DEF Reloading, Song, IsFile
<1>11. StreamsOfModules /\ UNCHANGED music => StreamsOfModules'
  BY DEF StreamsOfModules, IsModule
<1>12. Silent /\ UNCHANGED <<music, playlist, zcmusic, todo, at, b>> => Silent'
  BY DEF Silent, Making, Song
<1>13. Seeking /\ UNCHANGED <<music, zcmusic, at, held, failed>> => Seeking'
  BY DEF Seeking
<1>14. TodoOK /\ UNCHANGED todo => TodoOK'
  BY DEF TodoOK
<1> QED
  BY <1>1, <1>2, <1>3, <1>4, <1>5, <1>6, <1>7, <1>8, <1>9, <1>10, <1>11, <1>12, <1>13, <1>14

\* The song that the iterator of a poll points to.
LEMMA SongFacts ==
  ASSUME IInv, NEW t \in Threads, AtSong(t) \/ at[t] = "reload"
  PROVE  /\ owner = t
         /\ b[t] \in 1 .. Len(playlist)
         /\ Song(t) \in Handles /\ Song(t) \in Allocated /\ Song(t) \in ToSet(playlist)
<1>1. owner = t
  BY DEF IInv, HoldsMutex, AtSong
<1>2. b[t] \in Nat \ {0} /\ playlist \in Seq(Handles)
  BY TypeParts DEF IInv, RestOK
<1>3. b[t] \in 1 .. Len(playlist)
  BY <1>2, LenProperties DEF IInv, PollerSafe, AtSong
<1>4. Song(t) \in Handles /\ Song(t) \in ToSet(playlist)
  BY <1>2, <1>3, LenProperties, ElementOfSeq DEF Song, ToSet
<1> QED BY <1>1, <1>3, <1>4 DEF IInv, PlaylistValid

\* Nobody is between the steps of a poll while the mutex is free, and nobody
\* else is while thread t has it.
LEMMA OneAtATime ==
  ASSUME IInv, NEW t \in Threads, at[t] \in {"poll", "reload", "exit"}
  PROVE  owner # NoThread /\ \A u \in Threads : u # t => at[u] \notin {"poll", "reload", "exit"}
BY DEF IInv, HoldsMutex, Threads, NoThread

LEMMA NobodyPolls ==
  ASSUME IInv, owner = NoThread
  PROVE  \A t \in Threads : at[t] \notin {"poll", "reload", "exit"}
BY DEF IInv, HoldsMutex, Threads, NoThread

\* What the return of a call changes, as far as the list of calls goes.
LEMMA Returns ==
  ASSUME IInv, todo # <<>>, todo' = Tail(todo)
  PROVE  /\ TodoOK'
         /\ InOrder(todo)'
         /\ \A c : Making(c)' => c \in After(Head(todo))
         /\ Head(todo) # "install" =>
              (\E i \in 1 .. Len(todo') : todo'[i] = "install")
                <=> (\E i \in 1 .. Len(todo) : todo[i] = "install")
         /\ Head(todo) \in {"install", "load"} =>
              ~ \E i \in 1 .. Len(todo') : todo'[i] = "install"
         /\ Head(todo) \in {"poll", "change_track", "pause", "resume", "seek", "exit"} => todo' = <<>>
<1>1. todo \in Seq(CallNames) /\ Len(todo) <= 5 /\ InOrder(todo)
  BY TypeParts DEF IInv, TodoOK, InCall
<1>2. /\ todo' \in Seq(CallNames) /\ Len(todo') = Len(todo) - 1 /\ InOrder(todo')
      /\ Head(todo) = todo[1] /\ Head(todo) \in CallNames
      /\ \A i \in 1 .. Len(todo') : todo'[i] = todo[i + 1]
      /\ todo' # <<>> => Head(todo') \in After(Head(todo))
  BY <1>1, Returning
<1>3. Len(todo) \in Nat \ {0}
  BY <1>1, EmptySeq
<1>4. TodoOK'
  BY <1>1, <1>2, <1>3 DEF TodoOK
<1>5. \A c : Making(c)' => c \in After(Head(todo))
  BY <1>2 DEF Making
<1>6. ASSUME Head(todo) # "install"
      PROVE  (\E i \in 1 .. Len(todo') : todo'[i] = "install")
               <=> (\E i \in 1 .. Len(todo) : todo[i] = "install")
  <2>1. \A i \in 1 .. Len(todo') : i + 1 \in 1 .. Len(todo)
    BY <1>2, <1>3
  <2>2. \A i \in 1 .. Len(todo) : i = 1 \/ (i - 1 \in 1 .. Len(todo') /\ todo'[i - 1] = todo[i])
    BY <1>2, <1>3
  <2> QED BY <1>2, <1>6, <2>1, <2>2
<1>7. ASSUME Head(todo) \in {"install", "load"}, NEW i \in 1 .. Len(todo'), todo'[i] = "install"
      PROVE  FALSE
  <2>1. todo' # <<>> /\ Len(todo') \in Nat
    <3>1. Len(todo') \in Nat
      BY <1>2, LenProperties
    <3>2. todo' = <<>> => Len(todo') = 0
      OBVIOUS
    <3> QED BY <1>7, <3>1, <3>2
  <2>2. todo'[1] = "play"
    BY <1>2, <1>7, <2>1, EmptySeq, HeadTailProperties DEF After
  <2>3. \A j \in 1 .. Len(todo') - 1 : todo'[j + 1] \in After(todo'[j])
    BY <1>2 DEF InOrder
  <2>4. Len(todo') >= 2 => todo'[2] = "change_track"
    <3>1. Len(todo') >= 2 => todo'[1 + 1] \in After(todo'[1])
      BY <2>1, <2>3
    <3> QED BY <2>2, <3>1 DEF After
  <2>5. ~ (Len(todo') >= 3)
    <3>1. Len(todo') >= 3 => 2 \in 1 .. Len(todo') - 1
      BY <2>1
    <3>2. Len(todo') >= 3 => todo'[2 + 1] \in After(todo'[2])
      BY <2>3, <3>1
    <3> QED BY <2>1, <2>4, <3>2 DEF After
  <2> QED BY <1>7, <2>1, <2>2, <2>4, <2>5
<1>8. Head(todo) \in {"poll", "change_track", "pause", "resume", "seek", "exit"} => todo' = <<>>
  BY <1>2 DEF After
<1> QED BY <1>2, <1>4, <1>5, <1>6, <1>7, <1>8

\* The calls that one function of the player makes.
LEMMA Undertakes ==
  ASSUME NEW l \in {<<"stop", "unload", "install", "play">>,
                    <<"stop", "unload", "install", "play", "change_track">>,
                    <<"stop", "unload", "load", "play", "change_track">>,
                    <<"stop", "unload">>, <<"pause">>, <<"resume">>, <<"seek">>,
                    <<"stop", "unload", "exit">>, <<"poll">>}
  PROVE  /\ l \in Seq(CallNames) /\ Len(l) <= 5 /\ InOrder(l)
         /\ l # <<>> /\ Head(l) \in {"stop", "pause", "resume", "seek", "poll"}
         /\ (\E i \in 1 .. Len(l) : l[i] = "install") <=> (Len(l) >= 4 /\ l[3] = "install")
<1>1. CASE l = <<"stop", "unload", "install", "play">>
  <2>1. Len(l) = 4 /\ l # <<>> /\ Head(l) = l[1] /\ l \in Seq(CallNames)
    BY <1>1 DEF CallNames
  <2>2. l[1] = "stop" /\ l[2] = "unload" /\ l[3] = "install" /\ l[4] = "play"
    BY <1>1
  <2> QED BY <2>1, <2>2 DEF InOrder, After, GoesOn
<1>2. CASE l = <<"stop", "unload", "install", "play", "change_track">>
  <2>1. Len(l) = 5 /\ l # <<>> /\ Head(l) = l[1] /\ l \in Seq(CallNames)
    BY <1>2 DEF CallNames
  <2>2. l[1] = "stop" /\ l[2] = "unload" /\ l[3] = "install" /\ l[4] = "play" /\ l[5] = "change_track"
    BY <1>2
  <2> QED BY <2>1, <2>2 DEF InOrder, After, GoesOn
<1>3. CASE l = <<"stop", "unload", "load", "play", "change_track">>
  <2>1. Len(l) = 5 /\ l # <<>> /\ Head(l) = l[1] /\ l \in Seq(CallNames)
    BY <1>3 DEF CallNames
  <2>2. l[1] = "stop" /\ l[2] = "unload" /\ l[3] = "load" /\ l[4] = "play" /\ l[5] = "change_track"
    BY <1>3
  <2> QED BY <2>1, <2>2 DEF InOrder, After, GoesOn
<1>4. CASE l = <<"stop", "unload">>
  <2>1. Len(l) = 2 /\ l # <<>> /\ Head(l) = l[1] /\ l \in Seq(CallNames)
    BY <1>4 DEF CallNames
  <2>2. l[1] = "stop" /\ l[2] = "unload"
    BY <1>4
  <2> QED BY <2>1, <2>2 DEF InOrder, After, GoesOn
<1>5. CASE l = <<"pause">>
  <2>1. Len(l) = 1 /\ l # <<>> /\ Head(l) = l[1] /\ l \in Seq(CallNames)
    BY <1>5 DEF CallNames
  <2>2. l[1] = "pause"
    BY <1>5
  <2> QED BY <2>1, <2>2 DEF InOrder, After, GoesOn
<1>6. CASE l = <<"resume">>
  <2>1. Len(l) = 1 /\ l # <<>> /\ Head(l) = l[1] /\ l \in Seq(CallNames)
    BY <1>6 DEF CallNames
  <2>2. l[1] = "resume"
    BY <1>6
  <2> QED BY <2>1, <2>2 DEF InOrder, After, GoesOn
<1>7. CASE l = <<"seek">>
  <2>1. Len(l) = 1 /\ l # <<>> /\ Head(l) = l[1] /\ l \in Seq(CallNames)
    BY <1>7 DEF CallNames
  <2>2. l[1] = "seek"
    BY <1>7
  <2> QED BY <2>1, <2>2 DEF InOrder, After, GoesOn
<1>8. CASE l = <<"stop", "unload", "exit">>
  <2>1. Len(l) = 3 /\ l # <<>> /\ Head(l) = l[1] /\ l \in Seq(CallNames)
    BY <1>8 DEF CallNames
  <2>2. l[1] = "stop" /\ l[2] = "unload" /\ l[3] = "exit"
    BY <1>8
  <2> QED BY <2>1, <2>2 DEF InOrder, After, GoesOn
<1>9. CASE l = <<"poll">>
  <2>1. Len(l) = 1 /\ l # <<>> /\ Head(l) = l[1] /\ l \in Seq(CallNames)
    BY <1>9 DEF CallNames
  <2>2. l[1] = "poll"
    BY <1>9
  <2> QED BY <2>1, <2>2 DEF InOrder, After, GoesOn
<1> QED BY <1>1, <1>2, <1>3, <1>4, <1>5, <1>6, <1>7, <1>8, <1>9

-----------------------------------------------------------------------------
(* zcmusic_poll keeps the invariant                                        *)

LEMMA PollLockStep ==
  ASSUME IInv, NEW t \in Threads, PollLock(t)
  PROVE  IInv'
<1>1. /\ MayPoll(t) /\ owner = NoThread /\ owner' = t
      /\ at' = [at EXCEPT ![t] = "poll"] /\ b' = [b EXCEPT ![t] = 1]
      /\ UNCHANGED <<music, open, playlist, libflags, zcmusic, newzcmusic, todo, held, failed, badUse>>
  BY DEF PollLock
<1>2. TodoOK /\ RestOK
  BY TypeParts DEF IInv
<1>3. /\ \A u \in Threads : at'[u] = IF u = t THEN "poll" ELSE at[u]
      /\ \A u \in Threads : b'[u] = IF u = t THEN 1 ELSE b[u]
      /\ at' \in [Threads -> {"idle", "poll", "reload", "free", "push", "seek", "exit"}]
      /\ b' \in [Threads -> Nat \ {0}]
  BY <1>1, <1>2 DEF RestOK
<1>4. \A u \in Threads : at[u] \notin {"poll", "reload", "exit"}
  BY <1>1, NobodyPolls
<1>5. t = "game" => at["game"] = "idle" /\ Making("poll")
  BY <1>1 DEF MayPoll, Calls, Making
<1>6. t = "game" \/ t = "timer"
  BY DEF Threads
<1>7. at'["game"] \in {"free", "push", "seek"} <=> at["game"] \in {"free", "push", "seek"}
  BY <1>3, <1>5, <1>6 DEF Threads
<1>8. at'["game"] = at["game"] \/ (at["game"] = "idle" /\ at'["game"] = "poll")
  BY <1>3, <1>5, <1>6 DEF Threads
<1>9. TypeOK'
  <2>1. RestOK'
    BY <1>1, <1>2, <1>3 DEF RestOK, Threads
  <2> QED BY <1>1, <1>2, <2>1, Frame, TypePartsNext
<1>10. PlaylistValid' /\ NoLeak' /\ UsesOpenStream' /\ StreamsOfModules'
  BY <1>1, Frame DEF IInv
<1>11. PlayingIsListed' /\ HasSong' /\ Unlisted' /\ Seeking'
  BY <1>1, <1>8 DEF IInv, PlayingIsListed, HasSong, Unlisted, Seeking, Making, Allocated
<1>12. PollerSafe'
  <2>1. Len(playlist) \in Nat
    BY <1>2, LenProperties DEF RestOK
  <2> QED BY <1>1, <1>3, <1>4, <2>1 DEF PollerSafe
<1>13. InCall'
  BY <1>1, <1>3, <1>5, <1>6, <1>8 DEF IInv, InCall, Making
<1>14. HoldsMutex' /\ Reloading' /\ Silent'
  <2>1. \A u \in Threads : at'[u] # "reload"
    BY <1>3, <1>4
  <2>2. HoldsMutex'
    BY <1>1, <1>3, <1>4 DEF HoldsMutex
  <2>3. Silent'
    BY <1>1, <2>1 DEF IInv, Silent, Making, Threads
  <2> QED BY <2>1, <2>2, <2>3 DEF Reloading
<1> QED BY <1>9, <1>10, <1>11, <1>12, <1>13, <1>14 DEF IInv

LEMMA PollStoppedStep ==
  ASSUME IInv, NEW t \in Threads, PollStopped(t)
  PROVE  IInv'
<1>1. /\ AtSong(t) /\ music[Song(t)].playing = "STOPPED"
      /\ playlist' = RemoveAt(playlist, b[t])
      /\ UNCHANGED <<music, open, owner, libflags, zcmusic, newzcmusic, todo, at, b, held, failed, badUse>>
  BY DEF PollStopped
<1>2. TodoOK /\ RestOK
  BY TypeParts DEF IInv
<1>3. /\ owner = t /\ b[t] \in 1 .. Len(playlist) /\ at[t] = "poll"
      /\ Song(t) \in Handles
  BY <1>1, SongFacts DEF AtSong
<1>4. \A u \in Threads : at[u] \in {"poll", "reload"} => u = t
  BY <1>3, OneAtATime
<1>5. /\ playlist' \in Seq(Handles) /\ Len(playlist') = Len(playlist) - 1
      /\ IsInjective(playlist') /\ ToSet(playlist') = ToSet(playlist) \ {Song(t)}
      /\ Len(playlist) \in Nat
  BY <1>1, <1>2, <1>3, RemovesOne, LenProperties DEF RestOK, IInv, PlaylistValid, Song
<1>6. TypeOK'
  <2>1. RestOK'
    BY <1>1, <1>2, <1>5 DEF RestOK
  <2> QED BY <1>1, <1>2, <2>1, Frame, TypePartsNext
<1>7. NoLeak' /\ UsesOpenStream' /\ InCall' /\ HasSong' /\ HoldsMutex' /\ StreamsOfModules' /\ Seeking'
  BY <1>1, Frame DEF IInv
<1>8. PlaylistValid'
  BY <1>1, <1>5 DEF IInv, PlaylistValid, Allocated
<1>9. PlayingIsListed'
  BY <1>1, <1>5 DEF IInv, PlayingIsListed
<1>10. PollerSafe'
  BY <1>1, <1>3, <1>4, <1>5 DEF IInv, PollerSafe, AtSong
<1>11. Unlisted'
  BY <1>1, <1>5 DEF IInv, Unlisted, Making
<1>12. Reloading' /\ Silent'
  <2>1. \A u \in Threads : at'[u] # "reload"
    BY <1>1, <1>3, <1>4
  <2> QED BY <1>1, <2>1 DEF IInv, Silent, Reloading, Making, Threads
<1> QED BY <1>6, <1>7, <1>8, <1>9, <1>10, <1>11, <1>12 DEF IInv

LEMMA PollSongStep ==
  ASSUME IInv, NEW t \in Threads, PollSong(t)
  PROVE  IInv'
<1>1. /\ AtSong(t)
      /\ b' = [b EXCEPT ![t] = @ + 1]
      /\ badUse' = (badUse \/ (music[Song(t)].playing = "PLAYING"
                                 /\ music[Song(t)].s # NoStream /\ music[Song(t)].s \notin open))
      /\ UNCHANGED <<music, open, playlist, owner, libflags, zcmusic, newzcmusic, todo, at, held, failed>>
  BY DEF PollSong
<1>2. TodoOK /\ RestOK
  BY TypeParts DEF IInv
<1>3. /\ owner = t /\ b[t] \in 1 .. Len(playlist) /\ at[t] = "poll"
      /\ Song(t) \in Allocated
  BY <1>1, SongFacts DEF AtSong
<1>4. \A u \in Threads : at[u] \in {"poll", "reload"} => u = t
  BY <1>3, OneAtATime
<1>5. /\ \A u \in Threads : b'[u] = IF u = t THEN b[u] + 1 ELSE b[u]
      /\ b' \in [Threads -> Nat \ {0}]
  BY <1>1, <1>2 DEF RestOK
<1>6. badUse' = badUse
  <2>1. music[Song(t)].s # NoStream => music[Song(t)].s \in open
    BY <1>3 DEF IInv, NoLeak
  <2> QED BY <1>1, <1>2, <2>1 DEF RestOK
<1>7. TypeOK'
  <2>1. RestOK'
    BY <1>1, <1>2, <1>5, <1>6 DEF RestOK
  <2> QED BY <1>1, <1>2, <2>1, Frame, TypePartsNext
<1>8. /\ PlaylistValid' /\ PlayingIsListed' /\ NoLeak' /\ UsesOpenStream' /\ InCall' /\ HasSong'
      /\ Unlisted' /\ HoldsMutex' /\ StreamsOfModules' /\ Seeking'
  BY <1>1, <1>6, Frame DEF IInv
<1>9. PollerSafe'
  <2>1. Len(playlist) \in Nat
    BY <1>2, LenProperties DEF RestOK
  <2> QED BY <1>1, <1>3, <1>4, <1>5, <2>1 DEF IInv, PollerSafe
<1>10. Reloading' /\ Silent'
  <2>1. \A u \in Threads : at'[u] # "reload"
    BY <1>1, <1>3, <1>4
  <2> QED BY <1>1, <2>1 DEF IInv, Silent, Reloading, Making, Threads
<1> QED BY <1>7, <1>8, <1>9, <1>10 DEF IInv

LEMMA PollUnlockStep ==
  ASSUME IInv, NEW t \in Threads, PollUnlock(t)
  PROVE  IInv'
<1>1. /\ at[t] = "poll" /\ owner' = NoThread /\ at' = [at EXCEPT ![t] = "idle"]
      /\ todo' = IF t = "game" THEN Tail(todo) ELSE todo
      /\ UNCHANGED <<music, open, playlist, libflags, zcmusic, newzcmusic, b, held, failed, badUse>>
  BY DEF PollUnlock
<1>2. TodoOK /\ RestOK
  BY TypeParts DEF IInv
<1>3. /\ \A u \in Threads : at'[u] = IF u = t THEN "idle" ELSE at[u]
      /\ at' \in [Threads -> {"idle", "poll", "reload", "free", "push", "seek", "exit"}]
      /\ at'["timer"] \in {"idle", "poll", "reload"}
  BY <1>1, <1>2 DEF RestOK, Threads
<1>4. \A u \in Threads : u # t => at[u] \notin {"poll", "reload", "exit"}
  BY <1>1, OneAtATime
<1>5. t = "game" => Making("poll") /\ todo' = <<>> /\ TodoOK' /\ InOrder(todo)'
                    /\ ~ \E i \in 1 .. Len(todo) : todo[i] = "install"
  <2>1. SUFFICES ASSUME t = "game"
                 PROVE  Making("poll") /\ todo' = <<>> /\ TodoOK' /\ InOrder(todo)'
                        /\ ~ \E i \in 1 .. Len(todo) : todo[i] = "install"
    OBVIOUS
  <2>2. Making("poll")
    BY <1>1, <2>1 DEF IInv, InCall
  <2>3. /\ todo' = <<>> /\ TodoOK' /\ InOrder(todo)'
        /\ (\E i \in 1 .. Len(todo') : todo'[i] = "install")
             <=> (\E i \in 1 .. Len(todo) : todo[i] = "install")
    BY <1>1, <2>1, <2>2, Returns DEF Making
  <2>4. Len(todo') = 0
    BY <2>3
  <2> QED BY <2>2, <2>3, <2>4
<1>6. t = "game" \/ (t = "timer" /\ at'["game"] = at["game"] /\ todo' = todo)
  BY <1>1, <1>3 DEF Threads
<1>7. TypeOK'
  <2>1. RestOK'
    BY <1>1, <1>2, <1>3 DEF RestOK
  <2>2. TodoOK'
    BY <1>2, <1>5, <1>6 DEF TodoOK
  <2> QED BY <2>1, <2>2, TypePartsNext
<1>8. PlaylistValid' /\ NoLeak' /\ UsesOpenStream' /\ StreamsOfModules'
  BY <1>1, Frame DEF IInv
<1>9. \A u \in Threads : at'[u] \notin {"poll", "reload", "exit"}
  BY <1>3, <1>4
<1>10. HoldsMutex' /\ PollerSafe' /\ Reloading'
  BY <1>1, <1>9 DEF HoldsMutex, PollerSafe, Reloading, Threads, NoThread
<1>11. t = "game" => at'["game"] = "idle" /\ at["game"] = "poll" /\ \A c : ~ Making(c)'
  BY <1>1, <1>3, <1>5 DEF Making, Threads
<1>12. InCall' /\ HasSong'
  <2>1. CASE t = "game"
    <3>1. ~ \E i \in 1 .. Len(todo') : todo'[i] = "install"
      BY <1>5, <2>1
    <3> QED BY <1>1, <1>5, <1>11, <2>1, <3>1 DEF IInv, InCall, HasSong, Allocated
  <2>2. CASE t = "timer"
    BY <1>1, <1>6, <2>2 DEF IInv, InCall, HasSong, Making, Allocated
  <2> QED BY <1>6, <2>1, <2>2
<1>13. PlayingIsListed' /\ Seeking'
  BY <1>1, <1>6, <1>11 DEF IInv, PlayingIsListed, Seeking
<1>14. Unlisted' /\ Silent'
  <2>1. CASE t = "game"
    BY <1>1, <1>11, <2>1 DEF IInv, Unlisted, Silent
  <2>2. CASE t = "timer"
    BY <1>1, <1>6, <1>9, <2>2 DEF IInv, Unlisted, Silent, Making, Threads
  <2> QED BY <1>6, <2>1, <2>2
<1> QED BY <1>7, <1>8, <1>10, <1>12, <1>13, <1>14 DEF IInv

\* A song with another stream, or none, and perhaps marked otherwise.
With(h, p, s) == [kind |-> music[h].kind, playing |-> p, s |-> s]

LEMMA WithStream ==
  ASSUME RestOK, NEW h \in Handles, NEW s, s \in Streams \cup {NoStream},
         NEW p, p \in {"STOPPED", "PLAYING", "PAUSED"},
         music' = [music EXCEPT ![h] = With(h, p, s)]
  PROVE  /\ music' \in [Handles -> ASong]
         /\ \A g \in Handles :
              /\ music'[g].kind = music[g].kind
              /\ music'[g].s = IF g = h THEN s ELSE music[g].s
              /\ music'[g].playing = IF g = h THEN p ELSE music[g].playing
         /\ Allocated' = Allocated
         /\ \A g \in Handles : IsFile(g)' = IsFile(g) /\ IsModule(g)' = IsModule(g)
<1>1. music \in [Handles -> ASong]
  BY DEF RestOK
<1>2. music[h].kind \in Kinds \cup {"none"}
  BY <1>1 DEF ASong
<1> DEFINE r == With(h, p, s)
<1>4. r \in ASong /\ r.kind = music[h].kind /\ r.playing = p /\ r.s = s
  BY <1>2 DEF ASong, With
<1> HIDE DEF r
<1>5. /\ music' \in [Handles -> ASong]
      /\ \A g \in Handles : music'[g] = IF g = h THEN r ELSE music[g]
  BY <1>1, <1>4 DEF r
<1>6. \A g \in Handles : music'[g].kind = music[g].kind
  BY <1>4, <1>5
<1> QED BY <1>4, <1>5, <1>6 DEF Allocated, IsFile, IsModule

\* The three ways in which the actions write it.
LEMMA SongFields ==
  ASSUME RestOK, NEW h \in Handles
  PROVE  /\ music[h].playing \in {"STOPPED", "PLAYING", "PAUSED"}
         /\ music[h].s \in Streams \cup {NoStream}
         /\ music[h].kind \in Kinds \cup {"none"}
BY DEF RestOK, ASong

LEMMA WritesStream ==
  ASSUME RestOK, NEW h \in Handles, NEW s
  PROVE  [music EXCEPT ![h].s = s] = [music EXCEPT ![h] = With(h, music[h].playing, s)]
<1>1. music \in [Handles -> ASong] /\ music[h] \in ASong
  BY DEF RestOK
<1>2. [music[h] EXCEPT !.s = s] = With(h, music[h].playing, s)
  BY <1>1 DEF ASong, With
<1> QED BY <1>1, <1>2

LEMMA WritesPlaying ==
  ASSUME RestOK, NEW h \in Handles, NEW p
  PROVE  [music EXCEPT ![h].playing = p] = [music EXCEPT ![h] = With(h, p, music[h].s)]
<1>1. music \in [Handles -> ASong] /\ music[h] \in ASong
  BY DEF RestOK
<1>2. [music[h] EXCEPT !.playing = p] = With(h, p, music[h].s)
  BY <1>1 DEF ASong, With
<1> QED BY <1>1, <1>2

LEMMA WritesBoth ==
  ASSUME RestOK, NEW h \in Handles, NEW s, NEW p
  PROVE  [music EXCEPT ![h].s = s, ![h].playing = p] = [music EXCEPT ![h] = With(h, p, s)]
<1>1. music \in [Handles -> ASong] /\ music[h] \in ASong
  BY DEF RestOK
<1> DEFINE r == [music[h] EXCEPT !.s = s]
           m == [music EXCEPT ![h] = r]
<1>2. r = With(h, music[h].playing, s)
  BY <1>1 DEF ASong, With
<1>3. [r EXCEPT !.playing = p] = With(h, p, s)
  <2>1. [With(h, music[h].playing, s) EXCEPT !.playing = p] = With(h, p, s)
    BY DEF With
  <2> HIDE DEF r
  <2> QED BY <1>2, <2>1
<1>4. m[h] = r /\ [music EXCEPT ![h].s = s, ![h].playing = p] = [m EXCEPT ![h].playing = p]
  BY <1>1
<1>5. [m EXCEPT ![h].playing = p] = [m EXCEPT ![h] = [r EXCEPT !.playing = p]]
  BY <1>4
<1>6. [m EXCEPT ![h] = With(h, p, s)] = [music EXCEPT ![h] = With(h, p, s)]
  BY <1>1
<1> QED BY <1>3, <1>4, <1>5, <1>6

LEMMA PollResetStep ==
  ASSUME IInv, NEW t \in Threads, PollReset(t)
  PROVE  IInv'
<1> DEFINE h == Song(t)
<1>1. /\ AtSong(t)
      /\ music[h].playing = "PLAYING" /\ IsFile(h) /\ music[h].s # NoStream
      /\ badUse' = (badUse \/ music[h].s \notin open)
      /\ failed' = (failed \/ music[h].kind = "OGGEX")
      /\ open' = open \ {music[h].s}
      /\ music' = [music EXCEPT ![h].s = NoStream]
      /\ at' = [at EXCEPT ![t] = "reload"]
      /\ UNCHANGED <<playlist, owner, libflags, zcmusic, newzcmusic, todo, b, held>>
  BY DEF PollReset
<1>2. TodoOK /\ RestOK
  BY TypeParts DEF IInv
<1>3. /\ owner = t /\ b[t] \in 1 .. Len(playlist) /\ at[t] = "poll"
      /\ h \in Handles /\ h \in Allocated /\ h \in ToSet(playlist)
  BY <1>1, SongFacts DEF AtSong
<1>4. \A u \in Threads : u # t => at[u] \notin {"poll", "reload", "exit"}
  BY <1>3, OneAtATime
<1>5. /\ \A u \in Threads : at'[u] = IF u = t THEN "reload" ELSE at[u]
      /\ at' \in [Threads -> {"idle", "poll", "reload", "free", "push", "seek", "exit"}]
      /\ at'["timer"] \in {"idle", "poll", "reload"}
  BY <1>1, <1>2 DEF RestOK, Threads
<1>6. /\ music' \in [Handles -> ASong]
      /\ \A g \in Handles :
           /\ music'[g].kind = music[g].kind
           /\ music'[g].s = IF g = h THEN NoStream ELSE music[g].s
           /\ music'[g].playing = music[g].playing
      /\ Allocated' = Allocated
      /\ \A g \in Handles : IsFile(g)' = IsFile(g) /\ IsModule(g)' = IsModule(g)
  <2> HIDE DEF h
  <2> DEFINE p == music[h].playing
  <2>1. /\ music' = [music EXCEPT ![h] = With(h, p, NoStream)]
        /\ p \in {"STOPPED", "PLAYING", "PAUSED"}
    BY <1>1, <1>2, <1>3, WritesStream, SongFields
  <2>2. \A g \in Handles : (IF g = h THEN p ELSE music[g].playing) = music[g].playing
    OBVIOUS
  <2> HIDE DEF p
  <2>3. NoStream \in Streams \cup {NoStream} /\ RestOK
    BY <1>2
  <2>4. /\ music' \in [Handles -> ASong]
        /\ \A g \in Handles :
             /\ music'[g].kind = music[g].kind
             /\ music'[g].s = IF g = h THEN NoStream ELSE music[g].s
             /\ music'[g].playing = IF g = h THEN p ELSE music[g].playing
        /\ Allocated' = Allocated
        /\ \A g \in Handles : IsFile(g)' = IsFile(g) /\ IsModule(g)' = IsModule(g)
    BY <1>3, <2>1, <2>3, WithStream
  <2> QED BY <2>2, <2>4
<1>7. \A u \in Threads : Song(u)' = Song(u)
  BY <1>1 DEF Song
<1>8. badUse' = badUse
  BY <1>1, <1>2, <1>3 DEF IInv, NoLeak, RestOK
<1>9. t = "game" \/ (t = "timer" /\ at'["game"] = at["game"])
  BY <1>5 DEF Threads
<1>10. t = "game" => at["game"] = "poll" /\ at'["game"] = "reload" /\ Making("poll")
  BY <1>3, <1>5 DEF IInv, InCall
<1> HIDE DEF h
<1>11. TypeOK'
  <2>1. RestOK'
    BY <1>1, <1>2, <1>5, <1>6, <1>8 DEF RestOK
  <2> QED BY <1>1, <1>2, <2>1, Frame, TypePartsNext
<1>12. PlaylistValid'
  BY <1>1, <1>6 DEF IInv, PlaylistValid
<1>13. PlayingIsListed'
  BY <1>1, <1>6, <1>9, <1>10 DEF IInv, PlayingIsListed
<1>14. PollerSafe'
  BY <1>1, <1>3, <1>4, <1>5, <1>6, <1>7 DEF PollerSafe, h
<1>15. NoLeak'
  <2>1. \A g \in Allocated : g \in Handles
    BY DEF Allocated
  <2>2. \A g, k \in Allocated : music'[g].s = music'[k].s /\ music'[g].s # NoStream => g = k
    BY <1>6, <2>1 DEF IInv, NoLeak
  <2>3. open = {music[g].s : g \in Allocated} \ {NoStream}
    BY DEF IInv, NoLeak
  <2>4. \A g \in Allocated : g # h => music[g].s # music[h].s
    BY <1>1, <1>3 DEF IInv, NoLeak
  <2>5. open' = {music'[g].s : g \in Allocated} \ {NoStream}
    BY <1>1, <1>3, <1>6, <2>1, <2>3, <2>4
  <2>6. Allocated' \subseteq {zcmusic', newzcmusic'}
    BY <1>1, <1>6 DEF IInv, NoLeak
  <2> QED BY <1>6, <2>2, <2>5, <2>6 DEF NoLeak
<1>16. UsesOpenStream'
  BY <1>1, <1>2, <1>8 DEF IInv, UsesOpenStream, RestOK
<1>17. InCall' /\ HasSong' /\ Unlisted'
  BY <1>1, <1>6, <1>9, <1>10 DEF IInv, InCall, HasSong, Unlisted, Making
<1>18. HoldsMutex'
  BY <1>1, <1>3, <1>5 DEF IInv, HoldsMutex
<1>19. Reloading'
  BY <1>1, <1>3, <1>4, <1>5, <1>6, <1>7 DEF Reloading, h
<1>20. StreamsOfModules'
  <2>1. ~ IsModule(h)
    BY <1>1 DEF IsFile, IsModule
  <2> QED BY <1>6, <2>1 DEF IInv, StreamsOfModules
<1>21. Silent'
  <2>1. SUFFICES ASSUME zcmusic # NoHandle, Making("unload")
                 PROVE  music'[zcmusic].s = NoStream /\ (at'["timer"] = "reload" => Song("timer") # zcmusic)
    BY <1>1, <1>7 DEF Silent, Making, Threads
  <2>2. music[zcmusic].s = NoStream
    BY <2>1 DEF IInv, Silent
  <2>3. zcmusic \in Handles /\ h # zcmusic
    BY <1>1, <1>2, <2>1, <2>2 DEF RestOK
  <2>4. t = "timer"
    BY <1>9, <1>10, <2>1 DEF Making
  <2> QED BY <1>6, <2>2, <2>3, <2>4 DEF h
<1>22. Seeking'
  <2>1. SUFFICES ASSUME at["game"] = "seek"
                 PROVE  /\ music'[zcmusic].kind = "OGGEX" /\ held # NoStream
                        /\ failed' \/ music'[zcmusic].s = held
    BY <1>1, <1>9, <1>10 DEF Seeking
  <2>2. /\ music[zcmusic].kind = "OGGEX" /\ held # NoStream
        /\ failed \/ music[zcmusic].s = held
        /\ zcmusic \in Handles
    BY <1>2, <2>1 DEF IInv, Seeking, HasSong, RestOK
  <2> QED BY <1>1, <1>6, <2>2
<1> QED
  BY <1>11, <1>12, <1>13, <1>14, <1>15, <1>16, <1>17, <1>18, <1>19, <1>20, <1>21, <1>22 DEF IInv

LEMMA PollReloadStep ==
  ASSUME IInv, NEW t \in Threads, PollReload(t)
  PROVE  IInv'
<1> DEFINE h == Song(t)
<1>1. /\ at[t] = "reload"
      /\ at' = [at EXCEPT ![t] = "poll"] /\ b' = [b EXCEPT ![t] = @ + 1]
      /\ UNCHANGED <<playlist, owner, libflags, zcmusic, newzcmusic, todo, held>>
  BY DEF PollReload
<1>2. TodoOK /\ RestOK
  BY TypeParts DEF IInv
<1>3. /\ owner = t /\ b[t] \in 1 .. Len(playlist)
      /\ h \in Handles /\ h \in Allocated /\ h \in ToSet(playlist)
  BY <1>1, SongFacts
<1>4. \A u \in Threads : u # t => at[u] \notin {"poll", "reload", "exit"}
  BY <1>1, OneAtATime
<1>5. /\ \A u \in Threads : at'[u] = IF u = t THEN "poll" ELSE at[u]
      /\ at' \in [Threads -> {"idle", "poll", "reload", "free", "push", "seek", "exit"}]
      /\ at'["timer"] \in {"idle", "poll", "reload"}
      /\ \A u \in Threads : b'[u] = IF u = t THEN b[u] + 1 ELSE b[u]
      /\ b' \in [Threads -> Nat \ {0}]
  BY <1>1, <1>2 DEF RestOK, Threads
<1>6. IsFile(h) /\ music[h].s = NoStream /\ music[h].playing = "PLAYING"
  BY <1>1 DEF IInv, Reloading
<1> HIDE DEF h
<1>7. PICK s \in Streams \cup {NoStream} :
        /\ \/ /\ s \in Streams \ open /\ open' = open \cup {s}
              /\ UNCHANGED <<failed, badUse>>
           \/ s = NoStream /\ failed' = TRUE /\ badUse' \in BOOLEAN /\ open' = open
        /\ music' \in [Handles -> ASong]
        /\ \A g \in Handles :
             /\ music'[g].kind = music[g].kind
             /\ music'[g].s = IF g = h THEN s ELSE music[g].s
             /\ music'[g].playing = music[g].playing
        /\ Allocated' = Allocated
        /\ \A g \in Handles : IsFile(g)' = IsFile(g) /\ IsModule(g)' = IsModule(g)
  <2>1. CASE \E s \in Streams \ open :
               /\ open' = open \cup {s}
               /\ music' = [music EXCEPT ![h].s = s, ![h].playing = "PLAYING"]
               /\ UNCHANGED <<failed, badUse>>
    <3>1. PICK s \in Streams \ open :
               /\ open' = open \cup {s}
               /\ music' = [music EXCEPT ![h].s = s, ![h].playing = "PLAYING"]
               /\ UNCHANGED <<failed, badUse>>
      BY <2>1
    <3>2. /\ music' \in [Handles -> ASong]
          /\ \A g \in Handles :
              /\ music'[g].kind = music[g].kind
              /\ music'[g].s = IF g = h THEN s ELSE music[g].s
              /\ music'[g].playing = IF g = h THEN "PLAYING" ELSE music[g].playing
          /\ Allocated' = Allocated
          /\ \A g \in Handles : IsFile(g)' = IsFile(g) /\ IsModule(g)' = IsModule(g)
      <4>1. /\ music' = [music EXCEPT ![h] = With(h, "PLAYING", s)]
            /\ s \in Streams \cup {NoStream} /\ RestOK
        BY <1>2, <1>3, <3>1, WritesBoth
      <4> QED BY <1>3, <4>1, WithStream
    <3> QED BY <1>6, <3>1, <3>2
  <2>2. CASE failed' = TRUE /\ badUse' = (badUse \/ music[h].kind # "OGGEX") /\ UNCHANGED <<open, music>>
    <3>1. badUse' \in BOOLEAN
      BY <1>2, <2>2 DEF RestOK
    <3>2. music \in [Handles -> ASong]
      BY <1>2 DEF RestOK
    <3>3. Allocated' = Allocated /\ \A g \in Handles : IsFile(g)' = IsFile(g) /\ IsModule(g)' = IsModule(g)
      BY <2>2 DEF Allocated, IsFile, IsModule
    <3> QED BY <1>6, <2>2, <3>1, <3>2, <3>3
  <2>3. PollReload(t)
    OBVIOUS
  <2> QED BY <2>1, <2>2, <2>3 DEF PollReload, h
<1>8. \A u \in Threads : u # t => Song(u)' = Song(u)
  BY <1>1, <1>5 DEF Song
<1>9. t = "game" \/ (t = "timer" /\ at'["game"] = at["game"])
  BY <1>5 DEF Threads
<1>10. t = "game" => at["game"] = "reload" /\ at'["game"] = "poll" /\ Making("poll")
  BY <1>1, <1>5 DEF IInv, InCall
<1>11. TypeOK'
  <2>1. failed' \in BOOLEAN /\ badUse' \in BOOLEAN /\ open' \subseteq Streams
    BY <1>2, <1>7 DEF RestOK
  <2>2. RestOK'
    BY <1>1, <1>2, <1>5, <1>7, <2>1 DEF RestOK
  <2> QED BY <1>1, <1>2, <2>2, Frame, TypePartsNext
<1>12. PlaylistValid'
  BY <1>1, <1>7 DEF IInv, PlaylistValid
<1>13. PlayingIsListed'
  BY <1>1, <1>7, <1>9, <1>10 DEF IInv, PlayingIsListed
<1>14. PollerSafe'
  <2>1. Len(playlist) \in Nat
    BY <1>2, LenProperties DEF RestOK
  <2> QED BY <1>1, <1>3, <1>4, <1>5, <2>1 DEF PollerSafe
<1>15. NoLeak'
  <2>1. \A g \in Allocated : g \in Handles
    BY DEF Allocated
  <2>2. /\ open = {music[g].s : g \in Allocated} \ {NoStream}
        /\ \A g, k \in Allocated : music[g].s = music[k].s /\ music[g].s # NoStream => g = k
    BY DEF IInv, NoLeak
  <2>3. \A g \in Allocated : s # NoStream => music[g].s # s
    BY <1>7, <2>2
  <2>4. \A g, k \in Allocated : music'[g].s = music'[k].s /\ music'[g].s # NoStream => g = k
    BY <1>7, <2>1, <2>2, <2>3
  <2>5. open' = {music'[g].s : g \in Allocated} \ {NoStream}
    <3>1. NoStream \notin Streams
      BY NullAssumption
    <3>2. \A x \in open' : \E g \in Allocated : x = music'[g].s /\ x # NoStream
      BY <1>3, <1>6, <1>7, <2>1, <2>2, <3>1
    <3>3. \A g \in Allocated : music'[g].s # NoStream => music'[g].s \in open'
      BY <1>3, <1>7, <2>1, <2>2, <3>1
    <3> QED BY <3>2, <3>3
  <2>6. Allocated' \subseteq {zcmusic', newzcmusic'}
    BY <1>1, <1>7 DEF IInv, NoLeak
  <2> QED BY <1>7, <2>4, <2>5, <2>6 DEF NoLeak
<1>16. UsesOpenStream'
  <2>1. badUse => failed
    BY DEF IInv, UsesOpenStream
  <2>2. (badUse' = badUse /\ failed' = failed) \/ failed' = TRUE
    BY <1>7
  <2> QED BY <2>1, <2>2 DEF UsesOpenStream
<1>17. InCall' /\ HasSong' /\ Unlisted'
  BY <1>1, <1>7, <1>9, <1>10 DEF IInv, InCall, HasSong, Unlisted, Making
<1>18. HoldsMutex'
  BY <1>1, <1>3, <1>5 DEF IInv, HoldsMutex
<1>19. \A u \in Threads : at'[u] # "reload"
  BY <1>4, <1>5
<1>20. Reloading'
  BY <1>19 DEF Reloading
<1>21. StreamsOfModules'
  <2>1. ~ IsModule(h)
    BY <1>6 DEF IsFile, IsModule
  <2> QED BY <1>7, <2>1 DEF IInv, StreamsOfModules
<1>22. Silent'
  <2>1. SUFFICES ASSUME zcmusic # NoHandle, Making("unload")
                 PROVE  music'[zcmusic].s = NoStream
    BY <1>1, <1>19 DEF Silent, Making, Threads
  <2>2. t = "timer"
    BY <1>9, <1>10, <2>1 DEF Making
  <2>3. music[zcmusic].s = NoStream /\ zcmusic # h /\ zcmusic \in Handles
    BY <1>1, <1>2, <2>1, <2>2 DEF IInv, Silent, RestOK, h
  <2> QED BY <1>7, <2>3
<1>23. Seeking'
  <2>1. SUFFICES ASSUME at["game"] = "seek"
                 PROVE  /\ music'[zcmusic].kind = "OGGEX" /\ held # NoStream
                        /\ failed' \/ music'[zcmusic].s = held
    BY <1>1, <1>9, <1>10 DEF Seeking
  <2>2. /\ music[zcmusic].kind = "OGGEX" /\ held # NoStream
        /\ failed \/ music[zcmusic].s = held
        /\ zcmusic \in Handles
    BY <1>2, <2>1 DEF IInv, Seeking, HasSong, RestOK
  <2>3. failed => failed'
    BY <1>7
  <2> QED BY <1>6, <1>7, <2>2, <2>3
<1> QED
  BY <1>11, <1>12, <1>13, <1>14, <1>15, <1>16, <1>17, <1>18, <1>20, <1>21, <1>22, <1>23 DEF IInv

-----------------------------------------------------------------------------
(* The calls of the game's thread keep it                                  *)

\* The song of a poll that waits for its reload is listed, and stays where it
\* is as long as playlist and iterators do.
LEMMA ReloadsListed ==
  ASSUME IInv, NEW t \in Threads, at[t] = "reload"
  PROVE  Song(t) \in ToSet(playlist) /\ Song(t) \in Handles
BY SongFacts

LEMMA StopStep ==
  ASSUME IInv, Stop
  PROVE  IInv'
<1>1. /\ at["game"] = "idle" /\ todo # <<>> /\ Head(todo) = "stop" /\ todo' = Tail(todo)
      /\ UNCHANGED <<playlist, owner, libflags, zcmusic, newzcmusic, at, b, held, failed, badUse>>
      /\ IF zcmusic = NoHandle THEN UNCHANGED <<music, open>>
         ELSE /\ owner = NoThread
              /\ music' = [music EXCEPT ![zcmusic] = Silenced(zcmusic)]
              /\ open' = open \ {music[zcmusic].s}
  BY DEF Stop, Calls, Returned
<1>2. TodoOK /\ RestOK
  BY TypeParts DEF IInv
<1>3. /\ TodoOK' /\ InOrder(todo)'
      /\ \A c : Making(c)' => c = "unload"
      /\ (\E i \in 1 .. Len(todo') : todo'[i] = "install")
           <=> (\E i \in 1 .. Len(todo) : todo[i] = "install")
  BY <1>1, Returns DEF After
<1>4. CASE zcmusic = NoHandle
  <2>1. UNCHANGED <<music, open>>
    BY <1>1, <1>4
  <2>2. RestOK'
    BY <1>1, <1>2, <2>1 DEF RestOK
  <2>3. /\ PlaylistValid' /\ PlayingIsListed' /\ PollerSafe' /\ NoLeak' /\ UsesOpenStream'
        /\ HoldsMutex' /\ Reloading' /\ StreamsOfModules' /\ Seeking'
    BY <1>1, <2>1, Frame DEF IInv
  <2>4. InCall' /\ HasSong' /\ Unlisted' /\ Silent'
    BY <1>1, <1>3, <1>4, <2>1 DEF IInv, InCall, HasSong, Unlisted, Silent, Allocated
  <2> QED BY <1>3, <2>2, <2>3, <2>4, TypePartsNext DEF IInv
<1>5. CASE zcmusic # NoHandle
  <2> DEFINE h == zcmusic
  <2>1. /\ h \in Handles /\ h \in Allocated /\ owner = NoThread
        /\ open' = open \ {music[h].s}
    BY <1>1, <1>2, <1>5 DEF RestOK, IInv, HasSong
  <2>2. \A t \in Threads : at[t] \notin {"poll", "reload", "exit"}
    BY <2>1, NobodyPolls
  <2>3. PICK p \in {music[h].playing, "STOPPED"} :
             /\ Silenced(h) = With(h, p, NoStream)
             /\ IsModule(h) => p = "STOPPED"
    <3>1. music[h] \in ASong
      BY <1>2, <2>1 DEF RestOK
    <3>2. [music[h] EXCEPT !.s = NoStream] = With(h, music[h].playing, NoStream)
      BY <3>1 DEF ASong, With
    <3>3. [music[h] EXCEPT !.s = NoStream, !.playing = "STOPPED"] = With(h, "STOPPED", NoStream)
      <4>1. [With(h, music[h].playing, NoStream) EXCEPT !.playing = "STOPPED"]
              = With(h, "STOPPED", NoStream)
        BY DEF With
      <4> DEFINE r == [music[h] EXCEPT !.s = NoStream]
      <4>2. r = With(h, music[h].playing, NoStream)
        BY <3>2
      <4>3. [music[h] EXCEPT !.s = NoStream, !.playing = "STOPPED"] = [r EXCEPT !.playing = "STOPPED"]
        OBVIOUS
      <4> HIDE DEF r
      <4> QED BY <4>1, <4>2, <4>3
    <3>4. music[h].s = NoStream => music[h] = With(h, music[h].playing, NoStream)
      BY <3>1 DEF ASong, With
    <3>5. IsModule(h) /\ music[h].s = NoStream => music[h].playing = "STOPPED"
      BY <2>1 DEF IInv, StreamsOfModules
    <3>6. CASE music[h].kind = "DUH"
      BY <3>3, <3>4, <3>5, <3>6 DEF Silenced, IsModule
    <3>7. CASE music[h].kind = "GME"
      BY <3>3, <3>7 DEF Silenced, IsModule
    <3>8. CASE music[h].kind \notin {"DUH", "GME"}
      BY <3>2, <3>8 DEF Silenced, IsModule
    <3> QED BY <3>6, <3>7, <3>8
  <2>4. /\ music' \in [Handles -> ASong]
        /\ \A g \in Handles :
             /\ music'[g].kind = music[g].kind
             /\ music'[g].s = IF g = h THEN NoStream ELSE music[g].s
             /\ music'[g].playing = IF g = h THEN p ELSE music[g].playing
        /\ Allocated' = Allocated
        /\ \A g \in Handles : IsFile(g)' = IsFile(g) /\ IsModule(g)' = IsModule(g)
    <3>1. music' = [music EXCEPT ![h] = With(h, p, NoStream)]
      BY <1>1, <1>5, <2>3
    <3>2. NoStream \in Streams \cup {NoStream} /\ RestOK /\ p \in {"STOPPED", "PLAYING", "PAUSED"}
      BY <1>2, <2>1, <2>3, SongFields
    <3> QED BY <2>1, <3>1, <3>2, WithStream
  <2> HIDE DEF h
  <2>5. TypeOK'
    <3>1. RestOK'
      BY <1>1, <1>2, <2>1, <2>4 DEF RestOK
    <3> QED BY <1>3, <3>1, TypePartsNext
  <2>6. PlaylistValid'
    BY <1>1, <2>4 DEF IInv, PlaylistValid
  <2>7. PlayingIsListed'
    BY <1>1, <2>3, <2>4 DEF IInv, PlayingIsListed
  <2>8. PollerSafe' /\ Reloading'
    BY <1>1, <2>2 DEF PollerSafe, Reloading
  <2>9. NoLeak'
    <3>1. \A g \in Allocated : g \in Handles
      BY DEF Allocated
    <3>2. \A g, k \in Allocated : music'[g].s = music'[k].s /\ music'[g].s # NoStream => g = k
      BY <2>4, <3>1 DEF IInv, NoLeak
    <3>3. open = {music[g].s : g \in Allocated} \ {NoStream}
      BY DEF IInv, NoLeak
    <3>4. \A g \in Allocated : g # h /\ music[g].s # NoStream => music[g].s # music[h].s
      BY <2>1 DEF IInv, NoLeak
    <3>5. open' = {music'[g].s : g \in Allocated} \ {NoStream}
      BY <2>1, <2>4, <3>1, <3>3, <3>4
    <3>6. Allocated' \subseteq {zcmusic', newzcmusic'}
      BY <1>1, <2>4 DEF IInv, NoLeak
    <3> QED BY <2>4, <3>2, <3>5, <3>6 DEF NoLeak
  <2>10. UsesOpenStream' /\ HoldsMutex'
    BY <1>1, Frame DEF IInv
  <2>11. InCall' /\ HasSong' /\ Unlisted'
    BY <1>1, <1>3, <2>4 DEF IInv, InCall, HasSong, Unlisted
  <2>12. StreamsOfModules'
    BY <2>3, <2>4 DEF IInv, StreamsOfModules
  <2>13. Silent'
    BY <1>1, <2>1, <2>2, <2>4 DEF Silent, Threads, h
  <2>14. Seeking'
    BY <1>1 DEF Seeking
  <2> QED BY <2>5, <2>6, <2>7, <2>8, <2>9, <2>10, <2>11, <2>12, <2>13, <2>14 DEF IInv
<1> QED BY <1>4, <1>5

LEMMA UnloadEraseStep ==
  ASSUME IInv, UnloadErase
  PROVE  IInv'
<1>1. /\ at["game"] = "idle" /\ todo # <<>> /\ Head(todo) = "unload"
      /\ UNCHANGED <<music, open, owner, libflags, zcmusic, newzcmusic, b, held, failed, badUse>>
      /\ IF zcmusic = NoHandle THEN todo' = Tail(todo) /\ UNCHANGED <<playlist, at>>
         ELSE /\ owner = NoThread
              /\ playlist' = Erased(playlist, zcmusic)
              /\ at' = [at EXCEPT !["game"] = "free"]
              /\ UNCHANGED todo
  BY DEF UnloadErase, Calls, Returned
<1>2. TodoOK /\ RestOK
  BY TypeParts DEF IInv
<1>4. CASE zcmusic = NoHandle
  <2>1. todo' = Tail(todo) /\ UNCHANGED <<playlist, at>>
    BY <1>1, <1>4
  <2>2. /\ TodoOK' /\ InOrder(todo)'
        /\ \A c : Making(c)' => c \in {"install", "load", "exit"}
        /\ (\E i \in 1 .. Len(todo') : todo'[i] = "install")
             <=> (\E i \in 1 .. Len(todo) : todo[i] = "install")
    BY <1>1, <2>1, Returns DEF After
  <2>3. RestOK'
    BY <1>1, <1>2, <2>1 DEF RestOK
  <2>4. /\ PlaylistValid' /\ PlayingIsListed' /\ PollerSafe' /\ NoLeak' /\ UsesOpenStream'
        /\ HoldsMutex' /\ Reloading' /\ StreamsOfModules' /\ Seeking'
    BY <1>1, <2>1, Frame DEF IInv
  <2>5. InCall' /\ HasSong' /\ Unlisted' /\ Silent'
    BY <1>1, <1>4, <2>1, <2>2 DEF IInv, InCall, HasSong, Unlisted, Silent, Allocated
  <2> QED BY <2>2, <2>3, <2>4, <2>5, TypePartsNext DEF IInv
<1>5. CASE zcmusic # NoHandle
  <2>1. /\ owner = NoThread /\ playlist' = Erased(playlist, zcmusic)
        /\ at' = [at EXCEPT !["game"] = "free"] /\ UNCHANGED todo
    BY <1>1, <1>5
  <2>2. \A t \in Threads : at[t] \notin {"poll", "reload", "exit"}
    BY <2>1, NobodyPolls
  <2>3. /\ \A t \in Threads : at'[t] = IF t = "game" THEN "free" ELSE at[t]
        /\ at'["game"] = "free" /\ at'["timer"] = at["timer"]
        /\ at' \in [Threads -> {"idle", "poll", "reload", "free", "push", "seek", "exit"}]
    BY <1>2, <2>1 DEF RestOK, Threads
  <2>4. \A t \in Threads : at'[t] \notin {"poll", "reload", "exit"}
    BY <2>2, <2>3
  <2>5. /\ playlist' \in Seq(Handles) /\ ToSet(playlist') = ToSet(playlist) \ {zcmusic}
        /\ IsInjective(playlist')
    BY <1>2, <2>1, ErasesAll DEF RestOK, IInv, PlaylistValid
  <2>6. TypeOK'
    <3>1. RestOK'
      BY <1>1, <1>2, <2>3, <2>5 DEF RestOK
    <3> QED BY <1>2, <2>1, <3>1, Frame, TypePartsNext
  <2>7. NoLeak' /\ UsesOpenStream' /\ StreamsOfModules'
    BY <1>1, Frame DEF IInv
  <2>8. PlaylistValid'
    BY <1>1, <2>5 DEF IInv, PlaylistValid, Allocated
  <2>9. PlayingIsListed'
    BY <1>1, <2>3, <2>5 DEF IInv, PlayingIsListed
  <2>10. PollerSafe' /\ Reloading'
    BY <2>4 DEF PollerSafe, Reloading
  <2>11. HoldsMutex'
    BY <1>1, <2>1, <2>4 DEF HoldsMutex, Threads, NoThread
  <2>12. InCall' /\ HasSong'
    BY <1>1, <1>5, <2>1, <2>3 DEF IInv, InCall, HasSong, Making, Allocated
  <2>13. Unlisted'
    BY <1>1, <2>1, <2>5 DEF IInv, Unlisted, Making
  <2>14. Silent'
    BY <1>1, <2>1, <2>4 DEF IInv, Silent, Making, Threads
  <2>15. Seeking'
    BY <2>3 DEF Seeking
  <2> QED
    BY <2>6, <2>7, <2>8, <2>9, <2>10, <2>11, <2>12, <2>13, <2>14, <2>15 DEF IInv
<1> QED BY <1>4, <1>5

LEMMA UnloadFreeStep ==
  ASSUME IInv, UnloadFree
  PROVE  IInv'
<1> DEFINE h == zcmusic
<1>1. /\ at["game"] = "free"
      /\ music' = [music EXCEPT ![h] = Free] /\ open' = open \ {music[h].s}
      /\ zcmusic' = NoHandle /\ at' = [at EXCEPT !["game"] = "idle"]
      /\ todo' = Tail(todo)
      /\ UNCHANGED <<playlist, owner, libflags, newzcmusic, b, held, failed, badUse>>
  BY DEF UnloadFree, Returned
<1>2. TodoOK /\ RestOK
  BY TypeParts DEF IInv
<1>3. /\ Making("unload") /\ h # NoHandle /\ h \in Handles /\ h \in Allocated
      /\ h \notin ToSet(playlist) /\ music[h].s = NoStream
  BY <1>1, <1>2 DEF IInv, InCall, HasSong, Unlisted, Silent, RestOK
<1>4. /\ TodoOK' /\ InOrder(todo)'
      /\ \A c : Making(c)' => c \in {"install", "load", "exit"}
      /\ (\E i \in 1 .. Len(todo') : todo'[i] = "install")
           <=> (\E i \in 1 .. Len(todo) : todo[i] = "install")
  BY <1>1, <1>3, Returns DEF After, Making
<1>5. /\ \A t \in Threads : at'[t] = IF t = "game" THEN "idle" ELSE at[t]
      /\ at'["game"] = "idle" /\ at'["timer"] = at["timer"]
      /\ at' \in [Threads -> {"idle", "poll", "reload", "free", "push", "seek", "exit"}]
  BY <1>1, <1>2 DEF RestOK, Threads
<1>6. Free \in ASong /\ Free.kind = "none" /\ Free.playing = "STOPPED"
  BY DEF Free, ASong
<1> HIDE DEF h
<1>7. /\ music' \in [Handles -> ASong]
      /\ \A g \in Handles : music'[g] = IF g = h THEN Free ELSE music[g]
  BY <1>1, <1>2, <1>3, <1>6 DEF RestOK
<1>8. Allocated' = Allocated \ {h} /\ Allocated \subseteq Handles
  BY <1>3, <1>6, <1>7 DEF Allocated
<1>9. \A t \in Threads : at[t] = "reload" => Song(t)' = Song(t) /\ Song(t) # h /\ Song(t) \in Handles
  BY <1>1, <1>3, ReloadsListed DEF Song
<1>10. open' = open
  BY <1>1, <1>2, <1>3, NullAssumption DEF RestOK, h
<1>11. TypeOK'
  <2>1. RestOK'
    BY <1>1, <1>2, <1>5, <1>7, <1>10 DEF RestOK
  <2> QED BY <1>4, <2>1, TypePartsNext
<1>12. PlaylistValid'
  BY <1>1, <1>3, <1>8 DEF IInv, PlaylistValid
<1>13. PlayingIsListed'
  BY <1>1, <1>6, <1>7 DEF IInv, PlayingIsListed, h
<1>14. PollerSafe'
  BY <1>1, <1>5, <1>8, <1>9 DEF IInv, PollerSafe
<1>15. NoLeak'
  <2>1. /\ open = {music[g].s : g \in Allocated} \ {NoStream}
        /\ \A g, k \in Allocated : music[g].s = music[k].s /\ music[g].s # NoStream => g = k
        /\ Allocated \subseteq {h, newzcmusic}
    BY DEF IInv, NoLeak, h
  <2>2. \A g \in Allocated' : music'[g] = music[g] /\ g \in Allocated
    BY <1>7, <1>8
  <2>3. \A g, k \in Allocated' : music'[g].s = music'[k].s /\ music'[g].s # NoStream => g = k
    BY <2>1, <2>2
  <2>4. open' = {music'[g].s : g \in Allocated'} \ {NoStream}
    BY <1>3, <1>8, <1>10, <2>1, <2>2
  <2>5. Allocated' \subseteq {zcmusic', newzcmusic'}
    BY <1>1, <1>8, <2>1
  <2> QED BY <2>3, <2>4, <2>5 DEF NoLeak
<1>16. UsesOpenStream'
  BY <1>1, Frame DEF IInv
<1>17. InCall'
  BY <1>4, <1>5 DEF InCall
<1>18. HasSong'
  <2>1. newzcmusic # NoHandle => newzcmusic # h /\ newzcmusic \in Allocated
    BY <1>3 DEF IInv, HasSong, h
  <2> QED BY <1>1, <1>4, <1>5, <1>8, <2>1 DEF IInv, HasSong
<1>19. Unlisted'
  BY <1>1, <1>4, <1>5 DEF IInv, Unlisted
<1>20. HoldsMutex'
  BY <1>1, <1>5 DEF IInv, HoldsMutex
<1>21. Reloading'
  <2>1. SUFFICES ASSUME NEW t \in Threads, at'[t] = "reload"
                 PROVE  (IsFile(Song(t)) /\ music[Song(t)].s = NoStream /\ music[Song(t)].playing = "PLAYING")'
    BY DEF Reloading
  <2>2. at[t] = "reload"
    BY <1>5, <2>1
  <2>3. Song(t)' = Song(t) /\ music'[Song(t)] = music[Song(t)]
    BY <1>7, <1>9, <2>2
  <2> QED BY <2>2, <2>3 DEF IInv, Reloading, IsFile
<1>22. StreamsOfModules'
  BY <1>6, <1>7 DEF IInv, StreamsOfModules, IsModule
<1>23. Silent' /\ Seeking'
  BY <1>1, <1>5 DEF Silent, Seeking
<1> QED
  BY <1>11, <1>12, <1>13, <1>14, <1>15, <1>16, <1>17, <1>18, <1>19, <1>20, <1>21, <1>22, <1>23 DEF IInv

\* A step that changes nothing but the list of calls.
LEMMA OnlyTodo ==
  ASSUME IInv, at["game"] = "idle",
         UNCHANGED <<music, open, playlist, owner, libflags, zcmusic, newzcmusic, at, b,
                     held, failed, badUse>>,
         TodoOK', InOrder(todo)',
         newzcmusic # NoHandle <=> \E i \in 1 .. Len(todo') : todo'[i] = "install",
         \A c : Making(c)' => c \notin {"unload", "play", "install", "load", "exit"},
         Making("change_track")' => zcmusic # NoHandle
  PROVE  IInv'
<1>1. RestOK'
  BY TypeParts DEF IInv, RestOK
<1>2. /\ PlaylistValid' /\ PlayingIsListed' /\ PollerSafe' /\ NoLeak' /\ UsesOpenStream'
      /\ HoldsMutex' /\ Reloading' /\ StreamsOfModules' /\ Seeking'
  BY Frame DEF IInv
<1>3. InCall' /\ HasSong' /\ Unlisted' /\ Silent'
  BY DEF IInv, InCall, HasSong, Unlisted, Silent, Allocated
<1> QED BY <1>1, <1>2, <1>3, TypePartsNext DEF IInv

LEMMA PlayStartStep ==
  ASSUME IInv, PlayStart
  PROVE  IInv'
<1> DEFINE h == zcmusic
<1>1. /\ at["game"] = "idle" /\ todo # <<>> /\ Head(todo) = "play" /\ h # NoHandle
      /\ UNCHANGED <<playlist, owner, libflags, zcmusic, newzcmusic, b, held, failed, badUse>>
  BY DEF PlayStart, Calls
<1>2. TodoOK /\ RestOK
  BY TypeParts DEF IInv
<1>3. CASE todo' = Tail(todo) /\ UNCHANGED <<music, open, at>>
  <2>1. /\ TodoOK' /\ InOrder(todo)' /\ \A c : Making(c)' => c = "change_track"
        /\ (\E i \in 1 .. Len(todo') : todo'[i] = "install")
             <=> (\E i \in 1 .. Len(todo) : todo[i] = "install")
    BY <1>1, <1>3, Returns DEF After
  <2> QED BY <1>1, <1>3, <2>1, OnlyTodo DEF IInv, HasSong
<1>4. CASE /\ music[h].playing = "STOPPED" /\ ~ (IsFile(h) /\ music[h].s = NoStream)
           /\ \E s \in Streams :
                /\ IF IsFile(h) THEN s = music[h].s ELSE s \notin open
                /\ open' = open \cup {s}
                /\ music' = [music EXCEPT ![h].s = s, ![h].playing = "PLAYING"]
           /\ at' = [at EXCEPT !["game"] = "push"]
           /\ UNCHANGED todo
  <2>1. PICK s \in Streams :
          /\ IF IsFile(h) THEN s = music[h].s ELSE s \notin open
          /\ open' = open \cup {s}
          /\ music' = [music EXCEPT ![h].s = s, ![h].playing = "PLAYING"]
    BY <1>4
  <2>2. /\ h \in Handles /\ h \in Allocated /\ h \notin ToSet(playlist) /\ Making("play")
    BY <1>1, <1>2 DEF IInv, HasSong, Unlisted, RestOK, Making
  <2>3. ~ IsFile(h) => IsModule(h) /\ music[h].s = NoStream
    <3>1. music[h].kind \in {"DUH", "OGG", "MP3", "GME", "OGGEX"}
      BY <1>2, <2>2, SongFields, KindsAssumption DEF Allocated, AllKinds
    <3> QED BY <1>4, <2>2, <3>1 DEF IInv, StreamsOfModules, IsFile, IsModule
  <2>4. /\ \A t \in Threads : at'[t] = IF t = "game" THEN "push" ELSE at[t]
        /\ at'["game"] = "push" /\ at'["timer"] = at["timer"]
        /\ at' \in [Threads -> {"idle", "poll", "reload", "free", "push", "seek", "exit"}]
    BY <1>2, <1>4 DEF RestOK, Threads
  <2> HIDE DEF h
  <2>5. /\ music' \in [Handles -> ASong]
        /\ \A g \in Handles :
             /\ music'[g].kind = music[g].kind
             /\ music'[g].s = IF g = h THEN s ELSE music[g].s
             /\ music'[g].playing = IF g = h THEN "PLAYING" ELSE music[g].playing
        /\ Allocated' = Allocated
        /\ \A g \in Handles : IsFile(g)' = IsFile(g) /\ IsModule(g)' = IsModule(g)
    <3>1. /\ music' = [music EXCEPT ![h] = With(h, "PLAYING", s)]
          /\ s \in Streams \cup {NoStream} /\ RestOK
      BY <1>2, <2>1, <2>2, WritesBoth
    <3> QED BY <2>2, <3>1, WithStream
  <2>6. s # NoStream
    BY NullAssumption
  <2>7. \A t \in Threads : at[t] = "reload" => Song(t)' = Song(t) /\ Song(t) # h /\ Song(t) \in Handles
    BY <1>1, <2>2, ReloadsListed DEF Song
  <2>8. TypeOK'
    <3>1. RestOK'
      BY <1>1, <1>2, <2>1, <2>4, <2>5 DEF RestOK
    <3> QED BY <1>2, <1>4, <3>1, Frame, TypePartsNext
  <2>9. PlaylistValid'
    BY <1>1, <2>5 DEF IInv, PlaylistValid
  <2>10. PlayingIsListed'
    BY <1>1, <2>4, <2>5 DEF IInv, PlayingIsListed, h
  <2>11. PollerSafe'
    BY <1>1, <2>4, <2>5, <2>7 DEF IInv, PollerSafe
  <2>12. NoLeak'
    <3>1. /\ open = {music[g].s : g \in Allocated} \ {NoStream}
          /\ \A g, k \in Allocated : music[g].s = music[k].s /\ music[g].s # NoStream => g = k
          /\ \A g \in Allocated : g \in Handles
      BY DEF IInv, NoLeak, Allocated
    <3>2. \A g \in Allocated : g # h => music[g].s # s
      BY <2>1, <2>2, <2>6, <3>1
    <3>3. \A g, k \in Allocated : music'[g].s = music'[k].s /\ music'[g].s # NoStream => g = k
      BY <2>5, <3>1, <3>2
    <3>4. music[h].s = s \/ music[h].s = NoStream
      BY <2>1, <2>3
    <3>5. \A x \in open' : \E g \in Allocated : x = music'[g].s /\ x # NoStream
      BY <2>1, <2>2, <2>5, <2>6, <3>1, <3>4
    <3>6. \A g \in Allocated : music'[g].s # NoStream => music'[g].s \in open'
      BY <2>1, <2>5, <3>1
    <3>7. open' = {music'[g].s : g \in Allocated} \ {NoStream}
      BY <3>5, <3>6
    <3>8. Allocated' \subseteq {zcmusic', newzcmusic'}
      BY <1>1, <2>5 DEF IInv, NoLeak
    <3> QED BY <2>5, <3>3, <3>7, <3>8 DEF NoLeak
  <2>13. UsesOpenStream'
    BY <1>1, Frame DEF IInv
  <2>14. InCall' /\ HasSong' /\ Unlisted'
    BY <1>1, <1>4, <2>2, <2>4, <2>5 DEF IInv, InCall, HasSong, Unlisted, Making
  <2>15. HoldsMutex'
    BY <1>1, <2>4 DEF IInv, HoldsMutex
  <2>16. Reloading'
    <3>1. SUFFICES ASSUME NEW t \in Threads, at'[t] = "reload"
                   PROVE  (IsFile(Song(t)) /\ music[Song(t)].s = NoStream /\ music[Song(t)].playing = "PLAYING")'
      BY DEF Reloading
    <3>2. at[t] = "reload"
      BY <2>4, <3>1
    <3>3. /\ Song(t)' = Song(t) /\ music'[Song(t)].s = music[Song(t)].s
          /\ music'[Song(t)].kind = music[Song(t)].kind
          /\ music'[Song(t)].playing = music[Song(t)].playing
      BY <2>5, <2>7, <3>2
    <3> QED BY <3>2, <3>3 DEF IInv, Reloading, IsFile
  <2>17. StreamsOfModules'
    BY <2>5, <2>6 DEF IInv, StreamsOfModules
  <2>18. Silent' /\ Seeking'
    BY <1>1, <1>4, <2>2, <2>4 DEF Silent, Seeking, Making
  <2> QED
    BY <2>8, <2>9, <2>10, <2>11, <2>12, <2>13, <2>14, <2>15, <2>16, <2>17, <2>18 DEF IInv
<1> QED BY <1>3, <1>4 DEF PlayStart, Returned

LEMMA PlayPushStep ==
  ASSUME IInv, PlayPush
  PROVE  IInv'
<1>1. /\ at["game"] = "push" /\ owner = NoThread /\ playlist' = Append(playlist, zcmusic)
      /\ at' = [at EXCEPT !["game"] = "idle"] /\ todo' = Tail(todo)
      /\ UNCHANGED <<music, open, owner, libflags, zcmusic, newzcmusic, b, held, failed, badUse>>
  BY DEF PlayPush, Returned
<1>2. TodoOK /\ RestOK
  BY TypeParts DEF IInv
<1>3. /\ Making("play") /\ zcmusic # NoHandle /\ zcmusic \in Handles /\ zcmusic \in Allocated
      /\ zcmusic \notin ToSet(playlist)
  BY <1>1, <1>2 DEF IInv, InCall, HasSong, Unlisted, RestOK
<1>4. /\ TodoOK' /\ InOrder(todo)' /\ \A c : Making(c)' => c = "change_track"
      /\ (\E i \in 1 .. Len(todo') : todo'[i] = "install")
           <=> (\E i \in 1 .. Len(todo) : todo[i] = "install")
  BY <1>1, <1>3, Returns DEF After, Making
<1>5. /\ \A t \in Threads : at'[t] = IF t = "game" THEN "idle" ELSE at[t]
      /\ at'["game"] = "idle" /\ at'["timer"] = at["timer"]
      /\ at' \in [Threads -> {"idle", "poll", "reload", "free", "push", "seek", "exit"}]
  BY <1>1, <1>2 DEF RestOK, Threads
<1>6. \A t \in Threads : at'[t] \notin {"poll", "reload", "exit"}
  BY <1>1, <1>5, NobodyPolls
<1>7. /\ playlist' \in Seq(Handles) /\ ToSet(playlist') = ToSet(playlist) \cup {zcmusic}
      /\ IsInjective(playlist')
  BY <1>1, <1>2, <1>3, AddsOne DEF RestOK, IInv, PlaylistValid
<1>8. TypeOK'
  <2>1. RestOK'
    BY <1>1, <1>2, <1>5, <1>7 DEF RestOK
  <2> QED BY <1>4, <2>1, TypePartsNext
<1>9. NoLeak' /\ UsesOpenStream' /\ StreamsOfModules'
  BY <1>1, Frame DEF IInv
<1>10. PlaylistValid'
  BY <1>1, <1>3, <1>7 DEF IInv, PlaylistValid, Allocated
<1>11. PlayingIsListed'
  BY <1>1, <1>5, <1>7 DEF IInv, PlayingIsListed
<1>12. PollerSafe' /\ Reloading'
  BY <1>6 DEF PollerSafe, Reloading
<1>13. HoldsMutex'
  BY <1>1, <1>6 DEF HoldsMutex, Threads, NoThread
<1>14. InCall' /\ HasSong'
  BY <1>1, <1>3, <1>4, <1>5 DEF IInv, InCall, HasSong, Allocated
<1>15. Unlisted'
  <2>1. newzcmusic # zcmusic
    BY <1>3 DEF IInv, HasSong
  <2> QED BY <1>1, <1>4, <1>5, <1>7, <2>1 DEF IInv, Unlisted
<1>16. Silent' /\ Seeking'
  BY <1>4, <1>5 DEF Silent, Seeking
<1> QED
  BY <1>8, <1>9, <1>10, <1>11, <1>12, <1>13, <1>14, <1>15, <1>16 DEF IInv

LEMMA PauseStep ==
  ASSUME IInv, Pause
  PROVE  IInv'
<1>1. PICK call \in {"pause", "resume"} :
        /\ at["game"] = "idle" /\ todo # <<>> /\ Head(todo) = call /\ todo' = Tail(todo)
        /\ UNCHANGED <<open, playlist, owner, libflags, zcmusic, newzcmusic, at, b, held, failed, badUse>>
        /\ IF zcmusic = NoHandle THEN UNCHANGED music
           ELSE /\ owner = NoThread
                /\ music' = [music EXCEPT ![zcmusic].playing =
                               IF @ = "STOPPED" THEN @
                               ELSE IF call = "pause" THEN "PAUSED" ELSE "PLAYING"]
  BY DEF Pause, Calls, Returned
<1>2. TodoOK /\ RestOK
  BY TypeParts DEF IInv
<1>3. /\ TodoOK' /\ InOrder(todo)' /\ \A c : ~ Making(c)'
      /\ (\E i \in 1 .. Len(todo') : todo'[i] = "install")
           <=> (\E i \in 1 .. Len(todo) : todo[i] = "install")
  BY <1>1, Returns DEF After
<1>4. CASE zcmusic = NoHandle
  BY <1>1, <1>3, <1>4, OnlyTodo DEF IInv, HasSong
<1>5. CASE zcmusic # NoHandle
  <2> DEFINE h == zcmusic
             p == IF music[h].playing = "STOPPED" THEN music[h].playing
                  ELSE IF call = "pause" THEN "PAUSED" ELSE "PLAYING"
  <2>1. h \in Handles /\ owner = NoThread /\ music' = [music EXCEPT ![h].playing = p]
    BY <1>1, <1>2, <1>5 DEF RestOK
  <2>2. (p = "STOPPED" <=> music[h].playing = "STOPPED") /\ p \in {"STOPPED", "PLAYING", "PAUSED"}
    OBVIOUS
  <2> DEFINE s == music[h].s
  <2>3. music' = [music EXCEPT ![h] = With(h, p, s)] /\ s \in Streams \cup {NoStream}
    <3> HIDE DEF p
    <3> QED BY <1>2, <2>1, WritesPlaying, SongFields
  <2> HIDE DEF h, p, s
  <2>4. /\ music' \in [Handles -> ASong]
        /\ \A g \in Handles :
             /\ music'[g].kind = music[g].kind
             /\ music'[g].s = music[g].s
             /\ music'[g].playing = IF g = h THEN p ELSE music[g].playing
        /\ Allocated' = Allocated
        /\ \A g \in Handles : IsFile(g)' = IsFile(g) /\ IsModule(g)' = IsModule(g)
    <3>1. RestOK /\ h \in Handles /\ s \in Streams \cup {NoStream} /\ p \in {"STOPPED", "PLAYING", "PAUSED"}
      BY <1>2, <2>1, <2>2, <2>3
    <3>2. /\ music' \in [Handles -> ASong]
          /\ \A g \in Handles :
               /\ music'[g].kind = music[g].kind
               /\ music'[g].s = IF g = h THEN s ELSE music[g].s
               /\ music'[g].playing = IF g = h THEN p ELSE music[g].playing
          /\ Allocated' = Allocated
          /\ \A g \in Handles : IsFile(g)' = IsFile(g) /\ IsModule(g)' = IsModule(g)
      BY <2>3, <3>1, WithStream
    <3> QED BY <3>2 DEF s
  <2>5. \A g \in Handles : /\ music'[g].s = music[g].s
                           /\ music'[g].playing = "STOPPED" <=> music[g].playing = "STOPPED"
    BY <2>2, <2>4
  <2>6. \A t \in Threads : at'[t] \notin {"poll", "reload", "exit"}
    BY <1>1, <2>1, NobodyPolls
  <2>7. TypeOK'
    <3>1. RestOK'
      BY <1>1, <1>2, <2>4 DEF RestOK
    <3> QED BY <1>3, <3>1, TypePartsNext
  <2>8. PlaylistValid'
    BY <1>1, <2>4 DEF IInv, PlaylistValid
  <2>9. PlayingIsListed'
    BY <1>1, <2>5 DEF IInv, PlayingIsListed
  <2>10. PollerSafe' /\ Reloading'
    BY <2>6 DEF PollerSafe, Reloading
  <2>11. NoLeak'
    <3>1. \A g \in Allocated : g \in Handles
      BY DEF Allocated
    <3>2. {music'[g].s : g \in Allocated} = {music[g].s : g \in Allocated}
      BY <2>5, <3>1
    <3> QED BY <1>1, <2>4, <2>5, <3>1, <3>2 DEF IInv, NoLeak
  <2>12. UsesOpenStream' /\ HoldsMutex'
    BY <1>1, Frame DEF IInv
  <2>13. InCall' /\ HasSong' /\ Unlisted'
    BY <1>1, <1>3, <2>4 DEF IInv, InCall, HasSong, Unlisted
  <2>14. StreamsOfModules'
    BY <2>4, <2>5 DEF IInv, StreamsOfModules
  <2>15. Silent' /\ Seeking'
    BY <1>1, <1>3 DEF Silent, Seeking
  <2> QED BY <2>7, <2>8, <2>9, <2>10, <2>11, <2>12, <2>13, <2>14, <2>15 DEF IInv
<1> QED BY <1>4, <1>5

LEMMA ChangeTrackStep ==
  ASSUME IInv, ChangeTrack
  PROVE  IInv'
<1>1. /\ at["game"] = "idle" /\ todo # <<>> /\ Head(todo) = "change_track" /\ todo' = Tail(todo)
      /\ UNCHANGED <<music, open, playlist, owner, libflags, zcmusic, newzcmusic, at, b, held, failed, badUse>>
  BY DEF ChangeTrack, Calls, Returned
<1>2. /\ TodoOK' /\ InOrder(todo)' /\ \A c : ~ Making(c)'
      /\ (\E i \in 1 .. Len(todo') : todo'[i] = "install")
           <=> (\E i \in 1 .. Len(todo) : todo[i] = "install")
  BY <1>1, Returns DEF After
<1> QED BY <1>1, <1>2, OnlyTodo DEF IInv, HasSong

LEMMA SeekStep ==
  ASSUME IInv, Seek
  PROVE  IInv'
<1>1. /\ at["game"] = "idle" /\ todo # <<>> /\ Head(todo) = "seek"
      /\ UNCHANGED <<music, open, playlist, owner, libflags, zcmusic, newzcmusic, b, failed, badUse>>
  BY DEF Seek, Calls
<1>2. TodoOK /\ RestOK
  BY TypeParts DEF IInv
<1>3. CASE todo' = Tail(todo) /\ UNCHANGED <<at, held>>
  <2>1. /\ TodoOK' /\ InOrder(todo)' /\ \A c : ~ Making(c)'
        /\ (\E i \in 1 .. Len(todo') : todo'[i] = "install")
             <=> (\E i \in 1 .. Len(todo) : todo[i] = "install")
    BY <1>1, <1>3, Returns DEF After
  <2> QED BY <1>1, <1>3, <2>1, OnlyTodo DEF IInv, HasSong
<1>4. CASE /\ zcmusic # NoHandle /\ music[zcmusic].kind = "OGGEX" /\ music[zcmusic].s # NoStream
           /\ held' = music[zcmusic].s
           /\ at' = [at EXCEPT !["game"] = "seek"]
           /\ UNCHANGED todo
  <2>1. /\ \A t \in Threads : at'[t] = IF t = "game" THEN "seek" ELSE at[t]
        /\ at'["game"] = "seek" /\ at'["timer"] = at["timer"]
        /\ at' \in [Threads -> {"idle", "poll", "reload", "free", "push", "seek", "exit"}]
    BY <1>2, <1>4 DEF RestOK, Threads
  <2>2. held' \in Streams \cup {NoStream}
    BY <1>2, <1>4, SongFields DEF RestOK
  <2>3. TypeOK'
    <3>1. RestOK'
      BY <1>1, <1>2, <2>1, <2>2 DEF RestOK
    <3> QED BY <1>2, <1>4, <3>1, Frame, TypePartsNext
  <2>4. PlaylistValid' /\ NoLeak' /\ UsesOpenStream' /\ StreamsOfModules'
    BY <1>1, Frame DEF IInv
  <2>5. PlayingIsListed' /\ PollerSafe'
    BY <1>1, <2>1 DEF IInv, PlayingIsListed, PollerSafe, Song, Allocated
  <2>6. InCall' /\ HasSong' /\ Unlisted' /\ HoldsMutex'
    BY <1>1, <1>4, <2>1 DEF IInv, InCall, HasSong, Unlisted, HoldsMutex, Making, Allocated
  <2>7. Reloading'
    BY <1>1, <2>1 DEF IInv, Reloading, Song, IsFile
  <2>8. Silent' /\ Seeking'
    BY <1>1, <1>4, <2>1 DEF Silent, Seeking, Making
  <2> QED BY <2>3, <2>4, <2>5, <2>6, <2>7, <2>8 DEF IInv
<1> QED BY <1>3, <1>4 DEF Seek, Returned

LEMMA SeekUseStep ==
  ASSUME IInv, SeekUse
  PROVE  IInv'
<1>1. /\ at["game"] = "seek" /\ badUse' = (badUse \/ held \notin open) /\ held' = NoStream
      /\ at' = [at EXCEPT !["game"] = "idle"] /\ todo' = Tail(todo)
      /\ UNCHANGED <<music, open, playlist, owner, libflags, zcmusic, newzcmusic, b, failed>>
  BY DEF SeekUse, Returned
<1>2. TodoOK /\ RestOK
  BY TypeParts DEF IInv
<1>3. Making("seek")
  BY <1>1 DEF IInv, InCall
<1>4. /\ TodoOK' /\ InOrder(todo)' /\ \A c : ~ Making(c)'
      /\ (\E i \in 1 .. Len(todo') : todo'[i] = "install")
           <=> (\E i \in 1 .. Len(todo) : todo[i] = "install")
  BY <1>1, <1>3, Returns DEF After, Making
<1>5. /\ \A t \in Threads : at'[t] = IF t = "game" THEN "idle" ELSE at[t]
      /\ at'["game"] = "idle" /\ at'["timer"] = at["timer"]
      /\ at' \in [Threads -> {"idle", "poll", "reload", "free", "push", "seek", "exit"}]
  BY <1>1, <1>2 DEF RestOK, Threads
<1>6. badUse' \in BOOLEAN
  BY <1>1, <1>2 DEF RestOK
<1>7. UsesOpenStream'
  <2>1. failed \/ held \in open
    <3>1. /\ zcmusic # NoHandle /\ zcmusic \in Allocated /\ held # NoStream
          /\ failed \/ music[zcmusic].s = held
      BY <1>1 DEF IInv, Seeking, HasSong
    <3> QED BY <3>1 DEF IInv, NoLeak
  <2>2. badUse => failed
    BY DEF IInv, UsesOpenStream
  <2> QED BY <1>1, <2>1, <2>2 DEF UsesOpenStream
<1>8. TypeOK'
  <2>1. RestOK'
    BY <1>1, <1>2, <1>5, <1>6 DEF RestOK
  <2> QED BY <1>4, <2>1, TypePartsNext
<1>9. PlaylistValid' /\ NoLeak' /\ StreamsOfModules'
  BY <1>1, Frame DEF IInv
<1>10. PlayingIsListed' /\ PollerSafe'
  BY <1>1, <1>5 DEF IInv, PlayingIsListed, PollerSafe, Song, Allocated
<1>11. InCall' /\ HasSong' /\ Unlisted' /\ HoldsMutex'
  BY <1>1, <1>4, <1>5 DEF IInv, InCall, HasSong, Unlisted, HoldsMutex, Allocated
<1>12. Reloading'
  BY <1>1, <1>5 DEF IInv, Reloading, Song, IsFile
<1>13. Silent' /\ Seeking'
  BY <1>4, <1>5 DEF Silent, Seeking
<1> QED BY <1>7, <1>8, <1>9, <1>10, <1>11, <1>12, <1>13 DEF IInv

LEMMA ExitLockStep ==
  ASSUME IInv, ExitLock
  PROVE  IInv'
<1>1. /\ at["game"] = "idle" /\ todo # <<>> /\ Head(todo) = "exit"
      /\ owner = NoThread /\ owner' = "game" /\ at' = [at EXCEPT !["game"] = "exit"]
      /\ UNCHANGED <<music, open, playlist, libflags, zcmusic, newzcmusic, todo, b, held, failed, badUse>>
  BY DEF ExitLock, Calls
<1>2. TodoOK /\ RestOK
  BY TypeParts DEF IInv
<1>3. /\ \A t \in Threads : at'[t] = IF t = "game" THEN "exit" ELSE at[t]
      /\ at'["game"] = "exit" /\ at'["timer"] = at["timer"]
      /\ at' \in [Threads -> {"idle", "poll", "reload", "free", "push", "seek", "exit"}]
  BY <1>1, <1>2 DEF RestOK, Threads
<1>4. \A t \in Threads : at[t] \notin {"poll", "reload", "exit"}
  BY <1>1, NobodyPolls
<1>5. \A t \in Threads : at'[t] \notin {"poll", "reload"}
  BY <1>3, <1>4
<1>6. TypeOK'
  <2>1. RestOK'
    BY <1>1, <1>2, <1>3 DEF RestOK, Threads
  <2> QED BY <1>1, <1>2, <2>1, Frame, TypePartsNext
<1>7. PlaylistValid' /\ NoLeak' /\ UsesOpenStream' /\ StreamsOfModules'
  BY <1>1, Frame DEF IInv
<1>8. PlayingIsListed' /\ InCall' /\ HasSong' /\ Unlisted'
  BY <1>1, <1>3 DEF IInv, PlayingIsListed, InCall, HasSong, Unlisted, Making, Allocated
<1>9. HoldsMutex' /\ PollerSafe' /\ Reloading'
  BY <1>1, <1>3, <1>4, <1>5 DEF HoldsMutex, PollerSafe, Reloading, Threads
<1>10. Silent' /\ Seeking'
  BY <1>1, <1>3, <1>5 DEF Silent, Seeking, Making
<1> QED BY <1>6, <1>7, <1>8, <1>9, <1>10 DEF IInv

LEMMA ExitUnlockStep ==
  ASSUME IInv, ExitUnlock
  PROVE  IInv'
<1>1. /\ at["game"] = "exit" /\ owner' = NoThread /\ libflags' = FALSE
      /\ at' = [at EXCEPT !["game"] = "idle"] /\ todo' = Tail(todo)
      /\ UNCHANGED <<music, open, playlist, zcmusic, newzcmusic, b, held, failed, badUse>>
  BY DEF ExitUnlock, Returned
<1>2. TodoOK /\ RestOK
  BY TypeParts DEF IInv
<1>3. Making("exit")
  BY <1>1 DEF IInv, InCall
<1>4. /\ TodoOK' /\ InOrder(todo)' /\ \A c : ~ Making(c)'
      /\ (\E i \in 1 .. Len(todo') : todo'[i] = "install")
           <=> (\E i \in 1 .. Len(todo) : todo[i] = "install")
  BY <1>1, <1>3, Returns DEF After, Making
<1>5. /\ \A t \in Threads : at'[t] = IF t = "game" THEN "idle" ELSE at[t]
      /\ at'["game"] = "idle" /\ at'["timer"] = at["timer"]
      /\ at' \in [Threads -> {"idle", "poll", "reload", "free", "push", "seek", "exit"}]
  BY <1>1, <1>2 DEF RestOK, Threads
<1>6. \A t \in Threads : at'[t] \notin {"poll", "reload", "exit"}
  <2>1. "game" \in Threads /\ \A u \in Threads : u # "game" => at[u] \notin {"poll", "reload", "exit"}
    BY <1>1, OneAtATime DEF Threads
  <2> QED BY <1>5, <2>1
<1>7. TypeOK'
  <2>1. RestOK'
    BY <1>1, <1>2, <1>5 DEF RestOK
  <2> QED BY <1>4, <2>1, TypePartsNext
<1>8. PlaylistValid' /\ NoLeak' /\ UsesOpenStream' /\ StreamsOfModules'
  BY <1>1, Frame DEF IInv
<1>9. PlayingIsListed' /\ InCall' /\ HasSong' /\ Unlisted'
  BY <1>1, <1>4, <1>5 DEF IInv, PlayingIsListed, InCall, HasSong, Unlisted, Allocated
<1>10. HoldsMutex' /\ PollerSafe' /\ Reloading'
  BY <1>1, <1>6 DEF HoldsMutex, PollerSafe, Reloading, Threads, NoThread
<1>11. Silent' /\ Seeking'
  BY <1>4, <1>5 DEF Silent, Seeking
<1> QED BY <1>7, <1>8, <1>9, <1>10, <1>11 DEF IInv


\* What loading a song changes: it takes a free address, and a stream of its
\* own if it is a file.
LEMMA LoadedSong ==
  ASSUME IInv, NEW h, Loaded(h)
  PROVE  /\ h \in Handles /\ h \notin Allocated
         /\ music' \in [Handles -> ASong]
         /\ \A g \in Handles : g # h => music'[g] = music[g]
         /\ Allocated' = Allocated \cup {h}
         /\ music'[h].playing = "STOPPED"
         /\ IsModule(h)' => music'[h].s = NoStream
         /\ \/ music'[h].s = NoStream /\ open' = open
            \/ music'[h].s \in Streams \ open /\ open' = open \cup {music'[h].s}
<1>1. h \in Handles /\ h \notin Allocated /\ music \in [Handles -> ASong]
  BY TypeParts DEF IInv, RestOK, Loaded
<1>2. PICK kind \in Kinds :
        IF kind \in {"DUH", "GME"}
        THEN /\ music' = [music EXCEPT ![h] = [Free EXCEPT !.kind = kind]]
             /\ UNCHANGED open
        ELSE \E s \in Streams \ open :
               /\ music' = [music EXCEPT ![h] = [Free EXCEPT !.kind = kind, !.s = s]]
               /\ open' = open \cup {s}
  BY DEF Loaded
<1>3. PICK r \in ASong :
        /\ r.kind = kind /\ r.playing = "STOPPED"
        /\ kind \in {"DUH", "GME"} => r.s = NoStream
        /\ \/ r.s = NoStream /\ open' = open
           \/ r.s \in Streams \ open /\ open' = open \cup {r.s}
        /\ music' = [music EXCEPT ![h] = r]
  <2>1. CASE kind \in {"DUH", "GME"}
    <3> DEFINE r == [Free EXCEPT !.kind = kind]
    <3>1. r = [kind |-> kind, playing |-> "STOPPED", s |-> NoStream]
      BY DEF Free
    <3>2. r \in ASong /\ r.kind = kind /\ r.playing = "STOPPED" /\ r.s = NoStream
      BY <3>1 DEF ASong
    <3>3. music' = [music EXCEPT ![h] = r] /\ open' = open
      BY <1>2, <2>1
    <3> HIDE DEF r
    <3> QED BY <3>2, <3>3
  <2>2. CASE kind \notin {"DUH", "GME"}
    <3>1. PICK s \in Streams \ open :
            /\ music' = [music EXCEPT ![h] = [Free EXCEPT !.kind = kind, !.s = s]]
            /\ open' = open \cup {s}
      BY <1>2, <2>2
    <3> DEFINE r == [kind |-> kind, playing |-> "STOPPED", s |-> s]
    <3>2. [Free EXCEPT !.kind = kind, !.s = s] = r
      <4>1. [Free EXCEPT !.kind = kind] = [kind |-> kind, playing |-> "STOPPED", s |-> NoStream]
        BY DEF Free
      <4>2. [[kind |-> kind, playing |-> "STOPPED", s |-> NoStream] EXCEPT !.s = s] = r
        OBVIOUS
      <4>3. [Free EXCEPT !.kind = kind, !.s = s] = [[Free EXCEPT !.kind = kind] EXCEPT !.s = s]
        OBVIOUS
      <4> HIDE DEF r
      <4> QED BY <4>1, <4>2, <4>3
    <3>3. r \in ASong /\ r.kind = kind /\ r.playing = "STOPPED" /\ r.s = s
      BY DEF ASong
    <3>4. music' = [music EXCEPT ![h] = r]
      BY <3>1, <3>2
    <3> HIDE DEF r
    <3> QED BY <2>2, <3>1, <3>3, <3>4
  <2> QED BY <2>1, <2>2
<1>4. music' \in [Handles -> ASong] /\ \A g \in Handles : music'[g] = IF g = h THEN r ELSE music[g]
  BY <1>1, <1>3
<1>5. kind # "none"
  BY KindsAssumption DEF AllKinds
<1>6. Allocated' = Allocated \cup {h}
  BY <1>1, <1>3, <1>4, <1>5 DEF Allocated
<1> QED BY <1>1, <1>3, <1>4, <1>6 DEF IsModule

\* try_zcmusic loads the song that is to replace the current one, and
\* play_DmapMusic loads one when there is none.
LEMMA LoadingKeeps ==
  ASSUME IInv, NEW h, Loaded(h), at["game"] = "idle", newzcmusic = NoHandle,
         \/ zcmusic' = zcmusic /\ newzcmusic' = h
         \/ zcmusic = NoHandle /\ zcmusic' = h /\ newzcmusic' = newzcmusic,
         UNCHANGED <<playlist, owner, libflags, at, b, held, failed, badUse>>
  PROVE  /\ RestOK' /\ PlaylistValid' /\ PlayingIsListed' /\ PollerSafe' /\ NoLeak'
         /\ UsesOpenStream' /\ HoldsMutex' /\ Reloading' /\ StreamsOfModules' /\ Seeking'
<1>1. RestOK
  BY TypeParts DEF IInv
<1>2. /\ h \in Handles /\ h \notin Allocated
      /\ music' \in [Handles -> ASong]
      /\ \A g \in Handles : g # h => music'[g] = music[g]
      /\ Allocated' = Allocated \cup {h}
      /\ music'[h].playing = "STOPPED"
      /\ IsModule(h)' => music'[h].s = NoStream
      /\ \/ music'[h].s = NoStream /\ open' = open
         \/ music'[h].s \in Streams \ open /\ open' = open \cup {music'[h].s}
  BY LoadedSong
<1>3. \A t \in Threads : at[t] = "reload" => Song(t)' = Song(t) /\ Song(t) # h /\ Song(t) \in Handles
  BY <1>2, ReloadsListed DEF Song, IInv, PlaylistValid
<1>4. RestOK'
  <2>1. open' \subseteq Streams
    BY <1>1, <1>2 DEF RestOK
  <2>2. zcmusic' \in Handles \cup {NoHandle} /\ newzcmusic' \in Handles \cup {NoHandle}
    BY <1>1, <1>2 DEF RestOK
  <2> QED BY <1>1, <1>2, <2>1, <2>2 DEF RestOK
<1>5. PlaylistValid'
  BY <1>2 DEF IInv, PlaylistValid
<1>6. PlayingIsListed'
  BY <1>2 DEF IInv, PlayingIsListed
<1>7. PollerSafe'
  BY <1>2, <1>3 DEF IInv, PollerSafe
<1>8. NoLeak'
  <2>1. /\ open = {music[g].s : g \in Allocated} \ {NoStream}
        /\ \A g, k \in Allocated : music[g].s = music[k].s /\ music[g].s # NoStream => g = k
        /\ Allocated \subseteq {zcmusic, newzcmusic}
    BY DEF IInv, NoLeak
  <2>2. \A g \in Allocated : g \in Handles /\ g # h /\ music'[g] = music[g]
    BY <1>2 DEF Allocated
  <2>3. \A g \in Allocated : music'[h].s # NoStream => music[g].s # music'[h].s
    BY <1>2, <2>1
  <2>4. \A g, k \in Allocated' : music'[g].s = music'[k].s /\ music'[g].s # NoStream => g = k
    BY <1>2, <2>1, <2>2, <2>3
  <2>5. open' = {music'[g].s : g \in Allocated'} \ {NoStream}
    <3>1. NoStream \notin Streams
      BY NullAssumption
    <3>2. \A x \in open' : \E g \in Allocated' : x = music'[g].s /\ x # NoStream
      BY <1>2, <2>1, <2>2, <3>1
    <3>3. \A g \in Allocated' : music'[g].s # NoStream => music'[g].s \in open'
      BY <1>2, <2>1, <2>2, <3>1
    <3> QED BY <3>2, <3>3
  <2>6. Allocated' \subseteq {zcmusic', newzcmusic'}
    <3>1. \A g \in Allocated : g # NoHandle
      BY <2>2, NullAssumption
    <3> QED BY <1>2, <2>1, <3>1
  <2> QED BY <2>4, <2>5, <2>6 DEF NoLeak
<1>9. UsesOpenStream' /\ HoldsMutex'
  BY Frame DEF IInv
<1>10. Reloading'
  <2>1. SUFFICES ASSUME NEW t \in Threads, at'[t] = "reload"
                 PROVE  (IsFile(Song(t)) /\ music[Song(t)].s = NoStream /\ music[Song(t)].playing = "PLAYING")'
    BY DEF Reloading
  <2>2. Song(t)' = Song(t) /\ music'[Song(t)] = music[Song(t)] /\ at[t] = "reload"
    BY <1>2, <1>3, <2>1
  <2> QED BY <2>2 DEF IInv, Reloading, IsFile
<1>11. StreamsOfModules'
  BY <1>2 DEF IInv, StreamsOfModules, IsModule
<1>12. Seeking'
  BY DEF Seeking
<1> QED BY <1>4, <1>5, <1>6, <1>7, <1>8, <1>9, <1>10, <1>11, <1>12

LEMMA InstallStep ==
  ASSUME IInv, Install
  PROVE  IInv'
<1>1. /\ at["game"] = "idle" /\ todo # <<>> /\ Head(todo) = "install" /\ todo' = Tail(todo)
      /\ zcmusic' = newzcmusic /\ newzcmusic' = NoHandle
      /\ UNCHANGED <<music, open, playlist, owner, libflags, at, b, held, failed, badUse>>
  BY DEF Install, Calls, Returned
<1>2. TodoOK /\ RestOK
  BY TypeParts DEF IInv
<1>3. /\ TodoOK' /\ InOrder(todo)' /\ \A c : Making(c)' => c = "play"
      /\ ~ \E i \in 1 .. Len(todo') : todo'[i] = "install"
  BY <1>1, Returns DEF After
<1>4. zcmusic = NoHandle
  BY <1>1 DEF IInv, HasSong, Making
<1>5. newzcmusic # NoHandle /\ newzcmusic \in Handles /\ newzcmusic \in Allocated
  <2>1. todo \in Seq(CallNames) /\ todo # <<>>
    BY <1>1, <1>2 DEF TodoOK
  <2>2. Len(todo) \in Nat \ {0} /\ todo[1] = "install"
    BY <1>1, <2>1, EmptySeq, HeadTailProperties
  <2>3. \E i \in 1 .. Len(todo) : todo[i] = "install"
    BY <2>2
  <2>4. newzcmusic # NoHandle
    BY <2>3 DEF IInv, HasSong
  <2> QED BY <1>2, <2>4 DEF IInv, HasSong, RestOK
<1>6. TypeOK'
  <2>1. RestOK'
    BY <1>1, <1>2 DEF RestOK
  <2> QED BY <1>3, <2>1, TypePartsNext
<1>7. PlaylistValid' /\ PollerSafe' /\ UsesOpenStream' /\ HoldsMutex' /\ Reloading' /\ StreamsOfModules'
  BY <1>1, Frame DEF IInv
<1>8. PlayingIsListed'
  BY <1>1 DEF IInv, PlayingIsListed
<1>9. NoLeak'
  <2>1. \A g \in Allocated : g # NoHandle
    BY NullAssumption DEF Allocated
  <2> QED BY <1>1, <1>4, <2>1 DEF IInv, NoLeak, Allocated
<1>10. InCall' /\ Seeking' /\ Silent'
  BY <1>1, <1>3 DEF InCall, Seeking, Silent
<1>11. HasSong'
  BY <1>1, <1>3, <1>5 DEF HasSong, Allocated
<1>12. Unlisted'
  <2>1. NoHandle \notin ToSet(playlist)
    BY NullAssumption DEF IInv, PlaylistValid, Allocated
  <2> QED BY <1>1, <2>1 DEF IInv, Unlisted
<1> QED BY <1>6, <1>7, <1>8, <1>9, <1>10, <1>11, <1>12 DEF IInv

LEMMA DmapLoadStep ==
  ASSUME IInv, DmapLoad
  PROVE  IInv'
<1>1. /\ at["game"] = "idle" /\ todo # <<>> /\ Head(todo) = "load"
      /\ UNCHANGED <<playlist, owner, libflags, newzcmusic, at, b, held, failed, badUse>>
  BY DEF DmapLoad, Calls
<1>2. zcmusic = NoHandle
  BY <1>1 DEF IInv, HasSong, Making
<1>3. newzcmusic = NoHandle
  <2>1. todo \in Seq(CallNames) /\ InOrder(todo)
    BY TypeParts DEF IInv, TodoOK, InCall
  <2>2. \A i \in 1 .. Len(todo) : todo[i] # "install"
    <3>1. /\ Tail(todo) \in Seq(CallNames) /\ Len(Tail(todo)) = Len(todo) - 1
          /\ todo[1] = "load" /\ \A i \in 1 .. Len(Tail(todo)) : Tail(todo)[i] = todo[i + 1]
      BY <1>1, <2>1, Returning
    <3>2. Len(todo) \in Nat /\ \A i \in 1 .. Len(todo) - 1 : todo[i + 1] \in After(todo[i])
      BY <2>1, LenProperties DEF InOrder
    <3>3. Len(todo) >= 2 => todo[2] = "play"
      <4>1. Len(todo) >= 2 => todo[1 + 1] \in After(todo[1])
        BY <3>2
      <4> QED BY <3>1, <4>1 DEF After
    <3>4. Len(todo) >= 3 => todo[3] = "change_track"
      <4>1. Len(todo) >= 3 => 2 \in 1 .. Len(todo) - 1 /\ Len(todo) >= 2
        BY <3>2
      <4>2. Len(todo) >= 3 => todo[2 + 1] \in After(todo[2])
        BY <3>2, <4>1
      <4> QED BY <3>3, <4>1, <4>2 DEF After
    <3>5. ~ (Len(todo) >= 4)
      <4>1. Len(todo) >= 4 => 3 \in 1 .. Len(todo) - 1 /\ Len(todo) >= 3
        BY <3>2
      <4>2. Len(todo) >= 4 => todo[3 + 1] \in After(todo[3])
        BY <3>2, <4>1
      <4> QED BY <3>4, <4>1, <4>2 DEF After
    <3> QED BY <3>1, <3>2, <3>3, <3>4, <3>5
  <2> QED BY <2>2 DEF IInv, HasSong
<1>4. CASE \E h \in Handles : Loaded(h) /\ zcmusic' = h /\ todo' = Tail(todo)
  <2>1. PICK h \in Handles : Loaded(h) /\ zcmusic' = h /\ todo' = Tail(todo)
    BY <1>4
  <2>2. /\ RestOK' /\ PlaylistValid' /\ PlayingIsListed' /\ PollerSafe' /\ NoLeak'
        /\ UsesOpenStream' /\ HoldsMutex' /\ Reloading' /\ StreamsOfModules' /\ Seeking'
    BY <1>1, <1>2, <1>3, <2>1, LoadingKeeps
  <2>3. /\ TodoOK' /\ InOrder(todo)' /\ \A c : Making(c)' => c = "play"
        /\ ~ \E i \in 1 .. Len(todo') : todo'[i] = "install"
    BY <1>1, <2>1, Returns DEF After
  <2>4. h \notin Allocated /\ Allocated' = Allocated \cup {h}
    BY <2>1, LoadedSong
  <2>5. h # NoHandle /\ h \notin ToSet(playlist)
    BY <2>1, <2>4, NullAssumption DEF IInv, PlaylistValid
  <2>6. TypeOK'
    BY <2>2, <2>3, TypePartsNext
  <2>7. InCall' /\ Silent'
    BY <1>1, <2>3 DEF InCall, Silent
  <2>8. HasSong'
    BY <1>1, <1>3, <2>1, <2>3, <2>4, <2>5 DEF HasSong
  <2>9. Unlisted'
    BY <1>1, <2>1, <2>5 DEF IInv, Unlisted
  <2> QED BY <2>2, <2>6, <2>7, <2>8, <2>9 DEF IInv
<1>5. CASE todo' \in {<<>>, <<"stop", "unload">>} /\ UNCHANGED <<music, open, zcmusic>>
  <2>1. CASE todo' = <<>>
    <3>1. todo' \in Seq(CallNames) /\ Len(todo') = 0
      BY <2>1
    <3>2. TodoOK' /\ InOrder(todo)' /\ (\A c : ~ Making(c)')
          /\ ~ \E i \in 1 .. Len(todo') : todo'[i] = "install"
      BY <2>1, <3>1 DEF TodoOK, InOrder, Making
    <3> QED BY <1>1, <1>3, <1>5, <3>2, OnlyTodo
  <2>2. CASE todo' = <<"stop", "unload">>
    <3>1. /\ todo' \in Seq(CallNames) /\ Len(todo') <= 5 /\ InOrder(todo')
          /\ todo' # <<>> /\ Head(todo') \in {"stop", "pause", "resume", "seek", "poll"}
          /\ ~ \E i \in 1 .. Len(todo') : todo'[i] = "install"
      <4>1. Len(todo') = 2
        BY <2>2
      <4> QED BY <2>2, <4>1, Undertakes
    <3>2. TodoOK' /\ InOrder(todo)'
          /\ \A c : Making(c)' => c \in {"stop", "pause", "resume", "seek", "poll"}
      BY <3>1 DEF TodoOK, Making
    <3> QED BY <1>1, <1>3, <1>5, <3>1, <3>2, OnlyTodo
  <2> QED BY <1>5, <2>1, <2>2
<1> QED BY <1>4, <1>5 DEF DmapLoad, Returned

\* Between two things the player does with its music there is no new song.
LEMMA NothingNew ==
  ASSUME IInv, todo = <<>>
  PROVE  newzcmusic = NoHandle
<1>1. Len(todo) = 0
  OBVIOUS
<1> QED BY <1>1 DEF IInv, HasSong

LEMMA TryMusicStep ==
  ASSUME IInv, TryMusic
  PROVE  IInv'
<1>1. /\ at["game"] = "idle" /\ todo = <<>>
      /\ UNCHANGED <<playlist, owner, libflags, zcmusic, at, b, held, failed, badUse>>
  BY DEF TryMusic, Ready
<1>2. PICK h \in Handles : Loaded(h) /\ newzcmusic' = h
  BY DEF TryMusic
<1>3. newzcmusic = NoHandle
  BY <1>1, NothingNew
<1>4. \/ todo' = <<"stop", "unload", "install", "play">>
      \/ todo' = <<"stop", "unload", "install", "play", "change_track">>
  BY DEF TryMusic
<1>5. /\ todo' \in Seq(CallNames) /\ Len(todo') <= 5 /\ InOrder(todo')
      /\ todo' # <<>> /\ Head(todo') \in {"stop", "pause", "resume", "seek", "poll"}
      /\ \E i \in 1 .. Len(todo') : todo'[i] = "install"
  <2>1. CASE todo' = <<"stop", "unload", "install", "play">>
    <3>1. Len(todo') >= 4 /\ todo'[3] = "install"
      BY <2>1
    <3> QED BY <2>1, <3>1, Undertakes
  <2>2. CASE todo' = <<"stop", "unload", "install", "play", "change_track">>
    <3>1. Len(todo') >= 4 /\ todo'[3] = "install"
      BY <2>2
    <3> QED BY <2>2, <3>1, Undertakes
  <2> QED BY <1>4, <2>1, <2>2
<1>6. TodoOK' /\ InOrder(todo)'
      /\ \A c : Making(c)' => c \in {"stop", "pause", "resume", "seek", "poll"}
  BY <1>5 DEF TodoOK, Making
<1>7. /\ RestOK' /\ PlaylistValid' /\ PlayingIsListed' /\ PollerSafe' /\ NoLeak'
      /\ UsesOpenStream' /\ HoldsMutex' /\ Reloading' /\ StreamsOfModules' /\ Seeking'
  BY <1>1, <1>2, <1>3, LoadingKeeps
<1>8. h \notin Allocated /\ Allocated' = Allocated \cup {h} /\ h # NoHandle /\ h \notin ToSet(playlist)
  BY <1>2, LoadedSong, NullAssumption DEF IInv, PlaylistValid
<1>9. TypeOK'
  BY <1>6, <1>7, TypePartsNext
<1>10. InCall' /\ Silent'
  BY <1>1, <1>6 DEF InCall, Silent
<1>11. HasSong'
  BY <1>1, <1>2, <1>5, <1>6, <1>8 DEF IInv, HasSong
<1>12. Unlisted'
  BY <1>1, <1>2, <1>6, <1>8 DEF IInv, Unlisted
<1> QED BY <1>7, <1>9, <1>10, <1>11, <1>12 DEF IInv

LEMMA DmapMusicStep ==
  ASSUME IInv, DmapMusic
  PROVE  IInv'
<1>1. /\ at["game"] = "idle" /\ todo = <<>>
      /\ todo' = <<"stop", "unload", "load", "play", "change_track">>
      /\ UNCHANGED <<music, open, playlist, owner, libflags, zcmusic, newzcmusic, at, b, held, failed, badUse>>
  BY DEF DmapMusic, Ready
<1>2. newzcmusic = NoHandle
  BY <1>1, NothingNew
<1>3. todo'[3] # "install"
  BY <1>1
<1>4. /\ todo' \in Seq(CallNames) /\ Len(todo') <= 5 /\ InOrder(todo')
      /\ todo' # <<>> /\ Head(todo') \in {"stop", "pause", "resume", "seek", "poll"}
      /\ ~ \E i \in 1 .. Len(todo') : todo'[i] = "install"
  BY <1>1, <1>3, Undertakes
<1>5. TodoOK' /\ InOrder(todo)'
      /\ \A c : Making(c)' => c \in {"stop", "pause", "resume", "seek", "poll"}
  BY <1>4 DEF TodoOK, Making
<1> QED BY <1>1, <1>2, <1>4, <1>5, OnlyTodo

LEMMA RequestStep ==
  ASSUME IInv, Request
  PROVE  IInv'
<1>1. /\ at["game"] = "idle" /\ todo = <<>> /\ todo' \in Requests
      /\ UNCHANGED <<music, open, playlist, owner, libflags, zcmusic, newzcmusic, at, b, held, failed, badUse>>
  BY DEF Request, Ready
<1>2. newzcmusic = NoHandle
  BY <1>1, NothingNew
<1>3. todo' \in {<<"stop", "unload">>, <<"pause">>, <<"resume">>, <<"seek">>,
                 <<"stop", "unload", "exit">>, <<"poll">>}
  BY <1>1 DEF Requests
<1>4. ~ (Len(todo') >= 4)
  <2>1. CASE todo' = <<"stop", "unload">>
    BY <2>1
  <2>2. CASE todo' = <<"stop", "unload", "exit">>
    BY <2>2
  <2>3. CASE todo' = <<"pause">>
    BY <2>3
  <2>4. CASE todo' = <<"resume">>
    BY <2>4
  <2>5. CASE todo' = <<"seek">>
    BY <2>5
  <2>6. CASE todo' = <<"poll">>
    BY <2>6
  <2> QED BY <1>3, <2>1, <2>2, <2>3, <2>4, <2>5, <2>6
<1>5. /\ todo' \in Seq(CallNames) /\ Len(todo') <= 5 /\ InOrder(todo')
      /\ todo' # <<>> /\ Head(todo') \in {"stop", "pause", "resume", "seek", "poll"}
      /\ ~ \E i \in 1 .. Len(todo') : todo'[i] = "install"
  BY <1>3, <1>4, Undertakes
<1>6. TodoOK' /\ InOrder(todo)'
      /\ \A c : Making(c)' => c \in {"stop", "pause", "resume", "seek", "poll"}
  BY <1>5 DEF TodoOK, Making
<1> QED BY <1>1, <1>2, <1>5, <1>6, OnlyTodo

-----------------------------------------------------------------------------
(* The theorems                                                            *)

LEMMA InitInv == Init => IInv
<1> SUFFICES ASSUME Init PROVE IInv
  OBVIOUS
<1>1. Free \in ASong /\ Free.kind = "none" /\ Free.playing = "STOPPED" /\ Free.s = NoStream
  BY DEF Free, ASong
<1>2. music \in [Handles -> ASong] /\ \A h \in Handles : music[h] = Free
  BY <1>1 DEF Init
<1>3. Allocated = {}
  BY <1>1, <1>2 DEF Allocated
<1>4. /\ at \in [Threads -> {"idle", "poll", "reload", "free", "push", "seek", "exit"}]
      /\ \A t \in Threads : at[t] = "idle"
      /\ at["game"] = "idle" /\ at["timer"] = "idle"
      /\ b \in [Threads -> Nat \ {0}]
  BY DEF Init, Threads
<1>5. /\ todo = <<>> /\ todo \in Seq(CallNames) /\ Len(todo) = 0
      /\ playlist = <<>> /\ playlist \in Seq(Handles) /\ ToSet(playlist) = {}
  BY DEF Init, ToSet
<1>6. TypeOK
  <2>1. TodoOK
    BY <1>5 DEF TodoOK
  <2>2. /\ open \subseteq Streams /\ owner \in Threads \cup {NoThread} /\ libflags \in BOOLEAN
        /\ zcmusic \in Handles \cup {NoHandle} /\ newzcmusic \in Handles \cup {NoHandle}
        /\ held \in Streams \cup {NoStream} /\ failed \in BOOLEAN /\ badUse \in BOOLEAN
    BY DEF Init
  <2>3. RestOK
    BY <1>2, <1>4, <1>5, <2>2 DEF RestOK
  <2> QED BY <2>1, <2>3, TypeParts
<1>7. PlaylistValid
  <2>1. DOMAIN playlist = {}
    BY <1>5
  <2> QED BY <1>5, <2>1 DEF PlaylistValid, IsInjective
<1>8. PlayingIsListed
  BY <1>1, <1>2 DEF PlayingIsListed
<1>9. PollerSafe /\ Reloading /\ Seeking /\ Silent /\ Unlisted
  BY <1>4, <1>5 DEF PollerSafe, Reloading, Seeking, Silent, Unlisted, Making
<1>10. NoLeak
  BY <1>3 DEF Init, NoLeak
<1>11. UsesOpenStream
  BY DEF Init, UsesOpenStream
<1>12. InCall
  BY <1>4, <1>5 DEF InCall, InOrder
<1>13. HasSong
  BY <1>4, <1>5 DEF Init, HasSong, Making
<1>14. HoldsMutex
  BY <1>4 DEF Init, HoldsMutex, Threads, NoThread
<1>15. StreamsOfModules
  BY <1>1, <1>2 DEF StreamsOfModules
<1> QED
  BY <1>6, <1>7, <1>8, <1>9, <1>10, <1>11, <1>12, <1>13, <1>14, <1>15 DEF IInv

LEMMA Unchanging ==
  ASSUME IInv, UNCHANGED vars
  PROVE  IInv'
<1>1. RestOK'
  BY TypeParts DEF IInv, RestOK, vars
<1>2. TodoOK /\ UNCHANGED vars
  BY TypeParts DEF IInv
<1>3. TodoOK' /\ TypeOK'
  BY <1>1, <1>2, Frame, TypePartsNext DEF vars
<1> QED BY <1>3, Frame DEF IInv, vars

LEMMA StepInv ==
  ASSUME IInv, [Next]_vars
  PROVE  IInv'
<1>1. ASSUME NEW t \in Threads, Poll(t)
      PROVE  IInv'
  BY <1>1, PollLockStep, PollStoppedStep, PollSongStep, PollResetStep, PollReloadStep,
     PollUnlockStep DEF Poll
<1>2. CASE Call
  BY <1>2, StopStep, UnloadEraseStep, UnloadFreeStep, PlayStartStep, PlayPushStep, PauseStep,
     ChangeTrackStep, SeekStep, SeekUseStep, ExitLockStep, ExitUnlockStep, InstallStep,
     DmapLoadStep DEF Call
<1>3. CASE TryMusic
  BY <1>3, TryMusicStep
<1>4. CASE DmapMusic
  BY <1>4, DmapMusicStep
<1>5. CASE Request
  BY <1>5, RequestStep
<1>6. CASE UNCHANGED vars
  BY <1>6, Unchanging
<1> QED BY <1>1, <1>2, <1>3, <1>4, <1>5, <1>6 DEF Next

\* The inductive invariant: what zcmusic.cpp's two threads and the player's
\* code rely on between any two of their steps.
THEOREM Invariance == Spec => []IInv
<1>1. Init => IInv
  BY InitInv
<1>2. IInv /\ [Next]_vars => IInv'
  BY StepInv
<1> QED BY <1>1, <1>2, PTL DEF Spec

\* The player's lists of calls are never longer than play_DmapMusic's, and
\* everything else stays within its type.
THEOREM TypeCorrect == Spec => []TypeOK
<1>1. IInv => TypeOK
  BY DEF IInv
<1> QED BY <1>1, Invariance, PTL

\* However many songs come and go, and whatever addresses they get again: the
\* playlist has no freed song and none twice, for zcmusic_unload_file erases
\* the song and zcmusic_play adds one only that was stopped.
THEOREM PlaylistIsValid == Spec => []PlaylistValid
<1>1. IInv => PlaylistValid
  BY DEF IInv
<1> QED BY <1>1, Invariance, PTL

\* zcmusic_poll gets to every song that plays or is paused.
THEOREM WhatPlaysIsListed == Spec => []PlayingIsListed
<1>1. IInv => PlayingIsListed
  BY DEF IInv
<1> QED BY <1>1, Invariance, PTL

\* playlistmutex keeps the iterator of a poll, and the song whose file it
\* reloads, valid in whichever thread the poll runs.
THEOREM PollIsSafe == Spec => []PollerSafe
<1>1. IInv => PollerSafe
  BY DEF IInv
<1> QED BY <1>1, Invariance, PTL

\* Between zcmusic_stop and zcmusic_unload_file no poll of the timer revives
\* the song.
THEOREM StoppedStaysSilent == Spec => []StopSilences
<1>1. IInv => StopSilences
  BY DEF IInv, Silent, Making, StopSilences
<1> QED BY <1>1, Invariance, PTL

\* Neither a song nor a stream is lost, and no stream is shared, whatever is
\* loaded, unloaded, reset or fails to load.
THEOREM NothingLeaks == Spec => []NoLeak
<1>1. IInv => NoLeak
  BY DEF IInv
<1> QED BY <1>1, Invariance, PTL

\* While no file has failed, both threads use streams that exist only: also a
\* script's unlocked seeking beside the timer's poll.
THEOREM StreamsAreOpen == Spec => []UsesOpenStream
<1>1. IInv => UsesOpenStream
  BY DEF IInv
<1> QED BY <1>1, Invariance, PTL

\* Whoever holds playlistmutex never waits for it again: a poll makes no call
\* that locks it, and zcmusic_exit, whose loop would, finds no song left.
HolderGoesOn ==
  \A t \in Threads :
    owner = t => at[t] \in {"poll", "reload"} \/ (at[t] = "exit" /\ playlist = <<>>)

\* The program cannot hang at its end: music_stop has unloaded the only song
\* there is before zcmusic_exit locks the mutex.
THEOREM NobodyLocksTwice == Spec => []HolderGoesOn
<1>1. ASSUME IInv, at["game"] = "exit"
      PROVE  playlist = <<>>
  <2>1. todo \in Seq(CallNames) /\ InOrder(todo) /\ playlist \in Seq(Handles)
    BY <1>1, TypeParts DEF IInv, TodoOK, RestOK, InCall
  <2>2. Making("exit") /\ zcmusic = NoHandle
    BY <1>1 DEF IInv, InCall, HasSong
  <2>3. newzcmusic = NoHandle
    <3>1. /\ Len(Tail(todo)) = Len(todo) - 1 /\ Tail(todo) \in Seq(CallNames)
          /\ todo[1] = "exit" /\ Tail(todo) = <<>>
      BY <2>1, <2>2, Returning DEF Making, After
    <3>2. Len(todo) = 1
      <4>1. Len(Tail(todo)) = 0 /\ Len(todo) \in Nat
        BY <2>1, <3>1, LenProperties
      <4> QED BY <3>1, <4>1
    <3>3. \A i \in 1 .. Len(todo) : todo[i] # "install"
      BY <3>1, <3>2
    <3> QED BY <1>1, <3>3 DEF IInv, HasSong
  <2>4. Allocated = {}
    BY <1>1, <2>2, <2>3, NullAssumption DEF IInv, NoLeak, Allocated
  <2>5. ToSet(playlist) = {}
    BY <1>1, <2>4 DEF IInv, PlaylistValid
  <2>6. Len(playlist) \in Nat /\ (Len(playlist) = 0 => playlist = <<>>)
    BY <2>1, LenProperties, EmptySeq
  <2>7. Len(playlist) # 0 => playlist[1] \in ToSet(playlist)
    BY <2>1, <2>6, LenProperties DEF ToSet
  <2> QED BY <2>5, <2>6, <2>7
<1>2. IInv => HolderGoesOn
  BY <1>1 DEF IInv, HoldsMutex, HolderGoesOn, TypeOK, Threads
<1> QED BY <1>2, Invariance, PTL
=============================================================================
