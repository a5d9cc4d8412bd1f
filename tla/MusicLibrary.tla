---------------------------- MODULE MusicLibrary ----------------------------
(***************************************************************************)
(* The music library (src/src/zcmusic.cpp) and the way the player uses it  *)
(* (zc_sys.cpp: try_zcmusic, play_DmapMusic, music_stop, music_pause, ...).*)
(*                                                                         *)
(* Two threads run it: the game's, and the timer's, which calls            *)
(* zcmusic_poll every 25 ms.  playlistmutex guards the playlist, most of   *)
(* the calls on a song, but not all of what they read.                     *)
(*                                                                         *)
(* A song (a ZCMUSIC) is a member of Handles while it is allocated. malloc *)
(* may give the address of a freed song to the next one.  Its decoder or   *)
(* output stream, with the file it reads, is a member of Streams, of which *)
(* the same is true.  A section under the mutex that no unlocked code can  *)
(* observe halfway is one step, enabled when the mutex is free.            *)
(***************************************************************************)
EXTENDS Naturals, Sequences, FiniteSets, SequencesExt

CONSTANTS
  Handles,     \* addresses of songs; the player has two at most
  Streams,     \* addresses of streams
  Kinds,       \* the kinds of song that are loaded
  ReadErrors   \* can a stream fail while it plays, and its file not reload?

AllKinds == {"DUH", "OGG", "MP3", "GME", "OGGEX"}

ASSUME KindsAssumption  == Kinds \subseteq AllKinds
ASSUME ErrorsAssumption == ReadErrors \in BOOLEAN

NoHandle == "no handle"  \* NULL
NoStream == "no stream"
NoThread == "no thread"
Threads  == {"game", "timer"}

ASSUME NullAssumption   == NoHandle \notin Handles /\ NoStream \notin Streams

VARIABLES
  music,    \* [Handles -> the song at that address]
  open,     \* the streams that exist
  playlist, \* the songs that zcmusic_poll looks after
  owner,    \* the thread that holds playlistmutex
  libflags, \* is the library initialised?
  zcmusic,  \* the player's current song
  newzcmusic,  \* the song that try_zcmusic has loaded to replace it
  todo,     \* the calls that the game's thread has still to make
  at,       \* [Threads -> where each is]
  b,        \* [Threads -> the iterator of its zcmusic_poll, from 1]
  held,     \* the stream that the game's thread has read from a song
  failed,   \* history: has a stream that plays failed, or a reload of its file?
  badUse    \* history: was a stream used that does not exist?

vars == <<music, open, playlist, owner, libflags, zcmusic, newzcmusic, todo, at, b, held, failed, badUse>>

Free == [kind |-> "none", playing |-> "STOPPED", s |-> NoStream]

Allocated == {h \in Handles : music[h].kind # "none"}

\* The file formats that hold a stream from load to unload, and the modules
\* and emulators that have one only while they play.
IsFile(h)   == music[h].kind \in {"OGG", "MP3", "OGGEX"}
IsModule(h) == music[h].kind \in {"DUH", "GME"}

Init ==
  /\ music = [h \in Handles |-> Free]
  /\ open = {}
  /\ playlist = <<>>
  /\ owner = NoThread
  /\ libflags = TRUE
  /\ zcmusic = NoHandle
  /\ newzcmusic = NoHandle
  /\ todo = <<>>
  /\ at = [t \in Threads |-> "idle"]
  /\ b = [t \in Threads |-> 1]
  /\ held = NoStream
  /\ failed = FALSE
  /\ badUse = FALSE

-----------------------------------------------------------------------------
(* zcmusic_poll, by either thread                                          *)

\* The game's thread is to make call c next.
Calls(c) == at["game"] = "idle" /\ todo # <<>> /\ Head(todo) = c

MayPoll(t) == IF t = "game" THEN Calls("poll") ELSE at[t] = "idle"

\* Mutant of PollLock: the iterator starts before the first song.
StartsTooEarly(t) ==
  /\ MayPoll(t)
  /\ owner = NoThread
  /\ owner' = t
  /\ at' = [at EXCEPT ![t] = "poll"]
  /\ b' = [b EXCEPT ![t] = 0]
  /\ UNCHANGED <<music, open, playlist, libflags, zcmusic, newzcmusic, todo, held, failed, badUse>>

PollLock(t) ==
  /\ MayPoll(t)
  /\ owner = NoThread
  /\ owner' = t
  /\ at' = [at EXCEPT ![t] = "poll"]
  /\ b' = [b EXCEPT ![t] = 1]
  /\ UNCHANGED <<music, open, playlist, libflags, zcmusic, newzcmusic, todo, held, failed, badUse>>

AtSong(t) == at[t] = "poll" /\ b[t] <= Len(playlist)
Song(t)   == playlist[b[t]]

\* Mutant of PollStopped: a song that does not play leaves the playlist.
DropsPaused(t) ==
  /\ AtSong(t)
  /\ music[Song(t)].playing # "PLAYING"
  /\ playlist' = RemoveAt(playlist, b[t])
  /\ UNCHANGED <<music, open, owner, libflags, zcmusic, newzcmusic, todo, at, b, held, failed, badUse>>

\* A stopped song leaves the playlist.
PollStopped(t) ==
  /\ AtSong(t)
  /\ music[Song(t)].playing = "STOPPED"
  /\ playlist' = RemoveAt(playlist, b[t])
  /\ UNCHANGED <<music, open, owner, libflags, zcmusic, newzcmusic, todo, at, b, held, failed, badUse>>

\* A paused song is passed over; one that plays is given more to play, or
\* an OGGEX that has come to its end is rewound.
PollSong(t) ==
  /\ AtSong(t)
  /\ music[Song(t)].playing # "STOPPED"
  /\ b' = [b EXCEPT ![t] = @ + 1]
  /\ badUse' = (badUse \/ LET m == music[Song(t)]
                          IN  m.playing = "PLAYING" /\ m.s # NoStream /\ m.s \notin open)
  /\ UNCHANGED <<music, open, playlist, owner, libflags, zcmusic, newzcmusic, todo, at, held, failed>>

\* Mutant of PollReset: a song without a stream is given one too.
RevivesSilent(t) ==
  /\ AtSong(t)
  /\ music[Song(t)].playing = "PLAYING" /\ IsFile(Song(t))
  /\ open' = open \ {music[Song(t)].s}
  /\ music' = [music EXCEPT ![Song(t)].s = NoStream]
  /\ at' = [at EXCEPT ![t] = "reload"]
  /\ UNCHANGED <<playlist, owner, libflags, zcmusic, newzcmusic, todo, b, held, failed, badUse>>

\* The stream of an OGG or MP3 has come to its end, or that of any file has
\* failed: ogg_reset, mp3_reset and ogg_ex_reset destroy it.
PollReset(t) ==
  /\ AtSong(t)
  /\ LET h == Song(t) IN
       /\ music[h].playing = "PLAYING" /\ IsFile(h) /\ music[h].s # NoStream
       /\ music[h].kind = "OGGEX" => ReadErrors
       /\ badUse' = (badUse \/ music[h].s \notin open)
       /\ failed' = (failed \/ music[h].kind = "OGGEX")
       /\ open' = open \ {music[h].s}
       /\ music' = [music EXCEPT ![h].s = NoStream]
  /\ at' = [at EXCEPT ![t] = "reload"]
  /\ UNCHANGED <<playlist, owner, libflags, zcmusic, newzcmusic, todo, b, held>>

\* Mutant of PollReload: an early return leaves the mutex locked.
ReturnsLocked(t) ==
  /\ at[t] = "reload"
  /\ \E s \in Streams \ open :
       /\ open' = open \cup {s}
       /\ music' = [music EXCEPT ![Song(t)].s = s, ![Song(t)].playing = "PLAYING"]
  /\ at' = [at EXCEPT ![t] = "idle"]
  /\ UNCHANGED <<playlist, owner, libflags, zcmusic, newzcmusic, todo, b, held, failed, badUse>>

\* They load the file again.  If that fails the song has no stream, which OGG
\* and MP3, but not OGGEX, play all the same.
PollReload(t) ==
  /\ at[t] = "reload"
  /\ \/ \E s \in Streams \ open :
          /\ open' = open \cup {s}
          /\ music' = [music EXCEPT ![Song(t)].s = s, ![Song(t)].playing = "PLAYING"]
          /\ UNCHANGED <<failed, badUse>>
     \/ /\ ReadErrors
        /\ failed' = TRUE
        /\ badUse' = (badUse \/ music[Song(t)].kind # "OGGEX")
        /\ UNCHANGED <<open, music>>
  /\ at' = [at EXCEPT ![t] = "poll"]
  /\ b' = [b EXCEPT ![t] = @ + 1]
  /\ UNCHANGED <<playlist, owner, libflags, zcmusic, newzcmusic, todo, held>>

PollUnlock(t) ==
  /\ at[t] = "poll" /\ b[t] > Len(playlist)
  /\ owner' = NoThread
  /\ at' = [at EXCEPT ![t] = "idle"]
  /\ todo' = IF t = "game" THEN Tail(todo) ELSE todo
  /\ UNCHANGED <<music, open, playlist, libflags, zcmusic, newzcmusic, b, held, failed, badUse>>

-----------------------------------------------------------------------------
(* The other calls of the library, by the game's thread                    *)

Returned == todo' = Tail(todo)

\* Mutant of Silenced: the song keeps the pointer to its stream.
KeepsPointer(h) == music[h]

\* What zcmusic_stop does to song h.  The file formats lose their stream, and
\* nothing sets playing.
Silenced(h) ==
  CASE music[h].kind = "DUH" -> IF music[h].s = NoStream THEN music[h]
                                ELSE [music[h] EXCEPT !.s = NoStream, !.playing = "STOPPED"]
    [] music[h].kind = "GME" -> [music[h] EXCEPT !.s = NoStream, !.playing = "STOPPED"]
    [] OTHER                 -> [music[h] EXCEPT !.s = NoStream]

\* zcmusic_stop(zcmusic)
Stop ==
  /\ Calls("stop")
  /\ IF zcmusic = NoHandle
     THEN UNCHANGED <<music, open>>
     ELSE /\ owner = NoThread
          /\ music' = [music EXCEPT ![zcmusic] = Silenced(zcmusic)]
          /\ open' = open \ {music[zcmusic].s}
  /\ Returned
  /\ UNCHANGED <<playlist, owner, libflags, zcmusic, newzcmusic, at, b, held, failed, badUse>>

\* The playlist without its entries for song h, in their order: what the loop
\* has kept when it has passed the first i entries.
Erased(songs, h) ==
  LET kept[i \in 0 .. Len(songs)] ==
        IF i = 0 THEN <<>>
        ELSE IF songs[i] = h THEN kept[i - 1]
        ELSE Append(kept[i - 1], songs[i])
  IN  kept[Len(songs)]

\* Mutant of UnloadErase: the playlist is left as it is.
LeavesListed ==
  /\ Calls("unload")
  /\ IF zcmusic = NoHandle
     THEN Returned /\ UNCHANGED at
     ELSE /\ owner = NoThread
          /\ at' = [at EXCEPT !["game"] = "free"]
          /\ UNCHANGED todo
  /\ UNCHANGED <<music, open, playlist, owner, libflags, zcmusic, newzcmusic, b, held, failed, badUse>>

\* Mutant of UnloadErase: the mutex is not taken.
ErasesUnlocked ==
  /\ Calls("unload")
  /\ IF zcmusic = NoHandle
     THEN Returned /\ UNCHANGED <<playlist, at>>
     ELSE /\ playlist' = Erased(playlist, zcmusic)
          /\ at' = [at EXCEPT !["game"] = "free"]
          /\ UNCHANGED todo
  /\ UNCHANGED <<music, open, owner, libflags, zcmusic, newzcmusic, b, held, failed, badUse>>

\* zcmusic_unload_file(zcmusic) first takes every entry of the song out of the
\* playlist.
UnloadErase ==
  /\ Calls("unload")
  /\ IF zcmusic = NoHandle
     THEN Returned /\ UNCHANGED <<playlist, at>>
     ELSE /\ owner = NoThread
          /\ playlist' = Erased(playlist, zcmusic)
          /\ at' = [at EXCEPT !["game"] = "free"]
          /\ UNCHANGED todo
  /\ UNCHANGED <<music, open, owner, libflags, zcmusic, newzcmusic, b, held, failed, badUse>>

\* Then, without the mutex, it frees the song; a DUH that plays and a GME are
\* stopped before, under it.
UnloadFree ==
  /\ at["game"] = "free"
  /\ IsModule(zcmusic) /\ (music[zcmusic].kind = "DUH" => music[zcmusic].s # NoStream)
       => owner = NoThread
  /\ music' = [music EXCEPT ![zcmusic] = Free]
  /\ open' = open \ {music[zcmusic].s}
  /\ zcmusic' = NoHandle
  /\ at' = [at EXCEPT !["game"] = "idle"]
  /\ Returned
  /\ UNCHANGED <<playlist, owner, libflags, newzcmusic, b, held, failed, badUse>>

\* zcmusic_play(zcmusic, volume).  A song that is not stopped only has its
\* volume changed.  One that is starts its stream, which may fail, then marks
\* itself playing; only then is it put on the playlist.
PlayStart ==
  /\ Calls("play")
  /\ zcmusic # NoHandle
  /\ IF music[zcmusic].playing # "STOPPED" \/ (IsFile(zcmusic) /\ music[zcmusic].s = NoStream)
     THEN Returned /\ UNCHANGED <<music, open, at>>
     ELSE \/ /\ \E s \in Streams :
                  /\ IF IsFile(zcmusic) THEN s = music[zcmusic].s ELSE s \notin open
                  /\ open' = open \cup {s}
                  /\ music' = [music EXCEPT ![zcmusic].s = s, ![zcmusic].playing = "PLAYING"]
             /\ at' = [at EXCEPT !["game"] = "push"]
             /\ UNCHANGED todo
          \/ /\ music[zcmusic].kind # "GME"
             /\ Returned /\ UNCHANGED <<music, open, at>>
  /\ UNCHANGED <<playlist, owner, libflags, zcmusic, newzcmusic, b, held, failed, badUse>>

PlayPush ==
  /\ at["game"] = "push"
  /\ owner = NoThread
  /\ playlist' = Append(playlist, zcmusic)
  /\ at' = [at EXCEPT !["game"] = "idle"]
  /\ Returned
  /\ UNCHANGED <<music, open, owner, libflags, zcmusic, newzcmusic, b, held, failed, badUse>>

\* zcmusic_pause(zcmusic, ZCM_PAUSE or ZCM_RESUME)
Pause ==
  /\ \E call \in {"pause", "resume"} :
       /\ Calls(call)
       /\ IF zcmusic = NoHandle THEN UNCHANGED music
          ELSE /\ owner = NoThread
               /\ music' = [music EXCEPT ![zcmusic].playing =
                              IF @ = "STOPPED" THEN @
                              ELSE IF call = "pause" THEN "PAUSED" ELSE "PLAYING"]
  /\ Returned
  /\ UNCHANGED <<open, playlist, owner, libflags, zcmusic, newzcmusic, at, b, held, failed, badUse>>

\* zcmusic_change_track(zcmusic, n): a GME restarts at another track, under
\* the mutex; nothing happens to the others.
ChangeTrack ==
  /\ Calls("change_track")
  /\ music[zcmusic].kind = "GME" => owner = NoThread
  /\ Returned
  /\ UNCHANGED <<music, open, playlist, owner, libflags, zcmusic, newzcmusic, at, b, held, failed, badUse>>

\* zcmusic_get_curpos, zcmusic_set_curpos and zcmusic_set_speed of an OGGEX
\* test its stream and then use it, without the mutex.
Seek ==
  /\ Calls("seek")
  /\ IF zcmusic = NoHandle \/ music[zcmusic].kind # "OGGEX" \/ music[zcmusic].s = NoStream
     THEN Returned /\ UNCHANGED <<at, held>>
     ELSE /\ held' = music[zcmusic].s
          /\ at' = [at EXCEPT !["game"] = "seek"]
          /\ UNCHANGED todo
  /\ UNCHANGED <<music, open, playlist, owner, libflags, zcmusic, newzcmusic, b, failed, badUse>>

SeekUse ==
  /\ at["game"] = "seek"
  /\ badUse' = (badUse \/ held \notin open)
  /\ held' = NoStream
  /\ at' = [at EXCEPT !["game"] = "idle"]
  /\ Returned
  /\ UNCHANGED <<music, open, playlist, owner, libflags, zcmusic, newzcmusic, b, failed>>

\* zcmusic_exit takes the mutex, and unloads the songs of the playlist.
ExitLock ==
  /\ Calls("exit")
  /\ owner = NoThread
  /\ owner' = "game"
  /\ at' = [at EXCEPT !["game"] = "exit"]
  /\ UNCHANGED <<music, open, playlist, libflags, zcmusic, newzcmusic, todo, b, held, failed, badUse>>

\* zcmusic_unload_file would take the mutex again, which with pthreads blocks
\* the thread that holds it: the loop gets past an empty playlist only.
ExitUnlock ==
  /\ at["game"] = "exit"
  /\ playlist = <<>>
  /\ owner' = NoThread
  /\ libflags' = FALSE
  /\ at' = [at EXCEPT !["game"] = "idle"]
  /\ Returned
  /\ UNCHANGED <<music, open, playlist, zcmusic, newzcmusic, b, held, failed, badUse>>

-----------------------------------------------------------------------------
(* What the player asks of the library                                     *)

\* zcmusic_load_file and zcmusic_load_file_ex: h is the new song.
Loaded(h) ==
  /\ h \in Handles \ Allocated
  /\ \E kind \in Kinds :
       IF kind \in {"DUH", "GME"}
       THEN /\ music' = [music EXCEPT ![h] = [Free EXCEPT !.kind = kind]]
            /\ UNCHANGED open
       ELSE \E s \in Streams \ open :
              /\ music' = [music EXCEPT ![h] = [Free EXCEPT !.kind = kind, !.s = s]]
              /\ open' = open \cup {s}

\* Between two things the player does with its music.
Ready == at["game"] = "idle" /\ todo = <<>> /\ libflags

\* Mutant of TryMusic: the old song is stopped and not unloaded.
KeepsOldSong ==
  /\ Ready
  /\ \E h \in Handles :
       /\ Loaded(h)
       /\ newzcmusic' = h
  /\ todo' = <<"stop", "install", "play">>
  /\ UNCHANGED <<playlist, owner, libflags, zcmusic, at, b, held, failed, badUse>>

\* try_zcmusic: the new song is loaded before the old one is unloaded.
TryMusic ==
  /\ Ready
  /\ \E h \in Handles :
       /\ Loaded(h)
       /\ newzcmusic' = h
  /\ todo' \in {<<"stop", "unload", "install", "play">>,
                <<"stop", "unload", "install", "play", "change_track">>}
  /\ UNCHANGED <<playlist, owner, libflags, zcmusic, at, b, held, failed, badUse>>

Install ==
  /\ Calls("install")
  /\ zcmusic' = newzcmusic
  /\ newzcmusic' = NoHandle
  /\ Returned
  /\ UNCHANGED <<music, open, playlist, owner, libflags, at, b, held, failed, badUse>>

\* play_DmapMusic: the old song is unloaded first.
DmapMusic ==
  /\ Ready
  /\ todo' = <<"stop", "unload", "load", "play", "change_track">>
  /\ UNCHANGED <<music, open, playlist, owner, libflags, zcmusic, newzcmusic, at, b, held, failed, badUse>>

\* If the song cannot be loaded, a MIDI plays instead, or nothing does.
\* jukebox and music_stop stop and unload the song that is there no longer.
DmapLoad ==
  /\ Calls("load")
  /\ \/ \E h \in Handles :
          /\ Loaded(h)
          /\ zcmusic' = h
          /\ Returned
     \/ /\ todo' \in {<<>>, <<"stop", "unload">>}
        /\ UNCHANGED <<music, open, zcmusic>>
  /\ UNCHANGED <<playlist, owner, libflags, newzcmusic, at, b, held, failed, badUse>>

\* Mutant of Requests: the program ends without music_stop.
QuitsPlaying == {<<"stop", "unload">>, <<"pause">>, <<"resume">>, <<"seek">>, <<"exit">>}

\* music_stop, music_pause and music_resume, a script's reading or setting of
\* the position or the speed, advanceframe's poll when there is a song, and
\* the end of the program, music_stop then zcmusic_exit.
Requests ==
  {<<"stop", "unload">>, <<"pause">>, <<"resume">>, <<"seek">>, <<"stop", "unload", "exit">>}
    \cup IF zcmusic = NoHandle THEN {} ELSE {<<"poll">>}

Request ==
  /\ Ready
  /\ todo' \in Requests
  /\ UNCHANGED <<music, open, playlist, owner, libflags, zcmusic, newzcmusic, at, b, held, failed, badUse>>

Poll(t) ==
  \/ PollLock(t)
  \/ PollStopped(t)
  \/ PollSong(t)
  \/ PollReset(t)
  \/ PollReload(t)
  \/ PollUnlock(t)

Call ==
  \/ Stop
  \/ UnloadErase
  \/ UnloadFree
  \/ PlayStart
  \/ PlayPush
  \/ Pause
  \/ ChangeTrack
  \/ Seek
  \/ SeekUse
  \/ ExitLock
  \/ ExitUnlock
  \/ Install
  \/ DmapLoad

Next == (\E t \in Threads : Poll(t)) \/ Call \/ TryMusic \/ DmapMusic \/ Request

Spec == Init /\ [][Next]_vars

\* The timer calls zcmusic_poll again and again; a thread that is in a call
\* goes on with it; and one that waits for the mutex gets it in the end if it
\* is free again and again.  The game's thread may ask for nothing.
Fairness ==
  /\ \A t \in Threads : SF_vars(Poll(t))
  /\ SF_vars(Call)

FairSpec == Spec /\ Fairness
-----------------------------------------------------------------------------
(* Properties                                                              *)

CallNames == {"poll", "stop", "unload", "play", "pause", "resume", "change_track",
              "seek", "exit", "install", "load"}

\* Every variable has its type. The longest list of calls is play_DmapMusic's.
TypeOK ==
  /\ music \in [Handles -> [kind : Kinds \cup {"none"},
                            playing : {"STOPPED", "PLAYING", "PAUSED"},
                            s : Streams \cup {NoStream}]]
  /\ open \subseteq Streams
  /\ playlist \in Seq(Handles)
  /\ owner \in Threads \cup {NoThread}
  /\ libflags \in BOOLEAN
  /\ {zcmusic, newzcmusic} \subseteq Handles \cup {NoHandle}
  /\ todo \in Seq(CallNames) /\ Len(todo) <= 5
  /\ at \in [Threads -> {"idle", "poll", "reload", "free", "push", "seek", "exit"}]
  /\ at["timer"] \in {"idle", "poll", "reload"}
  /\ b \in [Threads -> Nat \ {0}]
  /\ held \in Streams \cup {NoStream}
  /\ {failed, badUse} \subseteq BOOLEAN

\* zcmusic_unload_file takes a song out of the playlist before it frees it, so
\* that "an soon-to-be invalid pointer" is never left there; and no song is
\* polled twice in a round.
PlaylistValid ==
  /\ ToSet(playlist) \subseteq Allocated
  /\ IsInjective(playlist)

\* A song that plays, or is paused and may be resumed, is on the playlist:
\* else nothing would feed it.  Exempt are zcmusic_play's last and
\* zcmusic_unload_file's last step.
PlayingIsListed ==
  \A h \in Handles :
    music[h].playing # "STOPPED" =>
      h \in ToSet(playlist) \/ (h = zcmusic /\ at["game"] \in {"push", "free"})

\* zcmusic_poll's iterator stays valid from step to step, and the song it
\* reloads stays allocated: no other thread touches the playlist meanwhile.
PollerSafe ==
  \A t \in Threads :
    /\ at[t] = "poll" => owner = t /\ b[t] <= Len(playlist) + 1
    /\ at[t] = "reload" => owner = t /\ b[t] <= Len(playlist) /\ Song(t) \in Allocated

\* When zcmusic_stop has returned the song has no stream, and no poll that
\* comes before the unloading gives it one again.
StopSilences ==
  at["game"] = "idle" /\ todo # <<>> /\ Head(todo) = "unload" /\ zcmusic # NoHandle
    => music[zcmusic].s = NoStream

\* Streams belong to one song each and none is lost; the only songs there are
\* are the player's.
NoLeak ==
  /\ open = {music[h].s : h \in Allocated} \ {NoStream}
  /\ \A g, h \in Allocated : music[g].s = music[h].s /\ music[g].s # NoStream => g = h
  /\ Allocated \subseteq {zcmusic, newzcmusic}

\* No thread uses a stream after it was destroyed, as long as the files of
\* the songs can be read.
UsesOpenStream == badUse => failed

\* What a caller of zcmusic_get_curpos, zcmusic_set_curpos or
\* zcmusic_set_speed relies on: the stream that the call has found in the song
\* is still there when it is used.  (The poll may have destroyed it.)
SeeksOpenStream == ~badUse

\* Every call of the game's thread returns: it gets the mutex in the end, and
\* zcmusic_exit never waits for the mutex that it holds itself.
CallsReturn == todo # <<>> ~> todo = <<>>

\* A song that plays is polled again and again until it no longer does.
KeepsPlaying ==
  \A h \in Handles :
    LET plays == h \in ToSet(playlist) /\ music[h].playing = "PLAYING"
    IN  plays ~> (~plays \/ \E t \in Threads : AtSong(t) /\ Song(t) = h)
=============================================================================
