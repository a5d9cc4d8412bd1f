# ZeldaClassic in TLA+

Specifications, model-checking configurations and proofs about ZeldaClassic, a
game engine (the player, `zelda`), its quest editor (`zquest`), a compiler for
its script language and a launcher. Paths below are relative to the root of the
repository; `src/` is the directory of the program's own code.

`PROJECT.json` lists the components, the runs, the source lines behind every
definition, the hazards, the findings and the theorems. This file explains them.

## 1. The system

The repository is mostly vendored code (`allegro/`, `libs`), data and documentation.
The program's own logic is in `src/`, about 450,000 lines of C++. It is single-threaded
but for one thing: Allegro's timer thread runs short callbacks (the frame clock,
and `zcmusic_autopoll`). What makes it hard is *re-entrancy*: sprites, scripts
and screens call back into the structures that are being walked to call them,
and scripts run scripts on one set of global registers. Between programs there
are files that outlive crashes (saves, locks, temporary files) and two pipes.

| component | state | operations | interacts with | correct when |
|---|---|---|---|---|
| **Sprite lists** (`sprite.cpp`: `sprite_list`) | array and count; map UID → index; one-entry lookup cache; `active_iterator`; limit | `add`, `remove`, `del`, `swap`, `clear`, `getByUID`, `setMax`; the walks `animate`, `run_script` | every sprite, every script, the hero, screen changes: each calls back into the list while it is walked | no sprite is lost between the lists or held by two; lookups are never stale; every sprite has exactly one turn per frame |
| **Music library** (`zcmusic.cpp`) | playlist, its mutex, the songs and their streams, `libflags` | load, play, pause, resume, stop, unload, poll, seek, exit | the player (`zc_sys.cpp`) from the game's thread, the timer's thread through `zcmusic_autopoll` | nothing freed is polled, what plays is fed, nothing leaks, what is stopped is silent, calls return |
| **Single instance** (`single_instance_unix.cpp`, `win32.cpp`) | lock file and socket, or named mutex | `is_only_instance` | other processes, `main` of the player | two players never share the save file; nobody is locked out by a dead one |
| **Generic scripts** (`ffscript.cpp`, `ffscript.h`, `zelda.cpp`: `game_loop`) | `genscript_timing`, `user_scripts` (running, initialized, what each waits for), the interpreter's `ri`, `stack`, `curscript`, the flags of the frozen run | `runGenericPassiveEngine` at 39 timings of a frame, `runGenericFrozenEngine`, launch, quit, `WaitTo`, `Waitframe` | the game loop, the hero's own frames, warps, save games, every other kind of script | every script has its turn at the timing it waits for and never out of time; whoever runs others comes back to its own registers |
| Script engine, the rest (`ffscript.cpp`) | script arrays, `refInfo` per script, initialisation flags | the interpreter, array allocation | all of the above | arrays are freed with their owner |
| Enemies, weapons, items (`guys.cpp`, `weapons.cpp`, `items.cpp`) | fields of each sprite, `dragging` (an index into `items`) | `animate`, hits | the sprite lists, the hero | indices kept across frames still name the same item |
| Hero, screens, frame loop (`hero.cpp`, `maps.cpp`, `zelda.cpp`) | the game's state | one frame, scrolling, warps, cutscenes | all | phases of a frame run in order; waits end |
| **Save files** (`title.cpp`, `gamedata.cpp`, `zsys.cpp`) | `saves[]`, `savecnt`, `currgame`, the game that is played, the live data of generic scripts, one file, temporary files | load, register, copy, delete, choose, save, quit, exit | file system, crashes, generic scripts | a game is saved to its own slot, as it is; no game is hidden; only the writing itself endangers the file |
| System layer (`zc_sys.cpp`), MIDI (`midi.cpp`) | sound channels, palettes, current MIDI | sound, music, timing, input | music library | one music at a time |
| **Compiling scripts from the editor** (`zquest.cpp`, `parser/parser.cpp`, `process_managment`, `zscrdata.h`) | two pipes, the files `tmp2` and `tmp3`, a handle that is never closed | launch, rules, message and reply, result, reading the scripts, kill | two processes | the two keep step; the editor believes only what the compiler said, and comes back |
| ZScript compiler (`parser/`) | scopes, types, symbol tables | declare, resolve, cast, generate code | the editor, through a child process | a name resolves to the innermost declaration; casts are consistent |
| GUI toolkit (`gui/`) | widget tree, selections | events, `setVisible`, `select` | dialogs of the editor and the launcher | one selection, the same in all widgets that show it |
| Quest editor, quest files (`zquest.cpp`, `qst.cpp`) | the quest in memory | edit, read, write | files | what is written is what is read |
| Launcher (`launcher/`) | settings | start a program | operating system | (no state beyond one call) |
| Drawing, subscreens | bitmaps | draw | all | (no state other components depend on) |

What is hard to test, with the line where it bites, is the list `hazards` of
`PROJECT.json`. In short: sprites that delete, create, swap or reflect each
other while a list is walked; loops of callers that delete and then step; lists
at their limit; the timer polling between any two steps of the game's thread; a
stream that fails just when a script seeks in it; a crash between any two
system calls of a start; rounds of scripts that are skipped, nested and caught
up with; scripts that run scripts; a crash or a full disk between any two steps
of a save; an index into the saves that is stale; two processes that wait for
each other.

## 2. Plan

Order: what the whole game loop rests on first, then what runs concurrently.

| step | module | source | what for | state |
|---|---|---|---|---|
| 1 | `SpriteLists`, `SpriteWalk` (abstract), `SpriteListsProofs`, `SpriteWalkProofs` | `sprite.cpp` | ownership, lookup, turns; refinement; all of it proved | done |
| 2 | `MusicLibrary` | `zcmusic.cpp`, calls in `zc_sys.cpp` | two threads, streams, mutex, liveness | done |
| 3 | `SingleInstance`, `SingleInstanceProofs` | `single_instance_unix.cpp`, `win32.cpp` | processes and crashes; proved | done |
| 4 | `MusicLibraryProofs` | | the safety of step 2 for any songs and streams, from what each place of the game's thread implies | done, all of it proved |
| 5 | `DraggedItems` | `weapons.cpp:5666`, `hero.cpp:3328`, `hero.cpp:26812`, `guys.cpp:23574` | the indices weapons keep into `items`, shifted by hand when an item is deleted | to do |
| 6 | `ListLoops` (composes with `SpriteLists`) | `zelda.cpp:3072`, `zelda.cpp:3131`, `guys.cpp:13866`, `hero.cpp:7004` | what a caller's own `for` loop with `del(i)` or `remove` leaves behind | to do |
| 7 | `GenericScripts`, `GenericScriptsProofs` | `ffscript.cpp:644`, `zelda.cpp`, `hero.cpp` | the scheduler of generic scripts, composed with the game loop that drives it; the registers that all scripts share | done, its safety proved |
| 8 | `ScriptData` | `ffscript.cpp` | initialisation flags of item scripts; ownership of script arrays | to do |
| 9 | `MusicPosition` (extends `MusicLibrary`) | `zcmusic.cpp:226`, `hero.cpp:27322` | the counter that both threads increase and the cutscene that waits for it; `SetOggSpeed` | to do |
| 10 | `SaveFile`, `SaveFileProofs` | `title.cpp`, `gamedata.cpp`, `zsys.cpp` | slots and file; crashes and errors between the calls | done, proved |
| 11 | `CompilerPipe`, `CompilerTalk` (abstract), `CompilerPipeProofs` | `zquest.cpp`, `parser/parser.cpp` | two processes, two pipes, two files; refinement | done, its safety and the refinement proved |
| 12 | `RadioSet`, `Scope` | `gui/`, `parser/` | selections kept twice; resolution of names against a reference definition | to do, last |

Abstract specifications worth stating: `SpriteWalk` (what a walk promises; done);
`CompilerTalk` (what compiling promises the editor; done); for the music library, "a set
of songs that are fed until stopped". For save files the
natural one, a register that a save changes atomically, is not implemented by the
code, which overwrites its only copy in place; `FileIntact` says what is left of it.

Theorems worth proving next: that `MusicLibrary` implements the abstract specification
just named; that the shifting of `dragging` keeps it right where the code shifts exactly once.

## 3. The modules

### SpriteLists

One `sprite_list` is a record with the fields of the class (`sprites`,
`containedUIDs`, `lastUIDRequested`, `lastSpriteRequested`, `active_iterator`,
`max_sprites`; `count` is the length of `sprites`). Its methods are operators on
that record: `Added`, `Removed`, `Deleted`, `Swapped`, `Cleared`, `Found` and
`LookedUp` (the result of `getByUID`, and its effect on the cache). Actions
apply them to the engine's lists:

- *The walks.* `animate` and `run_script` are split where control passes to a
  sprite: `StartWalk`, `CallSprite` (the callback begins), `KeepSprite`,
  `DropSprite` (it returned true: the loop deletes whatever is at
  `active_iterator` by then), `RemoveSelf` (the sprite's script removed it and
  unwinds), `SkipFrozen`, `EndWalk`. `pass` says which list is walked, how, and
  whether a callback runs; `turns` counts, for the properties only, who was called.
- *What callers do*, between walks or inside a callback: `Create`, `Delete`,
  `Swap`, `Clear`, `Lookup`, `SetMax`, and between walks `Reflect`, `PhantomsCleanup`
  and `SetFreeze`.
- *What the code lets go of*: `PhantomsCleanup` takes weapons that are far off the
  screen out of their list with `remove` alone, and `Dustpile` is the item that a dying
  Ganon makes and does not add. `stray`, a history variable, is the set of these.

A sprite is its UID. A pointer is the UID it was allocated with, also when it
dangles; `live` says what is allocated. The constant `ReflectIntoFull` switches on
behaviour that the code has and that breaks it (finding 1). With FALSE the model says
what the rest of the code is correct for. A script may clear the list that is
being walked, its own sprite included. `MapsCorrect` and what follows from it assume `~ReflectIntoFull`;
`WalkCorrect`, `Ownership` (of the sprites that are not strays), `EveryoneServed` and the refinement assume nothing.

Bounds of the model: `MaxUID` sprites in all (the counter of `getNextUID`),
`Limits` for `max_sprites`.

Decisions a reader should know of. Swaps made in a callback concern only
sprites behind the current one, because the only code that swaps during a walk
is a segmented enemy reordering its own segments (`guys.cpp`). A sprite deletes
itself only by returning true or through `RUNSCRIPT_SELFDELETE`; `Delete` inside a
callback therefore excludes the running sprite. `Reflect` happens between walks,
where the hero's collision code runs, and so does `PhantomsCleanup`, one weapon a step. A walk inside a callback of another walk
does not occur, and is not modelled.

### SpriteWalk

What a walk promises, with sets instead of arrays: a sprite is in one list at
most; whoever is in the list is offered one turn before the walk finishes, also
those who enter during it. `SpriteLists!Promised` maps `waiting` to the sprites
after `Reached(l)`. A deletion at or before `active_iterator` that did not move
the iterator would map to a step that takes a sprite out of `waiting` without a
turn, and `SpriteWalk` has no such step.

### MusicLibrary

The game's thread works off `todo`, the calls one function of the player makes in
a row (`try_zcmusic`, `play_DmapMusic`, `music_stop`, ...); `TryMusic`, `DmapMusic` and
`Request` choose the next such list. The timer's thread polls at any time. `at` is
where each thread is, `owner` the holder of `playlistmutex`. Each call of the library
is split exactly where it gives the other thread a chance to see it halfway:

- `zcmusic_poll`: `PollLock`; per song `PollStopped` (erase), `PollSong`
  (feed or pass over), `PollReset` and `PollReload` (destroy the stream; load the
  file again); `PollUnlock`.
- `zcmusic_unload_file`: `UnloadErase` under the mutex, `UnloadFree` without it.
- `zcmusic_play`: `PlayStart` without it, `PlayPush` under it.
- the position and speed functions of OGGEX: `Seek` reads the pointer, `SeekUse`
  uses it, no mutex.
- `zcmusic_exit`: `ExitLock`, `ExitUnlock`. With pthreads the mutex is not
  recursive, so the unloading loop inside can only be passed when the playlist is
  empty. (On Windows the critical section is recursive; there the loop works.)
- the others (`Stop`, `Pause`, `ChangeTrack`) are one step, enabled when the mutex
  is free.

A song is at an address in `Handles`, its stream at one in `Streams`; both are
reused, so that a stale pointer can meet a new object. `ReadErrors` lets a stream
fail while it plays and its file fail to load again. `failed` and `badUse` are
history variables: whether that has happened, and whether a stream that does not
exist has been used.

`Erased` is the loop that takes a song out of the playlist, as a function of how many
entries it has passed, so that it can be reasoned about. `Song(t)` is what the iterator
`b[t]` of a poll points to.

### SingleInstance

`is_only_instance`, one action per system call, on either platform. Processes
start, answer and end; `End` is exit and crash alike and may come between any two
calls; the system then closes sockets and handles, and leaves the file. `overlap`,
`company` and `failed` are history variables for the properties.

### GenericScripts

The calls that have not returned are the sequence `stack`; its last element
is the innermost. There are three kinds: a call of `runGenericPassiveEngine` (its timing,
and the slot `q` its loop has reached, 0 while it catches up), a turn of a script in
`run_script` (whose registers it began with, and what wait it came from), and a call of
`runGenericFrozenEngine` (with what `push_ri` and its local variables keep). `ri` is the
script whose registers the interpreter uses: a script's command is an action only
while `ri` is the script of the innermost call (`Executes`).

- *The game loop.* `phase` is the timing that `game_loop` calls next. `LoopTop` resets
  `genscript_timing`; `LoopCall` calls the engine; `LoopSkip` passes a timing that a
  frozen frame, or one without drawing, omits; `RunHost` runs a script of another kind.
  In `Hero.animate` there may be frames of its own, with calls at any timing
  (`HeroFrames`: scrolling, wipes), a warp that ends or restarts scripts (`HeroWarps`)
  and the end of the frame (`HeroEndsFrame`). Between frames: `Continue`, `LoadGame`.
- *The engine.* `CatchUp` (a round that was passed over, one at a time, as a nested call),
  `StartRound`, `SkipScript`, `RunGeneric`, `EndRound`.
- *Scripts.* `Launch`, `Stop`, `WaitToReturns`, `WaitToWaits`, `Waitframe`, `Ends`, `RunFrozen`.
- *Frozen runs.* `FrozenTurn` once per frame, `QuitsFrozen`, `FrozenReturns`.

Timings are `0..EndFrame`; only their order, the first and the last, and which may be
omitted matter to the code. The `pc` of a script is its first command or a later one; a command
that runs a frozen script adds 1 to it only in `FrozenReturns`, when that has come to its end.
`owed` and `relaunched` are history variables: the scripts that a turn in the round is
due to, and those that were launched in a turn of their own. A script can do that with
`Running = true` on itself, or on the script below it from a frozen one: `launch` sets `pc` to 0
and clears `initialized`, and the command that is being executed adds 1 to `pc`.
`BeginsAtFirstCommand` says where a script launched in either way begins.

`SpecWipes` adds the commands that play a wipe, which the interpreter does not cope
with (finding 4).

### SaveFile

`process` says where the program is, `step` what `load_savedgames` or `save_savedgames`
does next. A game is its name, how far it has been played, and the data of its
generic scripts; a file is absent, empty, cut, short or whole. `Start`, then one of
`NotFound`, `StartsAnew`, `CannotOpen`, `Decode`; then `CannotReopen`, `ReadSaves` or
`Reset`. On the file select screen: `Register`, `CancelRegister`, `CopySave`,
`DeleteSave`, `Choose`. In a game: `Play`, `SaveGame`, `QuitToTitle`, `Reload`, `Exit`.
A save is `OpenTemp`, `WriteTemp`, `EncodeOpens`, `EncodeWrites`, `EncodeEnds`, `DeleteTemp`,
with an action for each way to fail. `Crash` comes between any two. `kept` and `left`
are history variables.

The errors that nobody looks at are in it: `pack_fclose` of the temporary file may lose
its end (`WriteTemp` leaves `temp` short), `fputc` and `fclose` of the save file may
(`EncodeOnFullDisk`), and `GoOn` is the same whatever `save_savedgames` returned.

### CompilerPipe

Two programs, one action per read or write: the editor's case 5 of `onCompileScript`
and the compiler's `main`. `toCompiler` and `toEditor` are the pipes, `messages` the file `tmp3`,
`tmp2` the number of the compilation whose scripts are in that file. `Crash` stops the
compiler at any point. The editor holds its own copy of the ends of the pipes
that the compiler uses, so that a read does not fail when the compiler is gone. The
editor opens `tmp3` in each compilation and never closes it: `handles` counts. `Launch` begins with
the file `tmp`, which cannot be opened either when no handle is left, and then
no compilation starts; that `tmp3` cannot be opened (`OpenConsole`) has other causes, as the
compiler has it open too.

### CompilerTalk

The same conversation face to face, without pipes, files and crashes: the compiler says one
message (`Say`), and no other before the editor has heard it (`Hear`: it was handed to `ReadConsole`
with its severity; how that prints it is another matter, see section 5); it comes to a verdict
when all have been heard (`Conclude`), and the editor takes that verdict for the answer
(`Learn`) and returns. Or the editor cannot open `tmp3`, takes the first message for the answer
(`Miss`) and comes back with none. That somebody falls silent for ever is not excluded: a
crash maps to it. `CompilerPipe!Promised` maps what is said to `messages`, what is heard to what was
`shown`, the verdict to what `main` of the compiler has in `res`, and the answer to `code` from
the moment the editor has stopped reading. A code that overtakes its text, a second text before the first
reply, or a result that overtakes a message, would each be a step that
`CompilerTalk` does not have.

### MC modules

`MCSpriteLists` and `MCMusicLibrary` give TLC values for sets that a
configuration file cannot write and the symmetry of the lists.

## 4. The runs

| run | bounds | distinct states | shows |
|---|---|---|---|
| `sprite_lists` | 2 lists, 3 sprites, limits 1 and 3, sprite 2 freezes | 150,200 | all seven properties below |
| `reflect_into_full` | the same with limits 1 and 2, `ReflectIntoFull` | counterexample | finding 1 |
| `music` | 2 songs, 3 streams, all 5 kinds, read errors | 78,062 | all nine properties below |
| `seek_race` | only OGGEX, read errors | counterexample | finding 2 |
| `single_instance` | 3 processes, both platforms, several permitted | 5,644 | all three properties below |
| `two_instances` | 2 processes on Unix | counterexample | finding 3 |
| `generic_scripts` | 2 scripts, 3 timings of which one may be omitted, calls up to 5 deep | 882,180 | all seven properties below |
| `generic_turns` | the same with 1 script | 16,044 | liveness: `GetsItsTurn` |
| `wipe_in_script` | as `generic_scripts`, with wipes | counterexample | finding 4 |
| `save_file` | 2 slots, 2 names, played once, 1 crash | 3,085,632 | all six properties below |
| `save_slots` | the same | counterexample | finding 5 |
| `compiler_pipe` | 3 messages, 4 compilations, 3 handles | 17,356 | all seven properties below |

`sprite_lists`: `TypeOK` (among it: the walk's index is never outside the list),
`Consistent` (the assertions of `checkConsistency`, which nothing calls),
`OneOwner` (whatever lists do to one another, a sprite stays in exactly one until it is
freed; the strays, which the code itself lets go of, are in none), `NoStaleLookup`,
`TurnsInOrder`, `EveryoneHadOneTurn` (an action
property of `EndWalk`) and `PromiseKept` (refinement of `SpriteWalk`).

`music`: `TypeOK`, `PlaylistValid`, `PlayingIsListed`, `PollerSafe`,
`StopSilences`, `NoLeak`, `UsesOpenStream` (a stream that does not exist is used only
after one has failed), and, under `FairSpec`, `CallsReturn` and `KeepsPlaying`.

`single_instance`: `TypeOK`, `NeverLockedOut`, `OneAtATime`.

`generic_scripts`: `TypeOK`, `OwnRegisters` (whoever is executed has its own registers,
also after scripts that it ran), `RoundInTime` and `NoneOwed` (a round is run when its
timing has come, and passes nobody over), `ExactWait` (`Waitframe`, and `WaitTo` without
`at_least`, end at that very timing), `BeginsAtFirstCommand` (a script that is launched begins at its
first command if and only if it was not launched in a turn of its own), `FrozenFlags`.
`generic_turns`: a script that runs gets its turn in the end.

`save_file`: `TypeOK`, `FileIntact`, `TempsExplained`, `NoGameHidden`, `OwnSlot`, and the
action property `SaveStores`.

`compiler_pipe`: `TypeOK`, `MessagesInStep`, `TrueResult`, `FreshScripts`, `CompilerGone`,
`TalkKept` (refinement of `CompilerTalk`) and, under the fairness of `Spec`, `EditorReturns`.

**Why the bounds are enough.** *Sprite lists.* Three sprites give every relation
of a deleted, current and waiting sprite (before, at, behind); a second list is
needed for reflection and for a list that is cleared while another is
walked; limits 1 and 3 make a list full, and longer than a limit lowered later.
The proofs remove the bounds. *Music.* The player never has more than two songs
(that is part of `NoLeak`), and a third stream leaves one address free to be reused.
For the safety properties the proofs remove these bounds too.
*Single instance.* A process that runs, one that has crashed and left its
file, and one that starts. *Generic scripts.* Two scripts: one before and one behind
another in the round, one that runs, launches or stops the other; three timings: the first, the
last, and one that may be omitted; five calls: a script of the engine that runs a
frozen script that runs another one. Liveness takes one script: with two it would not
finish in minutes. *Save files.* Two slots and two names: one game copied, deleted, moved up over the
other; one step of play tells a game from its save; one crash, and what it leaves.
*Compiler.* Three messages: of each severity; three handles and four
compilations, so that the last one comes before or after the handles are used up: a
compilation without `tmp3` uses none, and with all in use no further one starts. Each bound of these three is removed by the proofs.

Deadlock is looked for in all runs but two. A compiler that crashes leaves the
editor waiting for ever, so `compiler_pipe` does not look for it; `EditorReturns` is
what says that nothing else does. In `wipe_in_script` a script with another's registers executes
nothing in the model. In `music` no deadlock is found although the game's
thread stops after `zcmusic_exit`, since the timer goes on polling: `CallsReturn` is
what says that the game's thread does not hang.

**Fairness.** `MusicLibrary!FairSpec`: strong fairness of each
thread's `Poll(t)` and of the game's `Call`. The timer fires every 25 ms for as
long as the program runs (`zcmusic_init` installs it and nothing removes it), a
thread inside a call goes on with it, and a thread that waits for a mutex which
is free again and again gets it. It is strong because the mutex is not free
continuously: the other thread takes it again and again. Nothing obliges the game to ask
for anything: `TryMusic`, `DmapMusic` and `Request` have no fairness.

`GenericScripts!FairSpec`: the loop begins another frame and the engine goes on (weak);
each timing is reached now and then, by a call or by its omission, so that the hero does not
end every frame before it (strong); every turn of a script ends, and every frozen script
comes to its end (strong, since other steps come between). The code reports a script
that never waits as hung. Nothing obliges the hero to run frames or to warp,
a script to do more than to end its turn, or the player to quit.

`CompilerPipe!Spec`: weak fairness of each process: it goes on when the word it waits
for is there. `Crash` and `Launch` have none.

## 5. Findings

1. `hero.cpp:5981`: a weapon reflected into a full list is deleted by `add`, whose result is
   ignored, and then removed through a dangling pointer. The UID map and the
   list then disagree (`Consistent`).
2. `zcmusic.cpp:1632`: position and speed of an OGGEX are read and set without the
   mutex, between the timer's polls, one of which may destroy the stream after a read
   error (`SeeksOpenStream`).
3. `single_instance_unix.cpp:33`: two starts at the same moment may both be told
   they are the only one (`OnlyOne`); `win32.cpp:16` has the same gap.
4. `ffscript.cpp:28107`: a command of a script that plays a wipe runs the scheduler in the
   middle of the script, without `push_ri`; the script goes on with the registers of the last
   generic script that ran (`OwnRegisters`).
5. `title.cpp:2656`: every save copies the live data of the generic scripts into all
   slots, so that the other games lose theirs (`DataOfOwnGame`).

Each is the counterexample of the run that names the property.

Noted while reading, without a run:

- `ffscript.cpp:22880`: an enemy whose script calls `Screen->ClearSprites` for its own list is freed
  while its callback runs. The lists themselves stay right (`sprite_lists`).
- `zcmusic.cpp:786`: `zcmusic_stop` leaves OGG and MP3 songs marked as playing. All
  callers unload next, so that the player does not suffer.
- `ffscript.cpp:29393`: `WaitTo(t, true)` goes on at once when `t` is still to come, where
  `output/docs/ZScript_Additions.txt:2616` says that "any later timing will also end the
  wait"; called after `t`, it waits. `WaitToReturns` is what the code does.
- `ffscript.cpp:20836`: a script that is launched in a turn of its own, by itself or by a frozen
  script that it runs, starts at its second command, because `ffscript.cpp:29320` then
  adds 1 to the `pc` that `launch` has cleared. `output/docs/ZScript_Additions.txt:7694` says of
  `Running`: "If written to true, launches (or restarts) the script". `BeginsAtFirstCommand`
  states what the code does, in both directions.
- `hero.cpp:7009`: `PhantomsCleanup` removes weapons and does not free them; and its loop goes on
  behind the one that moved up. `guys.cpp:15802`: Ganon's pile of dust is allocated and the line that
  would add it is commented out, so that it is neither seen nor freed.
- `zquest.cpp:25014`: nothing closes `tmp3`. When the run-time library has no handle left,
  `fopen` of `tmp` (`zquest.cpp:24961`) fails, and scripts cannot be compiled any more.
- `zquest.cpp:25028`: the new part of `tmp3`, which may be a long message, is read into 512 bytes.
  The texts are not modelled.
- `zscrdata.h:349`: the cases of `ReadConsole` have no `break`: a warning is printed three
  times, as a warning, as an error and as information.
- `parser/parser.cpp:63`: codes are written with `sizeof(size_t)` and read with
  `sizeof(int32_t)`: the same in the 32-bit builds only.

## 6. The proofs

All are checked by TLAPS (SMT and Zenon for the steps, PTL for the temporal
conclusions). They hold for any values of the constants, under the assumptions
that the modules name.

**SpriteListsProofs.** First, what each operator does to the fields of a list
(`DeletedFields`, `RemovedFields`, ...), and that each keeps a list's map and cache
right (`DeletedExact`, ...). Then two invariants:

- `WalkInv == TypeOK /\ OneOwner /\ TurnsInOrder`. `EveryoneHadOneTurn` is a statement
  about the end of a walk and says nothing of its middle. `TurnsInOrder` is the
  strengthening that every step keeps: whoever stands before `Reached` has had
  one turn, whoever stands behind it none, and the running sprite stands exactly
  at it, or has left the list. It needs `TypeOK` (the index is in the
  list, or -1 after a deletion) and `OneOwner` (a sprite stands at one place only, and one that
  a step adds or lets go of stands nowhere else).
  One lemma per action; `CallerStep` is what the actions of callers share.
  `TurnsAreInOrder` states it for the run's property.
- `MapsInv`, that every list is `Exact`, given `WalkInv` and `~ReflectIntoFull`.
  `Consistent` and `NoStaleLookup` follow; `Consistent` speaks of the size of the
  map and therefore of finite sets.

**SpriteWalkProofs.** `Refinement`: every initial state of `SpriteLists` is one of
`SpriteWalk` under the mapping, and every step is one of its steps or a
stutter, from `WalkInv` before and after it.

**MusicLibraryProofs.** `IInv` is the checked invariants and what they rest on:

- `InCall`: which call the game's thread is in follows from where it is, and the
  calls still to make are a way through the graph `After`, so that every list that
  `TryMusic`, `DmapMusic` and `Request` choose, and what is left of one, is covered by one
  condition on neighbours. `AtMostFive` bounds such lists, which is what `TypeOK` says of `todo`.
- `HasSong`: where `zcmusic` and `newzcmusic` point to a song, and where they are NULL.
  `PlaylistValid` and `NoLeak` need it: a song that is installed over one that is
  still there would be lost.
- `Unlisted`: a song is not on the playlist before `PlayPush` and after `UnloadErase`; else it would be
  listed twice, or freed while it is listed.
- `HoldsMutex`: the holder of the mutex is at a place where the code holds it. This is what makes the
  poll's iterator (`PollerSafe`) and `Reloading` stable against the other thread.
- `Reloading`, `StreamsOfModules`, `Silent`, `Seeking`: what streams the songs have while a file is
  loaded again, for the kinds of song that never lose theirs, from `zcmusic_stop` to the end of
  `zcmusic_unload_file`, and while a script seeks. `StopSilences` is not inductive by itself: a poll that is
  just about to load the file again would give it a stream; `Silent` says that it cannot be at
  this song, since `zcmusic_stop` took the mutex.

First what the loop in `zcmusic_unload_file` leaves of the playlist (`Erased`: exactly
the other entries, each once), then one lemma per action. Theorems: `Invariance`, one for each
safety property of the run `music`, and `NobodyLocksTwice`: whoever holds the mutex never
comes to a place where it would lock it again. In `zcmusic_exit` that is so because the playlist is
empty by then, which follows from `NoLeak`, `PlaylistValid` and `HasSong`; it is the safety half of `CallsReturn`.
The theorems are about all steps in which streams fail as well; that a seek may use a
stream that has gone is finding 2, and `UsesOpenStream` accordingly says only that this needs a failure.

**SingleInstanceProofs.** `Inv` joins the type invariant, `OwnWay` (each platform
has its own places), `Solitude` (a process without company is the only one,
and the name that it unlinked is still free) and `InTurn` (while starts do not
overlap, the file names the instance, and nobody passes `connect` while there is
one). `StartsAlone`, `MutualExclusion` and `LetsGo` follow.

**GenericScriptsProofs.** `IInv` adds to the checked properties the shape of the
stack (`Fits`: which call may stand on which: an engine's on the loop or on one
engine that catches up, a script's on its round or on its frozen run, a frozen run's on the
script whose registers and flags it has saved), `TurnTaken` (a script in its turn is
initialized, unless it was launched in that turn, and owed nothing), `Begins` (a script is at its first
command until it is initialized; one launched in its own turn is behind it, or will be
when the call that interrupts the turn returns) and `StillDue` (whoever is owed a turn still waits for this
round, and its slot is ahead). `OwnRegisters` is not inductive without `Fits`: the registers that
`FrozenReturns` restores have to be those of the call below it. `BeginsAtFirstCommand` is not
inductive without `Begins`, since a script launched by a frozen one that it runs stands at its first
command until that comes to its end. First the lemmas about
stacks (what stays when a call is pushed, changed or popped), then one lemma per
action and conjunct.

**SaveFileProofs.** `IInv` adds `NoGaps` (the slots have no gap in memory *and in the file*, at
any time: else a game could be hidden after the next start), `Copied` and `DataCopied` (from the
moment `SaveGame` copies the game until `encode_file_007` ends, slot and data stay those
of the game), `HalfWritten`, `TempThere`, `GoesBack`. `SaveStores` follows from `Copied` and `DataCopied`.

**CompilerPipeProofs.** `Conversation`: for each place of the compiler's program, what is in the two
pipes, where the editor can be, and how much of `tmp3` it has read; a crashed
compiler has left the pipes as they were at some place. `MessagesInStep` and `TrueResult` follow
from it with the content of the words. One lemma per action. `Refinement`: each step of `CompilerPipe`
is a step of `CompilerTalk` or a stutter (`NextView`), from `IInv` before and after it. It needs
`MessagesInStep` and, of `Conversation`, that the compiler is past its first message only when every
earlier one has been shown, unless `tmp3` could not be opened.

Only model-checked: the liveness properties (`CallsReturn`, `KeepsPlaying`, `GetsItsTurn`,
`EditorReturns`): fairness and ENABLED are out of the prover's reach. Every other property of a
passing run is a theorem. The prover cannot instantiate the library's theorems of induction; where
a proof needs one, about the loop that `Erased` stands for, it is written out by the smallest number
for which the claim would fail. No module here uses RECURSIVE operators.

## 7. Not modelled

- Of `sprite_list`: drawing, hit tests, counts by ID and `check_conveyor`; overflow of
  `SLMAX`; of sprites: everything but UID and `canfreeze`, and those that are made for an owner of
  another kind and never for a list (items of subscreens, `mirror_portal`, the weapon
  that `hit_enemy` makes and frees).
- Of the music library: the position counter, volumes and track numbers; decoding; failure
  of `malloc`; and the double initialisation by the editor (see the hazards).
- Of the generic scripts: what they compute; `Waitdraw`; the F6 and save engines, which
  push the registers as the frozen engine does.
- Of the save files: the icons' file, `save_game_configs`, standalone and test mode; a game's
  quest and its other fields. `set_quest` and the name are one, since `register_name` sets both.
- Of the compilation: what is compiled; the console's window and process; two editors
  in one directory, which would share the temporary files; the Unix side of `process_manager`, which keeps
  descriptors as `FILE` pointers and cannot work.
- The other rows of section 1's table; `PROJECT.json` says why for each
  component, and the plan says what comes next. Most of the 450,000 lines are data formats
  (`qst.cpp`), dialogs (`zquest.cpp`, `zq_*.cpp`), the behaviour of single kinds of enemies
  (`guys.cpp`), opcodes (`ffscript.cpp`) and code generation: much data and little control.

## 8. Running

    tlc -config MCSpriteLists.cfg MCSpriteLists.tla
    tlapm SpriteListsProofs.tla

and so on; `PROJECT.json` pairs every configuration with its module.
