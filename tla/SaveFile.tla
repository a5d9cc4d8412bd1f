----------------------------- MODULE SaveFile -----------------------------
(***************************************************************************)
(* The saved games of the player (src/src/title.cpp, gamedata.cpp): the    *)
(* slots in memory, the one file that holds them all, and the way from     *)
(* the file select screen into a game and back.                            *)
(*                                                                         *)
(* save_savedgames writes all slots to a temporary file, encodes that into *)
(* the save file, which it overwrites in place, and deletes it.  Reading   *)
(* goes the same way back.  The player may crash between any two of these  *)
(* steps, a file may not open, and the disk may be full; the program goes  *)
(* on after errors, and what save_savedgames returns is never looked at.   *)
(*                                                                         *)
(* The data of the generic scripts is kept apart from the rest of a game:  *)
(* it is live in user_scripts while a game is played, init_game loads it   *)
(* from the slot and writesaves stores it.                                 *)
(***************************************************************************)
EXTENDS Naturals

CONSTANTS
  NumSlots,  \* MAXSAVES, 15 in the code (1 in standalone mode, not modelled)
  Names,     \* the names that players give to games
  NoName,    \* the name in a slot that is free
  MaxPlay,   \* bound: how far a game is played
  MaxLeft    \* bound: how often the program ends in the middle of its work

ASSUME SlotsAssumption == NumSlots \in Nat \ {0}
ASSUME NamesAssumption == NoName \notin Names
ASSUME BoundAssumption == MaxPlay \in Nat /\ MaxLeft \in Nat

Slots == 0..NumSlots - 1

(***************************************************************************)
(* Data of generic scripts: which game changed it last, and when.          *)
(* A game: its name, how far it has been played, and the data of its       *)
(* generic scripts as gamedata holds it.  No quest is chosen for a free    *)
(* slot, but it may hold data.                                             *)
(***************************************************************************)
GenData == [of : Names \cup {NoName}, at : 0..MaxPlay]
NoData  == [of |-> NoName, at |-> 0]
Games   == [who : Names \cup {NoName}, at : 0..MaxPlay, gen : GenData]
Free    == [who |-> NoName, at |-> 0, gen |-> NoData]
Cleared == [i \in Slots |-> Free]

(***************************************************************************)
(* A file: absent, empty, cut (its end is missing, so that its checksum is *)
(* wrong), short (it can be decoded, but what it holds cannot be read) or  *)
(* whole.                                                                  *)
(***************************************************************************)
Contents == [Slots -> Games]
Files == [st : {"absent", "empty", "cut", "short", "whole"}, slots : Contents]
Bad(st) == [st |-> st, slots |-> Cleared]
Whole(s) == [st |-> "whole", slots |-> s]

VARIABLES
  process,   \* "off", "reading" (load_savedgames), "title" (select_game) or "play"
  step,      \* what save_savedgames or load_savedgames does next
  then,      \* where the player goes on when the games are saved
  saves,     \* the slots
  savecnt,   \* how many of them the file select screen lists
  currgame,  \* the slot of the game that was chosen last
  game,      \* the game that is played
  live,      \* the data in user_scripts
  temp,      \* what the temporary file of save_savedgames holds
  temps,     \* how many temporary files there are
  file,      \* SAVE_FILE
  kept,      \* history: the file as it was found or as its last writing left it
  left       \* history: how often the program ended in the middle of its work

memory == <<saves, savecnt, currgame, game, live>>
disk   == <<temps, file, kept, left>>
vars   == <<process, step, then, memory, temp, disk>>

Init ==
  /\ process = "off" /\ step = "none" /\ then = "off"
  /\ saves = Cleared /\ savecnt = 0 /\ currgame = 0
  /\ game = Free /\ live = NoData
  /\ temp = "none" /\ temps = 0
  /\ file \in {Bad(st) : st \in {"absent", "short"}} /\ kept = file
  /\ left = 0

(***************************************************************************)
(* Where the program goes.                                                 *)
(***************************************************************************)

\* select_game lists the slots before the first free one
Listed(s) == CHOOSE n \in 0..NumSlots :
               /\ \A i \in Slots : i < n => s[i].who # NoName
               /\ n \in Slots => s[n].who = NoName

EnterTitle(s) ==
  /\ process' = "title" /\ step' = "none" /\ temp' = "none"
  /\ saves' = s /\ savecnt' = Listed(s)
  /\ UNCHANGED <<then, currgame, game, live>>

\* nothing but the disk outlives the process
End ==
  /\ process' = "off" /\ step' = "none" /\ then' = "off" /\ temp' = "none"
  /\ saves' = Cleared /\ savecnt' = 0 /\ currgame' = 0
  /\ game' = Free /\ live' = NoData

\* init_game: the game and its data come from the chosen slot
InitGame(i) ==
  /\ currgame' = i
  /\ game' = saves[i]
  /\ live' = saves[i].gen
  /\ process' = "play"
  /\ UNCHANGED <<step, then, saves, savecnt, temp, disk>>

(***************************************************************************)
(* load_savedgames, once when the program starts.                          *)
(***************************************************************************)
Start ==
  /\ process = "off"
  /\ process' = "reading"
  /\ UNCHANGED <<step, then, memory, temp, disk>>

Reading(st) == process = "reading" /\ step = "none" /\ file.st = st

\* newdata: the player agrees to begin anew, or leaves
NotFound ==
  /\ Reading("absent")
  /\ \/ EnterTitle(Cleared)
     \/ End
  /\ UNCHANGED disk

\* an empty file is taken for a new one, without a question
StartsAnew ==
  /\ Reading("empty")
  /\ EnterTitle(Cleared)
  /\ UNCHANGED disk

\* cantopen: an error of the system, or decode_file_007 fails and removes its output
CannotOpen ==
  /\ process = "reading" /\ step = "none" /\ file.st # "absent"
  /\ End
  /\ UNCHANGED disk

Decode ==
  /\ \E st \in {"short", "whole"} : Reading(st)
  /\ step' = "decoded" /\ temps' = temps + 1
  /\ UNCHANGED <<process, then, memory, temp, file, kept, left>>

\* cantopen, when the decoded file cannot be opened: it is left behind
CannotReopen ==
  /\ step = "decoded" /\ left < MaxLeft
  /\ left' = left + 1
  /\ End
  /\ UNCHANGED <<temps, file, kept>>

ReadSaves ==
  /\ step = "decoded" /\ file.st = "whole"
  /\ temps' = temps - 1
  /\ EnterTitle(file.slots)
  /\ UNCHANGED <<file, kept, left>>

\* reset: readsaves failed.  Yes clears the slots; No exits with the temporary file left
Reset ==
  /\ step = "decoded" /\ file.st = "short"
  /\ \/ temps' = temps - 1 /\ EnterTitle(Cleared) /\ UNCHANGED left
     \/ left < MaxLeft /\ left' = left + 1 /\ End /\ UNCHANGED temps
  /\ UNCHANGED <<file, kept>>

LoadStep == NotFound \/ StartsAnew \/ CannotOpen \/ Decode \/ CannotReopen \/ ReadSaves \/ Reset

(***************************************************************************)
(* The file select screen.                                                 *)
(***************************************************************************)
InTitle == process = "title" /\ step = "none"

EditsSlots == UNCHANGED <<process, step, then, currgame, game, live, temp, disk>>

\* Mutant of Without: the slot is cleared and the later ones stay where they are.
LeavesGap(i) == [saves EXCEPT ![i] = Free]

\* The slots without slot i: the later ones move up and the last one is cleared.
Without(i) ==
  [j \in Slots |-> IF j < i THEN saves[j] ELSE IF j < NumSlots - 1 THEN saves[j + 1] ELSE Free]

\* Mutant of Register: it does not look whether there is a free slot.
RegistersBeyond(n) ==
  /\ InTitle
  /\ \A i \in Slots : saves[i].who # n
  /\ saves' = [i \in Slots |-> IF i = savecnt THEN [saves[i] EXCEPT !.who = n, !.at = 0] ELSE saves[i]]
  /\ savecnt' = savecnt + 1
  /\ EditsSlots

\* register_name fills in the first free slot, whose script data it does not touch
Register(n) ==
  /\ InTitle /\ savecnt < NumSlots
  /\ \A i \in Slots : saves[i].who # n
  /\ saves' = [saves EXCEPT ![savecnt] = [@ EXCEPT !.who = n, !.at = 0]]
  /\ savecnt' = savecnt + 1
  /\ EditsSlots

CancelRegister ==
  /\ InTitle /\ savecnt < NumSlots
  /\ saves' = Without(savecnt)
  /\ UNCHANGED savecnt
  /\ EditsSlots

CopySave(i) ==
  /\ InTitle /\ savecnt < NumSlots /\ i < savecnt
  /\ saves' = [saves EXCEPT ![savecnt] = saves[i]]
  /\ savecnt' = savecnt + 1
  /\ EditsSlots

DeleteSave(i) ==
  /\ InTitle /\ i < savecnt
  /\ saves' = Without(i)
  /\ savecnt' = savecnt - 1
  /\ EditsSlots

\* Mutant of Choose: currgame is not set (as if game_details chose the game).
KeepsCurrgame(i) ==
  /\ InTitle /\ saves[i].who # NoName
  /\ game' = saves[i] /\ live' = saves[i].gen
  /\ process' = "play"
  /\ UNCHANGED <<step, then, saves, savecnt, currgame, temp, disk>>

\* A game is chosen: by hand, by the -slot argument or as the last one played.
\* A free slot becomes currgame too, but is not played.
Choose(i) ==
  /\ InTitle
  /\ IF saves[i].who # NoName
       THEN InitGame(i)
       ELSE currgame' = i /\ UNCHANGED <<process, step, then, saves, savecnt, game, live, temp, disk>>

TitleStep ==
  \/ CancelRegister
  \/ \E n \in Names : Register(n)
  \/ \E i \in Slots : CopySave(i) \/ DeleteSave(i) \/ Choose(i)

(***************************************************************************)
(* The game.  A save may go on with the game (savepoint, autosave, script, *)
(* save and continue) or end it.  Without a save the player goes back to   *)
(* the file select screen or, on qRELOAD, to the game as it is in its slot.*)
(***************************************************************************)
InPlay == process = "play" /\ step = "none"

\* the generic scripts of the game change their data as it is played
Play ==
  /\ InPlay /\ game.at < MaxPlay
  /\ game' = [game EXCEPT !.at = @ + 1]
  /\ live' = [of |-> IF live = NoData THEN game.who ELSE live.of, at |-> game.at + 1]
  /\ UNCHANGED <<process, step, then, saves, savecnt, currgame, temp, disk>>

SaveGame(t) ==
  /\ InPlay
  /\ saves' = [saves EXCEPT ![currgame] = game]
  /\ step' = "open" /\ then' = t
  /\ UNCHANGED <<process, savecnt, currgame, game, live, temp, disk>>

QuitToTitle ==
  /\ InPlay
  /\ EnterTitle(saves)
  /\ UNCHANGED disk

Reload ==
  /\ InPlay
  /\ InitGame(currgame)

\* the games are saved once more when the program ends
Exit ==
  /\ InTitle \/ InPlay
  /\ step' = "open" /\ then' = "off"
  /\ UNCHANGED <<process, memory, temp, disk>>

PlayStep == Play \/ QuitToTitle \/ Reload \/ Exit \/ \E t \in {"play", "title"} : SaveGame(t)

(***************************************************************************)
(* save_savedgames.                                                        *)
(***************************************************************************)

\* The program goes on as it would have, whatever became of the file.
GoOn ==
  \/ then = "off" /\ End
  \/ then = "title" /\ EnterTitle(saves)
  \/ /\ then = "play"
     /\ process' = "play" /\ step' = "none" /\ temp' = "none"
     /\ UNCHANGED <<then, memory>>

\* Mutant of StoresData: what the slots hold since they were loaded is written.
StoresNothing(n) == saves

\* save_genscript for the slots before n
StoresData(n) == [i \in Slots |-> IF i < n THEN [saves[i] EXCEPT !.gen = live] ELSE saves[i]]

OpenTemp ==
  /\ step = "open"
  /\ step' = "write" /\ temps' = temps + 1
  /\ UNCHANGED <<process, then, memory, temp, file, kept, left>>

OpenTempFails ==
  /\ step = "open"
  /\ GoOn
  /\ UNCHANGED disk

\* writesaves.  What is still in the buffer is written by pack_fclose, and
\* if that fails nobody notices: the file is short.
WriteTemp ==
  /\ step = "write"
  /\ saves' = StoresData(NumSlots)
  /\ temp' \in {"whole", "short"}
  /\ step' = "encode"
  /\ UNCHANGED <<process, then, savecnt, currgame, game, live, disk>>

\* Mutant of WriteFails: it returns without deleting the temporary file.
ReturnsAtOnce ==
  /\ step = "write"
  /\ GoOn
  /\ UNCHANGED disk

\* writesaves notices an error
WriteFails ==
  /\ step = "write"
  /\ \E n \in 0..NumSlots : saves' = StoresData(n)
  /\ step' = "delete"
  /\ UNCHANGED <<process, then, savecnt, currgame, game, live, temp, disk>>

\* Mutant of EncodeFails: the save file is opened first.
TruncatesFirst ==
  /\ step = "encode"
  /\ file' = Bad("empty")
  /\ step' = "delete"
  /\ UNCHANGED <<process, then, memory, temp, temps, kept, left>>

\* encode_file_007 opens the temporary file before it truncates the save file
EncodeFails ==
  /\ step = "encode"
  /\ step' = "delete"
  /\ UNCHANGED <<process, then, memory, temp, disk>>

EncodeOpens ==
  /\ step = "encode"
  /\ file' = Bad("empty")
  /\ step' = "encoding"
  /\ UNCHANGED <<process, then, memory, temp, temps, kept, left>>

EncodeWrites ==
  /\ step = "encoding" /\ file.st = "empty"
  /\ file' = Bad("cut")
  /\ UNCHANGED <<process, step, then, memory, temp, temps, kept, left>>

\* the temporary file holds the slots as writesaves left them
EncodeEnds ==
  /\ step = "encoding"
  /\ file' = IF temp = "whole" THEN Whole(saves) ELSE Bad("short")
  /\ kept' = file'
  /\ step' = "delete"
  /\ UNCHANGED <<process, then, memory, temp, temps, left>>

\* the disk is full: neither fputc nor fclose is looked at, and the function returns 0
EncodeOnFullDisk ==
  /\ step = "encoding"
  /\ kept' = file
  /\ step' = "delete"
  /\ UNCHANGED <<process, then, memory, temp, temps, file, left>>

DeleteTemp ==
  /\ step = "delete"
  /\ temps' = temps - 1
  /\ GoOn
  /\ UNCHANGED <<file, kept, left>>

SaveStep ==
  \/ OpenTemp \/ OpenTempFails \/ WriteTemp \/ WriteFails
  \/ EncodeFails \/ EncodeOpens \/ EncodeWrites \/ EncodeEnds \/ EncodeOnFullDisk
  \/ DeleteTemp

(***************************************************************************)
(* The player or the machine stops at any moment.                          *)
(***************************************************************************)
Crash ==
  /\ process # "off" /\ left < MaxLeft
  /\ left' = left + 1
  /\ kept' = IF step = "encoding" THEN file ELSE kept
  /\ End
  /\ UNCHANGED <<temps, file>>

Next == Start \/ LoadStep \/ TitleStep \/ PlayStep \/ SaveStep \/ Crash

Spec == Init /\ [][Next]_vars

-----------------------------------------------------------------------------
(***************************************************************************)
(* Properties.                                                             *)
(***************************************************************************)

\* The values that the variables take; a step of saving only while the
\* player is in the file select screen or in a game.
TypeOK ==
  /\ process \in {"off", "reading", "title", "play"}
  /\ step \in {"none", "decoded", "open", "write", "encode", "encoding", "delete"}
  /\ then \in {"off", "title", "play"}
  /\ saves \in Contents /\ savecnt \in 0..NumSlots /\ currgame \in Slots
  /\ game \in Games /\ live \in GenData
  /\ temp \in {"none", "whole", "short"} /\ temps \in Nat
  /\ file \in Files /\ kept \in Files
  /\ left \in 0..MaxLeft
  /\ (step = "decoded" => process = "reading")
  /\ (step \notin {"none", "decoded"} => process \in {"title", "play"})

\* The save file changes nowhere but in the one step that overwrites it:
\* errors of the other steps, crashes elsewhere, and players who refuse to
\* begin anew leave it as the last writing of it left it.
FileIntact == step # "encoding" => file = kept

\* Every temporary file that lies about, but for the one in use, was left
\* by a run that crashed or that gave up in load_savedgames.
TempsExplained ==
  temps <= IF step \in {"decoded", "write", "encode", "encoding", "delete"} THEN left + 1 ELSE left

\* The slots that the file select screen lists are those with a game: no
\* game lies behind a free slot, where it could not be chosen and where
\* register_name and copy_file would come upon it.
NoGameHidden ==
  process = "title" => \A i \in Slots : saves[i].who # NoName <=> i < savecnt

\* While a game is played, currgame is its slot: a save overwrites this game
\* and no other, whatever was copied, deleted or chosen before.
OwnSlot == process = "play" => saves[currgame].who = game.who /\ game.who # NoName

\* What the last step of a save writes, when the player asked for it.
StoresGame ==
  step = "encoding" /\ step' = "delete" /\ file'.st = "whole" /\ then # "off"
    => /\ file'.slots[currgame] = [game EXCEPT !.gen = live]
       /\ \A i \in Slots : file'.slots[i].who = saves[i].who /\ file'.slots[i].at = saves[i].at

\* A save of the game that reaches the disk holds the game as it is, with the
\* live data of its generic scripts, in its slot, and the other games as far
\* as they had been played.
SaveStores == [][StoresGame]_vars

\* docs/ZScript_Additions.txt on Data[] of generic scripts: "This data is
\* saved to the save file."  So a slot of the file holds the data of its own
\* game, or none when it has not been played.
DataOfOwnGame ==
  file.st = "whole" =>
    \A i \in Slots : LET g == file.slots[i]
                     IN  g.who # NoName => g.gen.of \in {NoName, g.who}
=============================================================================
