-------------------------- MODULE SaveFileProofs --------------------------
(***************************************************************************)
(* The invariants of SaveFile, for every number of slots, every set of     *)
(* names and any number of crashes.                                        *)
(***************************************************************************)
EXTENDS SaveFile, TLAPS

(***************************************************************************)
(* The inductive invariant.  The file select screen counts the slots up    *)
(* to the first free one: that this finds all games depends on the slots   *)
(* having no gap wherever they may be, in memory or in a file, and at any  *)
(* time.  What a save stores depends on the slots standing still from the  *)
(* copy of the game to the end of encode_file_007.                         *)
(***************************************************************************)
Packed(s) == \E n \in 0..NumSlots : \A i \in Slots : s[i].who # NoName <=> i < n

NoGaps == Packed(saves) /\ Packed(file.slots)

Saving == {"open", "write", "encode", "encoding", "delete"}
OwnTemp == {"decoded", "write", "encode", "encoding", "delete"}

GoesBack == step \in Saving /\ then = "play" => process = "play"

TempThere == step \in OwnTemp => temps >= 1

Copied ==
  step \in Saving /\ then # "off" =>
    /\ saves[currgame].who = game.who
    /\ saves[currgame].at = game.at

DataCopied ==
  step \in {"encode", "encoding"} /\ temp = "whole" =>
    \A i \in Slots : saves[i].gen = live

HalfWritten == step = "encoding" => file.st \in {"empty", "cut"}

IInv ==
  /\ TypeOK /\ FileIntact /\ TempsExplained /\ NoGameHidden /\ OwnSlot
  /\ NoGaps /\ GoesBack /\ TempThere /\ Copied /\ DataCopied /\ HalfWritten

-----------------------------------------------------------------------------
\* Cleared slots are slots, and have no gap.
LEMMA ClearedSlots == /\ Free \in Games /\ NoData \in GenData
                      /\ Cleared \in Contents /\ Packed(Cleared)
<1> USE SlotsAssumption, BoundAssumption
<1>1. NoData \in GenData
  BY DEF NoData, GenData
<1>2. Free \in Games
  BY <1>1 DEF Free, Games
<1>3. Cleared \in Contents
  BY <1>2 DEF Cleared, Contents
<1>4. \A i \in Slots : Cleared[i].who # NoName <=> i < 0
  BY DEF Cleared, Free, Slots
<1>5. 0 \in 0..NumSlots
  OBVIOUS
<1>6. QED
  BY <1>1, <1>2, <1>3, <1>4, <1>5 DEF Packed

\* With no gap, the file select screen lists all games.
LEMMA ListsAll ==
  ASSUME NEW s, Packed(s)
  PROVE  Listed(s) \in 0..NumSlots /\ \A i \in Slots : s[i].who # NoName <=> i < Listed(s)
<1> USE SlotsAssumption
<1> DEFINE P(n) == /\ \A i \in Slots : i < n => s[i].who # NoName
                   /\ n \in Slots => s[n].who = NoName
<1>1. PICK n \in 0..NumSlots : \A i \in Slots : s[i].who # NoName <=> i < n
  BY DEF Packed
<1>2. P(n)
  BY <1>1
<1>3. Listed(s) = CHOOSE m \in 0..NumSlots : P(m)
  BY DEF Listed
<1>4. Listed(s) \in 0..NumSlots /\ P(Listed(s))
  <2> HIDE DEF P
  <2> QED BY <1>2, <1>3
<1>5. Listed(s) = n
  <2>1. CASE Listed(s) < n
    <3>1. Listed(s) \in Slots
      BY <1>4, <2>1 DEF Slots
    <3>2. QED BY <1>1, <1>4, <2>1, <3>1
  <2>2. CASE n < Listed(s)
    <3>1. n \in Slots
      BY <1>4, <2>2 DEF Slots
    <3>2. QED BY <1>1, <1>4, <2>2, <3>1
  <2>3. QED BY <1>4, <2>1, <2>2
<1>6. QED BY <1>1, <1>4, <1>5

\* Slots that hold games in the same places have a gap together or not.
LEMMA SamePlaces ==
  ASSUME NEW s, NEW t, Packed(s), \A i \in Slots : s[i].who # NoName <=> t[i].who # NoName
  PROVE  Packed(t)
BY DEF Packed

\* The file select screen, entered with slots that have no gap.
LEMMA EntersTitle ==
  ASSUME IInv, NEW s, s \in Contents, Packed(s), EnterTitle(s),
         file' \in Files, kept' \in Files, temps' \in Nat, left' \in 0..MaxLeft,
         Packed(file'.slots), file' = kept', temps' <= left'
  PROVE  IInv'
<1> USE SlotsAssumption, BoundAssumption DEF IInv
<1>1. Listed(s) \in 0..NumSlots /\ \A i \in Slots : s[i].who # NoName <=> i < Listed(s)
  BY ListsAll
<1>2. TypeOK'
  BY <1>1 DEF TypeOK, EnterTitle
<1>3. NoGameHidden'
  BY <1>1 DEF NoGameHidden, EnterTitle
<1>0. TempsExplained'
  BY DEF TempsExplained, EnterTitle
<1>4. (FileIntact /\ OwnSlot /\ GoesBack /\ TempThere /\ Copied /\ DataCopied /\ HalfWritten)'
  BY DEF EnterTitle, FileIntact, TempsExplained, OwnSlot, GoesBack, TempThere, Copied,
         DataCopied, HalfWritten, Saving, OwnTemp, TypeOK
<1>5. NoGaps'
  BY DEF NoGaps, EnterTitle
<1>6. QED BY <1>0, <1>2, <1>3, <1>4, <1>5

\* The end of the process, however it comes about.
LEMMA EndsWell ==
  ASSUME IInv, End,
         file' \in Files, kept' \in Files, temps' \in Nat, left' \in 0..MaxLeft,
         Packed(file'.slots), file' = kept', temps' <= left'
  PROVE  IInv'
<1> USE SlotsAssumption, BoundAssumption DEF IInv
<1>1. TypeOK'
  BY ClearedSlots DEF TypeOK, End, Slots
<1>2. NoGaps'
  BY ClearedSlots DEF NoGaps, End
<1>0. TempsExplained'
  BY DEF TempsExplained, End
<1>3. (FileIntact /\ NoGameHidden /\ OwnSlot /\ GoesBack /\ TempThere /\ Copied /\ DataCopied /\ HalfWritten)'
  BY DEF End, FileIntact, TempsExplained, NoGameHidden, OwnSlot, GoesBack, TempThere, Copied,
         DataCopied, HalfWritten, Saving, OwnTemp, TypeOK
<1>4. QED BY <1>0, <1>1, <1>2, <1>3

\* The program goes on after it has saved, or failed to.
LEMMA GoesOn ==
  ASSUME IInv, GoOn, step \in Saving,
         file' \in Files, kept' \in Files, temps' \in Nat, left' \in 0..MaxLeft,
         Packed(file'.slots), file' = kept', temps' <= left'
  PROVE  IInv'
<1> USE DEF IInv
<1>1. CASE then = "off"
  BY <1>1, EndsWell DEF GoOn
<1>2. CASE then = "title"
  <2>1. EnterTitle(saves)
    BY <1>2 DEF GoOn
  <2>2. saves \in Contents /\ Packed(saves)
    BY DEF TypeOK, NoGaps
  <2>3. QED BY <2>1, <2>2, EntersTitle
<1>3. CASE then = "play"
  <2>1. process = "play" /\ process' = "play" /\ step' = "none" /\ temp' = "none" /\ UNCHANGED <<then, memory>>
    BY <1>3 DEF GoOn, GoesBack
  <2>2. TypeOK'
    BY <2>1 DEF TypeOK, memory
  <2>3. NoGaps'
    BY <2>1 DEF NoGaps, memory
  <2>4. OwnSlot'
    BY <2>1 DEF OwnSlot, memory
  <2>5. (FileIntact /\ TempsExplained /\ NoGameHidden /\ GoesBack /\ TempThere /\ Copied /\ DataCopied /\ HalfWritten)'
    BY <2>1 DEF FileIntact, TempsExplained, NoGameHidden, GoesBack, TempThere, Copied,
           DataCopied, HalfWritten, Saving, OwnTemp, TypeOK
  <2>6. QED BY <2>2, <2>3, <2>4, <2>5
<1>4. QED BY <1>1, <1>2, <1>3 DEF TypeOK

\* Every initial state satisfies the invariant.
LEMMA InitIInv == Init => IInv
<1> SUFFICES ASSUME Init PROVE IInv
  OBVIOUS
<1> USE SlotsAssumption, BoundAssumption DEF Init
<1>1. file \in Files /\ Packed(file.slots)
  BY ClearedSlots DEF Bad, Files
<1>2. TypeOK
  BY <1>1, ClearedSlots DEF TypeOK, Slots
<1>3. NoGaps
  BY <1>1, ClearedSlots DEF NoGaps
<1>4. FileIntact /\ TempsExplained /\ NoGameHidden /\ OwnSlot /\ GoesBack /\ TempThere /\ Copied /\ DataCopied /\ HalfWritten
  BY DEF FileIntact, TempsExplained, NoGameHidden, OwnSlot, GoesBack, TempThere, Copied,
         DataCopied, HalfWritten, Saving, OwnTemp
<1>5. QED BY <1>2, <1>3, <1>4 DEF IInv

-----------------------------------------------------------------------------
\* Nothing on the disk changes, and nobody is in the one step that changes it.
LEMMA DiskStays ==
  ASSUME IInv, UNCHANGED disk, step # "encoding"
  PROVE  /\ file' \in Files /\ kept' \in Files /\ temps' \in Nat /\ left' \in 0..MaxLeft
         /\ Packed(file'.slots) /\ file' = kept'
         /\ step \notin OwnTemp => temps' <= left'
BY DEF IInv, TypeOK, FileIntact, NoGaps, disk, OwnTemp, TempsExplained

\* Loading keeps the invariant.
LEMMA LoadIInv ==
  ASSUME IInv, Start \/ LoadStep
  PROVE  IInv'
<1> USE SlotsAssumption, BoundAssumption
<1>1. CASE Start
  <2>1. UNCHANGED <<step, then, temp, disk, memory>> /\ process' = "reading" /\ process = "off"
    BY <1>1 DEF Start
  <2>2. step = "none"
    BY <2>1 DEF IInv, TypeOK
  <2>3. TypeOK' /\ NoGaps'
    BY <2>1, <2>2 DEF IInv, TypeOK, NoGaps, memory, disk
  <2>4. QED
    BY <2>1, <2>2, <2>3 DEF IInv, FileIntact, TempsExplained, NoGameHidden, OwnSlot, GoesBack,
       TempThere, Copied, DataCopied, HalfWritten, Saving, OwnTemp, memory, disk
<1>2. CASE NotFound
  <2>1. step = "none" /\ UNCHANGED disk /\ (EnterTitle(Cleared) \/ End)
    BY <1>2 DEF NotFound, Reading
  <2>2. QED BY <2>1, DiskStays, ClearedSlots, EntersTitle, EndsWell DEF OwnTemp
<1>3. CASE StartsAnew
  <2>1. step = "none" /\ UNCHANGED disk /\ EnterTitle(Cleared)
    BY <1>3 DEF StartsAnew, Reading
  <2>2. QED BY <2>1, DiskStays, ClearedSlots, EntersTitle DEF OwnTemp
<1>4. CASE CannotOpen
  <2>1. step = "none" /\ UNCHANGED disk /\ End
    BY <1>4 DEF CannotOpen
  <2>2. QED BY <2>1, DiskStays, EndsWell DEF OwnTemp
<1>5. CASE Decode
  <2>1. /\ step = "none" /\ process = "reading" /\ step' = "decoded" /\ temps' = temps + 1
        /\ UNCHANGED <<process, then, memory, temp, file, kept, left>>
    BY <1>5 DEF Decode, Reading
  <2>2. TypeOK' /\ NoGaps'
    BY <2>1 DEF IInv, TypeOK, NoGaps, memory
  <2>3. TempsExplained' /\ TempThere'
    BY <2>1 DEF IInv, TypeOK, TempsExplained, TempThere
  <2>4. QED
    BY <2>1, <2>2, <2>3 DEF IInv, FileIntact, NoGameHidden, OwnSlot, GoesBack,
       Copied, DataCopied, HalfWritten, Saving, memory
<1>6. CASE ReadSaves
  <2>1. /\ step = "decoded" /\ temps' = temps - 1 /\ EnterTitle(file.slots)
        /\ UNCHANGED <<file, kept, left>>
    BY <1>6 DEF ReadSaves
  <2>2. file.slots \in Contents /\ Packed(file.slots)
    BY DEF IInv, TypeOK, Files, NoGaps
  <2>3. temps' \in Nat /\ temps' <= left' /\ left' \in 0..MaxLeft
    BY <2>1 DEF IInv, TypeOK, TempsExplained, TempThere, OwnTemp
  <2>4. file' \in Files /\ kept' \in Files /\ file' = kept' /\ Packed(file'.slots)
    BY <2>1, <2>2 DEF IInv, TypeOK, FileIntact
  <2>5. QED BY <2>1, <2>2, <2>3, <2>4, EntersTitle
<1>7. CASE Reset
  <2>1. /\ step = "decoded" /\ UNCHANGED <<file, kept>>
        /\ \/ temps' = temps - 1 /\ EnterTitle(Cleared) /\ UNCHANGED left
           \/ left < MaxLeft /\ left' = left + 1 /\ End /\ UNCHANGED temps
    BY <1>7 DEF Reset
  <2>2. file' \in Files /\ kept' \in Files /\ file' = kept' /\ Packed(file'.slots)
    BY <2>1 DEF IInv, TypeOK, FileIntact, NoGaps
  <2>3. temps' \in Nat /\ temps' <= left' /\ left' \in 0..MaxLeft
    BY <2>1 DEF IInv, TypeOK, TempsExplained, TempThere, OwnTemp
  <2>4. EnterTitle(Cleared) \/ End
    BY <2>1
  <2>5. QED BY <2>2, <2>3, <2>4, ClearedSlots, EntersTitle, EndsWell
<1>8. CASE CannotReopen
  <2>1. /\ End /\ left < MaxLeft /\ left' = left + 1 /\ step = "decoded"
        /\ UNCHANGED <<temps, file, kept>>
    BY <1>8 DEF CannotReopen
  <2>2. file' \in Files /\ kept' \in Files /\ file' = kept' /\ Packed(file'.slots)
    BY <2>1 DEF IInv, TypeOK, FileIntact, NoGaps
  <2>3. temps' \in Nat /\ temps' <= left' /\ left' \in 0..MaxLeft
    BY <2>1 DEF IInv, TypeOK, TempsExplained, TempThere, OwnTemp
  <2>4. QED BY <2>1, <2>2, <2>3, EndsWell
<1>9. QED BY <1>1, <1>2, <1>3, <1>4, <1>5, <1>6, <1>7, <1>8 DEF LoadStep

\* A change of the slots in the file select screen, and nothing else.
LEMMA EditKeeps ==
  ASSUME IInv, InTitle, EditsSlots,
         saves' \in Contents, savecnt' \in 0..NumSlots,
         \A i \in Slots : saves'[i].who # NoName <=> i < savecnt'
  PROVE  IInv'
<1> USE DEF IInv, InTitle, EditsSlots, disk
<1>1. TypeOK'
  BY DEF TypeOK
<1>2. NoGaps' /\ NoGameHidden'
  BY DEF NoGaps, Packed, NoGameHidden
<1>3. (FileIntact /\ TempsExplained /\ OwnSlot /\ GoesBack /\ TempThere /\ Copied /\ DataCopied /\ HalfWritten)'
  BY DEF FileIntact, TempsExplained, OwnSlot, GoesBack, TempThere, Copied, DataCopied, HalfWritten, Saving, OwnTemp
<1>4. QED BY <1>1, <1>2, <1>3

\* The slots without one of those that are listed, or without the first free one.
LEMMA WithoutOne ==
  ASSUME IInv, InTitle, NEW i \in Slots, i <= savecnt
  PROVE  /\ Without(i) \in Contents
         /\ \A j \in Slots : Without(i)[j].who # NoName
                               <=> j < (IF i < savecnt THEN savecnt - 1 ELSE savecnt)
<1> USE SlotsAssumption
<1>1. saves \in [Slots -> Games] /\ savecnt \in 0..NumSlots
      /\ \A j \in Slots : saves[j].who # NoName <=> j < savecnt
  BY DEF IInv, TypeOK, Contents, InTitle, NoGameHidden
<1>2. ASSUME NEW j \in Slots
      PROVE  /\ Without(i)[j] \in Games
             /\ Without(i)[j].who # NoName <=> j < (IF i < savecnt THEN savecnt - 1 ELSE savecnt)
  <2>1. CASE j < i
    <3>1. Without(i)[j] = saves[j]
      BY <2>1 DEF Without
    <3>2. j < savecnt /\ (i < savecnt => j < savecnt - 1)
      BY <1>1, <2>1 DEF Slots
    <3>3. QED BY <1>1, <3>1, <3>2
  <2>2. CASE j >= i /\ j < NumSlots - 1
    <3>1. j + 1 \in Slots /\ ~(j < i)
      BY <2>2 DEF Slots
    <3>2. Without(i)[j] = saves[j + 1]
      BY <2>2, <3>1 DEF Without
    <3>3. j + 1 < savecnt <=> j < (IF i < savecnt THEN savecnt - 1 ELSE savecnt)
      <4>1. CASE i < savecnt
        BY <1>1, <4>1 DEF Slots
      <4>2. CASE i = savecnt
        BY <1>1, <2>2, <4>2 DEF Slots
      <4>3. QED BY <1>1, <4>1, <4>2 DEF Slots
    <3>4. saves[j + 1] \in Games /\ (saves[j + 1].who # NoName <=> j + 1 < savecnt)
      BY <1>1, <3>1
    <3>5. QED BY <3>2, <3>3, <3>4
  <2>3. CASE j >= i /\ ~(j < NumSlots - 1)
    <3>1. ~(j < i) /\ j = NumSlots - 1
      BY <2>3 DEF Slots
    <3>2. Without(i)[j] = Free
      BY <2>3, <3>1 DEF Without
    <3>3. ~(j < (IF i < savecnt THEN savecnt - 1 ELSE savecnt))
      BY <1>1, <3>1 DEF Slots
    <3>4. QED BY <3>2, <3>3, ClearedSlots DEF Free
  <2>4. QED BY <2>1, <2>2, <2>3 DEF Slots
<1>3. QED BY <1>2 DEF Without, Contents

\* The file select screen keeps the invariant, up to the choice of a game.
LEMMA TitleIInv ==
  ASSUME IInv, TitleStep
  PROVE  IInv'
<1> USE SlotsAssumption, NamesAssumption, BoundAssumption
<1>1. /\ saves \in [Slots -> Games] /\ savecnt \in 0..NumSlots
      /\ InTitle => \A j \in Slots : saves[j].who # NoName <=> j < savecnt
  BY DEF IInv, TypeOK, Contents, InTitle, NoGameHidden
<1>2. CASE CancelRegister
  <2>1. InTitle /\ savecnt < NumSlots /\ saves' = Without(savecnt) /\ savecnt' = savecnt /\ EditsSlots
    BY <1>2 DEF CancelRegister
  <2>2. savecnt \in Slots
    BY <1>1, <2>1 DEF Slots
  <2>3. QED BY <1>1, <2>1, <2>2, WithoutOne, EditKeeps
<1>3. ASSUME NEW n \in Names, Register(n) PROVE IInv'
  <2>1. /\ InTitle /\ savecnt < NumSlots /\ savecnt' = savecnt + 1 /\ EditsSlots
        /\ saves' = [saves EXCEPT ![savecnt] = [@ EXCEPT !.who = n, !.at = 0]]
    BY <1>3 DEF Register
  <2>2. savecnt \in Slots
    BY <1>1, <2>1 DEF Slots
  <2>3. [saves[savecnt] EXCEPT !.who = n, !.at = 0] \in Games
    <3>1. saves[savecnt] \in Games /\ 0 \in 0..MaxPlay
      BY <1>1, <2>2
    <3>2. QED BY <3>1 DEF Games
  <2>4. saves' \in Contents
    BY <1>1, <2>1, <2>2, <2>3 DEF Contents
  <2>5. ASSUME NEW j \in Slots PROVE saves'[j].who # NoName <=> j < savecnt + 1
    <3>1. CASE j = savecnt
      BY <1>1, <2>1, <2>2, <3>1 DEF Games
    <3>2. CASE j # savecnt
      <4>1. saves'[j] = saves[j]
        BY <1>1, <2>1, <3>2
      <4>2. j < savecnt + 1 <=> j < savecnt
        BY <1>1, <3>2 DEF Slots
      <4>3. QED BY <1>1, <2>1, <4>1, <4>2
    <3>3. QED BY <3>1, <3>2
  <2>6. QED BY <1>1, <2>1, <2>4, <2>5, EditKeeps
<1>4. ASSUME NEW i \in Slots, CopySave(i) PROVE IInv'
  <2>1. /\ InTitle /\ savecnt < NumSlots /\ i < savecnt /\ savecnt' = savecnt + 1 /\ EditsSlots
        /\ saves' = [saves EXCEPT ![savecnt] = saves[i]]
    BY <1>4 DEF CopySave
  <2>2. savecnt \in Slots
    BY <1>1, <2>1 DEF Slots
  <2>3. saves' \in Contents
    BY <1>1, <2>1, <2>2 DEF Contents
  <2>4. ASSUME NEW j \in Slots PROVE saves'[j].who # NoName <=> j < savecnt + 1
    <3>1. CASE j = savecnt
      BY <1>1, <2>1, <2>2, <3>1
    <3>2. CASE j # savecnt
      <4>1. saves'[j] = saves[j]
        BY <1>1, <2>1, <3>2
      <4>2. j < savecnt + 1 <=> j < savecnt
        BY <1>1, <3>2 DEF Slots
      <4>3. QED BY <1>1, <2>1, <4>1, <4>2
    <3>3. QED BY <3>1, <3>2
  <2>5. QED BY <1>1, <2>1, <2>3, <2>4, EditKeeps
<1>5. ASSUME NEW i \in Slots, DeleteSave(i) PROVE IInv'
  <2>1. InTitle /\ i < savecnt /\ saves' = Without(i) /\ savecnt' = savecnt - 1 /\ EditsSlots
    BY <1>5 DEF DeleteSave
  <2>2. i <= savecnt /\ savecnt' \in 0..NumSlots
    BY <1>1, <2>1 DEF Slots
  <2>3. saves' \in Contents /\ \A j \in Slots : saves'[j].who # NoName <=> j < savecnt'
    BY <2>1, <2>2, WithoutOne
  <2>4. QED BY <2>1, <2>2, <2>3, EditKeeps
<1>6. ASSUME NEW i \in Slots, Choose(i), saves[i].who # NoName PROVE IInv'
  <2>1. InTitle /\ InitGame(i)
    BY <1>6 DEF Choose
  <2>2. TypeOK'
    BY <1>1, <2>1 DEF IInv, TypeOK, InitGame, InTitle, Games, disk
  <2>3. OwnSlot'
    BY <1>6, <2>1 DEF OwnSlot, InitGame
  <2>4. QED
    BY <2>1, <2>2, <2>3 DEF IInv, InTitle, InitGame, FileIntact, TempsExplained, NoGameHidden, GoesBack,
       TempThere, Copied, DataCopied, HalfWritten, NoGaps, Saving, OwnTemp, disk
<1>7. ASSUME NEW i \in Slots, Choose(i), ~(saves[i].who # NoName) PROVE IInv'
  <2>1. InTitle /\ currgame' = i /\ UNCHANGED <<process, step, then, saves, savecnt, game, live, temp, disk>>
    BY <1>7 DEF Choose
  <2>2. TypeOK'
    BY <2>1 DEF IInv, TypeOK, disk
  <2>3. QED
    BY <2>1, <2>2 DEF IInv, InTitle, FileIntact, TempsExplained, NoGameHidden, OwnSlot, GoesBack,
       TempThere, Copied, DataCopied, HalfWritten, NoGaps, Saving, OwnTemp, disk
<1>8. QED BY <1>2, <1>3, <1>4, <1>5, <1>6, <1>7 DEF TitleStep

\* So does the game.
LEMMA PlayIInv ==
  ASSUME IInv, PlayStep
  PROVE  IInv'
<1> USE SlotsAssumption, NamesAssumption, BoundAssumption
<1>1. CASE Play
  <2>1. /\ process = "play" /\ step = "none" /\ game.at < MaxPlay
        /\ game' = [game EXCEPT !.at = @ + 1]
        /\ live' = [of |-> IF live = NoData THEN game.who ELSE live.of, at |-> game.at + 1]
        /\ UNCHANGED <<process, step, then, saves, savecnt, currgame, temp, disk>>
    BY <1>1 DEF Play, InPlay
  <2>2. game \in Games /\ live \in GenData /\ game.at + 1 \in 0..MaxPlay
    BY <2>1 DEF IInv, TypeOK, Games
  <2>3. game' \in Games /\ game'.who = game.who
    BY <2>1, <2>2 DEF Games
  <2>4. live' \in GenData
    BY <2>1, <2>2 DEF Games, GenData
  <2>5. TypeOK'
    BY <2>1, <2>3, <2>4 DEF IInv, TypeOK, disk
  <2>6. OwnSlot'
    BY <2>1, <2>3 DEF IInv, OwnSlot
  <2>7. QED
    BY <2>1, <2>5, <2>6 DEF IInv, FileIntact, TempsExplained, NoGameHidden, GoesBack,
       TempThere, Copied, DataCopied, HalfWritten, NoGaps, Saving, OwnTemp, disk
<1>2. CASE QuitToTitle
  <2>1. step = "none" /\ EnterTitle(saves) /\ UNCHANGED disk
    BY <1>2 DEF QuitToTitle, InPlay
  <2>2. saves \in Contents /\ Packed(saves)
    BY DEF IInv, TypeOK, NoGaps
  <2>3. QED BY <2>1, <2>2, DiskStays, EntersTitle DEF OwnTemp
<1>3. CASE Reload
  <2>1. process = "play" /\ step = "none" /\ InitGame(currgame)
    BY <1>3 DEF Reload, InPlay
  <2>2. currgame \in Slots /\ saves[currgame] \in Games /\ saves[currgame].gen \in GenData
    BY DEF IInv, TypeOK, Contents, Games
  <2>3. TypeOK'
    BY <2>1, <2>2 DEF IInv, TypeOK, InitGame, disk
  <2>4. OwnSlot'
    BY <2>1 DEF IInv, OwnSlot, InitGame
  <2>5. QED
    BY <2>1, <2>3, <2>4 DEF IInv, InitGame, FileIntact, TempsExplained, NoGameHidden, GoesBack,
       TempThere, Copied, DataCopied, HalfWritten, NoGaps, Saving, OwnTemp, disk
<1>4. CASE Exit
  <2>1. /\ process \in {"title", "play"} /\ step = "none" /\ step' = "open" /\ then' = "off"
        /\ UNCHANGED <<process, memory, temp, disk>>
    BY <1>4 DEF Exit, InTitle, InPlay
  <2>2. TypeOK'
    BY <2>1 DEF IInv, TypeOK, memory, disk
  <2>3. QED
    BY <2>1, <2>2 DEF IInv, FileIntact, TempsExplained, NoGameHidden, OwnSlot, GoesBack,
       TempThere, Copied, DataCopied, HalfWritten, NoGaps, Saving, OwnTemp, memory, disk
<1>5. ASSUME NEW t \in {"play", "title"}, SaveGame(t) PROVE IInv'
  <2>1. /\ process = "play" /\ step = "none" /\ step' = "open" /\ then' = t
        /\ saves' = [saves EXCEPT ![currgame] = game]
        /\ UNCHANGED <<process, savecnt, currgame, game, live, temp, disk>>
    BY <1>5 DEF SaveGame, InPlay
  <2>2. currgame \in Slots /\ saves \in [Slots -> Games] /\ game \in Games
    BY DEF IInv, TypeOK, Contents
  <2>3. saves' \in Contents /\ saves'[currgame] = game
    BY <2>1, <2>2 DEF Contents
  <2>4. \A i \in Slots : saves[i].who # NoName <=> saves'[i].who # NoName
    BY <2>1, <2>2, <2>3 DEF IInv, OwnSlot
  <2>5. Packed(saves')
    BY <2>4, SamePlaces DEF IInv, NoGaps
  <2>6. TypeOK'
    BY <2>1, <2>3 DEF IInv, TypeOK, disk
  <2>7. NoGaps'
    BY <2>1, <2>5 DEF IInv, NoGaps, disk
  <2>8. OwnSlot' /\ Copied'
    BY <2>1, <2>3 DEF IInv, OwnSlot, Copied
  <2>9. QED
    BY <2>1, <2>6, <2>7, <2>8 DEF IInv, FileIntact, TempsExplained, NoGameHidden, GoesBack,
       TempThere, DataCopied, HalfWritten, Saving, OwnTemp, disk
<1>6. QED BY <1>1, <1>2, <1>3, <1>4, <1>5 DEF PlayStep

\* Storing the script data of some slots leaves every game where it is.
LEMMA DataOnly ==
  ASSUME IInv, NEW n \in 0..NumSlots
  PROVE  /\ StoresData(n) \in Contents /\ Packed(StoresData(n))
         /\ \A i \in Slots : /\ StoresData(n)[i].who = saves[i].who
                             /\ StoresData(n)[i].at = saves[i].at
                             /\ n = NumSlots => StoresData(n)[i].gen = live
<1> USE SlotsAssumption
<1>1. saves \in [Slots -> Games] /\ live \in GenData
  BY DEF IInv, TypeOK, Contents
<1>2. ASSUME NEW i \in Slots
      PROVE  /\ StoresData(n)[i] \in Games
             /\ StoresData(n)[i].who = saves[i].who /\ StoresData(n)[i].at = saves[i].at
             /\ n = NumSlots => StoresData(n)[i].gen = live
  <2>1. saves[i] \in Games
    BY <1>1
  <2>2. CASE i < n
    BY <1>1, <2>1, <2>2 DEF StoresData, Games
  <2>3. CASE ~(i < n)
    BY <2>1, <2>3 DEF StoresData, Slots
  <2>4. QED BY <2>2, <2>3
<1>3. StoresData(n) \in Contents
  BY <1>2 DEF StoresData, Contents
<1>4. Packed(StoresData(n))
  BY <1>2, SamePlaces DEF IInv, NoGaps
<1>5. QED BY <1>2, <1>3, <1>4

\* save_savedgames keeps the invariant at each of its steps.
LEMMA SaveIInv ==
  ASSUME IInv, SaveStep
  PROVE  IInv'
<1> USE SlotsAssumption, BoundAssumption
<1>1. CASE OpenTemp
  <2>1. /\ step = "open" /\ step' = "write" /\ temps' = temps + 1
        /\ UNCHANGED <<process, then, memory, temp, file, kept, left>>
    BY <1>1 DEF OpenTemp
  <2>2. TypeOK' /\ TempsExplained' /\ TempThere'
    BY <2>1 DEF IInv, TypeOK, TempsExplained, TempThere, OwnTemp, memory
  <2>3. QED
    BY <2>1, <2>2 DEF IInv, FileIntact, NoGameHidden, OwnSlot, GoesBack, Copied, DataCopied, HalfWritten,
       NoGaps, Saving, memory
<1>2. CASE OpenTempFails
  <2>1. step = "open" /\ GoOn /\ UNCHANGED disk
    BY <1>2 DEF OpenTempFails
  <2>2. QED BY <2>1, DiskStays, GoesOn DEF OwnTemp, Saving
<1>3. ASSUME NEW n \in 0..NumSlots, saves' = StoresData(n), step = "write", step' \in {"encode", "delete"},
             temp' \in {"none", "whole", "short"}, step' = "encode" => n = NumSlots,
             UNCHANGED <<process, then, savecnt, currgame, game, live, disk>>
      PROVE  IInv'
  <2>1. /\ saves' \in Contents /\ Packed(saves')
        /\ \A i \in Slots : /\ saves'[i].who = saves[i].who /\ saves'[i].at = saves[i].at
                            /\ n = NumSlots => saves'[i].gen = live
    BY <1>3, DataOnly
  <2>2. /\ process' = process /\ then' = then /\ savecnt' = savecnt /\ currgame' = currgame
        /\ game' = game /\ live' = live /\ temps' = temps /\ file' = file /\ kept' = kept /\ left' = left
    BY <1>3 DEF disk
  <2>3. TypeOK' /\ NoGaps'
    BY <1>3, <2>1, <2>2 DEF IInv, TypeOK, NoGaps
  <2>4. OwnSlot' /\ Copied'
    BY <1>3, <2>1, <2>2 DEF IInv, TypeOK, OwnSlot, Copied, Saving
  <2>5. NoGameHidden'
    BY <2>1, <2>2 DEF IInv, NoGameHidden
  <2>6. DataCopied'
    BY <1>3, <2>1, <2>2 DEF DataCopied
  <2>7. (FileIntact /\ TempsExplained /\ GoesBack /\ TempThere /\ HalfWritten)'
    BY <1>3, <2>2 DEF IInv, FileIntact, TempsExplained, GoesBack, TempThere, HalfWritten, Saving, OwnTemp
  <2>8. QED BY <2>3, <2>4, <2>5, <2>6, <2>7 DEF IInv
<1>4. CASE WriteTemp
  BY <1>3, <1>4 DEF WriteTemp
<1>5. CASE WriteFails
  <2>1. PICK n \in 0..NumSlots : saves' = StoresData(n)
    BY <1>5 DEF WriteFails
  <2>2. /\ step = "write" /\ step' = "delete"
        /\ UNCHANGED <<process, then, savecnt, currgame, game, live, temp, disk>>
    BY <1>5 DEF WriteFails
  <2>3. temp' \in {"none", "whole", "short"}
    BY <2>2 DEF IInv, TypeOK
  <2>4. QED BY <1>3, <2>1, <2>2, <2>3
<1>6. CASE EncodeFails
  <2>1. step = "encode" /\ step' = "delete" /\ UNCHANGED <<process, then, memory, temp, disk>>
    BY <1>6 DEF EncodeFails
  <2>2. QED
    BY <2>1 DEF IInv, TypeOK, FileIntact, TempsExplained, NoGameHidden, OwnSlot, GoesBack,
       TempThere, Copied, DataCopied, HalfWritten, NoGaps, Saving, OwnTemp, memory, disk
<1>7. Bad("empty") \in Files /\ Bad("cut") \in Files /\ Bad("short") \in Files
      /\ \A st : Packed(Bad(st).slots)
  BY ClearedSlots DEF Bad, Files
<1>8. CASE EncodeOpens \/ EncodeWrites
  <2>1. /\ step \in {"encode", "encoding"} /\ step' = "encoding" /\ file' \in {Bad("empty"), Bad("cut")}
        /\ file'.st \in {"empty", "cut"}
        /\ UNCHANGED <<process, then, memory, temp, temps, kept, left>>
    BY <1>8 DEF EncodeOpens, EncodeWrites, Bad
  <2>2. TypeOK' /\ NoGaps'
    BY <1>7, <2>1 DEF IInv, TypeOK, NoGaps, memory
  <2>3. QED
    BY <2>1, <2>2 DEF IInv, FileIntact, TempsExplained, NoGameHidden, OwnSlot, GoesBack,
       TempThere, Copied, DataCopied, HalfWritten, Saving, OwnTemp, memory
<1>9. CASE EncodeEnds \/ EncodeOnFullDisk
  <2>1. /\ step = "encoding" /\ step' = "delete" /\ file' \in {Whole(saves), Bad("short"), file} /\ kept' = file'
        /\ UNCHANGED <<process, then, memory, temp, temps, left>>
    BY <1>9 DEF EncodeEnds, EncodeOnFullDisk
  <2>2. Whole(saves) \in Files /\ Packed(Whole(saves).slots)
    BY DEF IInv, TypeOK, NoGaps, Whole, Files
  <2>3. TypeOK' /\ NoGaps'
    BY <1>7, <2>1, <2>2 DEF IInv, TypeOK, NoGaps, memory
  <2>4. QED
    BY <2>1, <2>3 DEF IInv, FileIntact, TempsExplained, NoGameHidden, OwnSlot, GoesBack,
       TempThere, Copied, DataCopied, HalfWritten, Saving, OwnTemp, memory
<1>10. CASE DeleteTemp
  <2>1. step = "delete" /\ temps' = temps - 1 /\ GoOn /\ UNCHANGED <<file, kept, left>>
    BY <1>10 DEF DeleteTemp
  <2>2. temps' \in Nat /\ temps' <= left' /\ left' \in 0..MaxLeft
    BY <2>1 DEF IInv, TypeOK, TempsExplained, TempThere, OwnTemp
  <2>3. file' \in Files /\ kept' \in Files /\ file' = kept' /\ Packed(file'.slots)
    BY <2>1 DEF IInv, TypeOK, FileIntact, NoGaps
  <2>4. QED BY <2>1, <2>2, <2>3, GoesOn DEF Saving
<1>11. QED BY <1>1, <1>2, <1>4, <1>5, <1>6, <1>8, <1>9, <1>10 DEF SaveStep

\* So does a crash, wherever it comes.
LEMMA CrashIInv ==
  ASSUME IInv, Crash
  PROVE  IInv'
<1> USE BoundAssumption
<1>1. /\ left < MaxLeft /\ left' = left + 1 /\ End /\ UNCHANGED <<temps, file>>
      /\ kept' = IF step = "encoding" THEN file ELSE kept
  BY DEF Crash
<1>2. file' = kept' /\ file' \in Files /\ kept' \in Files /\ Packed(file'.slots)
  BY <1>1 DEF IInv, TypeOK, FileIntact, NoGaps
<1>3. temps' \in Nat /\ temps' <= left' /\ left' \in 0..MaxLeft
  BY <1>1 DEF IInv, TypeOK, TempsExplained
<1>4. QED BY <1>1, <1>2, <1>3, EndsWell

LEMMA Stutter == IInv /\ UNCHANGED vars => IInv'
BY DEF vars, memory, disk, IInv, TypeOK, FileIntact, TempsExplained, NoGameHidden, OwnSlot, NoGaps,
       GoesBack, TempThere, Copied, DataCopied, HalfWritten

\* Every step keeps the invariant.
LEMMA StepIInv == IInv /\ [Next]_vars => IInv'
BY LoadIInv, TitleIInv, PlayIInv, SaveIInv, CrashIInv, Stutter DEF Next

-----------------------------------------------------------------------------
\* The inductive invariant holds in every reachable state.
THEOREM Invariance == Spec => []IInv
<1>1. IInv /\ [Next]_vars => IInv'
  BY StepIInv
<1>2. QED BY InitIInv, <1>1, PTL DEF Spec

\* The variables of the saved games keep their types.
THEOREM TypeCorrect == Spec => []TypeOK
<1>1. IInv => TypeOK
  BY DEF IInv
<1>2. QED BY Invariance, <1>1, PTL

\* Outside the one step that overwrites it the save file is as it was left
\* by its last writing: load_savedgames and all error paths of
\* save_savedgames are safe for it.
THEOREM FileKept == Spec => []FileIntact
<1>1. IInv => FileIntact
  BY DEF IInv
<1>2. QED BY Invariance, <1>1, PTL

\* No error path leaves a temporary file behind.
THEOREM NoLitter == Spec => []TempsExplained
<1>1. IInv => TempsExplained
  BY DEF IInv
<1>2. QED BY Invariance, <1>1, PTL

\* The file select screen lists every game there is, after any sequence of
\* registering, copying, deleting, saving, crashing and loading.
THEOREM AllListed == Spec => []NoGameHidden
<1>1. IInv => NoGameHidden
  BY DEF IInv
<1>2. QED BY Invariance, <1>1, PTL

\* currgame is the slot of the game that is played.
THEOREM SavesToOwnSlot == Spec => []OwnSlot
<1>1. IInv => OwnSlot
  BY DEF IInv
<1>2. QED BY Invariance, <1>1, PTL

\* What a save of the game writes from end to end is the game, its live
\* script data, and every other game as far as it had been played.
THEOREM SavesTheGame == Spec => SaveStores
<1>1. IInv /\ Next => StoresGame
  <2> SUFFICES ASSUME IInv, Next, step = "encoding", step' = "delete", file'.st = "whole", then # "off"
               PROVE  /\ file'.slots[currgame] = [game EXCEPT !.gen = live]
                      /\ \A i \in Slots : /\ file'.slots[i].who = saves[i].who
                                          /\ file'.slots[i].at = saves[i].at
    BY DEF StoresGame
  <2>1. EncodeEnds \/ EncodeOnFullDisk
    BY DEF Next, Start, LoadStep, NotFound, StartsAnew, CannotOpen, Decode, CannotReopen, ReadSaves, Reset, Reading,
       EnterTitle, End, TitleStep, CancelRegister, Register, CopySave, DeleteSave, Choose, InTitle,
       PlayStep, Play, SaveGame, QuitToTitle, Reload, Exit, InPlay,
       SaveStep, OpenTemp, OpenTempFails, WriteTemp, WriteFails, EncodeFails, EncodeOpens,
       EncodeWrites, DeleteTemp, Crash
  <2>2. EncodeEnds
    BY <2>1 DEF IInv, HalfWritten, EncodeOnFullDisk
  <2>3. file' = Whole(saves) /\ temp = "whole"
    BY <2>2 DEF EncodeEnds, Bad
  <2>4. saves \in [Slots -> Games] /\ game \in Games /\ currgame \in Slots
    BY DEF IInv, TypeOK, Contents
  <2>5. /\ saves[currgame].who = game.who /\ saves[currgame].at = game.at
        /\ saves[currgame].gen = live
    BY <2>3, <2>4 DEF IInv, Copied, DataCopied, Saving
  <2>6. saves[currgame] = [game EXCEPT !.gen = live]
    <3>1. saves[currgame] \in Games
      BY <2>4
    <3>2. QED BY <2>4, <2>5, <3>1 DEF Games
  <2>7. QED BY <2>3, <2>6 DEF Whole
<1>2. IInv /\ [Next]_vars => [StoresGame]_vars
  BY <1>1
<1>3. QED BY Invariance, <1>2, PTL DEF Spec, SaveStores
=============================================================================
