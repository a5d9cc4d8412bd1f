--------------------------- MODULE GenericScripts ---------------------------
(***************************************************************************)
(* The scheduler of the generic scripts (src/src/ffscript.cpp) and the     *)
(* game loop that drives it (zelda.cpp: game_loop; hero.cpp).              *)
(*                                                                         *)
(* The game loop calls runGenericPassiveEngine at each timing of a frame,  *)
(* 39 in the code and 0..EndFrame here.  A call runs first all the rounds  *)
(* that were passed over, then its own.  In a round each generic script    *)
(* that runs and whose wait is over has a turn, in the order of the slots; *)
(* a turn lasts until the script waits or ends.                            *)
(*                                                                         *)
(* All scripts are executed by one interpreter, run_script, whose          *)
(* registers (ri, curscript, stack) are global variables.  A script may    *)
(* run another one in the middle of its turn (RunFrozen), so the calls     *)
(* that have not returned are a stack.                                     *)
(***************************************************************************)
EXTENDS Naturals, Sequences

CONSTANTS
  NumScripts,  \* the generic slots are 1..NumScripts
  EndFrame,    \* SCR_TIMING_END_FRAME; SCR_TIMING_START_FRAME is 0
  Skipped,     \* the timings that a frozen frame, or one without drawing, omits
  HeroTiming,  \* Hero.animate runs before this timing
  MaxDepth     \* bound: how deep calls may nest

ASSUME ScriptsAssumption == NumScripts \in Nat \ {0}
ASSUME TimingAssumption  == EndFrame \in Nat \ {0} /\ Skipped \subseteq 1..EndFrame - 1
ASSUME HeroAssumption    == HeroTiming \in 1..EndFrame
ASSUME DepthAssumption   == MaxDepth \in Nat

Scripts == 1..NumScripts
Timings == 0..EndFrame
START_FRAME == 0

VARIABLES
  genscript_timing,  \* the round that runs, or the next one
  doscript,      \* [Scripts -> does it run?]
  initialized,   \* [Scripts -> has its InitD been loaded since its launch?]
  wait_atleast,  \* [Scripts -> does a later timing end its wait?]
  waituntil,     \* [Scripts -> the timing it waits for]
  pc,            \* [Scripts -> is it at its first command, or later?]
  phase,         \* the timing that game_loop calls next; EndFrame + 1 is its end
  Quit,          \* "no", "quit" or "reset" (qRESET and qEXIT): does the player leave the game?
  stack,         \* the calls that have not returned, the outermost first
  ri,            \* the script whose registers the interpreter uses
  gen_active_initialized,
  gen_active_doscript,   \* the same of the innermost frozen script
  owed,          \* history: the scripts that a turn in this round is due to
  relaunched     \* history: those launched in a turn of their own, and not initialized since

scripts == <<doscript, initialized, wait_atleast, waituntil, pc>>
frozen  == <<gen_active_initialized, gen_active_doscript>>
vars == <<genscript_timing, scripts, phase, Quit, stack, ri, frozen, owed, relaunched>>

(***************************************************************************)
(* Whose registers: those of a generic script, of a frozen run, by its     *)
(* depth in the stack, or of a script of another kind.                     *)
(***************************************************************************)
Passive(q) == <<"generic", q>>
FrozenAt(n) == <<"frozen", n>>
Host == <<"host", 0>>
Owners == {"generic", "frozen", "host"} \X Nat

EngineCall(t, q) == [call |-> "engine", scrtm |-> t, q |-> q]
ScriptCall(o, t, a) == [call |-> "script", self |-> o, after |-> t, atleast |-> a]
FrozenCall(q) == [call |-> "frozen", q |-> q, ri |-> ri, initialized |-> gen_active_initialized,
                  doscript |-> gen_active_doscript]

Top == stack[Len(stack)]
TopIs(c) == stack # <<>> /\ Top.call = c
Push(f) == Append(stack, f)
Pop == SubSeq(stack, 1, Len(stack) - 1)
SetTop(f) == [stack EXCEPT ![Len(stack)] = f]

Init ==
  /\ genscript_timing = START_FRAME
  /\ doscript \in [Scripts -> BOOLEAN]
  /\ initialized = [q \in Scripts |-> FALSE]
  /\ wait_atleast = [q \in Scripts |-> TRUE]
  /\ waituntil = [q \in Scripts |-> START_FRAME]
  /\ pc = [q \in Scripts |-> "begin"]
  /\ phase = EndFrame + 1
  /\ Quit = "no"
  /\ stack = <<>>
  /\ ri = Host
  /\ gen_active_initialized = FALSE
  /\ gen_active_doscript = FALSE
  /\ owed = {}
  /\ relaunched = {}

-----------------------------------------------------------------------------
(* user_genscript                                                          *)

\* user_genscript::launch of the scripts P
Launched(P) ==
  /\ initialized' = [q \in Scripts |-> initialized[q] /\ q \notin P]
  /\ wait_atleast' = [q \in Scripts |-> wait_atleast[q] \/ q \in P]
  /\ waituntil' = [q \in Scripts |-> IF q \in P THEN START_FRAME ELSE waituntil[q]]

\* Mutant of TimeExit: launch does not clear ri.
RestartsInPlace(X, R) ==
  LET running  == {q \in Scripts : doscript[q]}
      quits    == running \cap X
      restarts == (running \cap R) \ X
  IN  /\ doscript' = [q \in Scripts |-> doscript[q] /\ q \notin quits]
      /\ Launched(restarts)
      /\ pc' = pc
      /\ owed' = owed \ (quits \cup restarts)
      /\ relaunched' = relaunched \ restarts

\* timeExitAllGenscript: X are the scripts whose exitState, R those whose
\* reloadState has the bit of what happens.
TimeExit(X, R) ==
  LET running  == {q \in Scripts : doscript[q]}
      quits    == running \cap X
      restarts == (running \cap R) \ X
  IN  /\ doscript' = [q \in Scripts |-> doscript[q] /\ q \notin quits]
      /\ Launched(restarts)
      /\ pc' = [q \in Scripts |-> IF q \in restarts THEN "begin" ELSE pc[q]]
      /\ owed' = owed \ (quits \cup restarts)
      /\ relaunched' = relaunched \ restarts

-----------------------------------------------------------------------------
(* The game loop                                                           *)

InLoop == stack = <<>>

\* A new frame.
LoopTop ==
  /\ InLoop /\ phase = EndFrame + 1 /\ Quit = "no"
  /\ phase' = 0
  /\ genscript_timing' = START_FRAME
  /\ UNCHANGED <<scripts, Quit, stack, ri, frozen, owed, relaunched>>

\* The scripts that a turn is due to at timing t
Due(t) == {q \in Scripts : doscript[q] /\ (waituntil[q] = t \/ (wait_atleast[q] /\ waituntil[q] <= t))}

\* Mutant of Called: the rounds that were passed over are left out.
CalledOutOfTime(t) ==
  /\ stack' = Push(EngineCall(t, 1))
  /\ owed' = Due(t)

\* A call of runGenericPassiveEngine starts its round at once if it is that
\* round's turn.
Called(t) ==
  /\ stack' = Push(EngineCall(t, IF genscript_timing = t THEN 1 ELSE 0))
  /\ owed' = IF genscript_timing = t THEN Due(t) ELSE owed

LoopCall ==
  /\ InLoop /\ phase \in Timings
  /\ Called(phase)
  /\ phase' = phase + 1
  /\ UNCHANGED <<genscript_timing, scripts, Quit, ri, frozen, relaunched>>

LoopSkip ==
  /\ InLoop /\ phase \in Skipped
  /\ phase' = phase + 1
  /\ UNCHANGED <<genscript_timing, scripts, Quit, stack, ri, frozen, owed, relaunched>>

\* The loop runs a script of another kind.
RunHost ==
  /\ InLoop /\ phase \in Timings /\ Quit # "reset"
  /\ stack' = Push(ScriptCall(Host, START_FRAME, TRUE))
  /\ ri' = Host
  /\ UNCHANGED <<genscript_timing, scripts, phase, Quit, frozen, owed, relaunched>>

\* Hero.animate may scroll the screen or play a wipe, in frames of its own,
\* which call the engine in the midst of that of the game loop,
HeroFrames ==
  /\ InLoop /\ phase = HeroTiming
  /\ \E t \in Timings : Called(t)
  /\ UNCHANGED <<genscript_timing, scripts, phase, Quit, ri, frozen, relaunched>>

\* may load another screen,
HeroWarps ==
  /\ InLoop /\ phase = HeroTiming
  /\ \E X, R \in SUBSET Scripts : TimeExit(X, R)
  /\ UNCHANGED <<genscript_timing, phase, Quit, stack, ri, frozen>>

\* or make the game loop return or start again.
HeroEndsFrame ==
  /\ InLoop /\ phase = HeroTiming
  /\ phase' = EndFrame + 1
  /\ UNCHANGED <<genscript_timing, scripts, Quit, stack, ri, frozen, owed, relaunched>>

\* The player quits, then continues (cont_game).
Continue ==
  /\ InLoop /\ phase = EndFrame + 1 /\ Quit # "reset"
  /\ \E X, R \in SUBSET Scripts : TimeExit(X, R)
  /\ Quit' = "no"
  /\ UNCHANGED <<genscript_timing, phase, stack, ri, frozen>>

\* Or another game is loaded (init_game): load_genscript, then timeExit.
LoadGame ==
  /\ InLoop /\ phase = EndFrame + 1
  /\ doscript' \in [Scripts -> BOOLEAN]
  /\ Launched(Scripts)
  /\ pc' = [q \in Scripts |-> "begin"]
  /\ genscript_timing' = START_FRAME
  /\ Quit' = "no"
  /\ relaunched' = {}
  /\ UNCHANGED <<phase, stack, ri, frozen, owed>>

-----------------------------------------------------------------------------
(* runGenericPassiveEngine                                                 *)

\* A round that was passed over is run first.
CatchUp ==
  /\ TopIs("engine") /\ Top.q = 0 /\ genscript_timing # Top.scrtm
  /\ Len(stack) < MaxDepth
  /\ Called(genscript_timing)
  /\ UNCHANGED <<genscript_timing, scripts, phase, Quit, ri, frozen, relaunched>>

\* Then the call's own.
StartRound ==
  /\ TopIs("engine") /\ Top.q = 0 /\ genscript_timing = Top.scrtm
  /\ stack' = SetTop([Top EXCEPT !.q = 1])
  /\ owed' = Due(Top.scrtm)
  /\ UNCHANGED <<genscript_timing, scripts, phase, Quit, ri, frozen, relaunched>>

\* Mutant of Waits: a later timing always ends a wait.
WaitsAtLeast(q, scrtm) == ~doscript[q] \/ waituntil[q] > scrtm

\* Mutant of Waits: at_least is the wrong way round.
WaitsAtMost(q, scrtm) ==
  ~doscript[q] \/ waituntil[q] < scrtm \/ (~wait_atleast[q] /\ waituntil[q] # scrtm)

Waits(q, scrtm) ==
  ~doscript[q] \/ waituntil[q] > scrtm \/ (~wait_atleast[q] /\ waituntil[q] # scrtm)

SkipScript ==
  /\ TopIs("engine") /\ Top.q \in Scripts
  /\ Waits(Top.q, Top.scrtm) \/ Quit = "reset"
  /\ stack' = SetTop([Top EXCEPT !.q = @ + 1])
  /\ UNCHANGED <<genscript_timing, scripts, phase, Quit, ri, frozen, owed, relaunched>>

\* RunScript(SCRIPT_GENERIC, q, q); run_script returns at once after a reset.
RunGeneric ==
  /\ TopIs("engine") /\ Top.q \in Scripts /\ Len(stack) < MaxDepth
  /\ ~Waits(Top.q, Top.scrtm) /\ Quit # "reset"
  /\ LET q == Top.q IN
       /\ stack' = Append(SetTop([Top EXCEPT !.q = q + 1]),
                          ScriptCall(Passive(q), waituntil[q], wait_atleast[q]))
       /\ ri' = Passive(q)
       /\ initialized' = [initialized EXCEPT ![q] = TRUE]
       /\ owed' = owed \ {q}
       /\ relaunched' = relaunched \ {q}
  /\ UNCHANGED <<genscript_timing, doscript, wait_atleast, waituntil, pc, phase, Quit, frozen>>

\* Mutant of EndRound: the timing is not reset after the last one.
NeverWraps ==
  /\ TopIs("engine") /\ Top.q > NumScripts
  /\ genscript_timing' = genscript_timing + 1
  /\ stack' = Pop
  /\ UNCHANGED <<scripts, phase, Quit, ri, frozen, owed, relaunched>>

\* Mutant of EndRound: it stays at the last one.
StaysAtEnd ==
  /\ TopIs("engine") /\ Top.q > NumScripts
  /\ genscript_timing' = IF genscript_timing >= EndFrame THEN EndFrame ELSE genscript_timing + 1
  /\ stack' = Pop
  /\ UNCHANGED <<scripts, phase, Quit, ri, frozen, owed, relaunched>>

EndRound ==
  /\ TopIs("engine") /\ Top.q > NumScripts
  /\ genscript_timing' = IF genscript_timing >= EndFrame THEN START_FRAME ELSE genscript_timing + 1
  /\ stack' = Pop
  /\ UNCHANGED <<scripts, phase, Quit, ri, frozen, owed, relaunched>>

-----------------------------------------------------------------------------
(* run_script: what the script whose turn it is may do                     *)

\* The interpreter executes the script of the innermost call.  (If ri is
\* another's, what follows is not that script's program, and not modelled.)
Executes(o) == TopIs("script") /\ Top.self = o /\ ri = o

\* The pc of the generic script o, if it is one, moves on.
Advanced(o) == [q \in Scripts |-> IF o = Passive(q) THEN "later" ELSE pc[q]]

\* Is the script p in the middle of a turn?
InTurn(p) == \E n \in 1..Len(stack) : stack[n].call = "script" /\ stack[n].self = Passive(p)

\* genericdata->Running = true.  A script that is launched in a turn of its own,
\* by itself or by a frozen script that it runs, does not start again: launch
\* sets its pc to 0 and the command that is being executed adds 1 to it.
Launch(o, p) ==
  /\ Executes(o)
  /\ doscript' = [doscript EXCEPT ![p] = TRUE]
  /\ Launched({p})
  /\ pc' = [q \in Scripts |-> IF o = Passive(q) THEN "later" ELSE IF q = p THEN "begin" ELSE pc[q]]
  /\ owed' = owed \ {p}
  /\ relaunched' = IF InTurn(p) THEN relaunched \cup {p} ELSE relaunched \ {p}
  /\ UNCHANGED <<genscript_timing, phase, Quit, stack, ri, frozen>>

\* genericdata->Running = false
Stop(o, p) ==
  /\ Executes(o)
  /\ doscript' = [doscript EXCEPT ![p] = FALSE]
  /\ pc' = Advanced(o)
  /\ owed' = owed \ {p}
  /\ UNCHANGED <<genscript_timing, initialized, wait_atleast, waituntil, phase, Quit, stack, ri,
                 frozen, relaunched>>

\* WaitTo(t, a) of a generic script: the script goes on at once if it is that
\* timing, or if at_least is given and it is an earlier one (ffscript.cpp:29393).
NoNeedToWait(t, a) == genscript_timing = t \/ (a /\ genscript_timing < t)

WaitToReturns(q, t, a) ==
  /\ Executes(Passive(q))
  /\ NoNeedToWait(t, a)
  /\ stack' = SetTop([Top EXCEPT !.after = t, !.atleast = a])
  /\ pc' = Advanced(Passive(q))
  /\ UNCHANGED <<genscript_timing, doscript, initialized, wait_atleast, waituntil, phase, Quit,
                 ri, frozen, owed, relaunched>>

WaitToWaits(q, t, a) ==
  /\ Executes(Passive(q))
  /\ ~NoNeedToWait(t, a)
  /\ waituntil' = [waituntil EXCEPT ![q] = t]
  /\ wait_atleast' = [wait_atleast EXCEPT ![q] = a]
  /\ pc' = Advanced(Passive(q))
  /\ stack' = Pop
  /\ UNCHANGED <<genscript_timing, doscript, initialized, phase, Quit, ri, frozen, owed,
                 relaunched>>

\* Waitframe() of a generic script; one of another kind only returns.
Waitframe(o) ==
  /\ Executes(o)
  /\ waituntil' = [q \in Scripts |-> IF o = Passive(q) THEN START_FRAME ELSE waituntil[q]]
  /\ wait_atleast' = [q \in Scripts |-> wait_atleast[q] /\ o # Passive(q)]
  /\ pc' = Advanced(o)
  /\ stack' = Pop
  /\ UNCHANGED <<genscript_timing, doscript, initialized, phase, Quit, ri, frozen, owed,
                 relaunched>>

\* The end of a script.
Ends(o) ==
  /\ Executes(o)
  /\ doscript' = [q \in Scripts |-> doscript[q] /\ o # Passive(q)]
  /\ gen_active_doscript' = (gen_active_doscript /\ o[1] # "frozen")
  /\ stack' = Pop
  /\ UNCHANGED <<genscript_timing, initialized, wait_atleast, waituntil, pc, phase, Quit, ri,
                 gen_active_initialized, owed, relaunched>>

-----------------------------------------------------------------------------
(* runGenericFrozenEngine                                                  *)

\* genericdata->RunFrozen()
RunFrozen(o, p) ==
  /\ Executes(o) /\ Len(stack) + 1 < MaxDepth
  /\ stack' = Push(FrozenCall(p))
  /\ gen_active_doscript' = TRUE
  /\ gen_active_initialized' = FALSE
  /\ UNCHANGED <<genscript_timing, scripts, phase, Quit, ri, owed, relaunched>>

\* RunScript(SCRIPT_GENERIC_FROZEN, ...), once in each of its frames
FrozenTurn ==
  /\ TopIs("frozen") /\ gen_active_doscript /\ Quit = "no"
  /\ LET o == FrozenAt(Len(stack)) IN
       /\ stack' = Push(ScriptCall(o, START_FRAME, TRUE))
       /\ ri' = o
  /\ gen_active_initialized' = TRUE
  /\ UNCHANGED <<genscript_timing, scripts, phase, Quit, gen_active_doscript, owed, relaunched>>

\* advanceframe: the player may quit.
QuitsFrozen ==
  /\ TopIs("frozen") /\ Quit = "no"
  /\ Quit' \in {"quit", "reset"}
  /\ UNCHANGED <<genscript_timing, scripts, phase, stack, ri, frozen, owed, relaunched>>

\* Mutant of FrozenReturns: pop_ri is forgotten.
KeepsRegisters ==
  /\ TopIs("frozen") /\ (~gen_active_doscript \/ Quit # "no")
  /\ gen_active_initialized' = Top.initialized
  /\ gen_active_doscript' = Top.doscript
  /\ pc' = Advanced(ri)
  /\ stack' = Pop
  /\ UNCHANGED <<genscript_timing, doscript, initialized, wait_atleast, waituntil, phase, Quit,
                 ri, owed, relaunched>>

\* Mutant of FrozenReturns: the flags of the outer frozen script are not
\* restored.
KeepsFlags ==
  /\ TopIs("frozen") /\ (~gen_active_doscript \/ Quit # "no")
  /\ ri' = Top.ri
  /\ pc' = Advanced(Top.ri)
  /\ stack' = Pop
  /\ UNCHANGED <<genscript_timing, doscript, initialized, wait_atleast, waituntil, phase, Quit,
                 frozen, owed, relaunched>>

FrozenReturns ==
  /\ TopIs("frozen") /\ (~gen_active_doscript \/ Quit # "no")
  /\ gen_active_initialized' = Top.initialized
  /\ gen_active_doscript' = Top.doscript
  /\ ri' = Top.ri
  /\ pc' = Advanced(Top.ri)
  /\ stack' = Pop
  /\ UNCHANGED <<genscript_timing, doscript, initialized, wait_atleast, waituntil, phase, Quit,
                 owed, relaunched>>

-----------------------------------------------------------------------------
(* The specification                                                       *)

Runners == {Host} \cup {Passive(q) : q \in Scripts} \cup {FrozenAt(n) : n \in 1..MaxDepth}

LoopStep == LoopTop \/ LoopCall \/ LoopSkip \/ RunHost \/ HeroFrames \/ HeroWarps
            \/ HeroEndsFrame \/ Continue \/ LoadGame

EngineStep == CatchUp \/ StartRound \/ SkipScript \/ RunGeneric \/ EndRound

FrozenStep == FrozenTurn \/ QuitsFrozen \/ FrozenReturns

ScriptStep(o) ==
  \/ Waitframe(o)
  \/ Ends(o)
  \/ \E p \in Scripts : Launch(o, p) \/ Stop(o, p) \/ RunFrozen(o, p)

WaitToStep ==
  \E q \in Scripts, t \in Timings, a \in BOOLEAN : WaitToReturns(q, t, a) \/ WaitToWaits(q, t, a)

Next == LoopStep \/ EngineStep \/ FrozenStep \/ WaitToStep \/ \E o \in Runners : ScriptStep(o)

\* The scripts play no wipes, which the interpreter does not cope with (Wipe).
Spec == Init /\ [][Next]_vars

\* Time passes: the loop goes on, a frame is completed now and then, and every
\* turn of a script ends (one that never waits is reported as hung).  A frozen
\* script, for which the rest of the game stands still, comes to its end.
EndsTurn(q) == Waitframe(Passive(q)) \/ Ends(Passive(q))
               \/ \E t \in Timings, a \in BOOLEAN : WaitToWaits(q, t, a)

Fairness ==
  /\ WF_vars(LoopTop) /\ WF_vars(EngineStep) /\ WF_vars(FrozenTurn \/ FrozenReturns)
  /\ \A t \in Timings : SF_vars(phase = t /\ (LoopCall \/ LoopSkip))
  /\ \A q \in Scripts : SF_vars(EndsTurn(q))
  /\ SF_vars(Waitframe(Host) \/ Ends(Host))
  /\ \A n \in 2..MaxDepth - 1 : SF_vars(Ends(FrozenAt(n)))

FairSpec == Spec /\ Fairness

\* A command (ZapIn, ZapOut, WavyIn, WavyOut) that plays a wipe calls the engine
\* for the end of a frame in the midst of the script.
Wipe(o) ==
  /\ Executes(o) /\ Len(stack) < MaxDepth
  /\ Called(EndFrame)
  /\ UNCHANGED <<genscript_timing, scripts, phase, Quit, ri, frozen, relaunched>>

NextWipes == Next \/ \E o \in Runners : Wipe(o)
SpecWipes == Init /\ [][NextWipes]_vars

-----------------------------------------------------------------------------
(* Properties                                                              *)

Frames == [call : {"engine"}, scrtm : Timings, q : 0..NumScripts + 1]
          \cup [call : {"script"}, self : Owners, after : Timings, atleast : BOOLEAN]
          \cup [call : {"frozen"}, q : Scripts, ri : Owners, initialized : BOOLEAN, doscript : BOOLEAN]

\* The types of the variables.
TypeOK ==
  /\ genscript_timing \in Timings
  /\ doscript \in [Scripts -> BOOLEAN]
  /\ initialized \in [Scripts -> BOOLEAN]
  /\ wait_atleast \in [Scripts -> BOOLEAN]
  /\ waituntil \in [Scripts -> Timings]
  /\ pc \in [Scripts -> {"begin", "later"}]
  /\ phase \in 0..EndFrame + 1
  /\ Quit \in {"no", "quit", "reset"}
  /\ stack \in Seq(Frames)
  /\ ri \in Owners
  /\ gen_active_initialized \in BOOLEAN
  /\ gen_active_doscript \in BOOLEAN
  /\ owed \subseteq Scripts /\ relaunched \subseteq Scripts

\* The script of the innermost call is executed with its own registers, also
\* after the scripts that it ran in the middle of its turn (push_ri, pop_ri).
OwnRegisters == TopIs("script") => ri = Top.self

\* The round of a call is the one that genscript_timing stands for, however the
\* calls nest: the rounds that were passed over are run before it.
RoundInTime ==
  \A n \in 1..Len(stack) :
    stack[n].call = "engine" /\ stack[n].q > 0 => stack[n].scrtm = genscript_timing

\* At the end of a round no script is left whose wait was over when the round
\* began, unless it was launched anew or stopped, or the game is being reset.
NoneOwed == TopIs("engine") /\ Top.q > NumScripts /\ Quit # "reset" => owed = {}

\* A script that waits for one timing and not for a later one (Waitframe, or
\* WaitTo without at_least) goes on at that very timing, and the frozen scripts
\* that it runs do not make it miss the rest of it.
ExactWait ==
  \A n \in 1..Len(stack) :
    stack[n].call = "script" /\ stack[n].self[1] = "generic" /\ ~stack[n].atleast
      => genscript_timing = stack[n].after

\* Where a script whose InitD is still to be loaded will begin: at its first
\* command, if another script or timeExit launched it; behind it, and so it does
\* not start again, if it was launched in a turn of its own, although
\* ZScript_Additions.txt:7694 says of Running: "If written to true, launches (or
\* restarts) the script".
BeginsAtFirstCommand ==
  \A q \in Scripts :
    doscript[q] /\ ~initialized[q] /\ ~InTurn(q) => (pc[q] = "begin" <=> q \notin relaunched)

\* While a frozen script is executed the two global flags are its own: it has
\* been initialized and has not ended, also after another one that it ran.
FrozenFlags ==
  TopIs("script") /\ Top.self[1] = "frozen" => gen_active_initialized /\ gen_active_doscript

\* A script that runs has its turn in the end, whatever it waits for, unless it
\* is stopped or the player leaves.
GetsItsTurn ==
  \A q \in Scripts :
    doscript[q] ~> \/ TopIs("script") /\ Top.self = Passive(q)
                  \/ ~doscript[q]
                  \/ Quit # "no"

=============================================================================
