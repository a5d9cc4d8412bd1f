------------------------ MODULE GenericScriptsProofs ------------------------
(* Proofs about GenericScripts, for any number of scripts and timings and  *)
(* any depth of the calls.                                                 *)
EXTENDS GenericScripts, SequenceTheorems, TLAPS

-----------------------------------------------------------------------------
(* The inductive invariant                                                 *)

\* Which call may stand in place n of the stack s: a call of the engine on the
\* game loop, or on one that still has to catch up; a script on the round that
\* gives it its turn, on the frozen run that it belongs to, or on the loop; a
\* frozen run on the script that asked for it, whose registers it has saved and,
\* if that is frozen too, whose flags.
EngineFits(s, n) ==
  s[n].call = "engine" => n = 1 \/ (n = 2 /\ s[1].call = "engine" /\ s[1].q = 0 /\ s[2].q > 0)

ScriptFits(s, n) ==
  s[n].call = "script" =>
    \/ n = 1 /\ s[n].self = Host
    \/ n > 1 /\ s[n - 1].call = "engine" /\ s[n - 1].q > 0 /\ \E q \in Scripts : s[n].self = Passive(q)
    \/ n > 1 /\ s[n - 1].call = "frozen" /\ s[n].self = FrozenAt(n - 1)

FrozenFits(s, n) ==
  s[n].call = "frozen" =>
    /\ n > 1 /\ s[n - 1].call = "script" /\ s[n].ri = s[n - 1].self
    /\ s[n - 1].self[1] = "frozen" => s[n].initialized /\ s[n].doscript

Fits(s) == \A n \in 1..Len(s) : EngineFits(s, n) /\ ScriptFits(s, n) /\ FrozenFits(s, n)

\* A script that has its turn is initialized, or was launched in it, and is owed
\* nothing more.
TurnTaken ==
  \A n \in 1..Len(stack), q \in Scripts :
    stack[n].call = "script" /\ stack[n].self = Passive(q)
      => (initialized[q] \/ q \in relaunched) /\ q \notin owed

\* A script is at its first command until it is initialized; one that was
\* launched in its own turn is behind it, or will be when the call that
\* interrupts that turn returns.
Interrupted(q) ==
  \E n \in 1..Len(stack) - 1 : stack[n].call = "script" /\ stack[n].self = Passive(q)

Begins ==
  \A q \in Scripts :
    IF q \in relaunched THEN pc[q] = "later" \/ Interrupted(q)
    ELSE doscript[q] /\ ~initialized[q] => pc[q] = "begin"

\* While a round runs, the scripts that are owed a turn still wait for it, and
\* the round has not passed their slots.
StillDue ==
  \A n \in 1..Len(stack) :
    stack[n].call = "engine" /\ stack[n].q > 0 =>
      \A p \in owed : p \in Due(genscript_timing) /\ (Quit # "reset" => p >= stack[n].q)

IInv == TypeOK /\ Fits(stack) /\ OwnRegisters /\ RoundInTime /\ ExactWait
        /\ Begins /\ FrozenFlags /\ TurnTaken /\ StillDue

-----------------------------------------------------------------------------
(* Calls, and stacks of them                                               *)

LEMMA FrameFields ==
  ASSUME NEW f \in Frames
  PROVE  /\ f.call \in {"engine", "script", "frozen"}
         /\ f.call = "engine" => f.scrtm \in Timings /\ f.q \in 0..NumScripts + 1
         /\ f.call = "script" => f.self \in Owners /\ f.after \in Timings /\ f.atleast \in BOOLEAN
         /\ f.call = "frozen" => f.ri \in Owners /\ f.initialized \in BOOLEAN /\ f.doscript \in BOOLEAN
  BY DEF Frames

LEMMA EngineFrame ==
  ASSUME NEW t \in Timings, NEW q \in 0..NumScripts + 1
  PROVE  /\ EngineCall(t, q) \in Frames
         /\ EngineCall(t, q).call = "engine"
         /\ EngineCall(t, q).scrtm = t
         /\ EngineCall(t, q).q = q
  BY DEF EngineCall, Frames

LEMMA ScriptFrame ==
  ASSUME NEW o \in Owners, NEW t \in Timings, NEW a \in BOOLEAN
  PROVE  /\ ScriptCall(o, t, a) \in Frames
         /\ ScriptCall(o, t, a).call = "script"
         /\ ScriptCall(o, t, a).self = o
         /\ ScriptCall(o, t, a).after = t
         /\ ScriptCall(o, t, a).atleast = a
  BY DEF ScriptCall, Frames

LEMMA FrozenFrame ==
  ASSUME TypeOK, NEW q \in Scripts
  PROVE  /\ FrozenCall(q) \in Frames
         /\ FrozenCall(q).call = "frozen"
         /\ FrozenCall(q).ri = ri
         /\ FrozenCall(q).initialized = gen_active_initialized
         /\ FrozenCall(q).doscript = gen_active_doscript
  BY DEF FrozenCall, Frames, TypeOK

LEMMA NextQ ==
  ASSUME NEW f \in Frames, f.call = "engine", NEW q \in 0..NumScripts + 1
  PROVE  /\ [f EXCEPT !.q = q] \in Frames
         /\ [f EXCEPT !.q = q].call = "engine"
         /\ [f EXCEPT !.q = q].scrtm = f.scrtm
         /\ [f EXCEPT !.q = q].q = q
  BY DEF Frames

\* The call of a script whose WaitTo has returned.
Resumed(f, t, a) == [f EXCEPT !.after = t, !.atleast = a]

LEMMA WaitOver ==
  ASSUME NEW f \in Frames, f.call = "script", NEW t \in Timings, NEW a \in BOOLEAN
  PROVE  /\ Resumed(f, t, a) \in Frames
         /\ Resumed(f, t, a).call = "script"
         /\ Resumed(f, t, a).self = f.self
         /\ Resumed(f, t, a).after = t
         /\ Resumed(f, t, a).atleast = a
  BY DEF Frames, Resumed

\* A call is pushed, returns, or goes on: the calls below it stay.
LEMMA Pushed ==
  ASSUME NEW s \in Seq(Frames), NEW f \in Frames
  PROVE  /\ Append(s, f) \in Seq(Frames)
         /\ Len(Append(s, f)) = Len(s) + 1
         /\ \A n \in 1..Len(s) : Append(s, f)[n] = s[n]
         /\ Append(s, f)[Len(s) + 1] = f
  BY AppendProperties

LEMMA Popped ==
  ASSUME NEW s \in Seq(Frames), s # <<>>
  PROVE  /\ SubSeq(s, 1, Len(s) - 1) \in Seq(Frames)
         /\ Len(SubSeq(s, 1, Len(s) - 1)) = Len(s) - 1
         /\ \A n \in 1..Len(s) - 1 : SubSeq(s, 1, Len(s) - 1)[n] = s[n]
<1>1. Len(s) \in Nat /\ Len(s) > 0
  BY EmptySeq
<1>2. \A n \in 1..Len(s) - 1 : s[n] \in Frames
  BY <1>1
<1> DEFINE k == Len(s) - 1
           t == SubSeq(s, 1, k)
<1>3. t \in Seq(Frames) /\ Len(t) = (IF 1 <= k THEN k - 1 + 1 ELSE 0)
      /\ \A n \in 1..k - 1 + 1 : t[n] = s[1 + n - 1]
  <2>1. 1 \in Int /\ k \in Int
    BY <1>1
  <2>2. \A n \in 1..k : s[n] \in Frames
    BY <1>2
  <2> HIDE DEF k
  <2> QED BY <2>1, <2>2, SubSeqProperties
<1>4. k \in Nat
  BY <1>1
<1> HIDE DEF t, k
<1>5. /\ t \in Seq(Frames) /\ Len(t) = k
      /\ \A n \in 1..k : t[n] = s[n]
  BY <1>3, <1>4
<1> QED BY <1>5 DEF t, k

LEMMA Replaced ==
  ASSUME NEW s \in Seq(Frames), s # <<>>, NEW f \in Frames
  PROVE  /\ [s EXCEPT ![Len(s)] = f] \in Seq(Frames)
         /\ Len([s EXCEPT ![Len(s)] = f]) = Len(s)
         /\ \A n \in 1..Len(s) - 1 : [s EXCEPT ![Len(s)] = f][n] = s[n]
         /\ [s EXCEPT ![Len(s)] = f][Len(s)] = f
<1>1. Len(s) \in Nat /\ Len(s) > 0
  BY EmptySeq
<1> QED BY <1>1, ExceptSeq

\* What the innermost call is.
LEMMA TopFacts ==
  ASSUME TypeOK, NEW c, TopIs(c)
  PROVE  /\ stack \in Seq(Frames) /\ stack # <<>>
         /\ Len(stack) \in Nat /\ Len(stack) > 0 /\ Len(stack) \in 1..Len(stack)
         /\ Top = stack[Len(stack)] /\ Top \in Frames /\ Top.call = c
<1>1. stack \in Seq(Frames) /\ stack # <<>>
  BY DEF TypeOK, TopIs
<1>2. Len(stack) \in Nat /\ Len(stack) > 0
  BY <1>1, EmptySeq
<1> QED BY <1>1, <1>2 DEF TopIs, Top

-----------------------------------------------------------------------------
(* The shape of the stack                                                  *)

LEMMA FitsPushed ==
  ASSUME NEW s \in Seq(Frames), NEW f \in Frames, Fits(s),
         EngineFits(Append(s, f), Len(s) + 1),
         ScriptFits(Append(s, f), Len(s) + 1),
         FrozenFits(Append(s, f), Len(s) + 1)
  PROVE  Fits(Append(s, f))
<1> DEFINE t == Append(s, f)
<1>1. Len(s) \in Nat /\ Len(t) = Len(s) + 1 /\ \A n \in 1..Len(s) : t[n] = s[n]
  BY Pushed
<1>2. ASSUME NEW n \in 1..Len(s) PROVE EngineFits(t, n) /\ ScriptFits(t, n) /\ FrozenFits(t, n)
  <2>1. t[n] = s[n] /\ t[1] = s[1] /\ (n > 1 => t[n - 1] = s[n - 1]) /\ (n = 2 => t[2] = s[2])
    BY <1>1
  <2>2. EngineFits(s, n) /\ ScriptFits(s, n) /\ FrozenFits(s, n)
    BY DEF Fits
  <2> HIDE DEF t
  <2> QED BY <2>1, <2>2 DEF EngineFits, ScriptFits, FrozenFits
<1>3. \A n \in 1..Len(t) : n \in 1..Len(s) \/ n = Len(s) + 1
  BY <1>1
<1> QED BY <1>2, <1>3 DEF Fits

LEMMA FitsPopped ==
  ASSUME NEW s \in Seq(Frames), s # <<>>, Fits(s)
  PROVE  Fits(SubSeq(s, 1, Len(s) - 1))
<1> DEFINE t == SubSeq(s, 1, Len(s) - 1)
<1>1. Len(s) \in Nat /\ Len(t) = Len(s) - 1 /\ \A n \in 1..Len(s) - 1 : t[n] = s[n]
  BY Popped
<1> HIDE DEF t
<1>2. ASSUME NEW n \in 1..Len(t) PROVE EngineFits(t, n) /\ ScriptFits(t, n) /\ FrozenFits(t, n)
  <2>1. t[n] = s[n] /\ t[1] = s[1] /\ (n > 1 => t[n - 1] = s[n - 1]) /\ (n = 2 => t[2] = s[2])
    BY <1>1
  <2>2. EngineFits(s, n) /\ ScriptFits(s, n) /\ FrozenFits(s, n)
    BY <1>1 DEF Fits
  <2> QED BY <2>1, <2>2 DEF EngineFits, ScriptFits, FrozenFits
<1>3. Fits(t)
  BY <1>2 DEF Fits
<1> QED BY <1>3 DEF t

\* The round of a call goes on.
LEMMA FitsRound ==
  ASSUME NEW s \in Seq(Frames), s # <<>>, Fits(s), s[Len(s)].call = "engine",
         NEW f \in Frames, f.call = "engine", f.q > 0
  PROVE  Fits([s EXCEPT ![Len(s)] = f])
<1> DEFINE t == [s EXCEPT ![Len(s)] = f]
           k == Len(s)
<1>1. k \in Nat /\ k > 0 /\ Len(t) = k /\ (\A n \in 1..k - 1 : t[n] = s[n]) /\ t[k] = f
  BY Replaced, EmptySeq
<1>2. k = 1 \/ (k = 2 /\ s[1].call = "engine" /\ s[1].q = 0)
  <2>1. k \in Nat /\ k > 0
    BY EmptySeq
  <2>2. k \in 1..k
    <3> HIDE DEF k
    <3> QED BY <2>1
  <2>3. EngineFits(s, k)
    BY <2>2 DEF Fits
  <2> QED BY <2>3 DEF EngineFits
<1> HIDE DEF t, k
<1>3. ASSUME NEW n \in 1..k PROVE EngineFits(t, n) /\ ScriptFits(t, n) /\ FrozenFits(t, n)
  <2>1. CASE n = k
    BY <2>1, <1>1, <1>2 DEF EngineFits, ScriptFits, FrozenFits
  <2>2. CASE n # k
    <3>1. n = 1 /\ t[n] = s[n] /\ s[1].call = "engine"
      BY <2>2, <1>1, <1>2
    <3> QED BY <3>1 DEF EngineFits, ScriptFits, FrozenFits
  <2> QED BY <2>1, <2>2
<1>4. Fits(t)
  BY <1>1, <1>3 DEF Fits
<1> QED BY <1>4 DEF t, k

\* The turn of a script goes on.
LEMMA FitsTurn ==
  ASSUME NEW s \in Seq(Frames), s # <<>>, Fits(s), s[Len(s)].call = "script",
         NEW f \in Frames, f.call = "script", f.self = s[Len(s)].self
  PROVE  Fits([s EXCEPT ![Len(s)] = f])
<1> DEFINE t == [s EXCEPT ![Len(s)] = f]
           k == Len(s)
<1>1. k \in Nat /\ k > 0 /\ Len(t) = k /\ (\A n \in 1..k - 1 : t[n] = s[n]) /\ t[k] = f
  BY Replaced, EmptySeq
<1>2. \A n \in 1..k : EngineFits(s, n) /\ ScriptFits(s, n) /\ FrozenFits(s, n)
  BY DEF Fits, k
<1>3. f.self = s[k].self /\ s[k].call = "script"
  BY DEF k
<1> HIDE DEF t, k
<1>4. ASSUME NEW n \in 1..k PROVE EngineFits(t, n) /\ ScriptFits(t, n) /\ FrozenFits(t, n)
  <2>1. CASE n = k
    <3>1. n > 1 => t[n - 1] = s[n - 1]
      BY <2>1, <1>1
    <3> QED BY <3>1, <2>1, <1>1, <1>2, <1>3 DEF EngineFits, ScriptFits, FrozenFits
  <2>2. CASE n # k
    <3>1. t[n] = s[n] /\ t[1] = s[1] /\ (n > 1 => t[n - 1] = s[n - 1]) /\ (n = 2 => t[2] = s[2])
      BY <2>2, <1>1
    <3>2. EngineFits(s, n) /\ ScriptFits(s, n) /\ FrozenFits(s, n)
      BY <1>2
    <3> QED BY <3>1, <3>2 DEF EngineFits, ScriptFits, FrozenFits
  <2> QED BY <2>1, <2>2
<1>5. Fits(t)
  BY <1>1, <1>4 DEF Fits
<1> QED BY <1>5 DEF t, k

-----------------------------------------------------------------------------
(* Types                                                                   *)

LEMMA TopEngine ==
  ASSUME TypeOK, TopIs("engine")
  PROVE  Top.scrtm \in Timings /\ Top.q \in 0..NumScripts + 1
  BY TopFacts, FrameFields

LEMMA TimingFacts == 0 \in Timings /\ EndFrame \in Timings /\ EndFrame \in Nat /\ EndFrame > 0
  BY TimingAssumption DEF Timings

LEMMA OwnerFacts ==
  /\ Host \in Owners /\ Host[1] = "host"
  /\ \A q \in Scripts : Passive(q) \in Owners /\ Passive(q)[1] = "generic" /\ Passive(q)[2] = q
  /\ \A n \in Nat : FrozenAt(n) \in Owners /\ FrozenAt(n)[1] = "frozen"
  /\ \A q \in Scripts : Passive(q) # Host /\ \A n \in Nat : Passive(q) # FrozenAt(n)
  BY ScriptsAssumption DEF Host, Passive, FrozenAt, Owners, Scripts

\* A call of the engine.
LEMMA CalledFacts ==
  ASSUME TypeOK, NEW t \in Timings, Called(t)
  PROVE  \E f \in Frames :
           /\ stack' = Append(stack, f) /\ stack' \in Seq(Frames)
           /\ f.call = "engine" /\ f.scrtm = t
           /\ (f.q = 0 \/ (f.q = 1 /\ genscript_timing = t))
           /\ f.q > 0 => owed' = Due(t)
           /\ f.q = 0 => owed' = owed
           /\ genscript_timing = t => f.q = 1
<1> DEFINE f == EngineCall(t, IF genscript_timing = t THEN 1 ELSE 0)
<1>1. (IF genscript_timing = t THEN 1 ELSE 0) \in 0..NumScripts + 1
  BY ScriptsAssumption
<1>2. f \in Frames /\ f.call = "engine" /\ f.scrtm = t /\ f.q = IF genscript_timing = t THEN 1 ELSE 0
  BY <1>1, EngineFrame
<1>3. stack' = Append(stack, f)
  BY DEF Called, Push
<1>4. Append(stack, f) \in Seq(Frames)
  BY <1>2, Pushed DEF TypeOK
<1>5. owed' = IF genscript_timing = t THEN Due(t) ELSE owed
  BY DEF Called
<1> HIDE DEF f
<1> QED BY <1>2, <1>3, <1>4, <1>5

LEMMA DueScripts == \A t : Due(t) \subseteq Scripts
  BY DEF Due

LEMMA TypeCalled ==
  ASSUME TypeOK, NEW t \in Timings, Called(t)
  PROVE  stack' \in Seq(Frames) /\ owed' \subseteq Scripts
<1>1. stack' \in Seq(Frames)
  BY CalledFacts
<1>2. owed' \subseteq Scripts
  BY DueScripts DEF Called, TypeOK
<1> QED BY <1>1, <1>2

LEMMA TypeTimeExit ==
  ASSUME TypeOK, NEW X, NEW R, TimeExit(X, R)
  PROVE  /\ doscript' \in [Scripts -> BOOLEAN] /\ initialized' \in [Scripts -> BOOLEAN]
         /\ wait_atleast' \in [Scripts -> BOOLEAN] /\ waituntil' \in [Scripts -> Timings]
         /\ pc' \in [Scripts -> {"begin", "later"}]
         /\ owed' \subseteq Scripts /\ relaunched' \subseteq Scripts
  BY TimingFacts DEF TimeExit, Launched, TypeOK, START_FRAME

LEMMA TypeLoop ==
  ASSUME TypeOK, LoopStep
  PROVE  TypeOK'
<1>1. CASE LoopTop
  BY <1>1, TimingFacts DEF LoopTop, TypeOK, scripts, frozen, START_FRAME
<1>2. CASE LoopCall
  <2>1. phase \in Timings /\ phase \in 0..EndFrame + 1 /\ phase + 1 \in 0..EndFrame + 1
    BY <1>2, TimingFacts DEF LoopCall, TypeOK, Timings
  <2>2. stack' \in Seq(Frames) /\ owed' \subseteq Scripts
    BY <1>2, <2>1, TypeCalled DEF LoopCall
  <2> QED BY <1>2, <2>1, <2>2 DEF LoopCall, TypeOK, scripts, frozen
<1>3. CASE LoopSkip
  BY <1>3, TimingAssumption DEF LoopSkip, TypeOK, scripts, frozen
<1>4. CASE RunHost
  <2>1. stack' \in Seq(Frames)
    BY <1>4, OwnerFacts, TimingFacts, ScriptFrame, Pushed DEF RunHost, Push, START_FRAME, TypeOK
  <2> QED BY <1>4, <2>1, OwnerFacts DEF RunHost, TypeOK, scripts, frozen
<1>5. CASE HeroFrames
  <2>1. stack' \in Seq(Frames) /\ owed' \subseteq Scripts
    BY <1>5, TypeCalled DEF HeroFrames
  <2> QED BY <1>5, <2>1 DEF HeroFrames, TypeOK, scripts, frozen
<1>6. CASE HeroWarps
  BY <1>6, TypeTimeExit DEF HeroWarps, TypeOK, frozen
<1>7. CASE HeroEndsFrame
  BY <1>7, TimingFacts DEF HeroEndsFrame, TypeOK, scripts, frozen
<1>8. CASE Continue
  BY <1>8, TypeTimeExit DEF Continue, TypeOK, frozen
<1>9. CASE LoadGame
  BY <1>9, TimingFacts DEF LoadGame, Launched, TypeOK, frozen, START_FRAME
<1> QED
  BY <1>1, <1>2, <1>3, <1>4, <1>5, <1>6, <1>7, <1>8, <1>9 DEF LoopStep

\* The next slot of the round, of a call that is at a slot.
LEMMA NextSlot ==
  ASSUME TypeOK, TopIs("engine"), Top.q \in Scripts
  PROVE  /\ [Top EXCEPT !.q = Top.q + 1] \in Frames
         /\ [Top EXCEPT !.q = Top.q + 1].call = "engine"
         /\ [Top EXCEPT !.q = Top.q + 1].scrtm = Top.scrtm
         /\ [Top EXCEPT !.q = Top.q + 1].q = Top.q + 1
<1>1. Top \in Frames /\ Top.call = "engine"
  BY TopFacts
<1>2. Top.q + 1 \in 0..NumScripts + 1
  BY ScriptsAssumption DEF Scripts
<1> QED BY <1>1, <1>2, NextQ

LEMMA TypeEngine ==
  ASSUME TypeOK, EngineStep
  PROVE  TypeOK'
<1>1. CASE CatchUp
  <2>1. stack' \in Seq(Frames) /\ owed' \subseteq Scripts
    BY <1>1, TypeCalled DEF CatchUp, TypeOK
  <2> QED BY <1>1, <2>1 DEF CatchUp, TypeOK, scripts, frozen
<1>2. CASE StartRound
  <2>1. [Top EXCEPT !.q = 1] \in Frames
    BY <1>2, TopFacts, NextQ, ScriptsAssumption DEF StartRound
  <2>2. stack' \in Seq(Frames)
    BY <1>2, <2>1, TopFacts, Replaced DEF StartRound, SetTop
  <2> QED BY <1>2, <2>2, DueScripts DEF StartRound, TypeOK, scripts, frozen
<1>3. CASE SkipScript
  <2>1. [Top EXCEPT !.q = @ + 1] \in Frames
    BY <1>3, NextSlot DEF SkipScript
  <2>2. stack' \in Seq(Frames)
    BY <1>3, <2>1, TopFacts, Replaced DEF SkipScript, SetTop
  <2> QED BY <1>3, <2>2 DEF SkipScript, TypeOK, scripts, frozen
<1>4. CASE RunGeneric
  <2>1. [Top EXCEPT !.q = Top.q + 1] \in Frames
    BY <1>4, NextSlot DEF RunGeneric
  <2>2. SetTop([Top EXCEPT !.q = Top.q + 1]) \in Seq(Frames)
    BY <1>4, <2>1, TopFacts, Replaced DEF RunGeneric, SetTop
  <2>3. ScriptCall(Passive(Top.q), waituntil[Top.q], wait_atleast[Top.q]) \in Frames
    BY <1>4, OwnerFacts, ScriptFrame DEF RunGeneric, TypeOK
  <2>4. stack' = Append(SetTop([Top EXCEPT !.q = Top.q + 1]),
                        ScriptCall(Passive(Top.q), waituntil[Top.q], wait_atleast[Top.q]))
    BY <1>4 DEF RunGeneric
  <2>5. stack' \in Seq(Frames)
    BY <2>2, <2>3, <2>4, Pushed
  <2>6. Top.q \in Scripts /\ ri' \in Owners
    BY <1>4, OwnerFacts DEF RunGeneric
  <2> QED BY <1>4, <2>5, <2>6 DEF RunGeneric, TypeOK, frozen
<1>5. CASE EndRound
  <2>1. stack' \in Seq(Frames)
    BY <1>5, TopFacts, Popped DEF EndRound, Pop
  <2>2. genscript_timing' \in Timings
    BY <1>5, TimingFacts DEF EndRound, TypeOK, START_FRAME, Timings
  <2> QED BY <1>5, <2>1, <2>2 DEF EndRound, TypeOK, scripts, frozen
<1> QED
  BY <1>1, <1>2, <1>3, <1>4, <1>5 DEF EngineStep

LEMMA TypePop ==
  ASSUME TypeOK, NEW c, TopIs(c), stack' = Pop
  PROVE  stack' \in Seq(Frames)
  BY TopFacts, Popped DEF Pop

LEMMA TypeAdvanced ==
  ASSUME TypeOK, NEW o, pc' = Advanced(o)
  PROVE  pc' \in [Scripts -> {"begin", "later"}]
  BY DEF TypeOK, Advanced

LEMMA TypeFrozen ==
  ASSUME TypeOK, FrozenStep
  PROVE  TypeOK'
<1>1. CASE FrozenTurn
  <2>1. Len(stack) \in Nat
    BY DEF TypeOK
  <2>2. FrozenAt(Len(stack)) \in Owners
    BY <2>1, OwnerFacts
  <2>3. stack' \in Seq(Frames)
    BY <1>1, <2>2, TimingFacts, ScriptFrame, Pushed DEF FrozenTurn, Push, START_FRAME, TypeOK
  <2> QED BY <1>1, <2>2, <2>3 DEF FrozenTurn, TypeOK, scripts
<1>2. CASE QuitsFrozen
  BY <1>2 DEF QuitsFrozen, TypeOK, scripts, frozen
<1>3. CASE FrozenReturns
  <2>1. stack' \in Seq(Frames)
    BY <1>3, TypePop DEF FrozenReturns
  <2>2. Top.ri \in Owners /\ Top.initialized \in BOOLEAN /\ Top.doscript \in BOOLEAN
    BY <1>3, TopFacts, FrameFields DEF FrozenReturns
  <2>3. pc' \in [Scripts -> {"begin", "later"}]
    BY <1>3, TypeAdvanced DEF FrozenReturns
  <2> QED BY <1>3, <2>1, <2>2, <2>3 DEF FrozenReturns, TypeOK
<1> QED
  BY <1>1, <1>2, <1>3 DEF FrozenStep

LEMMA TypeScript ==
  ASSUME TypeOK, NEW o \in Runners, ScriptStep(o)
  PROVE  TypeOK'
<1>1. CASE Waitframe(o)
  <2>1. stack' \in Seq(Frames) /\ pc' \in [Scripts -> {"begin", "later"}]
    BY <1>1, TypePop, TypeAdvanced DEF Waitframe, Executes
  <2> QED BY <1>1, <2>1, TimingFacts DEF Waitframe, TypeOK, frozen, START_FRAME
<1>2. CASE Ends(o)
  <2>1. stack' \in Seq(Frames)
    BY <1>2, TypePop DEF Ends, Executes
  <2>2. doscript' \in [Scripts -> BOOLEAN] /\ gen_active_doscript' \in BOOLEAN
    BY <1>2 DEF Ends, TypeOK
  <2> QED BY <1>2, <2>1, <2>2 DEF Ends, TypeOK
<1>3. ASSUME NEW p \in Scripts, Stop(o, p) PROVE TypeOK'
  <2>1. pc' \in [Scripts -> {"begin", "later"}]
    BY <1>3, TypeAdvanced DEF Stop
  <2> QED BY <1>3, <2>1 DEF Stop, TypeOK, frozen
<1>4. ASSUME NEW p \in Scripts, RunFrozen(o, p) PROVE TypeOK'
  <2>1. stack' \in Seq(Frames)
    BY <1>4, FrozenFrame, Pushed DEF RunFrozen, Push, TypeOK
  <2> QED BY <1>4, <2>1 DEF RunFrozen, TypeOK, scripts
<1>5. ASSUME NEW p \in Scripts, Launch(o, p) PROVE TypeOK'
  BY <1>5, TimingFacts DEF Launch, Launched, TypeOK, frozen, START_FRAME
<1> QED
  BY <1>1, <1>2, <1>3, <1>4, <1>5 DEF ScriptStep

LEMMA TypeWaitTo ==
  ASSUME TypeOK, WaitToStep
  PROVE  TypeOK'
<1>1. PICK q \in Scripts, t \in Timings, a \in BOOLEAN : WaitToReturns(q, t, a) \/ WaitToWaits(q, t, a)
  BY DEF WaitToStep
<1>2. CASE WaitToReturns(q, t, a)
  <2>1. Resumed(Top, t, a) \in Frames
    <3>1. Top \in Frames /\ Top.call = "script"
      BY <1>2, TopFacts DEF WaitToReturns, Executes
    <3> QED BY <3>1, WaitOver
  <2>2. stack' \in Seq(Frames) /\ pc' \in [Scripts -> {"begin", "later"}]
    BY <1>2, <2>1, TopFacts, Replaced, TypeAdvanced DEF WaitToReturns, Executes, SetTop, Resumed
  <2> QED BY <1>2, <2>2 DEF WaitToReturns, TypeOK, frozen
<1>3. CASE WaitToWaits(q, t, a)
  <2>1. stack' \in Seq(Frames) /\ pc' \in [Scripts -> {"begin", "later"}]
    BY <1>3, TypePop, TypeAdvanced DEF WaitToWaits, Executes
  <2> QED BY <1>3, <2>1 DEF WaitToWaits, TypeOK, frozen
<1> QED BY <1>1, <1>2, <1>3

LEMMA InitType ==
  ASSUME Init
  PROVE  TypeOK
<1>1. <<>> \in Seq(Frames)
  BY EmptySeq
<1>2. phase \in 0..EndFrame + 1
  BY TimingFacts DEF Init
<1>3. ri \in Owners
  BY OwnerFacts DEF Init
<1> QED BY <1>1, <1>2, <1>3, TimingFacts DEF Init, TypeOK, START_FRAME

\* The types of the variables (TypeOK), for any number of scripts and timings.
THEOREM TypeCorrect == Spec => []TypeOK
<1>1. TypeOK /\ [Next]_vars => TypeOK'
  <2>1. CASE UNCHANGED vars
    BY <2>1 DEF vars, scripts, frozen, TypeOK
  <2> QED BY <2>1, TypeLoop, TypeEngine, TypeFrozen, TypeScript, TypeWaitTo DEF Next
<1> QED BY InitType, <1>1, PTL DEF Spec

-----------------------------------------------------------------------------
(* What a step must leave alone                                            *)

\* The call in place n is the one that was there.
Old(n) == n \in 1..Len(stack) /\ stack'[n] = stack[n]

LEMMA RoundKept ==
  ASSUME RoundInTime, genscript_timing' = genscript_timing,
         \A n \in 1..Len(stack') :
           Old(n) \/ (stack'[n].call = "engine" /\ stack'[n].q > 0 => stack'[n].scrtm = genscript_timing)
  PROVE  RoundInTime'
  BY DEF RoundInTime, Old

LEMMA ExactKept ==
  ASSUME ExactWait, genscript_timing' = genscript_timing,
         \A n \in 1..Len(stack') :
           Old(n) \/ (stack'[n].call = "script" /\ stack'[n].self[1] = "generic" /\ ~stack'[n].atleast
                        => genscript_timing = stack'[n].after)
  PROVE  ExactWait'
  BY DEF ExactWait, Old

LEMMA TurnKept ==
  ASSUME TurnTaken, owed' \subseteq owed,
         \A n \in 1..Len(stack') :
           Old(n) \/ (\A q \in Scripts : stack'[n].call = "script" /\ stack'[n].self = Passive(q)
                         => (initialized'[q] \/ q \in relaunched') /\ q \notin owed'),
         \A q \in Scripts : InTurn(q) /\ (initialized[q] \/ q \in relaunched)
                              => initialized'[q] \/ q \in relaunched'
  PROVE  TurnTaken'
<1> SUFFICES ASSUME NEW n \in 1..Len(stack'), NEW q \in Scripts,
                    stack'[n].call = "script", stack'[n].self = Passive(q)
             PROVE  (initialized'[q] \/ q \in relaunched') /\ q \notin owed'
  BY DEF TurnTaken
<1>1. CASE Old(n)
  <2>1. n \in 1..Len(stack) /\ stack[n].call = "script" /\ stack[n].self = Passive(q)
    BY <1>1 DEF Old
  <2>2. InTurn(q)
    BY <2>1 DEF InTurn
  <2>3. (initialized[q] \/ q \in relaunched) /\ q \notin owed
    BY <2>1 DEF TurnTaken
  <2> QED BY <2>2, <2>3
<1>2. CASE ~Old(n)
  BY <1>2
<1> QED BY <1>1, <1>2

LEMMA DueKept ==
  ASSUME StillDue, genscript_timing' = genscript_timing, owed' \subseteq owed,
         Quit = "reset" => Quit' = "reset",
         \A n \in 1..Len(stack') : Old(n) \/ stack'[n].call # "engine" \/ stack'[n].q = 0,
         \A p \in owed' : doscript'[p] = doscript[p] /\ waituntil'[p] = waituntil[p]
                          /\ wait_atleast'[p] = wait_atleast[p]
  PROVE  StillDue'
<1> SUFFICES ASSUME NEW n \in 1..Len(stack'), stack'[n].call = "engine", stack'[n].q > 0,
                    NEW p \in owed'
             PROVE  p \in Due(genscript_timing)' /\ (Quit' # "reset" => p >= stack'[n].q)
  BY DEF StillDue
<1>1. n \in 1..Len(stack) /\ stack'[n] = stack[n]
  BY DEF Old
<1>2. p \in Due(genscript_timing) /\ (Quit # "reset" => p >= stack[n].q)
  BY <1>1 DEF StillDue
<1> QED BY <1>1, <1>2 DEF Due

\* The turns that are interrupted stay so.
InterruptedKept ==
  \A n \in 1..Len(stack) - 1 :
    stack[n].call = "script" => n \in 1..Len(stack') - 1 /\ stack'[n] = stack[n]

LEMMA BeginsKept ==
  ASSUME Begins, InterruptedKept,
         \A q \in Scripts : q \in relaunched' => pc'[q] = "later" \/ (q \in relaunched /\ pc'[q] = pc[q]),
         \A q \in Scripts : q \notin relaunched' /\ doscript'[q] /\ ~initialized'[q] =>
           q \notin relaunched /\ doscript[q] /\ ~initialized[q] /\ pc'[q] = pc[q]
  PROVE  Begins'
<1> SUFFICES ASSUME NEW q \in Scripts
             PROVE  IF q \in relaunched' THEN pc'[q] = "later" \/ Interrupted(q)'
                    ELSE doscript'[q] /\ ~initialized'[q] => pc'[q] = "begin"
  BY DEF Begins
<1>1. Interrupted(q) => Interrupted(q)'
  BY DEF Interrupted, InterruptedKept
<1> QED BY <1>1 DEF Begins

LEMMA SameScripts ==
  ASSUME Begins, InterruptedKept, UNCHANGED <<scripts, relaunched>>
  PROVE  Begins'
  BY BeginsKept DEF scripts

\* On an empty stack, or on one of rounds only, no turn is interrupted.
LEMMA NoTurns ==
  ASSUME TypeOK, \A n \in 1..Len(stack) : stack[n].call = "engine"
  PROVE  InterruptedKept
<1>1. Len(stack) \in Nat
  BY DEF TypeOK
<1> QED BY <1>1 DEF InterruptedKept

LEMMA EmptyNoTurns ==
  ASSUME TypeOK, stack = <<>>
  PROVE  InterruptedKept
<1>1. \A n \in 1..Len(stack) : stack[n].call = "engine"
  BY EmptySeq
<1> QED BY <1>1, NoTurns

LEMMA EmptyStack ==
  ASSUME stack' = <<>>
  PROVE  /\ Fits(stack)' /\ OwnRegisters' /\ RoundInTime' /\ ExactWait' /\ FrozenFlags'
         /\ TurnTaken' /\ StillDue'
<1>1. Len(stack') = 0
  BY EmptySeq
<1>2. 1..Len(stack') = {}
  BY <1>1
<1> QED BY <1>2 DEF Fits, OwnRegisters, RoundInTime, ExactWait, FrozenFlags, TurnTaken, StillDue, TopIs

LEMMA OldPopped ==
  ASSUME TypeOK, NEW c, TopIs(c), stack' = Pop
  PROVE  /\ Len(stack') = Len(stack) - 1
         /\ \A n \in 1..Len(stack') : Old(n) /\ n # Len(stack)
<1>1. Len(stack) \in Nat /\ Len(stack') = Len(stack) - 1 /\ \A n \in 1..Len(stack) - 1 : stack'[n] = stack[n]
  BY TopFacts, Popped DEF Pop
<1> QED BY <1>1 DEF Old

LEMMA OldPushed ==
  ASSUME TypeOK, NEW f \in Frames, stack' = Append(stack, f)
  PROVE  /\ Len(stack) \in Nat /\ Len(stack') = Len(stack) + 1 /\ Top' = f
         /\ \A n \in 1..Len(stack') : Old(n) \/ (n = Len(stack) + 1 /\ stack'[n] = f)
         /\ InterruptedKept
<1>1. /\ Len(stack) \in Nat /\ Len(stack') = Len(stack) + 1
      /\ \A n \in 1..Len(stack) : stack'[n] = stack[n]
      /\ stack'[Len(stack) + 1] = f
  BY Pushed DEF TypeOK
<1>2. \A n \in 1..Len(stack') : n \in 1..Len(stack) \/ n = Len(stack) + 1
  BY <1>1
<1>3. InterruptedKept
  BY <1>1 DEF InterruptedKept
<1> QED BY <1>1, <1>2, <1>3 DEF Old, Top

LEMMA OldReplaced ==
  ASSUME TypeOK, NEW c, TopIs(c), NEW f \in Frames, stack' = SetTop(f)
  PROVE  /\ Len(stack') = Len(stack) /\ Top' = f
         /\ \A n \in 1..Len(stack') : Old(n) \/ (n = Len(stack) /\ stack'[n] = f)
         /\ InterruptedKept
<1>1. /\ Len(stack) \in Nat /\ Len(stack') = Len(stack)
      /\ \A n \in 1..Len(stack) - 1 : stack'[n] = stack[n]
      /\ stack'[Len(stack)] = f
  BY TopFacts, Replaced DEF SetTop
<1>2. \A n \in 1..Len(stack') : n \in 1..Len(stack) - 1 \/ n = Len(stack)
  BY <1>1
<1>3. InterruptedKept
  BY <1>1 DEF InterruptedKept
<1> QED BY <1>1, <1>2, <1>3 DEF Old, Top

-----------------------------------------------------------------------------
(* The steps of a script                                                   *)

LEMMA TypeStep ==
  ASSUME TypeOK, Next
  PROVE  TypeOK'
  BY TypeLoop, TypeEngine, TypeFrozen, TypeScript, TypeWaitTo DEF Next

LEMMA ExecutesFacts ==
  ASSUME IInv, NEW o, Executes(o)
  PROVE  /\ Len(stack) \in 1..Len(stack)
         /\ stack[Len(stack)].call = "script" /\ stack[Len(stack)].self = o
         /\ ri = o /\ Top = stack[Len(stack)] /\ Top \in Frames
         /\ ScriptFits(stack, Len(stack))
         /\ \A q \in Scripts : o = Passive(q) =>
              (initialized[q] \/ q \in relaunched) /\ q \notin owed /\ InTurn(q)
<1>1. /\ Len(stack) \in 1..Len(stack)
      /\ stack[Len(stack)].call = "script" /\ stack[Len(stack)].self = o
      /\ ri = o /\ Top = stack[Len(stack)] /\ Top \in Frames
  BY TopFacts DEF IInv, Executes
<1>2. ScriptFits(stack, Len(stack))
  BY <1>1 DEF IInv, Fits
<1>3. \A q \in Scripts : o = Passive(q) =>
        (initialized[q] \/ q \in relaunched) /\ q \notin owed /\ InTurn(q)
  BY <1>1 DEF IInv, TurnTaken, InTurn
<1> QED BY <1>1, <1>2, <1>3

LEMMA AdvancedBegins ==
  ASSUME IInv, NEW o, Executes(o), pc' = Advanced(o) \/ pc' = pc,
         UNCHANGED <<initialized, relaunched>>, \A q \in Scripts : doscript'[q] => doscript[q],
         InterruptedKept
  PROVE  Begins'
<1>1. \A q \in Scripts : pc'[q] = "later" \/ pc'[q] = pc[q]
  BY DEF Advanced
<1>2. \A q \in Scripts : initialized[q] \/ q \in relaunched \/ pc'[q] = pc[q]
  BY ExecutesFacts DEF Advanced
<1> QED BY <1>1, <1>2, BeginsKept DEF IInv

\* A script returns to the call below it.
LEMMA TurnEnds ==
  ASSUME IInv, NEW o, Executes(o), stack' = Pop,
         UNCHANGED <<genscript_timing, Quit, initialized, owed, relaunched>>,
         \A p \in Scripts : o # Passive(p) =>
           doscript'[p] = doscript[p] /\ waituntil'[p] = waituntil[p] /\ wait_atleast'[p] = wait_atleast[p]
  PROVE  /\ Fits(stack)' /\ OwnRegisters' /\ RoundInTime' /\ ExactWait' /\ FrozenFlags'
         /\ TurnTaken' /\ StillDue' /\ InterruptedKept
<1>1. TypeOK /\ TopIs("script") /\ stack \in Seq(Frames) /\ stack # <<>>
  BY TopFacts DEF IInv, Executes
<1>2. Len(stack') = Len(stack) - 1 /\ \A n \in 1..Len(stack') : Old(n)
  BY <1>1, OldPopped
<1>3. Fits(stack)'
  BY <1>1, FitsPopped DEF IInv, Pop
<1>4. ~TopIs("script")'
  <2>1. CASE Len(stack) = 1
    BY <2>1, <1>2, EmptySeq, ExecutesFacts DEF TopIs, Pop
  <2>2. CASE Len(stack) > 1
    <3>1. stack'[Len(stack) - 1] = stack[Len(stack) - 1] /\ stack[Len(stack) - 1].call # "script"
      <4>1. Len(stack) - 1 \in 1..Len(stack')
        BY <2>2, <1>1, <1>2, TopFacts
      <4>2. ScriptFits(stack, Len(stack)) /\ stack[Len(stack)].call = "script"
        BY ExecutesFacts
      <4> QED BY <4>1, <4>2, <2>2, <1>2 DEF ScriptFits, Old
    <3> QED BY <3>1, <1>2 DEF TopIs, Top
  <2>3. Len(stack) \in Nat /\ Len(stack) > 0
    BY <1>1, TopFacts
  <2> QED BY <2>1, <2>2, <2>3
<1>5. OwnRegisters' /\ FrozenFlags'
  BY <1>4 DEF OwnRegisters, FrozenFlags
<1>6. RoundInTime' /\ ExactWait' /\ TurnTaken'
  BY <1>2, RoundKept, ExactKept, TurnKept DEF IInv
<1>7. \A p \in owed : p \in Scripts /\ o # Passive(p)
  BY ExecutesFacts, <1>1 DEF TypeOK
<1>8. StillDue'
  BY <1>2, <1>7, DueKept DEF IInv
<1>9. InterruptedKept
  <2> SUFFICES ASSUME NEW n \in 1..Len(stack) - 1, stack[n].call = "script"
               PROVE  n \in 1..Len(stack') - 1 /\ stack'[n] = stack[n]
    BY DEF InterruptedKept
  <2>1. Len(stack) \in Nat /\ n \in 1..Len(stack')
    BY <1>1, <1>2, TopFacts
  <2>2. n # Len(stack) - 1
    BY <2>1, ExecutesFacts DEF ScriptFits
  <2> QED BY <2>1, <2>2, <1>2 DEF Old
<1> QED BY <1>3, <1>5, <1>6, <1>8, <1>9

LEMMA ScriptTurnEnds ==
  ASSUME IInv, TypeOK', NEW o \in Runners, Waitframe(o) \/ Ends(o)
  PROVE  IInv'
<1>1. Executes(o) /\ stack' = Pop
      /\ UNCHANGED <<genscript_timing, Quit, initialized, owed, relaunched>>
  BY DEF Waitframe, Ends
<1>2. \A p \in Scripts : o # Passive(p) =>
        doscript'[p] = doscript[p] /\ waituntil'[p] = waituntil[p] /\ wait_atleast'[p] = wait_atleast[p]
  BY DEF Waitframe, Ends, IInv, TypeOK
<1>3. \A p \in Scripts : doscript'[p] => doscript[p]
  BY DEF Waitframe, Ends
<1>4. pc' = Advanced(o) \/ pc' = pc
  BY DEF Waitframe, Ends
<1>5. /\ Fits(stack)' /\ OwnRegisters' /\ RoundInTime' /\ ExactWait' /\ FrozenFlags'
      /\ TurnTaken' /\ StillDue' /\ InterruptedKept
  BY <1>1, <1>2, TurnEnds
<1>6. Begins'
  BY <1>1, <1>3, <1>4, <1>5, AdvancedBegins
<1> QED BY <1>5, <1>6 DEF IInv

LEMMA WaitToKeeps ==
  ASSUME IInv, TypeOK', NEW q \in Scripts, NEW t \in Timings, NEW a \in BOOLEAN,
         WaitToReturns(q, t, a) \/ WaitToWaits(q, t, a)
  PROVE  IInv'
<1> DEFINE o == Passive(q)
<1>1. /\ Executes(o) /\ pc' = Advanced(o)
      /\ UNCHANGED <<genscript_timing, Quit, initialized, owed, doscript, ri, frozen, relaunched>>
  BY DEF WaitToReturns, WaitToWaits
<1>2. InterruptedKept => Begins'
  BY <1>1, AdvancedBegins
<1>3. CASE WaitToWaits(q, t, a)
  <2>1. \A p \in Scripts : o # Passive(p) =>
          doscript'[p] = doscript[p] /\ waituntil'[p] = waituntil[p] /\ wait_atleast'[p] = wait_atleast[p]
    BY <1>3 DEF WaitToWaits, IInv, TypeOK, Passive
  <2>2. stack' = Pop
    BY <1>3 DEF WaitToWaits
  <2> QED BY <1>1, <1>2, <2>1, <2>2, TurnEnds DEF IInv
<1>4. CASE WaitToReturns(q, t, a)
  <2> DEFINE f == Resumed(Top, t, a)
  <2>1. /\ Top \in Frames /\ Top = stack[Len(stack)] /\ Top.call = "script" /\ Top.self = o
        /\ Len(stack) \in 1..Len(stack) /\ TopIs("script") /\ TypeOK
    BY <1>1, ExecutesFacts DEF Executes, IInv
  <2>2. f \in Frames /\ f.call = "script" /\ f.self = Top.self /\ f.after = t /\ f.atleast = a
    <3>1. Top \in Frames /\ Top.call = "script"
      BY <2>1
    <3> QED BY <3>1, WaitOver
  <2>3. stack' = SetTop(f) /\ UNCHANGED <<waituntil, wait_atleast>> /\ NoNeedToWait(t, a)
    BY <1>4 DEF WaitToReturns, Resumed
  <2> HIDE DEF f
  <2>4. /\ Len(stack') = Len(stack) /\ Top' = f
        /\ \A n \in 1..Len(stack') : Old(n) \/ (n = Len(stack) /\ stack'[n] = f)
        /\ InterruptedKept
    BY <2>1, <2>2, <2>3, OldReplaced
  <2>5. Fits(stack)'
    BY <2>1, <2>2, <2>3, FitsTurn, TopFacts DEF SetTop, IInv
  <2>6. OwnRegisters' /\ FrozenFlags'
    BY <1>1, <2>1, <2>2, <2>4, OwnerFacts DEF OwnRegisters, FrozenFlags, IInv, Executes
  <2>7. ~a => genscript_timing = t
    BY <2>3 DEF NoNeedToWait
  <2>8. RoundInTime' /\ ExactWait'
    BY <1>1, <2>2, <2>4, <2>7, RoundKept, ExactKept DEF IInv
  <2>9. TurnTaken'
    <3>1. \A n \in 1..Len(stack') :
           Old(n) \/ (\A p \in Scripts : stack'[n].call = "script" /\ stack'[n].self = Passive(p)
                         => (initialized'[p] \/ p \in relaunched') /\ p \notin owed')
      BY <1>1, <2>1, <2>2, <2>4, ExecutesFacts
    <3> QED BY <1>1, <3>1, TurnKept DEF IInv
  <2>10. StillDue'
    <3>1. \A n \in 1..Len(stack') : Old(n) \/ stack'[n].call # "engine" \/ stack'[n].q = 0
      BY <2>2, <2>4
    <3> QED BY <1>1, <2>3, <3>1, DueKept DEF IInv
  <2> QED BY <1>2, <2>4, <2>5, <2>6, <2>8, <2>9, <2>10 DEF IInv
<1> QED BY <1>3, <1>4

\* Steps that leave the stack as it is.
LEMMA SameStack ==
  ASSUME IInv, UNCHANGED <<stack, ri, frozen, genscript_timing>>, owed' \subseteq owed,
         Quit = "reset" => Quit' = "reset",
         \A p \in owed' : doscript'[p] = doscript[p] /\ waituntil'[p] = waituntil[p]
                          /\ wait_atleast'[p] = wait_atleast[p],
         \A q \in Scripts : InTurn(q) /\ (initialized[q] \/ q \in relaunched)
                              => initialized'[q] \/ q \in relaunched'
  PROVE  /\ Fits(stack)' /\ OwnRegisters' /\ RoundInTime' /\ ExactWait' /\ FrozenFlags'
         /\ TurnTaken' /\ StillDue' /\ InterruptedKept
<1>1. \A n \in 1..Len(stack') : Old(n)
  BY DEF Old
<1>2. Fits(stack)'
  BY DEF IInv, Fits, EngineFits, ScriptFits, FrozenFits
<1>3. OwnRegisters' /\ FrozenFlags'
  BY DEF IInv, OwnRegisters, FrozenFlags, TopIs, Top, frozen
<1>4. RoundInTime' /\ ExactWait' /\ TurnTaken' /\ StillDue'
  BY <1>1, RoundKept, ExactKept, TurnKept, DueKept DEF IInv
<1>5. Len(stack) \in Nat
  BY DEF IInv, TypeOK
<1>6. InterruptedKept
  BY <1>5 DEF InterruptedKept
<1> QED BY <1>2, <1>3, <1>4, <1>6

LEMMA StopKeeps ==
  ASSUME IInv, TypeOK', NEW o \in Runners, NEW p \in Scripts, Stop(o, p)
  PROVE  IInv'
<1>1. /\ Executes(o) /\ pc' = Advanced(o) /\ owed' = owed \ {p}
      /\ doscript' = [doscript EXCEPT ![p] = FALSE]
      /\ UNCHANGED <<genscript_timing, initialized, wait_atleast, waituntil, phase, Quit, stack, ri,
                     frozen, relaunched>>
  BY DEF Stop
<1>2. TypeOK
  BY DEF IInv
<1>3. \A q \in Scripts : doscript'[q] => doscript[q]
  BY <1>1, <1>2 DEF TypeOK
<1>4. \A q \in owed' : doscript'[q] = doscript[q]
  BY <1>1, <1>2 DEF TypeOK
<1>5. /\ Fits(stack)' /\ OwnRegisters' /\ RoundInTime' /\ ExactWait' /\ FrozenFlags'
      /\ TurnTaken' /\ StillDue' /\ InterruptedKept
  BY <1>1, <1>4, SameStack
<1>6. Begins'
  BY <1>1, <1>3, <1>5, AdvancedBegins
<1> QED BY <1>5, <1>6 DEF IInv

LEMMA LaunchKeeps ==
  ASSUME IInv, TypeOK', NEW o \in Runners, NEW p \in Scripts, Launch(o, p)
  PROVE  IInv'
<1>1. /\ Executes(o) /\ owed' = owed \ {p}
      /\ doscript' = [doscript EXCEPT ![p] = TRUE]
      /\ initialized' = [q \in Scripts |-> initialized[q] /\ q # p]
      /\ wait_atleast' = [q \in Scripts |-> wait_atleast[q] \/ q = p]
      /\ waituntil' = [q \in Scripts |-> IF q = p THEN START_FRAME ELSE waituntil[q]]
      /\ pc' = [q \in Scripts |-> IF o = Passive(q) THEN "later" ELSE IF q = p THEN "begin" ELSE pc[q]]
      /\ relaunched' = IF InTurn(p) THEN relaunched \cup {p} ELSE relaunched \ {p}
      /\ UNCHANGED <<genscript_timing, phase, Quit, stack, ri, frozen>>
  BY DEF Launch, Launched
<1>2. TypeOK
  BY DEF IInv
<1>3. \A q \in owed' : /\ doscript'[q] = doscript[q] /\ waituntil'[q] = waituntil[q]
                       /\ wait_atleast'[q] = wait_atleast[q]
  BY <1>1, <1>2 DEF TypeOK
<1>4. \A q \in Scripts : InTurn(q) /\ (initialized[q] \/ q \in relaunched)
                          => initialized'[q] \/ q \in relaunched'
  BY <1>1
<1>5. Begins'
  <2> SUFFICES ASSUME NEW q \in Scripts
               PROVE  IF q \in relaunched' THEN pc'[q] = "later" \/ Interrupted(q)'
                      ELSE doscript'[q] /\ ~initialized'[q] => pc'[q] = "begin"
    BY DEF Begins
  <2>1. Interrupted(q)' = Interrupted(q)
    BY <1>1 DEF Interrupted
  <2>2. CASE q # p
    <3>1. doscript'[q] = doscript[q] /\ initialized'[q] = initialized[q]
          /\ (q \in relaunched' <=> q \in relaunched)
      BY <1>1, <1>2, <2>2 DEF TypeOK
    <3>2. o = Passive(q) => initialized[q] \/ q \in relaunched
      BY <1>1, ExecutesFacts
    <3>3. o # Passive(q) => pc'[q] = pc[q]
      BY <1>1, <2>2
    <3>4. o = Passive(q) => pc'[q] = "later"
      BY <1>1
    <3> QED BY <2>1, <3>1, <3>2, <3>3, <3>4 DEF IInv, Begins
  <2>3. CASE q = p /\ o = Passive(q)
    <3>1. InTurn(q)
      BY <1>1, <2>3, ExecutesFacts
    <3> QED BY <1>1, <2>3, <3>1
  <2>4. CASE q = p /\ o # Passive(q)
    <3>1. CASE InTurn(q)
      <4>1. PICK n \in 1..Len(stack) : stack[n].call = "script" /\ stack[n].self = Passive(q)
        BY <3>1 DEF InTurn
      <4>2. n # Len(stack) /\ Len(stack) \in Nat
        BY <1>1, <1>2, <2>4, <4>1, ExecutesFacts DEF TypeOK
      <4>3. Interrupted(q)
        BY <4>1, <4>2 DEF Interrupted
      <4> QED BY <1>1, <2>1, <2>4, <3>1, <4>3
    <3>2. CASE ~InTurn(q)
      BY <1>1, <2>4, <3>2
    <3> QED BY <3>1, <3>2
  <2> QED BY <2>2, <2>3, <2>4
<1> QED BY <1>1, <1>3, <1>4, <1>5, SameStack DEF IInv

-----------------------------------------------------------------------------
(* The steps of a frozen run                                               *)

LEMMA RunFrozenKeeps ==
  ASSUME IInv, TypeOK', NEW o \in Runners, NEW p \in Scripts, RunFrozen(o, p)
  PROVE  IInv'
<1> DEFINE f == FrozenCall(p)
<1>1. /\ Executes(o) /\ stack' = Append(stack, f)
      /\ UNCHANGED <<genscript_timing, scripts, phase, Quit, ri, owed, relaunched>>
  BY DEF RunFrozen, Push
<1>2. /\ f \in Frames /\ f.call = "frozen" /\ f.ri = ri
      /\ f.initialized = gen_active_initialized /\ f.doscript = gen_active_doscript
  BY FrozenFrame DEF IInv
<1> HIDE DEF f
<1>3. /\ TypeOK /\ stack \in Seq(Frames) /\ Fits(stack) /\ FrozenFlags
  BY DEF IInv, TypeOK
<1>4. /\ Len(stack) \in Nat /\ Len(stack') = Len(stack) + 1 /\ Top' = f
      /\ \A n \in 1..Len(stack') : Old(n) \/ (n = Len(stack) + 1 /\ stack'[n] = f)
      /\ InterruptedKept
  BY <1>1, <1>2, <1>3, OldPushed
<1>5. /\ stack'[Len(stack) + 1] = f /\ stack'[Len(stack)] = stack[Len(stack)] /\ Len(stack) > 0
      /\ stack[Len(stack)].call = "script" /\ stack[Len(stack)].self = o /\ ri = o
      /\ Top = stack[Len(stack)] /\ TopIs("script")
  BY <1>1, <1>2, <1>3, Pushed, ExecutesFacts DEF Executes
<1>6. Fits(stack)'
  <2>1. FrozenFits(stack', Len(stack) + 1) /\ EngineFits(stack', Len(stack) + 1) /\ ScriptFits(stack', Len(stack) + 1)
    BY <1>2, <1>3, <1>4, <1>5 DEF FrozenFits, EngineFits, ScriptFits, FrozenFlags
  <2> QED BY <1>1, <1>2, <1>3, <2>1, FitsPushed
<1>7. OwnRegisters' /\ FrozenFlags'
  BY <1>2, <1>4 DEF OwnRegisters, FrozenFlags, TopIs
<1>8. RoundInTime' /\ ExactWait' /\ TurnTaken' /\ StillDue'
  BY <1>1, <1>2, <1>4, RoundKept, ExactKept, TurnKept, DueKept DEF IInv, scripts
<1>9. Begins'
  BY <1>1, <1>4, SameScripts DEF IInv
<1> QED BY <1>6, <1>7, <1>8, <1>9 DEF IInv

LEMMA FrozenTurnKeeps ==
  ASSUME IInv, TypeOK', FrozenTurn
  PROVE  IInv'
<1> DEFINE k == Len(stack)
           o == FrozenAt(k)
           f == ScriptCall(o, START_FRAME, TRUE)
<1>1. /\ TopIs("frozen") /\ gen_active_doscript /\ stack' = Append(stack, f) /\ ri' = o
      /\ gen_active_initialized' = TRUE
      /\ UNCHANGED <<genscript_timing, scripts, phase, Quit, gen_active_doscript, owed, relaunched>>
  BY DEF FrozenTurn, Push
<1>2. TypeOK /\ stack \in Seq(Frames) /\ Fits(stack) /\ k \in Nat
  BY DEF IInv, TypeOK
<1>3. /\ f \in Frames /\ f.call = "script" /\ f.self = o /\ o[1] = "frozen"
      /\ \A q \in Scripts : o # Passive(q)
  <2>1. o \in Owners /\ o[1] = "frozen" /\ \A q \in Scripts : o # Passive(q)
    BY <1>2, OwnerFacts
  <2>2. START_FRAME \in Timings
    BY TimingFacts DEF START_FRAME
  <2> HIDE DEF o
  <2>3. f \in Frames /\ f.call = "script" /\ f.self = o
    BY <2>1, <2>2, ScriptFrame
  <2> QED BY <2>1, <2>3
<1>4. k > 0 /\ stack[k].call = "frozen" /\ o = FrozenAt((k + 1) - 1)
  BY <1>1, <1>2, TopFacts
<1> HIDE DEF f, o
<1>5. /\ Len(stack') = k + 1 /\ Top' = f
      /\ \A n \in 1..Len(stack') : Old(n) \/ (n = k + 1 /\ stack'[n] = f)
      /\ InterruptedKept
  BY <1>1, <1>2, <1>3, OldPushed
<1>6. stack'[k + 1] = f /\ stack'[k] = stack[k]
  BY <1>1, <1>2, <1>3, <1>4, Pushed
<1> HIDE DEF k
<1>7. Fits(stack)'
  <2>1. FrozenFits(stack', k + 1) /\ EngineFits(stack', k + 1) /\ ScriptFits(stack', k + 1)
    BY <1>2, <1>3, <1>4, <1>6 DEF FrozenFits, EngineFits, ScriptFits
  <2> QED BY <1>1, <1>2, <1>3, <2>1, FitsPushed DEF k
<1>8. OwnRegisters' /\ FrozenFlags'
  BY <1>1, <1>3, <1>5 DEF OwnRegisters, FrozenFlags
<1>9. RoundInTime' /\ ExactWait' /\ TurnTaken' /\ StillDue'
  BY <1>1, <1>3, <1>5, RoundKept, ExactKept, TurnKept, DueKept DEF IInv, scripts
<1>10. Begins'
  BY <1>1, <1>5, SameScripts DEF IInv
<1> QED BY <1>7, <1>8, <1>9, <1>10 DEF IInv

LEMMA FrozenReturnsKeeps ==
  ASSUME IInv, TypeOK', FrozenReturns
  PROVE  IInv'
<1> DEFINE k == Len(stack)
<1>1. /\ TopIs("frozen") /\ stack' = Pop /\ ri' = Top.ri
      /\ gen_active_initialized' = Top.initialized /\ gen_active_doscript' = Top.doscript
      /\ pc' = Advanced(Top.ri)
      /\ UNCHANGED <<genscript_timing, doscript, initialized, wait_atleast, waituntil, phase, Quit,
                     owed, relaunched>>
  BY DEF FrozenReturns
<1>2. TypeOK /\ stack \in Seq(Frames) /\ stack # <<>> /\ Fits(stack)
  BY <1>1, TopFacts DEF IInv
<1>3. k \in Nat /\ k > 0 /\ k \in 1..k /\ Top = stack[k] /\ Top.call = "frozen"
  BY <1>1, <1>2, TopFacts
<1>4. FrozenFits(stack, k)
  BY <1>2, <1>3 DEF Fits
<1>5. Len(stack') = k - 1 /\ \A n \in 1..Len(stack') : Old(n)
  BY <1>1, <1>2, OldPopped
<1> HIDE DEF k
<1>6. Fits(stack)'
  BY <1>1, <1>2, FitsPopped DEF Pop
<1>7. k > 1 /\ Top' = stack[k - 1]
  <2>1. k > 1
    BY <1>3, <1>4 DEF FrozenFits
  <2> QED BY <2>1, <1>3, <1>5 DEF Old, Top
<1>8. OwnRegisters' /\ FrozenFlags'
  BY <1>1, <1>3, <1>4, <1>7 DEF OwnRegisters, FrozenFlags, FrozenFits
<1>9. RoundInTime' /\ ExactWait' /\ TurnTaken' /\ StillDue'
  BY <1>1, <1>5, RoundKept, ExactKept, TurnKept, DueKept DEF IInv
<1>10. Begins'
  <2> SUFFICES ASSUME NEW q \in Scripts
               PROVE  IF q \in relaunched THEN pc'[q] = "later" \/ Interrupted(q)'
                      ELSE doscript[q] /\ ~initialized[q] => pc'[q] = "begin"
    BY <1>1 DEF Begins
  <2>1. k - 1 \in 1..Len(stack) /\ stack[k - 1].call = "script" /\ stack[k - 1].self = Top.ri
    BY <1>3, <1>4, <1>7 DEF FrozenFits, k
  <2>2. CASE Top.ri = Passive(q)
    <3>1. initialized[q] \/ q \in relaunched
      BY <2>1, <2>2 DEF IInv, TurnTaken
    <3>2. pc'[q] = "later"
      BY <1>1, <2>2 DEF Advanced
    <3> QED BY <3>1, <3>2
  <2>3. CASE Top.ri # Passive(q)
    <3>1. pc'[q] = pc[q]
      BY <1>1, <2>3 DEF Advanced
    <3>2. ASSUME Interrupted(q) PROVE Interrupted(q)'
      <4>1. PICK n \in 1..k - 1 : stack[n].call = "script" /\ stack[n].self = Passive(q)
        BY <3>2 DEF Interrupted, k
      <4>2. n # k - 1
        BY <2>1, <2>3, <4>1
      <4>3. n \in 1..Len(stack') - 1 /\ stack'[n] = stack[n]
        BY <1>3, <1>5, <4>1, <4>2 DEF Old
      <4> QED BY <4>1, <4>3 DEF Interrupted
    <3> QED BY <3>1, <3>2 DEF IInv, Begins
  <2> QED BY <2>2, <2>3
<1> QED BY <1>6, <1>8, <1>9, <1>10 DEF IInv

LEMMA QuitsFrozenKeeps ==
  ASSUME IInv, TypeOK', QuitsFrozen
  PROVE  IInv'
<1>1. /\ Quit = "no"
      /\ UNCHANGED <<genscript_timing, scripts, phase, stack, ri, frozen, owed, relaunched>>
  BY DEF QuitsFrozen
<1>2. /\ Fits(stack)' /\ OwnRegisters' /\ RoundInTime' /\ ExactWait' /\ FrozenFlags'
      /\ TurnTaken' /\ StillDue' /\ InterruptedKept
  BY <1>1, SameStack DEF scripts
<1>3. Begins'
  BY <1>1, <1>2, SameScripts DEF IInv
<1> QED BY <1>2, <1>3 DEF IInv

-----------------------------------------------------------------------------
(* The steps of the engine                                                 *)

\* While the engine is the innermost call, no script is in the midst of a turn
\* and no other round runs.
LEMMA OnlyRounds ==
  ASSUME IInv, TopIs("engine")
  PROVE  /\ \A n \in 1..Len(stack) : stack[n].call = "engine"
         /\ \A n \in 1..Len(stack) - 1 : stack[n].q = 0
         /\ Top.q = 0 => Len(stack) = 1
<1>1. /\ Len(stack) \in Nat /\ Len(stack) > 0 /\ Top = stack[Len(stack)] /\ Top.call = "engine"
      /\ Len(stack) \in 1..Len(stack)
  BY TopFacts DEF IInv
<1>2. EngineFits(stack, Len(stack))
  BY <1>1 DEF IInv, Fits
<1>3. CASE Len(stack) = 1
  BY <1>1, <1>3
<1>4. CASE Len(stack) = 2
  <2>1. stack[1].call = "engine" /\ stack[1].q = 0 /\ stack[2].q > 0
    BY <1>1, <1>2, <1>4 DEF EngineFits
  <2>2. \A n \in 1..2 : n = 1 \/ n = 2
    OBVIOUS
  <2> QED BY <1>1, <1>4, <2>1, <2>2
<1> QED BY <1>1, <1>2, <1>3, <1>4 DEF EngineFits

\* On a stack of rounds only, of which the innermost may be under way.
LEMMA RoundsKeep ==
  ASSUME TypeOK', Fits(stack)', Begins',
         NEW k, k = Len(stack'),
         \A n \in 1..k : stack'[n].call = "engine" /\ (n = k \/ stack'[n].q = 0),
         k > 0 /\ stack'[k].q > 0 =>
           /\ stack'[k].scrtm = genscript_timing'
           /\ \A p \in owed' : p \in Due(genscript_timing)' /\ (Quit' # "reset" => p >= stack'[k].q)
  PROVE  IInv'
<1>1. k \in Nat
  BY DEF TypeOK
<1>2. ~TopIs("script")'
  <2>1. CASE k = 0
    BY <2>1, EmptySeq DEF TopIs, TypeOK
  <2>2. CASE k > 0
    BY <2>2, <1>1 DEF TopIs, Top
  <2> QED BY <2>1, <2>2, <1>1
<1>3. OwnRegisters' /\ FrozenFlags'
  BY <1>2 DEF OwnRegisters, FrozenFlags
<1>4. RoundInTime' /\ StillDue'
  BY <1>1 DEF RoundInTime, StillDue
<1>5. ExactWait' /\ TurnTaken'
  BY DEF ExactWait, TurnTaken
<1> QED BY <1>3, <1>4, <1>5 DEF IInv

LEMMA DueFromFirst ==
  ASSUME NEW t, NEW p \in Due(t)
  PROVE  p >= 1
  BY ScriptsAssumption DEF Due, Scripts

\* A call from the game loop, or of a round that was passed over.
LEMMA CalledKeeps ==
  ASSUME IInv, TypeOK', NEW t \in Timings, Called(t),
         stack = <<>> \/ (TopIs("engine") /\ Top.q = 0 /\ genscript_timing = t),
         UNCHANGED <<genscript_timing, scripts, Quit, relaunched>>
  PROVE  IInv'
<1>1. TypeOK /\ stack \in Seq(Frames) /\ Fits(stack)
  BY DEF IInv, TypeOK
<1>2. PICK f \in Frames : /\ stack' = Append(stack, f)
                          /\ f.call = "engine" /\ f.scrtm = t
                          /\ (f.q = 0 \/ (f.q = 1 /\ genscript_timing = t))
                          /\ f.q > 0 => owed' = Due(t)
                          /\ genscript_timing = t => f.q = 1
  BY <1>1, CalledFacts
<1>3. /\ Len(stack) \in Nat /\ Len(stack') = Len(stack) + 1
      /\ stack'[Len(stack) + 1] = f
      /\ \A n \in 1..Len(stack) : stack'[n] = stack[n]
  BY <1>1, <1>2, Pushed
<1>4. Len(stack) = 0 \/ (Len(stack) = 1 /\ stack[1].call = "engine" /\ stack[1].q = 0 /\ f.q = 1)
  <2>1. CASE stack = <<>>
    BY <2>1, EmptySeq
  <2>2. CASE TopIs("engine") /\ Top.q = 0 /\ genscript_timing = t
    <3>1. Len(stack) = 1
      BY <2>2, OnlyRounds
    <3>2. Top = stack[1] /\ Top.call = "engine"
      BY <3>1, <2>2, <1>1, TopFacts
    <3> QED BY <3>1, <3>2, <2>2, <1>2
  <2> QED BY <2>1, <2>2
<1>5. Fits(stack)'
  <2>1. EngineFits(stack', Len(stack) + 1) /\ ScriptFits(stack', Len(stack) + 1) /\ FrozenFits(stack', Len(stack) + 1)
    BY <1>2, <1>3, <1>4 DEF EngineFits, ScriptFits, FrozenFits
  <2> QED BY <1>1, <1>2, <2>1, FitsPushed
<1>6. Begins'
  BY <1>1, <1>2, OldPushed, SameScripts DEF IInv
<1>7. \A n \in 1..Len(stack') : stack'[n].call = "engine" /\ (n = Len(stack') \/ stack'[n].q = 0)
  <2>1. \A n \in 1..Len(stack') : n = Len(stack) + 1 \/ (n = 1 /\ Len(stack) = 1)
    BY <1>3, <1>4
  <2> QED BY <2>1, <1>2, <1>3, <1>4
<1>8. f.q > 0 => f.scrtm = genscript_timing' /\ f.q = 1
                 /\ \A p \in owed' : p \in Due(genscript_timing)' /\ p >= 1
  <2> SUFFICES ASSUME f.q > 0
               PROVE  f.scrtm = genscript_timing' /\ f.q = 1
                      /\ \A p \in owed' : p \in Due(genscript_timing)' /\ p >= 1
    OBVIOUS
  <2>1. f.q = 1 /\ genscript_timing = t /\ owed' = Due(t)
    BY <1>2
  <2>2. Due(genscript_timing)' = Due(t)
    BY <2>1 DEF Due, scripts
  <2> QED BY <1>2, <2>1, <2>2, DueFromFirst
<1> QED BY <1>3, <1>5, <1>6, <1>7, <1>8, RoundsKeep

\* The innermost call's round begins or goes on.
LEMMA RoundGoesOn ==
  ASSUME IInv, TypeOK', TopIs("engine"), NEW f \in Frames, stack' = SetTop(f),
         f.call = "engine", f.q > 0, f.scrtm = genscript_timing,
         UNCHANGED <<genscript_timing, scripts, Quit, relaunched>>,
         \A p \in owed' : p \in Due(genscript_timing) /\ (Quit # "reset" => p >= f.q)
  PROVE  IInv'
<1>1. /\ TypeOK /\ stack \in Seq(Frames) /\ stack # <<>> /\ Fits(stack)
      /\ Len(stack) \in Nat /\ Len(stack) > 0
      /\ stack[Len(stack)].call = "engine"
  BY TopFacts DEF IInv
<1>2. /\ Len(stack') = Len(stack) /\ Top' = f
      /\ \A n \in 1..Len(stack') : Old(n) \/ (n = Len(stack) /\ stack'[n] = f)
  BY <1>1, OldReplaced
<1>3. /\ stack'[Len(stack)] = f /\ \A n \in 1..Len(stack) - 1 : stack'[n] = stack[n]
  BY <1>1, Replaced DEF SetTop
<1>4. Fits(stack)'
  BY <1>1, FitsRound DEF SetTop
<1>5. Begins'
  BY <1>1, OldReplaced, SameScripts DEF IInv
<1>6. \A n \in 1..Len(stack') : stack'[n].call = "engine" /\ (n = Len(stack') \/ stack'[n].q = 0)
  <2>1. \A n \in 1..Len(stack') : n = Len(stack) \/ n \in 1..Len(stack) - 1
    BY <1>1, <1>2
  <2> QED BY <2>1, <1>1, <1>2, <1>3, OnlyRounds
<1>7. \A p \in owed' : p \in Due(genscript_timing)'
  BY DEF Due, scripts
<1> QED BY <1>2, <1>3, <1>4, <1>5, <1>6, <1>7, RoundsKeep

LEMMA StartRoundKeeps ==
  ASSUME IInv, TypeOK', StartRound
  PROVE  IInv'
<1> DEFINE f == [Top EXCEPT !.q = 1]
<1>1. /\ TopIs("engine") /\ genscript_timing = Top.scrtm /\ stack' = SetTop(f)
      /\ owed' = Due(Top.scrtm) /\ UNCHANGED <<genscript_timing, scripts, Quit, relaunched>>
  BY DEF StartRound
<1>2. f \in Frames /\ f.call = "engine" /\ f.scrtm = Top.scrtm /\ f.q = 1
  <2>1. Top \in Frames /\ Top.call = "engine" /\ 1 \in 0..NumScripts + 1
    BY <1>1, TopFacts, ScriptsAssumption DEF IInv
  <2> QED BY <2>1, NextQ
<1> HIDE DEF f
<1> QED BY <1>1, <1>2, DueFromFirst, RoundGoesOn

LEMMA RoundFacts ==
  ASSUME IInv, TopIs("engine"), Top.q \in Scripts
  PROVE  /\ Top.scrtm = genscript_timing
         /\ \A p \in owed : p \in Due(genscript_timing) /\ (Quit # "reset" => p >= Top.q)
<1>1. Len(stack) \in 1..Len(stack) /\ Top = stack[Len(stack)] /\ Top.call = "engine"
  BY TopFacts DEF IInv
<1>2. Top.q > 0
  BY DEF Scripts
<1> QED BY <1>1, <1>2 DEF IInv, RoundInTime, StillDue

LEMMA SkipScriptKeeps ==
  ASSUME IInv, TypeOK', SkipScript
  PROVE  IInv'
<1> DEFINE f == [Top EXCEPT !.q = Top.q + 1]
<1>1. /\ TopIs("engine") /\ Top.q \in Scripts /\ stack' = SetTop(f)
      /\ Waits(Top.q, Top.scrtm) \/ Quit = "reset"
      /\ UNCHANGED <<genscript_timing, scripts, Quit, owed, relaunched>>
  BY DEF SkipScript
<1>2. f \in Frames /\ f.call = "engine" /\ f.scrtm = Top.scrtm /\ f.q = Top.q + 1 /\ f.q > 0
  BY <1>1, NextSlot, ScriptsAssumption DEF IInv, Scripts
<1> HIDE DEF f
<1>3. ASSUME NEW p \in owed, Quit # "reset" PROVE p >= f.q
  <2>1. p \in Due(genscript_timing) /\ p >= Top.q /\ Top.scrtm = genscript_timing
    BY <1>1, <1>3, RoundFacts
  <2>2. ~Waits(p, genscript_timing)
    <3>1. genscript_timing \in Nat /\ waituntil[p] \in Nat
      BY <2>1, TimingFacts DEF Due, IInv, TypeOK, Timings
    <3> QED BY <2>1, <3>1 DEF Due, Waits
  <2>3. p # Top.q
    BY <1>1, <1>3, <2>1, <2>2
  <2>4. p \in Nat /\ Top.q \in Nat
    BY <1>1, <2>1, ScriptsAssumption DEF Due, Scripts
  <2> QED BY <2>1, <2>3, <2>4, <1>2
<1> QED BY <1>1, <1>2, <1>3, RoundFacts, RoundGoesOn

LEMMA EndRoundKeeps ==
  ASSUME IInv, TypeOK', EndRound
  PROVE  IInv'
<1>1. /\ TopIs("engine") /\ stack' = Pop
      /\ UNCHANGED <<scripts, phase, Quit, ri, frozen, owed, relaunched>>
  BY DEF EndRound
<1>2. TypeOK /\ stack \in Seq(Frames) /\ stack # <<>> /\ Fits(stack)
  BY <1>1, TopFacts DEF IInv
<1>3. Len(stack') = Len(stack) - 1 /\ \A n \in 1..Len(stack') : Old(n) /\ n # Len(stack)
  BY <1>1, <1>2, OldPopped
<1>4. Fits(stack)'
  BY <1>1, <1>2, FitsPopped DEF Pop
<1>5. Begins'
  BY <1>1, <1>2, OnlyRounds, NoTurns, SameScripts DEF IInv
<1>6. \A n \in 1..Len(stack') : stack'[n].call = "engine" /\ stack'[n].q = 0
  BY <1>1, <1>3, OnlyRounds DEF Old
<1>7. Len(stack') > 0 => stack'[Len(stack')].q = 0
  <2>1. Len(stack') \in Nat
    BY DEF TypeOK
  <2> QED BY <2>1, <1>6
<1> QED BY <1>4, <1>5, <1>6, <1>7, RoundsKeep

LEMMA RunGenericKeeps ==
  ASSUME IInv, TypeOK', RunGeneric
  PROVE  IInv'
<1> DEFINE k == Len(stack)
           q == Top.q
           g == [Top EXCEPT !.q = q + 1]
           f == ScriptCall(Passive(q), waituntil[q], wait_atleast[q])
           s == SetTop(g)
<1>1. /\ TopIs("engine") /\ q \in Scripts /\ ~Waits(q, Top.scrtm) /\ Quit # "reset"
      /\ stack' = Append(s, f) /\ ri' = Passive(q)
      /\ initialized' = [initialized EXCEPT ![q] = TRUE] /\ owed' = owed \ {q}
      /\ relaunched' = relaunched \ {q}
      /\ UNCHANGED <<genscript_timing, doscript, wait_atleast, waituntil, pc, phase, Quit, frozen>>
  BY DEF RunGeneric
<1>2. /\ TypeOK /\ stack \in Seq(Frames) /\ stack # <<>> /\ Fits(stack)
      /\ k \in Nat /\ k > 0 /\ stack[k].call = "engine"
  BY <1>1, TopFacts DEF IInv
<1>3. g \in Frames /\ g.call = "engine" /\ g.scrtm = Top.scrtm /\ g.q = q + 1 /\ g.q > 0 /\ q \in Nat /\ q > 0
  BY <1>1, <1>2, NextSlot, ScriptsAssumption DEF Scripts
<1>4. /\ f \in Frames /\ f.call = "script" /\ f.self = Passive(q)
      /\ f.after = waituntil[q] /\ f.atleast = wait_atleast[q]
  <2>1. Passive(q) \in Owners /\ waituntil[q] \in Timings /\ wait_atleast[q] \in BOOLEAN
    BY <1>1, <1>2, OwnerFacts DEF TypeOK
  <2> QED BY <2>1, ScriptFrame
<1>5. Top.scrtm = genscript_timing /\ \A p \in owed : p \in Due(genscript_timing) /\ p >= q
  BY <1>1, RoundFacts
<1>6. Passive(q)[1] = "generic" /\ Passive(q)[2] = q
      /\ \A r \in Scripts : Passive(r) = Passive(q) => r = q
  BY <1>1, OwnerFacts
<1> HIDE DEF f, g
<1>7. /\ s \in Seq(Frames) /\ Len(s) = k
      /\ \A n \in 1..k - 1 : s[n] = stack[n]
      /\ s[k] = g
  BY <1>2, <1>3, Replaced DEF SetTop
<1>8. Fits(s)
  BY <1>2, <1>3, FitsRound DEF SetTop
<1>9. \A n \in 1..k - 1 : stack[n].call = "engine" /\ stack[n].q = 0
  <2>1. \A n \in 1..k - 1 : n \in 1..Len(stack)
    BY <1>2
  <2> QED BY <1>1, <2>1, OnlyRounds
<1> HIDE DEF k, s
<1>10. /\ Len(stack') = k + 1 /\ stack'[k + 1] = f /\ Top' = f
       /\ \A n \in 1..k : stack'[n] = s[n]
  BY <1>1, <1>4, <1>7, Pushed DEF Top
<1>11. \A n \in 1..Len(stack') :
         \/ n \in 1..k - 1 /\ stack'[n].call = "engine" /\ stack'[n].q = 0
         \/ n = k /\ stack'[n] = g
         \/ n = k + 1 /\ stack'[n] = f
  BY <1>2, <1>7, <1>9, <1>10
<1>12. Fits(stack)'
  <2>1. EngineFits(stack', k + 1) /\ ScriptFits(stack', k + 1) /\ FrozenFits(stack', k + 1)
    BY <1>1, <1>2, <1>3, <1>4, <1>7, <1>10 DEF EngineFits, ScriptFits, FrozenFits
  <2> QED BY <1>1, <1>4, <1>7, <1>8, <2>1, FitsPushed
<1>13. OwnRegisters' /\ FrozenFlags'
  BY <1>1, <1>4, <1>6, <1>10 DEF OwnRegisters, FrozenFlags
<1>14. RoundInTime'
  BY <1>1, <1>3, <1>4, <1>5, <1>11 DEF RoundInTime
<1>15. ExactWait'
  <2>1. ~wait_atleast[q] => waituntil[q] = genscript_timing
    BY <1>1, <1>5 DEF Waits
  <2> QED BY <1>1, <1>3, <1>4, <1>11, <2>1 DEF ExactWait
<1>16. TurnTaken'
  <2>1. initialized'[q] /\ q \notin owed'
    BY <1>1, <1>2 DEF TypeOK
  <2> QED BY <1>3, <1>4, <1>6, <1>11, <2>1 DEF TurnTaken
<1>17. StillDue'
  <2>1. \A p \in owed' : p \in Due(genscript_timing)' /\ p >= g.q
    <3> SUFFICES ASSUME NEW p \in owed' PROVE p \in Due(genscript_timing)' /\ p >= g.q
      OBVIOUS
    <3>1. p \in owed /\ p # q /\ p \in Due(genscript_timing) /\ p >= q
      BY <1>1, <1>5
    <3>2. p \in Due(genscript_timing)'
      BY <1>1, <3>1 DEF Due
    <3>3. p \in Nat
      BY <3>1 DEF Due, Scripts
    <3> QED BY <1>3, <3>1, <3>2, <3>3
  <2> QED BY <1>3, <1>4, <1>11, <2>1 DEF StillDue
<1>18. Begins'
  <2>1. InterruptedKept
    BY <1>1, <1>2, OnlyRounds, NoTurns
  <2>2. \A p \in Scripts : p # q => initialized'[p] = initialized[p] /\ (p \in relaunched' <=> p \in relaunched)
    BY <1>1, <1>2 DEF TypeOK
  <2>3. initialized'[q] /\ q \notin relaunched'
    BY <1>1, <1>2 DEF TypeOK
  <2> QED BY <1>1, <2>1, <2>2, <2>3, BeginsKept DEF IInv
<1> QED BY <1>12, <1>13, <1>14, <1>15, <1>16, <1>17, <1>18 DEF IInv

-----------------------------------------------------------------------------
(* The steps of the game loop                                              *)

LEMMA TimeExitKeeps ==
  ASSUME IInv, stack = <<>>, NEW X, NEW R, TimeExit(X, R)
  PROVE  Begins'
<1>1. ~\E q : Interrupted(q)
  BY EmptySeq DEF Interrupted
<1> QED BY <1>1 DEF IInv, Begins, TimeExit, Launched, TypeOK

LEMMA RunHostKeeps ==
  ASSUME IInv, TypeOK', RunHost
  PROVE  IInv'
<1> DEFINE f == ScriptCall(Host, START_FRAME, TRUE)
<1>1. /\ stack = <<>> /\ stack' = Append(stack, f) /\ ri' = Host
      /\ UNCHANGED <<genscript_timing, scripts, phase, Quit, frozen, owed, relaunched>>
  BY DEF RunHost, InLoop, Push
<1>2. /\ f \in Frames /\ f.call = "script" /\ f.self = Host /\ Host[1] = "host"
      /\ \A q \in Scripts : Host # Passive(q)
  <2>1. START_FRAME \in Timings
    BY TimingFacts DEF START_FRAME
  <2>2. Host \in Owners /\ Host[1] = "host" /\ \A q \in Scripts : Host # Passive(q)
    BY OwnerFacts
  <2>3. f \in Frames /\ f.call = "script" /\ f.self = Host
    BY <2>1, <2>2, ScriptFrame
  <2> QED BY <2>2, <2>3
<1> HIDE DEF f
<1>3. /\ TypeOK /\ stack \in Seq(Frames) /\ Fits(stack) /\ Len(stack) = 0
  BY <1>1, EmptySeq DEF IInv, TypeOK
<1>4. Len(stack') = 1 /\ stack'[1] = f /\ Top' = f
  BY <1>1, <1>2, <1>3, Pushed DEF Top
<1>5. Fits(stack)'
  BY <1>2, <1>4 DEF Fits, EngineFits, ScriptFits, FrozenFits
<1>6. OwnRegisters' /\ FrozenFlags' /\ RoundInTime' /\ ExactWait' /\ TurnTaken' /\ StillDue'
  BY <1>1, <1>2, <1>4 DEF OwnRegisters, FrozenFlags, RoundInTime, ExactWait, TurnTaken, StillDue
<1>7. Begins'
  BY <1>1, <1>3, EmptyNoTurns, SameScripts DEF IInv
<1> QED BY <1>5, <1>6, <1>7 DEF IInv

LEMMA LoopKeeps ==
  ASSUME IInv, TypeOK', LoopStep
  PROVE  IInv'
<1>1. CASE LoopCall \/ HeroFrames
  <2>1. \E t \in Timings : Called(t)
    BY <1>1 DEF LoopCall, HeroFrames
  <2>2. stack = <<>> /\ UNCHANGED <<genscript_timing, scripts, Quit, relaunched>>
    BY <1>1 DEF LoopCall, HeroFrames, InLoop
  <2> QED BY <2>1, <2>2, CalledKeeps
<1>2. CASE RunHost
  BY <1>2, RunHostKeeps
<1>3. CASE LoopTop \/ LoopSkip \/ HeroEndsFrame
  <2>1. stack = <<>> /\ stack' = <<>> /\ UNCHANGED <<scripts, relaunched>>
    BY <1>3 DEF LoopTop, LoopSkip, HeroEndsFrame, InLoop
  <2>2. Begins'
    BY <2>1, EmptyNoTurns, SameScripts DEF IInv
  <2> QED BY <2>1, <2>2, EmptyStack DEF IInv
<1>4. CASE HeroWarps \/ Continue
  <2>1. stack' = <<>>
    BY <1>4 DEF HeroWarps, Continue, InLoop
  <2>2. Begins'
    BY <1>4, TimeExitKeeps DEF HeroWarps, Continue, InLoop
  <2> QED BY <2>1, <2>2, EmptyStack DEF IInv
<1>5. CASE LoadGame
  <2>1. stack' = <<>>
    BY <1>5 DEF LoadGame, InLoop
  <2>2. Begins'
    BY <1>5 DEF LoadGame, Begins
  <2> QED BY <2>1, <2>2, EmptyStack DEF IInv
<1> QED
  BY <1>1, <1>2, <1>3, <1>4, <1>5 DEF LoopStep

-----------------------------------------------------------------------------
(* The theorems                                                            *)

LEMMA InitIInv ==
  ASSUME Init
  PROVE  IInv
<1>1. Len(stack) = 0 /\ 1..Len(stack) = {} /\ ~TopIs("script")
  BY EmptySeq DEF Init, TopIs
<1>2. Begins
  BY DEF Init, Begins
<1> QED
  BY <1>1, <1>2, InitType DEF IInv, Fits, OwnRegisters, RoundInTime, ExactWait, FrozenFlags, TurnTaken, StillDue

LEMMA StepIInv ==
  ASSUME IInv, Next
  PROVE  IInv'
<1>1. TypeOK'
  BY TypeStep DEF IInv
<1>2. CASE LoopStep
  BY <1>1, <1>2, LoopKeeps
<1>3. CASE EngineStep
  <2>1. CASE CatchUp
    <3>1. /\ TopIs("engine") /\ Top.q = 0 /\ Called(genscript_timing)
          /\ UNCHANGED <<genscript_timing, scripts, Quit, relaunched>> /\ genscript_timing \in Timings
      BY <2>1 DEF CatchUp, IInv, TypeOK
    <3> QED BY <1>1, <3>1, CalledKeeps
  <2> QED
    BY <1>1, <1>3, <2>1, StartRoundKeeps, SkipScriptKeeps, RunGenericKeeps, EndRoundKeeps DEF EngineStep
<1>4. CASE FrozenStep
  BY <1>1, <1>4, FrozenTurnKeeps, QuitsFrozenKeeps, FrozenReturnsKeeps DEF FrozenStep
<1>5. CASE WaitToStep
  BY <1>1, <1>5, WaitToKeeps DEF WaitToStep
<1>6. ASSUME NEW o \in Runners, ScriptStep(o) PROVE IInv'
  BY <1>1, <1>6, ScriptTurnEnds, StopKeeps, RunFrozenKeeps, LaunchKeeps DEF ScriptStep
<1> QED
  BY <1>2, <1>3, <1>4, <1>5, <1>6 DEF Next

LEMMA StutterIInv ==
  ASSUME IInv, UNCHANGED vars
  PROVE  IInv'
<1>1. TypeOK'
  BY DEF IInv, TypeOK, vars, scripts, frozen
<1>2. /\ Fits(stack)' /\ OwnRegisters' /\ RoundInTime' /\ ExactWait' /\ FrozenFlags'
      /\ TurnTaken' /\ StillDue' /\ InterruptedKept
  BY SameStack DEF vars, scripts
<1>3. Begins'
  BY <1>2, SameScripts DEF IInv, vars
<1> QED BY <1>1, <1>2, <1>3 DEF IInv

\* The inductive invariant.
THEOREM Invariance == Spec => []IInv
<1>1. IInv /\ [Next]_vars => IInv'
  BY StepIInv, StutterIInv
<1> QED BY InitIInv, <1>1, PTL DEF Spec

\* The script that the interpreter executes has its own registers, however deep
\* the frozen runs nest (OwnRegisters: push_ri and pop_ri).
THEOREM RegistersOwned == Spec => []OwnRegisters
<1>1. IInv => OwnRegisters
  BY DEF IInv
<1> QED BY Invariance, <1>1, PTL

\* A round is run when genscript_timing stands for it (RoundInTime).
THEOREM RoundsInTime == Spec => []RoundInTime
<1>1. IInv => RoundInTime
  BY DEF IInv
<1> QED BY Invariance, <1>1, PTL

\* A script that waits for one timing goes on at that timing, and it lasts while
\* the script and the frozen runs that it starts are executed (ExactWait).
THEOREM WaitsExactly == Spec => []ExactWait
<1>1. IInv => ExactWait
  BY DEF IInv
<1> QED BY Invariance, <1>1, PTL

\* No script whose wait is over is passed over by a round (NoneOwed).
THEOREM NobodyPassedOver == Spec => []NoneOwed
<1>1. IInv => NoneOwed
  <2> SUFFICES ASSUME IInv, TopIs("engine"), Top.q > NumScripts, Quit # "reset", NEW p \in owed
               PROVE  FALSE
    BY DEF NoneOwed
  <2>1. Len(stack) \in 1..Len(stack) /\ Top = stack[Len(stack)] /\ Top.call = "engine"
    BY TopFacts DEF IInv
  <2>2. p \in 1..NumScripts /\ Top.q \in 0..NumScripts + 1
    BY TopEngine DEF IInv, TypeOK, Scripts
  <2>3. p >= Top.q
    <3>1. Top.q > 0
      BY <2>2, ScriptsAssumption
    <3> QED BY <2>1, <3>1 DEF IInv, StillDue
  <2> QED BY <2>2, <2>3, ScriptsAssumption
<1> QED BY Invariance, <1>1, PTL

\* A script that is to be initialized starts at its first command just if it was
\* not launched in a turn of its own (BeginsAtFirstCommand: launch, ri->pc++).
THEOREM StartsAfresh == Spec => []BeginsAtFirstCommand
<1>1. IInv => BeginsAtFirstCommand
  <2> SUFFICES ASSUME IInv, NEW q \in Scripts, doscript[q], ~initialized[q], ~InTurn(q)
               PROVE  pc[q] = "begin" <=> q \notin relaunched
    BY DEF BeginsAtFirstCommand
  <2>1. Len(stack) \in Nat
    BY DEF IInv, TypeOK
  <2>2. ~Interrupted(q)
    BY <2>1 DEF Interrupted, InTurn
  <2> QED BY <2>2 DEF IInv, Begins
<1> QED BY Invariance, <1>1, PTL

\* A frozen script keeps its flags over those that it runs (FrozenFlags).
THEOREM FlagsKept == Spec => []FrozenFlags
<1>1. IInv => FrozenFlags
  BY DEF IInv
<1> QED BY Invariance, <1>1, PTL

=============================================================================
