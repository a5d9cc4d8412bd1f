------------------------- MODULE CompilerPipeProofs -------------------------
(***************************************************************************)
(* The invariants of CompilerPipe, for any number of messages, of          *)
(* compilations and of files that the run-time library opens.              *)
(***************************************************************************)
EXTENDS CompilerPipe, SequenceTheorems, TLAPS

(***************************************************************************)
(* The inductive invariant follows the conversation.  Where the compiler   *)
(* is (c) tells what is in the two pipes, where the editor can be and how  *)
(* far it has read tmp3; a compiler that crashed has left the pipes as     *)
(* they were.                                                              *)
(***************************************************************************)
M == Len(messages)

\* The first word to the editor is the one it waits for at first.
Ahead == IF editor = "sync" THEN 1 ELSE 0
Unread(n) == Len(toEditor) = Ahead + n /\ (editor = "sync" => toEditor[1] = "sync")
Word(n) == toEditor[Ahead + n]

Before(n) == editor \in {"sync", "open"} /\ M = n
Silent == editor = "result" /\ ~console
Talking == editor = "loop" /\ console

AtRules ==
  /\ editor = "sync" /\ Len(toCompiler) = 1 /\ toCompiler[1] = "rules" /\ toEditor = <<>>
  /\ M = 0 /\ seen = 0

AtCompile ==
  /\ Len(toCompiler) = 0 /\ Unread(0) /\ seen = M
  /\ Before(0) \/ (Silent /\ M = 0) \/ Talking

AtAnnounce ==
  /\ Len(toCompiler) = 0 /\ Unread(0) /\ M = seen + 1
  /\ Before(1) \/ (Silent /\ M = 1) \/ Talking

AtWait ==
  \/ /\ Len(toCompiler) = 0 /\ Unread(1) /\ M = seen + 1 /\ Word(1) = messages[M]
     /\ Before(1) \/ (Silent /\ M = 1) \/ Talking
  \/ /\ Len(toCompiler) = 1 /\ Unread(0) /\ seen = M
     /\ Talking
  \/ /\ Len(toCompiler) = 0
     /\ editor = "done" /\ ~console /\ code \in Severities

AtEnd ==
  /\ Len(toCompiler) = 0 /\ Unread(0) /\ seen = M
  /\ Talking

AtResult ==
  /\ Len(toCompiler) = 0 /\ console
  /\ \/ editor = "loop" /\ Unread(1) /\ Word(1) = "end"
     \/ editor = "result" /\ Unread(0)

AtExit ==
  /\ Len(toCompiler) = 0 /\ console
  /\ \/ editor = "loop" /\ Unread(2) /\ Word(1) = "end" /\ Word(2) = res
     \/ editor = "result" /\ Unread(1) /\ Word(1) = res
     \/ editor = "done" /\ code = res

Places == {"rules", "compile", "announce", "wait", "end", "result", "none"}

At(c) ==
  CASE c = "rules" -> AtRules
    [] c = "compile" -> AtCompile
    [] c = "announce" -> AtAnnounce
    [] c = "wait" -> AtWait
    [] c = "end" -> AtEnd
    [] c = "result" -> AtResult
    [] c = "none" -> AtExit

Ended(c) == c \in {"end", "result", "none"} <=> res \in Results

Conversation ==
  editor # "idle" =>
    \E c \in Places : (compiler = c \/ compiler = "crashed") /\ At(c) /\ Ended(c)

Told == Len(shown) = seen /\ seen <= M

Written == res = "ok" /\ ~unwritten => tmp2 = compiles

Taken == editor = "idle" /\ code = "ok" => res = "ok" /\ adopted \subseteq {tmp2}

IInv ==
  /\ TypeOK /\ MessagesInStep /\ CompilerGone
  /\ Conversation /\ Told /\ Written /\ Taken

-----------------------------------------------------------------------------
\* Reading the first word of a pipe.
LEMMA Reading ==
  ASSUME NEW s \in Seq(Words), s # <<>>
  PROVE  /\ Len(s) >= 1 /\ Head(s) = s[1] /\ Head(s) \in Words
         /\ Tail(s) \in Seq(Words) /\ Len(Tail(s)) = Len(s) - 1
         /\ \A i \in 1..Len(s) - 1 : Tail(s)[i] = s[i + 1]
BY HeadTailProperties, EmptySeq, ElementOfSeq, LenProperties

\* Writing a word.
LEMMA Writing ==
  ASSUME NEW s \in Seq(Words), NEW w \in Words
  PROVE  /\ Append(s, w) \in Seq(Words) /\ Len(Append(s, w)) = Len(s) + 1
         /\ \A i \in 1..Len(s) : Append(s, w)[i] = s[i]
         /\ Append(s, w)[Len(s) + 1] = w
BY AppendProperties

LEMMA OneWord ==
  ASSUME NEW w \in Words
  PROVE  <<w>> \in Seq(Words) /\ Len(<<w>>) = 1 /\ <<w>>[1] = w
OBVIOUS

LEMMA NoWords == <<>> \in Seq(Words) /\ Len(<<>>) = 0
OBVIOUS

LEMMA NothingYet ==
  /\ <<>> \in Seq(Severities) /\ Len(<<>>) = 0
  /\ <<>> \in Seq(Shown)
BY EmptySeq

LEMMA WordsApart ==
  /\ "rules" \in Words /\ "sync" \in Words /\ "end" \in Words
  /\ Severities \subseteq Words /\ Results \subseteq Words
  /\ "sync" \notin Severities /\ "end" \notin Severities /\ "rules" \notin Severities
  /\ \A r \in Results : r \notin Severities
  /\ "none" \notin Results
BY DEF Words, Severities, Results

-----------------------------------------------------------------------------
\* Types.
LEMMA InitTypes == Init => TypeOK
<1> SUFFICES ASSUME Init PROVE TypeOK
  OBVIOUS
<1>1. toCompiler \in Seq(Words) /\ toEditor \in Seq(Words) /\ shown \in Seq(Shown)
  BY NoWords, NothingYet DEF Init
<1>2. messages \in Seq(Severities) /\ Len(messages) <= MaxMessages /\ seen \in 0..MaxMessages
  BY BoundsAssumption, NothingYet DEF Init
<1>3. handles \in 0..MaxHandles /\ tmp2 \in 0..MaxCompiles /\ compiles \in 0..MaxCompiles
  BY BoundsAssumption DEF Init
<1>4. /\ editor \in {"idle", "sync", "open", "loop", "result", "done"}
      /\ compiler \in {"none", "rules", "compile", "announce", "wait", "end", "result", "crashed"}
      /\ code \in Words \cup {"none"} /\ res \in Results \cup {"none"}
      /\ console \in BOOLEAN /\ unwritten \in BOOLEAN /\ adopted \subseteq 0..MaxCompiles
  BY Zenon DEF Init
<1>5. QED
  BY <1>1, <1>2, <1>3, <1>4 DEF TypeOK

\* While the compiler runs the editor is in the conversation, and At tells
\* about it what belongs to the place of the compiler.
LEMMA WhileRunning ==
  ASSUME IInv, NEW c \in Places \ {"none"}, compiler = c
  PROVE  editor # "idle" /\ At(c) /\ Ended(c)
<1>1. editor # "idle"
  BY DEF IInv, CompilerGone
<1>2. PICK d \in Places : (compiler = d \/ compiler = "crashed") /\ At(d) /\ Ended(d)
  BY <1>1 DEF IInv, Conversation
<1>3. d = c
  BY <1>2 DEF Places
<1>4. QED
  BY <1>1, <1>2, <1>3

LEMMA NextTypes ==
  ASSUME IInv, [Next]_vars
  PROVE  TypeOK'
<1> USE BoundsAssumption DEF IInv
<1>1. CASE Launch
  <2>1. toCompiler' \in Seq(Words) /\ toEditor' \in Seq(Words) /\ shown' \in Seq(Shown)
    BY <1>1, OneWord, NoWords, NothingYet, WordsApart DEF Launch
  <2>2. messages' \in Seq(Severities) /\ Len(messages') <= MaxMessages /\ seen' \in 0..MaxMessages
    BY <1>1, NothingYet DEF Launch
  <2>3. compiles' \in 0..MaxCompiles
    BY <1>1 DEF Launch, TypeOK
  <2>4. QED
    BY <1>1, <2>1, <2>2, <2>3 DEF TypeOK, Launch
<1>2. CASE ReadSync
  BY <1>2, Reading DEF TypeOK, ReadSync, Reads, log, files
<1>3. CASE OpenConsole
  <2>1. handles' \in 0..MaxHandles
    BY <1>3 DEF TypeOK, OpenConsole
  <2>2. console' \in BOOLEAN /\ editor' \in {"loop", "result"}
    BY <1>3, Zenon DEF OpenConsole
  <2>3. /\ UNCHANGED <<compiler, toCompiler, toEditor, code, messages, seen, shown>>
        /\ UNCHANGED <<tmp2, adopted, compiles, res, unwritten>>
    BY <1>3, Zenon DEF OpenConsole, pipes, log, files
  <2>4. QED
    BY <2>1, <2>2, <2>3 DEF TypeOK
<1>4. CASE ReadMessage
  <2>1. PICK severity \in Severities :
           /\ Reads(severity) /\ code' = severity
           /\ shown' = IF Len(messages) = seen THEN shown
                       ELSE Append(shown, [after |-> seen, upto |-> Len(messages), as |-> severity])
           /\ toCompiler' = Append(toCompiler, severity)
    BY <1>4 DEF ReadMessage
  <2>2. toEditor' \in Seq(Words) /\ toCompiler' \in Seq(Words) /\ code' \in Words
    BY <2>1, Reading, Writing, WordsApart DEF TypeOK, Reads
  <2>4. Len(messages) \in 0..MaxMessages
    BY LenProperties DEF TypeOK
  <2>5. shown' \in Seq(Shown)
    <3> DEFINE entry == [after |-> seen, upto |-> Len(messages), as |-> severity]
    <3>1. entry \in Shown
      BY <2>4 DEF TypeOK, Shown
    <3>2. shown' = shown \/ shown' = Append(shown, entry)
      BY <2>1
    <3>3. shown \in Seq(Shown)
      BY DEF TypeOK
    <3> HIDE DEF entry
    <3>4. QED
      BY <3>1, <3>2, <3>3, AppendProperties
  <2>6. QED
    BY <1>4, <2>2, <2>4, <2>5 DEF TypeOK, ReadMessage, files
<1>5. CASE LeaveLoop
  BY <1>5, Reading, WordsApart DEF TypeOK, LeaveLoop, Reads, log, files
<1>6. CASE ReadResult
  BY <1>6, Reading DEF TypeOK, ReadResult, Reads, log, files
<1>7. CASE Finish
  BY <1>7, NoWords DEF TypeOK, Finish, log
<1>8. CASE ReadRules
  BY <1>8, Reading, Writing, WordsApart DEF TypeOK, ReadRules, log, files
<1>9. CASE WriteText
  <2>1. PICK severity \in Severities : messages' = Append(messages, severity)
    BY <1>9 DEF WriteText
  <2>2. messages' \in Seq(Severities) /\ Len(messages') <= MaxMessages
    BY <1>9, <2>1, AppendProperties, LenProperties DEF TypeOK, WriteText
  <2>3. QED
    BY <1>9, <2>2 DEF TypeOK, WriteText, pipes, files
<1>10. CASE Announce
  <2>1. messages[Len(messages)] \in Words
    <3>1. AtAnnounce
      BY <1>10, WhileRunning DEF Announce, Places, At
    <3>2. seen \in Nat /\ Len(messages) \in Nat
      BY LenProperties DEF TypeOK
    <3>3. Len(messages) \in 1..Len(messages)
      BY <3>1, <3>2 DEF AtAnnounce, M
    <3>4. QED
      BY <3>3, ElementOfSeq, WordsApart DEF TypeOK
  <2>2. QED
    BY <1>10, <2>1, Writing DEF TypeOK, Announce, log, files
<1>11. CASE ReadReply
  BY <1>11, Reading DEF TypeOK, ReadReply, log, files
<1>12. CASE CompileEnds
  <2>1. res' \in Results /\ tmp2' \in 0..MaxCompiles /\ unwritten' \in BOOLEAN
    BY <1>12 DEF TypeOK, CompileEnds, Results
  <2>2. QED
    BY <1>12, <2>1 DEF TypeOK, CompileEnds, pipes, log
<1>13. CASE SendEnd
  BY <1>13, Writing, WordsApart DEF TypeOK, SendEnd, log, files
<1>14. CASE SendResult
  <2>1. Ended("result")
    BY <1>14, WhileRunning DEF SendResult, Places
  <2>2. res \in Words
    BY <2>1, WordsApart DEF Ended
  <2>3. QED
    BY <1>14, <2>2, Writing DEF TypeOK, SendResult, log, files
<1>15. CASE Crash
  BY <1>15 DEF TypeOK, Crash, pipes, log, files
<1>16. CASE UNCHANGED vars
  BY <1>16 DEF TypeOK, vars, pipes, log, files
<1>17. QED
  BY <1>1, <1>2, <1>3, <1>4, <1>5, <1>6, <1>7, <1>8, <1>9, <1>10, <1>11, <1>12, <1>13, <1>14,
     <1>15, <1>16 DEF Next, EditorStep, CompilerStep

-----------------------------------------------------------------------------
\* What was written to the editor stays, and the new word comes after it.
LEMMA Unanswered ==
  ASSUME toEditor \in Seq(Words), NEW n \in Nat, Unread(n),
         NEW w \in Words, toEditor' = Append(toEditor, w), editor' = editor
  PROVE  /\ Unread(n + 1)' /\ Word(n + 1)' = w
         /\ \A i \in 1..n : Word(i)' = Word(i)
<1>1. Ahead' = Ahead /\ Ahead \in {0, 1}
  BY DEF Ahead
<1>2. Len(toEditor) = Ahead + n
  BY DEF Unread
<1>3. Len(toEditor') = Ahead + n + 1 /\ toEditor'[Ahead + n + 1] = w
  BY <1>1, <1>2, Writing
<1>4. \A i \in 1..Ahead + n : toEditor'[i] = toEditor[i]
  BY <1>1, <1>2, Writing
<1>5. editor = "sync" => toEditor'[1] = "sync"
  BY <1>1, <1>4 DEF Unread, Ahead
<1>6. QED
  BY <1>1, <1>3, <1>4, <1>5 DEF Unread, Word

\* The first word is read: the others move up.
LEMMA Answered ==
  ASSUME toEditor \in Seq(Words), NEW w, Reads(w),
         editor \in {"loop", "result", "done"}, editor' \in {"loop", "result", "done"}
  PROVE  /\ w = Word(1) /\ ~Unread(0)
         /\ \A n \in Nat : Unread(n) =>
              n > 0 /\ Unread(n - 1)' /\ (\A i \in 1..n - 1 : Word(i)' = Word(i + 1))
<1>1. Ahead = 0 /\ Ahead' = 0
  BY DEF Ahead
<1>2. /\ Len(toEditor) >= 1 /\ w = toEditor[1]
      /\ Len(toEditor') = Len(toEditor) - 1
      /\ \A i \in 1..Len(toEditor) - 1 : toEditor'[i] = toEditor[i + 1]
  BY Reading DEF Reads
<1>3. Len(toEditor) \in Nat
  BY LenProperties
<1>4. QED
  BY <1>1, <1>2, <1>3 DEF Unread, Word

\* The word to be read is the answer to the rules.
LEMMA InAnswer ==
  ASSUME toEditor \in Seq(Words), Reads("sync"), editor = "sync", editor' = "open"
  PROVE  \A n \in Nat : Unread(n) => Unread(n)' /\ (\A i \in 1..n : Word(i)' = Word(i))
<1>1. Ahead = 1 /\ Ahead' = 0
  BY DEF Ahead
<1>2. /\ Len(toEditor') = Len(toEditor) - 1
      /\ \A i \in 1..Len(toEditor) - 1 : toEditor'[i] = toEditor[i + 1]
  BY Reading DEF Reads
<1>3. QED
  BY <1>1, <1>2 DEF Unread, Word

-----------------------------------------------------------------------------
\* The places of the compiler, one by one.
LEMMA Stations ==
  /\ At("rules") <=> AtRules
  /\ At("compile") <=> AtCompile
  /\ At("announce") <=> AtAnnounce
  /\ At("wait") <=> AtWait
  /\ At("end") <=> AtEnd
  /\ At("result") <=> AtResult
  /\ At("none") <=> AtExit
BY DEF At

LEMMA NextStations ==
  /\ At("rules")' <=> AtRules'
  /\ At("compile")' <=> AtCompile'
  /\ At("announce")' <=> AtAnnounce'
  /\ At("wait")' <=> AtWait'
  /\ At("end")' <=> AtEnd'
  /\ At("result")' <=> AtResult'
  /\ At("none")' <=> AtExit'
BY DEF At

\* A step of the editor leaves the compiler where it is.
LEMMA EditorMoves ==
  ASSUME Conversation, editor # "idle", compiler' = compiler, res' = res,
         \/ ~AtRules \/ AtRules',
         \/ ~AtCompile \/ AtCompile',
         \/ ~AtAnnounce \/ AtAnnounce',
         \/ ~AtWait \/ AtWait',
         \/ ~AtEnd \/ AtEnd',
         \/ ~AtResult \/ AtResult',
         \/ ~AtExit \/ AtExit'
  PROVE  Conversation'
<1>1. PICK c \in Places : (compiler = c \/ compiler = "crashed") /\ At(c) /\ Ended(c)
  BY DEF Conversation
<1>2. At(c)'
  BY <1>1, Stations, NextStations DEF Places
<1>3. Ended(c)'
  BY <1>1 DEF Ended
<1>4. QED
  BY <1>1, <1>2, <1>3 DEF Conversation

\* A step of the compiler takes it to its next place.
LEMMA CompilerMoves ==
  ASSUME NEW d \in Places, compiler' = d, At(d)', Ended(d)'
  PROVE  Conversation'
BY DEF Conversation

LEMMA SyncKeeps ==
  ASSUME IInv, ReadSync
  PROVE  Conversation'
<1>1. toEditor \in Seq(Words) /\ Reads("sync") /\ editor = "sync" /\ editor' = "open"
  BY DEF IInv, TypeOK, ReadSync
<1>2. /\ UNCHANGED <<compiler, toCompiler, code, messages, seen, shown, console, res>>
  BY DEF ReadSync, log, files
<1>3. \A n \in Nat : Unread(n) => Unread(n)' /\ (\A i \in 1..n : Word(i)' = Word(i))
  BY <1>1, InAnswer
<1>4. ~AtRules /\ ~AtEnd /\ ~AtResult /\ ~AtExit
  BY <1>1 DEF AtRules, AtEnd, AtResult, AtExit, Reads, Talking
<1>5. AtCompile => AtCompile'
  BY <1>1, <1>2, <1>3 DEF AtCompile, Before, Silent, Talking, M
<1>6. AtAnnounce => AtAnnounce'
  BY <1>1, <1>2, <1>3 DEF AtAnnounce, Before, Silent, Talking, M
<1>7. AtWait => AtWait'
  <2> SUFFICES ASSUME AtWait PROVE AtWait'
    OBVIOUS
  <2>1. Unread(1) /\ Word(1) = messages[M] /\ M = seen + 1 /\ M = 1 /\ Len(toCompiler) = 0
    BY <1>1 DEF AtWait, Before, Silent, Talking
  <2>2. Unread(1)' /\ Word(1)' = Word(1)
    BY <1>3, <2>1
  <2>3. QED
    BY <1>1, <1>2, <2>1, <2>2 DEF AtWait, Before, M
<1>8. QED
  BY <1>1, <1>2, <1>4, <1>5, <1>6, <1>7, EditorMoves DEF IInv

LEMMA OpenKeeps ==
  ASSUME IInv, OpenConsole
  PROVE  Conversation'
<1>1. /\ editor = "open"
      /\ (editor' = "loop" /\ console' = TRUE) \/ (editor' = "result" /\ console' = FALSE)
  BY DEF OpenConsole
<1>2. UNCHANGED <<compiler, toCompiler, toEditor, code, messages, seen, shown, res>>
  BY DEF OpenConsole, pipes, log, files
<1>3. Ahead = 0 /\ Ahead' = 0
  BY <1>1 DEF Ahead
<1>4. \A n \in {0, 1} : (Unread(n) <=> Unread(n)') /\ Word(n)' = Word(n)
  BY <1>1, <1>2, <1>3 DEF Unread, Word
<1>5. ~AtRules /\ ~AtEnd /\ ~AtResult /\ ~AtExit
  BY <1>1 DEF AtRules, AtEnd, AtResult, AtExit, Talking
<1>6. AtCompile => AtCompile'
  BY <1>1, <1>2, <1>4 DEF AtCompile, Before, Silent, Talking, M
<1>7. AtAnnounce => AtAnnounce'
  BY <1>1, <1>2, <1>4 DEF AtAnnounce, Before, Silent, Talking, M
<1>8. AtWait => AtWait'
  BY <1>1, <1>2, <1>4 DEF AtWait, Before, Silent, Talking, M
<1>9. QED
  BY <1>1, <1>2, <1>5, <1>6, <1>7, <1>8, EditorMoves DEF IInv

LEMMA MessageKeeps ==
  ASSUME IInv, ReadMessage
  PROVE  Conversation'
<1>1. PICK severity \in Severities : Reads(severity) /\ toCompiler' = Append(toCompiler, severity)
  BY DEF ReadMessage
<1>2. /\ editor = "loop" /\ editor' = "loop" /\ seen' = M
      /\ UNCHANGED <<compiler, messages, console, res>>
  BY DEF ReadMessage, files, M
<1>3. toEditor \in Seq(Words) /\ toCompiler \in Seq(Words)
  BY DEF IInv, TypeOK
<1>4. /\ severity = Word(1) /\ ~Unread(0)
      /\ \A n \in Nat : Unread(n) =>
           n > 0 /\ Unread(n - 1)' /\ (\A i \in 1..n - 1 : Word(i)' = Word(i + 1))
  BY <1>1, <1>2, <1>3, Answered
<1>5. ~AtRules /\ ~AtCompile /\ ~AtAnnounce /\ ~AtEnd
  BY <1>2, <1>4 DEF AtRules, AtCompile, AtAnnounce, AtEnd
<1>6. ~AtResult /\ ~AtExit
  BY <1>2, <1>4, WordsApart DEF AtResult, AtExit
<1>7. AtWait => AtWait'
  <2> SUFFICES ASSUME AtWait PROVE AtWait'
    OBVIOUS
  <2>1. Len(toCompiler) = 0 /\ Unread(1) /\ Talking
    BY <1>2, <1>4 DEF AtWait, Before, Silent
  <2>2. Unread(0)'
    BY <1>4, <2>1
  <2>3. Len(toCompiler') = 1
    BY <1>1, <1>3, <2>1, Writing, WordsApart
  <2>4. QED
    BY <1>2, <2>1, <2>2, <2>3 DEF AtWait, Talking, M
<1>8. QED
  BY <1>2, <1>5, <1>6, <1>7, EditorMoves DEF IInv

\* The message that is announced is a severity.
LEMMA Announced ==
  ASSUME TypeOK, M = seen + 1
  PROVE  messages[M] \in Severities
<1>1. M \in Nat /\ seen \in Nat
  BY LenProperties DEF TypeOK, M
<1>2. M \in 1..Len(messages)
  BY <1>1 DEF M
<1>3. QED
  BY <1>2, ElementOfSeq DEF TypeOK

LEMMA LeaveKeeps ==
  ASSUME IInv, LeaveLoop
  PROVE  Conversation'
<1>1. PICK w \in Words \ Severities : Reads(w) /\ code' = w
  BY DEF LeaveLoop
<1>2. /\ editor = "loop" /\ editor' = "result"
      /\ UNCHANGED <<compiler, toCompiler, messages, seen, console, res>>
  BY DEF LeaveLoop, log, files
<1>3. toEditor \in Seq(Words)
  BY DEF IInv, TypeOK
<1>4. /\ w = Word(1) /\ ~Unread(0)
      /\ \A n \in Nat : Unread(n) =>
           n > 0 /\ Unread(n - 1)' /\ (\A i \in 1..n - 1 : Word(i)' = Word(i + 1))
  BY <1>1, <1>2, <1>3, Answered
<1>5. ~AtRules /\ ~AtCompile /\ ~AtAnnounce /\ ~AtEnd
  BY <1>2, <1>4 DEF AtRules, AtCompile, AtAnnounce, AtEnd
<1>6. ~AtWait
  BY <1>1, <1>2, <1>4, Announced DEF AtWait, IInv
<1>7. AtResult => AtResult'
  <2> SUFFICES ASSUME AtResult PROVE AtResult'
    OBVIOUS
  <2>1. Unread(1)
    BY <1>2 DEF AtResult
  <2>2. Unread(0)'
    BY <1>4, <2>1
  <2>3. QED
    BY <1>2, <2>2 DEF AtResult
<1>8. AtExit => AtExit'
  <2> SUFFICES ASSUME AtExit PROVE AtExit'
    OBVIOUS
  <2>1. Unread(2) /\ Word(2) = res
    BY <1>2 DEF AtExit
  <2>2. Unread(1)' /\ Word(1)' = Word(2)
    BY <1>4, <2>1
  <2>3. QED
    BY <1>2, <2>1, <2>2 DEF AtExit
<1>9. QED
  BY <1>2, <1>5, <1>6, <1>7, <1>8, EditorMoves DEF IInv

LEMMA ResultKeeps ==
  ASSUME IInv, ReadResult
  PROVE  Conversation'
<1>1. PICK w \in Words : Reads(w) /\ code' = w
  BY DEF ReadResult
<1>2. /\ editor = "result" /\ editor' = "done"
      /\ UNCHANGED <<compiler, toCompiler, messages, seen, console, res>>
  BY DEF ReadResult, log, files
<1>3. toEditor \in Seq(Words)
  BY DEF IInv, TypeOK
<1>4. w = Word(1) /\ ~Unread(0)
  BY <1>1, <1>2, <1>3, Answered
<1>5. ~AtRules /\ ~AtCompile /\ ~AtAnnounce /\ ~AtEnd /\ ~AtResult
  BY <1>2, <1>4 DEF AtRules, AtCompile, AtAnnounce, AtEnd, AtResult
<1>6. AtWait => AtWait'
  <2> SUFFICES ASSUME AtWait PROVE AtWait'
    OBVIOUS
  <2>1. /\ Len(toCompiler) = 0 /\ Word(1) = messages[M] /\ M = seen + 1
        /\ ~console
    BY <1>2, <1>4 DEF AtWait, Before, Silent, Talking
  <2>2. w \in Severities
    BY <1>4, <2>1, Announced DEF IInv
  <2>3. QED
    BY <1>1, <1>2, <2>1, <2>2 DEF AtWait
<1>7. AtExit => AtExit'
  BY <1>1, <1>2, <1>4 DEF AtExit
<1>8. QED
  BY <1>2, <1>5, <1>6, <1>7, EditorMoves DEF IInv

LEMMA LaunchKeeps ==
  ASSUME IInv, Launch
  PROVE  Conversation'
<1>1. /\ editor' = "sync" /\ compiler' = "rules" /\ toCompiler' = <<"rules">>
      /\ toEditor' = <<>> /\ messages' = <<>> /\ seen' = 0 /\ res' = "none"
  BY DEF Launch
<1>2. AtRules'
  BY <1>1, NothingYet, OneWord, WordsApart DEF AtRules, M
<1>3. Ended("rules")'
  BY <1>1, WordsApart DEF Ended
<1>4. QED
  BY <1>1, <1>2, <1>3, NextStations, CompilerMoves DEF Places

LEMMA RulesKeep ==
  ASSUME IInv, ReadRules
  PROVE  Conversation'
<1>1. AtRules /\ Ended("rules")
  BY WhileRunning, Stations DEF ReadRules, Places
<1>2. /\ compiler' = "compile" /\ toCompiler # <<>> /\ toCompiler' = Tail(toCompiler)
      /\ toEditor' = Append(toEditor, "sync")
      /\ UNCHANGED <<editor, messages, seen, console, res>>
  BY DEF ReadRules, log, files
<1>3. Len(toEditor') = 1 /\ toEditor'[1] = "sync"
  BY <1>1, <1>2, NoWords, Writing, WordsApart DEF AtRules
<1>4. Len(toCompiler') = 0
  BY <1>1, <1>2, Reading DEF AtRules, IInv, TypeOK
<1>5. AtCompile'
  BY <1>1, <1>2, <1>3, <1>4 DEF AtCompile, AtRules, Unread, Ahead, Before, M
<1>6. Ended("compile")'
  BY <1>1, <1>2 DEF Ended
<1>7. QED
  BY <1>2, <1>5, <1>6, NextStations, CompilerMoves DEF Places

LEMMA TextKeeps ==
  ASSUME IInv, WriteText
  PROVE  Conversation'
<1>1. AtCompile /\ Ended("compile")
  BY WhileRunning, Stations DEF WriteText, Places
<1>2. PICK severity \in Severities : messages' = Append(messages, severity)
  BY DEF WriteText
<1>3. compiler' = "announce" /\ UNCHANGED <<editor, toCompiler, toEditor, seen, console, res>>
  BY DEF WriteText, pipes, files
<1>4. M' = M + 1 /\ M \in Nat
  BY <1>2, AppendProperties, LenProperties DEF M, IInv, TypeOK
<1>5. Unread(0)'
  BY <1>1, <1>3 DEF AtCompile, Unread, Ahead
<1>6. AtAnnounce'
  BY <1>1, <1>3, <1>4, <1>5 DEF AtCompile, AtAnnounce, Before, Silent, Talking
<1>7. Ended("announce")'
  BY <1>1, <1>3 DEF Ended
<1>8. QED
  BY <1>3, <1>6, <1>7, NextStations, CompilerMoves DEF Places

LEMMA AnnounceKeeps ==
  ASSUME IInv, Announce
  PROVE  Conversation'
<1>1. AtAnnounce /\ Ended("announce")
  BY WhileRunning, Stations DEF Announce, Places
<1>2. /\ compiler' = "wait" /\ toEditor' = Append(toEditor, messages[M])
      /\ UNCHANGED <<editor, toCompiler, messages, seen, console, res>>
  BY DEF Announce, log, files, M
<1>3. messages[M] \in Words
  BY <1>1, Announced, WordsApart DEF AtAnnounce, IInv
<1>4. Unread(1)' /\ Word(1)' = messages[M]
  <2>1. Unread(0) /\ toEditor \in Seq(Words)
    BY <1>1 DEF AtAnnounce, IInv, TypeOK
  <2>2. Unread(0 + 1)' /\ Word(0 + 1)' = messages[M]
    BY <1>2, <1>3, <2>1, Unanswered, Zenon
  <2>3. QED
    BY <2>2
<1>5. AtWait'
  BY <1>1, <1>2, <1>4 DEF AtAnnounce, AtWait, Before, Silent, Talking, M
<1>6. Ended("wait")'
  BY <1>1, <1>2 DEF Ended
<1>7. QED
  BY <1>2, <1>5, <1>6, NextStations, CompilerMoves DEF Places

LEMMA ReplyKeeps ==
  ASSUME IInv, ReadReply
  PROVE  Conversation'
<1>1. AtWait /\ Ended("wait")
  BY WhileRunning, Stations DEF ReadReply, Places
<1>2. /\ compiler' = "compile" /\ toCompiler # <<>> /\ toCompiler' = Tail(toCompiler)
      /\ UNCHANGED <<editor, toEditor, messages, seen, console, res>>
  BY DEF ReadReply, log, files
<1>3. Len(toCompiler) >= 1 /\ Len(toCompiler') = Len(toCompiler) - 1
  BY <1>2, Reading DEF IInv, TypeOK
<1>4. Len(toCompiler) = 1 /\ Unread(0) /\ seen = M /\ Talking
  BY <1>1, <1>3 DEF AtWait
<1>5. AtCompile'
  BY <1>2, <1>3, <1>4 DEF AtCompile, Unread, Ahead, Talking, M
<1>6. Ended("compile")'
  BY <1>1, <1>2 DEF Ended
<1>7. QED
  BY <1>2, <1>5, <1>6, NextStations, CompilerMoves DEF Places

LEMMA CompiledKeeps ==
  ASSUME IInv, CompileEnds
  PROVE  Conversation'
<1>1. AtCompile
  BY WhileRunning, Stations DEF CompileEnds, Places
<1>2. /\ compiler' = "end" /\ messages # <<>> /\ res' \in Results
      /\ UNCHANGED <<editor, toCompiler, toEditor, messages, seen, console>>
  BY DEF CompileEnds, pipes, log, Results
<1>3. M # 0
  BY <1>2, EmptySeq, LenProperties DEF M, IInv, TypeOK
<1>4. AtEnd'
  BY <1>1, <1>2, <1>3 DEF AtCompile, AtEnd, Unread, Ahead, Before, Talking, M
<1>5. Ended("end")'
  BY <1>2 DEF Ended
<1>6. QED
  BY <1>2, <1>4, <1>5, NextStations, CompilerMoves DEF Places

LEMMA EndKeeps ==
  ASSUME IInv, SendEnd
  PROVE  Conversation'
<1>1. AtEnd /\ Ended("end")
  BY WhileRunning, Stations DEF SendEnd, Places
<1>2. /\ compiler' = "result" /\ toEditor' = Append(toEditor, "end")
      /\ UNCHANGED <<editor, toCompiler, console, res>>
  BY DEF SendEnd, log, files
<1>3. Unread(1)' /\ Word(1)' = "end"
  <2>1. Unread(0) /\ toEditor \in Seq(Words) /\ "end" \in Words
    BY <1>1, WordsApart DEF AtEnd, IInv, TypeOK
  <2>2. Unread(0 + 1)' /\ Word(0 + 1)' = "end"
    BY <1>2, <2>1, Unanswered, Zenon
  <2>3. QED
    BY <2>2
<1>4. AtResult'
  BY <1>1, <1>2, <1>3 DEF AtEnd, AtResult, Talking
<1>5. Ended("result")'
  BY <1>1, <1>2 DEF Ended
<1>6. QED
  BY <1>2, <1>4, <1>5, NextStations, CompilerMoves DEF Places

LEMMA ResultSent ==
  ASSUME IInv, SendResult
  PROVE  Conversation'
<1>1. AtResult /\ Ended("result")
  BY WhileRunning, Stations DEF SendResult, Places
<1>2. /\ compiler' = "none" /\ toEditor' = Append(toEditor, res)
      /\ UNCHANGED <<editor, toCompiler, console, res>>
  BY DEF SendResult, log, files
<1>3. res \in Words /\ toEditor \in Seq(Words)
  BY <1>1, WordsApart DEF Ended, IInv, TypeOK
<1>4. \A n \in {0, 1} : Unread(n) =>
         Unread(n + 1)' /\ Word(n + 1)' = res /\ (\A i \in 1..n : Word(i)' = Word(i))
  BY <1>2, <1>3, Unanswered
<1>5. AtExit'
  BY <1>1, <1>2, <1>4 DEF AtResult, AtExit
<1>6. Ended("none")'
  BY <1>1, <1>2 DEF Ended
<1>7. QED
  BY <1>2, <1>5, <1>6, NextStations, CompilerMoves DEF Places

\* A compiler that crashes leaves the pipes as they are, and so does a step
\* that changes nothing.
LEMMA CrashKeeps ==
  ASSUME IInv, compiler' \in {compiler, "crashed"},
         UNCHANGED <<editor, toCompiler, toEditor, code, messages, seen, console, res>>
  PROVE  Conversation'
<1>1. SUFFICES ASSUME editor # "idle"
               PROVE  \E c \in Places : (compiler' = c \/ compiler' = "crashed") /\ At(c)' /\ Ended(c)'
  BY DEF Conversation
<1>2. PICK c \in Places : (compiler = c \/ compiler = "crashed") /\ At(c) /\ Ended(c)
  BY <1>1 DEF Conversation, IInv
<1>3. M' = M /\ Ahead' = Ahead /\ (\A n \in 0..2 : (Unread(n)' <=> Unread(n)) /\ Word(n)' = Word(n))
  BY DEF M, Ahead, Unread, Word
<1>4. At(c)'
  <2>1. AtRules => AtRules'
    BY <1>3 DEF AtRules
  <2>2. AtCompile => AtCompile'
    BY <1>3 DEF AtCompile, Before, Silent, Talking
  <2>3. AtAnnounce => AtAnnounce'
    BY <1>3 DEF AtAnnounce, Before, Silent, Talking
  <2>4. AtWait => AtWait'
    BY <1>3 DEF AtWait, Before, Silent, Talking
  <2>5. AtEnd => AtEnd'
    BY <1>3 DEF AtEnd, Talking
  <2>6. AtResult => AtResult'
    BY <1>3 DEF AtResult
  <2>7. AtExit => AtExit'
    BY <1>3 DEF AtExit
  <2>8. QED
    BY <1>2, <2>1, <2>2, <2>3, <2>4, <2>5, <2>6, <2>7, Stations, NextStations DEF Places
<1>5. QED
  BY <1>2, <1>4 DEF Ended

LEMMA ConversationGoesOn ==
  ASSUME IInv, [Next]_vars
  PROVE  Conversation'
<1>1. CASE Finish
  BY <1>1 DEF Finish, Conversation
<1>2. CASE Crash
  BY <1>2, CrashKeeps DEF Crash, pipes, log, files
<1>3. CASE UNCHANGED vars
  BY <1>3, CrashKeeps DEF vars, pipes, log, files
<1>4. QED
  BY <1>1, <1>2, <1>3, LaunchKeeps, SyncKeeps, OpenKeeps, MessageKeeps, LeaveKeeps, ResultKeeps,
     RulesKeep, TextKeeps, AnnounceKeeps, ReplyKeeps, CompiledKeeps, EndKeeps, ResultSent
     DEF Next, EditorStep, CompilerStep

-----------------------------------------------------------------------------
\* What the editor reads in the loop announces the one new message.
LEMMA MessageRead ==
  ASSUME IInv, ReadMessage
  PROVE  /\ M = seen + 1 /\ res = "none"
         /\ shown' = Append(shown, [after |-> seen, upto |-> M, as |-> messages[M]])
<1>1. PICK severity \in Severities :
         /\ Reads(severity)
         /\ shown' = IF M = seen THEN shown
                     ELSE Append(shown, [after |-> seen, upto |-> M, as |-> severity])
  BY DEF ReadMessage, M
<1>2. editor = "loop" /\ editor' = "loop" /\ toEditor \in Seq(Words) /\ seen \in Nat
  BY DEF ReadMessage, IInv, TypeOK
<1>3. severity = Word(1) /\ ~Unread(0)
  BY <1>1, <1>2, Answered
<1>4. PICK c \in Places : At(c) /\ Ended(c)
  BY <1>2 DEF IInv, Conversation
<1>5. ~AtRules /\ ~AtCompile /\ ~AtAnnounce /\ ~AtEnd
  BY <1>2, <1>3 DEF AtRules, AtCompile, AtAnnounce, AtEnd
<1>6. ~AtResult /\ ~AtExit
  BY <1>2, <1>3, WordsApart DEF AtResult, AtExit
<1>7. AtWait /\ c = "wait"
  BY <1>4, <1>5, <1>6, Stations DEF Places
<1>8. M = seen + 1 /\ Word(1) = messages[M]
  BY <1>2, <1>3, <1>7 DEF AtWait
<1>9. res = "none"
  BY <1>4, <1>7 DEF Ended, IInv, TypeOK
<1>10. QED
  BY <1>1, <1>2, <1>3, <1>8, <1>9

LEMMA InStepKept ==
  ASSUME IInv, [Next]_vars
  PROVE  MessagesInStep' /\ Told'
<1> USE DEF IInv
<1>1. /\ messages \in Seq(Severities) /\ shown \in Seq(Shown) /\ M \in Nat /\ seen \in Nat
      /\ Len(shown) = seen /\ seen <= M
  BY LenProperties DEF TypeOK, Told, M
<1>2. CASE UNCHANGED <<messages, seen, shown>>
  BY <1>2 DEF MessagesInStep, Told, M
<1>3. CASE Launch
  BY <1>3, NothingYet DEF Launch, MessagesInStep, Told, M
<1>4. CASE ReadMessage
  <2> DEFINE entry == [after |-> seen, upto |-> M, as |-> messages[M]]
  <2>1. M = seen + 1 /\ shown' = Append(shown, entry) /\ seen' = M /\ messages' = messages
    BY <1>4, MessageRead DEF ReadMessage, M
  <2>2. entry \in Shown
    BY <1>1, <2>1, Announced DEF Shown, TypeOK, M
  <2>3. /\ Len(shown') = seen + 1 /\ shown'[seen + 1] = entry
        /\ \A k \in 1..seen : shown'[k] = shown[k]
    <3> HIDE DEF entry
    <3>1. QED
      BY <1>1, <2>1, <2>2, AppendProperties
  <2>4. entry.after = seen /\ entry.upto = M /\ entry.as = messages[M]
    OBVIOUS
  <2>5. Told'
    BY <1>1, <2>1, <2>3 DEF Told, M
  <2>6. \A k \in 1..seen : shown'[k].after = k - 1 /\ shown'[k].upto = k /\ shown'[k].as = messages'[k]
    <3>1. \A k \in 1..seen : shown[k].after = k - 1 /\ shown[k].upto = k /\ shown[k].as = messages[k]
      BY <1>1 DEF MessagesInStep
    <3>2. messages' = messages
      BY <2>1
    <3> HIDE DEF entry
    <3>3. QED
      BY <2>3, <3>1, <3>2
  <2>7. shown'[seen + 1].after = seen /\ shown'[seen + 1].upto = seen + 1
        /\ shown'[seen + 1].as = messages'[seen + 1]
    <3> HIDE DEF entry
    <3>1. QED
      BY <2>1, <2>3, <2>4
  <2>8. \A k \in 1..Len(shown') : k \in 1..seen \/ (k = seen + 1 /\ seen = k - 1)
    BY <1>1, <2>3
  <2>9. MessagesInStep'
    BY <2>6, <2>7, <2>8 DEF MessagesInStep
  <2>10. QED
    BY <2>5, <2>9
<1>5. CASE WriteText
  <2>1. PICK severity \in Severities : messages' = Append(messages, severity)
    BY <1>5 DEF WriteText
  <2>2. seen' = seen /\ shown' = shown
    BY <1>5 DEF WriteText
  <2>3. M' = M + 1 /\ \A k \in 1..M : messages'[k] = messages[k]
    BY <1>1, <2>1, AppendProperties DEF M
  <2>4. QED
    BY <1>1, <2>2, <2>3 DEF MessagesInStep, Told
<1>6. QED
  BY <1>2, <1>3, <1>4, <1>5
     DEF Next, EditorStep, CompilerStep, vars, log, ReadSync, OpenConsole, LeaveLoop, ReadResult,
         Finish, ReadRules, Announce, ReadReply, CompileEnds, SendEnd, SendResult, Crash

\* A compiler that takes a step has an editor that waits.
LEMMA EditorWaits ==
  ASSUME IInv, CompilerStep \/ Crash
  PROVE  editor # "idle" /\ editor' = editor
<1>1. editor' = editor
  BY DEF CompilerStep, Crash, ReadRules, WriteText, Announce, ReadReply, CompileEnds, SendEnd, SendResult
<1>2. compiler # "none"
  BY DEF CompilerStep, Crash, ReadRules, WriteText, Announce, ReadReply, CompileEnds, SendEnd, SendResult
<1>3. QED
  BY <1>1, <1>2 DEF IInv, CompilerGone

LEMMA GoneKept ==
  ASSUME IInv, [Next]_vars
  PROVE  CompilerGone'
<1>1. CASE CompilerStep \/ Crash
  BY <1>1, EditorWaits DEF CompilerGone
<1>2. CASE Launch \/ EditorStep
  BY <1>2 DEF CompilerGone, Launch, EditorStep, ReadSync, OpenConsole, ReadMessage, LeaveLoop,
              ReadResult, Finish
<1>3. CASE UNCHANGED vars
  BY <1>3 DEF CompilerGone, IInv, vars
<1>4. QED
  BY <1>1, <1>2, <1>3 DEF Next

LEMMA WrittenKept ==
  ASSUME IInv, [Next]_vars
  PROVE  Written'
<1>1. CASE Launch
  BY <1>1 DEF Launch, Written
<1>2. CASE CompileEnds
  <2>1. compiles' = compiles
    BY <1>2 DEF CompileEnds
  <2>2. res' = "fail" \/ tmp2' = compiles \/ unwritten' = TRUE
    BY <1>2 DEF CompileEnds
  <2>3. QED
    BY <2>1, <2>2 DEF Written
<1>3. CASE UNCHANGED <<tmp2, compiles, res, unwritten>>
  BY <1>3 DEF Written, IInv
<1>4. QED
  BY <1>1, <1>2, <1>3
     DEF Next, EditorStep, CompilerStep, vars, files, ReadSync, OpenConsole, ReadMessage, LeaveLoop,
         ReadResult, Finish, ReadRules, WriteText, Announce, ReadReply, SendEnd, SendResult, Crash

\* What the editor has at the end is the result; if not, it is the code of a message.
LEMMA AtTheEnd ==
  ASSUME IInv, editor = "done"
  PROVE  (console /\ code = res /\ res \in Results) \/ (~console /\ code \in Severities)
<1>1. PICK c \in Places : At(c) /\ Ended(c)
  BY DEF IInv, Conversation
<1>2. ~AtRules /\ ~AtCompile /\ ~AtAnnounce /\ ~AtEnd /\ ~AtResult
  BY DEF AtRules, AtCompile, AtAnnounce, AtEnd, AtResult, Before, Silent, Talking
<1>3. AtWait \/ (AtExit /\ c = "none")
  BY <1>1, <1>2, Stations DEF Places
<1>4. QED
  BY <1>1, <1>3 DEF AtWait, AtExit, Before, Silent, Talking, Ended

LEMMA TakenKept ==
  ASSUME IInv, [Next]_vars
  PROVE  Taken'
<1>1. CASE CompilerStep \/ Crash
  BY <1>1, EditorWaits DEF Taken
<1>2. CASE Launch \/ ReadSync \/ OpenConsole \/ ReadMessage \/ LeaveLoop \/ ReadResult
  BY <1>2 DEF Taken, Launch, ReadSync, OpenConsole, ReadMessage, LeaveLoop, ReadResult
<1>3. CASE Finish
  <2>1. /\ editor = "done" /\ code' = code /\ res' = res /\ tmp2' = tmp2
        /\ code = "ok" => adopted' \in {{}, {tmp2}}
    BY <1>3 DEF Finish
  <2>2. code = "ok" => res = "ok"
    BY <2>1, AtTheEnd DEF Severities
  <2>3. QED
    BY <2>1, <2>2 DEF Taken
<1>4. CASE UNCHANGED vars
  BY <1>4 DEF Taken, IInv, vars, files
<1>5. QED
  BY <1>1, <1>2, <1>3, <1>4 DEF Next, EditorStep

-----------------------------------------------------------------------------
LEMMA Beginning == Init => IInv
<1> SUFFICES ASSUME Init PROVE IInv
  OBVIOUS
<1>1. TypeOK
  BY InitTypes
<1>2. MessagesInStep /\ Told
  BY NothingYet DEF Init, MessagesInStep, Told, M
<1>3. CompilerGone /\ Conversation /\ Written /\ Taken
  BY DEF Init, CompilerGone, Conversation, Written, Taken
<1>4. QED
  BY <1>1, <1>2, <1>3 DEF IInv

\* The conversation of the editor and the compiler stays in order, whatever
\* is compiled and wherever the compiler crashes.
THEOREM Invariance == Spec => []IInv
<1>1. Init => IInv
  BY Beginning
<1>2. IInv /\ [Next]_vars => IInv'
  BY NextTypes, InStepKept, GoneKept, ConversationGoesOn, WrittenKept, TakenKept DEF IInv
<1>3. QED
  BY <1>1, <1>2, PTL DEF Spec

\* The variables keep their types.
THEOREM TypeCorrect == Spec => []TypeOK
<1>1. IInv => TypeOK
  BY DEF IInv
<1>2. QED
  BY <1>1, Invariance, PTL

\* Each code makes the editor print the next message, as what it is.
THEOREM OneByOne == Spec => []MessagesInStep
<1>1. IInv => MessagesInStep
  BY DEF IInv
<1>2. QED
  BY <1>1, Invariance, PTL

\* The editor takes for the result what the compiler returned, and never a
\* failure for a success.
THEOREM ResultIsTrue == Spec => []TrueResult
<1>1. IInv => TrueResult
  BY AtTheEnd DEF TrueResult, Severities
<1>2. QED
  BY <1>1, Invariance, PTL

\* The scripts that the editor takes are those of the compilation that succeeded.
THEOREM ScriptsAreFresh == Spec => []FreshScripts
<1>1. IInv => FreshScripts
  BY DEF IInv, FreshScripts, Taken, Written
<1>2. QED
  BY <1>1, Invariance, PTL

\* The editor leaves no compiler running.
THEOREM NoneRunning == Spec => []CompilerGone
<1>1. IInv => CompilerGone
  BY DEF IInv
<1>2. QED
  BY <1>1, Invariance, PTL

-----------------------------------------------------------------------------
(***************************************************************************)
(* Two pipes and a file implement CompilerTalk.                            *)
(***************************************************************************)

\* What the editor has heard of the compiler.
Heard == [k \in 1..Len(shown) |-> shown[k].as]

Viewed == [Promised!Next]_(Promised!vars)

\* As many as were said, or fewer.
LEMMA AllHeard ==
  ASSUME NEW ms \in Seq(Severities), NEW sh \in Seq(Shown),
         \A k \in 1..Len(sh) : sh[k].as = ms[k]
  PROVE  [k \in 1..Len(sh) |-> sh[k].as] = ms <=> Len(sh) = Len(ms)
<1> DEFINE h == [k \in 1..Len(sh) |-> sh[k].as]
<1>1. Len(sh) \in Nat /\ Len(ms) \in Nat /\ DOMAIN ms = 1..Len(ms) /\ ms = [k \in 1..Len(ms) |-> ms[k]]
  BY LenProperties
<1>2. DOMAIN h = 1..Len(sh)
  OBVIOUS
<1>3. ASSUME Len(sh) = Len(ms) PROVE h = ms
  BY <1>1, <1>3
<1>4. ASSUME h = ms PROVE Len(sh) = Len(ms)
  <2>1. 1..Len(sh) = 1..Len(ms)
    BY <1>1, <1>2, <1>4
  <2>2. QED
    BY <1>1, <2>1
<1>5. QED
  BY <1>3, <1>4

LEMMA HeardInStep ==
  ASSUME IInv
  PROVE  (Heard = messages <=> seen = M) /\ (seen = 0 => Heard = <<>>)
<1>1. /\ messages \in Seq(Severities) /\ shown \in Seq(Shown) /\ Len(shown) = seen
      /\ \A k \in 1..Len(shown) : shown[k].as = messages[k]
  BY DEF IInv, TypeOK, Told, MessagesInStep
<1>2. Heard = messages <=> seen = M
  BY <1>1, AllHeard DEF Heard, M
<1>3. seen = 0 => Heard = <<>>
  <2>1. ASSUME seen = 0 PROVE \A k \in 1..Len(shown) : shown[k].as = <<>>[k]
    BY <1>1, <2>1
  <2>2. <<>> \in Seq(Severities) /\ Len(<<>>) = 0
    BY NothingYet
  <2>3. QED
    BY <1>1, <2>1, <2>2, AllHeard DEF Heard
<1>4. QED
  BY <1>2, <1>3

\* The same after a step.
LEMMA HeardNext ==
  ASSUME IInv'
  PROVE  Heard' = messages' <=> seen' = M'
<1>1. /\ messages' \in Seq(Severities) /\ shown' \in Seq(Shown) /\ Len(shown') = seen'
      /\ \A k \in 1..Len(shown') : shown'[k].as = messages'[k]
  BY DEF IInv, TypeOK, Told, MessagesInStep
<1>2. [k \in 1..Len(shown') |-> shown'[k].as] = messages' <=> Len(shown') = Len(messages')
  BY <1>1, AllHeard
<1>3. QED
  BY <1>1, <1>2 DEF Heard, M

\* A step that neither of the two would notice.
LEMMA Unnoticed ==
  ASSUME UNCHANGED <<messages, shown, res>>, Answer' = Answer, (editor = "idle") = (editor' = "idle")
  PROVE  Viewed
<1>1. Heard' = Heard
  BY DEF Heard
<1>2. QED
  BY <1>1 DEF Viewed, Promised!vars, Heard

LEMMA AskView ==
  ASSUME IInv, IInv', Launch
  PROVE  Viewed
<1>1. /\ editor = "idle" /\ editor' = "sync" /\ messages' = <<>> /\ seen' = 0 /\ res' = "none"
  BY DEF Launch
<1>2. Answer' = "none"
  BY <1>1 DEF Answer
<1>3. Heard' = <<>>
  BY <1>1, HeardNext, NothingYet DEF M
<1>4. Promised!Ask
  BY <1>1, <1>2, <1>3 DEF Promised!Ask, Heard
<1>5. QED
  BY <1>4 DEF Viewed, Promised!Next

LEMMA HearView ==
  ASSUME IInv, IInv', ReadMessage
  PROVE  Viewed
<1>1. M = seen + 1 /\ res = "none"
  BY MessageRead
<1>2. editor = "loop" /\ editor' = "loop" /\ seen' = M /\ messages' = messages /\ res' = res
  BY DEF ReadMessage, files, M
<1>3. Answer = "none" /\ Answer' = "none"
  BY <1>2 DEF Answer
<1>4. Heard # messages
  BY <1>1, HeardInStep DEF IInv, TypeOK
<1>5. Heard' = messages
  BY <1>2, HeardNext DEF M
<1>6. Promised!Hear
  BY <1>1, <1>2, <1>3, <1>4, <1>5 DEF Promised!Hear, Promised!Talking, Heard
<1>7. QED
  BY <1>6 DEF Viewed, Promised!Next

LEMMA AnswerView ==
  ASSUME IInv, ReadResult
  PROVE  Viewed
<1>1. PICK w \in Words : Reads(w) /\ code' = w
  BY DEF ReadResult
<1>2. /\ editor = "result" /\ editor' = "done"
      /\ UNCHANGED <<messages, seen, shown, res>>
  BY DEF ReadResult, log, files
<1>3. w = Word(1) /\ ~Unread(0)
  BY <1>1, <1>2, Answered DEF IInv, TypeOK
<1>4. PICK c \in Places : At(c) /\ Ended(c)
  BY <1>2 DEF IInv, Conversation
<1>5. ~AtRules /\ ~AtCompile /\ ~AtAnnounce /\ ~AtEnd /\ ~AtResult
  BY <1>2, <1>3 DEF AtRules, AtCompile, AtAnnounce, AtEnd, AtResult
<1>6. (c = "wait" /\ AtWait) \/ (c = "none" /\ AtExit)
  BY <1>4, <1>5, Stations DEF Places
<1>7. Answer = "none" /\ Answer' = IF w \in Results THEN w ELSE "lost"
  <2>1. w # "none"
    BY DEF Words, Severities, Results
  <2>2. QED
    BY <1>1, <1>2, <2>1 DEF Answer
<1>8. Heard' = Heard
  BY <1>2 DEF Heard
<1>9. CASE c = "wait" /\ AtWait
  <2>1. M = seen + 1 /\ M = 1 /\ Word(1) = messages[M]
    BY <1>2, <1>3, <1>9 DEF AtWait, Before, Silent, Talking
  <2>2. w \in Severities
    BY <1>3, <2>1, Announced DEF IInv
  <2>3. Answer' = "lost"
    BY <1>7, <2>2, WordsApart
  <2>4. seen = 0
    BY <2>1 DEF IInv, TypeOK
  <2>5. res = "none"
    BY <1>4, <1>9 DEF Ended, IInv, TypeOK
  <2>6. Heard = <<>> /\ Len(messages) = 1
    BY <2>1, <2>4, HeardInStep DEF M
  <2>7. Promised!Miss
    BY <1>2, <1>7, <1>8, <2>3, <2>5, <2>6 DEF Promised!Miss, Promised!Talking, Heard
  <2>8. QED
    BY <2>7 DEF Viewed, Promised!Next
<1>10. CASE c = "none" /\ AtExit
  <2>1. res \in Results /\ w = res
    BY <1>2, <1>3, <1>4, <1>10 DEF AtExit, Ended
  <2>2. Answer' = res /\ res # "none"
    BY <1>7, <2>1, WordsApart
  <2>3. Promised!Learn
    BY <1>2, <1>7, <1>8, <2>2 DEF Promised!Learn, Heard
  <2>4. QED
    BY <2>3 DEF Viewed, Promised!Next
<1>11. QED
  BY <1>6, <1>9, <1>10

LEMMA ReturnView ==
  ASSUME IInv, Finish
  PROVE  Viewed
<1>1. /\ editor = "done" /\ editor' = "idle"
      /\ UNCHANGED <<code, messages, shown, res>>
  BY DEF Finish, log
<1>2. code \in Results \/ code \in Severities
  BY <1>1, AtTheEnd
<1>3. Answer # "none" /\ Answer' = Answer
  BY <1>1, <1>2 DEF Answer, Results, Severities
<1>4. Heard' = Heard
  BY <1>1 DEF Heard
<1>5. Promised!Return
  BY <1>1, <1>3, <1>4 DEF Promised!Return, Heard
<1>6. QED
  BY <1>5 DEF Viewed, Promised!Next

\* Where the compiler may speak, the editor has heard everything.
LEMMA MaySpeak ==
  ASSUME IInv, compiler = "compile"
  PROVE  editor # "idle" /\ Answer = "none" /\ res = "none" /\ Heard = messages
<1>1. editor # "idle" /\ AtCompile /\ Ended("compile")
  BY WhileRunning, Stations DEF Places
<1>2. Answer = "none"
  BY <1>1 DEF AtCompile, Before, Silent, Talking, Answer
<1>3. res = "none"
  BY <1>1 DEF Ended, IInv, TypeOK
<1>4. QED
  BY <1>1, <1>2, <1>3, HeardInStep DEF AtCompile

LEMMA SpeakView ==
  ASSUME IInv, WriteText \/ CompileEnds
  PROVE  Viewed
<1>1. compiler = "compile" /\ UNCHANGED <<editor, code, shown>>
  BY DEF WriteText, CompileEnds, log
<1>2. editor # "idle" /\ Answer = "none" /\ res = "none" /\ Heard = messages
  BY <1>1, MaySpeak
<1>3. Answer' = Answer /\ Heard' = Heard
  BY <1>1 DEF Answer, Heard
<1>4. CASE WriteText
  <2>1. PICK severity \in Severities : messages' = Append(messages, severity)
    BY <1>4 DEF WriteText
  <2>2. res' = res
    BY <1>4 DEF WriteText, files
  <2>3. Promised!Say(severity)
    BY <1>1, <1>2, <1>3, <2>1, <2>2 DEF Promised!Say, Promised!Talking, Heard
  <2>4. QED
    BY <2>3 DEF Viewed, Promised!Next
<1>5. CASE CompileEnds
  <2>1. res' \in Results /\ messages # <<>> /\ messages' = messages
    BY <1>5 DEF CompileEnds, log, Results
  <2>2. Promised!Conclude(res')
    BY <1>1, <1>2, <1>3, <2>1 DEF Promised!Conclude, Promised!Talking, Heard
  <2>3. QED
    BY <2>1, <2>2 DEF Viewed, Promised!Next
<1>6. QED
  BY <1>4, <1>5

LEMMA NextView ==
  ASSUME IInv, IInv', [Next]_vars
  PROVE  Viewed
<1>1. CASE Launch \/ ReadMessage \/ ReadResult \/ Finish \/ WriteText \/ CompileEnds
  BY <1>1, AskView, HearView, AnswerView, ReturnView, SpeakView
<1>2. CASE ReadSync \/ OpenConsole \/ LeaveLoop
  <2>1. /\ editor \in {"sync", "open", "loop"} /\ editor' \in {"open", "loop", "result"}
        /\ UNCHANGED <<messages, shown, res>>
    BY <1>2 DEF ReadSync, OpenConsole, LeaveLoop, log, files
  <2>2. Answer' = Answer
    BY <2>1 DEF Answer
  <2>3. QED
    BY <2>1, <2>2, Unnoticed
<1>3. CASE ReadRules \/ Announce \/ ReadReply \/ SendEnd \/ SendResult \/ Crash \/ UNCHANGED vars
  <2>1. UNCHANGED <<editor, code, messages, shown, res>>
    BY <1>3 DEF ReadRules, Announce, ReadReply, SendEnd, SendResult, Crash, vars, log, files
  <2>2. Answer' = Answer
    BY <2>1 DEF Answer
  <2>3. QED
    BY <2>1, <2>2, Unnoticed
<1>4. QED
  BY <1>1, <1>2, <1>3 DEF Next, EditorStep, CompilerStep

\* The compiler never writes a message before its last one was printed, and the
\* editor takes no result before it has printed them all: two processes, two
\* pipes and the file tmp3 behave as one conversation, wherever the compiler
\* crashes and whether tmp3 can be opened or not.
THEOREM Refinement == Spec => TalkKept
<1>1. Init => Promised!Init
  <2> SUFFICES ASSUME Init PROVE Promised!Init
    OBVIOUS
  <2>1. IInv /\ seen = 0 /\ Answer = "none"
    BY Beginning DEF Init, Answer
  <2>2. QED
    BY <2>1, HeardInStep DEF Init, Promised!Init, Heard
<1>2. IInv /\ IInv' /\ [Next]_vars => [Promised!Next]_(Promised!vars)
  BY NextView DEF Viewed
<1>3. QED
  BY <1>1, <1>2, Invariance, PTL DEF Spec, TalkKept, Promised!Spec
=============================================================================
