---------------------------- MODULE CompilerPipe ----------------------------
(***************************************************************************)
(* ZQuest compiles scripts in a process of its own, zscript.exe            *)
(* (zquest.cpp, parser/parser.cpp, process_managment, zscrdata.h).         *)
(*                                                                         *)
(* Two pipes join them.  The editor sends the quest rules; the compiler    *)
(* answers with a word and compiles.  Each of its messages is appended to  *)
(* the file tmp3 and announced by a code for its severity; it goes on when *)
(* the editor has sent the code back.  The compiled scripts are in the     *)
(* file tmp2.  The last words are a code for the end and the result.       *)
(*                                                                         *)
(* This is the Windows side, where a pipe is read until its last writer    *)
(* closes it: the editor keeps the compiler's end of both pipes open       *)
(* itself, so that a read of a pipe nobody will write to never returns.    *)
(* size_t has the size of a code, as in the 32-bit builds.                 *)
(***************************************************************************)
EXTENDS Naturals, Sequences

CONSTANTS
  MaxMessages,  \* bound: messages of one compilation
  MaxCompiles,  \* bound: compilations
  MaxHandles    \* how many files the editor's run-time library opens (512)

ASSUME BoundsAssumption ==
  MaxMessages \in Nat /\ MaxCompiles \in Nat /\ MaxHandles \in Nat

Severities == {"info", "warn", "error"}
Results == {"ok", "fail"}
Words == Severities \cup Results \cup {"rules", "sync", "end"}

VARIABLES
  editor,     \* what case 5 of onCompileScript does next
  compiler,   \* what zscript.exe does next; "none" when it is not running
  toCompiler, toEditor,   \* the words in the pipes
  code,       \* the editor's variable: the last word it read
  messages,   \* tmp3, the messages of this compilation: their severities
  seen,       \* last: how much of tmp3 has been read
  shown,      \* what ReadConsole got: which messages were new, and with what code
  handles,    \* how often the editor has opened tmp3: it never closes it
  console,    \* is tmp3 open in this compilation?
  tmp2,       \* the compilation whose scripts are in tmp2; 0 for one before the editor started
  adopted,    \* the compilation whose scripts the editor took last; {} if it found none
  compiles,   \* the number of this compilation
  res,        \* history: what main returns
  unwritten   \* history: could tmp2 not be written in this compilation?

pipes == <<toCompiler, toEditor>>
log   == <<messages, seen, shown>>
files == <<tmp2, adopted, compiles, res, unwritten>>
vars  == <<editor, compiler, pipes, code, log, handles, console, files>>

Init ==
  /\ editor = "idle" /\ compiler = "none"
  /\ toCompiler = <<>> /\ toEditor = <<>>
  /\ code = "none"
  /\ messages = <<>> /\ seen = 0 /\ shown = <<>>
  /\ handles = 0 /\ console = FALSE
  /\ tmp2 = 0 /\ adopted = {} /\ compiles = 0
  /\ res = "none" /\ unwritten = FALSE

(***************************************************************************)
(* The editor.                                                             *)
(***************************************************************************)

\* The source goes to the file tmp, then launch_piped_process, and the quest
\* rules.  Nothing happens when one of these fails, as the first does when too
\* many files are open.  The compiler creates tmp3 anew before it reads the rules.
Launch ==
  /\ editor = "idle" /\ compiles < MaxCompiles /\ handles < MaxHandles
  /\ editor' = "sync" /\ compiler' = "rules"
  /\ toCompiler' = <<"rules">> /\ toEditor' = <<>>
  /\ code' = "none"
  /\ messages' = <<>> /\ seen' = 0 /\ shown' = <<>>
  /\ compiles' = compiles + 1 /\ res' = "none" /\ unwritten' = FALSE
  /\ UNCHANGED <<handles, console, tmp2, adopted>>

\* ReadFile waits for a word
Reads(w) == toEditor # <<>> /\ w = Head(toEditor) /\ toEditor' = Tail(toEditor)

ReadSync ==
  /\ editor = "sync"
  /\ Reads("sync")
  /\ editor' = "open"
  /\ UNCHANGED <<compiler, toCompiler, code, log, handles, console, files>>

\* fopen of tmp3 may fail, as tmp3 is at that moment another process's too; then
\* the loop is left out.
OpenConsole ==
  /\ editor = "open"
  /\ \/ /\ handles < MaxHandles /\ handles' = handles + 1
        /\ console' = TRUE /\ editor' = "loop"
     \/ /\ UNCHANGED handles
        /\ console' = FALSE /\ editor' = "result"
  /\ UNCHANGED <<compiler, pipes, code, log, files>>

\* Mutant of ReadMessage: the code that was read before is sent back.
RepliesLate ==
  /\ editor = "loop"
  /\ \E severity \in Severities : Reads(severity) /\ code' = severity
  /\ toCompiler' = Append(toCompiler, code)
  /\ seen' = Len(messages)
  /\ UNCHANGED <<editor, compiler, messages, shown, handles, console, files>>

\* A code of a message: the new part of tmp3 is printed, and the code sent back.
ReadMessage ==
  /\ editor = "loop"
  /\ \E severity \in Severities :
       /\ Reads(severity)
       /\ code' = severity
       /\ shown' = IF Len(messages) = seen THEN shown
                   ELSE Append(shown, [after |-> seen, upto |-> Len(messages), as |-> severity])
       /\ toCompiler' = Append(toCompiler, severity)
  /\ seen' = Len(messages)
  /\ UNCHANGED <<editor, compiler, messages, handles, console, files>>

\* Mutant of LeaveLoop: the code that ends the loop is taken for the result.
LeavesWithCode ==
  /\ editor = "loop"
  /\ \E w \in Words \ Severities : Reads(w) /\ code' = w
  /\ editor' = "done"
  /\ UNCHANGED <<compiler, toCompiler, log, handles, console, files>>

\* Any other word ends the loop.
LeaveLoop ==
  /\ editor = "loop"
  /\ \E w \in Words \ Severities : Reads(w) /\ code' = w
  /\ editor' = "result"
  /\ UNCHANGED <<compiler, toCompiler, log, handles, console, files>>

ReadResult ==
  /\ editor = "result"
  /\ \E w \in Words : Reads(w) /\ code' = w
  /\ editor' = "done"
  /\ UNCHANGED <<compiler, toCompiler, log, handles, console, files>>

\* Mutant of Finish: kill_on_destructor is not set.
LeavesRunning ==
  /\ editor = "done"
  /\ IF code = "ok" THEN adopted' \in {{}, {tmp2}} ELSE UNCHANGED adopted
  /\ toCompiler' = <<>> /\ toEditor' = <<>>
  /\ editor' = "idle"
  /\ UNCHANGED <<compiler, code, log, handles, console, tmp2, compiles, res, unwritten>>

\* read_compile_data if the result is 0; it finds nothing if tmp2 cannot be opened.
\* Then the process_manager is deleted, which kills the compiler.
Finish ==
  /\ editor = "done"
  /\ IF code = "ok" THEN adopted' \in {{}, {tmp2}} ELSE UNCHANGED adopted
  /\ compiler' = "none" /\ toCompiler' = <<>> /\ toEditor' = <<>>
  /\ editor' = "idle"
  /\ UNCHANGED <<code, log, handles, console, tmp2, compiles, res, unwritten>>

EditorStep == ReadSync \/ OpenConsole \/ ReadMessage \/ LeaveLoop \/ ReadResult \/ Finish

(***************************************************************************)
(* The compiler: main of parser.cpp.                                       *)
(***************************************************************************)
ReadRules ==
  /\ compiler = "rules" /\ toCompiler # <<>>
  /\ toCompiler' = Tail(toCompiler)
  /\ toEditor' = Append(toEditor, "sync")
  /\ compiler' = "compile"
  /\ UNCHANGED <<editor, code, log, handles, console, files>>

\* zconsole_info, zconsole_warn and zconsole_error: the text goes to tmp3
\* first.  The first message, of the file's name, is information.
WriteText ==
  /\ compiler = "compile" /\ Len(messages) < MaxMessages
  /\ \E severity \in Severities :
       /\ messages = <<>> => severity = "info"
       /\ messages' = Append(messages, severity)
  /\ compiler' = "announce"
  /\ UNCHANGED <<editor, pipes, code, seen, shown, handles, console, files>>

\* Mutant of Announce: the compiler does not wait for the reply.
AnnouncesOnly ==
  /\ compiler = "announce"
  /\ toEditor' = Append(toEditor, messages[Len(messages)])
  /\ compiler' = "compile"
  /\ UNCHANGED <<editor, toCompiler, code, log, handles, console, files>>

\* The code goes to the pipe when the text is in tmp3.
Announce ==
  /\ compiler = "announce"
  /\ toEditor' = Append(toEditor, messages[Len(messages)])
  /\ compiler' = "wait"
  /\ UNCHANGED <<editor, toCompiler, code, log, handles, console, files>>

ReadReply ==
  /\ compiler = "wait" /\ toCompiler # <<>>
  /\ toCompiler' = Tail(toCompiler)
  /\ compiler' = "compile"
  /\ UNCHANGED <<editor, toEditor, code, log, handles, console, files>>

\* Mutant of CompileEnds: the scripts are not in tmp2 when the compiler ends.
EndsUnwritten ==
  /\ compiler = "compile" /\ messages # <<>>
  /\ res' \in Results
  /\ compiler' = "end"
  /\ UNCHANGED <<editor, pipes, code, log, handles, console, tmp2, adopted, compiles, unwritten>>

\* Mutant of CompileEnds: the reply to the last message is not waited for.
EndsUnheard ==
  /\ compiler \in {"compile", "wait"} /\ messages # <<>>
  /\ \/ res' = "fail" /\ UNCHANGED <<tmp2, unwritten>>
     \/ res' = "ok" /\ tmp2' = compiles /\ UNCHANGED unwritten
     \/ res' = "ok" /\ unwritten' = TRUE /\ UNCHANGED tmp2
  /\ compiler' = "end"
  /\ UNCHANGED <<editor, pipes, code, log, handles, console, adopted, compiles>>

\* The compilation fails, or write_compile_data writes the scripts, or does
\* nothing because it cannot open tmp2.
CompileEnds ==
  /\ compiler = "compile" /\ messages # <<>>
  /\ \/ res' = "fail" /\ UNCHANGED <<tmp2, unwritten>>
     \/ res' = "ok" /\ tmp2' = compiles /\ UNCHANGED unwritten
     \/ res' = "ok" /\ unwritten' = TRUE /\ UNCHANGED tmp2
  /\ compiler' = "end"
  /\ UNCHANGED <<editor, pipes, code, log, handles, console, adopted, compiles>>

\* Mutant of SendEnd: the result alone is sent.
OmitsEnd ==
  /\ compiler = "end" /\ compiler' = "result"
  /\ UNCHANGED <<editor, pipes, code, log, handles, console, files>>

SendEnd ==
  /\ compiler = "end"
  /\ toEditor' = Append(toEditor, "end")
  /\ compiler' = "result"
  /\ UNCHANGED <<editor, toCompiler, code, log, handles, console, files>>

SendResult ==
  /\ compiler = "result"
  /\ toEditor' = Append(toEditor, res)
  /\ compiler' = "none"
  /\ UNCHANGED <<editor, toCompiler, code, log, handles, console, files>>

CompilerStep == ReadRules \/ WriteText \/ Announce \/ ReadReply \/ CompileEnds \/ SendEnd \/ SendResult

\* The compiler crashes.  What it wrote stays in the pipe, which stays open.
Crash ==
  /\ compiler \notin {"none", "crashed"}
  /\ compiler' = "crashed"
  /\ UNCHANGED <<editor, pipes, code, log, handles, console, files>>

Next == Launch \/ EditorStep \/ CompilerStep \/ Crash

(***************************************************************************)
(* Both processes go on when they can.                                     *)
(***************************************************************************)
Spec == Init /\ [][Next]_vars /\ WF_vars(EditorStep) /\ WF_vars(CompilerStep)

-----------------------------------------------------------------------------
(***************************************************************************)
(* Properties.                                                             *)
(***************************************************************************)

Shown == [after : 0..MaxMessages, upto : 0..MaxMessages, as : Severities]

\* The values that the variables take.
TypeOK ==
  /\ editor \in {"idle", "sync", "open", "loop", "result", "done"}
  /\ compiler \in {"none", "rules", "compile", "announce", "wait", "end", "result", "crashed"}
  /\ toCompiler \in Seq(Words) /\ toEditor \in Seq(Words)
  /\ code \in Words \cup {"none"}
  /\ messages \in Seq(Severities) /\ Len(messages) <= MaxMessages /\ seen \in 0..MaxMessages
  /\ shown \in Seq(Shown)
  /\ handles \in 0..MaxHandles /\ console \in BOOLEAN
  /\ tmp2 \in 0..MaxCompiles /\ adopted \subseteq 0..MaxCompiles /\ compiles \in 0..MaxCompiles
  /\ res \in Results \cup {"none"} /\ unwritten \in BOOLEAN

\* The codes in the pipe and the texts in tmp3 keep step: each code makes the
\* editor hand one message to ReadConsole, the next one, with its own code.
MessagesInStep ==
  \A k \in 1..Len(shown) :
    shown[k].after = k - 1 /\ shown[k].upto = k /\ shown[k].as = messages[k]

\* The editor takes for the result what main of the compiler returned, if it
\* could open tmp3; and in no case does it take a failure for a success.
TrueResult ==
  editor = "done" => (console => code = res) /\ (code = "ok" => res = "ok")

\* After a success the editor has taken the scripts of this compilation, or
\* none, but not those of an earlier one, unless tmp2 could not be written.
FreshScripts ==
  editor = "idle" /\ code = "ok" /\ ~unwritten => adopted \subseteq {compiles}

\* No compiler is left running when the editor goes on.
CompilerGone == editor = "idle" => compiler = "none"

\* The editor comes back from every compilation in which the compiler does
\* not crash: neither waits for a word that the other does not send.
EditorReturns == editor # "idle" ~> editor = "idle" \/ compiler = "crashed"

\* What the editor has for an answer when it has stopped reading.
Answer ==
  IF editor \notin {"done", "idle"} \/ code = "none" THEN "none"
  ELSE IF code \in Results THEN code ELSE "lost"

\* Two pipes and a file do what CompilerTalk promises of one conversation: no
\* message is written before ReadConsole got the last one, and the result
\* comes after all of them, as main of parser.cpp returned it.
Promised == INSTANCE CompilerTalk WITH
  asking  <- editor # "idle",
  said    <- messages,
  heard   <- [k \in 1..Len(shown) |-> shown[k].as],
  verdict <- res,
  answer  <- Answer

TalkKept == Promised!Spec
=============================================================================
