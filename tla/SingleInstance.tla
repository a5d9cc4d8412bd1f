--------------------------- MODULE SingleInstance ---------------------------
(***************************************************************************)
(* is_only_instance("zc.lck"), by which the player finds out at its start  *)
(* whether another one is running (single_instance_unix.cpp, win32.cpp and *)
(* main in zelda.cpp).  Saved games are lost when two run on one save file.*)
(*                                                                         *)
(* On Unix the first instance listens on a socket whose name is a file; on *)
(* Windows it holds a named mutex.  Each system call is one step, and a    *)
(* process may end, of itself or by a crash, between any two of them.      *)
(***************************************************************************)

CONSTANTS
  Processes,      \* the processes that may run the player
  Platforms,      \* the systems it is built for
  AllowMultiple   \* multiple_instances in zc.cfg, or -multiple

ASSUME PlatformsAssumption == Platforms \subseteq {"unix", "windows"} /\ Platforms # {}
ASSUME AllowAssumption     == AllowMultiple \in BOOLEAN

NoOne == "no one"  \* the file does not exist
Stale == "stale"   \* the file is left from a process that has ended

ASSUME NamesAssumption == {NoOne, Stale} \cap Processes = {}

VARIABLES
  platform,  \* the system: it never changes
  pc,        \* [Processes -> where each is]
  file,      \* whose socket zc.lck names
  listening, \* the processes that accept connections
  handles,   \* the processes that have a handle on the named mutex
  overlap,   \* history: have two processes ever been in is_only_instance at once?
  company,   \* history: the processes beside which another has run since they started
  failed     \* history: the processes in which a system call failed by itself

vars == <<platform, pc, file, listening, handles, overlap, company, failed>>

Init ==
  /\ platform \in Platforms
  /\ pc = [p \in Processes |-> "off"]
  /\ file = NoOne
  /\ listening = {}
  /\ handles = {}
  /\ overlap = FALSE
  /\ company = {}
  /\ failed = {}

Running  == {p \in Processes : pc[p] # "off"}
Starting == {p \in Running : pc[p] \notin {"only", "other", "refused"}}

Goto(p, l) == pc' = [pc EXCEPT ![p] = l]

\* The process starts and comes to is_only_instance.
Start(p) ==
  /\ pc[p] = "off"
  /\ Goto(p, IF platform = "unix" THEN "socket" ELSE "open")
  /\ overlap' = (overlap \/ Starting # {})
  /\ company' = IF Running = {} THEN company ELSE company \cup Running \cup {p}
  /\ UNCHANGED <<platform, file, listening, handles, failed>>

Socket(p) ==
  /\ pc[p] = "socket"
  /\ Goto(p, "connect")
  /\ UNCHANGED <<platform, file, listening, handles, overlap, company, failed>>

\* socket, bind or listen fails for want of a resource or of a permission.
CallFails(p) ==
  /\ pc[p] \in {"socket", "bind", "listen"}
  /\ Goto(p, "refused")
  /\ failed' = failed \cup {p}
  /\ UNCHANGED <<platform, file, listening, handles, overlap, company>>

\* "Connect succeeded; there must be another instance running already"
Connect(p) ==
  /\ pc[p] = "connect"
  /\ Goto(p, IF file \in listening THEN "refused" ELSE "unlink")
  /\ UNCHANGED <<platform, file, listening, handles, overlap, company, failed>>

\* Mutant of Unlink: the file is left to be bound again.
LeavesFile(p) ==
  /\ pc[p] = "unlink"
  /\ Goto(p, "bind")
  /\ UNCHANGED <<platform, file, listening, handles, overlap, company, failed>>

Unlink(p) ==
  /\ pc[p] = "unlink"
  /\ file' = NoOne
  /\ Goto(p, "bind")
  /\ UNCHANGED <<platform, listening, handles, overlap, company, failed>>

\* A name that exists cannot be bound.
Bind(p) ==
  /\ pc[p] = "bind"
  /\ IF file = NoOne
     THEN file' = p /\ Goto(p, "listen")
     ELSE Goto(p, "refused") /\ UNCHANGED file
  /\ UNCHANGED <<platform, listening, handles, overlap, company, failed>>

\* Mutant of Listen: nobody will be able to connect.
DoesNotListen(p) ==
  /\ pc[p] = "listen"
  /\ Goto(p, "only")
  /\ UNCHANGED <<platform, file, listening, handles, overlap, company, failed>>

Listen(p) ==
  /\ pc[p] = "listen"
  /\ listening' = listening \cup {p}
  /\ Goto(p, "only")
  /\ UNCHANGED <<platform, file, handles, overlap, company, failed>>

\* OpenMutex gives a handle on a mutex that somebody holds a handle on.
Open(p) ==
  /\ pc[p] = "open"
  /\ IF handles # {}
     THEN handles' = handles \cup {p} /\ Goto(p, "refused")
     ELSE Goto(p, "create") /\ UNCHANGED handles
  /\ UNCHANGED <<platform, file, listening, overlap, company, failed>>

\* CreateMutex, which opens a mutex that has come to exist meanwhile.
Create(p) ==
  /\ pc[p] = "create"
  /\ handles' = handles \cup {p}
  /\ Goto(p, "only")
  /\ UNCHANGED <<platform, file, listening, overlap, company, failed>>

\* The answer was no: main goes on if several instances are permitted.
GoOn(p) ==
  /\ pc[p] = "refused" /\ AllowMultiple
  /\ Goto(p, "other")
  /\ UNCHANGED <<platform, file, listening, handles, overlap, company, failed>>

\* main's exit(1), the end of the program, or a crash.  The system closes what
\* the process had open; the file stays.
End(p) ==
  /\ pc[p] # "off"
  /\ Goto(p, "off")
  /\ file' = IF file = p THEN Stale ELSE file
  /\ listening' = listening \ {p}
  /\ handles' = handles \ {p}
  /\ company' = company \ {p}
  /\ failed' = failed \ {p}
  /\ UNCHANGED <<platform, overlap>>

Next ==
  \E p \in Processes :
    \/ Start(p)
    \/ Socket(p)
    \/ CallFails(p)
    \/ Connect(p)
    \/ Unlink(p)
    \/ Bind(p)
    \/ Listen(p)
    \/ Open(p)
    \/ Create(p)
    \/ GoOn(p)
    \/ End(p)

Spec == Init /\ [][Next]_vars

-----------------------------------------------------------------------------
(* Properties                                                              *)

\* The processes that is_only_instance has told they are the only one.
Onlys == {p \in Processes : pc[p] = "only"}

\* Every variable has its type. On Unix those that listen, and on Windows
\* those that hold the mutex, are the ones that have had their answer: all who
\* have ended, crashed or failed have let go of it.
TypeOK ==
  /\ platform \in Platforms
  /\ pc \in [Processes -> {"off", "socket", "connect", "unlink", "bind", "listen",
                           "open", "create", "only", "other", "refused"}]
  /\ file \in Processes \cup {NoOne, Stale}
  /\ {listening, handles, company, failed} \subseteq SUBSET Processes
  /\ overlap \in BOOLEAN
  /\ listening = IF platform = "unix" THEN Onlys ELSE {}
  /\ handles = IF platform = "unix" THEN {} ELSE Running \ Starting

\* A process that is told that it is not the only one has seen the others: one
\* that starts alone is never locked out, whatever the instances before it
\* have left behind them when they ended or crashed.
NeverLockedOut ==
  \A p \in Processes : pc[p] = "refused" => p \in company \/ p \in failed

\* As long as no two processes have been in is_only_instance at once, one
\* process at most is told that it is the only one.
OneAtATime == ~overlap => \A p, q \in Onlys : p = q

\* What the change log says of multiple_instances: it must be set to permit
\* several instances.
OnlyOne ==
  AllowMultiple \/ \A p, q \in Processes : {pc[p], pc[q]} \subseteq {"only", "other"} => p = q
=============================================================================
