------------------------ MODULE SingleInstanceProofs ------------------------
(* Proofs about SingleInstance, for any set of processes. *)
EXTENDS SingleInstance, TLAPS

\* A process that has had no company is the only one that runs, and what it
\* has unlinked is not there.
Solitude ==
  \A p \in Running \ company :
    /\ Running = {p}
    /\ pc[p] = "bind" => file = NoOne

\* While starts do not overlap, one process at a time is starting; the file
\* names the process that has been told it is the only one, and nobody gets
\* past connect while there is one.
InTurn ==
  ~overlap =>
    /\ \A p, q \in Starting : p = q
    /\ \A p \in Onlys : platform = "unix" => file = p
    /\ \A p \in Processes : pc[p] = "listen" => file = p
    /\ \A p \in Processes : pc[p] \in {"unlink", "bind", "listen", "create"} => Onlys = {}
    /\ \A p, q \in Onlys : p = q

\* Each platform goes its own way.
OwnWay ==
  \A p \in Processes :
    pc[p] \notin (IF platform = "unix" THEN {"open", "create"}
                  ELSE {"socket", "connect", "unlink", "bind", "listen"})

Inv == TypeOK /\ OwnWay /\ Solitude /\ NeverLockedOut /\ InTurn

\* At the beginning nobody runs.
LEMMA InitInv == Init => Inv
  BY PlatformsAssumption
  DEF Init, Inv, TypeOK, OwnWay, Solitude, NeverLockedOut, InTurn, Onlys, Running, Starting

\* Every step of any process keeps the invariant.
LEMMA NextInv == Inv /\ [Next]_vars => Inv'
<1> SUFFICES ASSUME Inv, [Next]_vars PROVE Inv'
  OBVIOUS
<1> USE PlatformsAssumption, NamesAssumption
<1> USE DEF Inv, TypeOK, OwnWay, Goto, Onlys, Running, Starting
<1>1. CASE UNCHANGED vars
  BY <1>1 DEF vars, Solitude, NeverLockedOut, InTurn
<1>2. ASSUME NEW p \in Processes, Start(p) PROVE Inv'
  <2>1. TypeOK' /\ OwnWay'  BY <1>2 DEF Start
  <2>2. Solitude'           BY <1>2 DEF Start, Solitude
  <2>3. NeverLockedOut'     BY <1>2 DEF Start, NeverLockedOut
  <2>4. InTurn'
    <3> SUFFICES ASSUME ~overlap' PROVE InTurn'
      BY DEF InTurn
    <3>1. ~overlap /\ Starting = {} /\ pc[p] = "off" /\ UNCHANGED <<platform, file>>
      BY <1>2 DEF Start
    <3>2. pc' = [pc EXCEPT ![p] = IF platform = "unix" THEN "socket" ELSE "open"]
      BY <1>2 DEF Start
    <3>3. Onlys' = Onlys /\ Starting' = {p}
      BY <3>1, <3>2
    <3>4. \A q \in Processes : q # p => pc'[q] = pc[q]
      BY <3>2
    <3>5. pc'[p] \in {"socket", "open"}
      BY <3>2
    <3> QED BY <3>1, <3>3, <3>4, <3>5 DEF InTurn
  <2> QED BY <2>1, <2>2, <2>3, <2>4
<1>3. ASSUME NEW p \in Processes, Socket(p) \/ CallFails(p) \/ GoOn(p) PROVE Inv'
  <2>1. TypeOK' /\ OwnWay'  BY <1>3 DEF Socket, CallFails, GoOn
  <2>2. Solitude'           BY <1>3 DEF Socket, CallFails, GoOn, Solitude
  <2>3. NeverLockedOut'     BY <1>3 DEF Socket, CallFails, GoOn, NeverLockedOut
  <2>4. InTurn'             BY <1>3 DEF Socket, CallFails, GoOn, InTurn
  <2> QED BY <2>1, <2>2, <2>3, <2>4
<1>4. ASSUME NEW p \in Processes, Connect(p) \/ Unlink(p) PROVE Inv'
  <2>1. TypeOK' /\ OwnWay'  BY <1>4 DEF Connect, Unlink
  <2>2. Solitude'           BY <1>4 DEF Connect, Unlink, Solitude
  <2>3. NeverLockedOut'     BY <1>4 DEF Connect, Unlink, NeverLockedOut, Solitude
  <2>4. InTurn'             BY <1>4 DEF Connect, Unlink, InTurn
  <2> QED BY <2>1, <2>2, <2>3, <2>4
<1>5. ASSUME NEW p \in Processes, Bind(p) \/ Listen(p) PROVE Inv'
  <2>1. TypeOK' /\ OwnWay'  BY <1>5 DEF Bind, Listen
  <2>2. Solitude'           BY <1>5 DEF Bind, Listen, Solitude
  <2>3. NeverLockedOut'     BY <1>5 DEF Bind, Listen, NeverLockedOut, Solitude
  <2>4. InTurn'             BY <1>5 DEF Bind, Listen, InTurn
  <2> QED BY <2>1, <2>2, <2>3, <2>4
<1>6. ASSUME NEW p \in Processes, Open(p) \/ Create(p) PROVE Inv'
  <2>1. TypeOK' /\ OwnWay'  BY <1>6 DEF Open, Create
  <2>2. Solitude'           BY <1>6 DEF Open, Create, Solitude
  <2>3. NeverLockedOut'     BY <1>6 DEF Open, Create, NeverLockedOut, Solitude
  <2>4. InTurn'             BY <1>6 DEF Open, Create, InTurn
  <2> QED BY <2>1, <2>2, <2>3, <2>4
<1>7. ASSUME NEW p \in Processes, End(p) PROVE Inv'
  <2>1. TypeOK' /\ OwnWay'  BY <1>7 DEF End
  <2>2. Solitude'           BY <1>7 DEF End, Solitude
  <2>3. NeverLockedOut'     BY <1>7 DEF End, NeverLockedOut
  <2>4. InTurn'             BY <1>7 DEF End, InTurn
  <2> QED BY <2>1, <2>2, <2>3, <2>4
<1> QED
  BY <1>1, <1>2, <1>3, <1>4, <1>5, <1>6, <1>7 DEF Next

\* The invariant holds always.
LEMMA Invariant == Spec => []Inv
  BY InitInv, NextInv, PTL DEF Spec

\* A process that starts alone is never locked out, whatever file or mutex the
\* instances before it have left behind.
THEOREM StartsAlone == Spec => []NeverLockedOut
<1>1. Inv => NeverLockedOut
  BY DEF Inv
<1> QED
  BY <1>1, Invariant, PTL

\* If starts never overlap, two processes are never both told that they are
\* the only one.
THEOREM MutualExclusion == Spec => []OneAtATime
<1>1. Inv => OneAtATime
  BY DEF Inv, InTurn, OneAtATime
<1> QED
  BY <1>1, Invariant, PTL

\* Only those that have had their answer listen or hold the mutex: whoever has
\* ended or crashed has let go.
THEOREM LetsGo == Spec => []TypeOK
<1>1. Inv => TypeOK
  BY DEF Inv
<1> QED
  BY <1>1, Invariant, PTL
=============================================================================
