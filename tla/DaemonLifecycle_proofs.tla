----------------------- MODULE DaemonLifecycle_proofs -----------------------
(***************************************************************************)
(* Proofs about DaemonLifecycle, for any number of process ids, crashes    *)
(* and unrelated processes: its types, that there is one daemon, which the *)
(* socket and the PID file lead to, and that a daemon which ends by itself *)
(* has lost nothing.                                                       *)
(***************************************************************************)
EXTENDS DaemonLifecycle, TLAPS

---------------------------------------------------------------------------
(* The inductive invariant *)

\* A daemon starts only while the command that forked it waits for it
Started == \A p \in Pids : process[p] \in Starting => At("wait") /\ target = p

\* From then on the PID file names it until it ends
Filed == \A p \in Pids : process[p] \in {"bind", "up"} \cup Leaving => pidfile = p

\* The socket file is removed before it binds, and then its own
Bound ==
    /\ \A p \in Pids : process[p] \in {"pid", "bind"} => socket = None
    /\ \A p \in Pids : process[p] \in {"up", "join", "rmsocket"} => socket = p

\* When a command forks, and when it removes the files, no daemon is there ...
Gone == command \in {"fork", "rmsocket", "rmpid"} => \A p \in Pids : process[p] \notin Daemon

\* ... and the daemon that it waits for or kills is the only one
Targeted ==
    command \in {"wait", "term"} =>
        /\ target \in Pids
        /\ \A p \in Pids : process[p] \in Daemon => p = target

\* Who has ended the watcher processor has flushed
Flushed ==
    /\ \A p \in Pids : watcher[p] = "ended" => changes[p] # "some"
    /\ \A p \in Pids : process[p] \in {"rmsocket", "rmpid"} => watcher[p] = "ended"

IInv == TypeOK /\ Started /\ Filed /\ Bound /\ Gone /\ Targeted /\ Flushed

---------------------------------------------------------------------------
(* Its proof *)

LEMMA InitIInv == Init => IInv
BY LifecycleAssumption
   DEF Init, IInv, TypeOK, Started, Filed, Bound, Gone, Targeted, Flushed, Listens, Leaving,
       Starting, Daemon, At

\* The daemon's own steps
LEMMA DaemonPreserves ==
  ASSUME IInv, NEW p \in Pids, DaemonStep(p) \/ Change(p) \/ Flush(p)
  PROVE  IInv'
<1> USE LifecycleAssumption
    DEF IInv, TypeOK, Started, Filed, Bound, Gone, Targeted, Flushed, At, Starting, Leaving,
        Daemon, Listens, Goto, files, commands, bounds
<1>1. CASE Unlink(p)
  BY <1>1 DEF Unlink
<1>2. CASE WritePid(p)
  BY <1>2 DEF WritePid
<1>3. CASE Bind(p)
  BY <1>3 DEF Bind, Ends
<1>4. CASE Change(p)
  BY <1>4 DEF Change
<1>5. CASE Flush(p)
  BY <1>5 DEF Flush
<1>6. CASE ProcessorEnds(p)
  BY <1>6 DEF ProcessorEnds
<1>7. CASE Join(p)
  BY <1>7 DEF Join
<1>8. CASE RemoveSocket(p)
  BY <1>8 DEF RemoveSocket
<1>9. CASE RemovePid(p)
  BY <1>9 DEF RemovePid, Ends
<1> QED
  BY <1>1, <1>2, <1>3, <1>4, <1>5, <1>6, <1>7, <1>8, <1>9 DEF DaemonStep

\* A connection makes the daemon that the socket leads to leave, or sets its flag
LEMMA ConnectsPreserves ==
  ASSUME IInv, socket # None, Listens(socket), NEW shutdown \in BOOLEAN,
         Connects(socket, shutdown)
  PROVE  /\ process' \in [Pids -> {"none", "foreign"} \cup Daemon]
         /\ flag' \in [Pids -> BOOLEAN]
         /\ \A p \in Pids : flag'[p] => process'[p] \in {"up"} \cup Leaving
         /\ \A p \in Pids : process'[p] # process[p] => process[p] = "up" /\ process'[p] = "join"
<1>1. socket \in Pids
  BY DEF IInv, TypeOK
<1> QED
  BY <1>1 DEF Connects, Listens, IInv, TypeOK, Daemon, Starting, Leaving

LEMMA ClientPreserves ==
  ASSUME IInv, NEW shutdown \in BOOLEAN, ClientConnects(shutdown)
  PROVE  IInv'
BY ConnectsPreserves
   DEF ClientConnects, IInv, TypeOK, Started, Filed, Bound, Gone, Targeted, Flushed, At,
       Starting, Leaving, Daemon, Listens, files, commands, bounds

\* The steps of the commands
LEMMA CommandPreserves ==
  ASSUME IInv, Start \/ Stop \/ CommandStep
  PROVE  IInv'
<1> USE LifecycleAssumption
    DEF IInv, TypeOK, Started, Filed, Bound, Gone, Targeted, Flushed, At, Starting, Leaving,
        Daemon, Listens, files, daemon, bounds
<1>1. CASE Start
  BY <1>1 DEF Start
<1>2. CASE StartCheck
  BY <1>2 DEF StartCheck, Running, Alive
<1>3. CASE Fork
  BY <1>3 DEF Fork, Alive
<1>4. CASE StartEnds
  BY <1>4 DEF StartEnds
<1>5. CASE Stop
  BY <1>5 DEF Stop
<1>6. CASE StopCheck
  BY <1>6 DEF StopCheck
<1>7. CASE AskShutdown
  <2>1. CASE socket # None /\ Listens(socket)
    BY <1>7, <2>1, ConnectsPreserves DEF AskShutdown
  <2>2. CASE ~(socket # None /\ Listens(socket))
    <3>1. /\ command = "ask" /\ command' = "check"
          /\ UNCHANGED <<process, flag, changes, watcher, socket, pidfile, target, kills, reused>>
      BY <1>7, <2>2 DEF AskShutdown
    <3> QED BY <3>1
  <2> QED BY <2>1, <2>2
<1>8. CASE CheckStopped
  BY <1>8 DEF CheckStopped
<1>9. CASE ReadPid
  BY <1>9 DEF ReadPid
<1>10. CASE Term
  <2>1. PICK p \in Pids : p = target
    BY <1>10 DEF Term
  <2>2. CASE Alive(target)
    <3>1. TypeOK' /\ process' = [process EXCEPT ![p] = "none"]
      <4>1. /\ process' = [process EXCEPT ![p] = "none"] /\ flag' = [flag EXCEPT ![p] = FALSE]
            /\ changes' \in [Pids -> {"none", "some", "lost"}]
            /\ command' = "rmsocket"
            /\ UNCHANGED <<watcher, socket, pidfile, target, kills, reused>>
        BY <1>10, <2>1, <2>2 DEF Term, Ends
      <4>2. \A q \in Pids : flag'[q] => Listens(q)'
        BY <4>1
      <4>3. /\ process' \in [Pids -> {"none", "foreign"} \cup Daemon]
            /\ flag' \in [Pids -> BOOLEAN]
        BY <4>1
      <4> QED BY <4>1, <4>2, <4>3
    <3>2. Started' /\ Filed' /\ Bound' /\ Targeted'
      BY <1>10, <2>1, <3>1 DEF Term
    <3>3. Gone'
      BY <1>10, <2>1, <3>1 DEF Term
    <3>4. Flushed'
      BY <1>10, <2>1, <2>2 DEF Term, Ends
    <3> QED BY <3>1, <3>2, <3>3, <3>4
  <2>3. CASE ~Alive(target)
    BY <1>10, <2>3 DEF Term, Alive
  <2> QED BY <2>2, <2>3
<1>11. CASE CommandRemovesSocket
  BY <1>11 DEF CommandRemovesSocket
<1>12. CASE CommandRemovesPid
  BY <1>12 DEF CommandRemovesPid
<1> QED
  BY <1>1, <1>2, <1>3, <1>4, <1>5, <1>6, <1>7, <1>8, <1>9, <1>10, <1>11, <1>12 DEF CommandStep

\* Crashes, and other programs
LEMMA MachinePreserves ==
  ASSUME IInv, NEW p \in Pids, Kill(p) \/ Reuse(p) \/ ForeignEnds(p)
  PROVE  IInv'
<1> USE LifecycleAssumption
    DEF IInv, TypeOK, Started, Filed, Bound, Gone, Targeted, Flushed, At, Starting, Leaving,
        Daemon, Listens, files, commands, bounds
<1>1. CASE Kill(p)
  BY <1>1 DEF Kill, Ends
<1>2. CASE Reuse(p)
  BY <1>2 DEF Reuse, Alive
<1>3. CASE ForeignEnds(p)
  BY <1>3 DEF ForeignEnds, Goto
<1> QED BY <1>1, <1>2, <1>3

LEMMA StutterPreserves == ASSUME IInv, UNCHANGED vars PROVE IInv'
BY DEF vars, files, daemon, commands, bounds, IInv, TypeOK, Started, Filed, Bound, Gone, Targeted,
       Flushed, At, Listens

LEMMA Invariance == Spec => []IInv
<1>1. IInv /\ [Next]_vars => IInv'
  BY DaemonPreserves, ClientPreserves, CommandPreserves, MachinePreserves, StutterPreserves
     DEF Next
<1> QED BY InitIInv, <1>1, PTL DEF Spec

---------------------------------------------------------------------------
(* Theorems *)

\* Every variable keeps its type; only who listens has a flag that is set.
THEOREM Types == Spec => []TypeOK
<1>1. IInv => TypeOK
  BY DEF IInv
<1> QED BY <1>1, Invariance, PTL

\* There is one daemon at most, and the socket and the PID file lead to it while
\* it is up (daemon_unix.rs:38-119, 274-306).
THEOREM Single == Spec => []OneDaemon
<1>1. ASSUME IInv PROVE OneDaemon
  <2>1. ASSUME NEW p \in Pids, NEW q \in Pids, process[p] \in Daemon, process[q] \in Daemon
        PROVE  p = q
    <3>1. CASE process[p] \in Starting \/ process[q] \in Starting
      BY <1>1, <2>1, <3>1 DEF IInv, Started, Targeted, At
    <3>2. CASE process[p] \notin Starting /\ process[q] \notin Starting
      BY <1>1, <2>1, <3>2 DEF IInv, Filed, Daemon
    <3> QED BY <3>1, <3>2
  <2>2. ASSUME NEW p \in Pids, Up(p) PROVE socket = p /\ pidfile = p
    BY <1>1, <2>2 DEF IInv, Filed, Bound, Up
  <2> QED BY <2>1, <2>2 DEF OneDaemon
<1> QED BY <1>1, Invariance, PTL

\* A daemon on its way out by itself loses no change that it had taken up
\* (daemon_core.rs:221-225, daemon_unix.rs:112).
THEOREM ExitFlushes == Spec => NothingLostByExit
<1> DEFINE NoLoss ==
        \A p \in Pids : (process[p] = "rmpid" /\ kills' = kills /\ ~At("term"))
                            => (changes'[p] = "lost" => changes[p] = "lost")
<1>1. ASSUME IInv, [Next]_vars PROVE NoLoss
  <2> SUFFICES ASSUME NEW p \in Pids, process[p] = "rmpid", kills' = kills, ~At("term"),
                      changes'[p] # changes[p]
               PROVE  changes'[p] # "lost" \/ changes[p] = "lost"
    OBVIOUS
  <2>1. changes[p] # "some" /\ changes \in [Pids -> {"none", "some", "lost"}]
    BY <1>1 DEF IInv, TypeOK, Flushed
  <2> USE <2>1 DEF daemon, files, commands, bounds
  <2>2. ASSUME NEW q \in Pids, DaemonStep(q) \/ Change(q) \/ Flush(q)
        PROVE  changes'[p] # "lost" \/ changes[p] = "lost"
    BY <2>2 DEF DaemonStep, Unlink, WritePid, Bind, ProcessorEnds, Join, RemoveSocket, RemovePid,
                Change, Flush, Ends, Goto
  <2>3. ASSUME NEW s \in BOOLEAN, ClientConnects(s) PROVE FALSE
    BY <2>3 DEF ClientConnects
  <2>4. ASSUME Start \/ Stop \/ CommandStep
        PROVE  changes'[p] # "lost" \/ changes[p] = "lost"
    BY <2>4 DEF Start, Stop, CommandStep, StartCheck, Fork, StartEnds, StopCheck, AskShutdown,
                CheckStopped, ReadPid, Term, CommandRemovesSocket, CommandRemovesPid, At
  <2>5. ASSUME NEW q \in Pids, Kill(q) \/ Reuse(q) \/ ForeignEnds(q) PROVE FALSE
    BY <2>5, <1>1 DEF Kill, Reuse, ForeignEnds, IInv, TypeOK
  <2>6. ASSUME UNCHANGED vars PROVE FALSE
    BY <2>6 DEF vars
  <2> QED BY <1>1, <2>2, <2>3, <2>4, <2>5, <2>6 DEF Next
<1>2. IInv /\ [Next]_vars => [NoLoss]_vars
  BY <1>1
<1> QED BY <1>2, Invariance, PTL DEF Spec, NothingLostByExit
=============================================================================
