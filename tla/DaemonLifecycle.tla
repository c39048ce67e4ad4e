--------------------------- MODULE DaemonLifecycle ---------------------------
(***************************************************************************)
(* Starting and stopping the daemon: `fxi daemon start` and `stop`, the    *)
(* socket and PID files by which processes find each other, a Shutdown     *)
(* request of another client, and the daemon's own way out.  Daemons and   *)
(* unrelated processes come and go under process ids that are used again.  *)
(*                                                                         *)
(* One command runs at a time, and the half second that `start` waits is   *)
(* enough for the daemon to listen or to die.                              *)
(***************************************************************************)
EXTENDS Naturals, FiniteSets

CONSTANTS Pids,     \* process ids
          None,     \* no file, or no process
          MaxKills, \* bound: daemons that crash or are killed by others
          MaxReuse  \* bound: unrelated processes

ASSUME LifecycleAssumption ==
    /\ None \notin Pids
    /\ MaxKills \in Nat /\ MaxReuse \in Nat

VARIABLES
    process,  \* pid -> what runs under it
    flag,     \* the daemon's shutdown flag
    changes,  \* its pending_changes: "none", "some"; "lost" when it ended with some
    watcher,  \* its watcher processor: "runs" or "ended"
    socket,   \* the socket file: whose listener it leads to
    pidfile,  \* the PID file
    command,  \* the step of the command at hand, or "idle"
    target,   \* the process it has signalled or forked
    kills,    \* bound: daemons killed so far
    reused    \* bound: unrelated processes so far

files    == <<socket, pidfile>>
daemon   == <<process, flag, changes, watcher>>
commands == <<command, target>>
bounds   == <<kills, reused>>
vars     == <<daemon, files, commands, bounds>>

Starting == {"unlink", "pid", "bind"}
Leaving  == {"join", "rmsocket", "rmpid"}
Daemon   == Starting \cup {"up"} \cup Leaving

Alive(p) == process[p] # "none"

\* A connection is taken by the listener, whether or not it is accepted
Listens(p) == process[p] \in {"up"} \cup Leaving

\* is_daemon_running: the process that the PID file names exists
Running == pidfile # None /\ Alive(pidfile)

\* Ends process p
Ends(p) ==
    /\ process' = [process EXCEPT ![p] = "none"]
    /\ flag' = [flag EXCEPT ![p] = FALSE]
    /\ changes' = [changes EXCEPT ![p] = IF @ = "some" THEN "lost" ELSE @]
    /\ UNCHANGED watcher

---------------------------------------------------------------------------
(* The daemon (IndexServer::run) *)

Goto(p, from, to) == process[p] = from /\ process' = [process EXCEPT ![p] = to]

\* Seeded fault: a socket file that is there is not removed
UnlinkNot(p) ==
    /\ Goto(p, "unlink", "pid")
    /\ UNCHANGED <<files, flag, changes, watcher, commands, bounds>>

Unlink(p) ==
    /\ Goto(p, "unlink", "pid")
    /\ socket' = None
    /\ UNCHANGED <<pidfile, flag, changes, watcher, commands, bounds>>

WritePid(p) ==
    /\ Goto(p, "pid", "bind")
    /\ pidfile' = p
    /\ UNCHANGED <<socket, flag, changes, watcher, commands, bounds>>

\* A socket file that exists makes bind fail, and the daemon end
Bind(p) ==
    /\ process[p] = "bind"
    /\ IF socket # None
       THEN Ends(p) /\ UNCHANGED socket
       ELSE /\ Goto(p, "bind", "up")
            /\ socket' = p
            /\ watcher' = [watcher EXCEPT ![p] = "runs"]
            /\ UNCHANGED <<flag, changes>>
    /\ UNCHANGED <<pidfile, commands, bounds>>

\* The watcher processor takes up changes of files, and flushes them
Change(p) ==
    /\ process[p] = "up" /\ watcher[p] = "runs" /\ changes[p] # "some"
    /\ changes' = [changes EXCEPT ![p] = "some"]
    /\ UNCHANGED <<process, flag, watcher, files, commands, bounds>>

Flush(p) ==
    /\ process[p] \in Daemon /\ watcher[p] = "runs" /\ changes[p] = "some"
    /\ changes' = [changes EXCEPT ![p] = "none"]
    /\ UNCHANGED <<process, flag, watcher, files, commands, bounds>>

\* Seeded fault: the processor ends without a flush
ProcessorQuits(p) ==
    /\ process[p] \in Daemon /\ watcher[p] = "runs" /\ flag[p]
    /\ watcher' = [watcher EXCEPT ![p] = "ended"]
    /\ UNCHANGED <<process, flag, changes, files, commands, bounds>>

\* It notices the flag between two messages, and flushes what is pending
ProcessorEnds(p) ==
    /\ process[p] \in Daemon /\ watcher[p] = "runs" /\ flag[p]
    /\ changes' = [changes EXCEPT ![p] = "none"]
    /\ watcher' = [watcher EXCEPT ![p] = "ended"]
    /\ UNCHANGED <<process, flag, files, commands, bounds>>

Join(p) ==
    /\ watcher[p] = "ended"
    /\ Goto(p, "join", "rmsocket")
    /\ UNCHANGED <<files, flag, changes, watcher, commands, bounds>>

RemoveSocket(p) ==
    /\ Goto(p, "rmsocket", "rmpid")
    /\ socket' = None
    /\ UNCHANGED <<pidfile, flag, changes, watcher, commands, bounds>>

\* Ends by itself
RemovePid(p) ==
    /\ process[p] = "rmpid"
    /\ Ends(p)
    /\ pidfile' = None
    /\ UNCHANGED <<socket, commands, bounds>>

DaemonStep(p) ==
    \/ Unlink(p) \/ WritePid(p) \/ Bind(p)
    \/ ProcessorEnds(p) \/ Join(p) \/ RemoveSocket(p) \/ RemovePid(p)

---------------------------------------------------------------------------
(* Clients *)

\* What a connection to the socket does to the daemon: the accept loop looks
\* at the flag only when a connection comes, and then takes no more; a request
\* to shut down sets the flag for the next one
Connects(p, shutdown) ==
    IF flag[p]
    THEN /\ process' = [process EXCEPT ![p] = IF @ = "up" THEN "join" ELSE @]
         /\ UNCHANGED flag
    ELSE /\ flag' = [flag EXCEPT ![p] = shutdown]
         /\ UNCHANGED process

\* The extension's stopDaemon (TRUE), or a search (FALSE)
ClientConnects(shutdown) ==
    /\ socket # None /\ Listens(socket)
    /\ Connects(socket, shutdown)
    /\ UNCHANGED <<changes, watcher, files, commands, bounds>>

---------------------------------------------------------------------------
(* The commands *)

At(step) == command = step

\* `fxi daemon start`
Start ==
    /\ At("idle") /\ command' = "start"
    /\ UNCHANGED <<target, daemon, files, bounds>>

StartCheck ==
    /\ At("start")
    /\ command' = IF Running THEN "idle" ELSE "fork"
    /\ UNCHANGED <<target, daemon, files, bounds>>

Fork ==
    /\ At("fork") /\ command' = "wait"
    /\ \E p \in Pids :
           /\ ~Alive(p)
           /\ target' = p
           /\ process' = [process EXCEPT ![p] = "unlink"]
           /\ changes' = [changes EXCEPT ![p] = "none"]
           /\ watcher' = [watcher EXCEPT ![p] = "ended"]
    /\ UNCHANGED <<flag, files, bounds>>

StartEnds ==
    /\ At("wait")
    /\ process[target] \notin Starting
    /\ command' = "idle" /\ target' = None
    /\ UNCHANGED <<daemon, files, bounds>>

\* `fxi daemon stop`
Stop ==
    /\ At("idle") /\ command' = "stop"
    /\ UNCHANGED <<target, daemon, files, bounds>>

StopCheck ==
    /\ At("stop")
    /\ command' = IF Running THEN "ask" ELSE "idle"
    /\ UNCHANGED <<target, daemon, files, bounds>>

\* Asked to shut down, the daemon has half a second
AskShutdown ==
    /\ At("ask") /\ command' = "check"
    /\ IF socket # None /\ Listens(socket)
       THEN Connects(socket, TRUE)
       ELSE UNCHANGED <<process, flag>>
    /\ UNCHANGED <<target, changes, watcher, files, bounds>>

\* Seeded fault: the daemon is trusted to end when it was asked to
CheckTrusting ==
    /\ At("check")
    /\ command' = "idle"
    /\ UNCHANGED <<target, daemon, files, bounds>>

CheckStopped ==
    /\ At("check")
    /\ command' = IF Running THEN "read" ELSE "idle"
    /\ UNCHANGED <<target, daemon, files, bounds>>

\* stop_daemon
ReadPid ==
    /\ At("read")
    /\ IF pidfile = None
       THEN command' = "idle" /\ UNCHANGED target
       ELSE command' = "term" /\ target' = pidfile
    /\ UNCHANGED <<daemon, files, bounds>>

\* Seeded fault: the signal is sent and not waited for
TermLater ==
    /\ At("term") /\ command' = "rmsocket"
    /\ UNCHANGED <<target, daemon, files, bounds>>

\* SIGTERM ends whatever runs under that id: the daemon does not handle it
Term ==
    /\ At("term") /\ command' = "rmsocket"
    /\ IF Alive(target) THEN Ends(target) ELSE UNCHANGED daemon
    /\ UNCHANGED <<target, files, bounds>>

CommandRemovesSocket ==
    /\ At("rmsocket") /\ command' = "rmpid"
    /\ socket' = None
    /\ UNCHANGED <<target, pidfile, daemon, bounds>>

CommandRemovesPid ==
    /\ At("rmpid") /\ command' = "idle"
    /\ pidfile' = None /\ target' = None
    /\ UNCHANGED <<socket, daemon, bounds>>

CommandStep ==
    \/ StartCheck \/ Fork \/ StartEnds
    \/ StopCheck \/ AskShutdown \/ CheckStopped \/ ReadPid \/ Term
    \/ CommandRemovesSocket \/ CommandRemovesPid

---------------------------------------------------------------------------
(* The rest of the machine *)

Kill(p) ==
    /\ kills < MaxKills /\ kills' = kills + 1
    /\ process[p] \in Daemon
    /\ Ends(p)
    /\ UNCHANGED <<files, commands, reused>>

\* Another program gets the process id
Reuse(p) ==
    /\ reused < MaxReuse /\ reused' = reused + 1
    /\ ~Alive(p)
    /\ process' = [process EXCEPT ![p] = "foreign"]
    /\ UNCHANGED <<flag, changes, watcher, files, commands, kills>>

ForeignEnds(p) ==
    /\ Goto(p, "foreign", "none")
    /\ UNCHANGED <<flag, changes, watcher, files, commands, bounds>>

---------------------------------------------------------------------------
(* Specification *)

Init ==
    /\ process = [p \in Pids |-> "none"]
    /\ flag = [p \in Pids |-> FALSE]
    /\ changes = [p \in Pids |-> "none"]
    /\ watcher = [p \in Pids |-> "ended"]
    /\ socket = None /\ pidfile = None
    /\ command = "idle" /\ target = None
    /\ kills = 0 /\ reused = 0

Next ==
    \/ \E p \in Pids : DaemonStep(p) \/ Change(p) \/ Flush(p)
    \/ \E shutdown \in BOOLEAN : ClientConnects(shutdown)
    \/ Start \/ Stop \/ CommandStep
    \/ \E p \in Pids : Kill(p) \/ Reuse(p) \/ ForeignEnds(p)

Spec == Init /\ [][Next]_vars

\* Threads and processes run; nobody has to type a command or to connect
Fairness ==
    /\ \A p \in Pids : WF_vars(DaemonStep(p))
    /\ WF_vars(CommandStep)

FairSpec == Spec /\ Fairness

---------------------------------------------------------------------------
(* Properties *)

\* A process has files and threads of its own kind only while it is a daemon.
TypeOK ==
    /\ process \in [Pids -> {"none", "foreign"} \cup Daemon]
    /\ flag \in [Pids -> BOOLEAN] /\ \A p \in Pids : flag[p] => Listens(p)
    /\ changes \in [Pids -> {"none", "some", "lost"}]
    /\ watcher \in [Pids -> {"runs", "ended"}]
    /\ socket \in Pids \cup {None} /\ pidfile \in Pids \cup {None}
    /\ target \in Pids \cup {None}
    /\ command \in {"idle", "start", "fork", "wait", "stop", "ask", "check", "read", "term",
                    "rmsocket", "rmpid"}
    /\ kills \in 0..MaxKills /\ reused \in 0..MaxReuse

Up(p) == process[p] = "up"

\* One daemon at a time, starting and leaving ones included, and while it is up
\* the socket and the PID file lead to it: no daemon is left that nobody can
\* reach or stop, whatever files crashed ones have left, and whichever of a
\* leaving daemon and a command removes them (daemon_unix.rs:38-119, 274-306).
OneDaemon ==
    /\ \A p, q \in Pids : process[p] \in Daemon /\ process[q] \in Daemon => p = q
    /\ \A p \in Pids : Up(p) => socket = p /\ pidfile = p

\* A daemon that ends by itself, being asked to, has lost no change that it had
\* taken up (daemon_core.rs:221-225, daemon_unix.rs:116).
NothingLostByExit ==
    [][\A p \in Pids : (process[p] = "rmpid" /\ kills' = kills /\ ~At("term"))
                           => (changes'[p] = "lost" => changes[p] = "lost")]_vars

\* `fxi daemon stop` ends the daemon, however far that had got on its own way
\* out, and although the accept loop does not notice the request (main.rs:308-327).
StopStops ==
    \A p \in Pids : (At("stop") /\ process[p] \in Daemon) ~> (process[p] \notin Daemon)

\* `fxi daemon start` leads to a daemon that can be reached, whatever a crash has
\* left behind, unless that daemon is killed in turn or another program takes the
\* process id that a stale PID file names (main.rs:280-305).
StartServes ==
    \A k \in 0..MaxKills, r \in 0..MaxReuse :
        (At("start") /\ ~Running /\ kills = k /\ reused = r)
            ~> (kills > k \/ reused > r \/ \E p \in Pids : Up(p) /\ socket = p)
=============================================================================
