-------------------------- MODULE ExtensionClient --------------------------
(***************************************************************************)
(* The VS Code extension's client of the daemon: one logical connection    *)
(* that is re-established for ever, requests correlated with responses by  *)
(* request_id, or in sending order when a response has none, and the       *)
(* daemon it talks to (DaemonServer).                                      *)
(*                                                                         *)
(* Every action is one turn of the extension host's event loop.            *)
(***************************************************************************)
EXTENDS DaemonServer, SequencesExt

CONSTANTS None,        \* no socket
          MaxRequests, \* bound: requests the extension makes
          Restarts,    \* the daemon may be killed and started again
          Disposes     \* the extension may be deactivated

ASSUME ClientAssumption ==
    /\ None \notin Sockets
    /\ MaxRequests \in Nat /\ Restarts \in BOOLEAN /\ Disposes \in BOOLEAN
    /\ NoId \notin Nat /\ Refused \notin Nat

VARIABLES
    end,      \* each net.Socket: unused, connecting or open (listened to)
    socket,   \* this.socket; connected means it is not null
    pending,  \* keys of pendingById
    queue,    \* legacyQueue
    counter,  \* requestCounter
    timer,    \* reconnectTimer is set
    disposed,
    outcome   \* what became of each request's promise

clientVars == <<end, socket, pending, queue, counter, timer, disposed, outcome>>
vars == <<serverVars, clientVars>>

Ids == 0 .. MaxRequests - 1
Asks == {"search", Shutdown}
Requests == [id : Ids, ask : Asks]

\* The response to request i is answered with is i itself
Responses == [id : Ids \cup {NoId}, body : Ids \cup {Refused}]

Outcome(what, of) == [is |-> what, of |-> of]
Waiting  == Outcome("waiting", NoId)
Rejected == Outcome("rejected", NoId)

Connected == socket # None

---------------------------------------------------------------------------

\* Sockets of connect() calls that are under way
Attempts == {c \in Sockets : end[c] = "connecting"}

\* connect: each call makes a socket, unless one is connected already
Connecting ==
    IF disposed \/ Connected THEN UNCHANGED end
    ELSE \E c \in Sockets :
            /\ end[c] = "unused" /\ conn[c] = Unused
            /\ end' = [end EXCEPT ![c] = "connecting"]

\* The startDaemon command
Connect ==
    /\ Connecting
    /\ UNCHANGED <<serverVars, socket, pending, queue, counter, timer, disposed, outcome>>

\* The "connect" event.  A socket that connected before is left open.
OnConnect(c) ==
    /\ end[c] = "connecting" /\ Listening
    /\ end' = [end EXCEPT ![c] = "open"]
    /\ socket' = c
    /\ Queued(c)
    /\ UNCHANGED <<daemon, timeouts, pending, queue, counter, timer, disposed, outcome>>

RejectAll == outcome' = [i \in Ids |-> IF i \in pending THEN Rejected ELSE outcome[i]]

\* scheduleReconnect's timer fires
Reconnect ==
    /\ timer /\ timer' = FALSE
    /\ Connecting
    /\ UNCHANGED <<serverVars, socket, pending, queue, counter, disposed, outcome>>

\* Seeded fault: what is pending is left pending
HandleDisconnectForgets(c) ==
    LET gone == {c} \cup (IF Connected THEN {socket} ELSE {})
    IN  /\ end' = [d \in Sockets |-> IF d \in gone THEN "unused" ELSE end[d]]
        /\ HungUp(gone)
        /\ socket' = None
        /\ timer' = (timer \/ ~disposed)
        /\ UNCHANGED <<daemon, timeouts, counter, disposed, pending, queue, outcome>>

\* Seeded fault: only the loss of a connection schedules another attempt
HandleDisconnectOnce(c) ==
    LET gone == {c} \cup (IF Connected THEN {socket} ELSE {})
    IN  /\ end' = [d \in Sockets |-> IF d \in gone THEN "unused" ELSE end[d]]
        /\ HungUp(gone)
        /\ socket' = None
        /\ RejectAll /\ pending' = {} /\ queue' = <<>>
        /\ timer' = (timer \/ (Connected /\ ~disposed))
        /\ UNCHANGED <<daemon, timeouts, counter, disposed>>

\* handleDisconnect, for an event of socket c: whichever socket is this.socket
\* is destroyed, and everything pending is rejected
HandleDisconnect(c) ==
    LET gone == {c} \cup (IF Connected THEN {socket} ELSE {})
    IN  /\ end' = [d \in Sockets |-> IF d \in gone THEN "unused" ELSE end[d]]
        /\ HungUp(gone)
        /\ socket' = None
        /\ RejectAll /\ pending' = {} /\ queue' = <<>>
        /\ timer' = (timer \/ ~disposed)
        /\ UNCHANGED <<daemon, timeouts, counter, disposed>>

\* The "error" or "timeout" event of a socket that does not connect
OnError(c) == end[c] = "connecting" /\ ~Listening /\ HandleDisconnect(c)

\* The "close" event
OnClose(c) == end[c] = "open" /\ AtEnd(c) /\ HandleDisconnect(c)

---------------------------------------------------------------------------
(* Requests and responses *)

\* indexOf and splice
Without(q, i) == RemoveFirst(q, i)

Settled(i, result) ==
    /\ pending' = pending \ {i}
    /\ queue' = Without(queue, i)
    /\ outcome' = [outcome EXCEPT ![i] = result]

\* sendRaw.  What is written to a connection the daemon has closed is lost.
Send(ask) ==
    /\ Connected /\ counter < MaxRequests
    /\ counter' = counter + 1
    /\ pending' = pending \cup {counter}
    /\ queue' = Append(queue, counter)
    /\ outcome' = [outcome EXCEPT ![counter] = Waiting]
    /\ conn' = [conn EXCEPT ![socket].requests =
                   IF conn[socket].state = "closed" THEN @
                   ELSE Append(@, [id |-> counter, ask |-> ask])]
    /\ UNCHANGED <<daemon, timeouts, end, socket, timer, disposed>>

\* Seeded fault: a request that failed stays in the queue
GiveUpQueued(i) ==
    /\ i \in pending
    /\ pending' = pending \ {i}
    /\ outcome' = [outcome EXCEPT ![i] = Rejected]
    /\ UNCHANGED <<serverVars, end, socket, queue, counter, timer, disposed>>

\* The request's timer fires, or its write fails
GiveUp(i) ==
    /\ i \in pending
    /\ Settled(i, Rejected)
    /\ UNCHANGED <<serverVars, end, socket, counter, timer, disposed>>

\* search, contentSearch: an Error response is thrown
Resolved(body) == IF body = Refused THEN Outcome("error", NoId) ELSE Outcome("answer", body)

\* Seeded fault: a response nobody waits for goes to the oldest request
HandleResponseFifo(r) ==
    IF r.id \in pending THEN Settled(r.id, Resolved(r.body))
    ELSE IF queue # <<>> THEN Settled(Head(queue), Resolved(r.body))
    ELSE UNCHANGED <<pending, queue, outcome>>

\* handleResponse: by id; a response whose id is not pending is dropped; one
\* without an id goes to the oldest request
HandleResponse(r) ==
    IF r.id \in pending THEN Settled(r.id, Resolved(r.body))
    ELSE IF r.id = NoId /\ queue # <<>> THEN Settled(Head(queue), Resolved(r.body))
    ELSE UNCHANGED <<pending, queue, outcome>>

\* The "data" event
OnData(c) ==
    /\ end[c] = "open" /\ conn[c].responses # <<>>
    /\ HandleResponse(Head(conn[c].responses))
    /\ conn' = [conn EXCEPT ![c].responses = Tail(@)]
    /\ UNCHANGED <<daemon, timeouts, end, socket, counter, timer, disposed>>

\* dispose.  A socket that is still connecting is not known to it.
Dispose ==
    /\ Disposes /\ ~disposed
    /\ disposed' = TRUE /\ timer' = FALSE
    /\ RejectAll /\ pending' = {} /\ queue' = <<>>
    /\ IF Connected
       THEN end' = [end EXCEPT ![socket] = "unused"] /\ HungUp({socket})
       ELSE UNCHANGED <<end, conn>>
    /\ socket' = None
    /\ UNCHANGED <<daemon, timeouts, counter>>

---------------------------------------------------------------------------

\* activate calls connect
Init ==
    /\ ServerInit
    /\ \E c \in Sockets : end = [d \in Sockets |-> IF d = c THEN "connecting" ELSE "unused"]
    /\ socket = None /\ pending = {} /\ queue = <<>> /\ counter = 0
    /\ timer = FALSE /\ disposed = FALSE
    /\ outcome = [i \in Ids |-> Outcome("unsent", NoId)]

\* Events that come by themselves
Event(c) == OnConnect(c) \/ OnError(c) \/ OnClose(c) \/ OnData(c)

Answers(c) == \E r \in conn[c].running : Answer(c, r, r.id)

Next ==
    \/ Connect \/ Reconnect \/ Dispose
    \/ \E c \in Sockets : Event(c)
    \/ \E ask \in Asks : Send(ask)
    \/ \E i \in Ids : GiveUp(i)
    \/ \E c \in Sockets : (Serve(c) \/ Timing(c) \/ Answers(c)) /\ UNCHANGED clientVars
    \/ ((daemon = "leaving" \/ Restarts) /\ Exit) /\ UNCHANGED clientVars
    \/ (Restarts /\ Start) /\ UNCHANGED clientVars

Spec == Init /\ [][Next]_vars

\* The event loop and the daemon's threads run; a daemon on its way out
\* exits.  Nothing is assumed of the requests' timers.
Fairness ==
    /\ WF_vars(Reconnect)
    /\ \A c \in Sockets :
          /\ WF_vars(Event(c))
          /\ WF_vars(Serve(c) /\ UNCHANGED clientVars)
          /\ WF_vars(Answers(c) /\ UNCHANGED clientVars)
    /\ WF_vars(daemon = "leaving" /\ Exit /\ UNCHANGED clientVars)

FairSpec == Spec /\ Fairness

---------------------------------------------------------------------------
(* Properties *)

\* Every variable has its type.
TypeOK ==
    /\ ServerTypeOK(Requests, Responses)
    /\ end \in [Sockets -> {"unused", "connecting", "open"}]
    /\ socket \in Sockets \cup {None}
    /\ pending \subseteq Ids /\ queue \in Seq(Ids) /\ counter \in Nat
    /\ timer \in BOOLEAN /\ disposed \in BOOLEAN
    /\ outcome \in [Ids -> [is : {"unsent", "waiting", "rejected", "error", "answer"},
                            of : Ids \cup {NoId}]]

\* A request is answered with its own answer or with an error, never with
\* another request's answer: through timeouts, late and id-less responses,
\* reconnections and responses that arrive on a socket that was replaced.
OwnAnswer == \A i \in Ids : outcome[i].is = "answer" => outcome[i].of = i

\* The fallback queue is what is pending, in the order it was sent: an
\* id-less response never goes to a request that has been settled.
QueueIsPending ==
    /\ {queue[n] : n \in DOMAIN queue} = pending
    /\ \A m, n \in DOMAIN queue : m < n => queue[m] < queue[n]
    /\ \A i \in Ids : i \in pending <=> outcome[i] = Waiting

\* Until it is disposed of, a client that is not connected will try again.
KeepsTrying == disposed \/ Connected \/ timer \/ Attempts # {}

\* The daemon has given up writing to a client that is still there
Mute == \E c \in Sockets : ~conn[c].writing /\ ~conn[c].hungup

\* Every request is settled without its own timer, by its answer, by an error
\* or by the loss of the connection it was sent on: also when it was sent
\* while the daemon was stopping, or on a socket that has been replaced.  The
\* exception is a connection whose writer gave up on a write.
RequestsSettle == \A i \in Ids : (i \in pending) ~> (i \notin pending \/ Mute)
=============================================================================
