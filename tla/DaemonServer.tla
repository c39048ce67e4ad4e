---------------------------- MODULE DaemonServer ----------------------------
(***************************************************************************)
(* The daemon's socket: the accept loop and, for each connection, the      *)
(* reader loop, one handler thread per request and the writer thread that  *)
(* share a response channel.  A client is a module of its own that appends *)
(* to a connection's requests and takes from its responses.                *)
(*                                                                         *)
(* Frames arrive whole.  A request is an id and what it asks; a response   *)
(* is an id, or none, and a body.                                          *)
(***************************************************************************)
EXTENDS Naturals, Sequences, FiniteSets

CONSTANTS Sockets,      \* connections, reused once both ends are closed
          NoId,         \* a response without request_id
          Refused,      \* Response::Error
          Shutdown,     \* asks the daemon to stop
          MaxPipelined, \* requests handled at once on one connection
          MaxTimeouts   \* bound: read and write timeouts (30 s) of the daemon

ASSUME ServerAssumption ==
    /\ IsFiniteSet(Sockets)
    /\ MaxPipelined \in Nat \ {0} /\ MaxTimeouts \in Nat

VARIABLES
    daemon,   \* the process: up, stopping (shutdown is set), leaving or down
    conn,     \* the daemon's side of each connection
    timeouts  \* timeouts so far

serverVars == <<daemon, conn, timeouts>>

\* A connection: the reader loop's state, requests the client has sent and
\* whether it has closed, handlers (running, or answered and not yet counted
\* out), the response channel, the writer thread, and responses on their way
Unused == [state |-> "none", requests |-> <<>>, hungup |-> FALSE,
           running |-> {}, answered |-> {}, outbox |-> <<>>,
           writing |-> TRUE, responses |-> <<>>]

Listening == daemon # "down"

\* connect(2) succeeds before the accept
Queued(c) == conn' = [conn EXCEPT ![c] = [Unused EXCEPT !.state = "queued"]]

\* The client's ends of cs are closed: what it has not read is gone
HungUp(cs) ==
    conn' = [c \in Sockets |->
                IF c \notin cs THEN conn[c]
                ELSE IF conn[c].state \in {"none", "closed"} THEN Unused
                ELSE [conn[c] EXCEPT !.hungup = TRUE, !.responses = <<>>]]

\* The daemon's end is closed: what it has not read or sent is gone
Shut(k) ==
    IF k.hungup \/ k.state = "none" THEN Unused
    ELSE [Unused EXCEPT !.state = "closed", !.responses = k.responses]

\* The client reads end of file, or a reset
AtEnd(c) == conn[c].state = "closed" /\ conn[c].responses = <<>>

---------------------------------------------------------------------------
(* The accept loop (run) *)

\* The shutdown flag is looked at when a connection arrives, which is then
\* dropped; so is one that would exceed the limit, with other clients'
Accept(c) ==
    /\ conn[c].state = "queued"
    /\ \/ /\ daemon = "up"
          /\ \/ conn' = [conn EXCEPT ![c].state = "reading"]
             \/ conn' = [conn EXCEPT ![c] = Shut(@)]
          /\ UNCHANGED daemon
       \/ /\ daemon = "stopping"
          /\ conn' = [conn EXCEPT ![c] = Shut(@)]
          /\ daemon' = "leaving"
    /\ UNCHANGED timeouts

\* The process ends after a shutdown, or is killed
Exit ==
    /\ daemon # "down"
    /\ daemon' = "down"
    /\ conn' = [c \in Sockets |-> Shut(conn[c])]
    /\ UNCHANGED timeouts

Start ==
    /\ daemon = "down" /\ daemon' = "up"
    /\ UNCHANGED <<conn, timeouts>>

---------------------------------------------------------------------------
(* One connection (handle_connection) *)

\* tx.send: ignored once the writer has gone
Sent(k, response) ==
    IF k.writing THEN [k EXCEPT !.outbox = Append(@, response)] ELSE k

Busy(k) == Cardinality(k.running) + Cardinality(k.answered) >= MaxPipelined

\* A request past the limit is refused; nothing is read after a Shutdown
Read(c) ==
    LET k == conn[c]
        r == Head(k.requests)
        rest == [k EXCEPT !.requests = Tail(@)]
    IN  /\ k.state = "reading" /\ k.requests # <<>>
        /\ conn' = [conn EXCEPT ![c] =
              IF Busy(k) THEN Sent(rest, [id |-> r.id, body |-> Refused])
              ELSE [rest EXCEPT !.running = @ \cup {r},
                       !.state = IF r.ask = Shutdown THEN "draining" ELSE @]]
        /\ UNCHANGED <<daemon, timeouts>>

Timeout == timeouts < MaxTimeouts /\ timeouts' = timeouts + 1

\* A read that times out is an invalid request
ReadTimeout(c) ==
    /\ conn[c].state = "reading" /\ conn[c].requests = <<>> /\ ~conn[c].hungup
    /\ Timeout
    /\ conn' = [conn EXCEPT ![c] = Sent(@, [id |-> NoId, body |-> Refused])]
    /\ UNCHANGED daemon

EndOfFile(c) ==
    /\ conn[c].state = "reading" /\ conn[c].requests = <<>> /\ conn[c].hungup
    /\ conn' = [conn EXCEPT ![c].state = "draining"]
    /\ UNCHANGED <<daemon, timeouts>>

\* The handler thread of r sends what handle_request returned
Answer(c, r, body) ==
    /\ r \in conn[c].running
    /\ LET done == [conn[c] EXCEPT !.running = @ \ {r}, !.answered = @ \cup {r}]
       IN  conn' = [conn EXCEPT ![c] = Sent(done, [id |-> r.id, body |-> body])]
    /\ daemon' = IF r.ask = Shutdown /\ daemon = "up" THEN "stopping" ELSE daemon
    /\ UNCHANGED timeouts

\* ... and is counted out
Retire(c, r) ==
    /\ r \in conn[c].answered
    /\ conn' = [conn EXCEPT ![c].answered = @ \ {r}]
    /\ UNCHANGED <<daemon, timeouts>>

WriterGone(c) == conn' = [conn EXCEPT ![c].writing = FALSE, ![c].outbox = <<>>]

\* The writer ends when the client has closed
WriteOut(c) ==
    /\ conn[c].writing /\ conn[c].outbox # <<>>
    /\ IF conn[c].hungup THEN WriterGone(c)
       ELSE conn' = [conn EXCEPT ![c].responses = Append(@, Head(conn[c].outbox)),
                                 ![c].outbox = Tail(@)]
    /\ UNCHANGED <<daemon, timeouts>>

\* ... or does not read for 30 s; the reader loop goes on without it
WriteTimeout(c) ==
    /\ conn[c].writing /\ conn[c].outbox # <<>>
    /\ Timeout
    /\ WriterGone(c)
    /\ UNCHANGED daemon

\* The scope is left when the handlers and the writer are done
Close(c) ==
    /\ conn[c].state = "draining"
    /\ conn[c].running = {} /\ conn[c].answered = {} /\ conn[c].outbox = <<>>
    /\ conn' = [conn EXCEPT ![c] = Shut(@)]
    /\ UNCHANGED <<daemon, timeouts>>

---------------------------------------------------------------------------

\* Steps of a connection's threads, but for the handlers' answers
Serve(c) ==
    \/ Accept(c) \/ Read(c) \/ EndOfFile(c) \/ WriteOut(c) \/ Close(c)
    \/ \E r \in conn[c].answered : Retire(c, r)

Timing(c) == ReadTimeout(c) \/ WriteTimeout(c)

ServerInit ==
    /\ daemon = "up" /\ timeouts = 0
    /\ conn = [c \in Sockets |-> Unused]

ServerTypeOK(Requests, Responses) ==
    /\ daemon \in {"up", "stopping", "leaving", "down"}
    /\ timeouts \in Nat
    /\ conn \in [Sockets ->
          [state : {"none", "queued", "reading", "draining", "closed"},
           requests : Seq(Requests), hungup : BOOLEAN,
           running : SUBSET Requests, answered : SUBSET Requests,
           outbox : Seq(Responses), writing : BOOLEAN, responses : Seq(Responses)]]
=============================================================================
