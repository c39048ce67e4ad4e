----------------------------- MODULE TuiClient -----------------------------
(***************************************************************************)
(* The terminal UI as a client of the daemon (DaemonServer): the App's     *)
(* query, results and search cache, one background thread per search, and  *)
(* the IndexClient they share behind a mutex.  The connection is made when *)
(* the UI starts and never again.                                          *)
(*                                                                         *)
(* A query is a model value; an answer is the query it is of and the       *)
(* version of the index it was computed on.                                *)
(***************************************************************************)
EXTENDS DaemonServer

CONSTANTS Socket,      \* the connection
          Queries,
          None,        \* the empty query, no results, an error
          Reload,      \* Request::Reload and its response
          MaxKeys      \* bound: times Enter or F5 is pressed

VARIABLES
    query, results, cache, \* the App's; results is an answer or None
    search,   \* search_state: the thread whose receiver is held, or None
    main,     \* the event loop: about to poll or waiting, or where F5 is
    thread,   \* the search threads
    sent,     \* request_counter
    version,  \* index versions built by F5
    loaded,   \* the version the daemon serves
    pressed,  \* times Enter or F5 was pressed
    spoiled,  \* history: a response has been sent that no one awaits
    refused,  \* history: a reload has been answered with an error
    overtaken \* history: F5 has ended while a thread had an answer in hand

app == <<query, results, cache, search, main, version, pressed>>
clientVars == <<app, thread, sent>>
history == <<spoiled, refused, overtaken>>
vars == <<serverVars, clientVars, loaded, history>>

Threads == 1 .. MaxKeys
Answered == [of : Queries, at : 0 .. MaxKeys]
Requests == [id : Nat, ask : Queries \cup {Reload}]
Responses == [id : Nat \cup {NoId}, body : Answered \cup {Reload, Refused}]

ASSUME TuiAssumption ==
    /\ Sockets = {Socket} /\ None \notin Queries /\ Reload \notin Queries
    /\ Answered \cap {None, Reload, Refused} = {} /\ Refused # Reload
    /\ None \notin Threads
    /\ MaxKeys \in Nat

---------------------------------------------------------------------------
(* IndexClient *)

\* Seeded fault: the client is used without its mutex
CanLockShared == TRUE

\* The mutex is held from the write to the read
CanLock == main # "awaiting" /\ \A i \in Threads : thread[i].stage # "awaiting"

Lost == conn[Socket].state = "closed"

\* write_message_with_id, on a connection that still is one
Write(ask) ==
    /\ conn' = [conn EXCEPT ![Socket].requests = Append(@, [id |-> sent, ask |-> ask])]
    /\ sent' = sent + 1

\* read_message_with_id takes the next response, whichever request it is to
Response == Head(conn[Socket].responses)
Arrived  == conn[Socket].responses # <<>>
Take     == conn' = [conn EXCEPT ![Socket].responses = Tail(@)]

\* Seeded fault: the client waits for ever
TimesOutNever == FALSE

\* Its read times out: counted, but for a connection nothing is written to
TimesOut ==
    /\ conn[Socket].responses = <<>> /\ ~Lost
    /\ IF conn[Socket].writing THEN Timeout ELSE UNCHANGED timeouts

\* search: an error, or a response to something else, has no matches
Matches(body) == IF body \in Answered THEN body ELSE None

---------------------------------------------------------------------------
(* A search thread (execute_search) *)

Stage(i, stage, result) ==
    thread' = [thread EXCEPT ![i].stage = stage,
                             ![i].result = IF search = i THEN result ELSE None]

\* It takes the mutex and writes its request
Ask(i) ==
    /\ thread[i].stage = "starting" /\ CanLock
    /\ IF Lost THEN Stage(i, "delivering", None) /\ UNCHANGED <<conn, sent>>
       ELSE Stage(i, "awaiting", None) /\ Write(thread[i].query)
    /\ UNCHANGED <<daemon, timeouts, app, loaded, history>>

\* It reads a response, the end of the connection, or nothing in time, and the
\* mutex is released
Await(i) ==
    /\ thread[i].stage = "awaiting"
    /\ \/ Arrived /\ Take /\ Stage(i, "delivering", Matches(Response.body))
          /\ UNCHANGED <<timeouts, spoiled>>
       \/ AtEnd(Socket) /\ Stage(i, "delivering", None) /\ UNCHANGED <<conn, timeouts, spoiled>>
       \/ TimesOut /\ Stage(i, "delivering", None) /\ spoiled' = TRUE /\ UNCHANGED conn
    /\ UNCHANGED <<daemon, app, sent, loaded, refused, overtaken>>

\* It sends what it has to the receiver, if that is still held
Deliver(i) ==
    /\ thread[i].stage = "delivering"
    /\ Stage(i, "done", thread[i].result)
    /\ UNCHANGED <<serverVars, app, sent, loaded, history>>

---------------------------------------------------------------------------
(* The App, one turn of the event loop at a time *)

\* execute_search: from the cache, leaving a search under way where it is, or
\* by a new thread whose result is the only one that will be looked at
ExecuteSearch ==
    \/ /\ query = None
       /\ results' = None /\ search' = None
       /\ UNCHANGED thread
    \/ /\ query # None /\ cache[query] # None
       /\ results' = cache[query]
       /\ UNCHANGED <<search, thread>>
    \/ /\ query # None /\ cache[query] = None
       /\ results' = None
       /\ \E i \in Threads :
             /\ \A j \in Threads : thread[j].stage = "none" <=> j >= i
             /\ search' = i
             /\ thread' = [thread EXCEPT ![i] =
                              [query |-> query, stage |-> "starting", result |-> None]]

\* A key, or nothing for a while: the loop starts over
Event == main = "waiting" /\ main' = "polling"

Tick ==
    /\ Event
    /\ UNCHANGED <<serverVars, query, results, cache, search, version, pressed,
                   thread, sent, loaded, history>>

\* Characters are typed or deleted
Edit(q) ==
    /\ Event /\ query # q /\ query' = q
    /\ UNCHANGED <<serverVars, results, cache, search, version, pressed,
                   thread, sent, loaded, history>>

\* Esc
ClearQuery ==
    /\ Event /\ query # None
    /\ query' = None /\ results' = None
    /\ UNCHANGED <<serverVars, cache, search, version, pressed,
                   thread, sent, loaded, history>>

Enter ==
    /\ Event /\ pressed < MaxKeys
    /\ pressed' = pressed + 1
    /\ ExecuteSearch
    /\ UNCHANGED <<serverVars, query, cache, version, sent, loaded, history>>

\* Seeded fault: what a thread found is shown whatever the query is by now
AppliesAlways(i) == TRUE

Applies(i) == thread[i].query = query

Found == search # None /\ thread[search].stage = "done"

\* poll_search.  Queries are fewer than the 64 the cache holds.
PollSearch ==
    /\ main = "polling" /\ main' = "waiting"
    /\ search' = IF Found THEN None ELSE search
    /\ IF Found /\ Applies(search)
       THEN LET found == thread[search].result
                q == thread[search].query
            IN  /\ results' = found
                /\ cache' = IF found = None THEN cache ELSE [cache EXCEPT ![q] = found]
       ELSE UNCHANGED <<results, cache>>
    /\ UNCHANGED <<serverVars, query, version, pressed, thread, sent, loaded, history>>

\* Seeded fault: the cache outlives the index it was filled from
ReindexKeepsCache ==
    /\ main = "waiting" /\ pressed < MaxKeys
    /\ pressed' = pressed + 1
    /\ main' = "building"
    /\ UNCHANGED <<serverVars, cache, query, results, search, version, thread, sent,
                   loaded, history>>

\* F5 (reindex): the event loop waits until it is over
Reindex ==
    /\ main = "waiting" /\ pressed < MaxKeys
    /\ pressed' = pressed + 1
    /\ cache' = [q \in Queries |-> None]
    /\ main' = "building"
    /\ UNCHANGED <<serverVars, query, results, search, version, thread, sent,
                   loaded, history>>

\* The build succeeds or fails
Build ==
    /\ main = "building"
    /\ \/ version' = version + 1 /\ main' = "reloading"
       \/ main' = "polling" /\ UNCHANGED version
    /\ UNCHANGED <<serverVars, query, results, cache, search, pressed, thread, sent,
                   loaded, history>>

\* The receiver is still held of a thread that has an answer to deliver
InHand == search # None /\ thread[search].stage = "delivering" /\ thread[search].result # None

\* Whatever came of the reload, the query is run again.  With none in the line
\* a search under way is left where it is.
RunAgain ==
    /\ main' = "polling"
    /\ IF query = None THEN UNCHANGED <<results, search, thread>> ELSE ExecuteSearch
    /\ overtaken' = (overtaken \/ (query = None /\ InHand))

\* client.reload takes the mutex and writes its request
SendReload ==
    /\ main = "reloading" /\ CanLock
    /\ IF Lost THEN RunAgain /\ UNCHANGED <<conn, sent>>
       ELSE /\ main' = "awaiting" /\ Write(Reload)
            /\ UNCHANGED <<results, search, thread, overtaken>>
    /\ UNCHANGED <<daemon, timeouts, query, cache, version, pressed, loaded, spoiled, refused>>

AwaitReload ==
    /\ main = "awaiting" /\ RunAgain
    /\ \/ Arrived /\ Take /\ refused' = (refused \/ Response.body = Refused)
          /\ UNCHANGED <<timeouts, spoiled>>
       \/ AtEnd(Socket) /\ UNCHANGED <<conn, timeouts, spoiled, refused>>
       \/ TimesOut /\ spoiled' = TRUE /\ UNCHANGED <<conn, refused>>
    /\ UNCHANGED <<daemon, query, cache, version, pressed, sent, loaded>>

---------------------------------------------------------------------------
(* The daemon's side *)

\* A search is answered from the index the daemon serves; a reload serves
\* what is on disk
HandleRequest(r) ==
    IF r.ask = Reload
    THEN Answer(Socket, r, Reload) /\ loaded' = version
    ELSE Answer(Socket, r, [of |-> r.ask, at |-> loaded]) /\ UNCHANGED loaded

Handlers == (\E r \in conn[Socket].running : HandleRequest(r)) /\ UNCHANGED <<clientVars, history>>

Serving == Serve(Socket) /\ UNCHANGED <<clientVars, loaded, history>>

\* A request that does not come in time is answered, too
IdleTimeout ==
    /\ ReadTimeout(Socket)
    /\ spoiled' = TRUE
    /\ UNCHANGED <<clientVars, loaded, refused, overtaken>>

StuckWriter == WriteTimeout(Socket) /\ UNCHANGED <<clientVars, loaded, history>>

Killed == Exit /\ UNCHANGED <<clientVars, loaded, history>>

---------------------------------------------------------------------------

\* App::new connected, and has had a Pong
Init ==
    /\ daemon = "up" /\ timeouts = 0
    /\ conn = [c \in Sockets |-> [Unused EXCEPT !.state = "reading"]]
    /\ query = None /\ results = None /\ cache = [q \in Queries |-> None]
    /\ search = None /\ main = "polling"
    /\ thread = [i \in Threads |-> [query |-> None, stage |-> "none", result |-> None]]
    /\ sent = 1 /\ version = 0 /\ loaded = 0
    /\ pressed = 0 /\ spoiled = FALSE /\ refused = FALSE /\ overtaken = FALSE

Next ==
    \/ \E q \in Queries \cup {None} : Edit(q)
    \/ PollSearch \/ Tick \/ ClearQuery \/ Enter
    \/ Reindex \/ Build \/ SendReload \/ AwaitReload
    \/ \E i \in Threads : Ask(i) \/ Await(i) \/ Deliver(i)
    \/ Handlers \/ Serving \/ IdleTimeout \/ StuckWriter \/ Killed

Spec == Init /\ [][Next]_vars

\* The threads of both processes run, and a read that nothing will ever come
\* to times out.  The user need not do anything.
Fairness ==
    /\ WF_vars(PollSearch) /\ WF_vars(Tick)
    /\ WF_vars(Build) /\ WF_vars(SendReload) /\ WF_vars(AwaitReload)
    /\ \A i \in Threads : WF_vars(Ask(i)) /\ WF_vars(Await(i)) /\ WF_vars(Deliver(i))
    /\ WF_vars(Serving) /\ WF_vars(Handlers)

FairSpec == Spec /\ Fairness

---------------------------------------------------------------------------
(* Properties *)

\* Every variable has its type.
TypeOK ==
    /\ ServerTypeOK(Requests, Responses)
    /\ query \in Queries \cup {None} /\ results \in Answered \cup {None}
    /\ cache \in [Queries -> Answered \cup {None}]
    /\ search \in Threads \cup {None}
    /\ main \in {"polling", "waiting", "building", "reloading", "awaiting"}
    /\ thread \in [Threads -> [query : Queries \cup {None},
                               stage : {"none", "starting", "awaiting", "delivering", "done"},
                               result : Answered \cup {None}]]
    /\ sent \in Nat /\ version \in 0 .. MaxKeys /\ loaded \in 0 .. MaxKeys
    /\ pressed \in 0 .. MaxKeys /\ spoiled \in BOOLEAN /\ refused \in BOOLEAN
    /\ overtaken \in BOOLEAN

\* What the cache holds for a query was found for that query.
CacheIsOwn == \A q \in Queries : cache[q] # None => cache[q].of = q

\* ... as long as every response was awaited: through concurrent searches that
\* overtake each other, F5 and the loss of the daemon.
AwaitedCacheIsOwn == spoiled \/ CacheIsOwn

\* Nothing of an older index is cached, while the daemon does what it is asked
CacheIsCurrent ==
    (~spoiled /\ ~refused /\ main \in {"polling", "waiting"}) =>
        \A q \in Queries : cache[q] # None => cache[q].at = version

\* F5 clears the cache before the index is rebuilt: no search that was under
\* way then brings results of the old index back.  Two cases are left out.  A
\* daemon that refuses the reload goes on answering from the old index, and the
\* UI takes no notice.  And a thread gives the client up before it sends its
\* result: after Esc and F5 an answer of the old index may still be in hand, and
\* is cached when the same query is typed again before it is sent.
CacheIsFresh == ~overtaken => CacheIsCurrent

\* Results appear only for the query that is in the line at that moment.
ShownIsAsked ==
    [][(~spoiled /\ results' # results /\ results' # None) => results'.of = query']_vars

\* A search comes to an end, also when the daemon is killed, is late or has
\* given up writing.
SearchSettles == \A i \in Threads : (search = i) ~> (search # i)

\* ---- What a comment says and the code does not do ----

\* "Clear caches on reindex" (app.rs:572): once F5 is over, and the daemon has
\* done what it was asked to, what the cache holds is of the index that F5 built.
ReindexClearsCache == CacheIsCurrent
=============================================================================
