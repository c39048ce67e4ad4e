---------------------------- MODULE TuiClient_proofs ----------------------------
(***************************************************************************)
(* Proofs about TuiClient, for any set of queries, any number of key       *)
(* presses, handlers and timeouts: while every response is awaited, the UI *)
(* shows and caches for a query only what was found for it, and on the     *)
(* index that F5 built last, unless F5 ended with an answer in hand.       *)
(***************************************************************************)
EXTENDS TuiClient, SequenceTheorems, TLAPS

Link == conn[Socket]

Thread ==
    [query : Queries \cup {None},
     stage : {"none", "starting", "awaiting", "delivering", "done"},
     result : Answered \cup {None}]

Connection ==
    [state : {"none", "queued", "reading", "draining", "closed"},
     requests : Seq(Requests), hungup : BOOLEAN,
     running : SUBSET Requests, answered : SUBSET Requests,
     outbox : Seq(Responses), writing : BOOLEAN, responses : Seq(Responses)]

---------------------------------------------------------------------------
(* What holds whatever is awaited: the types, and how the parts of the UI  *)
(* stand to each other.                                                    *)

\* The connection of App::new is in use until the daemon's end is closed.
LinkInv ==
    /\ Link.state \in {"reading", "draining", "closed"} /\ ~Link.hungup
    /\ Link.state = "closed" =>
          Link.requests = <<>> /\ Link.running = {} /\ Link.outbox = <<>>

\* F5 is counted before it builds, and the daemon loads what was built.
VersionInv ==
    /\ version <= pressed /\ loaded <= version
    /\ main = "building" => version < pressed

\* A thread that has run has a query; one past the mutex may have a result.
ThreadInv ==
    /\ \A i \in Threads : thread[i].stage # "none" => thread[i].query # None
    /\ \A i \in Threads : thread[i].result # None => thread[i].stage \in {"delivering", "done"}

\* The mutex is held by one at most.
Mutex ==
    \A i \in Threads : thread[i].stage = "awaiting" =>
        /\ main # "awaiting"
        /\ \A j \in Threads : thread[j].stage = "awaiting" => i = j

\* The cache is empty from the beginning of F5 to its end.
Cleared == main \in {"building", "reloading", "awaiting"} => \A q \in Queries : cache[q] = None

BInv == TypeOK /\ LinkInv /\ VersionInv /\ ThreadInv /\ Mutex /\ Cleared

---------------------------------------------------------------------------
(* What holds while every response is awaited. *)

\* What the holder of the mutex has asked
Asked(ask) ==
    IF main = "awaiting" THEN ask = Reload
    ELSE \E i \in Threads : thread[i].stage = "awaiting" /\ thread[i].query = ask

\* A response to that
Owed(body) ==
    \/ body = Refused /\ ~CanLock
    \/ body = Reload /\ main = "awaiting" /\ loaded = version
    \/ main # "awaiting" /\ \E i \in Threads :
          thread[i].stage = "awaiting" /\ body = [of |-> thread[i].query, at |-> loaded]

Carries(k, requests, running, outbox, responses) ==
    /\ k.requests = requests /\ k.running = running
    /\ k.outbox = outbox /\ k.responses = responses

\* The connection carries nothing, or one message, which the holder of the
\* mutex has sent or waits for.
InFlight ==
    \/ Carries(Link, <<>>, {}, <<>>, <<>>)
    \/ \E r \in Requests : Asked(r.ask) /\
          (Carries(Link, <<r>>, {}, <<>>, <<>>) \/ Carries(Link, <<>>, {r}, <<>>, <<>>))
    \/ \E p \in Responses : Owed(p.body) /\
          (Carries(Link, <<>>, {}, <<p>>, <<>>) \/ Carries(Link, <<>>, {}, <<>>, <<p>>))

\* A thread has found what it looked for.
FoundOwn == \A i \in Threads : thread[i].result # None => thread[i].result.of = thread[i].query

Settled == main \in {"polling", "waiting", "building"}

\* Outside of F5's last part the daemon serves the index that was built last,
\* or it is lost and nobody waits for it.
LoadedInv ==
    Settled => loaded = version \/ (Lost /\ \A i \in Threads : thread[i].stage # "awaiting")

\* A result that will be looked at is of that index, or the next poll will drop
\* it; when F5 ends with an answer in hand, neither may be the case.
FoundFresh ==
    ~overtaken /\ Settled =>
        \A i \in Threads : search = i /\ thread[i].result # None =>
            \/ thread[i].result.at = version
            \/ main = "polling" /\ query = None /\ thread[i].stage = "done"

Orderly ==
    /\ InFlight /\ FoundOwn /\ CacheIsOwn
    /\ ~refused => LoadedInv /\ FoundFresh /\ CacheIsFresh

IInv == BInv /\ (~spoiled => Orderly)

---------------------------------------------------------------------------
(* Lemmas about one message, one connection, one thread *)

LEMMA OneMessage ==
  ASSUME NEW x
  PROVE  /\ Head(<<x>>) = x /\ Tail(<<x>>) = << >> /\ Append(<< >>, x) = <<x>>
         /\ <<x>> # << >>
OBVIOUS

LEMMA Constants ==
  /\ Socket \in Sockets /\ Sockets = {Socket}
  /\ None \notin Queries /\ Reload \notin Queries
  /\ None \notin Answered /\ Reload \notin Answered /\ Refused \notin Answered
  /\ Refused # Reload /\ None \notin Threads
BY TuiAssumption

LEMMA LinkTyped == TypeOK <=>
  /\ conn \in [Sockets -> Connection]
  /\ daemon \in {"up", "stopping", "leaving", "down"} /\ timeouts \in Nat
  /\ query \in Queries \cup {None} /\ results \in Answered \cup {None}
  /\ cache \in [Queries -> Answered \cup {None}]
  /\ search \in Threads \cup {None}
  /\ main \in {"polling", "waiting", "building", "reloading", "awaiting"}
  /\ thread \in [Threads -> Thread]
  /\ sent \in Nat /\ version \in 0 .. MaxKeys /\ loaded \in 0 .. MaxKeys
  /\ pressed \in 0 .. MaxKeys /\ spoiled \in BOOLEAN /\ refused \in BOOLEAN
  /\ overtaken \in BOOLEAN
BY DEF TypeOK, ServerTypeOK, Connection, Thread

LEMMA ShutLink ==
  ASSUME NEW k \in Connection, ~k.hungup, k.state # "none"
  PROVE  /\ Shut(k) \in Connection /\ Shut(k).state = "closed" /\ ~Shut(k).hungup
         /\ Carries(Shut(k), << >>, {}, << >>, k.responses)
BY EmptySeq DEF Shut, Unused, Connection, Carries

LEMMA SentLink ==
  ASSUME NEW k \in Connection, NEW p \in Responses
  PROVE  /\ Sent(k, p) \in Connection
         /\ Sent(k, p).state = k.state /\ Sent(k, p).hungup = k.hungup
         /\ Sent(k, p).requests = k.requests /\ Sent(k, p).running = k.running
         /\ Sent(k, p).responses = k.responses
         /\ Sent(k, p).outbox \in {k.outbox, Append(k.outbox, p)}
BY AppendProperties DEF Sent, Connection

\* A thread goes on: what changes is its stage and its result.
LEMMA StageStep ==
  ASSUME TypeOK, NEW i \in Threads, NEW stage \in {"awaiting", "delivering", "done"},
         NEW result \in Answered \cup {None}, Stage(i, stage, result)
  PROVE  /\ thread' \in [Threads -> Thread]
         /\ thread'[i].query = thread[i].query /\ thread'[i].stage = stage
         /\ thread'[i].result = IF search = i THEN result ELSE None
         /\ \A j \in Threads : j # i => thread'[j] = thread[j]
BY DEF Stage, TypeOK, Thread

\* execute_search: nothing is asked, the cache answers, or a thread starts.
Cleaned == query = None /\ results' = None /\ search' = None /\ UNCHANGED thread
FromCache ==
    /\ query # None /\ cache[query] # None /\ results' = cache[query]
    /\ UNCHANGED <<search, thread>>
Started(i) ==
    /\ query # None /\ cache[query] = None /\ results' = None
    /\ thread[i].stage = "none" /\ search' = i
    /\ thread' = [thread EXCEPT ![i] =
                     [query |-> query, stage |-> "starting", result |-> None]]

LEMMA ExecuteStep ==
  ASSUME TypeOK, ExecuteSearch
  PROVE  /\ Cleaned \/ FromCache \/ \E i \in Threads : Started(i)
         /\ results' \in Answered \cup {None} /\ search' \in Threads \cup {None}
         /\ thread' \in [Threads -> Thread]
<1>1. CASE query = None
  BY <1>1 DEF ExecuteSearch, Cleaned, TypeOK, Thread
<1>2. CASE query # None /\ cache[query] # None
  BY <1>2 DEF ExecuteSearch, FromCache, TypeOK, Thread
<1>3. CASE query # None /\ cache[query] = None
  <2>1. PICK i \in Threads :
            /\ \A j \in Threads : thread[j].stage = "none" <=> j >= i
            /\ search' = i
            /\ thread' = [thread EXCEPT ![i] =
                             [query |-> query, stage |-> "starting", result |-> None]]
    BY <1>3 DEF ExecuteSearch
  <2>2. thread[i].stage = "none"
    BY <2>1, TuiAssumption DEF Threads
  <2>3. Started(i) /\ results' = None
    BY <1>3, <2>1, <2>2 DEF ExecuteSearch, Started
  <2>4. [query |-> query, stage |-> "starting", result |-> None] \in Thread
    BY DEF TypeOK, Thread
  <2>5. thread' \in [Threads -> Thread]
    BY <2>1, <2>4 DEF TypeOK, Thread
  <2> QED BY <2>1, <2>3, <2>5
<1> QED BY <1>1, <1>2, <1>3

---------------------------------------------------------------------------
(* Types, and what holds of the connection whatever is awaited *)

LinkOK(k) ==
    /\ k.state \in {"reading", "draining", "closed"} /\ ~k.hungup
    /\ k.state = "closed" => k.requests = << >> /\ k.running = {} /\ k.outbox = << >>

\* The steps of the daemon change the connection to another one that is in
\* order, and nothing of the client's.
LEMMA ServerStep ==
  ASSUME BInv, Serve(Socket) \/ Timing(Socket) \/ Exit
  PROVE  /\ conn' \in [Sockets -> Connection] /\ LinkOK(Link')
         /\ daemon' \in {"up", "stopping", "leaving", "down"} /\ timeouts' \in Nat
<1> DEFINE k == conn[Socket]
<1>0. /\ k \in Connection /\ LinkOK(k) /\ Sockets = {Socket}
      /\ conn \in [Sockets -> Connection] /\ Socket \in Sockets
      /\ daemon \in {"up", "stopping", "leaving", "down"} /\ timeouts \in Nat
  BY LinkTyped, Constants DEF BInv, LinkInv, LinkOK, Link
<1>1. ASSUME NEW l \in Connection, LinkOK(l), conn' = [conn EXCEPT ![Socket] = l]
      PROVE  conn' \in [Sockets -> Connection] /\ LinkOK(Link')
  BY <1>0, <1>1 DEF Link
<1>2. Shut(k) \in Connection /\ LinkOK(Shut(k))
  BY <1>0, ShutLink DEF LinkOK, Carries
<1>3. CASE Accept(Socket)
  BY <1>0, <1>3 DEF Accept, LinkOK
<1>4. CASE Read(Socket)
  <2> DEFINE r == Head(k.requests)
             rest == [k EXCEPT !.requests = Tail(@)]
             refusal == [id |-> r.id, body |-> Refused]
  <2>1. r \in Requests /\ rest \in Connection
    BY <1>0, <1>4, HeadTailProperties DEF Read, Connection
  <2>2. refusal \in Responses
    BY <2>1 DEF Requests, Responses
  <2>3. rest.state = "reading" /\ ~rest.hungup /\ rest.running = k.running
    BY <1>0, <1>4 DEF Read, LinkOK, Connection
  <2>4. Sent(rest, refusal) \in Connection /\ LinkOK(Sent(rest, refusal))
    BY <2>1, <2>2, <2>3, SentLink DEF LinkOK
  <2>5. \A s \in {"reading", "draining"} :
            /\ [rest EXCEPT !.running = @ \cup {r}, !.state = s] \in Connection
            /\ LinkOK([rest EXCEPT !.running = @ \cup {r}, !.state = s])
    BY <2>1, <2>3 DEF Connection, LinkOK
  <2>6. \/ conn' = [conn EXCEPT ![Socket] = Sent(rest, refusal)]
        \/ \E s \in {"reading", "draining"} :
              conn' = [conn EXCEPT ![Socket] = [rest EXCEPT !.running = @ \cup {r}, !.state = s]]
    BY <1>4, <2>3 DEF Read
  <2> QED BY <1>0, <1>1, <1>4, <2>4, <2>5, <2>6 DEF Read
<1>5. CASE EndOfFile(Socket)
  BY <1>0, <1>5 DEF EndOfFile, LinkOK
<1>6. CASE WriteOut(Socket)
  <2> DEFINE out == [k EXCEPT !.responses = Append(@, Head(k.outbox)), !.outbox = Tail(@)]
  <2>1. Head(k.outbox) \in Responses /\ Tail(k.outbox) \in Seq(Responses) /\ k.outbox # << >>
    BY <1>0, <1>6, HeadTailProperties DEF WriteOut, Connection
  <2>2. Append(k.responses, Head(k.outbox)) \in Seq(Responses)
    BY <1>0, <2>1, AppendProperties DEF Connection
  <2>3. out \in Connection /\ LinkOK(out)
    BY <1>0, <2>1, <2>2 DEF Connection, LinkOK
  <2>4. conn' = [conn EXCEPT ![Socket] = out] /\ UNCHANGED <<daemon, timeouts>>
    BY <1>0, <1>6 DEF WriteOut, LinkOK
  <2> QED BY <1>0, <1>1, <2>3, <2>4
<1>7. CASE Close(Socket)
  BY <1>0, <1>1, <1>2, <1>7 DEF Close
<1>8. ASSUME NEW r \in k.answered, Retire(Socket, r)
      PROVE  /\ conn' \in [Sockets -> Connection] /\ LinkOK(Link')
             /\ UNCHANGED <<daemon, timeouts>>
  <2> DEFINE l == [k EXCEPT !.answered = @ \ {r}]
  <2>1. l \in Connection /\ LinkOK(l) /\ conn' = [conn EXCEPT ![Socket] = l]
    BY <1>0, <1>8 DEF Retire, Connection, LinkOK
  <2> QED BY <1>1, <1>8, <2>1 DEF Retire
<1>9. CASE ReadTimeout(Socket)
  <2> DEFINE refusal == [id |-> NoId, body |-> Refused]
  <2>1. refusal \in Responses
    BY DEF Responses
  <2>2. Sent(k, refusal) \in Connection /\ LinkOK(Sent(k, refusal))
    BY <1>0, <1>9, <2>1, SentLink DEF ReadTimeout, LinkOK
  <2>3. timeouts' \in Nat /\ daemon' = daemon /\ conn' = [conn EXCEPT ![Socket] = Sent(k, refusal)]
    BY <1>0, <1>9 DEF ReadTimeout, Timeout
  <2> QED BY <1>0, <1>1, <2>2, <2>3
<1>10. CASE WriteTimeout(Socket)
  <2> DEFINE l == [k EXCEPT !.writing = FALSE, !.outbox = << >>]
  <2>1. l \in Connection /\ LinkOK(l)
    BY <1>0, EmptySeq DEF Connection, LinkOK
  <2>2. conn' = [conn EXCEPT ![Socket] = l]
    BY <1>0, <1>10 DEF WriteTimeout, WriterGone
  <2>3. timeouts' \in Nat /\ daemon' = daemon
    BY <1>0, <1>10 DEF WriteTimeout, Timeout
  <2> QED BY <1>0, <1>1, <2>1, <2>2, <2>3
<1>11. CASE Exit
  <2>1. conn' = [conn EXCEPT ![Socket] = Shut(k)]
    BY <1>0, <1>11 DEF Exit
  <2> QED BY <1>0, <1>1, <1>2, <1>11, <2>1 DEF Exit
<1> QED
  BY <1>0, <1>3, <1>4, <1>5, <1>6, <1>7, <1>8, <1>9, <1>10, <1>11 DEF Serve, Timing

\* A handler answers: the request leaves what runs, the response goes to the
\* writer if there still is one.
LEMMA AnswerStep ==
  ASSUME BInv, NEW r \in Link.running, NEW body \in Answered \cup {Reload, Refused},
         Answer(Socket, r, body)
  PROVE  /\ conn' \in [Sockets -> Connection] /\ LinkOK(Link')
         /\ daemon' \in {"up", "stopping", "leaving", "down"} /\ timeouts' = timeouts
         /\ [id |-> r.id, body |-> body] \in Responses
         /\ Link'.requests = Link.requests /\ Link'.running = Link.running \ {r}
         /\ Link'.responses = Link.responses
         /\ Link'.outbox \in {Link.outbox, Append(Link.outbox, [id |-> r.id, body |-> body])}
<1> DEFINE k == conn[Socket]
           p == [id |-> r.id, body |-> body]
           done == [k EXCEPT !.running = @ \ {r}, !.answered = @ \cup {r}]
<1>0. /\ k \in Connection /\ LinkOK(k) /\ r \in k.running
      /\ conn \in [Sockets -> Connection] /\ Socket \in Sockets
      /\ daemon \in {"up", "stopping", "leaving", "down"}
  BY LinkTyped, Constants DEF BInv, LinkInv, LinkOK, Link
<1>1. r \in Requests /\ p \in Responses
  <2>1. r \in Requests
    BY <1>0 DEF Connection
  <2> QED BY <2>1 DEF Requests, Responses
<1>2. /\ done \in Connection /\ LinkOK(done)
      /\ done.requests = k.requests /\ done.running = k.running \ {r}
      /\ done.responses = k.responses /\ done.outbox = k.outbox
  BY <1>0, <1>1 DEF Connection, LinkOK
<1>3. conn' = [conn EXCEPT ![Socket] = Sent(done, p)]
  BY DEF Answer
<1>4. Link' = Sent(done, p)
  BY <1>0, <1>3 DEF Link
<1>5. k.state # "closed"
  BY <1>0 DEF LinkOK
<1>6. LinkOK(Sent(done, p)) /\ Sent(done, p) \in Connection
  <2>1. done.state = k.state /\ done.hungup = k.hungup
    BY <1>0 DEF Connection
  <2> HIDE DEF done
  <2> QED BY <1>0, <1>1, <1>2, <1>5, <2>1, SentLink DEF LinkOK
<1>7. daemon' \in {"up", "stopping", "leaving", "down"} /\ timeouts' = timeouts
  BY <1>0 DEF Answer
<1>8. /\ Sent(done, p).requests = k.requests /\ Sent(done, p).running = k.running \ {r}
      /\ Sent(done, p).responses = k.responses
      /\ Sent(done, p).outbox \in {k.outbox, Append(k.outbox, p)}
  <2> HIDE DEF done, p
  <2> QED BY <1>1, <1>2, SentLink
<1> QED
  BY <1>0, <1>1, <1>3, <1>4, <1>6, <1>7, <1>8 DEF Link

---------------------------------------------------------------------------
(* One message at a time *)

\* What is asked and owed depends on the mutex and on what is loaded only.
LEMMA SameHolder ==
  ASSUME main' = "awaiting" <=> main = "awaiting", UNCHANGED <<version, loaded>>,
         \A i \in Threads : \/ thread'[i] = thread[i]
                            \/ thread[i].stage # "awaiting" /\ thread'[i].stage # "awaiting"
  PROVE  /\ CanLock => CanLock'
         /\ \A ask : Asked(ask) => Asked(ask)'
         /\ \A body : Owed(body) => Owed(body)'
<1>1. CanLock <=> CanLock'
  BY DEF CanLock
<1>2. ASSUME NEW ask, Asked(ask) PROVE Asked(ask)'
  BY <1>2 DEF Asked
<1>3. ASSUME NEW body, Owed(body) PROVE Owed(body)'
  <2>1. CASE body = Refused /\ ~CanLock
    BY <1>1, <2>1 DEF Owed
  <2>2. CASE body = Reload /\ main = "awaiting" /\ loaded = version
    BY <2>2 DEF Owed
  <2>3. ASSUME main # "awaiting", NEW i \in Threads,
               thread[i].stage = "awaiting", body = [of |-> thread[i].query, at |-> loaded]
        PROVE  Owed(body)'
    BY <2>3 DEF Owed
  <2> QED BY <1>3, <2>1, <2>2, <2>3 DEF Owed
<1> QED BY <1>1, <1>2, <1>3

\* As long as the mutex is free nothing is on its way.
LEMMA NothingInFlight ==
  ASSUME InFlight, CanLock
  PROVE  Carries(Link, << >>, {}, << >>, << >>)
<1>1. \A ask : ~Asked(ask)
  BY DEF CanLock, Asked
<1>2. \A body : ~Owed(body)
  BY DEF CanLock, Owed
<1> QED BY <1>1, <1>2 DEF InFlight

\* The daemon's steps, but for the handlers', move the message on or lose it.
LEMMA ServerInFlight ==
  ASSUME BInv, InFlight, Serve(Socket) \/ WriteTimeout(Socket) \/ Exit,
         UNCHANGED <<clientVars, loaded>>
  PROVE  InFlight'
<1> DEFINE k == conn[Socket]
<1>0. /\ k \in Connection /\ LinkOK(k) /\ Sockets = {Socket} /\ k = Link
      /\ conn \in [Sockets -> Connection] /\ Socket \in Sockets
  BY LinkTyped, Constants DEF BInv, LinkInv, LinkOK, Link
<1>1. /\ \A ask : Asked(ask) => Asked(ask)'
      /\ \A body : Owed(body) => Owed(body)'
  BY SameHolder DEF clientVars, app
<1>2. \/ Carries(k, << >>, {}, << >>, << >>)
      \/ \E r \in Requests : Asked(r.ask)' /\ Asked(r.ask) /\ Carries(k, <<r>>, {}, << >>, << >>)
      \/ \E r \in Requests : Asked(r.ask)' /\ Carries(k, << >>, {r}, << >>, << >>)
      \/ \E p \in Responses : Owed(p.body)' /\ Carries(k, << >>, {}, <<p>>, << >>)
      \/ \E p \in Responses : Owed(p.body)' /\ Carries(k, << >>, {}, << >>, <<p>>)
  BY <1>0, <1>1 DEF InFlight
<1>3. ASSUME NEW l, conn' = [conn EXCEPT ![Socket] = l],
             l.requests = k.requests, l.running = k.running,
             l.outbox = k.outbox, l.responses = k.responses
      PROVE  InFlight'
  <2>1. Link' = l
    BY <1>0, <1>3 DEF Link
  <2> QED BY <1>2, <1>3, <2>1 DEF InFlight, Carries
\* The connection ends with what has been written to it.
<1>4. ASSUME conn' = [conn EXCEPT ![Socket] = Shut(k)]
      PROVE  InFlight'
  <2>1. Link' = Shut(k) /\ Carries(Shut(k), << >>, {}, << >>, k.responses)
    BY <1>0, <1>4, ShutLink DEF Link, LinkOK
  <2>2. \/ k.responses = << >>
        \/ \E p \in Responses : Owed(p.body)' /\ k.responses = <<p>>
    BY <1>2 DEF Carries
  <2> QED BY <2>1, <2>2 DEF InFlight, Carries
<1>5. CASE Accept(Socket) \/ EndOfFile(Socket)
  BY <1>0, <1>5 DEF Accept, EndOfFile, LinkOK
<1>6. CASE Read(Socket)
  <2>1. PICK r \in Requests : /\ Asked(r.ask)' /\ Asked(r.ask)
                              /\ Carries(k, <<r>>, {}, << >>, << >>)
    BY <1>2, <1>6 DEF Read, Carries
  <2> DEFINE rest == [k EXCEPT !.requests = << >>]
             refusal == [id |-> r.id, body |-> Refused]
  <2>2. Head(k.requests) = r /\ Tail(k.requests) = << >>
    BY <2>1, OneMessage DEF Carries
  <2>3. \/ conn' = [conn EXCEPT ![Socket] = Sent(rest, refusal)]
        \/ \E s \in {"reading", "draining"} :
              conn' = [conn EXCEPT ![Socket] = [rest EXCEPT !.running = @ \cup {r}, !.state = s]]
    <3>1. rest.state = "reading"
      BY <1>0, <1>6 DEF Read, Connection
    <3> QED BY <1>6, <2>2, <3>1 DEF Read
  <2>4. CASE conn' = [conn EXCEPT ![Socket] = Sent(rest, refusal)]
    <3>1. refusal \in Responses /\ rest \in Connection
      BY <1>0, EmptySeq DEF Requests, Responses, Connection
    <3>2. Link' = Sent(rest, refusal)
      BY <1>0, <2>4 DEF Link
    <3>3. Carries(rest, << >>, {}, << >>, << >>)
      BY <1>0, <2>1 DEF Carries, Connection
    <3>4. \/ Carries(Link', << >>, {}, << >>, << >>)
          \/ Carries(Link', << >>, {}, <<refusal>>, << >>)
      <4> HIDE DEF rest, refusal
      <4> QED BY <3>1, <3>2, <3>3, SentLink, OneMessage DEF Carries
    <3>5. Owed(Refused)'
      <4>1. ~CanLock'
        BY <2>1 DEF Asked, CanLock
      <4> QED BY <4>1 DEF Owed
    <3>6. Owed(refusal.body)'
      BY <3>5
    <3> HIDE DEF refusal
    <3> QED BY <3>1, <3>4, <3>6 DEF InFlight
  <2>5. ASSUME NEW s \in {"reading", "draining"},
               conn' = [conn EXCEPT ![Socket] = [rest EXCEPT !.running = @ \cup {r}, !.state = s]]
        PROVE  InFlight'
    <3>1. Link' = [rest EXCEPT !.running = @ \cup {r}, !.state = s]
      BY <1>0, <2>5 DEF Link
    <3>2. Carries(Link', << >>, {r}, << >>, << >>)
      BY <1>0, <2>1, <3>1 DEF Carries, Connection
    <3> QED BY <2>1, <3>2 DEF InFlight
  <2> QED BY <2>3, <2>4, <2>5
<1>7. CASE WriteOut(Socket)
  <2>1. PICK p \in Responses : Owed(p.body)' /\ Carries(k, << >>, {}, <<p>>, << >>)
    BY <1>2, <1>7 DEF WriteOut, Carries
  <2>2. Head(k.outbox) = p /\ Tail(k.outbox) = << >> /\ Append(k.responses, p) = <<p>>
    BY <2>1, OneMessage DEF Carries
  <2> DEFINE out == [k EXCEPT !.responses = <<p>>, !.outbox = << >>]
  <2>3. conn' = [conn EXCEPT ![Socket] = out]
    BY <1>0, <1>7, <2>2 DEF WriteOut, LinkOK
  <2>4. Link' = out /\ Carries(out, << >>, {}, << >>, <<p>>)
    BY <1>0, <2>1, <2>3 DEF Link, Carries, Connection
  <2> QED BY <2>1, <2>4 DEF InFlight
<1>8. CASE Close(Socket) \/ Exit
  <2>1. conn' = [conn EXCEPT ![Socket] = Shut(k)]
    BY <1>0, <1>8 DEF Close, Exit
  <2> QED BY <1>4, <2>1
<1>9. ASSUME NEW r \in k.answered, Retire(Socket, r) PROVE InFlight'
  <2> DEFINE l == [k EXCEPT !.answered = @ \ {r}]
  <2>1. /\ l.requests = k.requests /\ l.running = k.running
        /\ l.outbox = k.outbox /\ l.responses = k.responses
    BY <1>0 DEF Connection
  <2>2. conn' = [conn EXCEPT ![Socket] = l]
    BY <1>9 DEF Retire
  <2> HIDE DEF l
  <2> QED BY <1>3, <2>1, <2>2
<1>10. CASE WriteTimeout(Socket)
  <2>1. PICK p \in Responses : Carries(k, << >>, {}, <<p>>, << >>)
    BY <1>2, <1>10 DEF WriteTimeout, Carries
  <2> DEFINE l == [k EXCEPT !.writing = FALSE, !.outbox = << >>]
  <2>2. conn' = [conn EXCEPT ![Socket] = l]
    BY <1>0, <1>10 DEF WriteTimeout, WriterGone
  <2>3. Link' = l /\ Carries(l, << >>, {}, << >>, << >>)
    BY <1>0, <2>1, <2>2 DEF Link, Carries, Connection
  <2> QED BY <2>3 DEF InFlight
<1> QED
  BY <1>5, <1>6, <1>7, <1>8, <1>9, <1>10 DEF Serve

\* A handler answers what was asked, on the index that is loaded.
LEMMA HandlersStep ==
  ASSUME BInv, Handlers
  PROVE  /\ BInv'
         /\ ~spoiled /\ Orderly => Orderly'
<1> DEFINE k == conn[Socket]
<1>1. PICK r \in k.running : HandleRequest(r)
  BY DEF Handlers
<1>2. /\ k \in Connection /\ k = Link /\ r \in Requests /\ UNCHANGED <<clientVars, history>>
  <2>1. k \in Connection /\ k = Link /\ UNCHANGED <<clientVars, history>>
    BY LinkTyped, Constants DEF BInv, Link, Handlers
  <2>2. r \in Requests
    BY <2>1 DEF Connection
  <2> QED BY <2>1, <2>2
<1>3. PICK body \in Answered \cup {Reload, Refused} :
          /\ Answer(Socket, r, body)
          /\ \/ r.ask = Reload /\ body = Reload /\ loaded' = version
             \/ r.ask # Reload /\ body = [of |-> r.ask, at |-> loaded] /\ loaded' = loaded
  <2>1. CASE r.ask = Reload
    BY <1>1, <2>1 DEF HandleRequest
  <2>2. CASE r.ask # Reload
    <3>1. [of |-> r.ask, at |-> loaded] \in Answered
      BY <1>2, <2>2 DEF Requests, Answered, BInv, TypeOK
    <3> QED BY <1>1, <2>2, <3>1 DEF HandleRequest
  <2> QED BY <2>1, <2>2
<1> DEFINE p == [id |-> r.id, body |-> body]
<1>4. /\ conn' \in [Sockets -> Connection] /\ LinkOK(Link')
      /\ daemon' \in {"up", "stopping", "leaving", "down"} /\ timeouts' = timeouts
      /\ p \in Responses
      /\ Link'.requests = Link.requests /\ Link'.running = Link.running \ {r}
      /\ Link'.responses = Link.responses
      /\ Link'.outbox \in {Link.outbox, Append(Link.outbox, p)}
  BY <1>1, <1>2, <1>3, AnswerStep
<1>5. loaded' \in 0 .. MaxKeys /\ loaded' <= version
  BY <1>3 DEF BInv, TypeOK, VersionInv
<1>6. TypeOK'
  BY <1>2, <1>4, <1>5 DEF TypeOK, ServerTypeOK, Connection, BInv, clientVars, app, history
<1>7. BInv'
  BY <1>2, <1>4, <1>5, <1>6
     DEF BInv, LinkInv, LinkOK, VersionInv, ThreadInv, Mutex, Cleared, clientVars, app
<1>8. ASSUME ~spoiled, Orderly PROVE Orderly'
  <2>1. Asked(r.ask) /\ Carries(Link, << >>, {r}, << >>, << >>)
    BY <1>1, <1>2, <1>8 DEF Orderly, InFlight, Carries
  <2>2. \/ Carries(Link', << >>, {}, << >>, << >>)
        \/ Carries(Link', << >>, {}, <<p>>, << >>)
    <3> HIDE DEF p
    <3> QED BY <1>4, <2>1, OneMessage DEF Carries
  <2>3. CASE r.ask = Reload
    <3>1. main = "awaiting"
      BY <2>1, <2>3, Constants DEF Asked, BInv, ThreadInv, TypeOK
    <3>2. body = Reload /\ loaded' = version
      BY <1>3, <2>3
    <3>3. Owed(Reload)'
      BY <1>2, <3>1, <3>2 DEF Owed, clientVars, app
    <3>4. InFlight'
      <4>1. p.body = Reload
        BY <3>2
      <4> HIDE DEF p
      <4> QED BY <1>4, <2>2, <3>3, <4>1 DEF InFlight
    <3>5. ~Settled'
      BY <1>2, <3>1 DEF Settled, clientVars, app
    <3> QED
      BY <1>2, <1>8, <3>1, <3>4, <3>5 DEF Orderly, FoundOwn, CacheIsOwn, LoadedInv, FoundFresh,
         CacheIsFresh, CacheIsCurrent, clientVars, app, history
  <2>4. CASE r.ask # Reload
    <3>1. body = [of |-> r.ask, at |-> loaded] /\ loaded' = loaded
      BY <1>3, <2>4
    <3>2. PICK i \in Threads : /\ main # "awaiting" /\ thread[i].stage = "awaiting"
                               /\ thread[i].query = r.ask
      BY <2>1, <2>4 DEF Asked
    <3>3. Owed(body)'
      BY <1>2, <3>1, <3>2 DEF Owed, clientVars, app
    <3>4. InFlight'
      <4>1. p.body = body
        OBVIOUS
      <4> HIDE DEF p
      <4> QED BY <1>4, <2>2, <3>3, <4>1 DEF InFlight
    <3>5. Lost = FALSE
      BY <2>1, <1>1 DEF Lost, BInv, LinkInv, Link, Carries
    <3>6. ~refused /\ Settled => loaded = version
      BY <1>8, <3>2 DEF Orderly, LoadedInv
    <3>7. ~refused' => LoadedInv' /\ FoundFresh' /\ CacheIsFresh'
      BY <1>2, <1>8, <3>1, <3>6 DEF Orderly, Settled, LoadedInv, FoundFresh, CacheIsFresh,
         CacheIsCurrent, clientVars, app, history
    <3>8. FoundOwn' /\ CacheIsOwn'
      BY <1>2, <1>8 DEF Orderly, FoundOwn, CacheIsOwn, clientVars, app
    <3> QED BY <3>4, <3>7, <3>8 DEF Orderly
  <2> QED BY <2>3, <2>4
<1> QED BY <1>7, <1>8

LEMMA ServerPreserves ==
  ASSUME IInv, Serving \/ IdleTimeout \/ StuckWriter \/ Killed
  PROVE  IInv'
<1>1. /\ UNCHANGED <<clientVars, loaded, refused, overtaken>>
      /\ Serve(Socket) \/ Timing(Socket) \/ Exit
      /\ spoiled' \in BOOLEAN /\ (~spoiled' => ~spoiled)
  BY DEF Serving, IdleTimeout, StuckWriter, Killed, Timing, history, IInv, BInv, TypeOK
<1>2. /\ conn' \in [Sockets -> Connection] /\ LinkOK(Link')
      /\ daemon' \in {"up", "stopping", "leaving", "down"} /\ timeouts' \in Nat
  BY <1>1, ServerStep DEF IInv
<1>3. TypeOK'
  BY <1>1, <1>2 DEF TypeOK, ServerTypeOK, Connection, IInv, BInv, clientVars, app
<1>4. BInv'
  BY <1>1, <1>2, <1>3
     DEF IInv, BInv, LinkInv, LinkOK, VersionInv, ThreadInv, Mutex, Cleared, clientVars, app
<1>5. ASSUME ~spoiled' PROVE Orderly'
  <2>1. Serve(Socket) \/ WriteTimeout(Socket) \/ Exit
    BY <1>5 DEF Serving, IdleTimeout, StuckWriter, Killed
  <2>2. InFlight'
    BY <1>1, <1>5, <2>1, ServerInFlight DEF IInv, Orderly
  <2>3. Lost => Lost'
    <3>1. Sockets = {Socket} /\ conn \in [Sockets -> Connection]
      BY Constants, LinkTyped DEF IInv, BInv
    <3>2. Lost /\ Serve(Socket) => Lost'
      <4>1. ASSUME Lost, Accept(Socket) \/ Read(Socket) \/ EndOfFile(Socket) \/ Close(Socket)
            PROVE  FALSE
        BY <4>1 DEF Lost, Accept, Read, EndOfFile, Close
      <4>2. Lost /\ WriteOut(Socket) => Lost'
        BY DEF Lost, WriteOut, IInv, BInv, LinkInv, Link
      <4>3. ASSUME NEW r, Lost, Retire(Socket, r) PROVE Lost'
        BY <3>1, <4>3 DEF Lost, Retire
      <4> QED BY <4>1, <4>2, <4>3 DEF Serve
    <3>3. Lost /\ WriteTimeout(Socket) => Lost'
      BY <3>1 DEF Lost, WriteTimeout, WriterGone
    <3>4. Lost /\ Exit => Lost'
      BY <3>1, ShutLink DEF Lost, Exit, IInv, BInv, LinkInv, Link
    <3> QED BY <2>1, <3>2, <3>3, <3>4
  <2>4. ~refused' => LoadedInv' /\ FoundFresh' /\ CacheIsFresh'
    BY <1>1, <1>5, <2>3 DEF IInv, Orderly, Settled, LoadedInv, FoundFresh, CacheIsFresh,
       CacheIsCurrent, clientVars, app
  <2>5. FoundOwn' /\ CacheIsOwn'
    BY <1>1, <1>5 DEF IInv, Orderly, FoundOwn, CacheIsOwn, clientVars, app
  <2> QED BY <2>2, <2>4, <2>5 DEF Orderly
<1> QED BY <1>4, <1>5 DEF IInv

---------------------------------------------------------------------------
(* The client's steps *)

\* What is written reaches a connection that is not lost.
LEMMA WriteStep ==
  ASSUME BInv, ~Lost, NEW ask \in Queries \cup {Reload}, Write(ask)
  PROVE  /\ conn' \in [Sockets -> Connection] /\ LinkOK(Link') /\ sent' \in Nat
         /\ Carries(Link, << >>, {}, << >>, << >>) =>
               Carries(Link', <<[id |-> sent, ask |-> ask]>>, {}, << >>, << >>)
         /\ [id |-> sent, ask |-> ask] \in Requests
<1> DEFINE k == conn[Socket]
           r == [id |-> sent, ask |-> ask]
           l == [k EXCEPT !.requests = Append(@, r)]
<1>0. /\ k \in Connection /\ LinkOK(k) /\ k = Link /\ sent \in Nat
      /\ conn \in [Sockets -> Connection] /\ Socket \in Sockets
  BY LinkTyped, Constants DEF BInv, LinkInv, LinkOK, Link
<1>1. r \in Requests
  BY <1>0 DEF Requests
<1>2. Append(k.requests, r) \in Seq(Requests)
  BY <1>0, <1>1, AppendProperties DEF Connection
<1>3. l \in Connection /\ LinkOK(l)
  BY <1>0, <1>2 DEF Connection, LinkOK, Lost, Link
<1>4. conn' = [conn EXCEPT ![Socket] = l] /\ sent' = sent + 1
  BY DEF Write
<1>5. Link' = l
  BY <1>0, <1>4 DEF Link
<1>6. Carries(k, << >>, {}, << >>, << >>) => Carries(l, <<r>>, {}, << >>, << >>)
  BY <1>0, OneMessage DEF Carries, Connection
<1> QED BY <1>0, <1>1, <1>3, <1>4, <1>5, <1>6

\* What is taken is the message on its way, if every response is awaited.
LEMMA TakeStep ==
  ASSUME BInv, Arrived, Take
  PROVE  /\ conn' \in [Sockets -> Connection] /\ LinkOK(Link')
         /\ Response \in Responses
         /\ (Lost => Lost') /\ Link'.state = Link.state
         /\ InFlight => /\ Carries(Link', << >>, {}, << >>, << >>)
                        /\ Owed(Response.body)
<1> DEFINE k == conn[Socket]
           l == [k EXCEPT !.responses = Tail(@)]
<1>0. /\ k \in Connection /\ LinkOK(k) /\ k = Link
      /\ conn \in [Sockets -> Connection] /\ Socket \in Sockets
  BY LinkTyped, Constants DEF BInv, LinkInv, LinkOK, Link
<1>1. Head(k.responses) \in Responses /\ Tail(k.responses) \in Seq(Responses)
  BY <1>0, HeadTailProperties DEF Connection, Arrived
<1>2. l \in Connection /\ LinkOK(l) /\ l.state = k.state
  BY <1>0, <1>1 DEF Connection, LinkOK
<1>3. conn' = [conn EXCEPT ![Socket] = l]
  BY DEF Take
<1>4. Link' = l
  BY <1>0, <1>3 DEF Link
<1>5. ASSUME InFlight PROVE Carries(l, << >>, {}, << >>, << >>) /\ Owed(Head(k.responses).body)
  <2>1. PICK p \in Responses : Owed(p.body) /\ Carries(k, << >>, {}, << >>, <<p>>)
    BY <1>0, <1>5 DEF InFlight, Carries, Arrived
  <2> QED BY <1>0, <2>1, OneMessage DEF Carries, Connection
<1>6. Lost => Lost'
  BY <1>0, <1>2, <1>4 DEF Lost, Link
<1> QED BY <1>0, <1>1, <1>2, <1>3, <1>4, <1>5, <1>6 DEF Response

\* A thread that cannot get the mutex waits; one that gets it asks.
LEMMA AskPreserves ==
  ASSUME IInv, NEW i \in Threads, Ask(i)
  PROVE  IInv'
<1>0. /\ BInv /\ TypeOK /\ thread[i].stage = "starting" /\ main # "awaiting"
      /\ \A j \in Threads : thread[j].stage # "awaiting"
      /\ UNCHANGED <<daemon, timeouts, app, loaded, history>>
  BY DEF Ask, CanLock, IInv, BInv
<1>1. CASE Lost
  <2>1. Stage(i, "delivering", None) /\ UNCHANGED <<conn, sent>>
    BY <1>1 DEF Ask
  <2>2. /\ thread' \in [Threads -> Thread]
        /\ thread'[i].query = thread[i].query /\ thread'[i].stage = "delivering"
        /\ thread'[i].result = None
        /\ \A j \in Threads : j # i => thread'[j] = thread[j]
    BY <1>0, <2>1, StageStep
  <2>3. TypeOK'
    BY <1>0, <2>1, <2>2 DEF TypeOK, ServerTypeOK, app, history, Thread
  <2>4. BInv'
    BY <1>0, <2>1, <2>2, <2>3
       DEF BInv, LinkInv, Link, VersionInv, ThreadInv, Mutex, Cleared, app
  <2>5. ASSUME ~spoiled' PROVE Orderly'
    <3>1. Orderly
      BY <1>0, <2>5 DEF IInv, history
    <3>2. InFlight'
      <4>1. Carries(Link, << >>, {}, << >>, << >>)
        BY <3>1, NothingInFlight DEF Orderly, Ask
      <4> QED BY <2>1, <4>1 DEF InFlight, Link
    <3>3. FoundOwn' /\ CacheIsOwn'
      BY <1>0, <2>2, <3>1 DEF Orderly, FoundOwn, CacheIsOwn, app
    <3>4. ~refused' => LoadedInv' /\ FoundFresh' /\ CacheIsFresh'
      BY <1>0, <2>1, <2>2, <3>1 DEF Orderly, Settled, LoadedInv, FoundFresh, CacheIsFresh,
         CacheIsCurrent,
         Lost, app, history
    <3> QED BY <3>2, <3>3, <3>4 DEF Orderly
  <2> QED BY <2>4, <2>5 DEF IInv
<1>2. CASE ~Lost
  <2> DEFINE r == [id |-> sent, ask |-> thread[i].query]
  <2>1. Stage(i, "awaiting", None) /\ Write(thread[i].query)
    BY <1>2 DEF Ask
  <2>2. /\ thread' \in [Threads -> Thread]
        /\ thread'[i].query = thread[i].query /\ thread'[i].stage = "awaiting"
        /\ thread'[i].result = None
        /\ \A j \in Threads : j # i => thread'[j] = thread[j]
    BY <1>0, <2>1, StageStep
  <2>3. thread[i].query \in Queries
    BY <1>0 DEF BInv, TypeOK, ThreadInv
  <2>4. /\ conn' \in [Sockets -> Connection] /\ LinkOK(Link') /\ sent' \in Nat
        /\ r \in Requests
        /\ Carries(Link, << >>, {}, << >>, << >>) => Carries(Link', <<r>>, {}, << >>, << >>)
    BY <1>0, <1>2, <2>1, <2>3, WriteStep
  <2>5. TypeOK'
    BY <1>0, <2>2, <2>4 DEF TypeOK, ServerTypeOK, Connection, app, history, Thread
  <2>6. BInv'
    BY <1>0, <2>2, <2>4, <2>5
       DEF BInv, LinkInv, LinkOK, VersionInv, ThreadInv, Mutex, Cleared, app
  <2>7. ASSUME ~spoiled' PROVE Orderly'
    <3>1. Orderly
      BY <1>0, <2>7 DEF IInv, history
    <3>2. InFlight'
      <4>1. Carries(Link, << >>, {}, << >>, << >>)
        BY <3>1, NothingInFlight DEF Orderly, Ask
      <4>2. PICK q \in Requests : q = r
        BY <2>4
      <4>3. q.ask = thread[i].query /\ Carries(Link', <<q>>, {}, << >>, << >>)
        BY <2>4, <4>1, <4>2
      <4>4. Asked(q.ask)'
        BY <1>0, <2>2, <4>3 DEF Asked, app
      <4> QED BY <4>3, <4>4 DEF InFlight
    <3>3. FoundOwn' /\ CacheIsOwn'
      BY <1>0, <2>2, <3>1 DEF Orderly, FoundOwn, CacheIsOwn, app
    <3>4. ~refused' => LoadedInv' /\ FoundFresh' /\ CacheIsFresh'
      BY <1>0, <1>2, <2>2, <3>1 DEF Orderly, Settled, LoadedInv, FoundFresh, CacheIsFresh,
         CacheIsCurrent, app, history
    <3> QED BY <3>2, <3>3, <3>4 DEF Orderly
  <2> QED BY <2>6, <2>7 DEF IInv
<1> QED BY <1>1, <1>2

\* The holder reads what it is owed, the end of the connection, or gives up.
LEMMA AwaitPreserves ==
  ASSUME IInv, NEW i \in Threads, Await(i)
  PROVE  IInv'
<1>0. /\ BInv /\ TypeOK /\ thread[i].stage = "awaiting" /\ main # "awaiting"
      /\ \A j \in Threads : j # i => thread[j].stage # "awaiting"
      /\ UNCHANGED <<daemon, app, sent, loaded, refused, overtaken>>
  BY DEF Await, IInv, BInv, Mutex
<1>1. PICK result \in Answered \cup {None} :
        /\ Stage(i, "delivering", result)
        /\ \/ Arrived /\ Take /\ result = Matches(Response.body) /\ UNCHANGED <<timeouts, spoiled>>
           \/ AtEnd(Socket) /\ result = None /\ UNCHANGED <<conn, timeouts, spoiled>>
           \/ TimesOut /\ result = None /\ spoiled' = TRUE /\ UNCHANGED conn
  BY DEF Await, Matches
<1>2. /\ thread' \in [Threads -> Thread]
      /\ thread'[i].query = thread[i].query /\ thread'[i].stage = "delivering"
      /\ thread'[i].result = IF search = i THEN result ELSE None
      /\ \A j \in Threads : j # i => thread'[j] = thread[j]
  BY <1>0, <1>1, StageStep
<1>3. /\ conn' \in [Sockets -> Connection] /\ LinkOK(Link') /\ timeouts' \in Nat
      /\ spoiled' \in BOOLEAN /\ (~spoiled' => ~spoiled)
  <2>1. /\ conn \in [Sockets -> Connection] /\ LinkOK(Link) /\ timeouts \in Nat
        /\ spoiled \in BOOLEAN
    BY <1>0, LinkTyped DEF BInv, LinkInv, LinkOK
  <2>2. CASE Arrived /\ Take /\ UNCHANGED <<timeouts, spoiled>>
    BY <1>0, <2>1, <2>2, TakeStep
  <2>3. CASE UNCHANGED <<conn, timeouts, spoiled>>
    BY <2>1, <2>3 DEF Link
  <2>4. CASE TimesOut /\ spoiled' = TRUE /\ UNCHANGED conn
    BY <2>1, <2>4 DEF Link, TimesOut, Timeout
  <2> QED BY <1>1, <2>2, <2>3, <2>4
<1>4. TypeOK'
  BY <1>0, <1>2, <1>3 DEF TypeOK, ServerTypeOK, Connection, app, Thread
<1>5. BInv'
  BY <1>0, <1>2, <1>3, <1>4
     DEF BInv, LinkInv, LinkOK, VersionInv, ThreadInv, Mutex, Cleared, app
<1>6. ASSUME ~spoiled' PROVE Orderly'
  <2>1. Orderly /\ InFlight
    BY <1>3, <1>6 DEF IInv, Orderly
\* What it has found is its own, on what is loaded.
  <2>2. /\ Carries(Link', << >>, {}, << >>, << >>)
        /\ result # None => result.of = thread[i].query /\ result.at = loaded
        /\ Lost => Lost'
    <3>1. CASE Arrived /\ Take /\ result = Matches(Response.body)
      <4>1. /\ Carries(Link', << >>, {}, << >>, << >>) /\ Owed(Response.body)
            /\ Lost => Lost'
        BY <1>0, <2>1, <3>1, TakeStep
      <4>2. Response.body = Refused \/ Response.body = [of |-> thread[i].query, at |-> loaded]
        BY <1>0, <4>1 DEF Owed
      <4>3. result # None => result = [of |-> thread[i].query, at |-> loaded]
        BY <3>1, <4>2, Constants DEF Matches
      <4> QED BY <4>1, <4>3
    <3>2. CASE AtEnd(Socket) /\ result = None /\ UNCHANGED conn
      BY <1>0, <3>2 DEF AtEnd, BInv, LinkInv, Link, Carries, Lost
    <3> QED BY <1>1, <1>6, <3>1, <3>2
  <2>3. InFlight'
    BY <2>2 DEF InFlight
  <2>4. FoundOwn' /\ CacheIsOwn'
    BY <1>0, <1>2, <2>1, <2>2 DEF Orderly, FoundOwn, CacheIsOwn, app
  <2>5. ASSUME ~refused' PROVE LoadedInv' /\ FoundFresh' /\ CacheIsFresh'
    <3>1. LoadedInv /\ FoundFresh /\ CacheIsFresh
      BY <1>0, <2>1, <2>5 DEF Orderly
    <3>2. Settled => loaded = version
      BY <1>0, <3>1 DEF LoadedInv
    <3>3. CacheIsFresh' /\ (Settled' <=> Settled)
      BY <1>0, <1>3, <1>6, <2>5, <3>1 DEF Settled, CacheIsFresh, CacheIsCurrent, app
    <3>4. LoadedInv'
      BY <1>0, <3>2, <3>3 DEF LoadedInv, app
    <3>5. FoundFresh'
      <4> SUFFICES ASSUME ~overtaken, Settled, NEW j \in Threads, search = j,
                          thread'[j].result # None
                   PROVE  \/ thread'[j].result.at = version
                          \/ main = "polling" /\ query = None /\ thread'[j].stage = "done"
        BY <1>0, <3>3 DEF FoundFresh, app
      <4>1. CASE j = i
        BY <1>0, <1>2, <2>2, <3>2, <4>1
      <4>2. CASE j # i
        BY <1>2, <3>1, <4>2 DEF FoundFresh
      <4> QED BY <4>1, <4>2
    <3> QED BY <3>3, <3>4, <3>5
  <2> QED BY <2>3, <2>4, <2>5 DEF Orderly
<1> QED BY <1>5, <1>6 DEF IInv

---------------------------------------------------------------------------
(* The event loop's steps *)

\* The connection carries on while the holder of the mutex stays the same.
LEMMA QuietInFlight ==
  ASSUME InFlight, UNCHANGED <<conn, version, loaded>>,
         main' = "awaiting" <=> main = "awaiting",
         \A i \in Threads : \/ thread'[i] = thread[i]
                            \/ thread[i].stage # "awaiting" /\ thread'[i].stage # "awaiting"
  PROVE  InFlight'
<1>1. /\ \A ask : Asked(ask) => Asked(ask)'
      /\ \A body : Owed(body) => Owed(body)'
  BY SameHolder
<1> QED BY <1>1 DEF InFlight, Link, Carries

\* A result is sent as it is, or dropped when nobody holds the receiver.
LEMMA DeliverPreserves ==
  ASSUME IInv, NEW i \in Threads, Deliver(i)
  PROVE  IInv'
<1>0. /\ BInv /\ TypeOK /\ thread[i].stage = "delivering"
      /\ thread[i].result \in Answered \cup {None}
      /\ UNCHANGED <<serverVars, app, sent, loaded, history>>
  BY DEF Deliver, IInv, BInv, TypeOK
<1>1. /\ thread' \in [Threads -> Thread]
      /\ thread'[i].query = thread[i].query /\ thread'[i].stage = "done"
      /\ thread'[i].result = IF search = i THEN thread[i].result ELSE None
      /\ \A j \in Threads : j # i => thread'[j] = thread[j]
  BY <1>0, StageStep DEF Deliver
<1>2. TypeOK'
  BY <1>0, <1>1 DEF TypeOK, ServerTypeOK, serverVars, app, history, Thread
<1>3. BInv'
  BY <1>0, <1>1, <1>2
     DEF BInv, LinkInv, Link, VersionInv, ThreadInv, Mutex, Cleared, serverVars, app
<1>4. ASSUME ~spoiled' PROVE Orderly'
  <2>1. Orderly
    BY <1>0, <1>4 DEF IInv, history
  <2>2. FoundOwn' /\ CacheIsOwn'
    BY <1>0, <1>1, <2>1 DEF Orderly, FoundOwn, CacheIsOwn, app
  <2>3. InFlight'
    BY <1>0, <1>1, <2>1, QuietInFlight DEF Orderly, serverVars, app
  <2>4. ~refused' => LoadedInv' /\ FoundFresh' /\ CacheIsFresh'
    BY <1>0, <1>1, <2>1 DEF Orderly, Settled, LoadedInv, FoundFresh, CacheIsFresh,
       CacheIsCurrent, Lost,
       serverVars, app, history
  <2> QED BY <2>2, <2>3, <2>4 DEF Orderly
<1> QED BY <1>3, <1>4 DEF IInv

\* A search starts, or does not: no thread comes to hold the mutex, and none
\* has a result it had not.
LEMMA SearchStarts ==
  ASSUME BInv, ExecuteSearch
  PROVE  /\ \A i \in Threads :
               \/ thread'[i] = thread[i]
               \/ /\ thread[i].stage = "none" /\ thread'[i].stage = "starting"
                  /\ thread'[i].query = query /\ query # None /\ thread'[i].result = None
         /\ search' # search => search' = None \/ thread'[search'].result = None
         /\ query = None => search' = None
<1>1. CASE Cleaned
  BY <1>1 DEF Cleaned
<1>2. CASE FromCache
  BY <1>2 DEF FromCache
<1>3. ASSUME NEW i \in Threads, Started(i)
      PROVE  /\ search' = i /\ thread'[i].result = None /\ query # None
             /\ thread[i].stage = "none" /\ thread'[i].stage = "starting"
             /\ thread'[i].query = query
             /\ \A j \in Threads : j # i => thread'[j] = thread[j]
  BY <1>3 DEF Started, BInv, TypeOK
<1> QED BY <1>1, <1>2, <1>3, ExecuteStep DEF BInv

\* Typing, and F5 while it builds, leave threads and cache as they are.
LEMMA EventPreserves ==
  ASSUME IInv, Tick \/ (\E q \in Queries \cup {None} : Edit(q)) \/ ClearQuery \/ Build
  PROVE  IInv'
<1>1. /\ UNCHANGED <<serverVars, cache, search, pressed, thread, sent, loaded, history>>
      /\ query' \in Queries \cup {None} /\ results' \in Answered \cup {None}
      /\ \/ main = "waiting" /\ main' = "polling" /\ version' = version
         \/ main = "building" /\ main' = "reloading" /\ version' = version + 1 /\ query' = query
         \/ main = "building" /\ main' = "polling" /\ version' = version /\ query' = query
  BY DEF Tick, Edit, ClearQuery, Build, Event, IInv, BInv, TypeOK
<1>2. version' \in 0 .. MaxKeys /\ version' <= pressed /\ loaded <= version'
  BY <1>1, TuiAssumption DEF IInv, BInv, VersionInv, TypeOK
<1>3. TypeOK'
  BY <1>1, <1>2 DEF TypeOK, ServerTypeOK, serverVars, history, IInv, BInv
<1>4. BInv'
  BY <1>1, <1>2, <1>3
     DEF IInv, BInv, LinkInv, Link, VersionInv, ThreadInv, Mutex, Cleared, serverVars
<1>5. ASSUME ~spoiled' PROVE Orderly'
  <2>1. Orderly
    BY <1>1, <1>5 DEF IInv, history
  <2>2. FoundOwn' /\ CacheIsOwn'
    BY <1>1, <2>1 DEF Orderly, FoundOwn, CacheIsOwn
  <2>3. InFlight'
    <3>1. CASE version' = version
      BY <1>1, <2>1, <3>1, QuietInFlight DEF Orderly, serverVars
\* While F5 builds the UI awaits nothing, and what a search is owed is of
\* what is loaded.
    <3>2. CASE main = "building"
      <4>1. \A ask : Asked(ask) => Asked(ask)'
        BY <1>1, <3>2 DEF Asked
      <4>2. \A body : Owed(body) => Owed(body)'
        <5>1. CanLock => CanLock'
          BY <1>1, <3>2 DEF CanLock
        <5>2. ~CanLock => ~CanLock'
          BY <1>1, <3>2 DEF CanLock
        <5> QED BY <1>1, <3>2, <5>1, <5>2 DEF Owed
      <4> QED BY <1>1, <2>1, <4>1, <4>2 DEF Orderly, InFlight, Link, Carries, serverVars
    <3> QED BY <1>1, <3>1, <3>2
  <2>4. ASSUME ~refused' PROVE LoadedInv' /\ FoundFresh' /\ CacheIsFresh'
    <3>1. LoadedInv /\ FoundFresh /\ CacheIsFresh /\ ~spoiled /\ ~refused /\ Cleared
      BY <1>1, <1>5, <2>1, <2>4 DEF Orderly, IInv, BInv, history
    <3>2. CASE main = "waiting"
      BY <1>1, <3>1, <3>2 DEF Settled, LoadedInv, FoundFresh, CacheIsFresh,
         CacheIsCurrent, Lost, serverVars, history
    <3>3. CASE main = "building" /\ main' = "reloading"
      BY <3>3 DEF Settled, LoadedInv, FoundFresh, CacheIsFresh, CacheIsCurrent
    <3>4. CASE main = "building" /\ main' = "polling"
      BY <1>1, <3>1, <3>4 DEF Settled, LoadedInv, FoundFresh, CacheIsFresh,
         CacheIsCurrent, Lost, Cleared,
         serverVars, history
    <3> QED BY <1>1, <3>2, <3>3, <3>4
  <2> QED BY <2>2, <2>3, <2>4 DEF Orderly
<1> QED BY <1>4, <1>5 DEF IInv

LEMMA EnterPreserves ==
  ASSUME IInv, Enter
  PROVE  IInv'
<1>0. /\ BInv /\ TypeOK /\ main = "waiting" /\ main' = "polling" /\ ExecuteSearch
      /\ pressed < MaxKeys /\ pressed' = pressed + 1
      /\ UNCHANGED <<serverVars, query, cache, version, sent, loaded, history>>
  BY DEF Enter, Event, IInv, BInv
<1>1. /\ results' \in Answered \cup {None} /\ search' \in Threads \cup {None}
      /\ thread' \in [Threads -> Thread]
  BY <1>0, ExecuteStep
<1>2. /\ \A i \in Threads :
               \/ thread'[i] = thread[i]
               \/ /\ thread[i].stage = "none" /\ thread'[i].stage = "starting"
                  /\ thread'[i].query = query /\ query # None /\ thread'[i].result = None
      /\ search' # search => search' = None \/ thread'[search'].result = None
  BY <1>0, SearchStarts
<1>3. TypeOK'
  BY <1>0, <1>1, TuiAssumption DEF TypeOK, ServerTypeOK, Thread, serverVars, history
<1>4. BInv'
  <2>1. LinkInv' /\ Cleared'
    BY <1>0 DEF BInv, LinkInv, Link, Cleared, serverVars
  <2>2. VersionInv'
    BY <1>0 DEF BInv, VersionInv, TypeOK
  <2>3. ThreadInv' /\ Mutex'
    BY <1>0, <1>2 DEF BInv, ThreadInv, Mutex
  <2> QED BY <1>3, <2>1, <2>2, <2>3 DEF BInv
<1>5. ASSUME ~spoiled' PROVE Orderly'
  <2>1. Orderly
    BY <1>0, <1>5 DEF IInv, history
  <2>2. FoundOwn' /\ CacheIsOwn'
    BY <1>0, <1>2, <2>1 DEF Orderly, FoundOwn, CacheIsOwn
  <2>3. InFlight'
    BY <1>0, <1>2, <2>1, QuietInFlight DEF Orderly, serverVars
  <2>4. ASSUME ~refused' PROVE LoadedInv' /\ FoundFresh' /\ CacheIsFresh'
    <3>1. LoadedInv /\ FoundFresh /\ CacheIsFresh /\ ~spoiled /\ ~refused
      BY <1>0, <1>5, <2>1, <2>4 DEF Orderly, history
    <3>2. CacheIsFresh'
      BY <1>0, <3>1 DEF CacheIsFresh, CacheIsCurrent, history
    <3>3. LoadedInv'
      BY <1>0, <1>2, <3>1 DEF Settled, LoadedInv, Lost, serverVars
    <3>4. FoundFresh'
      <4> SUFFICES ASSUME ~overtaken, NEW i \in Threads, search' = i, thread'[i].result # None
                   PROVE  thread'[i].result.at = version
        BY <1>0 DEF FoundFresh, history
      <4>1. search = i /\ thread[i].result = thread'[i].result
        BY <1>2, Constants
      <4> QED BY <1>0, <3>1, <4>1 DEF Settled, FoundFresh
    <3> QED BY <3>2, <3>3, <3>4
  <2> QED BY <2>2, <2>3, <2>4 DEF Orderly
<1> QED BY <1>4, <1>5 DEF IInv

\* What is put into the cache is a thread's, for the query it still is for.
LEMMA PollPreserves ==
  ASSUME IInv, PollSearch
  PROVE  IInv'
<1>0. /\ BInv /\ TypeOK /\ main = "polling" /\ main' = "waiting"
      /\ search' = IF Found THEN None ELSE search
      /\ UNCHANGED <<serverVars, query, version, pressed, thread, sent, loaded, history>>
  BY DEF PollSearch, IInv, BInv
<1>1. \/ UNCHANGED <<results, cache>>
      \/ /\ Found /\ search \in Threads /\ thread[search].query = query
         /\ thread[search].stage = "done" /\ query \in Queries
         /\ results' = thread[search].result
         /\ \/ thread[search].result = None /\ cache' = cache
            \/ /\ thread[search].result # None
               /\ cache' = [cache EXCEPT ![query] = thread[search].result]
  BY <1>0 DEF PollSearch, Found, Applies, BInv, TypeOK, ThreadInv
<1>2. TypeOK'
  <2>1. results' \in Answered \cup {None} /\ cache' \in [Queries -> Answered \cup {None}]
    BY <1>0, <1>1 DEF TypeOK
  <2> QED BY <1>0, <2>1 DEF TypeOK, ServerTypeOK, serverVars, history
<1>3. BInv'
  BY <1>0, <1>2 DEF BInv, LinkInv, Link, VersionInv, ThreadInv, Mutex, Cleared, serverVars
<1>4. ASSUME ~spoiled' PROVE Orderly'
  <2>1. Orderly
    BY <1>0, <1>4 DEF IInv, history
  <2>2. FoundOwn' /\ CacheIsOwn'
    BY <1>0, <1>1, <2>1 DEF Orderly, FoundOwn, CacheIsOwn, TypeOK
  <2>3. InFlight'
    BY <1>0, <2>1, QuietInFlight DEF Orderly, serverVars
  <2>4. ASSUME ~refused' PROVE LoadedInv' /\ FoundFresh' /\ CacheIsFresh'
    <3>1. LoadedInv /\ FoundFresh /\ CacheIsFresh /\ ~spoiled /\ ~refused
      BY <1>0, <1>4, <2>1, <2>4 DEF Orderly, history
    <3>2. CacheIsFresh'
      BY <1>0, <1>1, <3>1, Constants DEF CacheIsFresh,
         CacheIsCurrent, FoundFresh, Settled, TypeOK, history
    <3>3. LoadedInv'
      BY <1>0, <3>1 DEF Settled, LoadedInv, Lost, serverVars
    <3>4. FoundFresh'
      <4> SUFFICES ASSUME ~overtaken, NEW i \in Threads, search' = i, thread[i].result # None
                   PROVE  thread[i].result.at = version
        BY <1>0 DEF FoundFresh, history
      <4>1. ~Found /\ search = i
        BY <1>0, Constants
      <4>2. thread[i].stage # "done"
        BY <4>1, Constants DEF Found
      <4> QED BY <1>0, <3>1, <4>1, <4>2 DEF FoundFresh, Settled
    <3> QED BY <3>2, <3>3, <3>4
  <2> QED BY <2>2, <2>3, <2>4 DEF Orderly
<1> QED BY <1>3, <1>4 DEF IInv

LEMMA ReindexPreserves ==
  ASSUME IInv, Reindex
  PROVE  IInv'
<1>0. /\ BInv /\ TypeOK /\ main = "waiting" /\ main' = "building"
      /\ pressed < MaxKeys /\ pressed' = pressed + 1 /\ cache' = [q \in Queries |-> None]
      /\ UNCHANGED <<serverVars, query, results, search, version, thread, sent, loaded, history>>
  BY DEF Reindex, IInv, BInv
<1>1. TypeOK'
  BY <1>0, TuiAssumption DEF TypeOK, ServerTypeOK, serverVars, history
<1>2. BInv'
  <2>1. VersionInv'
    BY <1>0 DEF BInv, VersionInv, TypeOK
  <2> QED
    BY <1>0, <1>1, <2>1 DEF BInv, LinkInv, Link, ThreadInv, Mutex, Cleared, serverVars
<1>3. ASSUME ~spoiled' PROVE Orderly'
  <2>1. Orderly
    BY <1>0, <1>3 DEF IInv, history
  <2>2. InFlight'
    BY <1>0, <2>1, QuietInFlight DEF Orderly, serverVars
  <2>3. FoundOwn' /\ CacheIsOwn'
    BY <1>0, <2>1 DEF Orderly, FoundOwn, CacheIsOwn
  <2>4. ~refused' => LoadedInv' /\ FoundFresh' /\ CacheIsFresh'
    BY <1>0, <2>1 DEF Orderly, Settled, LoadedInv, FoundFresh, CacheIsFresh,
       CacheIsCurrent, Lost,
       serverVars, history
  <2> QED BY <2>2, <2>3, <2>4 DEF Orderly
<1> QED BY <1>2, <1>3 DEF IInv

\* After F5 the query is run again, on an empty cache: whatever was found
\* before will not be looked at, or not be shown, unless it is in hand.
LEMMA RunAgainStep ==
  ASSUME BInv, main \in {"reloading", "awaiting"}, RunAgain, UNCHANGED <<query, cache>>
  PROVE  /\ main' = "polling"
         /\ results' \in Answered \cup {None} /\ search' \in Threads \cup {None}
         /\ thread' \in [Threads -> Thread]
         /\ \A i \in Threads :
               \/ thread'[i] = thread[i]
               \/ /\ thread[i].stage = "none" /\ thread'[i].stage = "starting"
                  /\ thread'[i].query = query /\ query # None /\ thread'[i].result = None
         /\ query # None => search' \in Threads /\ thread'[search'].result = None
         /\ results' # results => results' = None
         /\ overtaken' \in BOOLEAN /\ (overtaken => overtaken')
         /\ query = None => UNCHANGED <<search, thread>> /\ (~overtaken' => ~InHand)
<1>0. /\ overtaken' \in BOOLEAN /\ (overtaken => overtaken')
      /\ query = None /\ ~overtaken' => ~InHand
  BY DEF RunAgain, BInv, TypeOK
<1>1. CASE query = None
  BY <1>0, <1>1 DEF RunAgain, BInv, TypeOK, Thread
<1>2. CASE query # None
  <2>1. ExecuteSearch /\ main' = "polling" /\ cache[query] = None
    BY <1>2 DEF RunAgain, BInv, TypeOK, Cleared
  <2>2. PICK i \in Threads : Started(i)
    BY <1>2, <2>1, ExecuteStep DEF Cleaned, FromCache, BInv
  <2>3. search' = i /\ thread'[i].result = None /\ results' = None
    BY <2>2 DEF Started, BInv, TypeOK
  <2> QED BY <1>0, <1>2, <2>1, <2>3, ExecuteStep, SearchStarts DEF BInv
<1> QED BY <1>1, <1>2

\* A step that ends F5: the message on its way was the last, and the index
\* that was built is loaded, the connection is lost, or the reload is refused.
LEMMA ReindexEnds ==
  ASSUME IInv, main \in {"reloading", "awaiting"}, RunAgain,
         \A i \in Threads : thread[i].stage # "awaiting",
         UNCHANGED <<query, cache, version, pressed, sent, loaded, daemon>>,
         timeouts' \in Nat, spoiled' \in BOOLEAN, refused' \in BOOLEAN,
         ~spoiled' => ~spoiled, ~refused' => ~refused,
         conn' \in [Sockets -> Connection], LinkOK(Link'),
         ~spoiled' => Carries(Link', << >>, {}, << >>, << >>),
         ~spoiled' /\ ~refused' => loaded = version \/ Lost'
  PROVE  IInv'
<1>0. BInv /\ TypeOK
  BY DEF IInv, BInv
<1>1. /\ main' = "polling"
      /\ results' \in Answered \cup {None} /\ search' \in Threads \cup {None}
      /\ thread' \in [Threads -> Thread]
      /\ \A i \in Threads :
               \/ thread'[i] = thread[i]
               \/ /\ thread[i].stage = "none" /\ thread'[i].stage = "starting"
                  /\ thread'[i].query = query /\ query # None /\ thread'[i].result = None
      /\ query # None => search' \in Threads /\ thread'[search'].result = None
      /\ overtaken' \in BOOLEAN
      /\ query = None => UNCHANGED <<search, thread>> /\ (~overtaken' => ~InHand)
  BY <1>0, RunAgainStep
<1>2. TypeOK'
  BY <1>0, <1>1 DEF TypeOK, ServerTypeOK, Connection, Thread
<1>3. \A i \in Threads : thread'[i].stage # "awaiting"
  BY <1>1
<1>4. BInv'
  <2>1. LinkInv' /\ VersionInv' /\ Cleared'
    BY <1>0, <1>1 DEF BInv, LinkInv, LinkOK, VersionInv, Cleared
  <2>2. ThreadInv' /\ Mutex'
    BY <1>0, <1>1, <1>3 DEF BInv, ThreadInv, Mutex
  <2> QED BY <1>2, <2>1, <2>2 DEF BInv
<1>5. ASSUME ~spoiled' PROVE Orderly'
  <2>1. Orderly
    BY <1>5 DEF IInv
  <2>2. InFlight'
    BY <1>5 DEF InFlight
  <2>3. FoundOwn' /\ CacheIsOwn'
    BY <1>0, <1>1, <2>1 DEF Orderly, FoundOwn, CacheIsOwn
  <2>4. ASSUME ~refused' PROVE LoadedInv' /\ FoundFresh' /\ CacheIsFresh'
    <3>1. CacheIsFresh'
      BY <1>0 DEF BInv, Cleared, CacheIsFresh, CacheIsCurrent
    <3>2. LoadedInv'
      BY <1>3, <1>5, <2>4 DEF LoadedInv
    <3>3. FoundFresh'
      <4> SUFFICES ASSUME ~overtaken', NEW i \in Threads, search' = i, thread'[i].result # None
                   PROVE  query = None /\ thread'[i].stage = "done"
        BY <1>1 DEF FoundFresh
      <4>1. query = None /\ UNCHANGED <<search, thread>> /\ ~InHand
        BY <1>1
      <4>2. thread[i].stage # "delivering"
        BY <4>1, Constants DEF InHand
      <4> QED BY <1>0, <4>1, <4>2 DEF BInv, ThreadInv
    <3> QED BY <3>1, <3>2, <3>3
  <2> QED BY <2>2, <2>3, <2>4 DEF Orderly
<1> QED BY <1>4, <1>5 DEF IInv

LEMMA SendReloadPreserves ==
  ASSUME IInv, SendReload
  PROVE  IInv'
<1>0. /\ BInv /\ TypeOK /\ main = "reloading" /\ CanLock
      /\ \A i \in Threads : thread[i].stage # "awaiting"
      /\ UNCHANGED <<daemon, timeouts, query, cache, version, pressed, loaded, spoiled, refused>>
  BY DEF SendReload, CanLock, IInv, BInv
<1>1. ~spoiled => Carries(Link, << >>, {}, << >>, << >>)
  BY <1>0, NothingInFlight DEF IInv, Orderly
<1>2. CASE Lost
  <2>1. RunAgain /\ UNCHANGED <<conn, sent>>
    BY <1>2 DEF SendReload
  <2>2. /\ conn' \in [Sockets -> Connection] /\ LinkOK(Link')
        /\ Link' = Link /\ Lost' /\ timeouts' \in Nat /\ spoiled' \in BOOLEAN /\ refused' \in BOOLEAN
    BY <1>0, <1>2, <2>1, LinkTyped DEF BInv, LinkInv, LinkOK, Link, Lost
  <2> QED BY <1>0, <1>1, <2>1, <2>2, ReindexEnds
<1>3. CASE ~Lost
  <2>1. main' = "awaiting" /\ Write(Reload) /\ UNCHANGED <<results, search, thread, overtaken>>
    BY <1>3 DEF SendReload
  <2>2. PICK r \in Requests :
          /\ conn' \in [Sockets -> Connection] /\ LinkOK(Link') /\ sent' \in Nat
          /\ r.ask = Reload
          /\ Carries(Link, << >>, {}, << >>, << >>) => Carries(Link', <<r>>, {}, << >>, << >>)
    BY <1>0, <1>3, <2>1, WriteStep
  <2>3. TypeOK'
    BY <1>0, <2>1, <2>2 DEF TypeOK, ServerTypeOK, Connection, history
  <2>4. BInv'
    BY <1>0, <2>1, <2>2, <2>3
       DEF BInv, LinkInv, LinkOK, VersionInv, ThreadInv, Mutex, Cleared
  <2>5. ASSUME ~spoiled' PROVE Orderly'
    <3>1. Orderly /\ ~spoiled
      BY <1>0, <2>5 DEF IInv, history
    <3>2. Asked(r.ask)'
      BY <2>1, <2>2 DEF Asked
    <3>3. InFlight'
      BY <1>1, <2>2, <3>1, <3>2 DEF InFlight
    <3>4. FoundOwn' /\ CacheIsOwn'
      BY <1>0, <2>1, <3>1 DEF Orderly, FoundOwn, CacheIsOwn
    <3>5. LoadedInv' /\ FoundFresh' /\ CacheIsFresh'
      BY <2>1 DEF Settled, LoadedInv, FoundFresh, CacheIsFresh, CacheIsCurrent
    <3> QED BY <3>3, <3>4, <3>5 DEF Orderly
  <2> QED BY <2>4, <2>5 DEF IInv
<1> QED BY <1>2, <1>3

LEMMA AwaitReloadPreserves ==
  ASSUME IInv, AwaitReload
  PROVE  IInv'
<1>0. /\ BInv /\ TypeOK /\ main = "awaiting" /\ RunAgain
      /\ \A i \in Threads : thread[i].stage # "awaiting"
      /\ UNCHANGED <<daemon, query, cache, version, pressed, sent, loaded>>
      /\ conn \in [Sockets -> Connection] /\ LinkOK(Link) /\ timeouts \in Nat
      /\ spoiled \in BOOLEAN /\ refused \in BOOLEAN
  BY LinkTyped DEF AwaitReload, Mutex, IInv, BInv, LinkInv, LinkOK
<1>1. CASE Arrived /\ Take /\ refused' = (refused \/ Response.body = Refused)
           /\ UNCHANGED <<timeouts, spoiled>>
  <2>1. /\ conn' \in [Sockets -> Connection] /\ LinkOK(Link')
        /\ InFlight => Carries(Link', << >>, {}, << >>, << >>) /\ Owed(Response.body)
    BY <1>0, <1>1, TakeStep
  <2>2. refused' \in BOOLEAN /\ (~refused' => ~refused /\ Response.body # Refused)
    BY <1>0, <1>1
  <2>3. InFlight /\ ~refused' => loaded = version
    BY <1>0, <2>1, <2>2 DEF Owed
  <2>4. ~spoiled' => InFlight
    BY <1>1 DEF IInv, Orderly
  <2> QED BY <1>0, <1>1, <2>1, <2>2, <2>3, <2>4, ReindexEnds
<1>2. CASE AtEnd(Socket) /\ UNCHANGED <<conn, timeouts, spoiled, refused>>
  <2>1. /\ Link' = Link /\ Carries(Link, << >>, {}, << >>, << >>) /\ Lost'
    BY <1>0, <1>2 DEF Link, AtEnd, LinkOK, Carries, Lost
  <2> QED BY <1>0, <1>2, <2>1, ReindexEnds
<1>3. CASE TimesOut /\ spoiled' = TRUE /\ UNCHANGED <<conn, refused>>
  <2>1. timeouts' \in Nat /\ Link' = Link
    BY <1>0, <1>3 DEF TimesOut, Timeout, Link
  <2> QED BY <1>0, <1>3, <2>1, ReindexEnds
<1> QED BY <1>1, <1>2, <1>3 DEF AwaitReload

---------------------------------------------------------------------------
(* The theorems *)

LEMMA NextPreserves == IInv /\ [Next]_vars => IInv'
<1> SUFFICES ASSUME IInv, [Next]_vars PROVE IInv'
  OBVIOUS
<1>1. CASE UNCHANGED vars
  <2>1. TypeOK'
    BY <1>1 DEF vars, serverVars, clientVars, app, history, TypeOK, ServerTypeOK, IInv, BInv
  <2>2. BInv'
    BY <1>1, <2>1 DEF vars, serverVars, clientVars, app, history, IInv, BInv, LinkInv, Link,
       VersionInv, ThreadInv, Mutex, Cleared
  <2>3. Orderly => Orderly'
    <3>1. Orderly => InFlight'
      BY <1>1, QuietInFlight DEF Orderly, vars, serverVars, clientVars, app
    <3>2. Orderly => FoundOwn' /\ CacheIsOwn' /\ (~refused' => LoadedInv' /\ FoundFresh' /\ CacheIsFresh')
      BY <1>1 DEF vars, serverVars, clientVars, app, history, Orderly, FoundOwn, CacheIsOwn,
         Settled, LoadedInv, FoundFresh, CacheIsFresh, CacheIsCurrent, Lost
    <3> QED BY <3>1, <3>2 DEF Orderly
  <2> QED BY <1>1, <2>2, <2>3 DEF IInv, vars, history
<1>2. CASE Handlers
  <2>1. spoiled' = spoiled
    BY <1>2 DEF Handlers, history
  <2> QED BY <1>2, <2>1, HandlersStep DEF IInv
<1> QED
  BY <1>1, <1>2, ServerPreserves, AskPreserves, AwaitPreserves, DeliverPreserves, EventPreserves, EnterPreserves,
     PollPreserves, ReindexPreserves, SendReloadPreserves, AwaitReloadPreserves DEF Next

LEMMA InitIInv == Init => IInv
<1> SUFFICES ASSUME Init PROVE IInv
  OBVIOUS
<1>1. conn = [c \in Sockets |-> [Unused EXCEPT !.state = "reading"]]
  BY DEF Init
<1>2. [Unused EXCEPT !.state = "reading"] \in Connection
  BY EmptySeq DEF Unused, Connection
<1>3. Link = [Unused EXCEPT !.state = "reading"]
  BY <1>1, Constants DEF Link
<1>4. TypeOK
  <2>1. 0 \in 0 .. MaxKeys
    BY TuiAssumption
  <2>2. ServerTypeOK(Requests, Responses)
    BY <1>1, <1>2 DEF Init, ServerTypeOK, Connection
  <2>3. cache \in [Queries -> Answered \cup {None}]
    BY DEF Init
  <2>4. thread \in [Threads -> Thread]
    BY DEF Init, Thread
  <2> QED BY <2>1, <2>2, <2>3, <2>4 DEF Init, TypeOK, Thread
<1>5. LinkInv /\ Carries(Link, << >>, {}, << >>, << >>)
  BY <1>3 DEF LinkInv, Carries, Unused
<1>6. BInv
  BY <1>4, <1>5 DEF Init, BInv, VersionInv, ThreadInv, Mutex, Cleared
<1>7. Orderly
  BY <1>5 DEF Init, Orderly, InFlight, FoundOwn, CacheIsOwn, LoadedInv, FoundFresh, CacheIsFresh, CacheIsCurrent
<1> QED BY <1>6, <1>7 DEF IInv

\* Every variable keeps its type.
THEOREM Types == Spec => []TypeOK
<1>1. IInv => TypeOK
  BY DEF IInv, BInv
<1> QED BY InitIInv, NextPreserves, <1>1, PTL DEF Spec

\* While every response is awaited, what is cached for a query was found for
\* it: the mutex, and one request on the connection at a time, make up for a
\* client that takes whichever response comes next (client_unix.rs:118-135).
THEOREM CachedIsOwn == Spec => []AwaitedCacheIsOwn
<1>1. IInv => AwaitedCacheIsOwn
  BY DEF IInv, Orderly, AwaitedCacheIsOwn
<1> QED BY InitIInv, NextPreserves, <1>1, PTL DEF Spec

\* ... and it was found on the index that F5 built last, whatever searches were
\* under way when it began (app.rs:570-595), unless F5 ended, with no query in the
\* line, while a thread had an answer it had not sent (app.rs:398-410).
THEOREM CachedIsFresh == Spec => []CacheIsFresh
<1>1. IInv => CacheIsFresh
  BY DEF IInv, Orderly, CacheIsFresh, CacheIsCurrent
<1> QED BY InitIInv, NextPreserves, <1>1, PTL DEF Spec

\* Results that appear are those of the query in the line (app.rs:285-330).
THEOREM ShownAsked == Spec => ShownIsAsked
<1>1. IInv /\ [Next]_vars => [~spoiled /\ results' # results /\ results' # None
                                => results'.of = query']_vars
  <2> SUFFICES ASSUME IInv, Next, ~spoiled, results' # results, results' # None
               PROVE  results'.of = query'
    OBVIOUS
  <2>0. Orderly /\ BInv /\ TypeOK
    BY DEF IInv, BInv
  <2>1. CASE Enter
    BY <2>0, <2>1, ExecuteStep DEF Enter, Cleaned, FromCache, Started, Orderly, CacheIsOwn, TypeOK
  <2>2. CASE PollSearch
    BY <2>0, <2>2 DEF PollSearch, Found, Applies, Orderly, FoundOwn, TypeOK
  <2>3. CASE SendReload \/ AwaitReload
    BY <2>0, <2>3, RunAgainStep DEF SendReload, AwaitReload
  <2>4. CASE (\E q \in Queries \cup {None} : Edit(q)) \/ Tick \/ ClearQuery \/ Reindex \/ Build
    BY <2>4 DEF Edit, Tick, ClearQuery, Reindex, Build
  <2>5. CASE (\E i \in Threads : Ask(i) \/ Await(i) \/ Deliver(i)) \/ Handlers \/ Serving \/ IdleTimeout
             \/ StuckWriter \/ Killed
    BY <2>5 DEF Ask, Await, Deliver, Handlers, Serving, IdleTimeout, StuckWriter, Killed, clientVars, app
  <2> QED BY <2>1, <2>2, <2>3, <2>4, <2>5 DEF Next
<1> QED BY InitIInv, NextPreserves, <1>1, PTL DEF Spec, ShownIsAsked
=============================================================================
