----------------------- MODULE ExtensionClient_proofs -----------------------
(***************************************************************************)
(* A proof about ExtensionClient and the daemon's connections, for any     *)
(* number of sockets, requests, handlers and timeouts: no request is       *)
(* answered with another one's answer.                                     *)
(***************************************************************************)
EXTENDS ExtensionClient, SequenceTheorems, TLAPS

---------------------------------------------------------------------------
(* The inductive invariant: what travels on a connection is typed, and a   *)
(* response that is not an error carries the answer to the request whose   *)
(* id it has.                                                              *)

OwnResponses == {r \in Responses : r.body = Refused \/ (r.body = r.id /\ r.id \in Ids)}

Connection ==
    [state : {"none", "queued", "reading", "draining", "closed"},
     requests : Seq(Requests), hungup : BOOLEAN,
     running : SUBSET Requests, answered : SUBSET Requests,
     outbox : Seq(OwnResponses), writing : BOOLEAN, responses : Seq(OwnResponses)]

Outcomes == [is : {"unsent", "waiting", "rejected", "error", "answer"}, of : Ids \cup {NoId}]

IInv ==
    /\ conn \in [Sockets -> Connection]
    /\ socket \in Sockets \cup {None}
    /\ pending \subseteq Ids
    /\ counter \in Nat
    /\ outcome \in [Ids -> Outcomes]
    /\ OwnAnswer

---------------------------------------------------------------------------
(* Lemmas about one connection *)

LEMMA UnusedConnection == Unused \in Connection
BY EmptySeq DEF Unused, Connection

LEMMA ShutConnection == ASSUME NEW k \in Connection PROVE Shut(k) \in Connection
BY UnusedConnection, EmptySeq DEF Shut, Unused, Connection

LEMMA SentConnection ==
  ASSUME NEW k \in Connection, NEW r \in OwnResponses
  PROVE  Sent(k, r) \in Connection
BY AppendProperties DEF Sent, Connection

\* The daemon's steps keep every connection's type.
LEMMA ServerPreserves ==
  ASSUME IInv, NEW c \in Sockets, Serve(c) \/ Timing(c) \/ Answers(c)
  PROVE  conn' \in [Sockets -> Connection]
<1> DEFINE k == conn[c]
<1>0. k \in Connection
  BY DEF IInv
<1>1. CASE Accept(c)
  <2>1. [k EXCEPT !.state = "reading"] \in Connection /\ Shut(k) \in Connection
    BY <1>0, ShutConnection DEF Connection
  <2>2. \/ conn' = [conn EXCEPT ![c] = [k EXCEPT !.state = "reading"]]
        \/ conn' = [conn EXCEPT ![c] = Shut(k)]
    BY <1>1 DEF Accept, IInv
  <2> QED BY <2>1, <2>2 DEF IInv
<1>2. CASE Read(c)
  <2> DEFINE r == Head(k.requests)
             rest == [k EXCEPT !.requests = Tail(@)]
  <2>1. r \in Requests /\ rest \in Connection
    BY <1>0, <1>2, HeadTailProperties DEF Read, Connection
  <2>2. [id |-> r.id, body |-> Refused] \in OwnResponses
    BY <2>1 DEF Requests, OwnResponses, Responses
  <2>3. Sent(rest, [id |-> r.id, body |-> Refused]) \in Connection
    BY <2>1, <2>2, SentConnection
  <2>4. \A s \in {"reading", "draining"} :
            [rest EXCEPT !.running = @ \cup {r}, !.state = s] \in Connection
    BY <2>1 DEF Connection
  <2>5. rest.state = "reading"
    BY <1>0, <1>2 DEF Read, Connection
  <2> QED
    BY <1>2, <2>1, <2>3, <2>4, <2>5 DEF Read, IInv
<1>3. CASE EndOfFile(c)
  BY <1>0, <1>3 DEF EndOfFile, IInv, Connection
<1>4. CASE WriteOut(c)
  <2>1. Head(k.outbox) \in OwnResponses /\ Tail(k.outbox) \in Seq(OwnResponses)
    BY <1>0, <1>4, HeadTailProperties DEF WriteOut, Connection
  <2>2. Append(k.responses, Head(k.outbox)) \in Seq(OwnResponses) /\ << >> \in Seq(OwnResponses)
    BY <1>0, <2>1, AppendProperties, EmptySeq DEF Connection
  <2> DEFINE gone == [k EXCEPT !.writing = FALSE, !.outbox = << >>]
             out  == [k EXCEPT !.responses = Append(@, Head(k.outbox)), !.outbox = Tail(@)]
  <2>3. gone \in Connection /\ out \in Connection
    BY <1>0, <2>1, <2>2 DEF Connection
  <2>4. conn' = [conn EXCEPT ![c] = gone] \/ conn' = [conn EXCEPT ![c] = out]
    BY <1>4 DEF WriteOut, WriterGone, IInv
  <2> QED BY <2>3, <2>4 DEF IInv
<1>5. CASE Close(c)
  BY <1>0, <1>5, ShutConnection DEF Close, IInv
<1>6. ASSUME NEW r \in k.answered, Retire(c, r) PROVE conn' \in [Sockets -> Connection]
  BY <1>0, <1>6 DEF Retire, IInv, Connection
<1>7. CASE ReadTimeout(c)
  <2>1. [id |-> NoId, body |-> Refused] \in OwnResponses
    BY DEF OwnResponses, Responses
  <2> QED
    BY <1>0, <1>7, <2>1, SentConnection DEF ReadTimeout, IInv
<1>8. CASE WriteTimeout(c)
  BY <1>0, <1>8, EmptySeq DEF WriteTimeout, WriterGone, IInv, Connection
<1>9. ASSUME NEW r \in k.running, Answer(c, r, r.id) PROVE conn' \in [Sockets -> Connection]
  <2>1. r \in Requests
    BY <1>0 DEF Connection
  <2>2. [id |-> r.id, body |-> r.id] \in OwnResponses
    BY <2>1 DEF Requests, OwnResponses, Responses
  <2>3. [k EXCEPT !.running = @ \ {r}, !.answered = @ \cup {r}] \in Connection
    BY <1>0, <2>1 DEF Connection
  <2> DEFINE done == [k EXCEPT !.running = @ \ {r}, !.answered = @ \cup {r}]
  <2>4. Sent(done, [id |-> r.id, body |-> r.id]) \in Connection
    BY <2>2, <2>3, SentConnection
  <2>5. conn' = [conn EXCEPT ![c] = Sent(done, [id |-> r.id, body |-> r.id])]
    BY <1>9 DEF Answer, Sent, IInv
  <2> QED BY <2>4, <2>5 DEF IInv
<1> QED
  BY <1>1, <1>2, <1>3, <1>4, <1>5, <1>6, <1>7, <1>8, <1>9 DEF Serve, Timing, Answers

LEMMA HungUpTyped ==
  ASSUME IInv, NEW cs \in SUBSET Sockets, HungUp(cs)
  PROVE  conn' \in [Sockets -> Connection]
BY UnusedConnection, EmptySeq DEF HungUp, IInv, Connection

---------------------------------------------------------------------------
(* The client's steps *)

\* What is rejected is answered by nothing.
LEMMA RejectAllOwn ==
  ASSUME IInv, RejectAll
  PROVE  outcome' \in [Ids -> Outcomes] /\ OwnAnswer'
BY DEF RejectAll, IInv, OwnAnswer, Outcomes, Rejected, Outcome

\* A response settles the request it answers, or one with an error.
LEMMA HandleResponseOwn ==
  ASSUME IInv, NEW r \in OwnResponses, HandleResponse(r)
  PROVE  pending' \subseteq Ids /\ outcome' \in [Ids -> Outcomes] /\ OwnAnswer'
<1>1. r.id \in pending => r.id # NoId
  <2>1. NoId \notin Ids
    BY ClientAssumption DEF Ids
  <2> QED BY <2>1 DEF IInv
<1>2. CASE r.id \in pending
  <2>1. r.id \in Ids
    BY <1>2 DEF IInv
  <2> QED
    BY <1>2, <2>1 DEF HandleResponse, Settled, Resolved, Outcome, IInv, OwnAnswer, OwnResponses, Outcomes
<1>3. CASE r.id \notin pending /\ r.id = NoId /\ queue # << >>
  <2>1. r.body = Refused
    BY <1>3, ClientAssumption DEF OwnResponses, Ids
  <2> QED
    BY <1>3, <2>1 DEF HandleResponse, Settled, Resolved, Outcome, IInv, OwnAnswer, Outcomes
<1>4. CASE r.id \notin pending /\ ~(r.id = NoId /\ queue # << >>)
  BY <1>4 DEF HandleResponse, IInv, OwnAnswer
<1> QED BY <1>2, <1>3, <1>4

LEMMA DisconnectPreserves ==
  ASSUME IInv, NEW c \in Sockets, HandleDisconnect(c)
  PROVE  IInv'
<1>1. conn' \in [Sockets -> Connection]
  BY HungUpTyped DEF HandleDisconnect, IInv, Connected
<1> QED
  BY <1>1, RejectAllOwn DEF HandleDisconnect, IInv

LEMMA EventPreserves ==
  ASSUME IInv, NEW c \in Sockets, Event(c)
  PROVE  IInv'
<1>1. CASE OnConnect(c)
  <2>1. [Unused EXCEPT !.state = "queued"] \in Connection
    BY UnusedConnection DEF Connection
  <2> QED
    BY <1>1, <2>1 DEF OnConnect, Queued, IInv, OwnAnswer
<1>2. CASE OnError(c) \/ OnClose(c)
  BY <1>2, DisconnectPreserves DEF OnError, OnClose
<1>3. CASE OnData(c)
  <2>1. conn[c].responses \in Seq(OwnResponses)
    BY DEF IInv, Connection
  <2>2. Head(conn[c].responses) \in OwnResponses /\ Tail(conn[c].responses) \in Seq(OwnResponses)
    BY <1>3, <2>1, HeadTailProperties DEF OnData
  <2>3. conn' \in [Sockets -> Connection]
    <3> DEFINE rest == [conn[c] EXCEPT !.responses = Tail(@)]
    <3>1. rest \in Connection
      BY <2>2 DEF IInv, Connection
    <3>2. conn' = [conn EXCEPT ![c] = rest]
      BY <1>3 DEF OnData, IInv
    <3> QED BY <3>1, <3>2 DEF IInv
  <2> QED
    BY <1>3, <2>2, <2>3, HandleResponseOwn DEF OnData, IInv
<1> QED BY <1>1, <1>2, <1>3 DEF Event

LEMMA SendPreserves ==
  ASSUME IInv, NEW ask \in Asks, Send(ask)
  PROVE  IInv'
<1>1. counter \in Ids /\ socket \in Sockets
  BY ClientAssumption DEF Send, Ids, IInv, Connected
<1>2. [id |-> counter, ask |-> ask] \in Requests
  BY <1>1 DEF Requests
<1>3. conn' \in [Sockets -> Connection]
  <2> DEFINE k == conn[socket]
             r == [id |-> counter, ask |-> ask]
  <2>1. k \in Connection
    BY <1>1 DEF IInv
  <2>2. Append(k.requests, r) \in Seq(Requests)
    BY <1>2, <2>1, AppendProperties DEF Connection
  <2>3. k \in Connection /\ [k EXCEPT !.requests = Append(@, r)] \in Connection
    BY <2>1, <2>2 DEF Connection
  <2>4. \/ conn' = [conn EXCEPT ![socket] = [k EXCEPT !.requests = Append(@, r)]]
        \/ conn' = [conn EXCEPT ![socket] = k]
    BY <1>1, <2>1 DEF Send, IInv, Connection
  <2> QED BY <1>1, <2>3, <2>4 DEF IInv
<1>4. outcome' \in [Ids -> Outcomes] /\ OwnAnswer'
  BY <1>1 DEF Send, IInv, OwnAnswer, Outcomes, Waiting, Outcome
<1> QED
  BY <1>1, <1>3, <1>4 DEF Send, IInv

LEMMA OtherPreserves ==
  ASSUME IInv, Connect \/ Reconnect \/ Dispose \/ \E i \in Ids : GiveUp(i)
  PROVE  IInv'
<1>1. CASE Connect \/ Reconnect
  BY <1>1 DEF Connect, Reconnect, serverVars, IInv, OwnAnswer
<1>2. CASE Dispose
  <2>1. conn' \in [Sockets -> Connection]
    BY <1>2, HungUpTyped DEF Dispose, IInv, Connected
  <2> QED
    BY <1>2, <2>1, RejectAllOwn DEF Dispose, IInv
<1>3. ASSUME NEW i \in Ids, GiveUp(i) PROVE IInv'
  BY <1>3 DEF GiveUp, Settled, Rejected, Outcome, serverVars, IInv, OwnAnswer, Outcomes
<1> QED BY <1>1, <1>2, <1>3

LEMMA NextPreserves == IInv /\ [Next]_vars => IInv'
<1> SUFFICES ASSUME IInv, [Next]_vars PROVE IInv'
  OBVIOUS
<1>1. ASSUME conn' \in [Sockets -> Connection], UNCHANGED clientVars PROVE IInv'
  BY <1>1 DEF clientVars, IInv, OwnAnswer
<1>2. CASE Exit /\ UNCHANGED clientVars
  <2>1. conn' \in [Sockets -> Connection]
    BY <1>2, ShutConnection DEF Exit, IInv
  <2> QED BY <1>1, <1>2, <2>1
<1>3. CASE (Start \/ UNCHANGED serverVars) /\ UNCHANGED clientVars
  BY <1>1, <1>3 DEF Start, serverVars, IInv
<1>4. ASSUME NEW c \in Sockets, (Serve(c) \/ Timing(c) \/ Answers(c)) /\ UNCHANGED clientVars
      PROVE  IInv'
  BY <1>1, <1>4, ServerPreserves
<1> QED
  BY <1>2, <1>3, <1>4, EventPreserves, SendPreserves, OtherPreserves DEF Next, vars

LEMMA InitIInv == Init => IInv
BY UnusedConnection DEF Init, ServerInit, IInv, OwnAnswer, Outcomes, Outcome

\* No request is answered with another's answer, whatever is late, lost, refused,
\* without an id, or arrives on a socket that was replaced (client.ts:150-177).
THEOREM Own == Spec => []OwnAnswer
<1>1. IInv => OwnAnswer
  BY DEF IInv
<1> QED BY InitIInv, NextPreserves, <1>1, PTL DEF Spec

---------------------------------------------------------------------------
(* The queue for responses without an id: what is in it is pending, and ids *)
(* are given out in order, so it stays in the order of sending.             *)

Ascending(q) == \A m, n \in DOMAIN q : m < n => q[m] < q[n]
Elements(q) == {q[n] : n \in DOMAIN q}

QInv ==
    /\ queue \in Seq(Ids)
    /\ \A i \in pending : i < counter
    /\ QueueIsPending

LEMMA QueueForm ==
  QueueIsPending <=>
    /\ Elements(queue) = pending /\ Ascending(queue)
    /\ \A i \in Ids : i \in pending <=> outcome[i] = Waiting
BY DEF QueueIsPending, Elements, Ascending

\* Ids are unique in the queue, so that splicing one out leaves the others.
LEMMA WithoutFirst ==
  ASSUME NEW q \in Seq(Ids), NEW i \in Ids, Ascending(q)
  PROVE  /\ Without(q, i) \in Seq(Ids)
         /\ Ascending(Without(q, i))
         /\ Elements(Without(q, i)) = Elements(q) \ {i}
<1> DEFINE w == Without(q, i)
<1>0. Ids \subseteq Nat /\ Len(q) \in Nat /\ DOMAIN q = 1 .. Len(q)
  BY LenProperties, ClientAssumption DEF Ids
<1>1. CASE \A n \in 1 .. Len(q) : q[n] # i
  BY <1>0, <1>1 DEF Without, RemoveFirst, Elements
<1>2. ASSUME NEW n \in 1 .. Len(q), q[n] = i
      PROVE  /\ w \in Seq(Ids)
             /\ Ascending(w)
             /\ Elements(w) = Elements(q) \ {i}
  <2>1. \A m \in 1 .. Len(q) : q[m] = i => m = n
    BY <1>0, <1>2 DEF Ascending
  <2>2. SelectInSeq(q, LAMBDA v : v = i) = n
    <3>1. {m \in 1 .. Len(q) : q[m] = i} = {n}
      BY <1>2, <2>1
    <3>2. Min({n}) = n
      BY <1>0 DEF Min
    <3> QED BY <3>1, <3>2 DEF SelectInSeq
  <2> DEFINE front == SubSeq(q, 1, n - 1)
             back  == SubSeq(q, n + 1, Len(q))
  <2>3. w = front \o back
    BY <1>2, <2>2 DEF Without, RemoveFirst, RemoveAt
  <2>4. /\ front \in Seq(Ids) /\ Len(front) = n - 1 /\ \A m \in 1 .. n - 1 : front[m] = q[m]
    <3>1. \A m \in 1 .. n - 1 : q[m] \in Ids
      BY <1>0, ElementOfSeq
    <3> QED BY <1>0, <3>1, SubSeqProperties
  <2>5. /\ back \in Seq(Ids) /\ Len(back) = Len(q) - n
        /\ \A m \in 1 .. Len(q) - n : back[m] = q[n + m]
    <3>1. \A m \in n + 1 .. Len(q) : q[m] \in Ids
      BY <1>0, ElementOfSeq
    <3>2. Len(back) = Len(q) - n /\ back \in Seq(Ids)
      BY <1>0, <3>1, SubSeqProperties
    <3>3. \A m \in 1 .. (Len(q) - (n + 1) + 1) : back[m] = q[(n + 1) + m - 1]
      BY <1>0, <3>1, SubSeqProperties
    <3>4. ASSUME NEW m \in 1 .. Len(q) - n PROVE back[m] = q[n + m]
      <4>1. m \in 1 .. (Len(q) - (n + 1) + 1) /\ (n + 1) + m - 1 = n + m
        BY <1>0
      <4> QED BY <3>3, <4>1
    <3> QED BY <3>2, <3>4
  <2> HIDE DEF front, back
  <2>55. /\ w \in Seq(Ids) /\ Len(w) = Len(q) - 1
         /\ \A m \in 1 .. Len(q) - 1 : w[m] = IF m < n THEN q[m] ELSE q[m + 1]
    <3>1. w \in Seq(Ids) /\ Len(w) = Len(q) - 1
      <4>1. w \in Seq(Ids) /\ Len(w) = Len(front) + Len(back)
        BY <2>3, <2>4, <2>5, ConcatProperties
      <4> QED BY <4>1, <2>4, <2>5, <1>0
    <3>2. \A m \in 1 .. Len(q) - 1 : m <= Len(front) => w[m] = front[m]
      BY <1>0, <2>3, <2>4, <2>5, ConcatProperties
    <3>3. \A m \in 1 .. Len(q) - 1 : m > Len(front) => w[m] = back[m - (n - 1)]
      BY <1>0, <2>3, <2>4, <2>5, ConcatProperties
    <3>4. ASSUME NEW m \in 1 .. Len(q) - 1
          PROVE  w[m] = IF m < n THEN q[m] ELSE q[m + 1]
      <4>1. CASE m < n
        BY <1>0, <4>1, <2>4, <3>2
      <4>2. CASE ~(m < n)
        <5>1. m - (n - 1) \in 1 .. Len(q) - n /\ n + (m - (n - 1)) = m + 1 /\ m > Len(front)
          BY <1>0, <4>2, <2>4
        <5>2. w[m] = back[m - (n - 1)]
          BY <5>1, <3>3
        <5> QED BY <4>2, <5>1, <5>2, <2>5
      <4> QED BY <4>1, <4>2
    <3> QED BY <3>1, <3>4
  <2> HIDE DEF w
  <2>6. DOMAIN w = 1 .. Len(q) - 1
    BY <2>55, LenProperties
  <2>7. Ascending(w)
    <3> SUFFICES ASSUME NEW k \in 1 .. Len(q) - 1, NEW m \in 1 .. Len(q) - 1, k < m
                 PROVE  w[k] < w[m]
      BY <2>6 DEF Ascending
    <3> DEFINE from(j) == IF j < n THEN j ELSE j + 1
    <3>1. /\ from(k) \in 1 .. Len(q) /\ from(m) \in 1 .. Len(q) /\ from(k) < from(m)
          /\ w[k] = q[from(k)] /\ w[m] = q[from(m)]
      BY <1>0, <2>55
    <3> HIDE DEF from
    <3> QED BY <1>0, <3>1 DEF Ascending
  <2>8. Elements(w) = Elements(q) \ {i}
    <3>1. \A m \in 1 .. Len(q) - 1 : w[m] \in Elements(q) \ {i}
      <4> SUFFICES ASSUME NEW m \in 1 .. Len(q) - 1 PROVE w[m] \in Elements(q) \ {i}
        OBVIOUS
      <4> DEFINE from == IF m < n THEN m ELSE m + 1
      <4>1. from \in 1 .. Len(q) /\ from # n /\ w[m] = q[from]
        BY <1>0, <2>55
      <4> HIDE DEF from
      <4> QED BY <1>0, <2>1, <4>1 DEF Elements
    <3>2. \A m \in 1 .. Len(q) : q[m] # i => \E k \in 1 .. Len(q) - 1 : w[k] = q[m]
      <4> SUFFICES ASSUME NEW m \in 1 .. Len(q), q[m] # i
                   PROVE  \E k \in 1 .. Len(q) - 1 : w[k] = q[m]
        OBVIOUS
      <4>1. CASE m < n
        BY <1>0, <4>1, <2>55
      <4>2. CASE m > n
        <5>1. m - 1 \in 1 .. Len(q) - 1 /\ w[m - 1] = q[m]
          BY <1>0, <4>2, <2>55
        <5> QED BY <5>1
      <4> QED BY <4>1, <4>2, <1>0, <1>2
    <3>3. Elements(w) = {w[k] : k \in 1 .. Len(q) - 1} /\ Elements(q) = {q[m] : m \in 1 .. Len(q)}
      BY <1>0, <2>6 DEF Elements
    <3>4. ASSUME NEW x \in Elements(q) \ {i} PROVE x \in Elements(w)
      <4>1. PICK m \in 1 .. Len(q) : x = q[m]
        BY <3>3
      <4>2. PICK k \in 1 .. Len(q) - 1 : w[k] = q[m]
        BY <3>2, <4>1
      <4> QED BY <3>3, <4>1, <4>2
    <3>5. Elements(w) \subseteq Elements(q) \ {i}
      BY <3>1, <3>3
    <3> HIDE DEF Elements
    <3> QED BY <3>4, <3>5
  <2> QED BY <2>55, <2>7, <2>8 DEF w
<1> QED BY <1>1, <1>2, <1>0

\* One request is settled, in the three places that know of it.
LEMMA SettledQueue ==
  ASSUME IInv, QInv, NEW i \in pending, NEW result, result # Waiting,
         Settled(i, result), counter' = counter
  PROVE  QInv'
<1>1. i \in Ids /\ Ascending(queue) /\ Elements(queue) = pending
  BY QueueForm DEF IInv, QInv
<1>2. /\ queue' \in Seq(Ids) /\ Ascending(queue')
      /\ Elements(queue') = pending \ {i}
  BY <1>1, WithoutFirst DEF QInv, Settled
<1>3. \A j \in Ids : j \in pending' <=> outcome'[j] = Waiting
  BY <1>1, QueueForm DEF QInv, IInv, Settled
<1>4. QueueIsPending'
  BY <1>2, <1>3 DEF QueueIsPending, Elements, Ascending, Settled
<1> QED BY <1>2, <1>4 DEF QInv, Settled

\* Everything is rejected at once.
LEMMA RejectedQueue ==
  ASSUME IInv, QInv, RejectAll, pending' = {}, queue' = << >>, counter' = counter
  PROVE  QInv'
<1>1. \A j \in Ids : outcome'[j] # Waiting
  BY QueueForm DEF RejectAll, QInv, Rejected, Waiting, Outcome
<1>2. queue' \in Seq(Ids) /\ DOMAIN queue' = {}
  BY EmptySeq
<1> QED BY <1>1, <1>2 DEF QInv, QueueIsPending

\* A new request has the largest id so far.
LEMMA SentQueue ==
  ASSUME IInv, QInv, NEW ask \in Asks, Send(ask)
  PROVE  QInv'
<1> DEFINE n == Len(queue)
<1>0. /\ counter \in Ids /\ counter \in Nat /\ n \in Nat /\ queue \in Seq(Ids)
      /\ DOMAIN queue = 1 .. n /\ Ids \subseteq Nat
  BY ClientAssumption, LenProperties DEF Send, Ids, IInv, QInv
<1>1. /\ queue' \in Seq(Ids) /\ DOMAIN queue' = 1 .. n + 1
      /\ \A m \in 1 .. n : queue'[m] = queue[m]
      /\ queue'[n + 1] = counter
  <2>1. queue' = Append(queue, counter)
    BY DEF Send
  <2>2. queue' \in Seq(Ids) /\ Len(queue') = n + 1
    BY <1>0, <2>1, AppendProperties
  <2>3. (\A m \in 1 .. n : queue'[m] = queue[m]) /\ queue'[n + 1] = counter
    BY <1>0, <2>1, AppendProperties
  <2> QED BY <2>2, <2>3, LenProperties
<1>2. \A m \in 1 .. n : queue[m] \in pending /\ queue[m] < counter
  BY <1>0 DEF QInv, QueueIsPending
<1>3. Ascending(queue')
  <2>1. \A m, k \in 1 .. n : m < k => queue'[m] < queue'[k]
    BY <1>0, <1>1 DEF QInv, QueueIsPending
  <2>2. \A m \in 1 .. n : queue'[m] < queue'[n + 1]
    BY <1>1, <1>2
  <2>3. \A m \in 1 .. n + 1 : m \in 1 .. n \/ m = n + 1
    BY <1>0
  <2>4. ASSUME NEW m \in 1 .. n + 1, NEW k \in 1 .. n + 1, m < k
        PROVE  queue'[m] < queue'[k]
    <3>1. m \in 1 .. n
      BY <1>0, <2>4
    <3> QED BY <2>1, <2>2, <2>3, <2>4, <3>1
  <2> QED BY <1>1, <2>4 DEF Ascending
<1>4. Elements(queue') = pending \cup {counter}
  <2>1. Elements(queue') = {queue'[m] : m \in 1 .. n} \cup {queue'[n + 1]}
    BY <1>0, <1>1 DEF Elements
  <2>2. {queue'[m] : m \in 1 .. n} = pending
    BY <1>0, <1>1 DEF QInv, QueueIsPending
  <2> QED BY <1>1, <2>1, <2>2
<1>5. \A j \in Ids : j \in pending' <=> outcome'[j] = Waiting
  BY <1>0 DEF QInv, QueueIsPending, Send, IInv
<1>6. QueueIsPending'
  BY <1>3, <1>4, <1>5 DEF QueueIsPending, Elements, Ascending, Send
<1>7. pending' = pending \cup {counter} /\ counter' = counter + 1 /\ pending \subseteq Nat
  BY <1>0 DEF Send, IInv
<1>8. \A i \in pending' : i < counter'
  BY <1>0, <1>7 DEF QInv
<1> QED BY <1>1, <1>6, <1>8 DEF QInv

LEMMA DataQueue ==
  ASSUME IInv, QInv, NEW c \in Sockets, OnData(c)
  PROVE  QInv'
<1> DEFINE r == Head(conn[c].responses)
<1>1. HandleResponse(r) /\ counter' = counter
  BY DEF OnData
<1>2. Resolved(r.body) # Waiting
  BY DEF Resolved, Waiting, Outcome
<1>3. CASE r.id \in pending
  BY <1>1, <1>2, <1>3, SettledQueue DEF HandleResponse
<1>4. CASE r.id \notin pending /\ r.id = NoId /\ queue # << >>
  <2>1. queue \in Seq(Ids) /\ 1 \in DOMAIN queue /\ Head(queue) = queue[1]
    BY <1>4, LenProperties, HeadTailProperties, EmptySeq DEF QInv
  <2>2. Head(queue) \in pending
    BY <2>1 DEF QInv, QueueIsPending
  <2> QED BY <1>1, <1>2, <1>4, <2>2, SettledQueue DEF HandleResponse
<1>5. CASE r.id \notin pending /\ ~(r.id = NoId /\ queue # << >>)
  BY <1>1, <1>5 DEF HandleResponse, QInv, QueueIsPending
<1> QED BY <1>3, <1>4, <1>5

LEMMA QueuePreserved == IInv /\ QInv /\ [Next]_vars => QInv'
<1> SUFFICES ASSUME IInv, QInv, [Next]_vars PROVE QInv'
  OBVIOUS
<1>1. ASSUME UNCHANGED <<pending, queue, counter, outcome>> PROVE QInv'
  BY <1>1 DEF QInv, QueueIsPending
<1>2. CASE UNCHANGED clientVars \/ Connect \/ Reconnect
  BY <1>1, <1>2 DEF clientVars, Connect, Reconnect
<1>3. CASE Dispose
  BY <1>3, RejectedQueue DEF Dispose
<1>4. ASSUME NEW c \in Sockets, Event(c) PROVE QInv'
  <2>1. CASE OnConnect(c)
    BY <1>1, <2>1 DEF OnConnect
  <2>2. CASE OnError(c) \/ OnClose(c)
    BY <2>2, RejectedQueue DEF OnError, OnClose, HandleDisconnect
  <2>3. CASE OnData(c)
    BY <2>3, DataQueue
  <2> QED BY <1>4, <2>1, <2>2, <2>3 DEF Event
<1>5. ASSUME NEW ask \in Asks, Send(ask) PROVE QInv'
  BY <1>5, SentQueue
<1>6. ASSUME NEW i \in Ids, GiveUp(i) PROVE QInv'
  <2>1. Rejected # Waiting
    BY DEF Rejected, Waiting, Outcome
  <2> QED BY <1>6, <2>1, SettledQueue DEF GiveUp
<1>7. CASE UNCHANGED vars
  BY <1>2, <1>7 DEF vars
<1> QED BY <1>2, <1>3, <1>4, <1>5, <1>6, <1>7 DEF Next

LEMMA InitQueue == Init => QInv
BY EmptySeq, ClientAssumption DEF Init, QInv, QueueIsPending, Waiting, Outcome, Ids

\* A response without an id goes to the oldest request that still waits, and
\* to none that was settled, however requests time out, fail, are answered out
\* of order or are rejected together (client.ts:88-90, 150-206, 333).
THEOREM OldestFirst == Spec => []QueueIsPending
<1>1. QInv => QueueIsPending
  BY DEF QInv
<1> QED BY InitIInv, NextPreserves, InitQueue, QueuePreserved, <1>1, PTL DEF Spec

---------------------------------------------------------------------------
(* Reconnection *)

TInv ==
    /\ end \in [Sockets -> {"unused", "connecting", "open"}]
    /\ socket \in Sockets \cup {None}
    /\ timer \in BOOLEAN /\ disposed \in BOOLEAN
    /\ KeepsTrying

\* connect adds an attempt unless there is no need of one.
LEMMA ConnectingAttempts ==
  ASSUME TInv, Connecting
  PROVE  /\ end' \in [Sockets -> {"unused", "connecting", "open"}]
         /\ Attempts \subseteq Attempts'
         /\ disposed \/ Connected \/ Attempts' # {}
BY DEF Connecting, TInv, Attempts

LEMMA TryingPreserved == TInv /\ [Next]_vars => TInv'
<1> SUFFICES ASSUME TInv, [Next]_vars PROVE TInv'
  OBVIOUS
<1>1. ASSUME UNCHANGED <<end, socket, timer, disposed>> PROVE TInv'
  BY <1>1 DEF TInv, KeepsTrying, Connected, Attempts
<1>2. CASE UNCHANGED clientVars
  BY <1>1, <1>2 DEF clientVars
<1>3. CASE Connect \/ Reconnect
  BY <1>3, ConnectingAttempts DEF Connect, Reconnect, TInv, KeepsTrying, Connected
<1>4. CASE Dispose
  BY <1>4 DEF Dispose, TInv, KeepsTrying, Connected
<1>5. ASSUME NEW c \in Sockets, Event(c) PROVE TInv'
  <2>1. CASE OnConnect(c)
    BY <2>1, ClientAssumption DEF OnConnect, TInv, KeepsTrying, Connected
  <2>2. CASE OnError(c) \/ OnClose(c)
    <3>1. /\ disposed' = disposed /\ timer' = (timer \/ ~disposed) /\ socket' = None
          /\ end' \in [Sockets -> {"unused", "connecting", "open"}]
      BY <2>2 DEF OnError, OnClose, HandleDisconnect, TInv
    <3>2. disposed' \/ timer'
      BY <3>1 DEF TInv
    <3> QED BY <3>1, <3>2 DEF TInv, KeepsTrying
  <2>3. CASE OnData(c)
    BY <1>1, <2>3 DEF OnData
  <2> QED BY <1>5, <2>1, <2>2, <2>3 DEF Event
<1>6. ASSUME NEW ask \in Asks, Send(ask) PROVE TInv'
  BY <1>1, <1>6 DEF Send
<1>7. ASSUME NEW i \in Ids, GiveUp(i) PROVE TInv'
  BY <1>1, <1>7 DEF GiveUp
<1>8. CASE UNCHANGED vars
  BY <1>2, <1>8 DEF vars
<1> QED BY <1>2, <1>3, <1>4, <1>5, <1>6, <1>7, <1>8 DEF Next

LEMMA InitTrying == Init => TInv
<1> SUFFICES ASSUME Init PROVE TInv
  OBVIOUS
<1>1. PICK c \in Sockets :
          end = [d \in Sockets |-> IF d = c THEN "connecting" ELSE "unused"]
  BY DEF Init
<1> QED BY <1>1 DEF Init, TInv, KeepsTrying, Attempts

\* A client that has lost its connection, or failed to get one, has an attempt
\* under way or a timer that will make one: also when the socket that was lost is
\* not the one it uses (client.ts:52-79, 83-99, 315-330).
THEOREM Trying == Spec => []KeepsTrying
<1>1. TInv => KeepsTrying
  BY DEF TInv
<1> QED BY <1>1, InitTrying, TryingPreserved, PTL DEF Spec

---------------------------------------------------------------------------

\* What the daemon's process and its clock are stays typed as well.
LEMMA DaemonTyped ==
  ASSUME daemon \in {"up", "stopping", "leaving", "down"}, timeouts \in Nat, [Next]_vars
  PROVE  daemon' \in {"up", "stopping", "leaving", "down"} /\ timeouts' \in Nat
<1>1. CASE UNCHANGED <<daemon, timeouts>>
  BY <1>1
<1>2. ASSUME NEW c \in Sockets, Serve(c) \/ Timing(c) \/ Answers(c) PROVE
      daemon' \in {"up", "stopping", "leaving", "down"} /\ timeouts' \in Nat
  <2>1. CASE Accept(c)
    BY <2>1 DEF Accept
  <2>2. CASE Read(c) \/ EndOfFile(c) \/ WriteOut(c) \/ Close(c)
    BY <2>2 DEF Read, EndOfFile, WriteOut, Close
  <2>3. ASSUME NEW r, Retire(c, r) PROVE UNCHANGED <<daemon, timeouts>>
    BY <2>3 DEF Retire
  <2>4. CASE ReadTimeout(c) \/ WriteTimeout(c)
    BY <2>4 DEF ReadTimeout, WriteTimeout, Timeout
  <2>5. ASSUME NEW r, Answer(c, r, r.id)
        PROVE  daemon' \in {"up", "stopping", "leaving", "down"} /\ timeouts' = timeouts
    BY <2>5 DEF Answer
  <2> QED BY <1>2, <2>1, <2>2, <2>3, <2>4, <2>5 DEF Serve, Timing, Answers
<1>3. CASE Exit \/ Start
  BY <1>3 DEF Exit, Start
<1>4. ASSUME NEW c \in Sockets, Event(c) PROVE UNCHANGED <<daemon, timeouts>>
  BY <1>4 DEF Event, OnConnect, OnError, OnClose, OnData, HandleDisconnect
<1>5. CASE Connect \/ Reconnect \/ Dispose \/ (\E ask \in Asks : Send(ask)) \/ (\E i \in Ids : GiveUp(i))
  BY <1>5 DEF Connect, Reconnect, Dispose, Send, GiveUp, serverVars
<1>6. CASE UNCHANGED vars
  BY <1>6 DEF vars, serverVars
<1> QED BY <1>1, <1>2, <1>3, <1>4, <1>5, <1>6 DEF Next

SInv ==
    /\ IInv /\ QInv /\ TInv
    /\ daemon \in {"up", "stopping", "leaving", "down"} /\ timeouts \in Nat

\* Every variable of the client and of the connections keeps its type.
THEOREM Types == Spec => []TypeOK
<1>1. Init => SInv
  BY InitIInv, InitQueue, InitTrying DEF Init, ServerInit, SInv
<1>2. SInv /\ [Next]_vars => SInv'
  BY NextPreserves, QueuePreserved, TryingPreserved, DaemonTyped DEF SInv
<1>3. SInv => TypeOK
  <2> SUFFICES ASSUME SInv PROVE TypeOK
    OBVIOUS
  <2>1. Seq(OwnResponses) \subseteq Seq(Responses)
    BY SeqMonotonic DEF OwnResponses
  <2>2. ServerTypeOK(Requests, Responses)
    BY <2>1 DEF SInv, IInv, ServerTypeOK, Connection
  <2> QED BY <2>2 DEF SInv, IInv, QInv, TInv, TypeOK, Outcomes
<1> QED BY <1>1, <1>2, <1>3, PTL DEF Spec
=============================================================================
