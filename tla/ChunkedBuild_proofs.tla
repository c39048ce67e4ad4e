------------------------ MODULE ChunkedBuild_proofs ------------------------
(***************************************************************************)
(* Proofs about ChunkedBuild, for any number of chunks and files, any      *)
(* capacity of the channel and any set of segment files: its types, that   *)
(* the caller is told of every segment, that every document is counted,    *)
(* and that the pipeline implements BuildContract.                         *)
(***************************************************************************)
EXTENDS ChunkedBuild, SequenceTheorems, TLAPS

---------------------------------------------------------------------------
(* The inductive invariant                                                 *)

Busy == writer \in {"counting", "writing"}

\* The thread ended by itself with nothing left to do or to tell
Settled == writer = "ended" /\ errors = 0 /\ completions = << >>

\* Which steps of the two threads can coincide
Control ==
    /\ open <=> pc \in {"process", "send"}
    /\ writer = "ended" => ~open /\ channel = << >>
    /\ writer = "writing" => job \in counted
    /\ pc \in {"docs", "paths", "meta"} => Settled
    /\ meta # "absent" => pc = "done"
    /\ meta = "whole" => Settled
    /\ result = "running" <=> pc # "done"
    /\ result = "ok" => meta = "whole"

\* Segments travel in the order of their numbers, so none is begun twice
Ordered ==
    /\ \A i, j \in DOMAIN channel : i < j => channel[i] < channel[j]
    /\ \A i \in DOMAIN channel : job < channel[i] /\ channel[i] < chunk
    /\ job < chunk
    /\ \A s \in Segments : disk[s] = "whole" => s <= job
    /\ Busy => disk[job] = "partial"

\* Where the segment s of a document can be while nothing has failed
Accounted(s) ==
    \/ pc = "send" /\ s = chunk
    \/ \E i \in DOMAIN channel : channel[i] = s
    \/ Busy /\ s = job
    \/ disk[s] = "whole" /\ s \in counted
    \/ ~NoErrors

AllAccounted == \A d \in DOMAIN docs : Accounted(docs[d])

\* The segments between segment_ids and the caller's count of completions
OnTheWay ==
    (IF pc = "send" THEN 1 ELSE 0) + Len(channel) + (IF Busy THEN 1 ELSE 0)
        + Len(completions) + completed

Tallied ==
    /\ OnTheWay <= Len(segmentIds)
    /\ NoErrors => OnTheWay = Len(segmentIds)

IInv == TypeOK /\ Control /\ Ordered /\ AllAccounted /\ Tallied

---------------------------------------------------------------------------
(* One lemma per action                                                    *)

LEMMA InitIInv == Init => IInv
<1> SUFFICES ASSUME Init PROVE IInv
  OBVIOUS
<1> USE BuildAssumption DEF Init
<1>1. TypeOK
  <2>1. << >> \in Seq(Segments) /\ Len(<< >>) = 0
    BY EmptySeq
  <2>2. disk \in [Segments -> {"absent", "partial", "whole"}]
    OBVIOUS
  <2>3. chunk \in 1..(Chunks + 1) /\ job \in Segments \cup {0}
    OBVIOUS
  <2>4. completed \in Nat /\ completed + Len(completions) <= Len(segmentIds)
    BY <2>1
  <2>5. Len(channel) <= Capacity /\ channel \in Seq(Segments)
    BY <2>1
  <2> QED BY <2>1, <2>2, <2>3, <2>4, <2>5 DEF TypeOK
<1>2. Control
  BY DEF Control
<1>3. Ordered
  BY DEF Ordered, Busy, Segments
<1>4. AllAccounted
  BY DEF AllAccounted
<1>5. Tallied
  BY DEF Tallied, OnTheWay, Busy
<1> QED BY <1>1, <1>2, <1>3, <1>4, <1>5 DEF IInv

LEMMA ProcessStep == ASSUME IInv, NEW n \in 0..PerChunk, Process(n) PROVE IInv'
<1> USE BuildAssumption DEF IInv, callerVars, writerVars
<1>1. CASE n = 0
  <2> USE <1>1 DEF Process
  <2>1. TypeOK'
    BY DEF TypeOK, Segments
  <2>2. Control' /\ AllAccounted' /\ Tallied'
    BY DEF TypeOK, Control, Settled, NoErrors, AllAccounted, Accounted, Tallied, OnTheWay, Busy
  <2>3. Ordered'
    BY DEF TypeOK, Ordered, Busy, Segments
  <2> QED BY <2>1, <2>2, <2>3
<1>2. CASE n # 0
  <2> DEFINE new == [i \in 1..n |-> chunk]
  <2>1. /\ pc = "process" /\ pc' = "send" /\ chunk \in Segments
        /\ docs' = docs \o new /\ segmentIds' = Append(segmentIds, chunk)
        /\ UNCHANGED <<chunk, open, completed, meta, result, writerVars, channel, completions>>
    <3>1. chunk \in Segments
      BY DEF Process, TypeOK, Segments
    <3> QED BY <1>2, <3>1 DEF Process
  <2>2. new \in Seq(Segments) /\ docs \in Seq(Segments) /\ segmentIds \in Seq(Segments)
    BY <2>1, <1>2 DEF TypeOK
  <2>3. segmentIds' \in Seq(Segments) /\ Len(segmentIds') = Len(segmentIds) + 1
    BY <2>1, <2>2, AppendProperties
  <2> HIDE DEF new
  <2>4. docs' \in Seq(Segments)
    BY <2>1, <2>2
  <2>5. \A d \in DOMAIN docs' :
            docs'[d] = chunk \/ (d \in DOMAIN docs /\ docs'[d] = docs[d])
    <3>1. /\ DOMAIN docs' = 1..(Len(docs) + Len(new)) /\ DOMAIN docs = 1..Len(docs)
          /\ Len(new) = n /\ Len(docs) \in Nat
      BY <2>1, <2>2, <1>2 DEF new
    <3>2. \A d \in 1..Len(docs) : docs'[d] = docs[d]
      BY <2>1, <2>2, <3>1
    <3>3. \A d \in (Len(docs) + 1)..(Len(docs) + n) : docs'[d] = chunk
      BY <2>1, <2>2, <3>1 DEF new
    <3> QED BY <3>1, <3>2, <3>3
  <2>6. TypeOK'
    BY <2>1, <2>3, <2>4 DEF TypeOK, Segments
  <2>7. Control'
    BY <2>1 DEF Control, Settled
  <2>8. Ordered'
    BY <2>1 DEF Ordered, Busy
  <2>9. AllAccounted'
    BY <2>1, <2>5 DEF AllAccounted, Accounted, Busy, NoErrors
  <2>10. Tallied'
    BY <2>1, <2>3 DEF Tallied, OnTheWay, Busy, NoErrors, TypeOK
  <2> QED BY <2>6, <2>7, <2>8, <2>9, <2>10
<1> QED BY <1>1, <1>2 DEF TypeOK

LEMMA SendStep == ASSUME IInv, Send PROVE IInv'
<1> USE BuildAssumption DEF IInv, callerVars, writerVars
<1>0. /\ pc = "send" /\ pc' = "process" /\ chunk \in Segments /\ chunk' = chunk + 1
      /\ UNCHANGED <<docs, segmentIds, open, completed, meta, result, writerVars, completions>>
  BY DEF Send, TypeOK
<1>1. CASE writer = "panicked" /\ UNCHANGED channel
  <2> USE <1>0, <1>1
  <2>1. TypeOK'
    BY DEF TypeOK, Segments
  <2>2. Control' /\ AllAccounted' /\ Tallied'
    BY DEF TypeOK, Control, Settled, NoErrors, AllAccounted, Accounted, Tallied, OnTheWay, Busy
  <2>3. Ordered'
    BY DEF TypeOK, Ordered, Busy, Segments
  <2> QED BY <2>1, <2>2, <2>3
<1>2. CASE Len(channel) < Capacity /\ channel' = Append(channel, chunk)
  <2> USE <1>0, <1>2
  <2>1. channel \in Seq(Segments) /\ Len(channel) \in Nat /\ DOMAIN channel = 1..Len(channel)
    BY DEF TypeOK
  <2>2. /\ channel' \in Seq(Segments) /\ Len(channel') = Len(channel) + 1
        /\ DOMAIN channel' = 1..(Len(channel) + 1)
        /\ \A i \in 1..Len(channel) : channel'[i] = channel[i]
        /\ channel'[Len(channel) + 1] = chunk
    BY <2>1, AppendProperties
  <2>3. TypeOK'
    BY <2>1, <2>2 DEF TypeOK, Segments
  <2>4. Control'
    BY DEF Control, Settled
  <2>5. Ordered'
    BY <2>1, <2>2, SMTT(20) DEF TypeOK, Ordered, Busy, Segments
  <2>6. AllAccounted'
    BY <2>1, <2>2 DEF AllAccounted, Accounted, Busy, NoErrors
  <2>7. Tallied'
    BY <2>1, <2>2 DEF Tallied, OnTheWay, Busy, NoErrors, TypeOK
  <2> QED BY <2>3, <2>4, <2>5, <2>6, <2>7
<1> QED BY <1>1, <1>2 DEF Send

\* Telling the caller of a completion
LEMMA TellCounts ==
  ASSUME TypeOK, Tell
  PROVE  /\ completions' \in Seq(Segments) /\ completed' \in Nat
         /\ completed' + Len(completions') = completed + Len(completions)
<1> USE DEF TypeOK, Tell
<1>1. Tail(completions) \in Seq(Segments) /\ Len(Tail(completions)) = Len(completions) - 1
  BY HeadTailProperties
<1> QED BY <1>1

LEMMA CloseStep == ASSUME IInv, Close PROVE IInv'
<1> USE BuildAssumption DEF IInv, Close, callerVars, writerVars
<1>1. TypeOK'
  BY DEF TypeOK, Segments, Tallied, OnTheWay
<1>2. Control'
  BY DEF TypeOK, Control, Settled, NoErrors
<1>3. Ordered'
  BY DEF TypeOK, Ordered, Busy, Segments
<1>4. AllAccounted'
  BY DEF TypeOK, AllAccounted, Accounted, Busy, NoErrors, Segments
<1>5. Tallied'
  BY DEF TypeOK, Tallied, OnTheWay, Busy, NoErrors
<1> QED BY <1>1, <1>2, <1>3, <1>4, <1>5

LEMMA PollStep == ASSUME IInv, Poll PROVE IInv'
<1> USE BuildAssumption DEF IInv, Poll, callerVars, writerVars
<1>1. TypeOK'
  BY TellCounts DEF TypeOK, Segments
<1>2. Control'
  BY DEF TypeOK, Control, Settled, NoErrors
<1>3. Ordered'
  BY DEF TypeOK, Ordered, Busy, Segments
<1>4. AllAccounted'
  BY DEF TypeOK, AllAccounted, Accounted, Busy, NoErrors, Segments
<1>5. Tallied'
  <2>1. OnTheWay' = OnTheWay
    <3>1. CASE Tell
      <4>1. /\ completed' + Len(completions') = completed + Len(completions)
            /\ completed' \in Nat /\ Len(completions') \in Nat
        BY <3>1, TellCounts
      <4>2. UNCHANGED <<channel, writer>> /\ pc # "send" /\ pc' # "send"
        OBVIOUS
      <4>3. Len(channel) \in Nat /\ Len(completions) \in Nat /\ completed \in Nat
        BY DEF TypeOK
      <4> QED BY <4>1, <4>2, <4>3 DEF OnTheWay, Busy
    <3>2. CASE UNCHANGED <<completed, completions>>
      BY <3>2 DEF TypeOK, OnTheWay, Busy
    <3> QED BY <3>1, <3>2
  <2> QED BY <2>1 DEF Tallied, NoErrors
<1> QED BY <1>1, <1>2, <1>3, <1>4, <1>5

LEMMA DrainStep == ASSUME IInv, Drain PROVE IInv'
<1> USE BuildAssumption DEF IInv, Drain, callerVars, writerVars
<1>1. TypeOK'
  BY TellCounts DEF TypeOK, Segments
<1>2. Control'
  BY DEF TypeOK, Control, Settled, NoErrors
<1>3. Ordered'
  BY DEF TypeOK, Ordered, Busy, Segments
<1>4. AllAccounted'
  BY DEF TypeOK, AllAccounted, Accounted, Busy, NoErrors, Segments
<1>5. Tallied'
  <2>1. /\ completed' + Len(completions') = completed + Len(completions)
        /\ completed' \in Nat /\ Len(completions') \in Nat
    BY TellCounts
  <2>2. UNCHANGED <<pc, channel, writer, errors, segmentIds>>
    OBVIOUS
  <2>3. Len(channel) \in Nat /\ Len(completions) \in Nat /\ completed \in Nat
    BY DEF TypeOK
  <2>4. OnTheWay' = OnTheWay
    BY <2>1, <2>2, <2>3 DEF OnTheWay, Busy
  <2> QED BY <2>2, <2>4 DEF Tallied, NoErrors
<1> QED BY <1>1, <1>2, <1>3, <1>4, <1>5

LEMMA JoinStep == ASSUME IInv, Join PROVE IInv'
<1> USE BuildAssumption DEF IInv, Join, Finished, AllTold, callerVars, writerVars
<1>1. TypeOK'
  BY DEF TypeOK, Segments, Tallied, OnTheWay
<1>2. Control'
  BY DEF TypeOK, Control, Settled, NoErrors
<1>3. Ordered'
  BY DEF TypeOK, Ordered, Busy, Segments
<1>4. AllAccounted'
  BY DEF TypeOK, AllAccounted, Accounted, Busy, NoErrors, Segments
<1>5. Tallied'
  BY DEF TypeOK, Tallied, OnTheWay, Busy, NoErrors
<1> QED BY <1>1, <1>2, <1>3, <1>4, <1>5

LEMMA TableStep == ASSUME IInv, NEW next \in {"paths", "meta"}, pc \in {"docs", "paths"}, WriteTable(next) PROVE IInv'
<1> USE BuildAssumption DEF IInv, WriteTable, callerVars, writerVars
<1>1. TypeOK'
  BY DEF TypeOK, Segments, Tallied, OnTheWay
<1>2. Control'
  BY DEF TypeOK, Control, Settled, NoErrors
<1>3. Ordered'
  BY DEF TypeOK, Ordered, Busy, Segments
<1>4. AllAccounted'
  BY DEF TypeOK, AllAccounted, Accounted, Busy, NoErrors, Segments
<1>5. Tallied'
  BY DEF TypeOK, Tallied, OnTheWay, Busy, NoErrors
<1> QED BY <1>1, <1>2, <1>3, <1>4, <1>5

LEMMA WriteMetaStep == ASSUME IInv, WriteMeta PROVE IInv'
<1> USE BuildAssumption DEF IInv, WriteMeta, callerVars, writerVars
<1>1. TypeOK'
  BY DEF TypeOK, Segments, Tallied, OnTheWay
<1>2. Control'
  BY DEF TypeOK, Control, Settled, NoErrors
<1>3. Ordered'
  BY DEF TypeOK, Ordered, Busy, Segments
<1>4. AllAccounted'
  BY DEF TypeOK, AllAccounted, Accounted, Busy, NoErrors, Segments
<1>5. Tallied'
  BY DEF TypeOK, Tallied, OnTheWay, Busy, NoErrors
<1> QED BY <1>1, <1>2, <1>3, <1>4, <1>5

LEMMA ReceiveStep == ASSUME IInv, Receive PROVE IInv'
<1> USE BuildAssumption DEF IInv, callerVars, writerVars
<1>0. /\ writer = "recv" /\ channel # << >> /\ channel' = Tail(channel)
      /\ UNCHANGED <<left, failed, counted, lost, callerVars, completions>>
  BY DEF Receive
<1>1. /\ channel \in Seq(Segments) /\ Len(channel) \in Nat \ {0}
      /\ DOMAIN channel = 1..Len(channel)
      /\ Head(channel) = channel[1] /\ channel[1] \in Segments
  BY <1>0 DEF TypeOK
<1>2. /\ channel' \in Seq(Segments) /\ Len(channel') = Len(channel) - 1
      /\ DOMAIN channel' = 1..(Len(channel) - 1)
      /\ \A i \in 1..(Len(channel) - 1) : channel'[i] = channel[i + 1]
  BY <1>0, <1>1, HeadTailProperties
<1>5. job < channel[1] /\ job \in Nat /\ channel[1] \in Nat /\ Segments \subseteq Nat
  <2>1. Segments \subseteq Nat /\ 1 \in DOMAIN channel
    BY <1>1 DEF Segments
  <2>2. job \in Nat
    BY <2>1 DEF TypeOK
  <2>3. job < channel[1]
    BY <2>1 DEF Ordered
  <2> QED BY <1>1, <2>1, <2>2, <2>3
<1>3. CASE /\ job' = channel[1] /\ writer' = "counting"
           /\ disk' = [disk EXCEPT ![channel[1]] = "partial"] /\ UNCHANGED errors
  <2> USE <1>0, <1>1, <1>2, <1>3
  <2>1. TypeOK'
    BY DEF TypeOK, Segments
  <2>2. Control'
    BY DEF Control, Settled
  <2>3. Ordered'
    <3>1. \A i, j \in DOMAIN channel' : i < j => channel'[i] < channel'[j]
      BY DEF Ordered
    <3>2. \A i \in DOMAIN channel' : job' < channel'[i] /\ channel'[i] < chunk'
      BY DEF Ordered
    <3>3. job' < chunk'
      BY DEF Ordered
    <3>4. \A s \in Segments : disk'[s] = "whole" => s <= job'
      <4> SUFFICES ASSUME NEW s \in Segments, disk'[s] = "whole" PROVE s <= job'
        OBVIOUS
      <4>1. disk[s] = "whole"
        BY DEF TypeOK
      <4>2. s <= job /\ s \in Nat
        BY <4>1, <1>5 DEF Ordered
      <4> QED BY <4>2, <1>5
    <3>5. Busy' => disk'[job'] = "partial"
      BY DEF TypeOK
    <3> QED BY <3>1, <3>2, <3>3, <3>4, <3>5 DEF Ordered
  <2>4. AllAccounted'
    <3> SUFFICES ASSUME NEW d \in DOMAIN docs PROVE Accounted(docs[d])'
      BY DEF AllAccounted
    <3>1. docs[d] \in Segments /\ Accounted(docs[d])
      BY DEF AllAccounted, TypeOK
    <3>2. CASE \E i \in DOMAIN channel : channel[i] = docs[d]
      <4> PICK i \in DOMAIN channel : channel[i] = docs[d]
        BY <3>2
      <4>1. CASE i = 1
        BY <4>1 DEF Accounted, Busy
      <4>2. CASE i # 1
        <5>1. i - 1 \in DOMAIN channel' /\ channel'[i - 1] = docs[d]
          BY <4>2
        <5> QED BY <5>1 DEF Accounted
      <4> QED BY <4>1, <4>2
    <3>3. CASE disk[docs[d]] = "whole" /\ docs[d] \in counted
      <4>1. docs[d] <= job /\ docs[d] \in Nat
        BY <3>1, <3>3, <1>5 DEF Ordered
      <4>2. disk'[docs[d]] = "whole"
        BY <3>1, <3>3, <4>1, <1>5 DEF TypeOK
      <4> QED BY <3>3, <4>2 DEF Accounted
    <3>4. CASE pc = "send" /\ docs[d] = chunk
      BY <3>4 DEF Accounted
    <3>5. CASE ~NoErrors
      BY <3>5 DEF Accounted, NoErrors
    <3> QED BY <3>1, <3>2, <3>3, <3>4, <3>5 DEF Accounted, Busy
  <2>5. Tallied'
    BY DEF TypeOK, Tallied, OnTheWay, Busy, NoErrors
  <2> QED BY <2>1, <2>2, <2>3, <2>4, <2>5
<1>4. CASE errors' = errors + 1 /\ UNCHANGED <<writer, job, disk>>
  <2> USE <1>0, <1>1, <1>2, <1>4
  <2>1. TypeOK'
    BY DEF TypeOK, Segments
  <2>2. Control'
    BY DEF Control, Settled
  <2>3. Ordered'
    BY DEF Ordered, Busy
  <2>4. ~NoErrors'
    BY DEF NoErrors, TypeOK
  <2>5. AllAccounted'
    BY <2>4 DEF AllAccounted, Accounted
  <2>6. Tallied'
    BY <2>4 DEF TypeOK, Tallied, OnTheWay, Busy
  <2> QED BY <2>1, <2>2, <2>3, <2>5, <2>6
<1> QED BY <1>1, <1>3, <1>4 DEF Receive

LEMMA CountStep == ASSUME IInv, Count PROVE IInv'
<1> USE BuildAssumption DEF IInv, Count, callerVars, writerVars
<1>1. TypeOK'
  BY DEF TypeOK, Segments, Tallied, OnTheWay
<1>2. Control'
  BY DEF TypeOK, Control, Settled, NoErrors
<1>3. Ordered'
  BY DEF TypeOK, Ordered, Busy, Segments
<1>4. AllAccounted'
  BY DEF TypeOK, AllAccounted, Accounted, Busy, NoErrors, Segments
<1>5. Tallied'
  BY DEF TypeOK, Tallied, OnTheWay, Busy, NoErrors
<1> QED BY <1>1, <1>2, <1>3, <1>4, <1>5

LEMMA WritePartStep == ASSUME IInv, NEW part \in Parts, WritePart(part) PROVE IInv'
<1> USE BuildAssumption DEF IInv, WritePart, callerVars, writerVars
<1>1. TypeOK'
  <2>1. left' \subseteq Parts /\ failed' \in BOOLEAN
    BY DEF TypeOK
  <2>2. lost' \subseteq Segments
    BY DEF TypeOK
  <2>3. UNCHANGED <<pc, chunk, docs, segmentIds, channel, open, writer, job, errors, completions,
                    completed, counted, disk, meta, result>>
    OBVIOUS
  <2> QED BY <2>1, <2>2, <2>3, SMTT(20) DEF TypeOK
<1>2. Control'
  BY DEF TypeOK, Control, Settled, NoErrors
<1>3. Ordered'
  BY DEF TypeOK, Ordered, Busy, Segments
<1>4. AllAccounted'
  BY DEF TypeOK, AllAccounted, Accounted, Busy, NoErrors, Segments
<1>5. Tallied'
  BY DEF TypeOK, Tallied, OnTheWay, Busy, NoErrors
<1> QED BY <1>1, <1>2, <1>3, <1>4, <1>5

LEMMA SegmentDoneStep == ASSUME IInv, SegmentDone PROVE IInv'
<1> USE BuildAssumption DEF IInv, callerVars, writerVars
<1>0. /\ writer = "writing" /\ writer' = "recv" /\ job \in Segments
      /\ UNCHANGED <<job, left, failed, counted, lost, callerVars, channel>>
  BY DEF SegmentDone, TypeOK
<1>1. CASE errors' = errors + 1 /\ UNCHANGED <<completions, disk>>
  <2> USE <1>0, <1>1
  <2>1. TypeOK' /\ ~NoErrors'
    BY DEF TypeOK, NoErrors
  <2>2. Control' /\ Ordered'
    BY DEF Control, Settled, Ordered, Busy
  <2>3. AllAccounted'
    BY <2>1 DEF AllAccounted, Accounted
  <2>4. Tallied'
    BY <2>1 DEF TypeOK, Tallied, OnTheWay, Busy
  <2> QED BY <2>1, <2>2, <2>3, <2>4
<1>2. CASE /\ completions' = Append(completions, job)
           /\ disk' = [disk EXCEPT ![job] = "whole"] /\ UNCHANGED errors
  <2> USE <1>0, <1>2
  <2>1. completions' \in Seq(Segments) /\ Len(completions') = Len(completions) + 1
    BY AppendProperties DEF TypeOK
  <2>2. Len(completions) \in Nat /\ Len(channel) \in Nat /\ Len(segmentIds) \in Nat
    BY DEF TypeOK
  <2>3. Tallied'
    <3>1. OnTheWay' = OnTheWay
      <4>1. UNCHANGED <<channel, pc, completed>> /\ completed \in Nat /\ Len(completions) \in Nat
        BY DEF TypeOK
      <4>2. Busy /\ ~Busy'
        BY DEF Busy
      <4> DEFINE k == IF pc = "send" THEN 1 ELSE 0
      <4>3. OnTheWay = k + Len(channel) + 1 + Len(completions) + completed
        BY <4>2 DEF OnTheWay
      <4>4. OnTheWay' = k + Len(channel) + 0 + Len(completions') + completed
        BY <4>1, <4>2 DEF OnTheWay
      <4>5. k \in Nat
        OBVIOUS
      <4> HIDE DEF k
      <4> QED BY <2>1, <2>2, <4>1, <4>3, <4>4, <4>5
    <3> QED BY <3>1 DEF Tallied, NoErrors
  <2>4. TypeOK'
    <3>1. completed' + Len(completions') <= Len(segmentIds')
      BY <2>1, <2>2, <2>3 DEF TypeOK, Tallied, OnTheWay, Busy
    <3> QED BY <2>1, <3>1 DEF TypeOK
  <2>5. Control'
    BY DEF Control, Settled
  <2>6. Ordered'
    BY DEF Ordered, Busy, TypeOK, Segments
  <2>7. AllAccounted'
    <3> SUFFICES ASSUME NEW d \in DOMAIN docs PROVE Accounted(docs[d])'
      BY DEF AllAccounted
    <3>1. docs[d] \in Segments /\ Accounted(docs[d]) /\ job \in counted
      BY DEF AllAccounted, TypeOK, Control
    <3> QED BY <3>1 DEF Accounted, Busy, NoErrors, TypeOK
  <2> QED BY <2>3, <2>4, <2>5, <2>6, <2>7
<1> QED BY <1>1, <1>2 DEF SegmentDone

LEMMA PanicStep == ASSUME IInv, Panic PROVE IInv'
<1> USE BuildAssumption DEF IInv, Panic, callerVars, writerVars
<1>1. TypeOK'
  BY DEF TypeOK, Segments, Tallied, OnTheWay
<1>2. Control'
  BY DEF TypeOK, Control, Settled, NoErrors
<1>3. Ordered'
  BY DEF TypeOK, Ordered, Busy, Segments
<1>4. AllAccounted'
  BY DEF TypeOK, AllAccounted, Accounted, Busy, NoErrors, Segments
<1>5. Tallied'
  BY DEF TypeOK, Tallied, OnTheWay, Busy, NoErrors
<1> QED BY <1>1, <1>2, <1>3, <1>4, <1>5

LEMMA EndThreadStep == ASSUME IInv, EndThread PROVE IInv'
<1> USE BuildAssumption DEF IInv, EndThread, callerVars, writerVars
<1>1. TypeOK'
  BY DEF TypeOK, Segments, Tallied, OnTheWay
<1>2. Control'
  BY DEF TypeOK, Control, Settled, NoErrors
<1>3. Ordered'
  BY DEF TypeOK, Ordered, Busy, Segments
<1>4. AllAccounted'
  BY DEF TypeOK, AllAccounted, Accounted, Busy, NoErrors, Segments
<1>5. Tallied'
  BY DEF TypeOK, Tallied, OnTheWay, Busy, NoErrors
<1> QED BY <1>1, <1>2, <1>3, <1>4, <1>5

LEMMA StutterStep == IInv /\ UNCHANGED vars => IInv'
<1> SUFFICES ASSUME IInv, UNCHANGED vars PROVE IInv'
  OBVIOUS
<1> USE DEF IInv, vars, callerVars, writerVars
<1>1. TypeOK' /\ Control'
  BY DEF TypeOK, Control, Settled
<1>2. Ordered' /\ Tallied'
  BY DEF Ordered, Tallied, OnTheWay, Busy, NoErrors
<1>3. AllAccounted'
  BY DEF AllAccounted, Accounted, Busy, NoErrors
<1> QED BY <1>1, <1>2, <1>3

LEMMA IInvStep == IInv /\ [Next]_vars => IInv'
BY ProcessStep, SendStep, CloseStep, PollStep, DrainStep, JoinStep, TableStep, WriteMetaStep,
   ReceiveStep, CountStep, WritePartStep, SegmentDoneStep, PanicStep, EndThreadStep, StutterStep
   DEF Next, Caller, Writer, WriteDocuments, WritePaths

LEMMA Invariance == Spec => []IInv
BY InitIInv, IInvStep, PTL DEF Spec

---------------------------------------------------------------------------
(* Theorems                                                                *)

\* The types, with the bounds on the channel and on what the caller is told.
THEOREM Types == Spec => []TypeOK
<1>1. IInv => TypeOK
  BY DEF IInv
<1> QED BY <1>1, Invariance, PTL

\* A build that succeeds has told its caller of every segment.
THEOREM Progress == Spec => []ProgressIsTold
<1>1. IInv => ProgressIsTold
  <2> SUFFICES ASSUME IInv, result = "ok" PROVE completed = Len(segmentIds)
    BY DEF ProgressIsTold
  <2>1. /\ Settled /\ pc = "done" /\ channel = << >>
    BY DEF IInv, Control, Settled
  <2>2. NoErrors /\ ~Busy
    BY <2>1 DEF Settled, NoErrors, Busy
  <2> QED BY <2>1, <2>2, EmptySeq DEF IInv, Tallied, OnTheWay, Settled, TypeOK
<1> QED BY <1>1, Invariance, PTL

\* Once the pipeline has settled each document's segment is whole and counted.
LEMMA SettledIsWhole ==
  ASSUME IInv, Settled, NEW d \in DOMAIN docs
  PROVE  disk[docs[d]] = "whole" /\ docs[d] \in counted
BY DEF IInv, Settled, Control, AllAccounted, Accounted, Busy, NoErrors

\* The frequencies that stop-grams are chosen by count every document.
THEOREM Counting == Spec => []StopGramsCountAll
<1>1. IInv => StopGramsCountAll
  BY SettledIsWhole DEF StopGramsCountAll, IInv, Control
<1> QED BY <1>1, Invariance, PTL

---------------------------------------------------------------------------
(* The refinement                                                          *)

LEMMA InitMaps == Init => Contract!Init
BY DEF Init, Contract!Init

\* Every step is a step of the contract or leaves what it speaks of alone.
LEMMA StepMaps == IInv /\ IInv' /\ [Next]_vars => [Contract!Next]_(Contract!contractVars)
<1> SUFFICES ASSUME IInv, IInv', [Next]_vars
             PROVE  Contract!Next \/ UNCHANGED Contract!contractVars
  OBVIOUS
<1> USE BuildAssumption DEF IInv, Contract!contractVars, callerVars, writerVars
<1>1. CASE meta = "whole"
  BY <1>1 DEF Control, Settled, Held, Next, vars, Caller, Writer, Process, Send, Close, Poll,
              Drain, Join, WriteDocuments, WritePaths, WriteTable, WriteMeta, Receive, Count,
              WritePart, SegmentDone, Panic, EndThread
<1>2. CASE meta # "whole" /\ meta' # "whole"
  <2>1. ASSUME NEW n \in 0..PerChunk, Process(n), n # 0 PROVE Contract!Accept
    <3> DEFINE new == [i \in 1..n |-> chunk]
    <3>1. pc = "process" /\ docs' = docs \o new /\ UNCHANGED result /\ chunk \in Segments
      BY <2>1 DEF Process, TypeOK, Segments
    <3>2. new \in Seq(Segments) /\ Len(new) = n /\ docs \in Seq(Segments)
      BY <3>1, <2>1 DEF TypeOK
    <3>3. Len(docs') = Len(docs) + n /\ Len(docs) \in Nat
      BY <3>1, <3>2
    <3> QED BY <1>2, <2>1, <3>1, <3>3 DEF Contract!Accept, Control
  <2>2. ASSUME Join \/ WriteDocuments \/ WritePaths \/ WriteMeta, result' # result
        PROVE  Contract!Fail
    BY <1>2, <2>2 DEF Join, WriteDocuments, WritePaths, WriteTable, WriteMeta, Contract!Fail, Control
  <2>3. ASSUME UNCHANGED <<docs, result>> PROVE UNCHANGED Contract!contractVars
    BY <1>2, <2>3
  <2>4. \/ \E n \in 0..PerChunk : Process(n) /\ n # 0
        \/ (Join \/ WriteDocuments \/ WritePaths \/ WriteMeta) /\ result' # result
        \/ UNCHANGED <<docs, result>>
    BY DEF Next, vars, Caller, Writer, Process, Send, Close, Poll, Drain, Join, WriteDocuments,
           WritePaths, WriteTable, WriteMeta, Receive, Count, WritePart, SegmentDone, Panic, EndThread
  <2> QED BY <2>1, <2>2, <2>3, <2>4 DEF Contract!Next
<1>3. CASE meta # "whole" /\ meta' = "whole"
  <2>1. WriteMeta /\ result' = "ok" /\ UNCHANGED docs
    BY <1>3 DEF Next, vars, Caller, Writer, Process, Send, Close, Poll, Drain, Join, WriteDocuments,
                WritePaths, WriteTable, WriteMeta, Receive, Count, WritePart, SegmentDone, Panic,
                EndThread
  <2>2. Settled' /\ result = "running"
    BY <1>3, <2>1 DEF Control, WriteMeta
  <2>3. Held' = DOMAIN docs'
    BY <2>2, <1>3 DEF Held, Settled, AllAccounted, Accounted, Busy, NoErrors, Control
  <2>4. DOMAIN docs' = 1..Len(docs)
    BY <2>1 DEF TypeOK
  <2> QED BY <1>3, <2>1, <2>2, <2>3, <2>4 DEF Contract!Next, Contract!Publish
<1> QED BY <1>1, <1>2, <1>3

\* The pipeline implements the contract: all documents at once, or an error.
THEOREM Implements == Spec => MeetsContract
<1>1. IInv /\ IInv' /\ [Next]_vars => [Contract!Next]_(Contract!contractVars)
  BY StepMaps
<1> QED BY <1>1, InitMaps, Invariance, PTL DEF Spec, MeetsContract, Contract!Spec
=============================================================================
