------------------------- MODULE DaemonIndex_proofs -------------------------
(***************************************************************************)
(* Proofs about DaemonIndex, for any number of connection threads,         *)
(* cached instances, cached queries and edits: its types; as long as every *)
(* writer had the IndexLock, that a cached result is never newer than its  *)
(* instance's reader and that the reader served for the root never goes    *)
(* back; and that a watched root is served from the index on disk.         *)
(***************************************************************************)
EXTENDS DaemonIndex, TLAPS

---------------------------------------------------------------------------
(* Types.  TypeOK is proved in three parts: the instances, the threads and *)
(* the rest, together with the fact that a search past Get holds an        *)
(* instance.                                                               *)

ObjectsOK ==
    /\ reader \in [Instances -> Answers]
    /\ cache \in [Instances -> [Searches -> {None} \cup Answers]]
    /\ watch \in [Instances -> {"off", "starting", "on"}]
    /\ seen \in [Instances -> Answers]

ThreadsOK ==
    /\ pc \in [Procs -> HandlerSteps \cup ProcessorSteps]
    /\ job \in [Handlers -> Searches \cup {Reload, None}]
    /\ inst \in [Handlers -> Instances \cup {None}]
    /\ rd \in [Procs -> Answers]
    /\ since \in [Handlers -> Answers]

RestOK ==
    /\ edited \in Answers /\ disk \in Answers
    /\ lock \in Handlers \cup {Processor, Cli, None}
    /\ current \in Instances \cup {None}
    /\ pending \in Answers /\ batch \in Answers /\ rebuild \in BOOLEAN
    /\ failures \in Nat /\ past \subseteq {"reload", "index", "unlocked"}

HoldsInstance ==
    \A t \in Handlers : pc[t] \in {"reader", "lookup", "put"} => inst[t] \in Instances

Typed == ObjectsOK /\ ThreadsOK /\ RestOK /\ HoldsInstance

LEMMA TypedGivesTypeOK == Typed => TypeOK
BY DEF Typed, ObjectsOK, ThreadsOK, RestOK, TypeOK

LEMMA InitTyped == Init => Typed
<1> SUFFICES ASSUME Init PROVE Typed
  OBVIOUS
<1> USE DEF Init
<1>1. ObjectsOK
  BY DEF ObjectsOK, Answers, Empty
<1>2. ThreadsOK
  BY DEF ThreadsOK, Answers, HandlerSteps
<1>3. RestOK
  BY DEF RestOK, Answers
<1>4. HoldsInstance
  BY DEF HoldsInstance, Procs
<1> QED BY <1>1, <1>2, <1>3, <1>4 DEF Typed

\* The three ways an action touches an instance.
LEMMA SameObjects == ObjectsOK /\ UNCHANGED object => ObjectsOK'
BY DEF ObjectsOK, object

LEMMA SameRest == RestOK /\ UNCHANGED <<store, lock, current, channel, history>> => RestOK'
BY DEF RestOK, store, channel, history

LEMMA DropTyped == ASSUME NEW i, ObjectsOK, DropInstance(i) PROVE ObjectsOK'
<1> USE DEF ObjectsOK, DropInstance, StopWatcher
<1>1. Empty \in [Searches -> {None} \cup Answers]
  BY DEF Empty
<1>2. {} \in Answers
  BY DEF Answers
<1>3. cache' \in [Instances -> [Searches -> {None} \cup Answers]]
  BY <1>1
<1>4. reader' \in [Instances -> Answers] /\ seen' \in [Instances -> Answers]
  BY <1>2
<1> QED BY <1>3, <1>4

LEMMA ClearTyped ==
  ASSUME NEW i, NEW keys, ObjectsOK, Cleared(i, keys), UNCHANGED <<reader, watch, seen>>
  PROVE  ObjectsOK'
<1> USE DEF ObjectsOK, Cleared
<1>1. ASSUME NEW c \in [Searches -> {None} \cup Answers]
      PROVE  [k \in Searches |-> IF k \in keys THEN None ELSE c[k]]
                 \in [Searches -> {None} \cup Answers]
  OBVIOUS
<1>2. cache' \in [Instances -> [Searches -> {None} \cup Answers]]
  BY <1>1
<1> QED BY <1>2

\* What writers leave is some of the edits.
LEMMA LeavesTyped ==
  ASSUME RestOK, NEW x \in Answers, Leaves(x), UNCHANGED edited
  PROVE  disk' \in Answers
BY DEF Leaves, RestOK, Answers

LEMMA FailureTyped ==
  ASSUME RestOK, Failure
  PROVE  failures' \in Nat /\ UNCHANGED past
BY DEF Failure, IOError, RestOK

LEMMA AbandonTyped ==
  ASSUME ThreadsOK, HoldsInstance, RestOK, Abandon, UNCHANGED request
  PROVE  /\ pc' \in [Procs -> HandlerSteps \cup ProcessorSteps] /\ HoldsInstance'
         /\ lock' \in {lock, None} /\ batch' \in Answers /\ rebuild' \in BOOLEAN
BY DaemonAssumption
   DEF Abandon, Release, Goto, ThreadsOK, HoldsInstance, RestOK, Procs, ProcessorSteps,
       Answers, request

\* Ending a request leaves the threads typed and the handler without an
\* instance.
LEMMA FinishTyped ==
  ASSUME NEW t \in Handlers, ThreadsOK, HoldsInstance, Finish(t)
  PROVE  ThreadsOK' /\ HoldsInstance'
<1> USE DEF ThreadsOK, Finish, Goto, Procs
<1>1. {} \in Answers /\ "idle" \in HandlerSteps
  BY DEF Answers, HandlerSteps
<1>2. ThreadsOK'
  BY <1>1
<1>3. HoldsInstance'
  BY DEF HoldsInstance
<1> QED BY <1>2, <1>3

LEMMA TypedStep == Typed /\ [Next]_vars => Typed'
<1> SUFFICES ASSUME Typed, [Next]_vars PROVE Typed'
  OBVIOUS
<1> USE DaemonAssumption
    DEF Typed, store, object, channel, request, history
<1>1. ASSUME NEW t \in Handlers, NEW j \in Searches \cup {Reload}, Request(t, j)
      PROVE  Typed'
  <2>1. ThreadsOK'
    BY <1>1 DEF Request, Goto, ThreadsOK, RestOK, Procs, HandlerSteps, Answers
  <2>2. HoldsInstance'
    BY <1>1 DEF Request, Goto, ThreadsOK, Procs, HoldsInstance
  <2> QED BY <1>1, <2>1, <2>2, SameObjects DEF Request, RestOK
<1>2. ASSUME NEW t \in Handlers, Remove(t) PROVE Typed'
  <2>1. ThreadsOK' /\ HoldsInstance' /\ RestOK'
    BY <1>2 DEF Remove, Goto, ThreadsOK, HoldsInstance, RestOK, Procs, HandlerSteps
  <2>2. ObjectsOK'
    BY <1>2, DropTyped, SameObjects DEF Remove
  <2> QED BY <2>1, <2>2
<1>3. ASSUME NEW t \in Handlers, Check(t) \/ Loaded(t) \/ WatchCheck(t) PROVE Typed'
  <2>1. /\ \E step \in {"get", "loaded", "watch", "open", "lock"} : pc' = [pc EXCEPT ![t] = step]
        /\ UNCHANGED <<job, inst, rd, since>>
    BY <1>3 DEF Check, Loaded, WatchCheck, Goto
  <2>2. ThreadsOK' /\ HoldsInstance'
    BY <2>1 DEF ThreadsOK, HoldsInstance, Procs, HandlerSteps
  <2>3. RestOK'
    BY <1>3, SameRest DEF Check, Loaded, WatchCheck
  <2> QED BY <1>3, <2>2, <2>3, SameObjects DEF Check, Loaded, WatchCheck
<1>4. ASSUME NEW t \in Handlers, Open(t) PROVE Typed'
  <2>1. ThreadsOK' /\ HoldsInstance'
    <3>1. CASE (lock # None \/ ~Locked) /\ Finish(t)
      BY <3>1, FinishTyped
    <3>2. CASE rd' = [rd EXCEPT ![t] = disk] /\ Goto(t, "insert") /\ UNCHANGED request
      BY <3>2 DEF Goto, ThreadsOK, HoldsInstance, RestOK, Procs, HandlerSteps
    <3> QED BY <1>4, <3>1, <3>2 DEF Open
  <2> QED BY <1>4, <2>1, SameObjects DEF Open, RestOK
<1>5. ASSUME NEW t \in Handlers, Insert(t) PROVE Typed'
  <2>1. ThreadsOK' /\ HoldsInstance'
    BY <1>5 DEF Insert, Goto, ThreadsOK, HoldsInstance, Procs, HandlerSteps, Answers
  <2>2. RestOK'
    BY <1>5 DEF Insert, RestOK
  <2>3. ASSUME NEW i \in Instances, reader' = [reader EXCEPT ![i] = rd[t]],
               cache' = [cache EXCEPT ![i] = Empty], StopWatcher(i)
        PROVE  ObjectsOK'
    <3>1. Empty \in [Searches -> {None} \cup Answers]
      BY DEF Empty
    <3>2. rd[t] \in Answers /\ {} \in Answers
      BY DEF ThreadsOK, Procs, Answers
    <3>3. cache' \in [Instances -> [Searches -> {None} \cup Answers]]
      BY <2>3, <3>1 DEF ObjectsOK
    <3> QED BY <2>3, <3>2, <3>3 DEF ObjectsOK, StopWatcher
  <2>4. ObjectsOK'
    BY <1>5, <2>3, SameObjects DEF Insert
  <2> QED BY <2>1, <2>2, <2>4
<1>6. ASSUME NEW t \in Handlers, Lock(t) PROVE Typed'
  <2>1. ThreadsOK' /\ HoldsInstance'
    BY <1>6 DEF Lock, Goto, ThreadsOK, HoldsInstance, Procs, HandlerSteps
  <2>2. lock' \in {lock, t} /\ failures' \in Nat /\ past' \subseteq past \cup {"unlocked"}
    BY <1>6 DEF Lock, Acquire, IOError, RestOK
  <2> QED BY <1>6, <2>1, <2>2, SameObjects DEF Lock, RestOK
<1>7. ASSUME NEW t \in Handlers, Reconcile(t) PROVE Typed'
  <2>1. ThreadsOK' /\ HoldsInstance'
    BY <1>7 DEF Reconcile, Goto, ThreadsOK, HoldsInstance, Procs, HandlerSteps
  <2>2. failures' \in Nat /\ UNCHANGED past
    BY <1>7, FailureTyped DEF Reconcile, RestOK
  <2>3. disk' \in Answers
    BY <1>7, LeavesTyped DEF Reconcile, RestOK
  <2> QED BY <1>7, <2>1, <2>2, <2>3, SameObjects DEF Reconcile, RestOK
<1>8. ASSUME NEW u \in Procs, Reopen(u) PROVE Typed'
  <2>1. /\ pc' \in [Procs -> HandlerSteps \cup ProcessorSteps] /\ HoldsInstance'
        /\ lock' \in {lock, None} /\ batch' \in Answers /\ rebuild' \in BOOLEAN
    <3>1. CASE Abandon
      BY <1>8, <3>1, AbandonTyped DEF Reopen
    <3>2. CASE (Goto(u, "swap") \/ Goto(u, "spawn")) /\ UNCHANGED <<lock, batch, rebuild>>
      BY <1>8, <3>2 DEF Reopen, Goto, ThreadsOK, HoldsInstance, RestOK, Procs, HandlerSteps
    <3> QED BY <1>8, <3>1, <3>2 DEF Reopen
  <2>2. rd' \in [Procs -> Answers]
    BY <1>8 DEF Reopen, ThreadsOK, RestOK
  <2>3. failures' \in Nat /\ UNCHANGED past
    BY <1>8, FailureTyped DEF Reopen, RestOK
  <2> QED BY <1>8, <2>1, <2>2, <2>3, SameObjects DEF Reopen, RestOK, ThreadsOK
<1>9. ASSUME NEW u \in Procs, Swap(u) PROVE Typed'
  <2>1. ThreadsOK' /\ HoldsInstance' /\ RestOK'
    BY <1>9 DEF Swap, AfterSwap, Release, Goto, ThreadsOK, HoldsInstance, RestOK, Procs,
                HandlerSteps, Answers
  <2>2. ObjectsOK'
    BY <1>9 DEF Swap, ObjectsOK, ThreadsOK
  <2> QED BY <2>1, <2>2
<1>10. ASSUME NEW u \in Procs, ClearQueries(u) PROVE Typed'
  <2>1. ThreadsOK' /\ HoldsInstance' /\ RestOK'
    BY <1>10 DEF ClearQueries, Goto, ThreadsOK, HoldsInstance, RestOK, Procs, HandlerSteps
  <2> QED BY <1>10, <2>1, ClearTyped DEF ClearQueries
<1>11. ASSUME NEW u \in Procs, ClearContents(u) PROVE Typed'
  <2>1. ThreadsOK' /\ HoldsInstance' /\ RestOK'
    BY <1>11 DEF ClearContents, AfterSwap, Release, Goto, ThreadsOK, HoldsInstance, RestOK, Procs,
                 HandlerSteps, Answers
  <2> QED BY <1>11, <2>1, ClearTyped DEF ClearContents
<1>12. ASSUME NEW u \in Procs, Spawn(u) PROVE Typed'
  <2>1. ThreadsOK' /\ HoldsInstance'
    BY <1>12 DEF Spawn, Goto, ThreadsOK, HoldsInstance, Procs, HandlerSteps
  <2>2. lock' \in {lock, None} /\ batch' \in {batch, {}} /\ rebuild' \in {rebuild, FALSE}
    BY <1>12 DEF Spawn, Release
  <2>3. RestOK'
    BY <1>12, <2>2 DEF Spawn, RestOK, Answers
  <2>4. /\ UNCHANGED <<reader, cache>>
        /\ watch' \in {watch, [watch EXCEPT ![current] = "starting"]}
        /\ seen' \in {seen, [seen EXCEPT ![current] = {}]}
    BY <1>12 DEF Spawn
  <2>5. ObjectsOK'
    BY <2>4 DEF ObjectsOK, Answers
  <2> QED BY <2>1, <2>3, <2>5
<1>13. ASSUME NEW t \in Handlers, Get(t) PROVE Typed'
  <2>1. ThreadsOK' /\ HoldsInstance'
    <3>1. CASE Finish(t)
      BY <3>1, FinishTyped
    <3>2. CASE /\ current # None
               /\ inst' = [inst EXCEPT ![t] = current]
               /\ Goto(t, "reader") /\ UNCHANGED <<job, since, rd>>
      BY <3>2 DEF Goto, ThreadsOK, HoldsInstance, RestOK, Procs, HandlerSteps
    <3> QED BY <1>13, <3>1, <3>2 DEF Get
  <2> QED BY <1>13, <2>1, SameObjects DEF Get, RestOK
<1>14. ASSUME NEW t \in Handlers, GetReader(t) PROVE Typed'
  <2>1. reader[inst[t]] \in Answers
    BY <1>14 DEF GetReader, HoldsInstance, ObjectsOK
  <2>2. ThreadsOK' /\ HoldsInstance' /\ RestOK'
    BY <1>14, <2>1 DEF GetReader, Goto, ThreadsOK, HoldsInstance, RestOK, Procs, HandlerSteps
  <2> QED BY <1>14, <2>2, SameObjects DEF GetReader
<1>15. ASSUME NEW t \in Handlers, Hit(t) \/ GiveUp(t) PROVE Typed'
  <2>1. Leave(t) /\ UNCHANGED <<store, lock, current, channel, history>>
    BY <1>15 DEF Hit, GiveUp
  <2>2. ThreadsOK' /\ HoldsInstance'
    BY <2>1, FinishTyped DEF Leave
  <2>3. ObjectsOK'
    BY <2>1, DropTyped, SameObjects DEF Leave
  <2> QED BY <2>1, <2>2, <2>3 DEF RestOK
<1>16. ASSUME NEW t \in Handlers, Miss(t) PROVE Typed'
  <2>1. ThreadsOK' /\ HoldsInstance' /\ RestOK'
    BY <1>16 DEF Miss, Goto, ThreadsOK, HoldsInstance, RestOK, Procs, HandlerSteps
  <2> QED BY <1>16, <2>1, SameObjects DEF Miss
<1>17. ASSUME NEW t \in Handlers, Put(t) PROVE Typed'
  <2>1. ThreadsOK' /\ HoldsInstance'
    BY <1>17, FinishTyped DEF Put
  <2>2. ASSUME NEW v, UNCHANGED <<reader, watch, seen>>,
               cache' = [cache EXCEPT ![inst[t]] =
                            [@ EXCEPT ![v] = None, ![job[t]] = rd[t]]]
        PROVE  ObjectsOK'
    <3>1. rd[t] \in Answers
      BY DEF ThreadsOK, Procs
    <3>2. ASSUME NEW c \in [Searches -> {None} \cup Answers]
          PROVE  [c EXCEPT ![v] = None, ![job[t]] = rd[t]] \in [Searches -> {None} \cup Answers]
      BY <3>1
    <3>3. cache' \in [Instances -> [Searches -> {None} \cup Answers]]
      BY <2>2, <3>2 DEF ObjectsOK
    <3> QED BY <2>2, <3>3 DEF ObjectsOK
  <2>3. ObjectsOK'
    BY <1>17, <2>2, DropTyped DEF Put
  <2> QED BY <1>17, <2>1, <2>3 DEF Put, RestOK
<1>18. ASSUME NEW e \in Edits, Edit(e) PROVE Typed'
  <2>1. ThreadsOK' /\ HoldsInstance' /\ RestOK'
    BY <1>18 DEF Edit, ThreadsOK, HoldsInstance, RestOK, Answers
  <2>2. ObjectsOK'
    BY <1>18 DEF Edit, ObjectsOK, Answers
  <2> QED BY <2>1, <2>2
<1>19. ASSUME NEW i \in Instances, StartWatcher(i) \/ Debounced(i) PROVE Typed'
  <2>1. ThreadsOK' /\ HoldsInstance'
    BY <1>19 DEF StartWatcher, Debounced, ThreadsOK, HoldsInstance
  <2>2. RestOK'
    <3>1. failures' \in Nat /\ UNCHANGED past
      BY <1>19 DEF StartWatcher, Debounced, IOError, RestOK
    <3> QED BY <1>19, <3>1 DEF StartWatcher, Debounced, RestOK, ObjectsOK, Answers
  <2>3. ObjectsOK'
    BY <1>19 DEF StartWatcher, Debounced, ObjectsOK, Answers
  <2> QED BY <2>1, <2>2, <2>3
<1>20. ASSUME CliLock \/ CliIndex PROVE Typed'
  <2>1. ThreadsOK' /\ HoldsInstance'
    BY <1>20 DEF CliLock, CliIndex, ThreadsOK, HoldsInstance
  <2>2. disk' \in Answers
    BY <1>20, LeavesTyped DEF CliLock, CliIndex, RestOK
  <2>3. lock' \in {lock, Cli, None} /\ past' \subseteq past \cup {"index"}
    <3>1. CASE CliLock
      BY <3>1 DEF CliLock, Acquire
    <3>2. CASE CliIndex
      BY <3>2 DEF CliIndex, Release
    <3> QED BY <1>20, <3>1, <3>2
  <2> QED BY <1>20, <2>1, <2>2, <2>3, SameObjects DEF CliLock, CliIndex, RestOK
<1>21. ASSUME Take \/ Count PROVE Typed'
  <2>1. ThreadsOK' /\ HoldsInstance'
    BY <1>21 DEF Take, Count, Goto, ThreadsOK, HoldsInstance, Procs, HandlerSteps,
                 ProcessorSteps
  <2>2. pending' \in {pending, {}} /\ batch' \in {batch, pending, {}}
    BY <1>21 DEF Take, Count
  <2>3. UNCHANGED <<store, lock, current, rebuild, history>>
    BY <1>21 DEF Take, Count
  <2>4. RestOK'
    BY <2>2, <2>3 DEF RestOK, Answers
  <2> QED BY <1>21, <2>1, <2>4, SameObjects DEF Take, Count
<1>22. ASSUME DeltaLock \/ RebuildLock PROVE Typed'
  <2>1. /\ pc' \in [Procs -> HandlerSteps \cup ProcessorSteps] /\ HoldsInstance'
        /\ lock' \in {lock, Processor, None} /\ batch' \in Answers /\ rebuild' \in BOOLEAN
    <3>1. CASE Abandon
      BY <1>22, <3>1, AbandonTyped DEF DeltaLock, RebuildLock
    <3>2. CASE /\ Goto(Processor, "apply") \/ Goto(Processor, "stop")
               /\ lock' = Processor /\ rebuild' \in {rebuild, TRUE} /\ UNCHANGED batch
      <4>1. pc' \in [Procs -> HandlerSteps \cup ProcessorSteps]
        BY <3>2 DEF Goto, ThreadsOK, ProcessorSteps
      <4>2. HoldsInstance'
        BY <1>22, <3>2 DEF DeltaLock, RebuildLock, Goto, ThreadsOK, HoldsInstance, Procs
      <4> QED BY <3>2, <4>1, <4>2 DEF RestOK
    <3> QED BY <1>22, <3>1, <3>2 DEF DeltaLock, RebuildLock, Acquire
  <2>2. failures' \in Nat /\ UNCHANGED past
    BY <1>22 DEF DeltaLock, RebuildLock, IOError, RestOK
  <2> QED BY <1>22, <2>1, <2>2, SameObjects DEF DeltaLock, RebuildLock, RestOK, ThreadsOK
<1>23. ASSUME Apply \/ Stop PROVE Typed'
  <2>1. ThreadsOK' /\ HoldsInstance'
    BY <1>23 DEF Apply, Stop, Goto, ThreadsOK, HoldsInstance, Procs, ProcessorSteps
  <2>2. failures' \in Nat /\ UNCHANGED past
    BY <1>23, FailureTyped DEF Apply, Stop, RestOK
  <2>3. disk' \in Answers
    <3>1. disk \in Answers /\ disk \cup batch \in Answers
      BY DEF RestOK, Answers
    <3> QED BY <1>23, <3>1, LeavesTyped DEF Apply, Stop
  <2>4. ObjectsOK'
    <3>1. CASE Apply
      BY <3>1, SameObjects DEF Apply
    <3>2. CASE UNCHANGED <<reader, cache, watch, seen>>
      BY <3>2 DEF ObjectsOK
    <3>3. CASE StopWatcher(current) /\ UNCHANGED <<reader, cache>>
      BY <3>3 DEF StopWatcher, ObjectsOK, Answers
    <3> QED BY <1>23, <3>1, <3>2, <3>3 DEF Stop
  <2> QED BY <1>23, <2>1, <2>2, <2>3, <2>4 DEF Apply, Stop, RestOK
<1>24. ASSUME Build PROVE Typed'
  <2>1. /\ pc' \in [Procs -> HandlerSteps \cup ProcessorSteps] /\ HoldsInstance'
        /\ lock' \in {lock, None} /\ batch' \in Answers /\ rebuild' \in BOOLEAN
    <3>1. CASE Abandon
      BY <1>24, <3>1, AbandonTyped DEF Build
    <3>2. CASE Goto(Processor, "reopen") /\ UNCHANGED <<lock, batch, rebuild>>
      BY <1>24, <3>2 DEF Build, Goto, ThreadsOK, HoldsInstance, RestOK, Procs, HandlerSteps
    <3> QED BY <1>24, <3>1, <3>2 DEF Build
  <2>2. failures' \in Nat /\ UNCHANGED past
    BY <1>24, FailureTyped DEF Build, RestOK
  <2>3. disk' \in Answers
    BY <1>24, LeavesTyped DEF Build, RestOK
  <2> QED BY <1>24, <2>1, <2>2, <2>3, SameObjects DEF Build, RestOK, ThreadsOK
<1>25. ASSUME UNCHANGED vars PROVE Typed'
  BY <1>25, SameObjects DEF vars, ThreadsOK, RestOK, HoldsInstance
<1> QED
  BY <1>1, <1>2, <1>3, <1>4, <1>5, <1>6, <1>7, <1>8, <1>9, <1>10, <1>11, <1>12,
     <1>13, <1>14, <1>15, <1>16, <1>17, <1>18, <1>19, <1>20, <1>21, <1>22, <1>23,
     <1>24, <1>25
  DEF Next, Serve, Blocking, Swapping, Process, Procs

\* Every variable keeps its type.
THEOREM TypeCorrect == Spec => []TypeOK
BY InitTyped, TypedStep, TypedGivesTypeOK, PTL DEF Spec

---------------------------------------------------------------------------
(* The inductive invariant.  That writers may have mixed their files is    *)
(* remembered, so as long as it is not the case it never was; until then   *)
(* the lock is held by whoever writes, and readers and caches stay behind. *)

LEMMA HistoryGrows == Typed /\ [Next]_vars => past \subseteq past' /\ failures <= failures'
<1> SUFFICES ASSUME Typed, [Next]_vars PROVE past \subseteq past' /\ failures <= failures'
  OBVIOUS
<1> USE DEF Typed, RestOK, history
<1>1. ASSUME UNCHANGED history PROVE past \subseteq past' /\ failures <= failures'
  BY <1>1
<1>2. ASSUME IOError, UNCHANGED past PROVE past \subseteq past' /\ failures <= failures'
  BY <1>2 DEF IOError
<1>3. ASSUME Failure PROVE past \subseteq past' /\ failures <= failures'
  BY <1>1, <1>2, <1>3 DEF Failure
<1>4. ASSUME NEW t \in Handlers, NEW j \in Searches \cup {Reload}, Request(t, j)
      PROVE  past \subseteq past' /\ failures <= failures'
  BY <1>4 DEF Request
<1>5. ASSUME NEW t \in Handlers, Remove(t) \/ Insert(t) PROVE UNCHANGED history
  BY <1>5 DEF Remove, Insert
<1>6. ASSUME NEW t \in Handlers, Lock(t) PROVE past \subseteq past' /\ failures <= failures'
  BY <1>6 DEF Lock, IOError
<1>7. ASSUME NEW t \in Handlers, Serve(t), ~Reconcile(t), ~Swapping(t)
      PROVE  UNCHANGED history
  BY <1>7 DEF Serve, Check, Loaded, Open, WatchCheck, Get, GetReader, Hit, Miss, Put, GiveUp
<1>8. ASSUME NEW u \in Procs, Swapping(u) PROVE UNCHANGED history \/ Failure
  BY <1>8 DEF Swapping, Reopen, Swap, ClearQueries, ClearContents, Spawn
<1>9. ASSUME NEW t \in Handlers, Reconcile(t) PROVE UNCHANGED history \/ Failure
  BY <1>9 DEF Reconcile
<1>10. ASSUME Apply \/ Build PROVE UNCHANGED history \/ Failure
  BY <1>10 DEF Apply, Build
<1>11. ASSUME Take \/ Count \/ Stop \/ CliLock PROVE UNCHANGED history
  BY <1>11 DEF Take, Count, Stop, CliLock
<1>12. ASSUME DeltaLock \/ RebuildLock
       PROVE  UNCHANGED history \/ (IOError /\ UNCHANGED past)
  BY <1>12 DEF DeltaLock, RebuildLock
<1>13. ASSUME NEW e \in Edits, Edit(e) PROVE UNCHANGED history
  BY <1>13 DEF Edit
<1>14. ASSUME NEW i \in Instances, StartWatcher(i) \/ Debounced(i)
       PROVE  UNCHANGED history \/ (IOError /\ UNCHANGED past)
  BY <1>14 DEF StartWatcher, Debounced
<1>15. ASSUME CliIndex PROVE past \subseteq past' /\ failures <= failures'
  BY <1>15 DEF CliIndex
<1>16. CASE UNCHANGED vars
  BY <1>16 DEF vars
<1> QED
  BY <1>1, <1>2, <1>3, <1>4, <1>5, <1>6, <1>7, <1>8, <1>9, <1>10, <1>11, <1>12, <1>13,
     <1>14, <1>15, <1>16
  DEF Next, Blocking, Process, Procs

LEMMA LockedBefore == Typed /\ [Next]_vars /\ Locked' => Locked
BY HistoryGrows DEF Locked

\* Steps taken with the IndexLock held
Holding == {"reconcile", "apply", "stop", "build", "reopen", "swap", "clearq",
            "clearc", "spawn"}

LockHeld == \A u \in Procs : pc[u] \in Holding => lock = u

\* Nothing on disk, or on its way there, that was not an edit
Known ==
    /\ disk \subseteq edited /\ pending \subseteq edited /\ batch \subseteq edited
    /\ \A i \in Instances : seen[i] \subseteq edited

\* No reader is ahead of the disk; one about to be swapped in is level with it
ReadersBehind ==
    /\ \A i \in Instances : reader[i] \subseteq disk
    /\ \A u \in Procs : rd[u] \subseteq disk
    /\ \A u \in Procs : pc[u] = "swap" => rd[u] = disk

\* A search in flight is not ahead of the instance it holds
SearchBehind ==
    \A t \in Handlers : pc[t] \in {"lookup", "put"} => rd[t] \subseteq reader[inst[t]]

CacheBehind ==
    \A i \in Instances, k \in Searches : cache[i][k] # None => cache[i][k] \subseteq reader[i]

Guarded == LockHeld /\ ReadersBehind /\ SearchBehind /\ CacheBehind

IInv == Typed /\ Known /\ (Locked => Guarded)

LEMMA InitIInv == Init => IInv
<1> SUFFICES ASSUME Init PROVE IInv
  OBVIOUS
<1>1. Typed
  BY InitTyped
<1>2. LockHeld /\ SearchBehind
  BY DEF Init, LockHeld, SearchBehind, Holding, Procs
<1>3. Known /\ ReadersBehind
  BY DEF Init, Known, ReadersBehind
<1>4. CacheBehind
  BY DEF Init, CacheBehind, Empty
<1> QED BY <1>1, <1>2, <1>3, <1>4 DEF IInv, Guarded

LEMMA LockStep == Typed /\ LockHeld /\ [Next]_vars /\ Locked' => LockHeld'
<1> SUFFICES ASSUME Typed, LockHeld, [Next]_vars, Locked' PROVE LockHeld'
  OBVIOUS
<1> USE DaemonAssumption
    DEF Typed, ThreadsOK, LockHeld, Holding, Procs, store, object, channel, request,
        Goto
<1>1. ASSUME NEW t \in Handlers, NEW j \in Searches \cup {Reload}, Request(t, j)
      PROVE  LockHeld'
  BY <1>1 DEF Request
<1>2. ASSUME NEW t \in Handlers,
             Remove(t) \/ Check(t) \/ Loaded(t) \/ WatchCheck(t) \/ Insert(t) \/ Miss(t)
      PROVE  LockHeld'
  BY <1>2 DEF Remove, Check, Loaded, WatchCheck, Insert, Miss
<1>3. ASSUME NEW t \in Handlers, Open(t) \/ Get(t) \/ GetReader(t) PROVE LockHeld'
  BY <1>3 DEF Open, Get, GetReader, Finish
<1>4. ASSUME NEW t \in Handlers, Hit(t) \/ GiveUp(t) \/ Put(t) PROVE LockHeld'
  BY <1>4 DEF Hit, GiveUp, Leave, Put, Finish
<1>5. ASSUME NEW t \in Handlers, Lock(t) \/ Reconcile(t) PROVE LockHeld'
  <2>1. CASE Lock(t)
    <3>1. Acquire(t)
      BY <2>1 DEF Lock, Locked
    <3> QED BY <2>1, <3>1 DEF Lock, Acquire
  <2>2. CASE Reconcile(t)
    BY <2>2 DEF Reconcile
  <2> QED BY <1>5, <2>1, <2>2
<1>6. ASSUME Abandon PROVE LockHeld'
  BY <1>6 DEF Abandon, Release
<1>7. ASSUME NEW u \in Procs,
             Reopen(u) \/ Swap(u) \/ ClearQueries(u) \/ ClearContents(u) \/ Spawn(u)
      PROVE  LockHeld'
  <2>1. CASE Reopen(u)
    BY <1>6, <2>1 DEF Reopen
  <2>2. CASE Swap(u) \/ ClearQueries(u) \/ ClearContents(u)
    BY <2>2 DEF Swap, ClearQueries, ClearContents, AfterSwap, Release
  <2>3. CASE Spawn(u)
    BY <2>3 DEF Spawn, Release
  <2> QED BY <1>7, <2>1, <2>2, <2>3
<1>8. ASSUME Take \/ Count PROVE LockHeld'
  BY <1>8 DEF Take, Count
<1>9. ASSUME DeltaLock \/ RebuildLock PROVE LockHeld'
  BY <1>6, <1>9 DEF DeltaLock, RebuildLock, Acquire
<1>10. ASSUME Apply \/ Stop \/ Build PROVE LockHeld'
  BY <1>6, <1>10 DEF Apply, Stop, Build
<1>11. ASSUME CliLock \/ CliIndex PROVE LockHeld'
  BY <1>11 DEF CliLock, CliIndex, Acquire, Release
<1>12. ASSUME NEW e \in Edits, Edit(e) PROVE LockHeld'
  BY <1>12 DEF Edit
<1>13. ASSUME NEW i \in Instances, StartWatcher(i) \/ Debounced(i) PROVE LockHeld'
  BY <1>13 DEF StartWatcher, Debounced
<1>14. ASSUME UNCHANGED vars PROVE LockHeld'
  BY <1>14 DEF vars
<1> QED
  BY <1>1, <1>2, <1>3, <1>4, <1>5, <1>6, <1>7, <1>8, <1>9, <1>10, <1>11, <1>12,
     <1>13, <1>14
  DEF Next, Serve, Blocking, Swapping, Process

LEMMA KnownStep == Typed /\ Known /\ [Next]_vars => Known' /\ edited \subseteq edited'
<1> SUFFICES ASSUME Typed, Known, [Next]_vars PROVE Known' /\ edited \subseteq edited'
  OBVIOUS
<1> USE DEF Typed, ObjectsOK, Known, store, object, channel, request
<1>1. ASSUME NEW i, DropInstance(i) \/ StopWatcher(i) \/ UNCHANGED <<watch, seen>>
      PROVE  \A j \in Instances : seen'[j] \subseteq seen[j]
  BY <1>1 DEF DropInstance, StopWatcher
<1>2. ASSUME NEW t \in Handlers, NEW j \in Searches \cup {Reload}, Request(t, j)
      PROVE  Known' /\ edited \subseteq edited'
  BY <1>2 DEF Request
<1>3. ASSUME NEW t \in Handlers, Remove(t) PROVE Known' /\ edited \subseteq edited'
  BY <1>1, <1>3 DEF Remove
<1>4. ASSUME NEW t \in Handlers, Insert(t) PROVE Known' /\ edited \subseteq edited'
  BY <1>1, <1>4 DEF Insert
<1>5. ASSUME NEW t \in Handlers, Hit(t) \/ GiveUp(t) \/ Put(t)
      PROVE  Known' /\ edited \subseteq edited'
  BY <1>1, <1>5 DEF Hit, GiveUp, Leave, Put
<1>6. ASSUME NEW t \in Handlers,
             Check(t) \/ Loaded(t) \/ Open(t) \/ WatchCheck(t) \/ Lock(t) \/ Reconcile(t)
                \/ Get(t) \/ GetReader(t) \/ Miss(t)
      PROVE  Known' /\ edited \subseteq edited'
  BY <1>6 DEF Check, Loaded, Open, WatchCheck, Lock, Reconcile, Leaves, Get, GetReader, Miss
<1>7. ASSUME NEW u \in Procs,
             Reopen(u) \/ Swap(u) \/ ClearQueries(u) \/ ClearContents(u) \/ Spawn(u)
      PROVE  Known' /\ edited \subseteq edited'
  BY <1>7 DEF Reopen, Abandon, Swap, ClearQueries, ClearContents, Spawn, AfterSwap
<1>8. ASSUME Take \/ Count \/ DeltaLock \/ RebuildLock PROVE Known' /\ edited \subseteq edited'
  BY <1>8 DEF Take, Count, DeltaLock, RebuildLock, Abandon
<1>9. ASSUME Apply \/ Stop \/ Build PROVE Known' /\ edited \subseteq edited'
  BY <1>1, <1>9 DEF Apply, Stop, Build, Leaves, Abandon
<1>10. ASSUME CliLock \/ CliIndex PROVE Known' /\ edited \subseteq edited'
  BY <1>10 DEF CliLock, CliIndex, Leaves
<1>11. ASSUME NEW e \in Edits, Edit(e) PROVE Known' /\ edited \subseteq edited'
  BY <1>11 DEF Edit
<1>12. ASSUME NEW i \in Instances, StartWatcher(i) \/ Debounced(i)
       PROVE  Known' /\ edited \subseteq edited'
  BY <1>12 DEF StartWatcher, Debounced
<1>13. ASSUME UNCHANGED vars PROVE Known' /\ edited \subseteq edited'
  BY <1>13 DEF vars
<1> QED
  BY <1>2, <1>3, <1>4, <1>5, <1>6, <1>7, <1>8, <1>9, <1>10, <1>11, <1>12, <1>13
  DEF Next, Serve, Blocking, Swapping, Process, Procs

\* The index on disk only gains edits, and changes only in the hands of the
\* lock holder, which is not about to swap.
LEMMA DiskGrows ==
  Typed /\ LockHeld /\ Known /\ Locked /\ [Next]_vars =>
      /\ disk \subseteq disk'
      /\ \A u \in Procs : pc[u] = "swap" => disk' = disk
<1> SUFFICES ASSUME Typed, LockHeld, Known, Locked, [Next]_vars
             PROVE  /\ disk \subseteq disk'
                    /\ \A u \in Procs : pc[u] = "swap" => disk' = disk
  OBVIOUS
<1> USE DaemonAssumption
    DEF Typed, ThreadsOK, LockHeld, Holding, Known, Procs, store, Leaves
<1>1. ASSUME NEW t \in Handlers, Reconcile(t)
      PROVE  disk \subseteq disk' /\ \A u \in Procs : pc[u] # "swap"
  BY <1>1 DEF Reconcile
<1>2. ASSUME Apply \/ Build
      PROVE  disk \subseteq disk' /\ \A u \in Procs : pc[u] # "swap"
  BY <1>2 DEF Apply, Build
<1>3. ASSUME CliIndex
      PROVE  disk \subseteq disk' /\ \A u \in Procs : pc[u] # "swap"
  BY <1>3 DEF CliIndex
<1>4. CASE UNCHANGED disk
  BY <1>4
<1>5. ASSUME NEW t \in Handlers, NEW j \in Searches \cup {Reload}, Request(t, j)
      PROVE  UNCHANGED disk
  BY <1>5 DEF Request
<1>6. ASSUME NEW t \in Handlers, Blocking(t) PROVE UNCHANGED disk
  BY <1>6 DEF Blocking, Remove, Insert, Lock
<1>7. ASSUME NEW t \in Handlers, Serve(t), ~Reconcile(t), ~Swapping(t) PROVE UNCHANGED disk
  BY <1>7 DEF Serve, Check, Loaded, Open, WatchCheck, Get, GetReader, Hit, Miss, Put, GiveUp
<1>8. ASSUME NEW u \in Procs, Swapping(u) PROVE UNCHANGED disk
  BY <1>8 DEF Swapping, Reopen, Swap, ClearQueries, ClearContents, Spawn
<1>9. ASSUME Take \/ Count \/ Stop \/ DeltaLock \/ RebuildLock PROVE UNCHANGED disk
  BY <1>9 DEF Take, Count, Stop, DeltaLock, RebuildLock
<1>10. ASSUME NEW e \in Edits, Edit(e) PROVE UNCHANGED disk
  BY <1>10 DEF Edit
<1>11. ASSUME NEW i \in Instances, StartWatcher(i) \/ Debounced(i) PROVE UNCHANGED disk
  BY <1>11 DEF StartWatcher, Debounced
<1>12. CASE CliLock \/ UNCHANGED vars
  BY <1>12 DEF CliLock, vars
<1> QED
  BY <1>1, <1>2, <1>3, <1>4, <1>5, <1>6, <1>7, <1>8, <1>9, <1>10, <1>11, <1>12
  DEF Next, Process

---------------------------------------------------------------------------
(* Readers and caches.  Most steps leave the instances' readers and caches *)
(* and the readers in hand alone, and bring no thread to a step of which   *)
(* the invariant speaks: those are Quiet.                                  *)

Quiet ==
    /\ UNCHANGED <<reader, cache, rd, inst>>
    /\ \A u \in Procs :
          /\ pc'[u] = "swap" => pc[u] = "swap"
          /\ pc'[u] \in {"lookup", "put"} => pc[u] \in {"lookup", "put"}

LEMMA StepKinds ==
  ASSUME Typed, [Next]_vars
  PROVE  \/ Quiet
         \/ \E t \in Handlers : \/ Remove(t) \/ Open(t) \/ Insert(t) \/ Get(t) \/ GetReader(t)
                                 \/ Hit(t) \/ GiveUp(t) \/ Put(t)
         \/ \E u \in Procs : Reopen(u) \/ Swap(u) \/ ClearQueries(u) \/ ClearContents(u)
<1> USE DaemonAssumption
    DEF Typed, ThreadsOK, Procs, object, request, Goto, Quiet
<1>1. ASSUME NEW t \in Handlers, NEW j \in Searches \cup {Reload}, Request(t, j) PROVE Quiet
  BY <1>1 DEF Request
<1>2. ASSUME NEW t \in Handlers, Check(t) \/ Loaded(t) \/ WatchCheck(t) \/ Lock(t) PROVE Quiet
  BY <1>2 DEF Check, Loaded, WatchCheck, Lock
<1>3. ASSUME NEW t \in Handlers, Reconcile(t) \/ Miss(t) PROVE Quiet
  BY <1>3 DEF Reconcile, Miss
<1>4. ASSUME NEW u \in Procs, Spawn(u) PROVE Quiet
  BY <1>4 DEF Spawn
<1>5. ASSUME Take \/ Count \/ DeltaLock \/ RebuildLock PROVE Quiet
  BY <1>5 DEF Take, Count, DeltaLock, RebuildLock, Abandon
<1>6. ASSUME Apply \/ Stop \/ Build PROVE Quiet
  BY <1>6 DEF Apply, Stop, Build, Abandon
<1>7. ASSUME CliLock \/ CliIndex PROVE Quiet
  BY <1>7 DEF CliLock, CliIndex
<1>8. ASSUME NEW e \in Edits, Edit(e) PROVE Quiet
  BY <1>8 DEF Edit
<1>9. ASSUME NEW i \in Instances, StartWatcher(i) \/ Debounced(i) PROVE Quiet
  BY <1>9 DEF StartWatcher, Debounced
<1>10. CASE UNCHANGED vars
  BY <1>10 DEF vars
<1> QED
  BY <1>1, <1>2, <1>3, <1>4, <1>5, <1>6, <1>7, <1>8, <1>9, <1>10
  DEF Next, Serve, Blocking, Swapping, Process

\* Ending a request, with or without the last Arc of its instance
LEMMA LeaveReaders ==
  ASSUME Typed, NEW t \in Handlers, Finish(t),
         DropInstance(inst[t]) \/ UNCHANGED reader
  PROVE  /\ \A i \in Instances : reader'[i] \subseteq reader[i]
         /\ \A u \in Procs : rd'[u] \subseteq rd[u] /\ (pc'[u] = "swap" => u # t /\ pc[u] = "swap")
         /\ \A u \in Procs : u # t => rd'[u] = rd[u]
BY DEF Typed, ThreadsOK, ObjectsOK, Procs, Finish, Goto, DropInstance

LEMMA ReadersStep ==
  Typed /\ LockHeld /\ Known /\ Locked /\ ReadersBehind /\ [Next]_vars => ReadersBehind'
<1> SUFFICES ASSUME Typed, LockHeld, Known, Locked, ReadersBehind, [Next]_vars
             PROVE  ReadersBehind'
  OBVIOUS
<1>1. disk \subseteq disk' /\ \A u \in Procs : pc[u] = "swap" => disk' = disk
  BY DiskGrows
<1> USE DEF Typed, ThreadsOK, ObjectsOK, ReadersBehind, Procs, object, request, Goto
<1>2. CASE Quiet
  BY <1>1, <1>2 DEF Quiet
<1>3. ASSUME NEW t \in Handlers, Remove(t) PROVE ReadersBehind'
  BY <1>1, <1>3 DEF Remove, DropInstance
<1>4. ASSUME NEW t \in Handlers, Open(t) PROVE ReadersBehind'
  BY <1>1, <1>4 DEF Open, Finish, store
<1>5. ASSUME NEW t \in Handlers, Insert(t) PROVE ReadersBehind'
  BY <1>1, <1>5 DEF Insert
<1>6. ASSUME NEW t \in Handlers, Get(t) PROVE ReadersBehind'
  BY <1>1, <1>6 DEF Get, Finish
<1>7. ASSUME NEW t \in Handlers, GetReader(t) PROVE ReadersBehind'
  <2>1. inst[t] \in Instances
    BY <1>7 DEF GetReader, HoldsInstance
  <2> QED BY <1>1, <1>7, <2>1 DEF GetReader
<1>8. ASSUME NEW t \in Handlers, Hit(t) \/ GiveUp(t) \/ Put(t) PROVE ReadersBehind'
  <2>1. Finish(t) /\ (DropInstance(inst[t]) \/ UNCHANGED reader) /\ UNCHANGED disk
    BY <1>8 DEF Hit, GiveUp, Leave, Put, store
  <2> QED BY <2>1, LeaveReaders
<1>9. ASSUME NEW u \in Procs, Reopen(u) PROVE ReadersBehind'
  BY <1>1, <1>9 DEF Reopen, Abandon, store
<1>10. ASSUME NEW u \in Procs, Swap(u) PROVE ReadersBehind'
  BY <1>1, <1>10 DEF Swap, AfterSwap, store
<1>11. ASSUME NEW u \in Procs, ClearQueries(u) \/ ClearContents(u) PROVE ReadersBehind'
  BY <1>1, <1>11 DEF ClearQueries, ClearContents, AfterSwap, store
<1> QED
  BY StepKinds, <1>2, <1>3, <1>4, <1>5, <1>6, <1>7, <1>8, <1>9, <1>10, <1>11

\* A swap never takes the served instance back, and changes no other
LEMMA SwapGrows ==
  ASSUME Typed, ReadersBehind, NEW u \in Procs, Swap(u)
  PROVE  /\ \A i \in Instances : reader[i] \subseteq reader'[i]
         /\ UNCHANGED <<cache, inst>>
         /\ \A v \in Procs : v # u => rd'[v] = rd[v] /\ pc'[v] = pc[v]
         /\ pc'[u] \notin {"lookup", "put"}
<1> USE DaemonAssumption
    DEF Typed, ThreadsOK, ObjectsOK, ReadersBehind, Swap, AfterSwap, Procs, request, Goto
<1>1. \A i \in Instances : reader[i] \subseteq reader'[i]
  OBVIOUS
<1>2. /\ \A v \in Procs : v # u => rd'[v] = rd[v] /\ pc'[v] = pc[v]
      /\ pc'[u] \notin {"lookup", "put"}
  OBVIOUS
<1> QED BY <1>1, <1>2

LEMMA SearchStep ==
  Typed /\ ReadersBehind /\ SearchBehind /\ [Next]_vars => SearchBehind'
<1> SUFFICES ASSUME Typed, ReadersBehind, SearchBehind, [Next]_vars,
                    NEW s \in Handlers, pc'[s] \in {"lookup", "put"}
             PROVE  rd'[s] \subseteq reader'[inst'[s]]
  BY DEF SearchBehind
<1> USE DEF Typed, ThreadsOK, ObjectsOK, SearchBehind, Procs, object, request, Goto
<1>1. pc[s] \in {"lookup", "put"} => inst[s] \in Instances /\ rd[s] \subseteq reader[inst[s]]
  BY DEF HoldsInstance
<1>2. CASE Quiet
  BY <1>1, <1>2 DEF Quiet
<1>3. ASSUME NEW t \in Handlers, Remove(t) PROVE rd'[s] \subseteq reader'[inst'[s]]
  <2>1. inst' = inst /\ rd' = rd /\ pc[s] \in {"lookup", "put"}
    BY <1>3 DEF Remove
  <2>2. inst[s] = current => Holders(current) # {}
    BY DEF Holders
  <2>3. reader'[inst[s]] = reader[inst[s]]
    BY <1>1, <1>3, <2>1, <2>2 DEF Remove, DropInstance
  <2> QED BY <1>1, <2>1, <2>3
<1>4. ASSUME NEW t \in Handlers, Open(t) \/ Get(t) PROVE rd'[s] \subseteq reader'[inst'[s]]
  <2>1. inst'[s] = inst[s] /\ rd'[s] = rd[s] /\ reader' = reader /\ pc[s] \in {"lookup", "put"}
    BY <1>4 DEF Open, Get, Finish
  <2> QED BY <1>1, <2>1
<1>5. ASSUME NEW t \in Handlers, Insert(t) PROVE rd'[s] \subseteq reader'[inst'[s]]
  <2>1. inst' = inst /\ rd'[s] = rd[s] /\ pc[s] \in {"lookup", "put"}
    BY <1>5 DEF Insert
  <2>2. \A i \in Instances : Holders(i) = {} => inst[s] # i
    BY DEF Holders
  <2>3. reader'[inst[s]] = reader[inst[s]]
    BY <1>1, <1>5, <2>1, <2>2 DEF Insert
  <2> QED BY <1>1, <2>1, <2>3
<1>6. ASSUME NEW t \in Handlers, GetReader(t) PROVE rd'[s] \subseteq reader'[inst'[s]]
  BY <1>1, <1>6 DEF GetReader, HoldsInstance
<1>7. ASSUME NEW t \in Handlers, Hit(t) \/ GiveUp(t) \/ Put(t)
      PROVE  rd'[s] \subseteq reader'[inst'[s]]
  <2>1. Finish(t) /\ ((LastHolder(t) /\ DropInstance(inst[t])) \/ UNCHANGED reader)
    BY <1>7 DEF Hit, GiveUp, Leave, Put
  <2>2. s # t /\ inst'[s] = inst[s] /\ rd'[s] = rd[s] /\ pc[s] \in {"lookup", "put"}
    BY <2>1 DEF Finish
  <2>3. LastHolder(t) => inst[s] # inst[t]
    BY <2>2 DEF LastHolder, Holders
  <2>4. reader'[inst[s]] = reader[inst[s]]
    BY <1>1, <2>1, <2>2, <2>3 DEF DropInstance
  <2> QED BY <1>1, <2>2, <2>4
<1>8. ASSUME NEW u \in Procs, Reopen(u) \/ ClearQueries(u) \/ ClearContents(u)
      PROVE  rd'[s] \subseteq reader'[inst'[s]]
  <2>1. inst' = inst /\ rd'[s] = rd[s] /\ reader' = reader /\ pc[s] \in {"lookup", "put"}
    BY <1>8 DEF Reopen, Abandon, ClearQueries, ClearContents, AfterSwap
  <2> QED BY <1>1, <2>1
<1>9. ASSUME NEW u \in Procs, Swap(u) PROVE rd'[s] \subseteq reader'[inst'[s]]
  <2>1. s # u /\ rd'[s] = rd[s] /\ pc[s] \in {"lookup", "put"} /\ inst' = inst
    BY <1>9, SwapGrows
  <2> QED BY <1>1, <1>9, <2>1, SwapGrows
<1> QED BY StepKinds, <1>2, <1>3, <1>4, <1>5, <1>6, <1>7, <1>8, <1>9

LEMMA CacheStep ==
  Typed /\ ReadersBehind /\ SearchBehind /\ CacheBehind /\ [Next]_vars
      => CacheBehind'
<1> SUFFICES ASSUME Typed, ReadersBehind, SearchBehind, CacheBehind, [Next]_vars,
                    NEW i \in Instances, NEW k \in Searches, cache'[i][k] # None
             PROVE  cache'[i][k] \subseteq reader'[i]
  BY DEF CacheBehind
<1> USE DEF Typed, ThreadsOK, ObjectsOK, CacheBehind, Procs, object, request, Goto
<1>1. CASE Quiet
  BY <1>1 DEF Quiet
<1>2. ASSUME NEW j, DropInstance(j) PROVE cache'[i][k] \subseteq reader'[i]
  BY <1>2 DEF DropInstance, Empty
<1>3. ASSUME NEW t \in Handlers, Remove(t) \/ Open(t) \/ Get(t) \/ GetReader(t)
      PROVE  cache'[i][k] \subseteq reader'[i]
  BY <1>2, <1>3 DEF Remove, Open, Get, GetReader
<1>4. ASSUME NEW t \in Handlers, Insert(t) PROVE cache'[i][k] \subseteq reader'[i]
  BY <1>4, SMTT(20) DEF Insert, Empty
<1>5. ASSUME NEW t \in Handlers, Hit(t) \/ GiveUp(t) PROVE cache'[i][k] \subseteq reader'[i]
  BY <1>2, <1>5 DEF Hit, GiveUp, Leave
<1>6. ASSUME NEW t \in Handlers, Put(t) PROVE cache'[i][k] \subseteq reader'[i]
  <2>1. CASE LastHolder(t)
    BY <1>2, <1>6, <2>1 DEF Put
  <2>2. CASE ~LastHolder(t)
    <3>1. rd[t] \subseteq reader[inst[t]] /\ inst[t] \in Instances /\ UNCHANGED reader
      BY <1>6, <2>2 DEF Put, SearchBehind, HoldsInstance
    <3>2. PICK v : cache' = [cache EXCEPT ![inst[t]] =
                                 [@ EXCEPT ![v] = None, ![job[t]] = rd[t]]]
      BY <1>6, <2>2 DEF Put
    <3>3. CASE i # inst[t]
      <4>1. cache'[i] = cache[i]
        BY <3>2, <3>3
      <4> QED BY <3>1, <4>1
    <3>4. CASE i = inst[t]
      <4>1. cache'[i] = [cache[i] EXCEPT ![v] = None, ![job[t]] = rd[t]]
        BY <3>2, <3>4
      <4>2. cache[i] \in [Searches -> {None} \cup Answers]
        OBVIOUS
      <4>3. cache'[i][k] = cache[i][k] \/ cache'[i][k] = None \/ cache'[i][k] = rd[t]
        BY <4>1, <4>2
      <4> QED BY <3>1, <3>4, <4>3
    <3> QED BY <3>3, <3>4
  <2> QED BY <2>1, <2>2
<1>7. ASSUME NEW u \in Procs, Reopen(u) PROVE cache'[i][k] \subseteq reader'[i]
  BY <1>7 DEF Reopen
<1>8. ASSUME NEW u \in Procs, Swap(u) PROVE cache'[i][k] \subseteq reader'[i]
  BY <1>8, SwapGrows
<1>9. ASSUME NEW u \in Procs, ClearQueries(u) \/ ClearContents(u)
      PROVE  cache'[i][k] \subseteq reader'[i]
  <2>1. cache'[i][k] = cache[i][k] /\ UNCHANGED reader
    BY <1>9, SMTT(20) DEF ClearQueries, ClearContents, Cleared
  <2> QED BY <2>1
<1> QED BY StepKinds, <1>1, <1>3, <1>4, <1>5, <1>6, <1>7, <1>8, <1>9

LEMMA IInvStep == IInv /\ [Next]_vars => IInv'
<1> SUFFICES ASSUME IInv, [Next]_vars PROVE IInv'
  OBVIOUS
<1>1. Typed' /\ Known'
  BY TypedStep, KnownStep DEF IInv
<1>2. ASSUME Locked' PROVE Guarded'
  <2>1. Locked /\ Guarded
    BY <1>2, LockedBefore DEF IInv
  <2> QED BY <1>2, <2>1, LockStep, ReadersStep, SearchStep, CacheStep DEF IInv, Guarded
<1> QED BY <1>1, <1>2 DEF IInv

LEMMA MonotoneStep ==
  IInv /\ [Next]_vars =>
      [\A i \in Instances :
          (Locked /\ current = i /\ current' = i) => reader[i] \subseteq reader'[i]]_vars
<1> SUFFICES ASSUME IInv, Locked, [Next]_vars, NEW i \in Instances, current = i, current' = i
             PROVE  reader[i] \subseteq reader'[i]
  OBVIOUS
<1> USE DaemonAssumption DEF IInv, Guarded, Typed, ThreadsOK, ObjectsOK, object, request
<1>1. CASE Quiet
  BY <1>1 DEF Quiet
<1>2. ASSUME NEW t \in Handlers, Remove(t) \/ Insert(t) PROVE reader[i] \subseteq reader'[i]
  BY <1>2 DEF Remove, Insert
<1>3. ASSUME NEW t \in Handlers, Open(t) \/ Get(t) \/ GetReader(t)
      PROVE  reader[i] \subseteq reader'[i]
  BY <1>3 DEF Open, Get, GetReader
<1>4. ASSUME NEW t \in Handlers, Hit(t) \/ GiveUp(t) \/ Put(t)
      PROVE  reader[i] \subseteq reader'[i]
  BY <1>4 DEF Hit, GiveUp, Leave, Put, LastHolder, DropInstance
<1>5. ASSUME NEW u \in Procs, Reopen(u) \/ ClearQueries(u) \/ ClearContents(u)
      PROVE  reader[i] \subseteq reader'[i]
  BY <1>5 DEF Reopen, ClearQueries, ClearContents
<1>6. ASSUME NEW u \in Procs, Swap(u) PROVE reader[i] \subseteq reader'[i]
  BY <1>6, SwapGrows
<1> QED BY StepKinds, <1>1, <1>2, <1>3, <1>4, <1>5, <1>6

---------------------------------------------------------------------------
(* What a watched root is served.  While nothing failed, no reload was     *)
(* asked for and nobody else indexed, no instance is ever replaced, and    *)
(* the index on disk moves ahead of the served reader only between a write *)
(* and the swap that follows it, in the hands of the lock holder.          *)

Calm == past = {} /\ failures = 0

\* Steps of ensure_index_loaded and of the processor that found an instance
NeedsInstance == Holding \cup {"lock", "dlock", "rlock"}

Swapped == {"clearq", "clearc", "spawn"}

NobodyRemoves == \A t \in Handlers : pc[t] # "remove"

InstanceThere == \A u \in Procs : pc[u] \in NeedsInstance => current # None

LevelOnceSwapped == \A u \in Procs : pc[u] \in Swapped => reader[current] = disk

LevelWhenWatched ==
    (current # None /\ IsWatching(current) /\ \A u \in Procs : pc[u] \notin {"reopen", "swap"})
        => reader[current] = disk

Level == NobodyRemoves /\ InstanceThere /\ LevelOnceSwapped /\ LevelWhenWatched

CalmInv == Calm => Level

LEMMA LevelServes == IInv /\ CalmInv => ServedIsOnDisk
<1> SUFFICES ASSUME IInv, CalmInv, Calm, lock = None, current # None, IsWatching(current)
             PROVE  reader[current] = disk
  BY DEF ServedIsOnDisk, Calm
<1>1. \A u \in Procs : pc[u] \notin {"reopen", "swap"}
  BY DaemonAssumption DEF IInv, Guarded, Calm, Locked, LockHeld, Holding, Procs
<1> QED BY <1>1 DEF CalmInv, Level, LevelWhenWatched

LEMMA InitCalmInv == Init => CalmInv
BY DEF Init, CalmInv, Level, NobodyRemoves, InstanceThere, LevelOnceSwapped,
       LevelWhenWatched, NeedsInstance, Holding, Swapped, Procs

LEMMA CalmBefore == Typed /\ [Next]_vars /\ Calm' => Calm
BY HistoryGrows DEF Calm, Typed, RestOK

\* A step by which no thread comes to a step of which Level speaks, none
\* swaps, no watcher starts, and the served instance and the disk stay.
Idle ==
    /\ UNCHANGED <<disk, current>>
    /\ current # None => reader'[current] = reader[current]
    /\ current # None => (watch'[current] # "off" => watch[current] # "off")
    /\ \A u \in Procs :
          /\ pc'[u] = "remove" => pc[u] = "remove"
          /\ pc'[u] \in NeedsInstance => pc[u] \in NeedsInstance \/ current # None
          /\ pc'[u] \in Swapped => pc[u] \in Swapped
          /\ pc[u] \in {"reopen", "swap"} => pc'[u] \in {"reopen", "swap"}

LEMMA IdleLevel == Typed /\ Level /\ Idle => Level'
BY DEF Idle, Level, NobodyRemoves, InstanceThere, LevelOnceSwapped, LevelWhenWatched,
       IsWatching, Procs, Swapped, NeedsInstance, Holding

LEMMA CalmStep == IInv /\ CalmInv /\ [Next]_vars => CalmInv'
<1> SUFFICES ASSUME IInv, CalmInv, [Next]_vars, Calm' PROVE Level'
  BY DEF CalmInv
<1>0. Calm /\ Level
  BY CalmBefore DEF IInv, CalmInv
<1>1. Typed /\ LockHeld /\ ReadersBehind
  BY <1>0 DEF IInv, Guarded, Calm, Locked
<1>2. Calm /\ Level
  BY <1>0
<1>3. ~Failure /\ ~IOError
  BY <1>2 DEF Calm, Failure, IOError, Locked
<1> USE DaemonAssumption
    DEF Typed, ThreadsOK, ObjectsOK, RestOK, Procs, NeedsInstance, Holding, Swapped,
        store, object, channel, request, Goto
<1>4. ASSUME NEW t \in Handlers, NEW j \in Searches \cup {Reload}, Request(t, j) PROVE Level'
  <2>1. j # Reload
    BY <1>4 DEF Request, Calm
  <2>2. Idle
    BY <1>1, <1>4, <2>1 DEF Request, Idle
  <2> QED BY <1>1, <1>2, <2>2, IdleLevel
<1>5. ASSUME NEW t \in Handlers, Remove(t) PROVE Level'
  BY <1>2, <1>5 DEF Remove, Level, NobodyRemoves
<1>6. ASSUME NEW t \in Handlers,
             Check(t) \/ Loaded(t) \/ WatchCheck(t) \/ Lock(t) \/ GetReader(t) \/ Miss(t)
      PROVE  Level'
  <2>1. Idle
    BY <1>1, <1>2, <1>3, <1>6
    DEF Check, Loaded, WatchCheck, Lock, GetReader, Miss, Idle, Level, InstanceThere
  <2> QED BY <1>1, <1>2, <2>1, IdleLevel
<1>7. ASSUME NEW t \in Handlers, Open(t) \/ Get(t) PROVE Level'
  <2>1. Idle
    BY <1>1, <1>7 DEF Open, Get, Finish, Idle
  <2> QED BY <1>1, <1>2, <2>1, IdleLevel
<1>8. ASSUME NEW t \in Handlers, Hit(t) \/ GiveUp(t) \/ Put(t) PROVE Level'
  <2>1. /\ pc[t] \in {"lookup", "put"} /\ Finish(t) /\ UNCHANGED <<disk, current>>
        /\ \/ LastHolder(t) /\ DropInstance(inst[t])
           \/ UNCHANGED <<reader, watch>>
    BY <1>8 DEF Hit, GiveUp, Leave, Put
  <2>2. Idle
    BY <1>1, <2>1 DEF Finish, LastHolder, DropInstance, StopWatcher, Idle
  <2> QED BY <1>1, <1>2, <2>2, IdleLevel
<1>9. ASSUME NEW t \in Handlers, Insert(t) PROVE Level'
  <2>1. CASE current # None
    <3>1. Idle
      BY <1>1, <1>9, <2>1 DEF Insert, Idle
    <3> QED BY <1>1, <1>2, <3>1, IdleLevel
  <2>2. CASE current = None
    <3>1. PICK i \in Instances : current' = i /\ watch' = [watch EXCEPT ![i] = "off"]
      BY <1>9, <2>2 DEF Insert, StopWatcher
    <3>2. ~IsWatching(current)' /\ current' # None
      BY <1>1, <3>1 DEF IsWatching
    <3>3. \A u \in Procs : pc'[u] \notin Swapped /\ (pc'[u] = "remove" => pc[u] = "remove")
      BY <1>1, <1>2, <1>9, <2>2 DEF Insert, Level, InstanceThere
    <3> QED BY <1>2, <3>2, <3>3
            DEF Level, NobodyRemoves, InstanceThere, LevelOnceSwapped, LevelWhenWatched
  <2> QED BY <2>1, <2>2
<1>10. ASSUME NEW u \in Procs, pc'[u] = "reopen",
              pc[u] \in {"reconcile", "apply", "build"},
              \A v \in Procs : v # u => pc'[v] = pc[v], UNCHANGED <<current, reader, watch>>
       PROVE  Level'
  <2>1. \A v \in Procs : v # u => pc[v] \notin Holding
    BY <1>1, <1>10 DEF LockHeld
  <2>2. \A v \in Procs : pc'[v] \notin Swapped
    BY <1>10, <2>1
  <2>3. \A v \in Procs : /\ pc'[v] = "remove" => pc[v] = "remove"
                         /\ pc'[v] \in NeedsInstance => pc[v] \in NeedsInstance
    BY <1>10
  <2>4. NobodyRemoves' /\ InstanceThere' /\ LevelOnceSwapped'
    BY <1>2, <1>10, <2>2, <2>3 DEF Level, NobodyRemoves, InstanceThere, LevelOnceSwapped
  <2>5. LevelWhenWatched'
    BY <1>10 DEF LevelWhenWatched
  <2> QED BY <2>4, <2>5 DEF Level
<1>11. ASSUME NEW t \in Handlers, Reconcile(t) PROVE Level'
  <2>1. /\ pc[t] = "reconcile" /\ pc' = [pc EXCEPT ![t] = "reopen"]
        /\ UNCHANGED <<current, reader, watch>>
    BY <1>3, <1>11 DEF Reconcile
  <2> QED BY <1>1, <1>10, <2>1
<1>12. ASSUME Apply \/ Build PROVE Level'
  <2>1. /\ pc[Processor] \in {"apply", "build"} /\ pc' = [pc EXCEPT ![Processor] = "reopen"]
        /\ UNCHANGED <<current, reader, watch>>
    BY <1>3, <1>12 DEF Apply, Build
  <2> QED BY <1>1, <1>10, <2>1
<1>13. ASSUME NEW u \in Procs, Reopen(u) PROVE Level'
  <2>1. Idle
    BY <1>1, <1>3, <1>13 DEF Reopen, Idle
  <2> QED BY <1>1, <1>2, <2>1, IdleLevel
<1>14. ASSUME NEW u \in Procs, Swap(u) PROVE Level'
  <2>1. current \in Instances /\ rd[u] = disk
    BY <1>1, <1>2, <1>14 DEF Swap, ReadersBehind, Level, InstanceThere
  <2>2. reader'[current] = disk /\ UNCHANGED <<disk, current>>
    BY <1>1, <1>14, <2>1 DEF Swap
  <2>3. \A v \in Procs : pc'[v] = "remove" => pc[v] = "remove"
    BY <1>1, <1>14, <2>1 DEF Swap
  <2> QED BY <1>2, <2>1, <2>2, <2>3
          DEF Level, NobodyRemoves, InstanceThere, LevelOnceSwapped, LevelWhenWatched
<1>15. ASSUME NEW u \in Procs, ClearQueries(u) \/ ClearContents(u) \/ Spawn(u) PROVE Level'
  <2>1. current \in Instances /\ reader[current] = disk
    BY <1>1, <1>2, <1>15
    DEF ClearQueries, ClearContents, Spawn, Level, InstanceThere, LevelOnceSwapped
  <2>2. UNCHANGED <<disk, current, reader>>
    BY <1>15 DEF ClearQueries, ClearContents, Spawn
  <2>3. \A v \in Procs : pc'[v] = "remove" => pc[v] = "remove"
    BY <1>1, <1>15 DEF ClearQueries, ClearContents, Spawn, AfterSwap
  <2> QED BY <1>2, <2>1, <2>2, <2>3
          DEF Level, NobodyRemoves, InstanceThere, LevelOnceSwapped, LevelWhenWatched
<1>16. ASSUME NEW e \in Edits, Edit(e) PROVE Level'
  <2>1. Idle
    BY <1>16 DEF Edit, Idle
  <2> QED BY <1>1, <1>2, <2>1, IdleLevel
<1>17. ASSUME NEW i \in Instances, StartWatcher(i) \/ Debounced(i) PROVE Level'
  <2>1. Idle
    BY <1>1, <1>3, <1>17 DEF StartWatcher, Debounced, Idle
  <2> QED BY <1>1, <1>2, <2>1, IdleLevel
<1>18. ASSUME CliLock PROVE Level'
  <2>1. Idle
    BY <1>18 DEF CliLock, Idle
  <2> QED BY <1>1, <1>2, <2>1, IdleLevel
<1>19. ASSUME CliIndex PROVE FALSE
  BY <1>19 DEF CliIndex, Calm
<1>20. ASSUME Take \/ Count \/ DeltaLock \/ RebuildLock PROVE Level'
  <2>1. Idle
    BY <1>1, <1>3, <1>20 DEF Take, Count, NoDocuments, DeltaLock, RebuildLock, Idle
  <2> QED BY <1>1, <1>2, <2>1, IdleLevel
<1>21. ASSUME Stop PROVE Level'
  <2>1. Idle
    BY <1>1, <1>21 DEF Stop, StopWatcher, Idle
  <2> QED BY <1>1, <1>2, <2>1, IdleLevel
<1>22. CASE UNCHANGED vars
  <2>1. Idle
    BY <1>22 DEF vars, Idle
  <2> QED BY <1>1, <1>2, <2>1, IdleLevel
<1> QED
  BY <1>4, <1>5, <1>6, <1>7, <1>8, <1>9, <1>11, <1>12, <1>13, <1>14, <1>15, <1>16,
     <1>17, <1>18, <1>19, <1>20, <1>21, <1>22
  DEF Next, Serve, Blocking, Swapping, Process

---------------------------------------------------------------------------

LEMMA Invariance == Spec => []IInv
BY InitIInv, IInvStep, PTL DEF Spec

\* As long as every writer had the IndexLock, a result served from a cache was
\* computed on an index its instance has served: never on a newer one, whatever
\* overlaps.  A handler that failed to acquire it (ensure_index_loaded) ends that.
THEOREM CacheSafe == Spec => []CacheNeverAhead
<1>1. IInv => CacheNeverAhead
  BY DEF IInv, Guarded, CacheBehind, CacheNeverAhead
<1> QED BY <1>1, Invariance, PTL

\* As long as every writer had the IndexLock, the reader of the instance that
\* serves the root only moves forward.
THEOREM MonotoneReader == Spec => ReaderMonotone
<1>1. IInv /\ [Next]_vars =>
        [\A i \in Instances :
            (Locked /\ current = i /\ current' = i) => reader[i] \subseteq reader'[i]]_vars
  BY MonotoneStep
<1> QED BY <1>1, Invariance, PTL DEF Spec, ReaderMonotone

\* While nothing failed, no reload was asked for and nobody else indexed, a
\* watched root is served from the index on disk whenever the lock is free.
THEOREM Fresh == Spec => []ServedIsOnDisk
<1>1. Spec => []CalmInv
  BY Invariance, InitCalmInv, CalmStep, PTL DEF Spec
<1> QED BY <1>1, Invariance, LevelServes, PTL
=============================================================================
