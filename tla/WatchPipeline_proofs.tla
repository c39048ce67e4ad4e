------------------------ MODULE WatchPipeline_proofs ------------------------
(***************************************************************************)
(* Proofs that the watch pipeline loses no edit and, while nothing is      *)
(* deleted, rebuilt or indexed beside it, that it ends with the index of a *)
(* full scan, for any tree, any number of edits and any threshold.         *)
(***************************************************************************)
EXTENDS WatchPipeline, FiniteSetTheorems, SequenceTheorems, TLAPS

---------------------------------------------------------------------------
(* Batches and indexes *)

InBatch(b, p) == p \in b.created \/ p \in b.modified

LEMMA BatchFields ==
    /\ NoBatch \in Batches
    /\ NoBatch.created = {} /\ NoBatch.modified = {} /\ NoBatch.deleted = {}
    /\ \A b \in Batches :
          /\ b.created \subseteq Paths /\ b.modified \subseteq Paths /\ b.deleted \subseteq Paths
          /\ b # NoBatch => \E p \in Paths : InBatch(b, p) \/ p \in b.deleted
BY DEF NoBatch, Batches, Kinds, InBatch

LEMMA BatchOfFields ==
  ASSUME NEW d \in [Paths -> Kinds \cup {Unchanged}]
  PROVE  /\ BatchOf(d) \in Batches
         /\ BatchOf(d).created  = {p \in Paths : d[p] = "created"}
         /\ BatchOf(d).modified = {p \in Paths : d[p] = "modified"}
         /\ BatchOf(d).deleted  = {p \in Paths : d[p] = "deleted"}
         /\ d # Quiet => BatchOf(d) # NoBatch
<1>1. /\ BatchOf(d) \in Batches
      /\ BatchOf(d).created  = {p \in Paths : d[p] = "created"}
      /\ BatchOf(d).modified = {p \in Paths : d[p] = "modified"}
      /\ BatchOf(d).deleted  = {p \in Paths : d[p] = "deleted"}
  BY DEF BatchOf, Batches, Kinds
<1>2. ASSUME d # Quiet PROVE BatchOf(d) # NoBatch
  <2>1. PICK p \in Paths : d[p] # Unchanged
    BY <1>2 DEF Quiet
  <2> QED BY <1>1, <2>1, BatchFields DEF Kinds
<1> QED BY <1>1, <1>2

LEMMA MergedFields ==
  ASSUME NEW b \in Batches, NEW c \in Batches
  PROVE  /\ Merged(b, c) \in Batches
         /\ Merged(b, c).created = (b.created \cup c.created) \ c.deleted
         /\ Merged(b, c).modified =
               (b.modified \cup (c.modified \ (b.created \cup c.created))) \ c.deleted
         /\ Merged(b, c).deleted = b.deleted \cup c.deleted
BY DEF Batches, Kinds, Merged

LEMMA WithoutFields ==
  ASSUME NEW b \in Batches, NEW p
  PROVE  /\ \A c : c = [b EXCEPT !.created = @ \ {p}] =>
                     /\ c \in Batches /\ c.created = b.created \ {p}
                     /\ c.modified = b.modified /\ c.deleted = b.deleted
         /\ \A c : c = [b EXCEPT !.modified = @ \ {p}] =>
                     /\ c \in Batches /\ c.modified = b.modified \ {p}
                     /\ c.created = b.created /\ c.deleted = b.deleted
BY DEF Batches, Kinds

\* The number of live documents is one, and is not 0 if there is any
LEMMA LiveCounts ==
  ASSUME NEW ds \in [Paths -> Seq(Contents)]
  PROVE  Live(ds) \in Nat /\ \A p \in Paths : ds[p] # <<>> => Live(ds) # 0
<1> DEFINE of == [p \in Paths |-> {p} \X DOMAIN ds[p]]
           S  == {{p} \X DOMAIN ds[p] : p \in Paths}
<1>1. of \in Surjection(Paths, S)
  BY DEF Surjection
<1>2. IsFiniteSet(S)
  BY <1>1, FS_Surjection, WatchAssumption, Zenon
<1>3. ASSUME NEW T \in S PROVE IsFiniteSet(T)
  <2>1. PICK p \in Paths : T = {p} \X DOMAIN ds[p]
    OBVIOUS
  <2>2. DOMAIN ds[p] = 1..Len(ds[p]) /\ Len(ds[p]) \in Nat
    OBVIOUS
  <2>3. IsFiniteSet(DOMAIN ds[p])
    BY <2>2, FS_Interval
  <2> QED BY <2>1, <2>3, FS_Singleton, FS_Product, Zenon
<1>4. IsFiniteSet(UNION S)
  BY <1>2, <1>3, FS_UNION, Zenon
<1>5. Live(ds) \in Nat
  BY <1>4, FS_CardinalityType DEF Live
<1>6. ASSUME NEW p \in Paths, ds[p] # <<>> PROVE Live(ds) # 0
  <2>1. 1 \in DOMAIN ds[p]
    BY <1>6
  <2>2. <<p, 1>> \in UNION S
    BY <2>1
  <2> QED BY <2>2, <1>4, FS_EmptySet, Zenon DEF Live
<1> QED BY <1>5, <1>6

LEMMA ScannedIndex ==
  ASSUME NEW t \in [Paths -> Nat]
  PROVE  /\ Scanned(t) \in Indexes
         /\ Scanned(t).docs \in [Paths -> Seq(Contents)]
         /\ \A p \in Paths :
               /\ Indexable(t[p])  => Scanned(t).docs[p] = <<t[p]>> /\ Scanned(t).count # 0
               /\ ~Indexable(t[p]) => Scanned(t).docs[p] = <<>>
<1> DEFINE ds == [p \in Paths |-> IF Indexable(t[p]) THEN <<t[p]>> ELSE <<>>]
<1>1. ds \in [Paths -> Seq(Contents)]
  <2>1. \A c \in Nat : Indexable(c) => <<c>> \in Seq(Contents)
    BY DEF Contents, Indexable, Blank, Absent
  <2> QED BY <2>1
<1>2. Live(ds) \in Nat /\ \A p \in Paths : ds[p] # <<>> => Live(ds) # 0
  BY <1>1, LiveCounts
<1>3. Scanned(t) = [docs |-> ds, count |-> Live(ds)]
  BY DEF Scanned, Index
<1> HIDE DEF ds
<1>4. Scanned(t) \in Indexes /\ Scanned(t).docs = ds /\ Scanned(t).count = Live(ds)
  BY <1>1, <1>2, <1>3 DEF Indexes
<1>5. \A p \in Paths : /\ Indexable(t[p]) => ds[p] = <<t[p]>> /\ ds[p] # <<>>
                       /\ ~Indexable(t[p]) => ds[p] = <<>>
  BY DEF ds
<1> QED BY <1>1, <1>2, <1>4, <1>5

LEMMA WithDeltaTyped ==
  ASSUME TypeOK
  PROVE  /\ WithDelta \in [Paths -> Seq(Contents)]
         /\ \A p \in Paths : 
               /\ p \notin Buried => WithDelta[p] = disk.docs[p] \o added[p]
               /\ p \in Buried => 
                    WithDelta[p] = SubSeq(disk.docs[p], 1, Len(disk.docs[p]) - 1) \o added[p]
<1>1. disk.docs \in [Paths -> Seq(Contents)] /\ added \in [Paths -> Seq(Contents)]
  BY DEF TypeOK, Indexes
<1>2. \A p \in Paths : SubSeq(disk.docs[p], 1, Len(disk.docs[p]) - 1) \in Seq(Contents)
  BY <1>1, SubSeqProperties
<1>3. \A p \in Paths : disk.docs[p] \o added[p] \in Seq(Contents)
  BY <1>1
<1>4. \A p \in Paths : SubSeq(disk.docs[p], 1, Len(disk.docs[p]) - 1) \o added[p] \in Seq(Contents)
  BY <1>1, <1>2, ConcatProperties
<1> QED BY <1>3, <1>4 DEF WithDelta

LEMMA IndexFields ==
  ASSUME NEW ds \in [Paths -> Seq(Contents)], NEW n \in Nat
  PROVE  Index(ds, n) \in Indexes /\ Index(ds, n).docs = ds /\ Index(ds, n).count = n
BY DEF Index, Indexes

LEMMA NoneAddedTyped == NoneAdded \in [Paths -> Seq(Contents)]
BY DEF NoneAdded

LEMMA NormalKind ==
  ASSUME NEW old \in Kinds \cup {Unchanged}, NEW kind \in Kinds
  PROVE  Normal(old, kind) \in Kinds \cup {Unchanged}
BY DEF Normal, Kinds, Unchanged

---------------------------------------------------------------------------
(* Types *)

LEMMA InitTyped == Init => TypeOK
<1> SUFFICES ASSUME Init PROVE TypeOK
  OBVIOUS
<1>1. fs \in [Paths -> Nat]
  BY DEF Init, Blank, Absent
<1>2. Scanned(fs) \in Indexes
  BY <1>1, ScannedIndex
<1>3. debounced \in [Paths -> Kinds \cup {Unchanged}]
  BY DEF Init, Quiet
<1>4. events \in Seq(Paths \X Kinds) /\ channel \in Seq(Batches \ {NoBatch})
  BY DEF Init
<1> QED BY <1>1, <1>2, <1>3, <1>4, BatchFields, NoneAddedTyped DEF Init, TypeOK

\* What an edit does, whatever its kind: path p now has content c
EditStep(p, c, kind) ==
    /\ fs' = [fs EXCEPT ![p] = c]
    /\ c = Absent <=> kind = "deleted"
    /\ kind = "created" => fs[p] = Absent /\ c = Blank
    /\ kind = "modified" => c = edits + 2
    /\ kind = "deleted" => p \in Removable
    /\ edits' = edits + 1
    /\ IF watch = "on"
       THEN events' = Append(events, <<p, kind>>) /\ missed' = missed \ {p}
       ELSE UNCHANGED events /\ missed' = missed \cup {p}
    /\ past' = IF kind = "deleted" THEN past \cup {"deletion"} ELSE past
    /\ UNCHANGED <<watch, debounced, channel, pending, work, index>>

LEMMA EditSteps ==
  ASSUME TypeOK, NEW p \in Paths, Create(p) \/ Write(p) \/ Remove(p)
  PROVE  \E c \in Nat, kind \in Kinds : EditStep(p, c, kind)
<1>1. edits \in Nat
  BY DEF TypeOK
<1>2. CASE Create(p)
  <2>1. EditStep(p, Blank, "created")
    BY <1>2 DEF Create, Change, EditStep, Blank, Absent
  <2> QED BY <2>1 DEF Kinds, Blank
<1>3. CASE Write(p)
  <2>1. EditStep(p, edits + 2, "modified")
    BY <1>1, <1>3 DEF Write, Change, EditStep, Absent
  <2> QED BY <1>1, <2>1 DEF Kinds
<1>4. CASE Remove(p)
  <2>1. EditStep(p, Absent, "deleted")
    BY <1>4 DEF Remove, Change, EditStep
  <2> QED BY <2>1 DEF Kinds, Absent
<1> QED BY <1>2, <1>3, <1>4

LEMMA NextTyped == TypeOK /\ [Next]_vars => TypeOK'
<1> SUFFICES ASSUME TypeOK, [Next]_vars PROVE TypeOK'
  OBVIOUS
<1> USE BatchFields, NoneAddedTyped
<1>1. ASSUME NEW p \in Paths, Create(p) \/ Write(p) \/ Remove(p) PROVE TypeOK'
  <2>1. PICK c \in Nat, kind \in Kinds : EditStep(p, c, kind)
    BY <1>1, EditSteps
  <2>2. fs' \in [Paths -> Nat] /\ edits' \in Nat
    BY <2>1 DEF EditStep, TypeOK
  <2>3. events' \in Seq(Paths \X Kinds)
    <3>1. <<p, kind>> \in Paths \X Kinds /\ events \in Seq(Paths \X Kinds)
      BY DEF TypeOK
    <3>2. Append(events, <<p, kind>>) \in Seq(Paths \X Kinds)
      BY <3>1, AppendProperties
    <3> QED BY <2>1, <3>1, <3>2 DEF EditStep
  <2>4. missed' \subseteq Paths /\ past' \subseteq {"deletion", "rebuild", "index"}
    BY <2>1 DEF EditStep, TypeOK
  <2> QED BY <2>1, <2>2, <2>3, <2>4 DEF EditStep, TypeOK, work, index
<1>2. CASE StartWatcher
  BY <1>2 DEF StartWatcher, TypeOK, tree, work, index
<1>3. CASE TakeEvent
  <2>1. Head(events) \in Paths \X Kinds /\ events' \in Seq(Paths \X Kinds)
    BY <1>3, HeadTailProperties DEF TakeEvent, TypeOK
  <2>2. debounced' \in [Paths -> Kinds \cup {Unchanged}]
    BY <1>3, <2>1, NormalKind DEF TakeEvent, TypeOK
  <2> QED BY <1>3, <2>1, <2>2 DEF TakeEvent, TypeOK, tree, work, index
<1>4. CASE Debounce
  <2>1. BatchOf(debounced) \in Batches \ {NoBatch}
    BY <1>4, BatchOfFields DEF Debounce, TypeOK
  <2>2. channel' \in Seq(Batches \ {NoBatch})
    BY <1>4, <2>1 DEF Debounce, TypeOK
  <2>3. debounced' \in [Paths -> Kinds \cup {Unchanged}]
    BY <1>4 DEF Debounce, Quiet
  <2> QED BY <1>4, <2>2, <2>3 DEF Debounce, TypeOK, tree, work, index
<1>5. CASE Accumulate
  <2>1. Head(channel) \in Batches /\ channel' \in Seq(Batches \ {NoBatch})
    BY <1>5, HeadTailProperties DEF Accumulate, TypeOK
  <2>2. pending' \in Batches
    BY <1>5, <2>1, MergedFields DEF Accumulate, TypeOK
  <2> QED BY <1>5, <2>1, <2>2 DEF Accumulate, TypeOK, tree, queue, work, index
<1>6. CASE Flush
  BY <1>6 DEF Flush, TypeOK, tree, queue, index
<1>7. CASE StartDelta
  BY <1>7 DEF StartDelta, TypeOK, tree, queue, index
<1>8. ASSUME NEW p \in Paths, ReadFile(p) PROVE TypeOK'
  <2>1. todo' \in Batches
    <3>1. todo \in Batches
      BY DEF TypeOK
    <3>2. CASE todo' = [todo EXCEPT !.created = @ \ {p}]
      BY <3>1, <3>2, WithoutFields
    <3>3. CASE todo' = [todo EXCEPT !.modified = @ \ {p}]
      BY <3>1, <3>3, WithoutFields
    <3> QED BY <1>8, <3>2, <3>3 DEF ReadFile
  <2>2. added' \in [Paths -> Seq(Contents)]
    <3>1. added \in [Paths -> Seq(Contents)] /\ fs[p] \in Nat
      BY DEF TypeOK
    <3>2. Indexable(fs[p]) => Append(added[p], fs[p]) \in Seq(Contents)
      BY <3>1, AppendProperties DEF Indexable, Contents, Absent, Blank
    <3> QED BY <1>8, <3>1, <3>2 DEF ReadFile
  <2> QED BY <1>8, <2>1, <2>2 DEF ReadFile, TypeOK, tree, queue, index
<1>9. CASE Commit
  <2>1. disk.count + Live(added) \in Nat /\ Live(WithDelta) \in Nat
    <3>1. disk.count \in Nat /\ added \in [Paths -> Seq(Contents)]
      BY DEF TypeOK, Indexes
    <3>2. Live(added) \in Nat
      BY <3>1, LiveCounts
    <3>3. Live(WithDelta) \in Nat
      BY WithDeltaTyped, LiveCounts
    <3> QED BY <3>1, <3>2, <3>3
  <2>2. disk' \in Indexes /\ reader' \in Indexes
    <3>1. /\ Index(WithDelta, disk.count + Live(added)) \in Indexes
          /\ Index(WithDelta, Live(WithDelta)) \in Indexes
      BY <2>1, WithDeltaTyped, IndexFields
    <3> QED BY <1>9, <3>1 DEF Commit, TypeOK, index
  <2> QED BY <1>9, <2>2 DEF Commit, Done, TypeOK, tree, queue
<1>10. CASE StopWatcher
  <2>1. debounced' \in [Paths -> Kinds \cup {Unchanged}] /\ events' \in Seq(Paths \X Kinds)
    BY <1>10 DEF StopWatcher, Quiet
  <2> QED BY <1>10, <2>1 DEF StopWatcher, TypeOK, tree, index
<1>11. CASE Rebuild
  <2>1. disk' \in Indexes /\ reader' \in Indexes
    BY <1>11, ScannedIndex DEF Rebuild, TypeOK
  <2> QED BY <1>11, <2>1 DEF Rebuild, TypeOK, queue
<1>12. CASE Restart
  BY <1>12 DEF Restart, Done, TypeOK, tree, index
<1>13. CASE ForceIndex
  <2>1. disk' \in Indexes
    BY <1>13, ScannedIndex DEF ForceIndex, TypeOK
  <2> QED BY <1>13, <2>1 DEF ForceIndex, TypeOK, queue, work
<1>14. CASE UNCHANGED vars
  BY <1>14 DEF vars, TypeOK
<1> QED BY <1>1, <1>2, <1>3, <1>4, <1>5, <1>6, <1>7, <1>8, <1>9, <1>10, <1>11, <1>12, <1>13, <1>14
        DEF Next, Watcher, Processor
---------------------------------------------------------------------------
(* The queues: what is on its way for a path *)

Gone(evs, p) == \E i \in DOMAIN evs : evs[i][1] = p /\ evs[i][2] = "deleted"

\* An event says p is there, and none after it that p is gone
Comes(evs, p) ==
    \E i \in DOMAIN evs :
        /\ evs[i][1] = p /\ evs[i][2] # "deleted"
        /\ \A j \in DOMAIN evs : j > i => ~(evs[j][1] = p /\ evs[j][2] = "deleted")

Drops(ch, p) == \E i \in DOMAIN ch : p \in ch[i].deleted

\* A batch has p, and neither it nor one after it says p is gone
Carries(ch, p) ==
    \E i \in DOMAIN ch :
        InBatch(ch[i], p) /\ \A j \in DOMAIN ch : j >= i => p \notin ch[j].deleted

LEMMA EventsEmpty == \A p : ~Gone(<<>>, p) /\ ~Comes(<<>>, p)
BY DEF Gone, Comes

LEMMA ChannelEmpty == \A p : ~Drops(<<>>, p) /\ ~Carries(<<>>, p)
BY DEF Drops, Carries

LEMMA AppendIndex ==
  ASSUME NEW S, NEW s \in Seq(S), NEW e \in S
  PROVE  /\ Append(s, e) \in Seq(S)
         /\ \A i \in DOMAIN s : i \in DOMAIN Append(s, e) /\ Append(s, e)[i] = s[i] /\ i # Len(s) + 1
                                 /\ i \in Nat /\ i < Len(s) + 1
         /\ Len(s) + 1 \in DOMAIN Append(s, e) /\ Append(s, e)[Len(s) + 1] = e
         /\ \A i \in DOMAIN Append(s, e) : i # Len(s) + 1 => i \in DOMAIN s
         /\ Len(s) \in Nat
BY AppendProperties

LEMMA TailIndex ==
  ASSUME NEW S, NEW s \in Seq(S), s # <<>>
  PROVE  /\ Tail(s) \in Seq(S) /\ Head(s) \in S /\ Head(s) = s[1] /\ 1 \in DOMAIN s
         /\ \A i \in DOMAIN Tail(s) : i + 1 \in DOMAIN s /\ Tail(s)[i] = s[i + 1] /\ i \in Nat /\ i > 0
         /\ \A i \in DOMAIN s : i \in Nat /\ (i # 1 => i - 1 \in DOMAIN Tail(s) /\ Tail(s)[i - 1] = s[i] /\ i > 1)
BY HeadTailProperties

LEMMA EventsAppend ==
  ASSUME NEW evs \in Seq(Paths \X Kinds), NEW q \in Paths, NEW k \in Kinds,
         NEW evs2, evs2 = Append(evs, <<q, k>>), NEW p
  PROVE  /\ Gone(evs2, p) <=> Gone(evs, p) \/ (p = q /\ k = "deleted")
         /\ (p = q /\ k # "deleted") => Comes(evs2, p)
         /\ p # q => (Comes(evs, p) => Comes(evs2, p))
<1> DEFINE n == Len(evs) + 1
<1>1. <<q, k>> \in Paths \X Kinds
  OBVIOUS
<1>2. /\ \A i \in DOMAIN evs : i \in DOMAIN evs2 /\ evs2[i] = evs[i] /\ i \in Nat /\ i < n
      /\ n \in DOMAIN evs2 /\ evs2[n] = <<q, k>> /\ n \in Nat
      /\ \A i \in DOMAIN evs2 : i # n => i \in DOMAIN evs
  BY <1>1, AppendIndex
<1> HIDE DEF n
<1>3. evs2[n][1] = q /\ evs2[n][2] = k
  BY <1>2
<1>4. Gone(evs2, p) <=> Gone(evs, p) \/ (p = q /\ k = "deleted")
  BY <1>2, <1>3 DEF Gone
<1>5. ASSUME p = q, k # "deleted" PROVE Comes(evs2, p)
  <2>1. \A j \in DOMAIN evs2 : ~(j > n)
    BY <1>2
  <2> QED BY <1>2, <1>3, <1>5, <2>1 DEF Comes
<1>6. ASSUME p # q, Comes(evs, p) PROVE Comes(evs2, p)
  BY <1>2, <1>3, <1>6 DEF Comes
<1> QED BY <1>4, <1>5, <1>6

LEMMA EventsTail ==
  ASSUME NEW evs \in Seq(Paths \X Kinds), evs # <<>>, NEW evs2, evs2 = Tail(evs), NEW p
  PROVE  /\ Gone(evs, p) <=> Gone(evs2, p) \/ (Head(evs)[1] = p /\ Head(evs)[2] = "deleted")
         /\ Comes(evs, p) =>
               \/ Comes(evs2, p)
               \/ Head(evs)[1] = p /\ Head(evs)[2] # "deleted" /\ ~Gone(evs2, p)
<1>1. /\ Head(evs) = evs[1] /\ 1 \in DOMAIN evs
      /\ \A i \in DOMAIN evs2 : i + 1 \in DOMAIN evs /\ evs2[i] = evs[i + 1] /\ i \in Nat /\ i > 0
      /\ \A i \in DOMAIN evs :
            i \in Nat /\ (i # 1 => i - 1 \in DOMAIN evs2 /\ evs2[i - 1] = evs[i] /\ i > 1)
  BY TailIndex
<1>2. Gone(evs, p) <=> Gone(evs2, p) \/ (Head(evs)[1] = p /\ Head(evs)[2] = "deleted")
  <2>1. Gone(evs2, p) => Gone(evs, p)
    BY <1>1 DEF Gone
  <2>2. ASSUME NEW i \in DOMAIN evs, evs[i][1] = p, evs[i][2] = "deleted"
        PROVE  Gone(evs2, p) \/ (Head(evs)[1] = p /\ Head(evs)[2] = "deleted")
    <3>1. i # 1 => i - 1 \in DOMAIN evs2 /\ evs2[i - 1] = evs[i]
      BY <1>1
    <3> QED BY <1>1, <2>2, <3>1 DEF Gone
  <2>3. (Head(evs)[1] = p /\ Head(evs)[2] = "deleted") => Gone(evs, p)
    BY <1>1 DEF Gone
  <2> QED BY <2>1, <2>2, <2>3 DEF Gone
<1>3. ASSUME NEW i \in DOMAIN evs, evs[i][1] = p, evs[i][2] # "deleted",
             \A j \in DOMAIN evs : j > i => ~(evs[j][1] = p /\ evs[j][2] = "deleted")
      PROVE  \/ Comes(evs2, p)
             \/ Head(evs)[1] = p /\ Head(evs)[2] # "deleted" /\ ~Gone(evs2, p)
  <2>1. CASE i = 1
    <3>1. \A j \in DOMAIN evs2 : ~(evs2[j][1] = p /\ evs2[j][2] = "deleted")
      BY <1>1, <1>3, <2>1
    <3> QED BY <1>1, <1>3, <2>1, <3>1 DEF Gone
  <2>2. CASE i # 1
    <3>1. \A j \in DOMAIN evs2 : j > i - 1 => ~(evs2[j][1] = p /\ evs2[j][2] = "deleted")
      BY <1>1, <1>3
    <3>2. i - 1 \in DOMAIN evs2 /\ evs2[i - 1] = evs[i]
      BY <1>1, <2>2
    <3>3. Comes(evs2, p)
      BY <1>3, <3>1, <3>2 DEF Comes
    <3> QED BY <3>3
  <2> QED BY <2>1, <2>2
<1> QED BY <1>2, <1>3 DEF Comes

LEMMA ChannelAppend ==
  ASSUME NEW ch \in Seq(Batches \ {NoBatch}), NEW b \in Batches \ {NoBatch},
         NEW ch2, ch2 = Append(ch, b), NEW p
  PROVE  /\ Drops(ch2, p) <=> Drops(ch, p) \/ p \in b.deleted
         /\ (Carries(ch, p) \/ InBatch(b, p)) /\ p \notin b.deleted => Carries(ch2, p)
<1> DEFINE n == Len(ch) + 1
<1>1. /\ \A i \in DOMAIN ch : i \in DOMAIN ch2 /\ ch2[i] = ch[i] /\ i \in Nat /\ i < n
      /\ n \in DOMAIN ch2 /\ ch2[n] = b /\ n \in Nat
      /\ \A i \in DOMAIN ch2 : i # n => i \in DOMAIN ch
  BY AppendIndex
<1> HIDE DEF n
<1>2. Drops(ch2, p) <=> Drops(ch, p) \/ p \in b.deleted
  BY <1>1 DEF Drops
<1>3. ASSUME Carries(ch, p), p \notin b.deleted PROVE Carries(ch2, p)
  <2>1. PICK i \in DOMAIN ch : InBatch(ch[i], p) /\ \A j \in DOMAIN ch : j >= i => p \notin ch[j].deleted
    BY <1>3 DEF Carries
  <2>2. i \in DOMAIN ch2 /\ InBatch(ch2[i], p) /\ \A j \in DOMAIN ch2 : j >= i => p \notin ch2[j].deleted
    BY <1>1, <1>3, <2>1
  <2> QED BY <2>2 DEF Carries
<1>4. ASSUME InBatch(b, p), p \notin b.deleted PROVE Carries(ch2, p)
  <2>1. n \in DOMAIN ch2 /\ InBatch(ch2[n], p) /\ \A j \in DOMAIN ch2 : j >= n => p \notin ch2[j].deleted
    BY <1>1, <1>4
  <2> QED BY <2>1 DEF Carries
<1> QED BY <1>2, <1>3, <1>4

LEMMA ChannelTail ==
  ASSUME NEW ch \in Seq(Batches \ {NoBatch}), ch # <<>>, NEW ch2, ch2 = Tail(ch), NEW p
  PROVE  /\ Drops(ch, p) <=> Drops(ch2, p) \/ p \in Head(ch).deleted
         /\ Carries(ch, p) => \/ Carries(ch2, p)
                              \/ InBatch(Head(ch), p) /\ ~Drops(ch, p)
<1>1. /\ Head(ch) = ch[1] /\ 1 \in DOMAIN ch
      /\ \A i \in DOMAIN ch2 : i + 1 \in DOMAIN ch /\ ch2[i] = ch[i + 1] /\ i \in Nat /\ i > 0
      /\ \A i \in DOMAIN ch :
            i \in Nat /\ (i # 1 => i - 1 \in DOMAIN ch2 /\ ch2[i - 1] = ch[i] /\ i > 1)
  BY TailIndex
<1>2. Drops(ch, p) <=> Drops(ch2, p) \/ p \in Head(ch).deleted
  BY <1>1 DEF Drops
<1>3. ASSUME NEW i \in DOMAIN ch, InBatch(ch[i], p),
             \A j \in DOMAIN ch : j >= i => p \notin ch[j].deleted
      PROVE  Carries(ch2, p) \/ (InBatch(Head(ch), p) /\ ~Drops(ch, p))
  <2>1. CASE i = 1
    <3>1. \A j \in DOMAIN ch : p \notin ch[j].deleted
      BY <1>1, <1>3, <2>1
    <3> QED BY <1>1, <1>3, <2>1, <3>1 DEF Drops
  <2>2. CASE i # 1
    <3>1. i - 1 \in DOMAIN ch2 /\ InBatch(ch2[i - 1], p)
      BY <1>1, <1>3, <2>2
    <3>2. \A j \in DOMAIN ch2 : j >= i - 1 => p \notin ch2[j].deleted
      BY <1>1, <1>3
    <3> QED BY <3>1, <3>2 DEF Carries
  <2> QED BY <2>1, <2>2
<1> QED BY <1>2, <1>3 DEF Carries
---------------------------------------------------------------------------
(* The inductive invariant: a file that stays is on its way or on disk *)

\* No deletion of p is before this stage of the pipeline or in it
NoneEvents(p)    == ~Gone(events, p)
NoneDebounced(p) == NoneEvents(p) /\ debounced[p] # "deleted"
NoneSent(p)      == NoneDebounced(p) /\ ~Drops(channel, p)
NonePending(p)   == NoneSent(p) /\ p \notin pending.deleted

\* p is carried by one stage, and no deletion follows it
ByEvent(p)    == Comes(events, p)
ByDebounce(p) == debounced[p] \in {"created", "modified"} /\ NoneEvents(p)
ByChannel(p)  == Carries(channel, p) /\ NoneDebounced(p)
ByPending(p)  == InBatch(pending, p) /\ NoneSent(p)

ByBatch(p) ==
    /\ \/ pc \in {"delta", "rebuild"} /\ InBatch(batch, p)
       \/ pc = "read" /\ InBatch(todo, p)
    /\ NonePending(p)

ByAdded(p) ==
    /\ pc = "read" /\ added[p] # <<>> /\ added[p][Len(added[p])] = fs[p]
    /\ NonePending(p)

\* The batch that is applied does not bury what is on disk
OnDisk(p) ==
    /\ Holds(disk, p)
    /\ pc \in {"delta", "read"} => p \notin batch.deleted /\ p \notin batch.modified
    /\ NonePending(p)

Coming(p) ==
    \/ ByEvent(p) \/ ByDebounce(p) \/ ByChannel(p) \/ ByPending(p) \/ ByBatch(p)
    \/ ByAdded(p) \/ OnDisk(p) \/ pc = "build"

Kept == ~Mixed => \A p \in Paths \ missed : Indexable(fs[p]) => Coming(p)

NoDeletes == "deletion" \notin past => \A p \in Paths : NonePending(p) /\ p \notin batch.deleted

\* A file that is never removed keeps the index from being empty
Anchored(q) ==
    /\ Indexable(fs[q]) /\ NonePending(q) /\ q \notin batch.deleted
    /\ disk.docs[q] # <<>> /\ disk.count # 0 /\ reader.count # 0
    /\ (pc = "read" /\ q \in batch.modified) => q \in todo.modified \/ added[q] # <<>>

Lasting == Initial \ Removable
KInv == Kept /\ NoDeletes /\ \A q \in Lasting : Anchored(q)

LEMMA InitKInv == Init => KInv
<1> SUFFICES ASSUME Init PROVE KInv
  OBVIOUS
<1>1. fs \in [Paths -> Nat]
  BY DEF Init, Blank, Absent
<1>2. \A p \in Paths : NonePending(p) /\ p \notin batch.deleted
  BY BatchFields, EventsEmpty, ChannelEmpty
     DEF Init, NonePending, NoneSent, NoneDebounced, NoneEvents, Quiet, Unchanged
<1>3. ASSUME NEW p \in Paths, Indexable(fs[p])
      PROVE  /\ disk.docs[p] = <<fs[p]>> /\ disk.count # 0 /\ reader.count # 0 /\ disk.docs[p] # <<>>
             /\ Holds(disk, p)
  <2>1. disk.docs[p] = <<fs[p]>> /\ disk.count # 0 /\ reader.count # 0
    BY <1>1, <1>3, ScannedIndex DEF Init
  <2>2. 1 \in DOMAIN disk.docs[p] /\ disk.docs[p][1] = fs[p] /\ disk.docs[p] # <<>>
    BY <2>1
  <2> QED BY <2>1, <2>2 DEF Holds
<1>4. Kept
  BY <1>2, <1>3 DEF Init, Kept, Coming, OnDisk
<1>5. ASSUME NEW q \in Lasting PROVE Anchored(q)
  <2>1. q \in Paths /\ Indexable(fs[q])
    BY WatchAssumption DEF Init, Lasting, Indexable, Blank
  <2> QED BY <1>2, <1>3, <2>1 DEF Anchored, Init
<1> QED BY <1>2, <1>4, <1>5 DEF KInv, NoDeletes

LEMMA StutterKept == ASSUME KInv, UNCHANGED vars PROVE KInv'
BY DEF vars, KInv, Kept, NoDeletes, Anchored, Mixed, Coming, ByEvent, ByDebounce, ByChannel,
       ByPending, ByBatch, ByAdded, OnDisk, NonePending, NoneSent, NoneDebounced, NoneEvents, Holds

LEMMA EditKept ==
  ASSUME TypeOK, KInv, NEW p \in Paths, NEW c \in Nat, NEW kind \in Kinds, EditStep(p, c, kind)
  PROVE  KInv'
<1> USE DEF EditStep
<1>1. fs \in [Paths -> Nat] /\ edits \in Nat /\ events \in Seq(Paths \X Kinds)
  BY DEF TypeOK
<1>2. fs'[p] = c /\ \A q \in Paths \ {p} : fs'[q] = fs[q]
  BY <1>1
<1>3. ASSUME NEW q \in Paths
      PROVE  /\ NoneEvents(q)' <=> (NoneEvents(q) /\ ~(watch = "on" /\ q = p /\ kind = "deleted"))
             /\ q # p => (Comes(events, q) => Comes(events', q))
             /\ (watch = "on" /\ q = p /\ kind # "deleted") => Comes(events', q)
             /\ watch # "on" => (Comes(events, q) => Comes(events', q))
  BY <1>1, EventsAppend DEF NoneEvents
<1>4. ASSUME NEW q \in Paths, q # p \/ watch # "on" \/ kind # "deleted"
      PROVE  /\ NoneDebounced(q) => NoneDebounced(q)'
             /\ NoneSent(q) => NoneSent(q)'
             /\ NonePending(q) => NonePending(q)'
  BY <1>3, <1>4 DEF NonePending, NoneSent, NoneDebounced
<1>5. Kept'
  <2> SUFFICES ASSUME ~Mixed', NEW q \in Paths \ missed', Indexable(fs'[q]) PROVE Coming(q)'
    BY DEF Kept
  <2>1. ~Mixed
    BY DEF Mixed
  <2>2. CASE q = p
    <3>1. watch = "on" /\ kind # "deleted"
      BY <1>2, <2>2 DEF Indexable, Absent, Blank
    <3> QED BY <1>3, <2>2, <3>1 DEF Coming, ByEvent
  <2>3. CASE q # p
    <3>1. Coming(q)
      BY <1>2, <2>1, <2>3 DEF KInv, Kept
    <3> QED BY <1>2, <1>3, <1>4, <2>3, <3>1
            DEF Coming, ByEvent, ByDebounce, ByChannel, ByPending, ByBatch, ByAdded, OnDisk, Holds, work, index
  <2> QED BY <2>2, <2>3
<1>6. NoDeletes'
  BY <1>4 DEF KInv, NoDeletes, work
<1>7. ASSUME NEW q \in Lasting PROVE Anchored(q)'
  <2>1. Anchored(q) /\ q \in Paths /\ q \notin Removable
    BY WatchAssumption DEF KInv, Lasting
  <2>2. q = p => kind # "deleted" /\ Indexable(c)
    BY <1>1, <2>1 DEF Anchored, Kinds, Indexable, Absent, Blank
  <2>3. Indexable(fs'[q]) /\ NonePending(q)'
    BY <1>2, <1>4, <2>1, <2>2 DEF Anchored
  <2> QED BY <2>1, <2>3 DEF Anchored, work, index
<1> QED BY <1>5, <1>6, <1>7 DEF KInv

LEMMA TakeEventKept == ASSUME TypeOK, KInv, TakeEvent PROVE KInv'
<1> DEFINE q == Head(events)[1]
           k == Head(events)[2]
<1>1. /\ events \in Seq(Paths \X Kinds) /\ events # <<>> /\ events' = Tail(events)
      /\ q \in Paths /\ k \in Kinds
      /\ debounced \in [Paths -> Kinds \cup {Unchanged}]
      /\ debounced' = IF fs[q] = Absent THEN debounced ELSE [debounced EXCEPT ![q] = Normal(@, k)]
  BY HeadTailProperties DEF TakeEvent, TypeOK
<1>2. UNCHANGED <<fs, missed, past, channel, pending, pc, batch, todo, added, disk, reader>>
  BY DEF TakeEvent, tree, work, index
<1> HIDE DEF q, k
<1>3. ASSUME NEW p \in Paths
      PROVE  /\ Gone(events, p) <=> Gone(events', p) \/ (q = p /\ k = "deleted")
             /\ Comes(events, p) =>
                    \/ Comes(events', p)
                    \/ q = p /\ k # "deleted" /\ ~Gone(events', p)
  BY <1>1, EventsTail DEF q, k
<1>4. /\ \A p \in Paths : (q # p \/ fs[q] = Absent) => debounced'[p] = debounced[p]
      /\ fs[q] # Absent => debounced'[q] = Normal(debounced[q], k)
  BY <1>1
<1>5. k # "deleted" => Normal(debounced[q], k) \in {"created", "modified"}
  BY <1>1 DEF Normal, Kinds, Unchanged
<1>6. ASSUME NEW p \in Paths
      PROVE  /\ NoneEvents(p) => NoneEvents(p)'
             /\ NoneDebounced(p) => NoneDebounced(p)'
             /\ NoneSent(p) => NoneSent(p)'
             /\ NonePending(p) => NonePending(p)'
  BY <1>2, <1>3, <1>4, <1>5 DEF NonePending, NoneSent, NoneDebounced, NoneEvents
<1>7. Kept'
  <2> SUFFICES ASSUME ~Mixed', NEW p \in Paths \ missed', Indexable(fs'[p]) PROVE Coming(p)'
    BY DEF Kept
  <2>1. Coming(p) /\ fs[p] # Absent
    BY <1>2 DEF KInv, Kept, Mixed, Indexable, Absent, Blank
  <2>2. CASE ByEvent(p)
    BY <1>3, <1>4, <1>5, <2>1, <2>2 DEF Coming, ByEvent, ByDebounce, NoneEvents
  <2>3. CASE ByDebounce(p)
    BY <1>3, <1>4, <1>5, <1>6, <2>1, <2>3 DEF Coming, ByDebounce, NoneEvents
  <2> QED BY <1>2, <1>6, <2>1, <2>2, <2>3
          DEF Coming, ByChannel, ByPending, ByBatch, ByAdded, OnDisk, Holds
<1>8. NoDeletes'
  BY <1>2, <1>6 DEF KInv, NoDeletes
<1>9. \A p \in Lasting : Anchored(p)'
  BY <1>2, <1>6, WatchAssumption DEF KInv, Anchored, Lasting
<1> QED BY <1>7, <1>8, <1>9 DEF KInv

LEMMA DebounceKept == ASSUME TypeOK, KInv, Debounce PROVE KInv'
<1> DEFINE b == BatchOf(debounced)
<1>1. /\ channel \in Seq(Batches \ {NoBatch}) /\ b \in Batches \ {NoBatch}
      /\ channel' = Append(channel, b)
      /\ \A p \in Paths : /\ p \in b.deleted <=> debounced[p] = "deleted"
                          /\ InBatch(b, p) <=> debounced[p] \in {"created", "modified"}
                          /\ debounced'[p] = Unchanged
  BY BatchOfFields DEF Debounce, TypeOK, InBatch, Quiet
<1>2. UNCHANGED <<fs, missed, past, events, pending, pc, batch, todo, added, disk, reader>>
  BY DEF Debounce, tree, work, index
<1> HIDE DEF b
<1>3. ASSUME NEW p \in Paths
      PROVE  /\ Drops(channel', p) <=> Drops(channel, p) \/ p \in b.deleted
             /\ (Carries(channel, p) \/ InBatch(b, p)) /\ p \notin b.deleted => Carries(channel', p)
  BY <1>1, ChannelAppend
<1>4. ASSUME NEW p \in Paths
      PROVE  /\ NoneEvents(p) => NoneDebounced(p)'
             /\ NoneSent(p) => NoneSent(p)'
             /\ NonePending(p) => NonePending(p)'
  BY <1>1, <1>2, <1>3 DEF NonePending, NoneSent, NoneDebounced, NoneEvents, Unchanged
<1>5. Kept'
  <2> SUFFICES ASSUME ~Mixed', NEW p \in Paths \ missed', Indexable(fs'[p]) PROVE Coming(p)'
    BY DEF Kept
  <2>1. Coming(p)
    BY <1>2 DEF KInv, Kept, Mixed
  <2>2. CASE ByDebounce(p) \/ ByChannel(p)
    <3>1. NoneEvents(p) /\ (Carries(channel, p) \/ InBatch(b, p)) /\ p \notin b.deleted
      BY <1>1, <2>2 DEF ByDebounce, ByChannel, NoneDebounced
    <3> QED BY <1>3, <1>4, <3>1 DEF Coming, ByChannel
  <2> QED BY <1>2, <1>4, <2>1, <2>2 DEF Coming, ByEvent, ByPending, ByBatch, ByAdded, OnDisk, Holds
<1>6. NoDeletes'
  BY <1>2, <1>4 DEF KInv, NoDeletes
<1>7. \A p \in Lasting : Anchored(p)'
  BY <1>2, <1>4, WatchAssumption DEF KInv, Anchored, Lasting
<1> QED BY <1>5, <1>6, <1>7 DEF KInv

\* A step of the processor after which no more deletions are on their way
LEMMA NoneLater ==
  ASSUME UNCHANGED <<events, debounced, channel>>, NEW p \in Paths
  PROVE  /\ NoneEvents(p)' <=> NoneEvents(p)
         /\ NoneDebounced(p)' <=> NoneDebounced(p)
         /\ NoneSent(p)' <=> NoneSent(p)
         /\ p \notin pending'.deleted => (NonePending(p)' <=> NoneSent(p))
         /\ pending' = pending => (NonePending(p)' <=> NonePending(p))
BY DEF NonePending, NoneSent, NoneDebounced, NoneEvents

LEMMA AccumulateKept == ASSUME TypeOK, KInv, Accumulate PROVE KInv'
<1> DEFINE b == Head(channel)
<1>1. /\ channel \in Seq(Batches \ {NoBatch}) /\ channel # <<>> /\ channel' = Tail(channel)
      /\ b \in Batches /\ pending \in Batches /\ pending' = Merged(pending, b)
  BY HeadTailProperties DEF Accumulate, TypeOK
<1>2. UNCHANGED <<fs, missed, past, events, debounced, pc, batch, todo, added, disk, reader>>
  BY DEF Accumulate, tree, queue, work, index
<1> HIDE DEF b
<1>3. ASSUME NEW p \in Paths
      PROVE  /\ Drops(channel, p) <=> Drops(channel', p) \/ p \in b.deleted
             /\ Carries(channel, p) => Carries(channel', p) \/ (InBatch(b, p) /\ ~Drops(channel, p))
  BY <1>1, ChannelTail DEF b
<1>4. ASSUME NEW p \in Paths
      PROVE  /\ p \in pending'.deleted <=> p \in pending.deleted \/ p \in b.deleted
             /\ (InBatch(pending, p) \/ InBatch(b, p)) /\ p \notin b.deleted => InBatch(pending', p)
  BY <1>1, MergedFields DEF InBatch
<1>5. ASSUME NEW p \in Paths
      PROVE  /\ NoneDebounced(p) => NoneDebounced(p)'
             /\ NoneSent(p) => NoneSent(p)' /\ p \notin b.deleted
             /\ NonePending(p) => NonePending(p)'
  BY <1>2, <1>3, <1>4 DEF NonePending, NoneSent, NoneDebounced, NoneEvents
<1>6. Kept'
  <2> SUFFICES ASSUME ~Mixed', NEW p \in Paths \ missed', Indexable(fs'[p]) PROVE Coming(p)'
    BY DEF Kept
  <2>1. Coming(p)
    BY <1>2 DEF KInv, Kept, Mixed
  <2>2. CASE ByChannel(p)
    <3>1. CASE Carries(channel', p)
      BY <1>5, <2>2, <3>1 DEF Coming, ByChannel
    <3>2. CASE InBatch(b, p) /\ ~Drops(channel, p)
      <4>1. NoneSent(p) /\ p \notin b.deleted
        BY <1>3, <2>2, <3>2 DEF ByChannel, NoneSent
      <4> QED BY <1>4, <1>5, <3>2, <4>1 DEF Coming, ByPending
    <3> QED BY <1>3, <2>2, <3>1, <3>2 DEF ByChannel
  <2>3. CASE ByPending(p)
    BY <1>4, <1>5, <2>3 DEF Coming, ByPending
  <2> QED BY <1>2, <1>5, <2>1, <2>2, <2>3
          DEF Coming, ByEvent, ByDebounce, ByBatch, ByAdded, OnDisk, Holds, NoneEvents
<1>7. NoDeletes'
  BY <1>2, <1>5 DEF KInv, NoDeletes
<1>8. \A p \in Lasting : Anchored(p)'
  BY <1>2, <1>5, WatchAssumption DEF KInv, Anchored, Lasting
<1> QED BY <1>6, <1>7, <1>8 DEF KInv

LEMMA FlushKept == ASSUME TypeOK, KInv, Lasting # {}, Flush PROVE KInv'
<1>1. reader.count # 0
  BY DEF KInv, Anchored
<1>2. /\ pc = "idle" /\ pc' \in {"delta", "rebuild"} /\ batch' = pending /\ pending' = NoBatch
      /\ UNCHANGED <<fs, missed, past, events, debounced, channel, todo, added, disk, reader>>
  BY <1>1 DEF Flush, tree, queue, index
<1>3. \A p \in Paths : p \notin pending'.deleted
  BY <1>2, BatchFields
<1>4. ASSUME NEW p \in Paths
      PROVE  /\ NoneEvents(p)' <=> NoneEvents(p)
             /\ NoneDebounced(p)' <=> NoneDebounced(p)
             /\ NonePending(p)' <=> NoneSent(p)
  BY <1>2, <1>3, NoneLater
<1>5. Kept'
  <2> SUFFICES ASSUME ~Mixed', NEW p \in Paths \ missed', Indexable(fs'[p]) PROVE Coming(p)'
    BY DEF Kept
  <2>1. Coming(p)
    BY <1>2 DEF KInv, Kept, Mixed
  <2>2. CASE ByPending(p)
    BY <1>2, <1>4, <2>2 DEF Coming, ByPending, ByBatch
  <2>3. CASE OnDisk(p)
    <3>1. NonePending(p)' /\ p \notin batch'.deleted
      BY <1>2, <1>4, <2>3 DEF OnDisk, NonePending
    <3> QED BY <1>2, <2>3, <3>1 DEF Coming, ByBatch, OnDisk, Holds, InBatch
  <2> QED BY <1>2, <1>4, <2>1, <2>2, <2>3
          DEF Coming, ByEvent, ByDebounce, ByChannel, ByBatch, ByAdded
<1>6. NoDeletes'
  BY <1>2, <1>4 DEF KInv, NoDeletes, NonePending
<1>7. \A p \in Lasting : Anchored(p)'
  BY <1>2, <1>4, WatchAssumption DEF KInv, Anchored, Lasting, NonePending
<1> QED BY <1>5, <1>6, <1>7 DEF KInv

LEMMA StartDeltaKept == ASSUME TypeOK, KInv, StartDelta PROVE KInv'
<1>1. /\ pc = "delta" /\ pc' = "read" /\ todo' = batch
      /\ UNCHANGED <<fs, missed, past, events, debounced, channel, pending, batch, added, disk, reader>>
  BY DEF StartDelta, tree, queue, index
<1>2. ASSUME NEW p \in Paths
      PROVE  /\ NoneEvents(p)' <=> NoneEvents(p)
             /\ NoneDebounced(p)' <=> NoneDebounced(p)
             /\ NoneSent(p)' <=> NoneSent(p)
             /\ NonePending(p)' <=> NonePending(p)
  BY <1>1, NoneLater
<1>3. Kept'
  <2> SUFFICES ASSUME ~Mixed', NEW p \in Paths \ missed', Indexable(fs'[p]) PROVE Coming(p)'
    BY DEF Kept
  <2>1. Coming(p)
    BY <1>1 DEF KInv, Kept, Mixed
  <2> QED BY <1>1, <1>2, <2>1
          DEF Coming, ByEvent, ByDebounce, ByChannel, ByPending, ByBatch, ByAdded, OnDisk, Holds
<1>4. NoDeletes'
  BY <1>1, <1>2 DEF KInv, NoDeletes
<1>5. \A p \in Lasting : Anchored(p)'
  BY <1>1, <1>2, WatchAssumption DEF KInv, Anchored, Lasting
<1> QED BY <1>3, <1>4, <1>5 DEF KInv

\* Reading file q takes it from what is to do, and adds what it holds
LEMMA ReadFileSteps ==
  ASSUME TypeOK, NEW q \in Paths, ReadFile(q)
  PROVE  /\ pc = "read" /\ pc' = "read" /\ InBatch(todo, q)
         /\ UNCHANGED <<fs, missed, past, watch, events, debounced, channel, pending, batch, disk, reader>>
         /\ \A p \in Paths : 
               /\ p # q => /\ p \in todo'.created <=> p \in todo.created
                           /\ p \in todo'.modified <=> p \in todo.modified
                           /\ added'[p] = added[p]
               /\ p \in todo'.created => p \in todo.created
               /\ p \in todo'.modified => p \in todo.modified
         /\ ~(q \in todo'.created /\ q \in todo.created)
         /\ q \in todo.modified /\ q \notin todo'.modified => q \notin todo.created
         /\ q \in todo.created \/ q \notin todo'.modified
         /\ Indexable(fs[q]) => /\ added'[q] = Append(added[q], fs[q]) /\ added'[q] # <<>>
                                /\ added'[q][Len(added'[q])] = fs[q]
         /\ ~Indexable(fs[q]) => added'[q] = added[q]
<1>1. todo \in Batches /\ added \in [Paths -> Seq(Contents)] /\ fs \in [Paths -> Nat]
  BY DEF TypeOK
<1>2. \/ q \in todo.created /\ todo' = [todo EXCEPT !.created = @ \ {q}]
      \/ /\ todo.created = {} /\ q \in todo.modified
         /\ todo' = [todo EXCEPT !.modified = @ \ {q}]
  BY DEF ReadFile
<1>3. \/ /\ q \in todo.created
         /\ todo'.created = todo.created \ {q} /\ todo'.modified = todo.modified
      \/ /\ todo.created = {} /\ q \in todo.modified
         /\ todo'.created = todo.created /\ todo'.modified = todo.modified \ {q}
  <2>1. todo' = [todo EXCEPT !.created = @ \ {q}] =>
            todo'.created = todo.created \ {q} /\ todo'.modified = todo.modified
    BY <1>1, WithoutFields
  <2>2. todo' = [todo EXCEPT !.modified = @ \ {q}] =>
            todo'.created = todo.created /\ todo'.modified = todo.modified \ {q}
    BY <1>1, WithoutFields
  <2> QED BY <1>2, <2>1, <2>2, Zenon
<1>4. ASSUME Indexable(fs[q])
      PROVE  /\ added'[q] = Append(added[q], fs[q]) /\ added'[q] # <<>>
             /\ added'[q][Len(added'[q])] = fs[q]
  <2>1. added'[q] = Append(added[q], fs[q]) /\ added[q] \in Seq(Contents) /\ fs[q] \in Contents
    BY <1>1, <1>4 DEF ReadFile, Contents, Indexable, Absent, Blank
  <2> QED BY <2>1, AppendProperties
<1>5. \A p \in Paths : (p # q \/ ~Indexable(fs[q])) => added'[p] = added[p]
  BY <1>1 DEF ReadFile
<1> QED BY <1>3, <1>4, <1>5 DEF ReadFile, InBatch, tree, queue, index

LEMMA ReadFileKept == ASSUME TypeOK, KInv, NEW q \in Paths, ReadFile(q) PROVE KInv'
<1>1. ASSUME NEW p \in Paths
      PROVE  /\ NoneEvents(p)' <=> NoneEvents(p)
             /\ NoneDebounced(p)' <=> NoneDebounced(p)
             /\ NoneSent(p)' <=> NoneSent(p)
             /\ NonePending(p)' <=> NonePending(p)
  BY ReadFileSteps, NoneLater
<1>2. Kept'
  <2> SUFFICES ASSUME ~Mixed', NEW p \in Paths \ missed', Indexable(fs'[p]) PROVE Coming(p)'
    BY DEF Kept
  <2>1. Coming(p) /\ Indexable(fs[p])
    BY ReadFileSteps DEF KInv, Kept, Mixed
  <2>2. CASE ByBatch(p) \/ ByAdded(p)
    <3>1. CASE p = q
      BY ReadFileSteps, <1>1, <2>1, <2>2, <3>1 DEF Coming, ByBatch, ByAdded
    <3>2. CASE p # q
      BY ReadFileSteps, <1>1, <2>2, <3>2 DEF Coming, ByBatch, ByAdded, InBatch
    <3> QED BY <3>1, <3>2
  <2> QED BY ReadFileSteps, <1>1, <2>1, <2>2
          DEF Coming, ByEvent, ByDebounce, ByChannel, ByPending, OnDisk, Holds
<1>3. NoDeletes'
  BY ReadFileSteps, <1>1 DEF KInv, NoDeletes
<1>4. ASSUME NEW p \in Lasting PROVE Anchored(p)'
  <2>1. p \in Paths /\ Anchored(p)
    BY WatchAssumption DEF KInv, Lasting
  <2>2. CASE p = q
    BY ReadFileSteps, <1>1, <2>1, <2>2 DEF Anchored
  <2>3. CASE p # q
    BY ReadFileSteps, <1>1, <2>1, <2>3 DEF Anchored
  <2> QED BY <2>2, <2>3
<1> QED BY <1>2, <1>3, <1>4 DEF KInv

\* What the delta leaves of p's documents
LEMMA DeltaOfPath ==
  ASSUME TypeOK, NEW p \in Paths
  PROVE  /\ WithDelta[p] \in Seq(Contents) /\ added[p] \in Seq(Contents)
         /\ disk.docs[p] \in Seq(Contents)
         /\ added[p] # <<>> => /\ WithDelta[p] # <<>>
                               /\ \E i \in DOMAIN WithDelta[p] :
                                     WithDelta[p][i] = added[p][Len(added[p])]
         /\ p \notin Buried => \A i \in DOMAIN disk.docs[p] :
                                  i \in DOMAIN WithDelta[p] /\ WithDelta[p][i] = disk.docs[p][i]
         /\ disk.docs[p] = <<>> => WithDelta[p] = added[p]
         /\ p \in Buried /\ Len(disk.docs[p]) <= 1 => WithDelta[p] = added[p]
         /\ p \notin Buried /\ added[p] = <<>> => WithDelta[p] = disk.docs[p]
<1> DEFINE old  == disk.docs[p]
           kept == IF p \in Buried THEN SubSeq(old, 1, Len(old) - 1) ELSE old
<1>1. old \in Seq(Contents) /\ added[p] \in Seq(Contents)
  BY DEF TypeOK, Indexes
<1>2. kept \in Seq(Contents)
  BY <1>1, SubSeqProperties
<1>3. WithDelta[p] = kept \o added[p]
  BY WithDeltaTyped
<1>4. old = <<>> => kept = <<>>
  BY DEF Buried
<1>5. p \in Buried /\ Len(old) <= 1 => kept = <<>>
  BY <1>1 DEF Buried
<1>6. p \notin Buried => kept = old
  OBVIOUS
<1> HIDE DEF old, kept
<1>7. /\ kept \o added[p] \in Seq(Contents)
      /\ Len(kept \o added[p]) = Len(kept) + Len(added[p])
      /\ \A i \in 1 .. Len(kept) + Len(added[p]) :
            (kept \o added[p])[i] = IF i <= Len(kept) THEN kept[i] ELSE added[p][i - Len(kept)]
  BY <1>1, <1>2, ConcatProperties
<1>8. kept = <<>> => kept \o added[p] = added[p]
  BY <1>1
<1>9. added[p] = <<>> => kept \o added[p] = kept
  BY <1>2
<1>10. ASSUME added[p] # <<>>
       PROVE  /\ WithDelta[p] # <<>>
              /\ \E i \in DOMAIN WithDelta[p] : WithDelta[p][i] = added[p][Len(added[p])]
  <2>1. Len(added[p]) \in Nat \ {0} /\ Len(kept) \in Nat
    BY <1>1, <1>2, <1>10
  <2>2. DOMAIN WithDelta[p] = 1 .. Len(kept) + Len(added[p])
    BY <1>3, <1>7
  <2>3. /\ Len(kept) + Len(added[p]) \in DOMAIN WithDelta[p]
        /\ WithDelta[p][Len(kept) + Len(added[p])] = added[p][Len(added[p])]
    BY <1>3, <1>7, <2>1, <2>2
  <2> QED BY <2>3
<1>11. ASSUME p \notin Buried, NEW i \in DOMAIN old
       PROVE  i \in DOMAIN WithDelta[p] /\ WithDelta[p][i] = old[i]
  <2>1. i \in 1 .. Len(kept) /\ Len(kept) \in Nat /\ Len(added[p]) \in Nat
    BY <1>1, <1>2, <1>6, <1>11
  <2>2. DOMAIN WithDelta[p] = 1 .. Len(kept) + Len(added[p])
    BY <1>3, <1>7
  <2> QED BY <1>3, <1>6, <1>7, <1>11, <2>1, <2>2
<1> QED BY <1>1, <1>3, <1>4, <1>5, <1>6, <1>7, <1>8, <1>9, <1>10, <1>11 DEF old

LEMMA CommitSteps ==
  ASSUME TypeOK, Commit
  PROVE  /\ pc = "read" /\ pc' = "idle" /\ \A p \in Paths : ~InBatch(todo, p)
         /\ batch' = NoBatch /\ todo' = NoBatch /\ added' = NoneAdded
         /\ UNCHANGED <<fs, edits, missed, past, watch, events, debounced, channel, pending>>
         /\ \/ /\ disk' = disk /\ reader' = reader
               /\ \A p \in Paths : p \notin Buried /\ added[p] = <<>>
            \/ /\ disk'.docs = WithDelta /\ reader' = disk'
               /\ disk.count # 0 /\ (\E p \in Paths : WithDelta[p] # <<>>) => disk'.count # 0
<1>1. disk.count \in Nat /\ added \in [Paths -> Seq(Contents)]
  BY DEF TypeOK, Indexes
<1>2. Live(added) \in Nat /\ Live(WithDelta) \in Nat
  BY <1>1, LiveCounts, WithDeltaTyped
<1>3. \A n \in Nat : Index(WithDelta, n).docs = WithDelta /\ Index(WithDelta, n).count = n
  BY WithDeltaTyped, IndexFields
<1>4. (\E p \in Paths : WithDelta[p] # <<>>) => Live(WithDelta) # 0
  BY WithDeltaTyped, LiveCounts
<1>5. \/ /\ disk' = disk /\ reader' = reader
         /\ \A p \in Paths : p \notin Buried /\ added[p] = <<>>
      \/ /\ disk'.docs = WithDelta /\ reader' = disk'
         /\ disk.count # 0 /\ (\E p \in Paths : WithDelta[p] # <<>>) => disk'.count # 0
  <2>1. CASE Buried = {} /\ added = NoneAdded
    BY <2>1 DEF Commit, NoneAdded, index
  <2>2. CASE disk' = Index(WithDelta, disk.count + Live(added)) /\ reader' = disk'
    BY <1>1, <1>2, <1>3, <2>2
  <2>3. CASE disk' = Index(WithDelta, Live(WithDelta)) /\ reader' = disk'
    BY <1>2, <1>3, <1>4, <2>3
  <2> QED BY <2>1, <2>2, <2>3 DEF Commit
<1> QED BY <1>5 DEF Commit, Done, InBatch, tree, queue

LEMMA CommitKept == ASSUME TypeOK, KInv, Commit PROVE KInv'
<1>1. ASSUME NEW p \in Paths
      PROVE  /\ NoneEvents(p)' <=> NoneEvents(p)
             /\ NoneDebounced(p)' <=> NoneDebounced(p)
             /\ NoneSent(p)' <=> NoneSent(p)
             /\ NonePending(p)' <=> NonePending(p)
  BY CommitSteps, NoneLater
<1>2. Kept'
  <2> SUFFICES ASSUME ~Mixed', NEW p \in Paths \ missed', Indexable(fs'[p]) PROVE Coming(p)'
    BY DEF Kept
  <2>1. Coming(p)
    BY CommitSteps DEF KInv, Kept, Mixed
  <2>2. CASE ByAdded(p)
    <3>1. disk'.docs = WithDelta
      BY CommitSteps, <2>2 DEF ByAdded
    <3>2. Holds(disk, p)'
      BY CommitSteps, DeltaOfPath, <2>2, <3>1 DEF ByAdded, Holds
    <3> QED BY CommitSteps, <1>1, <2>2, <3>2 DEF ByAdded, Coming, OnDisk
  <2>3. CASE OnDisk(p)
    <3>1. p \notin Buried
      BY CommitSteps, <2>3 DEF OnDisk, Buried
    <3>2. Holds(disk, p)'
      BY CommitSteps, DeltaOfPath, <2>3, <3>1 DEF OnDisk, Holds
    <3> QED BY CommitSteps, <1>1, <2>3, <3>2 DEF Coming, OnDisk
  <2> QED BY CommitSteps, <1>1, <2>1, <2>2, <2>3
          DEF Coming, ByEvent, ByDebounce, ByChannel, ByPending, ByBatch
<1>3. NoDeletes'
  BY CommitSteps, BatchFields, <1>1 DEF KInv, NoDeletes
<1>4. ASSUME NEW q \in Lasting PROVE Anchored(q)'
  <2>1. q \in Paths /\ Anchored(q)
    BY WatchAssumption DEF KInv, Lasting
  <2>2. WithDelta[q] # <<>>
    <3>1. CASE q \in Buried
      <4>1. added[q] # <<>>
        BY CommitSteps, <2>1, <3>1 DEF Anchored, Buried, InBatch
      <4> QED BY DeltaOfPath, <2>1, <4>1
    <3>2. CASE q \notin Buried
      <4>1. disk.docs[q] \in Seq(Contents) /\ disk.docs[q] # <<>>
        BY DeltaOfPath, <2>1 DEF Anchored
      <4>2. 1 \in DOMAIN disk.docs[q]
        BY <4>1
      <4>3. 1 \in DOMAIN WithDelta[q]
        BY DeltaOfPath, <2>1, <3>2, <4>2
      <4> QED BY <4>3
    <3> QED BY <3>1, <3>2
  <2> QED BY CommitSteps, BatchFields, <1>1, <2>1, <2>2 DEF Anchored
<1> QED BY <1>2, <1>3, <1>4 DEF KInv

LEMMA StopWatcherKept == ASSUME TypeOK, KInv, StopWatcher PROVE KInv'
<1>1. /\ pc' = "build" /\ events' = <<>> /\ debounced' = Quiet
      /\ UNCHANGED <<fs, missed, past, channel, pending, batch, todo, added, disk, reader>>
  BY DEF StopWatcher, tree, index
<1>2. ASSUME NEW p \in Paths, NonePending(p) PROVE NonePending(p)'
  BY <1>1, <1>2, EventsEmpty DEF NonePending, NoneSent, NoneDebounced, NoneEvents, Quiet, Unchanged
<1>3. NoDeletes'
  BY <1>1, <1>2 DEF KInv, NoDeletes
<1>4. \A p \in Lasting : Anchored(p)'
  BY <1>1, <1>2, WatchAssumption DEF KInv, Anchored, Lasting
<1> QED BY <1>1, <1>3, <1>4 DEF KInv, Kept, Coming

LEMMA FullScan ==
  ASSUME TypeOK, disk' = Scanned(fs), UNCHANGED fs, NEW p \in Paths, Indexable(fs[p])
  PROVE  /\ Holds(disk, p)' /\ disk'.docs[p] # <<>> /\ disk'.count # 0
<1>1. disk'.docs[p] = <<fs[p]>> /\ disk'.count # 0
  BY ScannedIndex DEF TypeOK
<1>2. 1 \in DOMAIN disk'.docs[p] /\ disk'.docs[p][1] = fs[p] /\ disk'.docs[p] # <<>>
  BY <1>1
<1> QED BY <1>1, <1>2 DEF Holds

LEMMA RebuildKept == ASSUME TypeOK, KInv, Rebuild PROVE KInv'
<1>1. /\ pc' = "restart" /\ disk' = Scanned(fs) /\ reader' = disk' /\ past' = past \cup {"rebuild"}
      /\ UNCHANGED <<fs, events, debounced, channel, pending, batch, todo, added>>
  BY DEF Rebuild, queue
<1>2. \A p \in Paths : NonePending(p)' <=> NonePending(p)
  BY <1>1, NoneLater
<1>3. Kept'
  <2> SUFFICES ASSUME ~Mixed', NEW p \in Paths \ missed', Indexable(fs'[p]) PROVE Coming(p)'
    BY DEF Kept
  <2>1. NonePending(p)
    BY <1>1 DEF KInv, NoDeletes, Mixed
  <2> QED BY <1>1, <1>2, <2>1, FullScan DEF Coming, OnDisk
<1>4. NoDeletes'
  BY <1>1, <1>2 DEF KInv, NoDeletes
<1>5. \A p \in Lasting : Anchored(p)'
  BY <1>1, <1>2, FullScan, WatchAssumption DEF KInv, Anchored, Lasting
<1> QED BY <1>3, <1>4, <1>5 DEF KInv

LEMMA RestartKept == ASSUME TypeOK, KInv, Restart PROVE KInv'
<1>1. /\ pc = "restart" /\ pc' = "idle" /\ batch' = NoBatch
      /\ UNCHANGED <<fs, missed, past, events, debounced, channel, pending, disk, reader>>
  BY DEF Restart, Done, tree, index
<1>2. ASSUME NEW p \in Paths
      PROVE  /\ NoneEvents(p)' <=> NoneEvents(p)
             /\ NoneDebounced(p)' <=> NoneDebounced(p)
             /\ NoneSent(p)' <=> NoneSent(p)
             /\ NonePending(p)' <=> NonePending(p)
  BY <1>1, NoneLater
<1>3. Kept'
  BY <1>1, <1>2 DEF KInv, Kept, Mixed, Coming, ByEvent, ByDebounce, ByChannel, ByPending, ByBatch,
                    ByAdded, OnDisk, Holds
<1>4. NoDeletes'
  BY <1>1, <1>2, BatchFields DEF KInv, NoDeletes
<1>5. \A p \in Lasting : Anchored(p)'
  BY <1>1, <1>2, BatchFields, WatchAssumption DEF KInv, Anchored, Lasting
<1> QED BY <1>3, <1>4, <1>5 DEF KInv

LEMMA ForceIndexKept == ASSUME TypeOK, KInv, ForceIndex PROVE KInv'
<1>1. /\ disk' = Scanned(fs) /\ past' = past \cup {"index"}
      /\ UNCHANGED <<fs, missed, events, debounced, channel, pending, pc, batch, todo, added, reader>>
  BY DEF ForceIndex, queue, work
<1>2. ASSUME NEW p \in Paths
      PROVE  /\ NoneEvents(p)' <=> NoneEvents(p)
             /\ NoneDebounced(p)' <=> NoneDebounced(p)
             /\ NoneSent(p)' <=> NoneSent(p)
             /\ NonePending(p)' <=> NonePending(p)
  BY <1>1, NoneLater
<1>3. Kept'
  <2> SUFFICES ASSUME ~Mixed', NEW p \in Paths \ missed', Indexable(fs'[p]) PROVE Coming(p)'
    BY DEF Kept
  <2>1. Coming(p) /\ Holds(disk, p)'
    BY <1>1, FullScan DEF KInv, Kept, Mixed
  <2> QED BY <1>1, <1>2, <2>1
          DEF Coming, ByEvent, ByDebounce, ByChannel, ByPending, ByBatch, ByAdded, OnDisk
<1>4. NoDeletes'
  BY <1>1, <1>2 DEF KInv, NoDeletes
<1>5. \A p \in Lasting : Anchored(p)'
  BY <1>1, <1>2, FullScan, WatchAssumption DEF KInv, Anchored, Lasting
<1> QED BY <1>3, <1>4, <1>5 DEF KInv

LEMMA NextKept == TypeOK /\ KInv /\ Lasting # {} /\ [Next]_vars => KInv'
<1> SUFFICES ASSUME TypeOK, KInv, Lasting # {}, [Next]_vars PROVE KInv'
  OBVIOUS
<1>1. ASSUME NEW p \in Paths, Create(p) \/ Write(p) \/ Remove(p) PROVE KInv'
  BY <1>1, EditSteps, EditKept
<1>2. CASE StartWatcher
  <2>1. UNCHANGED <<fs, missed, past, events, debounced, channel, pending, pc, batch, todo, added,
                    disk, reader>>
    BY <1>2 DEF StartWatcher, tree, work, index
  <2> QED BY <2>1 DEF KInv, Kept, NoDeletes, Anchored, Mixed, Coming, ByEvent, ByDebounce, ByChannel,
       ByPending, ByBatch, ByAdded, OnDisk, NonePending, NoneSent, NoneDebounced, NoneEvents, Holds
<1> QED BY <1>1, <1>2, StutterKept, TakeEventKept, DebounceKept, AccumulateKept, FlushKept, StartDeltaKept,
           ReadFileKept, CommitKept, StopWatcherKept, RebuildKept, RestartKept, ForceIndexKept
        DEF Next, Watcher, Processor

\* Every variable keeps its type, no empty batch is sent, and the processor
\* at rest has nothing left of a batch.
THEOREM Types == Spec => []TypeOK
BY InitTyped, NextTyped, PTL DEF Spec

LEMMA KeptInvariance == ASSUME Lasting # {} PROVE Spec => [](TypeOK /\ KInv)
<1>1. TypeOK /\ KInv /\ [Next]_vars => (TypeOK /\ KInv)'
  BY NextTyped, NextKept
<1>2. Init => TypeOK /\ KInv
  BY InitTyped, InitKInv
<1> QED BY <1>1, <1>2, PTL DEF Spec

\* Once all stages are empty, what was coming is on disk
LEMMA SettledOnDisk ==
  ASSUME TypeOK, KInv, Settled, ~Mixed, NEW p \in Paths \ missed, Indexable(fs[p])
  PROVE  Holds(disk, p)
<1>1. Coming(p)
  BY DEF KInv, Kept
<1>2. ~ByEvent(p) /\ ~ByChannel(p)
  BY EventsEmpty, ChannelEmpty DEF Settled, ByEvent, ByChannel
<1>3. ~ByDebounce(p)
  BY DEF Settled, ByDebounce, Quiet, Unchanged
<1>4. ~ByPending(p)
  BY BatchFields DEF Settled, ByPending, InBatch
<1>5. ~ByBatch(p) /\ ~ByAdded(p) /\ pc # "build"
  BY DEF Settled, ByBatch, ByAdded
<1> QED BY <1>1, <1>2, <1>3, <1>4, <1>5 DEF Coming, OnDisk

\* Whatever is edited, debounced, merged, skipped, applied or rebuilt in
\* whatever order, no file's last version is lost on its way to the index,
\* provided that one indexed file stays: handle_changes drops every batch for
\* an index of no documents.
THEOREM EditsArrive == ASSUME Initial \ Removable # {} PROVE Spec => []Recall
<1>1. TypeOK /\ KInv => Recall
  BY SettledOnDisk DEF Recall
<1> QED BY <1>1, KeptInvariance, PTL DEF Lasting

---------------------------------------------------------------------------
(* Why no file is indexed twice: a new file is known to no later stage *)

Told(evs, p)    == \E i \in DOMAIN evs : evs[i][1] = p
ToldNew(evs, p) == \E i \in DOMAIN evs : evs[i][1] = p /\ evs[i][2] = "created"

\* The event that created p is the first of p
NewFirst(evs, p) ==
    \A i \in DOMAIN evs : (evs[i][1] = p /\ evs[i][2] = "created") =>
        \A j \in DOMAIN evs : j < i => evs[j][1] # p

Sent(ch, p)    == \E i \in DOMAIN ch : InBatch(ch[i], p)
SentNew(ch, p) == \E i \in DOMAIN ch : p \in ch[i].created

NewSentFirst(ch, p) ==
    \A i \in DOMAIN ch : p \in ch[i].created => \A j \in DOMAIN ch : j < i => ~InBatch(ch[j], p)

\* This stage and those after it have not heard of p
Unseen0(p) == disk.docs[p] = <<>> /\ added[p] = <<>> /\ ~InBatch(batch, p)
Unseen1(p) == Unseen0(p) /\ ~InBatch(pending, p)
Unseen2(p) == Unseen1(p) /\ ~Sent(channel, p)
Unseen3(p) == Unseen2(p) /\ debounced[p] = Unchanged
Unseen4(p) == Unseen3(p) /\ ~Told(events, p)

NewInQueues(p) ==
    /\ fs[p] = Absent => Unseen4(p)
    /\ ToldNew(events, p) => Unseen3(p)
    /\ NewFirst(events, p)
    /\ debounced[p] = "created" => Unseen2(p)
    /\ SentNew(channel, p) => Unseen1(p)
    /\ NewSentFirst(channel, p)
    /\ p \in pending.created => Unseen0(p) /\ p \notin pending.modified

OneVersion(p) ==
    /\ ~Indexable(fs[p]) => disk.docs[p] = <<>> /\ added[p] = <<>>
    /\ Len(disk.docs[p]) <= 1 /\ Len(added[p]) <= 1
    /\ p \in batch.created => disk.docs[p] = <<>> /\ p \notin batch.modified
    /\ pc = "read" => /\ p \in todo.created => p \in batch.created
                      /\ p \in todo.modified => p \in batch.modified
                      /\ InBatch(todo, p) => added[p] = <<>>
    /\ pc # "read" => added[p] = <<>>
    /\ added[p] # <<>> => InBatch(batch, p)

Calm == past = {} /\ pc # "build"

OInv ==
    /\ pc = "restart" => past # {}
    /\ Calm => /\ watch = "on" /\ missed = {} /\ disk = reader
               /\ \A p \in Paths : NewInQueues(p) /\ OneVersion(p)

LEMMA NoneQueued ==
  \A p : /\ ~Told(<<>>, p) /\ ~ToldNew(<<>>, p) /\ NewFirst(<<>>, p)
         /\ ~Sent(<<>>, p) /\ ~SentNew(<<>>, p) /\ NewSentFirst(<<>>, p)
BY DEF Told, ToldNew, NewFirst, Sent, SentNew, NewSentFirst

LEMMA ToldAppend ==
  ASSUME NEW evs \in Seq(Paths \X Kinds), NEW q \in Paths, NEW k \in Kinds,
         NEW evs2, evs2 = Append(evs, <<q, k>>), NEW p
  PROVE  /\ Told(evs2, p) <=> Told(evs, p) \/ p = q
         /\ ToldNew(evs2, p) => ToldNew(evs, p) \/ (p = q /\ k = "created")
         /\ NewFirst(evs, p) /\ ((p = q /\ k = "created") => ~Told(evs, p)) => NewFirst(evs2, p)
<1> DEFINE n == Len(evs) + 1
<1>1. <<q, k>> \in Paths \X Kinds
  OBVIOUS
<1>2. /\ \A i \in DOMAIN evs : i \in DOMAIN evs2 /\ evs2[i] = evs[i] /\ i \in Nat /\ i < n
      /\ n \in DOMAIN evs2 /\ evs2[n] = <<q, k>> /\ n \in Nat
      /\ \A i \in DOMAIN evs2 : i # n => i \in DOMAIN evs
  BY <1>1, AppendIndex
<1> HIDE DEF n
<1>3. evs2[n][1] = q /\ evs2[n][2] = k
  BY <1>2
<1>4. Told(evs2, p) <=> Told(evs, p) \/ p = q
  BY <1>2, <1>3 DEF Told
<1>5. ToldNew(evs2, p) <=> ToldNew(evs, p) \/ (p = q /\ k = "created")
  BY <1>2, <1>3 DEF ToldNew
<1>6. ASSUME NewFirst(evs, p), (p = q /\ k = "created") => ~Told(evs, p) PROVE NewFirst(evs2, p)
  <2> SUFFICES ASSUME NEW i \in DOMAIN evs2, evs2[i][1] = p, evs2[i][2] = "created",
                      NEW j \in DOMAIN evs2, j < i
               PROVE  evs2[j][1] # p
    BY DEF NewFirst
  <2>1. j \in DOMAIN evs /\ evs2[j] = evs[j]
    BY <1>2
  <2>2. CASE i = n
    BY <1>3, <1>6, <2>1, <2>2 DEF Told
  <2>3. CASE i # n
    BY <1>2, <1>6, <2>1, <2>3 DEF NewFirst
  <2> QED BY <2>2, <2>3
<1> QED BY <1>4, <1>5, <1>6

LEMMA ToldTail ==
  ASSUME NEW evs \in Seq(Paths \X Kinds), evs # <<>>, NEW evs2, evs2 = Tail(evs), NEW p
  PROVE  /\ Told(evs2, p) => Told(evs, p)
         /\ Head(evs)[1] = p => Told(evs, p)
         /\ ToldNew(evs2, p) => ToldNew(evs, p)
         /\ Head(evs)[1] = p /\ Head(evs)[2] = "created" => ToldNew(evs, p)
         /\ NewFirst(evs, p) => NewFirst(evs2, p)
         /\ NewFirst(evs, p) /\ Head(evs)[1] = p => ~ToldNew(evs2, p)
<1>1. /\ Head(evs) = evs[1] /\ 1 \in DOMAIN evs
      /\ \A i \in DOMAIN evs2 : i + 1 \in DOMAIN evs /\ evs2[i] = evs[i + 1] /\ i \in Nat /\ i > 0
  BY TailIndex
<1>2. Told(evs2, p) => Told(evs, p)
  BY <1>1 DEF Told
<1>3. ToldNew(evs2, p) => ToldNew(evs, p)
  BY <1>1 DEF ToldNew
<1>4. /\ Head(evs)[1] = p => Told(evs, p)
      /\ Head(evs)[1] = p /\ Head(evs)[2] = "created" => ToldNew(evs, p)
  BY <1>1 DEF Told, ToldNew
<1>5. ASSUME NewFirst(evs, p) PROVE NewFirst(evs2, p)
  <2> SUFFICES ASSUME NEW i \in DOMAIN evs2, evs2[i][1] = p, evs2[i][2] = "created",
                      NEW j \in DOMAIN evs2, j < i
               PROVE  evs2[j][1] # p
    BY DEF NewFirst
  <2>1. i + 1 \in DOMAIN evs /\ j + 1 \in DOMAIN evs /\ j + 1 < i + 1
    BY <1>1
  <2> QED BY <1>1, <1>5, <2>1 DEF NewFirst
<1>6. ASSUME NewFirst(evs, p), Head(evs)[1] = p, NEW i \in DOMAIN evs2,
             evs2[i][1] = p, evs2[i][2] = "created"
      PROVE  FALSE
  <2>1. i + 1 \in DOMAIN evs /\ 1 < i + 1 /\ evs[i + 1] = evs2[i]
    BY <1>1
  <2> QED BY <1>1, <1>6, <2>1 DEF NewFirst
<1>7. NewFirst(evs, p) /\ Head(evs)[1] = p => ~ToldNew(evs2, p)
  BY <1>6 DEF ToldNew
<1> QED BY <1>2, <1>3, <1>4, <1>5, <1>7

LEMMA SentAppend ==
  ASSUME NEW ch \in Seq(Batches \ {NoBatch}), NEW b \in Batches \ {NoBatch},
         NEW ch2, ch2 = Append(ch, b), NEW p
  PROVE  /\ Sent(ch2, p) <=> Sent(ch, p) \/ InBatch(b, p)
         /\ SentNew(ch2, p) <=> SentNew(ch, p) \/ p \in b.created
         /\ NewSentFirst(ch, p) /\ (p \in b.created => ~Sent(ch, p)) => NewSentFirst(ch2, p)
<1> DEFINE n == Len(ch) + 1
<1>1. /\ \A i \in DOMAIN ch : i \in DOMAIN ch2 /\ ch2[i] = ch[i] /\ i \in Nat /\ i < n
      /\ n \in DOMAIN ch2 /\ ch2[n] = b /\ n \in Nat
      /\ \A i \in DOMAIN ch2 : i # n => i \in DOMAIN ch
  BY AppendIndex
<1> HIDE DEF n
<1>2. Sent(ch2, p) <=> Sent(ch, p) \/ InBatch(b, p)
  BY <1>1 DEF Sent
<1>3. SentNew(ch2, p) <=> SentNew(ch, p) \/ p \in b.created
  BY <1>1 DEF SentNew
<1>4. ASSUME NewSentFirst(ch, p), p \in b.created => ~Sent(ch, p) PROVE NewSentFirst(ch2, p)
  <2> SUFFICES ASSUME NEW i \in DOMAIN ch2, p \in ch2[i].created, NEW j \in DOMAIN ch2, j < i
               PROVE  ~InBatch(ch2[j], p)
    BY DEF NewSentFirst
  <2>1. j \in DOMAIN ch /\ ch2[j] = ch[j]
    BY <1>1
  <2>2. CASE i = n
    BY <1>1, <1>4, <2>1, <2>2 DEF Sent
  <2>3. CASE i # n
    BY <1>1, <1>4, <2>1, <2>3 DEF NewSentFirst
  <2> QED BY <2>2, <2>3
<1> QED BY <1>2, <1>3, <1>4

LEMMA SentTail ==
  ASSUME NEW ch \in Seq(Batches \ {NoBatch}), ch # <<>>, NEW ch2, ch2 = Tail(ch), NEW p
  PROVE  /\ Sent(ch2, p) => Sent(ch, p)
         /\ InBatch(Head(ch), p) => Sent(ch, p)
         /\ SentNew(ch2, p) => SentNew(ch, p)
         /\ p \in Head(ch).created => SentNew(ch, p)
         /\ NewSentFirst(ch, p) => NewSentFirst(ch2, p)
         /\ NewSentFirst(ch, p) /\ InBatch(Head(ch), p) => ~SentNew(ch2, p)
<1>1. /\ Head(ch) = ch[1] /\ 1 \in DOMAIN ch
      /\ \A i \in DOMAIN ch2 : i + 1 \in DOMAIN ch /\ ch2[i] = ch[i + 1] /\ i \in Nat /\ i > 0
  BY TailIndex
<1>2. Sent(ch2, p) => Sent(ch, p)
  BY <1>1 DEF Sent
<1>3. SentNew(ch2, p) => SentNew(ch, p)
  BY <1>1 DEF SentNew
<1>4. /\ InBatch(Head(ch), p) => Sent(ch, p)
      /\ p \in Head(ch).created => SentNew(ch, p)
  BY <1>1 DEF Sent, SentNew
<1>5. ASSUME NewSentFirst(ch, p) PROVE NewSentFirst(ch2, p)
  <2> SUFFICES ASSUME NEW i \in DOMAIN ch2, p \in ch2[i].created, NEW j \in DOMAIN ch2, j < i
               PROVE  ~InBatch(ch2[j], p)
    BY DEF NewSentFirst
  <2>1. i + 1 \in DOMAIN ch /\ j + 1 \in DOMAIN ch /\ j + 1 < i + 1
    BY <1>1
  <2> QED BY <1>1, <1>5, <2>1 DEF NewSentFirst
<1>6. ASSUME NewSentFirst(ch, p), InBatch(Head(ch), p), NEW i \in DOMAIN ch2, p \in ch2[i].created
      PROVE  FALSE
  <2>1. i + 1 \in DOMAIN ch /\ 1 < i + 1 /\ ch[i + 1] = ch2[i]
    BY <1>1
  <2> QED BY <1>1, <1>6, <2>1 DEF NewSentFirst
<1>7. NewSentFirst(ch, p) /\ InBatch(Head(ch), p) => ~SentNew(ch2, p)
  BY <1>6 DEF SentNew
<1> QED BY <1>2, <1>3, <1>4, <1>5, <1>7

LEMMA InitOInv == Init => OInv
<1> SUFFICES ASSUME Init PROVE OInv
  OBVIOUS
<1>1. fs \in [Paths -> Nat] /\ disk = Scanned(fs) /\ disk = reader
  BY DEF Init, Blank, Absent
<1>2. ASSUME NEW p \in Paths PROVE NewInQueues(p) /\ OneVersion(p)
  <2>1. added[p] = <<>> /\ ~InBatch(batch, p) /\ ~InBatch(pending, p) /\ debounced[p] = Unchanged
    BY <1>2, BatchFields DEF Init, NoneAdded, Quiet, InBatch
  <2>2. /\ Len(disk.docs[p]) <= 1
        /\ ~Indexable(fs[p]) => disk.docs[p] = <<>>
    <3>1. IF Indexable(fs[p]) THEN disk.docs[p] = <<fs[p]>> ELSE disk.docs[p] = <<>>
      BY <1>1, ScannedIndex
    <3>2. \A v : Len(<<v>>) = 1
      OBVIOUS
    <3>3. Len(<<>>) = 0
      OBVIOUS
    <3>4. CASE Indexable(fs[p])
      <4>1. Len(disk.docs[p]) = 1
        BY <3>1, <3>2, <3>4
      <4> QED BY <3>4, <4>1
    <3>5. CASE ~Indexable(fs[p])
      <4>1. disk.docs[p] = <<>>
        BY <3>1, <3>5
      <4> QED BY <3>3, <4>1
    <3> QED BY <3>4, <3>5
  <2>3. fs[p] = Absent => ~Indexable(fs[p])
    BY DEF Indexable, Absent, Blank
  <2>4. NewInQueues(p)
    BY <2>1, <2>2, <2>3, NoneQueued, BatchFields
       DEF Init, NewInQueues, Unseen4, Unseen3, Unseen2, Unseen1, Unseen0, Unchanged
  <2>5. OneVersion(p)
    BY <2>1, <2>2, BatchFields DEF Init, OneVersion, InBatch
  <2> QED BY <2>4, <2>5
<1> QED BY <1>1, <1>2 DEF Init, OInv

LEMMA EditOnce ==
  ASSUME TypeOK, OInv, NEW q \in Paths, NEW c \in Nat, NEW kind \in Kinds, EditStep(q, c, kind)
  PROVE  OInv'
<1> USE DEF EditStep
<1> SUFFICES ASSUME Calm'
             PROVE  /\ watch' = "on" /\ missed' = {} /\ disk' = reader'
                    /\ \A p \in Paths : NewInQueues(p)' /\ OneVersion(p)'
  BY DEF OInv, work
<1>1. Calm /\ kind # "deleted"
  BY DEF Calm, work
<1>2. /\ watch = "on" /\ missed = {} /\ disk = reader
      /\ \A p \in Paths : NewInQueues(p) /\ OneVersion(p)
  BY <1>1 DEF OInv
<1>3. /\ fs \in [Paths -> Nat] /\ edits \in Nat /\ events \in Seq(Paths \X Kinds)
      /\ events' = Append(events, <<q, kind>>)
  BY <1>2 DEF TypeOK
<1>4. fs'[q] = c /\ \A p \in Paths \ {q} : fs'[p] = fs[p]
  BY <1>3
<1>5. ASSUME NEW p \in Paths
      PROVE  /\ Told(events', p) <=> Told(events, p) \/ p = q
             /\ ToldNew(events', p) => ToldNew(events, p) \/ (p = q /\ kind = "created")
             /\ NewFirst(events, p) /\ ((p = q /\ kind = "created") => ~Told(events, p))
                   => NewFirst(events', p)
  <2>1. events \in Seq(Paths \X Kinds) /\ events' = Append(events, <<q, kind>>)
    BY <1>3
  <2> HIDE DEF EditStep
  <2> QED BY <2>1, ToldAppend
<1>6. ASSUME NEW p \in Paths
      PROVE  /\ Unseen0(p)' <=> Unseen0(p)
             /\ Unseen1(p)' <=> Unseen1(p)
             /\ Unseen2(p)' <=> Unseen2(p)
             /\ Unseen3(p)' <=> Unseen3(p)
  BY DEF Unseen3, Unseen2, Unseen1, Unseen0, work, index
<1>7. kind = "created" => Unseen4(q)
  BY <1>2 DEF NewInQueues
<1>8. c # Absent /\ (kind # "created" => Indexable(c))
  BY <1>1, <1>3 DEF Kinds, Indexable, Blank, Absent
<1>9. ASSUME NEW p \in Paths PROVE NewInQueues(p)'
  <2>1. fs'[p] = Absent => p # q /\ fs[p] = Absent
    BY <1>4, <1>8
  <2> QED BY <1>2, <1>5, <1>6, <1>7, <2>1 DEF NewInQueues, Unseen4
<1>10. ASSUME NEW p \in Paths PROVE OneVersion(p)'
  <2>1. ~Indexable(fs'[p]) => disk.docs[p] = <<>> /\ added[p] = <<>>
    BY <1>2, <1>4, <1>7, <1>8 DEF OneVersion, Unseen4, Unseen3, Unseen2, Unseen1, Unseen0
  <2> QED BY <1>2, <2>1 DEF OneVersion, work, index
<1> QED BY <1>2, <1>9, <1>10 DEF index

\* What a step that leaves the index and the batch alone must keep
LEMMA SameVersions ==
  ASSUME UNCHANGED <<fs, pc, batch, todo, added, disk>>, NEW p \in Paths
  PROVE  /\ OneVersion(p) => OneVersion(p)'
         /\ Unseen0(p)' <=> Unseen0(p)
BY DEF OneVersion, Unseen0

LEMMA TakeEventOnce == ASSUME TypeOK, KInv, OInv, TakeEvent PROVE OInv'
<1> DEFINE q == Head(events)[1]
           k == Head(events)[2]
<1>1. /\ events \in Seq(Paths \X Kinds) /\ events # <<>> /\ events' = Tail(events)
      /\ q \in Paths /\ k \in Kinds
      /\ debounced \in [Paths -> Kinds \cup {Unchanged}]
      /\ debounced' = IF fs[q] = Absent THEN debounced ELSE [debounced EXCEPT ![q] = Normal(@, k)]
  BY HeadTailProperties DEF TakeEvent, TypeOK
<1>2. UNCHANGED <<fs, missed, past, watch, channel, pending, pc, batch, todo, added, disk, reader>>
  BY DEF TakeEvent, tree, work, index
<1> HIDE DEF q, k
<1> SUFFICES ASSUME Calm' PROVE \A p \in Paths : NewInQueues(p)' /\ OneVersion(p)'
  BY <1>2 DEF OInv, Calm
<1>3. \A p \in Paths : NewInQueues(p) /\ OneVersion(p)
  BY <1>2 DEF OInv, Calm
<1>4. ASSUME NEW p \in Paths
      PROVE  /\ Told(events', p) => Told(events, p)
             /\ q = p => Told(events, p)
             /\ ToldNew(events', p) => ToldNew(events, p)
             /\ q = p /\ k = "created" => ToldNew(events, p)
             /\ NewFirst(events, p) => NewFirst(events', p)
             /\ NewFirst(events, p) /\ q = p => ~ToldNew(events', p)
             /\ Gone(events, p) <=> Gone(events', p) \/ (q = p /\ k = "deleted")
  BY <1>1, ToldTail, EventsTail DEF q, k
<1>5. fs[q] # Absent /\ k # "deleted" /\ debounced[q] # "deleted"
  <2>1. NonePending(q)
    BY <1>1, <1>2 DEF KInv, NoDeletes, Calm
  <2> QED BY <1>1, <1>3, <1>4, <2>1
          DEF NewInQueues, Unseen4, NonePending, NoneSent, NoneDebounced, NoneEvents
<1>6. /\ \A p \in Paths : q # p => debounced'[p] = debounced[p]
      /\ debounced'[q] = "created" => k = "created" \/ debounced[q] = "created"
  <2>1. debounced'[q] = Normal(debounced[q], k)
    BY <1>1, <1>5
  <2> QED BY <1>1, <1>5, <2>1 DEF Normal, Kinds, Unchanged
<1>7. ASSUME NEW p \in Paths
      PROVE  /\ Unseen0(p)' <=> Unseen0(p)
             /\ Unseen1(p)' <=> Unseen1(p)
             /\ Unseen2(p)' <=> Unseen2(p)
             /\ p # q => (Unseen3(p)' <=> Unseen3(p))
  BY <1>2, <1>6, SameVersions DEF Unseen3, Unseen2, Unseen1
<1>8. ASSUME NEW p \in Paths PROVE NewInQueues(p)'
  <2>1. fs'[p] = Absent => Unseen4(p)'
    BY <1>2, <1>3, <1>4, <1>5, <1>7 DEF NewInQueues, Unseen4
  <2>2. ToldNew(events', p) => Unseen3(p)'
    BY <1>3, <1>4, <1>7 DEF NewInQueues
  <2>3. debounced'[p] = "created" => Unseen2(p)'
    BY <1>3, <1>4, <1>6, <1>7 DEF NewInQueues, Unseen3
  <2> QED BY <1>2, <1>3, <1>4, <1>7, <2>1, <2>2, <2>3 DEF NewInQueues
<1> QED BY <1>2, <1>3, <1>8, SameVersions

LEMMA DebounceOnce == ASSUME TypeOK, KInv, OInv, Debounce PROVE OInv'
<1> DEFINE b == BatchOf(debounced)
<1>1. /\ channel \in Seq(Batches \ {NoBatch}) /\ b \in Batches \ {NoBatch}
      /\ channel' = Append(channel, b)
      /\ \A p \in Paths : /\ p \in b.created <=> debounced[p] = "created"
                          /\ InBatch(b, p) => debounced[p] # Unchanged
                          /\ debounced'[p] = Unchanged
  BY BatchOfFields DEF Debounce, TypeOK, InBatch, Quiet, Unchanged
<1>2. UNCHANGED <<fs, missed, past, watch, events, pending, pc, batch, todo, added, disk, reader>>
  BY DEF Debounce, tree, work, index
<1> HIDE DEF b
<1> SUFFICES ASSUME Calm' PROVE \A p \in Paths : NewInQueues(p)' /\ OneVersion(p)'
  BY <1>2 DEF OInv, Calm
<1>3. \A p \in Paths : NewInQueues(p) /\ OneVersion(p)
  BY <1>2 DEF OInv, Calm
<1>4. ASSUME NEW p \in Paths
      PROVE  /\ Sent(channel', p) <=> Sent(channel, p) \/ InBatch(b, p)
             /\ SentNew(channel', p) <=> SentNew(channel, p) \/ p \in b.created
             /\ NewSentFirst(channel, p) /\ (p \in b.created => ~Sent(channel, p))
                   => NewSentFirst(channel', p)
  BY <1>1, SentAppend
<1>5. ASSUME NEW p \in Paths
      PROVE  /\ Unseen0(p)' <=> Unseen0(p)
             /\ Unseen1(p)' <=> Unseen1(p)
             /\ Unseen3(p) => Unseen3(p)'
  BY <1>1, <1>2, <1>4, SameVersions DEF Unseen3, Unseen2, Unseen1
<1>6. ASSUME NEW p \in Paths PROVE NewInQueues(p)'
  <2>1. p \in b.created => Unseen2(p)
    BY <1>1, <1>3 DEF NewInQueues
  <2>2. SentNew(channel', p) => Unseen1(p)'
    BY <1>3, <1>4, <1>5, <2>1 DEF NewInQueues, Unseen2
  <2>3. NewSentFirst(channel', p)
    BY <1>3, <1>4, <2>1 DEF NewInQueues, Unseen2
  <2>4. debounced'[p] # "created"
    BY <1>1 DEF Unchanged
  <2> QED BY <1>2, <1>3, <1>5, <2>2, <2>3, <2>4 DEF NewInQueues, Unseen4
<1> QED BY <1>2, <1>3, <1>6, SameVersions

LEMMA AccumulateOnce == ASSUME TypeOK, KInv, OInv, Accumulate PROVE OInv'
<1> DEFINE b == Head(channel)
<1>1. /\ channel \in Seq(Batches \ {NoBatch}) /\ channel # <<>> /\ channel' = Tail(channel)
      /\ b \in Batches /\ pending \in Batches /\ pending' = Merged(pending, b)
  BY HeadTailProperties DEF Accumulate, TypeOK
<1>2. UNCHANGED <<fs, missed, past, watch, events, debounced, pc, batch, todo, added, disk, reader>>
  BY DEF Accumulate, tree, queue, work, index
<1> HIDE DEF b
<1> SUFFICES ASSUME Calm' PROVE \A p \in Paths : NewInQueues(p)' /\ OneVersion(p)'
  BY <1>2 DEF OInv, Calm
<1>3. \A p \in Paths : NewInQueues(p) /\ OneVersion(p)
  BY <1>2 DEF OInv, Calm
<1>4. ASSUME NEW p \in Paths
      PROVE  /\ Sent(channel', p) => Sent(channel, p)
             /\ InBatch(b, p) => Sent(channel, p)
             /\ SentNew(channel', p) => SentNew(channel, p)
             /\ p \in b.created => SentNew(channel, p)
             /\ NewSentFirst(channel, p) => NewSentFirst(channel', p)
             /\ NewSentFirst(channel, p) /\ InBatch(b, p) => ~SentNew(channel', p)
  BY <1>1, SentTail DEF b
<1>5. ASSUME NEW p \in Paths
      PROVE  /\ InBatch(pending', p) => InBatch(pending, p) \/ InBatch(b, p)
             /\ p \in pending'.created => p \in pending.created \/ p \in b.created
             /\ p \in pending'.modified /\ p \in pending'.created => p \in pending.modified
  BY <1>1, MergedFields DEF InBatch
<1>6. ASSUME NEW p \in Paths
      PROVE  /\ Unseen0(p)' <=> Unseen0(p)
             /\ Unseen1(p) /\ ~InBatch(b, p) => Unseen1(p)'
             /\ Unseen2(p) => Unseen2(p)'
             /\ Unseen3(p) => Unseen3(p)'
             /\ Unseen4(p) => Unseen4(p)'
  BY <1>2, <1>4, <1>5, SameVersions DEF Unseen4, Unseen3, Unseen2, Unseen1
<1>7. ASSUME NEW p \in Paths PROVE NewInQueues(p)'
  <2>1. SentNew(channel', p) => Unseen1(p)'
    BY <1>3, <1>4, <1>6 DEF NewInQueues
  <2>2. ASSUME p \in pending'.created PROVE Unseen0(p)' /\ p \notin pending'.modified
    <3>1. CASE p \in pending.created
      BY <1>3, <1>5, <1>6, <2>2, <3>1 DEF NewInQueues
    <3>2. CASE p \in b.created
      <4>1. Unseen1(p)
        BY <1>3, <1>4, <3>2 DEF NewInQueues
      <4> QED BY <1>5, <1>6, <2>2, <4>1 DEF Unseen1, InBatch
    <3> QED BY <1>5, <2>2, <3>1, <3>2
  <2> QED BY <1>2, <1>3, <1>4, <1>6, <2>1, <2>2 DEF NewInQueues
<1> QED BY <1>2, <1>3, <1>7, SameVersions

LEMMA FlushOnce == ASSUME TypeOK, KInv, OInv, Lasting # {}, Flush PROVE OInv'
<1>1. reader.count # 0
  BY DEF KInv, Anchored
<1>2. /\ pc = "idle" /\ pc' \in {"delta", "rebuild"} /\ batch' = pending /\ pending' = NoBatch
      /\ UNCHANGED <<fs, missed, past, watch, events, debounced, channel, todo, added, disk, reader>>
  BY <1>1 DEF Flush, tree, queue, index
<1> SUFFICES ASSUME Calm' PROVE \A p \in Paths : NewInQueues(p)' /\ OneVersion(p)'
  BY <1>2 DEF OInv, Calm
<1>3. \A p \in Paths : NewInQueues(p) /\ OneVersion(p)
  BY <1>2 DEF OInv, Calm
<1>4. ASSUME NEW p \in Paths
      PROVE  /\ Unseen1(p) => Unseen1(p)'
             /\ Unseen2(p) => Unseen2(p)'
             /\ Unseen3(p) => Unseen3(p)'
             /\ Unseen4(p) => Unseen4(p)'
  BY <1>2, BatchFields DEF Unseen4, Unseen3, Unseen2, Unseen1, Unseen0, InBatch
<1>5. ASSUME NEW p \in Paths PROVE NewInQueues(p)'
  BY <1>2, <1>3, <1>4, BatchFields DEF NewInQueues
<1>6. ASSUME NEW p \in Paths PROVE OneVersion(p)'
  BY <1>2, <1>3 DEF OneVersion, NewInQueues, Unseen0
<1> QED BY <1>5, <1>6

LEMMA StartDeltaOnce == ASSUME TypeOK, KInv, OInv, StartDelta PROVE OInv'
<1>1. /\ pc = "delta" /\ pc' = "read" /\ todo' = batch
      /\ UNCHANGED <<fs, missed, past, watch, events, debounced, channel, pending, batch, added, disk, reader>>
  BY DEF StartDelta, tree, queue, index
<1> SUFFICES ASSUME Calm' PROVE \A p \in Paths : NewInQueues(p)' /\ OneVersion(p)'
  BY <1>1 DEF OInv, Calm
<1>2. \A p \in Paths : NewInQueues(p) /\ OneVersion(p)
  BY <1>1 DEF OInv, Calm
<1>3. ASSUME NEW p \in Paths PROVE NewInQueues(p)'
  BY <1>1, <1>2 DEF NewInQueues, Unseen4, Unseen3, Unseen2, Unseen1, Unseen0
<1>4. ASSUME NEW p \in Paths PROVE OneVersion(p)'
  BY <1>1, <1>2 DEF OneVersion
<1> QED BY <1>3, <1>4

LEMMA ReadFileOnce == ASSUME TypeOK, KInv, OInv, NEW q \in Paths, ReadFile(q) PROVE OInv'
<1> SUFFICES ASSUME Calm' PROVE \A p \in Paths : NewInQueues(p)' /\ OneVersion(p)'
  BY ReadFileSteps DEF OInv, Calm
<1>1. Calm /\ \A p \in Paths : NewInQueues(p) /\ OneVersion(p)
  BY ReadFileSteps DEF OInv, Calm
<1>2. InBatch(batch, q) /\ added[q] = <<>>
  BY ReadFileSteps, <1>1 DEF OneVersion, InBatch
<1>3. ASSUME NEW p \in Paths
      PROVE  /\ Unseen0(p) => Unseen0(p)'
             /\ Unseen1(p) => Unseen1(p)'
             /\ Unseen2(p) => Unseen2(p)'
             /\ Unseen3(p) => Unseen3(p)'
             /\ Unseen4(p) => Unseen4(p)'
  <2>1. Unseen0(p) => p # q
    BY <1>2 DEF Unseen0
  <2> QED BY ReadFileSteps, <2>1 DEF Unseen4, Unseen3, Unseen2, Unseen1, Unseen0
<1>4. ASSUME NEW p \in Paths PROVE NewInQueues(p)'
  BY ReadFileSteps, <1>1, <1>3 DEF NewInQueues
<1>5. ASSUME NEW p \in Paths PROVE OneVersion(p)'
  <2>1. CASE p # q
    BY ReadFileSteps, <1>1, <2>1 DEF OneVersion, InBatch
  <2>2. CASE p = q
    <3>1. Len(added'[q]) <= 1
      <4>1. Append(<<>>, fs[q]) = <<fs[q]>> /\ Len(<<fs[q]>>) = 1 /\ Len(<<>>) = 0
        OBVIOUS
      <4> QED BY ReadFileSteps, <1>2, <4>1
    <3>2. ~Indexable(fs'[q]) => disk'.docs[q] = <<>> /\ added'[q] = <<>>
      BY ReadFileSteps, <1>1, <1>2 DEF OneVersion
    <3>3. q \in todo'.created => FALSE
      BY ReadFileSteps
    <3>4. q \in todo'.modified => FALSE
      BY ReadFileSteps, <1>1 DEF OneVersion
    <3> QED BY ReadFileSteps, <1>1, <1>2, <2>2, <3>1, <3>2, <3>3, <3>4 DEF OneVersion, InBatch
  <2> QED BY <2>1, <2>2
<1> QED BY <1>4, <1>5

LEMMA CommitOnce == ASSUME TypeOK, KInv, OInv, Commit PROVE OInv'
<1> SUFFICES ASSUME Calm'
             PROVE disk' = reader' /\ \A p \in Paths : NewInQueues(p)' /\ OneVersion(p)'
  BY CommitSteps DEF OInv, Calm
<1>1. Calm /\ disk = reader /\ \A p \in Paths : NewInQueues(p) /\ OneVersion(p)
  BY CommitSteps DEF OInv, Calm
<1>2. ASSUME NEW p \in Paths
      PROVE  /\ p \in Buried => p \in batch.modified
             /\ disk.docs[p] = <<>> => p \notin Buried
  BY <1>1 DEF Buried, KInv, NoDeletes, Calm
<1>3. ASSUME NEW p \in Paths
      PROVE  /\ disk.docs[p] = <<>> /\ added[p] = <<>> => disk'.docs[p] = <<>>
             /\ Len(disk'.docs[p]) <= 1 /\ added'[p] = <<>>
  <2>1. added'[p] = <<>>
    BY CommitSteps DEF NoneAdded
  <2>2. CASE disk' = disk
    BY <1>1, <2>1, <2>2 DEF OneVersion
  <2>3. CASE disk'.docs = WithDelta
    <3>1. disk.docs[p] = <<>> /\ added[p] = <<>> => disk'.docs[p] = <<>>
      BY DeltaOfPath, <2>3
    <3>2. CASE p \in Buried
      BY DeltaOfPath, <1>1, <2>1, <2>3, <3>2 DEF OneVersion
    <3>3. CASE p \notin Buried /\ added[p] = <<>>
      BY DeltaOfPath, <1>1, <2>1, <2>3, <3>3 DEF OneVersion
    <3>4. CASE p \notin Buried /\ added[p] # <<>>
      <4>1. disk.docs[p] = <<>>
        BY <1>1, <3>4 DEF OneVersion, InBatch, Buried
      <4> QED BY DeltaOfPath, <1>1, <2>1, <2>3, <4>1 DEF OneVersion
    <3> QED BY <2>1, <3>1, <3>2, <3>3, <3>4
  <2> QED BY CommitSteps, <2>2, <2>3
<1>4. ASSUME NEW p \in Paths
      PROVE  /\ Unseen0(p) => Unseen0(p)'
             /\ Unseen1(p) => Unseen1(p)'
             /\ Unseen2(p) => Unseen2(p)'
             /\ Unseen3(p) => Unseen3(p)'
             /\ Unseen4(p) => Unseen4(p)'
  BY CommitSteps, <1>3, BatchFields DEF Unseen4, Unseen3, Unseen2, Unseen1, Unseen0, InBatch
<1>5. ASSUME NEW p \in Paths PROVE NewInQueues(p)'
  BY CommitSteps, <1>1, <1>4 DEF NewInQueues
<1>6. ASSUME NEW p \in Paths PROVE OneVersion(p)'
  <2>1. Len(added'[p]) <= 1
    BY <1>3
  <2> QED BY CommitSteps, BatchFields, <1>1, <1>3, <2>1 DEF OneVersion, InBatch
<1>7. disk' = reader'
  BY CommitSteps, <1>1
<1> QED BY <1>5, <1>6, <1>7

LEMMA NextOInv == TypeOK /\ KInv /\ OInv /\ Lasting # {} /\ [Next]_vars => OInv'
<1> SUFFICES ASSUME TypeOK, KInv, OInv, Lasting # {}, [Next]_vars PROVE OInv'
  OBVIOUS
<1>1. ASSUME NEW p \in Paths, Create(p) \/ Write(p) \/ Remove(p) PROVE OInv'
  BY <1>1, EditSteps, EditOnce
<1>2. CASE StartWatcher
  <2>1. watch = "starting" /\ UNCHANGED <<past, pc>>
    BY <1>2 DEF StartWatcher, tree, work
  <2> QED BY <2>1 DEF OInv, Calm
<1>3. CASE StopWatcher
  <2>1. pc' = "build"
    BY <1>3 DEF StopWatcher
  <2> QED BY <2>1 DEF OInv, Calm
<1>4. CASE Rebuild \/ ForceIndex
  <2>1. past' # {}
    BY <1>4 DEF Rebuild, ForceIndex
  <2> QED BY <2>1 DEF OInv, Calm
<1>5. CASE Restart
  <2>1. past' # {} /\ pc' # "restart"
    BY <1>5 DEF Restart, Done, tree, OInv
  <2> QED BY <2>1 DEF OInv, Calm
<1>6. CASE UNCHANGED vars
  BY <1>6 DEF vars, OInv, Calm, NewInQueues, OneVersion, Unseen4, Unseen3, Unseen2, Unseen1, Unseen0
<1> QED BY <1>1, <1>2, <1>3, <1>4, <1>5, <1>6, TakeEventOnce, DebounceOnce, AccumulateOnce, FlushOnce,
           StartDeltaOnce, ReadFileOnce, CommitOnce
        DEF Next, Watcher, Processor

\* While nothing is deleted, rebuilt or indexed beside the daemon, what it
\* serves when all is processed is the index that a full scan would build.
THEOREM ServesFullScan == ASSUME Initial \ Removable # {} PROVE Spec => []Exact
<1> DEFINE I == TypeOK /\ KInv /\ OInv
<1>1. I => Exact
  <2> SUFFICES ASSUME I, Settled, past = {} PROVE reader.docs = Scanned(fs).docs
    BY DEF Exact
  <2>1. Calm /\ ~Mixed
    BY DEF Settled, Calm, Mixed
  <2>2. missed = {} /\ disk = reader /\ \A p \in Paths : OneVersion(p)
    BY <2>1 DEF OInv
  <2>3. /\ reader.docs \in [Paths -> Seq(Contents)] /\ fs \in [Paths -> Nat]
        /\ Scanned(fs).docs \in [Paths -> Seq(Contents)]
    BY ScannedIndex DEF TypeOK, Indexes
  <2>4. ASSUME NEW p \in Paths PROVE reader.docs[p] = Scanned(fs).docs[p]
    <3>1. CASE Indexable(fs[p])
      <4>1. PICK i \in DOMAIN reader.docs[p] : reader.docs[p][i] = fs[p]
        BY <2>1, <2>2, <3>1, SettledOnDisk DEF Holds
      <4>2. Len(reader.docs[p]) <= 1 /\ reader.docs[p] \in Seq(Contents)
        BY <2>2, <2>3 DEF OneVersion
      <4>3. reader.docs[p] = <<fs[p]>>
        BY <4>1, <4>2
      <4> QED BY <2>3, <3>1, <4>3, ScannedIndex
    <3>2. CASE ~Indexable(fs[p])
      BY <2>2, <2>3, <3>2, ScannedIndex DEF OneVersion
    <3> QED BY <3>1, <3>2
  <2> QED BY <2>3, <2>4
<1>2. Init => I
  BY InitTyped, InitKInv, InitOInv
<1>3. I /\ [Next]_vars => I'
  BY NextTyped, NextKept, NextOInv DEF Lasting
<1> QED BY <1>1, <1>2, <1>3, PTL DEF Spec
=============================================================================
