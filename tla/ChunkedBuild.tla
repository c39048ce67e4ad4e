---------------------------- MODULE ChunkedBuild ----------------------------
(***************************************************************************)
(* The pipeline of a full build: the caller's thread turns the files into  *)
(* chunks and hands each to a background thread through a bounded channel; *)
(* that thread writes a segment per chunk, with a thread per file, and     *)
(* tells of each segment through a second channel.  The caller then closes *)
(* the first channel, follows the second, joins the thread, and writes     *)
(* docs.bin, paths.bin and meta.json unless something failed.              *)
(*                                                                         *)
(* Segment s is that of chunk s (segment ids are 16 bits wide: there are   *)
(* less than 65,536 chunks).  A job is the number of its segment; which    *)
(* postings it holds is GramIndex's and SegmentFiles'.  Files that are     *)
(* rejected or cannot be read only make a chunk smaller.  A kill of the    *)
(* build is IndexStore's.                                                  *)
(***************************************************************************)
EXTENDS Naturals, Sequences, FiniteSets

CONSTANTS
    Chunks,    \* number of chunks
    PerChunk,  \* most files per chunk
    Capacity,  \* jobs the channel holds (2)
    Parts,     \* files of a segment, each written by a thread
    Unflushed  \* those whose BufWriter is dropped without a flush

ASSUME BuildAssumption ==
    /\ Chunks \in Nat
    /\ PerChunk \in Nat
    /\ Capacity \in Nat \ {0}
    /\ Unflushed \subseteq Parts
    /\ IsFiniteSet(Parts)

VARIABLES
    pc,          \* caller: "process", "send", "poll", "drain", "docs", "paths",
                 \* "meta", "done"
    chunk,       \* caller: the chunk at hand
    docs,        \* all_documents: document -> its segment
    segmentIds,  \* segment_ids
    channel,     \* jobs sent and not received
    open,        \* the sender of the channel exists
    writer,      \* background thread: "recv", "counting", "writing", "ended"
                 \* or "panicked"
    job,         \* its segment
    left,        \* files of that segment whose thread is not done
    failed,      \* one of them failed
    errors,      \* number of errors collected
    completions, \* channel of finished segments
    completed,   \* caller: segments it was told of
    counted,     \* segments that trigram_frequencies has counted
    disk,        \* segment -> "absent", "partial" or "whole"
    lost,        \* history: segments with a file cut short unnoticed
    meta,        \* meta.json: "absent", "partial" or "whole"
    result       \* "running", "ok" or "failed"

callerVars == <<pc, chunk, docs, segmentIds, open, completed, meta, result>>
writerVars == <<writer, job, left, failed, errors, counted, disk, lost>>
vars == <<callerVars, writerVars, channel, completions>>

Segments == 1..Chunks

---------------------------------------------------------------------------
(* The caller *)

\* process a chunk of files and assign documents to them (write_chunk)
Process(n) ==
    /\ pc = "process"
    /\ chunk <= Chunks
    /\ IF n = 0
       THEN /\ chunk' = chunk + 1
            /\ UNCHANGED <<pc, docs, segmentIds>>
       ELSE /\ docs' = docs \o [i \in 1..n |-> chunk]
            /\ segmentIds' = Append(segmentIds, chunk)
            /\ pc' = "send"
            /\ UNCHANGED chunk
    /\ UNCHANGED <<open, completed, meta, result, writerVars, channel, completions>>

\* sender.send: waits while the channel is full; that the receiver is gone is
\* not looked at, the join will tell
Send ==
    /\ pc = "send"
    /\ \/ /\ writer = "panicked"
          /\ UNCHANGED channel
       \/ /\ writer # "panicked"
          /\ Len(channel) < Capacity
          /\ channel' = Append(channel, chunk)
    /\ chunk' = chunk + 1
    /\ pc' = "process"
    /\ UNCHANGED <<docs, segmentIds, open, completed, meta, result, writerVars, completions>>

\* Seeded fault: the sender lives on
CloseLater ==
    /\ pc = "process"
    /\ chunk > Chunks
    /\ pc' = "poll"
    /\ UNCHANGED <<open, chunk, docs, segmentIds, completed, meta, result, writerVars,
                   channel, completions>>

\* finalize_with_progress drops the sender
Close ==
    /\ pc = "process"
    /\ chunk > Chunks
    /\ open' = FALSE
    /\ pc' = "poll"
    /\ UNCHANGED <<chunk, docs, segmentIds, completed, meta, result, writerVars,
                   channel, completions>>

\* Seeded fault: the thread is taken to be done when it has taken every job
AllTaken == channel = << >>

\* handle.is_finished
Finished == writer \in {"ended", "panicked"}

Tell ==
    /\ completions # << >>
    /\ completed' = completed + 1
    /\ completions' = Tail(completions)

Poll ==
    /\ pc = "poll"
    /\ \/ Finished /\ pc' = "drain" /\ UNCHANGED <<completed, completions>>
       \/ ~Finished /\ Tell /\ UNCHANGED pc
    /\ UNCHANGED <<chunk, docs, segmentIds, open, meta, result, writerVars, channel>>

Drain ==
    /\ pc = "drain"
    /\ Tell
    /\ UNCHANGED <<pc, chunk, docs, segmentIds, open, meta, result, writerVars, channel>>

\* Seeded fault: only a panic is looked at
Unpanicked == writer # "panicked"

NoErrors == writer # "panicked" /\ errors = 0

\* Seeded fault: what is left in the channel of completions is not looked at
Untold == TRUE

AllTold == completions = << >>

Join ==
    /\ pc = "drain"
    /\ AllTold
    /\ Finished
    /\ IF NoErrors THEN pc' = "docs" /\ UNCHANGED result
                   ELSE pc' = "done" /\ result' = "failed"
    /\ UNCHANGED <<chunk, docs, segmentIds, open, completed, meta, writerVars,
                   channel, completions>>

\* write_documents, write_paths
WriteTable(next) ==
    /\ \/ pc' = next /\ UNCHANGED result
       \/ pc' = "done" /\ result' = "failed"
    /\ UNCHANGED <<chunk, docs, segmentIds, open, completed, meta, writerVars,
                   channel, completions>>

WriteDocuments == pc = "docs" /\ WriteTable("paths")
WritePaths     == pc = "paths" /\ WriteTable("meta")

\* write_meta: the file is made, then written in place
WriteMeta ==
    /\ pc = "meta"
    /\ \/ meta' = "whole" /\ result' = "ok"
       \/ meta' \in {"absent", "partial"} /\ result' = "failed"
    /\ pc' = "done"
    /\ UNCHANGED <<chunk, docs, segmentIds, open, completed, writerVars, channel, completions>>

Caller ==
    \/ \E n \in 0..PerChunk : Process(n)
    \/ Send \/ Close \/ Poll \/ Drain \/ Join
    \/ WriteDocuments \/ WritePaths \/ WriteMeta

---------------------------------------------------------------------------
(* The background thread *)

\* A job begins with its directory
Receive ==
    /\ writer = "recv"
    /\ channel # << >>
    /\ channel' = Tail(channel)
    /\ \/ /\ job' = Head(channel)
          /\ writer' = "counting"
          /\ disk' = [disk EXCEPT ![Head(channel)] = "partial"]
          /\ UNCHANGED errors
       \/ /\ errors' = errors + 1
          /\ UNCHANGED <<writer, job, disk>>
    /\ UNCHANGED <<left, failed, counted, lost, callerVars, completions>>

\* The trigrams of its files are counted before the threads start
Count ==
    /\ writer = "counting"
    /\ counted' = counted \cup {job}
    /\ left' = Parts
    /\ failed' = FALSE
    /\ writer' = "writing"
    /\ UNCHANGED <<job, errors, disk, lost, callerVars, channel, completions>>

\* One of the threads is done: written, failed, or, when the last bytes are
\* written by the drop of a BufWriter, cut short without an error
WritePart(part) ==
    /\ writer = "writing"
    /\ part \in left
    /\ left' = left \ {part}
    /\ \/ UNCHANGED <<failed, lost>>
       \/ failed' = TRUE /\ UNCHANGED lost
       \/ part \in Unflushed /\ lost' = lost \cup {job} /\ UNCHANGED failed
    /\ UNCHANGED <<writer, job, errors, counted, disk, callerVars, channel, completions>>

SegmentDone ==
    /\ writer = "writing"
    /\ left = {}
    /\ IF failed
       THEN /\ errors' = errors + 1
            /\ UNCHANGED <<completions, disk>>
       ELSE /\ completions' = Append(completions, job)
            /\ disk' = [disk EXCEPT ![job] = "whole"]
            /\ UNCHANGED errors
    /\ writer' = "recv"
    /\ UNCHANGED <<job, left, failed, counted, lost, callerVars, channel>>

\* The panic of a part's thread goes on in this one (join().unwrap())
Panic ==
    /\ writer = "writing"
    /\ left = {}
    /\ failed
    /\ writer' = "panicked"
    /\ UNCHANGED <<job, left, failed, errors, counted, disk, lost, callerVars,
                   channel, completions>>

\* rx.recv fails: no sender is left
EndThread ==
    /\ writer = "recv"
    /\ channel = << >>
    /\ ~open
    /\ writer' = "ended"
    /\ UNCHANGED <<job, left, failed, errors, counted, disk, lost, callerVars,
                   channel, completions>>

Writer ==
    \/ Receive \/ Count
    \/ \E part \in Parts : WritePart(part)
    \/ SegmentDone \/ Panic \/ EndThread

---------------------------------------------------------------------------
(* Specification *)

Init ==
    /\ pc = "process" /\ chunk = 1
    /\ docs = << >> /\ segmentIds = << >>
    /\ channel = << >> /\ open = TRUE
    /\ writer = "recv" /\ job = 0 /\ left = {} /\ failed = FALSE
    /\ errors = 0
    /\ completions = << >> /\ completed = 0
    /\ counted = {}
    /\ disk = [s \in Segments |-> "absent"]
    /\ lost = {}
    /\ meta = "absent"
    /\ result = "running"

Next == Caller \/ Writer

Spec == Init /\ [][Next]_vars

\* The threads of the program run; a write ends, if with an error
Fairness == WF_vars(Caller) /\ WF_vars(Writer)

FairSpec == Spec /\ Fairness

---------------------------------------------------------------------------
(* Properties *)

TypeOK ==
    /\ pc \in {"process", "send", "poll", "drain", "docs", "paths", "meta", "done"}
    /\ chunk \in 1..(Chunks + 1)
    /\ pc = "send" => chunk \in Segments
    /\ docs \in Seq(Segments)
    /\ segmentIds \in Seq(Segments)
    /\ channel \in Seq(Segments) /\ Len(channel) <= Capacity
    /\ open \in BOOLEAN
    /\ writer \in {"recv", "counting", "writing", "ended", "panicked"}
    /\ job \in Segments \cup {0} /\ (writer \in {"counting", "writing"} => job \in Segments)
    /\ left \subseteq Parts
    /\ failed \in BOOLEAN
    /\ errors \in Nat
    /\ completions \in Seq(Segments)
    /\ completed \in Nat /\ completed + Len(completions) <= Len(segmentIds)
    /\ counted \subseteq Segments
    /\ disk \in [Segments -> {"absent", "partial", "whole"}]
    /\ lost \subseteq Segments
    /\ meta \in {"absent", "partial", "whole"}
    /\ result \in {"running", "ok", "failed"}

\* Every segment was told of when the build succeeds, in whatever order the
\* thread's end and its last notifications are noticed (writer.rs:703-717).
ProgressIsTold == result = "ok" => completed = Len(segmentIds)

\* The stop-grams of meta.json are chosen by frequencies in which every document
\* is counted, although another thread counts them (writer.rs:327-346, 669-680).
StopGramsCountAll == meta = "whole" => \A d \in DOMAIN docs : docs[d] \in counted

\* The documents that an opened index finds in its segments; a file that was cut
\* short unnoticed is the exception the README tells of
Held == {d \in DOMAIN docs : disk[docs[d]] = "whole"}

Contract == INSTANCE BuildContract WITH
    given     <- Len(docs),
    published <- (meta = "whole"),
    visible   <- IF meta = "whole" THEN Held ELSE {},
    result    <- result

\* A build that succeeds makes all documents visible at once, one that fails
\* none: whichever thread fails when, and whatever jobs still wait or can no
\* longer be sent (writer.rs:81-129, 167-224, 690-741).
MeetsContract == Contract!Spec

\* The build ends: the bounded channel, its full and its closed end, the poll
\* loop and the join never wait for each other for ever (writer.rs:94, 703).
BuildEnds == <>(result # "running")
=============================================================================
