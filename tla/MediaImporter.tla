---------------------------- MODULE MediaImporter ----------------------------
(***************************************************************************)
(* The playback pipeline of player/media_importer.cpp: the thread that     *)
(* owns the importer (the SDL main thread), the demuxer thread             *)
(* (read_compressed_frame) and the decoder thread                          *)
(* (decode_compressed_frame).  They share the compressed frame queue, the  *)
(* two exit flags and the last decoded picture behind its mutex.           *)
(*                                                                         *)
(* A compressed frame is the number of the read that produced it, a        *)
(* picture (RawVideoFrame) the number of the decode that produced it; 0 is *)
(* nullptr.  heap and pictures hold what is allocated and not yet deleted. *)
(* Calls on the queue are single steps: module ReaderWriterQueue shows     *)
(* they may be, as long as one thread at a time is the consumer.           *)
(***************************************************************************)
EXTENDS Naturals, Sequences

CONSTANTS QueueCapacity,  \* what the default ReaderWriterQueue holds; 15 in the code
          MaxQueueSize,   \* _max_compressed_frame_queue_size; 120 in the code
          MaxFrames,      \* bound: frames the file holds before its end
          MaxStarts       \* bound: calls of start_working

ASSUME ImporterAssumption ==
  /\ QueueCapacity \in Nat \ {0} /\ MaxQueueSize \in Nat
  /\ QueueCapacity <= MaxQueueSize
  /\ MaxFrames \in Nat /\ MaxStarts \in Nat

VARIABLES
  queue,              \* _compressed_frame_queue
  heap,               \* compressed frames allocated and not deleted
  reads,              \* frames the demuxer has returned so far
  shouldExitDemuxer, shouldExitDecoder,
  demuxer, decoder,   \* where each thread is; "none" while its pointer is null
  packet,             \* compressed_frame of the decoder thread, last dequeued
  decodes,            \* pictures decoded so far; the newest is the thread's video_frame
  lastVideoFrame, pictures, needRefresh,
  mutex,              \* holder of _last_video_frame_mutex, or "free"
  owner,              \* where the owning thread is; "idle" between calls
  after,              \* what the owner does once stop_working has returned
  starts,             \* calls of start_working so far
  sessionStart,       \* value of reads when the threads were last created
  shown               \* picture the last read_frame returned a copy of

queueVars == <<queue, heap>>
demuxerVars == <<reads, demuxer>>
decoderVars == <<packet, decodes, decoder>>
pictureVars == <<lastVideoFrame, pictures, needRefresh, mutex>>
flagVars == <<shouldExitDemuxer, shouldExitDecoder>>
ownerVars == <<owner, after, starts, sessionStart, shown>>
vars == <<queueVars, demuxerVars, decoderVars, pictureVars, flagVars, ownerVars>>

Frames == 1..MaxFrames

Init ==
  /\ queue = <<>> /\ heap = {} /\ reads = 0
  /\ shouldExitDemuxer = FALSE /\ shouldExitDecoder = FALSE
  /\ demuxer = "none" /\ decoder = "none"
  /\ packet = 0 /\ decodes = 0
  /\ lastVideoFrame = 0 /\ pictures = {} /\ needRefresh = FALSE /\ mutex = "free"
  /\ owner = "new" /\ after = "idle"
  /\ starts = 0 /\ sessionStart = 0 /\ shown = 0

(***************************************************************************)
(* The demuxer thread.                                                     *)
(***************************************************************************)
\* Variants of the definitions below, each a plausible slip in the code.
TooManyAtCapacity(q) == Len(q) >= QueueCapacity
EnqueueNoSpareSlot(q, f) == IF Len(q) + 1 < QueueCapacity THEN Append(q, f) ELSE q
EnqueueAtFront(q, f) == IF Len(q) < QueueCapacity THEN <<f>> \o q ELSE q
Peeked(q) == q
ExitOnceDrained(flag) == flag /\ queue = <<>>
DrainedOnce(q) == TRUE
NoMutex == TRUE

TooMany(q) == Len(q) > MaxQueueSize

\* What try_enqueue and try_dequeue leave in the queue.
TryEnqueue(q, f) == IF Len(q) < QueueCapacity THEN Append(q, f) ELSE q
Dequeued(q) == Tail(q)

\* The loop test of both threads.
ExitRequested(flag) == flag

DemuxerTest ==
  /\ demuxer = "loop"
  /\ demuxer' = IF ExitRequested(shouldExitDemuxer) THEN "finished" ELSE "check"
  /\ UNCHANGED <<queueVars, reads, decoderVars, pictureVars, flagVars, ownerVars>>

\* size_approx() against the limit.
DemuxerCheck ==
  /\ demuxer = "check"
  /\ demuxer' = IF TooMany(queue) THEN "clear" ELSE "read"
  /\ UNCHANGED <<queueVars, reads, decoderVars, pictureVars, flagVars, ownerVars>>

\* _demuxer->read_frame() blocks in the source, then returns a frame or nullptr.
DemuxerRead ==
  /\ demuxer = "read"
  /\ \/ /\ reads < MaxFrames
        /\ reads' = reads + 1
        /\ heap' = heap \union {reads + 1}
        /\ demuxer' = "enqueue"
     \/ demuxer' = "loop" /\ UNCHANGED <<reads, heap>>
  /\ UNCHANGED <<queue, decoderVars, pictureVars, flagVars, ownerVars>>

\* The result of try_enqueue is ignored: a refused frame stays allocated.
DemuxerEnqueue ==
  /\ demuxer = "enqueue"
  /\ queue' = TryEnqueue(queue, reads)
  /\ demuxer' = "loop"
  /\ UNCHANGED <<heap, reads, decoderVars, pictureVars, flagVars, ownerVars>>

\* The loop "while try_dequeue: delete", in stop_working and in the demuxer
\* thread's handling of too many frames.
Draining(t) == \/ t = "owner" /\ owner = "drain"
               \/ t = "demuxer" /\ demuxer = "clear"

Drained(q) == q = <<>>

Drain(t) ==
  /\ Draining(t) /\ queue # <<>>
  /\ heap' = heap \ {Head(queue)}
  /\ queue' = Dequeued(queue)
  /\ UNCHANGED <<demuxerVars, decoderVars, pictureVars, flagVars, ownerVars>>

DrainDone(t) ==
  /\ Draining(t) /\ Drained(queue)
  /\ demuxer' = IF t = "demuxer" THEN "loop" ELSE demuxer
  /\ owner' = IF t = "owner" THEN after ELSE owner
  /\ UNCHANGED <<queueVars, reads, decoderVars, pictureVars, flagVars,
                 after, starts, sessionStart, shown>>

(***************************************************************************)
(* The decoder thread.  While the queue is empty it goes round its loop.   *)
(***************************************************************************)
DecoderTest ==
  /\ decoder = "loop"
  /\ decoder' = IF ExitRequested(shouldExitDecoder) THEN "finished" ELSE "dequeue"
  /\ UNCHANGED <<queueVars, demuxerVars, packet, decodes, pictureVars, flagVars, ownerVars>>

DecoderFindsNothing ==
  /\ decoder = "dequeue" /\ queue = <<>>
  /\ decoder' = "loop"
  /\ UNCHANGED <<queueVars, demuxerVars, packet, decodes, pictureVars, flagVars, ownerVars>>

DecoderDequeue ==
  /\ decoder = "dequeue" /\ queue # <<>>
  /\ packet' = Head(queue)
  /\ queue' = Dequeued(queue)
  /\ decoder' = "decode"
  /\ UNCHANGED <<heap, demuxerVars, decodes, pictureVars, flagVars, ownerVars>>

\* decode_video_frame(packet) returns a picture or nullptr; packet is deleted.
DecoderDecode ==
  /\ decoder = "decode"
  /\ heap' = heap \ {packet}
  /\ \/ /\ decodes' = decodes + 1
        /\ pictures' = pictures \union {decodes + 1}
        /\ decoder' = "publish"
     \/ decoder' = "loop" /\ UNCHANGED <<decodes, pictures>>
  /\ UNCHANGED <<queue, demuxerVars, packet, lastVideoFrame, needRefresh, mutex,
                 flagVars, ownerVars>>

MutexFree == mutex = "free"

\* Take the mutex and delete the picture published before.
PublishLock ==
  /\ decoder = "publish" /\ MutexFree
  /\ mutex' = "decoder"
  /\ pictures' = pictures \ {lastVideoFrame}
  /\ lastVideoFrame' = 0
  /\ decoder' = "replace"
  /\ UNCHANGED <<queueVars, demuxerVars, packet, decodes, needRefresh, flagVars, ownerVars>>

PublishPicture ==
  /\ decoder = "replace"
  /\ lastVideoFrame' = decodes
  /\ needRefresh' = TRUE
  /\ mutex' = "free"
  /\ decoder' = "loop"
  /\ UNCHANGED <<queueVars, demuxerVars, packet, decodes, pictures, flagVars, ownerVars>>

(***************************************************************************)
(* The owning thread: open, read_frame, start_working, stop_working and    *)
(* the destructor, one call at a time.                                     *)
(***************************************************************************)
Open ==
  /\ owner = "new"
  /\ owner' \in {"idle", "failed"}
  /\ UNCHANGED <<queueVars, demuxerVars, decoderVars, pictureVars, flagVars,
                 after, starts, sessionStart, shown>>

\* read_frame with _need_refresh still false returns nullptr and changes nothing.
ReadFrame ==
  /\ owner = "idle" /\ needRefresh
  /\ owner' = "lock"
  /\ UNCHANGED <<queueVars, demuxerVars, decoderVars, pictureVars, flagVars,
                 after, starts, sessionStart, shown>>

LockPicture ==
  /\ owner = "lock" /\ MutexFree
  /\ mutex' = IF lastVideoFrame = 0 THEN "free" ELSE "owner"
  /\ owner' = IF lastVideoFrame = 0 THEN "idle" ELSE "copy"
  /\ UNCHANGED <<queueVars, demuxerVars, decoderVars, lastVideoFrame, pictures, needRefresh,
                 flagVars, after, starts, sessionStart, shown>>

\* The copy is made from *_last_video_frame and the mutex released.
CopyPicture ==
  /\ owner = "copy"
  /\ shown' = lastVideoFrame
  /\ mutex' = "free"
  /\ owner' = "idle"
  /\ UNCHANGED <<queueVars, demuxerVars, decoderVars, lastVideoFrame, pictures, needRefresh,
                 flagVars, after, starts, sessionStart>>

\* stop_working called on its own, first thing in start_working, or by the
\* destructor (the only call an importer that failed to open still gets).
StopWorking(next) ==
  /\ \/ owner = "idle"
     \/ owner = "failed" /\ next = "destroyed"
  /\ next = "startDecoder" => starts < MaxStarts
  /\ starts' = IF next = "startDecoder" THEN starts + 1 ELSE starts
  /\ shouldExitDecoder' = TRUE
  /\ owner' = "joinDecoder"
  /\ after' = next
  /\ UNCHANGED <<queueVars, demuxerVars, decoderVars, pictureVars, shouldExitDemuxer,
                 sessionStart, shown>>

\* join() returns once the thread function has returned; a null thread is skipped.
Joined(thread) == thread \in {"none", "finished"}

JoinDecoder ==
  /\ owner = "joinDecoder" /\ Joined(decoder)
  /\ decoder' = "none"
  /\ shouldExitDemuxer' = TRUE
  /\ owner' = "joinDemuxer"
  /\ UNCHANGED <<queueVars, demuxerVars, packet, decodes, pictureVars, shouldExitDecoder,
                 after, starts, sessionStart, shown>>

JoinDemuxer ==
  /\ owner = "joinDemuxer" /\ Joined(demuxer)
  /\ demuxer' = "none"
  /\ owner' = "drain"
  /\ UNCHANGED <<queueVars, reads, decoderVars, pictureVars, flagVars,
                 after, starts, sessionStart, shown>>

\* Variant: the flag of the stop before is kept.
StartDecoderFlagKept ==
  /\ owner = "startDecoder"
  /\ decoder' = "loop"
  /\ sessionStart' = reads
  /\ owner' = "startDemuxer"
  /\ UNCHANGED <<queueVars, demuxerVars, packet, decodes, pictureVars, flagVars, after, starts, shown>>

StartDecoder ==
  /\ owner = "startDecoder"
  /\ shouldExitDecoder' = FALSE
  /\ decoder' = "loop"
  /\ sessionStart' = reads
  /\ owner' = "startDemuxer"
  /\ UNCHANGED <<queueVars, demuxerVars, packet, decodes, pictureVars, shouldExitDemuxer,
                 after, starts, shown>>

StartDemuxer ==
  /\ owner = "startDemuxer"
  /\ shouldExitDemuxer' = FALSE
  /\ demuxer' = "loop"
  /\ owner' = "idle"
  /\ UNCHANGED <<queueVars, reads, decoderVars, pictureVars, shouldExitDecoder,
                 after, starts, sessionStart, shown>>

Destroyed == owner = "destroyed" /\ UNCHANGED vars

(***************************************************************************)
(* Scheduling.  Each thread that can run keeps running, the source always  *)
(* answers a read, and read_frame does not keep the decoder from the mutex *)
(* for ever.  Which call the owner makes next, and whether it makes one,   *)
(* is left open.                                                           *)
(***************************************************************************)
DemuxerNext == DemuxerTest \/ DemuxerCheck \/ DemuxerRead \/ DemuxerEnqueue
                 \/ Drain("demuxer") \/ DrainDone("demuxer")
DecoderNext == DecoderTest \/ DecoderFindsNothing \/ DecoderDequeue \/ DecoderDecode
                 \/ PublishLock \/ PublishPicture
OwnerCalls == Open \/ ReadFrame \/ \E n \in {"idle", "startDecoder", "destroyed"} : StopWorking(n)
OwnerInCall == LockPicture \/ CopyPicture \/ JoinDecoder \/ JoinDemuxer
                 \/ Drain("owner") \/ DrainDone("owner") \/ StartDecoder \/ StartDemuxer

Next == DemuxerNext \/ DecoderNext \/ OwnerCalls \/ OwnerInCall \/ Destroyed

Spec == Init /\ [][Next]_vars

Fairness == /\ WF_vars(DemuxerNext) /\ WF_vars(DecoderNext) /\ WF_vars(OwnerInCall)
            /\ SF_vars(PublishLock)

FairSpec == Spec /\ Fairness
==============================================================================
