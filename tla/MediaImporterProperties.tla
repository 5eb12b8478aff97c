----------------------- MODULE MediaImporterProperties -----------------------
(***************************************************************************)
(* What the playback pipeline must keep true, whatever order the three     *)
(* threads run in and whichever calls the owner makes.                     *)
(***************************************************************************)
EXTENDS MediaImporter, SequencesExt

ThreadStates == {"none", "loop", "finished"}
Returns == {"idle", "startDecoder", "destroyed"}

\* Types of the state variables.  The queue never holds more than it has room for.
TypeOK ==
  /\ queue \in Seq(Frames) /\ Len(queue) <= QueueCapacity
  /\ heap \subseteq Frames /\ reads \in 0..MaxFrames
  /\ shouldExitDemuxer \in BOOLEAN /\ shouldExitDecoder \in BOOLEAN
  /\ demuxer \in ThreadStates \union {"check", "clear", "read", "enqueue"}
  /\ decoder \in ThreadStates \union {"dequeue", "decode", "publish", "replace"}
  /\ packet \in 0..MaxFrames /\ decodes \in 0..MaxFrames
  /\ lastVideoFrame \in 0..MaxFrames /\ pictures \subseteq Frames
  /\ needRefresh \in BOOLEAN /\ mutex \in {"free", "owner", "decoder"}
  /\ owner \in Returns \union {"new", "failed", "lock", "copy", "joinDecoder", "joinDemuxer",
                               "drain", "startDemuxer"}
  /\ after \in Returns /\ starts \in 0..MaxStarts
  /\ sessionStart \in 0..MaxFrames /\ shown \in 0..MaxFrames

(***************************************************************************)
(* The queue is single-consumer: only one thread may hold that role, and   *)
(* the roles may pass to another thread only across a join.                *)
(***************************************************************************)
Consumers == {t \in {"owner", "demuxer"} : Draining(t)}
               \union {t \in {"decoder"} : decoder \notin {"none", "finished"}}

\* At most one thread is in a position to call try_dequeue: the demuxer never
\* clears the queue while the decoder thread runs, and stop_working drains it
\* only after both joins.
SingleConsumer == \A s, t \in Consumers : s = t

(***************************************************************************)
(* Ownership of the compressed frames.                                     *)
(***************************************************************************)
Queued == ToSet(queue)
InDemuxer == IF demuxer = "enqueue" THEN {reads} ELSE {}
InDecoder == IF decoder = "decode" THEN {packet} ELSE {}
Held == Queued \union InDemuxer \union InDecoder
Lost == heap \ Held

\* Every frame a thread or the queue can still reach is allocated, and reachable
\* one way only: no frame is used after its delete, or deleted twice.
FrameOwnership ==
  /\ Held \subseteq heap
  /\ IsInjective(queue)
  /\ Queued \intersect InDemuxer = {}
  /\ Queued \intersect InDecoder = {}
  /\ InDemuxer \intersect InDecoder = {}

\* A frame becomes unreachable without being deleted only when try_enqueue
\* refuses it, and try_enqueue refuses only when the queue is full.
LossOnlyWhenFull ==
  [][Lost' \subseteq Lost \/ Len(queue) = QueueCapacity]_<<queue, heap, demuxer, decoder>>

\* No compressed frame is ever lost: what the comment "clear all package" and
\* the limit kDefaultCompressedFrameBufferSize promise of too many frames.
NothingLost == Lost = {}

\* The decoder is fed in the order the demuxer read.
FifoDecode == [][packet' # packet => packet' > packet]_packet

\* After stop_working and start_working the decoder sees no frame read before.
NoStaleSession == decoder = "decode" => packet > sessionStart

\* When stop_working has returned both threads are gone, and no frame is left
\* in the queue or in anybody's hands.
QuiescentAfterStop ==
  owner \in {"startDecoder", "destroyed"} => demuxer = "none" /\ decoder = "none" /\ Held = {}

(***************************************************************************)
(* The last decoded picture.                                               *)
(***************************************************************************)
\* The picture read_frame copies is allocated for as long as it copies it;
\* read_frame finds a picture whenever _need_refresh is set; and no picture
\* but the published one and the one about to be published stays allocated.
PictureSafe ==
  /\ owner = "copy" => lastVideoFrame \in pictures
  /\ mutex = "free" /\ needRefresh => lastVideoFrame \in pictures
  /\ pictures \subseteq {lastVideoFrame, decodes}

\* The pictures the owner gets never go back in time.
ShownNeverGoesBack == [][shown' >= shown]_shown

(***************************************************************************)
(* The inductive invariant behind the safety properties above.             *)
(***************************************************************************)
\* Which threads may exist at each point of stop_working and start_working, and
\* where the queue is known to be empty.
ThreadInv ==
  /\ demuxer # "clear"
  /\ owner \in {"new", "failed", "drain", "startDecoder", "destroyed"}
       => demuxer = "none" /\ decoder = "none"
  /\ owner = "joinDemuxer" => decoder = "none"
  /\ owner = "startDemuxer" => demuxer = "none"
  /\ owner \in {"new", "failed", "startDecoder", "startDemuxer", "destroyed"} => queue = <<>>

\* Along the pipeline the frames are allocated and newer the closer they are to
\* the demuxer; all of them were read in this session.
FrameInv ==
  /\ \A i, j \in 1..Len(queue) : i < j => queue[i] < queue[j]
  /\ \A i \in 1..Len(queue) : /\ queue[i] \in heap /\ queue[i] <= reads
                              /\ packet < queue[i] /\ sessionStart < queue[i]
                              /\ demuxer = "enqueue" => queue[i] < reads
  /\ demuxer = "enqueue" => reads \in heap /\ packet < reads /\ sessionStart < reads
  /\ decoder = "decode" => packet \in heap /\ sessionStart < packet /\ decodes < packet
  /\ decodes <= packet /\ packet <= reads /\ sessionStart <= reads

\* Who holds the mutex, and which pictures are allocated at each point of the
\* decoder's replacement of the last picture.
PictureInv ==
  /\ (mutex = "decoder") <=> (decoder = "replace")
  /\ (mutex = "owner") <=> (owner = "copy")
  /\ owner = "copy" => lastVideoFrame # 0
  /\ lastVideoFrame # 0 => lastVideoFrame \in pictures
  /\ decoder = "replace" => lastVideoFrame = 0
  /\ decoder \in {"publish", "replace"} => decodes \in pictures /\ shown < decodes
  /\ decoder = "publish" => lastVideoFrame < decodes
  /\ pictures \subseteq
       ({lastVideoFrame} \union IF decoder \in {"publish", "replace"} THEN {decodes} ELSE {})
  /\ needRefresh /\ decoder # "replace" => lastVideoFrame # 0
  /\ lastVideoFrame <= decodes /\ shown <= decodes
  /\ lastVideoFrame # 0 => shown <= lastVideoFrame

ImporterInv == TypeOK /\ ThreadInv /\ FrameInv /\ PictureInv

(***************************************************************************)
(* Progress.                                                               *)
(***************************************************************************)
\* Every call of stop_working returns, whatever the threads were doing.
StopReturns == owner = "joinDecoder" ~> owner \in Returns

\* A frame the queue accepted is deleted in the end, decoded or drained.
QueuedFramesAreFreed == \A f \in Frames : f \in Queued ~> f \notin heap
==============================================================================
