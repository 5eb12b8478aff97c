------------------------- MODULE MediaImporterProofs -------------------------
(***************************************************************************)
(* Proofs of the safety properties of the playback pipeline, for every     *)
(* queue capacity not above the size limit, every number of frames and     *)
(* every number of restarts.  All of them follow from the inductive        *)
(* invariant ImporterInv of MediaImporterProperties.                              *)
(***************************************************************************)
EXTENDS MediaImporterProperties, SequenceTheorems, TLAPS

(***************************************************************************)
(* What the queue's operators do to a sequence of frames.                  *)
(***************************************************************************)
\* Dequeuing hands out the first frame and moves the others one place forward.
LEMMA DequeuedFacts ==
  ASSUME NEW S, NEW q \in Seq(S), q # <<>>
  PROVE  /\ Head(q) = q[1] /\ Head(q) \in S
         /\ Dequeued(q) \in Seq(S)
         /\ Len(q) \in Nat \ {0}
         /\ Len(Dequeued(q)) = Len(q) - 1
         /\ \A i \in 1..Len(Dequeued(q)) : i + 1 \in 1..Len(q) /\ Dequeued(q)[i] = q[i + 1]
<1>1. /\ Len(q) \in Nat /\ Len(q) # 0 /\ q[1] \in S
  BY EmptySeq, LenProperties, ElementOfSeq
<1>2. /\ Tail(q) \in Seq(S) /\ Head(q) \in S
      /\ Len(Tail(q)) = Len(q) - 1
      /\ \A i \in 1..Len(Tail(q)) : Tail(q)[i] = q[i + 1]
  BY HeadTailProperties
<1>3. Head(q) = q[1]
  OBVIOUS
<1> QED BY <1>1, <1>2, <1>3 DEF Dequeued

\* Enqueuing adds the frame at the end while there is room, and else nothing.
LEMMA TryEnqueueFacts ==
  ASSUME NEW S, NEW q \in Seq(S), NEW f \in S, QueueCapacity \in Nat, Len(q) <= QueueCapacity
  PROVE  /\ TryEnqueue(q, f) \in Seq(S)
         /\ Len(TryEnqueue(q, f)) <= QueueCapacity
         /\ \A i \in 1..Len(TryEnqueue(q, f)) :
              \/ i \in 1..Len(q) /\ TryEnqueue(q, f)[i] = q[i]
              \/ i = Len(q) + 1 /\ TryEnqueue(q, f)[i] = f
<1>1. Len(q) \in Nat
  BY LenProperties
<1>2. /\ Append(q, f) \in Seq(S) /\ Len(Append(q, f)) = Len(q) + 1
      /\ \A i \in 1..Len(q) : Append(q, f)[i] = q[i]
      /\ Append(q, f)[Len(q) + 1] = f
  BY AppendProperties
<1>3. CASE Len(q) < QueueCapacity
  BY <1>1, <1>2, <1>3 DEF TryEnqueue
<1>4. CASE ~(Len(q) < QueueCapacity)
  BY <1>1, <1>4 DEF TryEnqueue
<1> QED BY <1>3, <1>4

(***************************************************************************)
(* The inductive invariant.                                                *)
(***************************************************************************)
\* The importer as constructed satisfies the invariant.
LEMMA InitInv == Init => ImporterInv
<1> SUFFICES ASSUME Init PROVE ImporterInv
  OBVIOUS
<1> USE ImporterAssumption DEF Init
<1>1. queue = <<>> /\ queue \in Seq(Frames) /\ Len(queue) = 0
  BY EmptySeq
<1>2. TypeOK
  <2>1. queue \in Seq(Frames) /\ Len(queue) <= QueueCapacity
    BY <1>1
  <2>2. heap \subseteq Frames /\ pictures \subseteq Frames
    OBVIOUS
  <2>3. {reads, packet, decodes, lastVideoFrame, sessionStart, shown} \subseteq 0..MaxFrames
    OBVIOUS
  <2>4. starts \in 0..MaxStarts
    OBVIOUS
  <2>5. /\ demuxer \in ThreadStates /\ decoder \in ThreadStates /\ after \in Returns
        /\ owner = "new" /\ mutex = "free"
        /\ {shouldExitDemuxer, shouldExitDecoder, needRefresh} \subseteq BOOLEAN
    BY DEF ThreadStates, Returns
  <2> HIDE DEF Init
  <2> QED BY <2>1, <2>2, <2>3, <2>4, <2>5 DEF TypeOK
<1>3. ThreadInv
  BY DEF ThreadInv
<1>4. FrameInv
  BY <1>1 DEF FrameInv
<1>5. PictureInv
  BY DEF PictureInv
<1> QED BY <1>2, <1>3, <1>4, <1>5 DEF ImporterInv

\* The demuxer never reaches the branch that clears the queue, and the owner
\* gets past a join only when the thread has ended.
LEMMA ThreadStep == ASSUME ImporterInv, Next PROVE ThreadInv'
<1> USE ImporterAssumption
    DEF ImporterInv, TypeOK, ThreadInv, queueVars, demuxerVars, decoderVars, pictureVars, flagVars,
        ownerVars
<1>1. CASE DemuxerTest \/ DemuxerCheck
  BY <1>1 DEF DemuxerTest, DemuxerCheck, TooMany
<1>2. CASE DemuxerRead
  BY <1>2 DEF DemuxerRead
<1>3. CASE DemuxerEnqueue
  BY <1>3 DEF DemuxerEnqueue
<1>4. ASSUME NEW t, Drain(t) PROVE ThreadInv'
  BY <1>4 DEF Drain, Draining
<1>5. ASSUME NEW t, DrainDone(t) PROVE ThreadInv'
  BY <1>5 DEF DrainDone, Draining, Drained, Returns
<1>6. CASE DecoderTest \/ DecoderFindsNothing
  BY <1>6 DEF DecoderTest, DecoderFindsNothing
<1>7. CASE DecoderDequeue
  BY <1>7 DEF DecoderDequeue
<1>8. CASE DecoderDecode
  BY <1>8 DEF DecoderDecode
<1>9. CASE PublishLock
  BY <1>9 DEF PublishLock
<1>10. CASE PublishPicture
  BY <1>10 DEF PublishPicture
<1>11. CASE OwnerCalls
  BY <1>11 DEF OwnerCalls, Open, ReadFrame, StopWorking
<1>12. CASE LockPicture \/ CopyPicture
  BY <1>12 DEF LockPicture, CopyPicture
<1>13. CASE JoinDecoder
  BY <1>13 DEF JoinDecoder
<1>14. CASE JoinDemuxer
  BY <1>14 DEF JoinDemuxer
<1>15. CASE StartDecoder
  BY <1>15 DEF StartDecoder
<1>16. CASE StartDemuxer
  BY <1>16 DEF StartDemuxer
<1>17. CASE Destroyed
  BY <1>17 DEF Destroyed, vars
<1> QED BY <1>1, <1>2, <1>3, <1>4, <1>5, <1>6, <1>7, <1>8, <1>9, <1>10, <1>11, <1>12,
           <1>13, <1>14, <1>15, <1>16, <1>17
        DEF Next, DemuxerNext, DecoderNext, OwnerInCall

\* The frames stay in order of reading, allocated, and ahead of the decoder.
LEMMA FrameStep == ASSUME ImporterInv, Next PROVE FrameInv'
<1> USE ImporterAssumption
    DEF ImporterInv, TypeOK, Frames, ThreadInv, queueVars, demuxerVars, decoderVars, pictureVars,
        flagVars, ownerVars
<1>0. ASSUME UNCHANGED <<queueVars, reads, packet, decodes, sessionStart>>,
             demuxer' = "enqueue" => demuxer = "enqueue",
             decoder' = "decode" => decoder = "decode"
      PROVE  FrameInv'
  BY <1>0 DEF FrameInv
<1>1. CASE DemuxerTest \/ DemuxerCheck
  BY <1>0, <1>1 DEF DemuxerTest, DemuxerCheck
<1>2. CASE DemuxerRead
  <2>1. CASE demuxer' = "loop" /\ UNCHANGED <<reads, heap>>
    BY <1>0, <1>2, <2>1 DEF DemuxerRead
  <2>2. CASE reads' = reads + 1 /\ heap' = heap \union {reads + 1} /\ demuxer' = "enqueue"
    BY <1>2, <2>2 DEF DemuxerRead, FrameInv
  <2> QED BY <1>2, <2>1, <2>2 DEF DemuxerRead
<1>3. CASE DemuxerEnqueue
  <2>1. reads \in Frames
    BY <1>3 DEF DemuxerEnqueue, FrameInv
  <2>2. queue \in Seq(Frames) /\ Len(queue) <= QueueCapacity
    OBVIOUS
  <2>3. queue' = TryEnqueue(queue, reads)
    BY <1>3 DEF DemuxerEnqueue
  <2> HIDE DEF ImporterInv, TypeOK, Frames
  <2>4. /\ queue' \in Seq(Frames)
        /\ \A i \in 1..Len(queue') : \/ i \in 1..Len(queue) /\ queue'[i] = queue[i]
                                     \/ i = Len(queue) + 1 /\ queue'[i] = reads
    BY <2>1, <2>2, <2>3, TryEnqueueFacts
  <2>5. Len(queue) \in Nat /\ Len(queue') \in Nat
    BY <2>2, <2>4, LenProperties
  <2>6. FrameInv /\ demuxer = "enqueue" /\ demuxer' = "loop"
        /\ UNCHANGED <<heap, reads, packet, decodes, decoder, sessionStart>>
    BY <1>3 DEF ImporterInv, DemuxerEnqueue
  <2>7. reads \in Nat /\ packet \in Nat /\ sessionStart \in Nat
    BY DEF ImporterInv, TypeOK
  <2>8. \A i \in 1..Len(queue') :
          /\ queue'[i] \in heap /\ queue'[i] <= reads
          /\ packet < queue'[i] /\ sessionStart < queue'[i]
    BY <2>4, <2>5, <2>6, <2>7 DEF FrameInv
  <2>9. \A i, j \in 1..Len(queue') : i < j => queue'[i] < queue'[j]
    BY <2>4, <2>5, <2>6 DEF FrameInv
  <2> QED BY <2>6, <2>8, <2>9 DEF FrameInv
<1>4. ASSUME NEW t, Drain(t) PROVE FrameInv'
  <2>1. demuxer \notin {"enqueue"} /\ decoder # "decode"
    BY <1>4 DEF Drain, Draining
  <2>2. queue \in Seq(Frames) /\ queue # <<>> /\ queue' = Dequeued(queue)
    BY <1>4 DEF Drain
  <2> HIDE DEF ImporterInv, TypeOK, Frames
  <2>3. /\ Head(queue) = queue[1] /\ Len(queue) \in Nat \ {0} /\ Len(queue') = Len(queue) - 1
        /\ \A i \in 1..Len(queue') : i + 1 \in 1..Len(queue) /\ queue'[i] = queue[i + 1]
    BY <2>2, DequeuedFacts
  <2>4. FrameInv /\ heap' = heap \ {queue[1]}
        /\ UNCHANGED <<reads, demuxer, packet, decodes, decoder, sessionStart>>
    BY <1>4, <2>3 DEF ImporterInv, Drain
  <2>5. \A i \in 1..Len(queue') : queue[1] < queue'[i]
    BY <2>3, <2>4 DEF FrameInv
  <2>6. \A i \in 1..Len(queue') :
          /\ queue'[i] \in heap' /\ queue'[i] <= reads
          /\ packet < queue'[i] /\ sessionStart < queue'[i]
    <3> SUFFICES ASSUME NEW i \in 1..Len(queue')
        PROVE  /\ queue'[i] \in heap' /\ queue'[i] <= reads
               /\ packet < queue'[i] /\ sessionStart < queue'[i]
      OBVIOUS
    <3>1. i + 1 \in 1..Len(queue) /\ queue'[i] = queue[i + 1] /\ queue[1] < queue'[i]
      BY <2>3, <2>5
    <3>2. queue[i + 1] \in Frames /\ queue[1] \in Frames
      BY <2>2, <2>3, <3>1, ElementOfSeq
    <3> QED BY <2>4, <3>1, <3>2 DEF FrameInv, Frames
  <2>7. \A i, j \in 1..Len(queue') : i < j => queue'[i] < queue'[j]
    BY <2>3, <2>4 DEF FrameInv
  <2> QED BY <2>1, <2>4, <2>6, <2>7 DEF FrameInv
<1>5. ASSUME NEW t, DrainDone(t) PROVE FrameInv'
  BY <1>0, <1>5 DEF DrainDone
<1>6. CASE DecoderTest \/ DecoderFindsNothing
  BY <1>0, <1>6 DEF DecoderTest, DecoderFindsNothing
<1>7. CASE DecoderDequeue
  <2>1. queue \in Seq(Frames) /\ queue # <<>> /\ queue' = Dequeued(queue)
    BY <1>7 DEF DecoderDequeue
  <2> HIDE DEF ImporterInv, TypeOK, Frames
  <2>2. /\ Head(queue) = queue[1] /\ Len(queue) \in Nat \ {0} /\ Len(queue') = Len(queue) - 1
        /\ \A i \in 1..Len(queue') : i + 1 \in 1..Len(queue) /\ queue'[i] = queue[i + 1]
    BY <2>1, DequeuedFacts
  <2>3. FrameInv /\ packet' = queue[1] /\ decoder' = "decode"
        /\ UNCHANGED <<heap, reads, demuxer, decodes, sessionStart>>
    BY <1>7, <2>2 DEF ImporterInv, DecoderDequeue
  <2>4. \A i \in 1..Len(queue') : packet' < queue'[i]
    BY <2>2, <2>3 DEF FrameInv
  <2>5. \A i \in 1..Len(queue') : /\ queue'[i] \in heap /\ queue'[i] <= reads
                                  /\ sessionStart < queue'[i]
                                  /\ demuxer = "enqueue" => queue'[i] < reads
    BY <2>2, <2>3 DEF FrameInv
  <2>6. \A i, j \in 1..Len(queue') : i < j => queue'[i] < queue'[j]
    BY <2>2, <2>3 DEF FrameInv
  <2>7. /\ packet' \in heap /\ sessionStart < packet' /\ packet' <= reads /\ packet < packet'
        /\ demuxer = "enqueue" => packet' < reads
    BY <2>2, <2>3 DEF FrameInv
  <2>8. decodes < packet' /\ decodes <= packet'
    <3>1. packet' \in Frames /\ packet \in Nat /\ decodes \in Nat /\ decodes <= packet
      BY <2>1, <2>2, <2>3, ElementOfSeq DEF ImporterInv, TypeOK, FrameInv
    <3> QED BY <2>7, <3>1 DEF Frames
  <2> QED BY <2>3, <2>4, <2>5, <2>6, <2>7, <2>8 DEF FrameInv
<1>8. CASE DecoderDecode
  BY <1>8 DEF DecoderDecode, FrameInv
<1>9. CASE PublishLock \/ PublishPicture
  BY <1>0, <1>9 DEF PublishLock, PublishPicture
<1>10. CASE OwnerCalls
  BY <1>0, <1>10 DEF OwnerCalls, Open, ReadFrame, StopWorking
<1>11. CASE LockPicture \/ CopyPicture
  BY <1>0, <1>11 DEF LockPicture, CopyPicture
<1>12. CASE JoinDecoder \/ JoinDemuxer
  BY <1>0, <1>12 DEF JoinDecoder, JoinDemuxer
<1>13. CASE StartDecoder
  <2>1. queue = <<>> /\ Len(queue) = 0
    BY <1>13, EmptySeq DEF StartDecoder
  <2> QED BY <1>13, <2>1 DEF StartDecoder, FrameInv
<1>14. CASE StartDemuxer
  BY <1>0, <1>14 DEF StartDemuxer
<1>15. CASE Destroyed
  BY <1>0, <1>15 DEF Destroyed, vars
<1> QED BY <1>1, <1>2, <1>3, <1>4, <1>5, <1>6, <1>7, <1>8, <1>9, <1>10, <1>11, <1>12,
           <1>13, <1>14, <1>15
        DEF Next, DemuxerNext, DecoderNext, OwnerInCall

\* The mutex is held exactly while a picture is replaced or copied, and what is
\* allocated is the published picture and the one being published.
LEMMA PictureStep == ASSUME ImporterInv, Next PROVE PictureInv'
<1> USE ImporterAssumption
    DEF ImporterInv, TypeOK, Frames, queueVars, demuxerVars, decoderVars, pictureVars,
        flagVars, ownerVars
<1>0. ASSUME UNCHANGED <<lastVideoFrame, pictures, needRefresh, mutex, decodes, shown>>,
             (owner' = "copy") <=> (owner = "copy"),
             (decoder' = "replace") <=> (decoder = "replace"),
             (decoder' = "publish") <=> (decoder = "publish")
      PROVE  PictureInv'
  BY <1>0 DEF PictureInv
<1>1. CASE DemuxerTest \/ DemuxerCheck \/ DemuxerRead \/ DemuxerEnqueue
  BY <1>0, <1>1 DEF DemuxerTest, DemuxerCheck, DemuxerRead, DemuxerEnqueue
<1>2. ASSUME NEW t, Drain(t) \/ DrainDone(t) PROVE PictureInv'
  BY <1>0, <1>2 DEF Drain, DrainDone, Draining, Returns
<1>3. CASE DecoderTest \/ DecoderFindsNothing \/ DecoderDequeue
  BY <1>0, <1>3 DEF DecoderTest, DecoderFindsNothing, DecoderDequeue
<1>4. CASE DecoderDecode
  <2>1. CASE UNCHANGED <<decodes, pictures>> /\ decoder' = "loop"
    BY <1>4, <2>1 DEF DecoderDecode, PictureInv
  <2>2. CASE /\ decodes' = decodes + 1 /\ decoder' = "publish"
             /\ pictures' = pictures \union {decodes + 1}
    BY <1>4, <2>2 DEF DecoderDecode, PictureInv
  <2> QED BY <1>4, <2>1, <2>2 DEF DecoderDecode
<1>5. CASE PublishLock
  BY <1>5 DEF PublishLock, MutexFree, PictureInv
<1>6. CASE PublishPicture
  BY <1>6 DEF PublishPicture, PictureInv
<1>7. CASE OwnerCalls
  BY <1>0, <1>7 DEF OwnerCalls, Open, ReadFrame, StopWorking
<1>8. CASE LockPicture
  BY <1>8 DEF LockPicture, MutexFree, PictureInv
<1>9. CASE CopyPicture
  BY <1>9 DEF CopyPicture, PictureInv
<1>10. CASE JoinDecoder
  BY <1>0, <1>10 DEF JoinDecoder, Joined
<1>11. CASE JoinDemuxer \/ StartDemuxer
  BY <1>0, <1>11 DEF JoinDemuxer, StartDemuxer
<1>12. CASE StartDecoder
  BY <1>0, <1>12 DEF StartDecoder, ThreadInv
<1>13. CASE Destroyed
  BY <1>0, <1>13 DEF Destroyed, vars
<1> QED BY <1>1, <1>2, <1>3, <1>4, <1>5, <1>6, <1>7, <1>8, <1>9, <1>10, <1>11, <1>12, <1>13
        DEF Next, DemuxerNext, DecoderNext, OwnerInCall

\* No step leaves the types; a picture number stays a frame number because every
\* decode consumes a frame.
LEMMA TypeStep == ASSUME ImporterInv, Next PROVE TypeOK'
<1> USE ImporterAssumption
    DEF ImporterInv, TypeOK, queueVars, demuxerVars, decoderVars, pictureVars, flagVars, ownerVars
<1>1. CASE DemuxerTest \/ DemuxerCheck
  BY <1>1 DEF DemuxerTest, DemuxerCheck, ThreadStates
<1>2. CASE DemuxerRead
  <2>1. reads' \in 0..MaxFrames /\ heap' \subseteq Frames
    <3>1. CASE UNCHANGED <<reads, heap>>
      BY <3>1
    <3>2. CASE reads < MaxFrames /\ reads' = reads + 1 /\ heap' = heap \union {reads + 1}
      <4>1. reads + 1 \in Frames /\ reads + 1 \in 0..MaxFrames
        BY <3>2 DEF Frames
      <4> QED BY <3>2, <4>1
    <3> QED BY <1>2, <3>1, <3>2 DEF DemuxerRead
  <2> QED BY <1>2, <2>1 DEF DemuxerRead, ThreadStates
<1>3. CASE DemuxerEnqueue
  <2>1. reads \in Frames
    BY <1>3 DEF DemuxerEnqueue, FrameInv, Frames
  <2>2. queue' \in Seq(Frames) /\ Len(queue') <= QueueCapacity
    BY <1>3, <2>1, TryEnqueueFacts DEF DemuxerEnqueue
  <2> QED BY <1>3, <2>2 DEF DemuxerEnqueue, ThreadStates
<1>4. ASSUME NEW t, Drain(t) PROVE TypeOK'
  <2>1. queue' \in Seq(Frames) /\ Len(queue') <= QueueCapacity
    BY <1>4, DequeuedFacts DEF Drain
  <2> QED BY <1>4, <2>1 DEF Drain
<1>5. ASSUME NEW t, DrainDone(t) PROVE TypeOK'
  BY <1>5 DEF DrainDone, ThreadStates
<1>6. CASE DecoderTest \/ DecoderFindsNothing
  BY <1>6 DEF DecoderTest, DecoderFindsNothing, ThreadStates
<1>7. CASE DecoderDequeue
  <2>1. queue' \in Seq(Frames) /\ Len(queue') <= QueueCapacity /\ packet' \in Frames
    BY <1>7, DequeuedFacts DEF DecoderDequeue
  <2>2. packet' \in 0..MaxFrames
    BY <2>1 DEF Frames
  <2> QED BY <1>7, <2>1, <2>2 DEF DecoderDequeue
<1>8. CASE DecoderDecode
  <2>1. decodes + 1 \in Frames /\ decodes + 1 \in 0..MaxFrames
    BY <1>8 DEF DecoderDecode, FrameInv, Frames
  <2> QED BY <1>8, <2>1 DEF DecoderDecode, ThreadStates
<1>9. CASE PublishLock
  BY <1>9 DEF PublishLock
<1>10. CASE PublishPicture
  BY <1>10 DEF PublishPicture, ThreadStates
<1>11. CASE OwnerCalls
  <2>1. CASE Open \/ ReadFrame
    BY <2>1 DEF Open, ReadFrame, Returns
  <2>2. ASSUME NEW n \in Returns, StopWorking(n) PROVE TypeOK'
    <3>1. starts' \in 0..MaxStarts
      BY <2>2 DEF StopWorking
    <3>2. owner' = "joinDecoder" /\ after' \in Returns /\ shouldExitDecoder' \in BOOLEAN
      BY <2>2 DEF StopWorking
    <3> QED BY <2>2, <3>1, <3>2 DEF StopWorking
  <2> QED BY <1>11, <2>1, <2>2 DEF OwnerCalls, Returns
<1>12. CASE LockPicture \/ CopyPicture
  BY <1>12 DEF LockPicture, CopyPicture, Returns
<1>13. CASE JoinDecoder \/ JoinDemuxer
  BY <1>13 DEF JoinDecoder, JoinDemuxer, ThreadStates
<1>14. CASE StartDecoder
  BY <1>14 DEF StartDecoder, ThreadStates
<1>15. CASE StartDemuxer
  BY <1>15 DEF StartDemuxer, ThreadStates, Returns
<1>16. CASE Destroyed
  BY <1>16 DEF Destroyed, vars
<1> QED BY <1>1, <1>2, <1>3, <1>4, <1>5, <1>6, <1>7, <1>8, <1>9, <1>10, <1>11, <1>12,
           <1>13, <1>14, <1>15, <1>16
        DEF Next, DemuxerNext, DecoderNext, OwnerInCall

\* ImporterInv is preserved by every step, stuttering included.
LEMMA StepInv == ASSUME ImporterInv, [Next]_vars PROVE ImporterInv'
<1>1. CASE Next
  BY <1>1, TypeStep, ThreadStep, FrameStep, PictureStep DEF ImporterInv
<1>2. CASE UNCHANGED vars
  BY <1>2 DEF vars, queueVars, demuxerVars, decoderVars, pictureVars, flagVars, ownerVars,
              ImporterInv, TypeOK, ThreadInv, FrameInv, PictureInv
<1> QED BY <1>1, <1>2

\* ImporterInv holds in every state of every execution of the pipeline.
THEOREM Invariance == Spec => []ImporterInv
<1> QED BY InitInv, StepInv, PTL DEF Spec

(***************************************************************************)
(* The safety properties.                                                  *)
(***************************************************************************)
\* The state variables keep their types; the queue never exceeds its capacity.
THEOREM TypeCorrect == Spec => []TypeOK
<1>1. ImporterInv => TypeOK
  BY DEF ImporterInv
<1> QED BY <1>1, Invariance, PTL

\* No two threads are ever both in a position to dequeue a compressed frame.
THEOREM OneConsumer == Spec => []SingleConsumer
<1>1. ImporterInv => SingleConsumer
  BY DEF ImporterInv, ThreadInv, SingleConsumer, Consumers, Draining
<1> QED BY <1>1, Invariance, PTL

\* A frame read before a restart never reaches the decoder after it.
THEOREM SessionsSeparate == Spec => []NoStaleSession
<1>1. ImporterInv => NoStaleSession
  BY DEF ImporterInv, FrameInv, NoStaleSession
<1> QED BY <1>1, Invariance, PTL

\* The picture the owner copies is allocated, one is there whenever
\* _need_refresh says so, and no old picture stays allocated.
THEOREM PicturesSafe == Spec => []PictureSafe
<1>1. ImporterInv => PictureSafe
  BY DEF ImporterInv, PictureInv, PictureSafe
<1> QED BY <1>1, Invariance, PTL

\* stop_working returns with both threads gone and no frame in anybody's hands.
THEOREM StopQuiesces == Spec => []QuiescentAfterStop
<1>1. ASSUME ImporterInv, owner \in {"startDecoder", "destroyed"}
      PROVE  demuxer = "none" /\ decoder = "none" /\ Held = {}
  <2>1. demuxer = "none" /\ decoder = "none" /\ queue = <<>>
    BY <1>1 DEF ImporterInv, ThreadInv
  <2>2. Queued = {}
    BY <2>1, EmptySeq DEF Queued, ToSet
  <2> QED BY <2>1, <2>2 DEF Held, InDemuxer, InDecoder
<1>2. ImporterInv => QuiescentAfterStop
  BY <1>1 DEF QuiescentAfterStop
<1> QED BY <1>2, Invariance, PTL

\* Every frame in the pipeline is allocated and reachable in one way only, so
\* none is used after its delete or deleted twice.
THEOREM FramesOwned == Spec => []FrameOwnership
<1>1. ASSUME ImporterInv PROVE FrameOwnership
  <2>1. /\ queue \in Seq(Frames) /\ Len(queue) \in Nat /\ DOMAIN queue = 1..Len(queue)
        /\ \A i \in 1..Len(queue) : queue[i] \in Frames
    BY <1>1, LenProperties, ElementOfSeq DEF ImporterInv, TypeOK
  <2>2. Queued = {queue[i] : i \in 1..Len(queue)}
    BY <2>1 DEF Queued, ToSet
  <2>3. FrameInv /\ reads \in Nat /\ packet \in Nat
    BY <1>1 DEF ImporterInv, TypeOK
  <2>4. Held \subseteq heap
    BY <2>2, <2>3 DEF Held, InDemuxer, InDecoder, FrameInv
  <2>5. IsInjective(queue)
    <3>1. ASSUME NEW i \in 1..Len(queue), NEW j \in 1..Len(queue), queue[i] = queue[j]
          PROVE  i = j
      <4>1. ~(i < j) /\ ~(j < i)
        BY <2>1, <2>3, <3>1 DEF FrameInv, Frames
      <4> QED BY <2>1, <4>1
    <3> QED BY <2>1, <3>1 DEF IsInjective
  <2>6. Queued \intersect InDemuxer = {}
    <3>1. ASSUME NEW i \in 1..Len(queue), demuxer = "enqueue" PROVE queue[i] # reads
      BY <2>1, <2>3, <3>1 DEF FrameInv, Frames
    <3> QED BY <2>2, <3>1 DEF InDemuxer
  <2>7. Queued \intersect InDecoder = {}
    <3>1. ASSUME NEW i \in 1..Len(queue) PROVE queue[i] # packet
      BY <2>1, <2>3, <3>1 DEF FrameInv, Frames
    <3> QED BY <2>2, <3>1 DEF InDecoder
  <2>8. InDemuxer \intersect InDecoder = {}
    BY <2>3 DEF InDemuxer, InDecoder, FrameInv
  <2> QED BY <2>4, <2>5, <2>6, <2>7, <2>8 DEF FrameOwnership
<1> QED BY <1>1, Invariance, PTL

\* The decoder gets the frames in the order they were read.
THEOREM DecodedInOrder == Spec => FifoDecode
<1>1. ASSUME ImporterInv, [Next]_vars PROVE [packet' # packet => packet' > packet]_packet
  <2> SUFFICES ASSUME packet' # packet PROVE packet' > packet
    OBVIOUS
  <2>1. DecoderDequeue
    BY <1>1
    DEF vars, queueVars, demuxerVars, decoderVars, pictureVars, flagVars, ownerVars,
        Next, DemuxerNext, DecoderNext, OwnerCalls, OwnerInCall, DemuxerTest, DemuxerCheck,
        DemuxerRead, DemuxerEnqueue, Drain, DrainDone, DecoderTest, DecoderFindsNothing,
        DecoderDecode, PublishLock, PublishPicture, Open, ReadFrame, LockPicture, CopyPicture,
        StopWorking, JoinDecoder, JoinDemuxer, StartDecoder, StartDemuxer, Destroyed
  <2>2. queue \in Seq(Frames) /\ queue # <<>> /\ packet' = Head(queue)
    BY <1>1, <2>1 DEF DecoderDequeue, ImporterInv, TypeOK
  <2>3. packet' = queue[1] /\ Len(queue) \in Nat \ {0} /\ packet' \in Frames
    BY <2>2, DequeuedFacts
  <2>4. packet < packet'
    BY <1>1, <2>3 DEF ImporterInv, FrameInv
  <2> QED BY <1>1, <2>3, <2>4 DEF ImporterInv, TypeOK, Frames
<1> QED BY <1>1, Invariance, PTL DEF Spec, FifoDecode

\* The owner never gets an older picture than the last one it got.
THEOREM ShownForward == Spec => ShownNeverGoesBack
<1>1. ASSUME ImporterInv, [Next]_vars PROVE [shown' >= shown]_shown
  <2> SUFFICES ASSUME shown' # shown PROVE shown' >= shown
    OBVIOUS
  <2>1. CopyPicture
    BY <1>1
    DEF vars, queueVars, demuxerVars, decoderVars, pictureVars, flagVars, ownerVars,
        Next, DemuxerNext, DecoderNext, OwnerCalls, OwnerInCall, DemuxerTest, DemuxerCheck,
        DemuxerRead, DemuxerEnqueue, Drain, DrainDone, DecoderTest, DecoderFindsNothing,
        DecoderDequeue, DecoderDecode, PublishLock, PublishPicture, Open, ReadFrame, LockPicture,
        StopWorking, JoinDecoder, JoinDemuxer, StartDecoder, StartDemuxer, Destroyed
  <2>2. shown' = lastVideoFrame /\ shown <= lastVideoFrame
    BY <1>1, <2>1 DEF CopyPicture, ImporterInv, PictureInv
  <2> QED BY <1>1, <2>2 DEF ImporterInv, TypeOK
<1> QED BY <1>1, Invariance, PTL DEF Spec, ShownNeverGoesBack

\* A step makes a frame unreachable without deleting it only when the queue is
\* full, that is only when try_enqueue refuses the frame.
THEOREM LossesNeedFullQueue == Spec => LossOnlyWhenFull
<1> DEFINE Claim == Lost' \subseteq Lost \/ Len(queue) = QueueCapacity
<1>1. ASSUME ImporterInv, Next PROVE Claim
  <2> USE <1>1 DEF queueVars, demuxerVars, decoderVars, pictureVars, flagVars, ownerVars,
                   Held, Lost, InDemuxer, InDecoder
  <2>0. /\ queue \in Seq(Frames) /\ Len(queue) <= QueueCapacity
        /\ Len(queue) \in Nat /\ QueueCapacity \in Nat
        /\ demuxer # "enqueue" \/ reads \in Frames
    BY ImporterAssumption, LenProperties DEF ImporterInv, TypeOK, FrameInv, Frames
  <2>1. ASSUME UNCHANGED <<queue, heap, reads, packet>>,
               (demuxer' = "enqueue") <=> (demuxer = "enqueue"),
               (decoder' = "decode") <=> (decoder = "decode")
        PROVE  Claim
    BY <2>1 DEF Queued
  <2>2. CASE DemuxerTest \/ DemuxerCheck
    BY <2>1, <2>2 DEF DemuxerTest, DemuxerCheck
  <2>3. CASE DemuxerRead
    BY <2>3 DEF DemuxerRead, Queued
  <2>4. CASE DemuxerEnqueue
    <3>1. CASE Len(queue) = QueueCapacity
      BY <3>1
    <3>2. CASE Len(queue) < QueueCapacity
      <4>1. queue' = Append(queue, reads) /\ demuxer = "enqueue" /\ demuxer' # "enqueue"
            /\ UNCHANGED <<heap, reads, packet, decoder>>
        BY <2>4, <3>2 DEF DemuxerEnqueue, TryEnqueue
      <4>2. Queued' = Queued \union {reads}
        <5>1. /\ Len(queue') = Len(queue) + 1 /\ queue'[Len(queue) + 1] = reads
              /\ \A i \in 1..Len(queue) : queue'[i] = queue[i]
              /\ DOMAIN queue = 1..Len(queue) /\ DOMAIN queue' = 1..Len(queue')
          BY <2>0, <4>1, AppendProperties, LenProperties
        <5>2. DOMAIN queue' = DOMAIN queue \union {Len(queue) + 1}
          BY <2>0, <5>1
        <5> QED BY <5>1, <5>2 DEF Queued, ToSet
      <4> QED BY <4>1, <4>2
    <3> QED BY <2>0, <3>1, <3>2
  <2>5. ASSUME queue # <<>>, queue' = Dequeued(queue)
        PROVE  Queued \subseteq Queued' \union {Head(queue)}
    <3>1. /\ queue' \in Seq(Frames) /\ Head(queue) = queue[1]
          /\ Len(queue) \in Nat \ {0} /\ Len(queue') = Len(queue) - 1
          /\ \A i \in 1..Len(queue') : queue'[i] = queue[i + 1]
          /\ DOMAIN queue = 1..Len(queue)
      BY <2>0, <2>5, DequeuedFacts, LenProperties
    <3>2. DOMAIN queue' = 1..Len(queue')
      BY <3>1, LenProperties
    <3>3. ASSUME NEW i \in DOMAIN queue PROVE queue[i] \in Queued' \union {Head(queue)}
      <4>1. CASE i = 1
        BY <3>1, <4>1
      <4>2. CASE i # 1
        <5>1. i - 1 \in 1..Len(queue') /\ queue'[i - 1] = queue[i]
          BY <3>1, <3>3, <4>2
        <5> QED BY <3>2, <5>1 DEF Queued, ToSet
      <4> QED BY <4>1, <4>2
    <3> QED BY <3>3 DEF Queued, ToSet
  <2>6. ASSUME NEW t, Drain(t) PROVE Claim
    BY <2>5, <2>6 DEF Drain
  <2>7. ASSUME NEW t, DrainDone(t) PROVE Claim
    BY <2>1, <2>7 DEF DrainDone, Draining
  <2>8. CASE DecoderTest \/ DecoderFindsNothing
    BY <2>1, <2>8 DEF DecoderTest, DecoderFindsNothing
  <2>9. CASE DecoderDequeue
    BY <2>5, <2>9 DEF DecoderDequeue
  <2>10. CASE DecoderDecode
    BY <2>10 DEF DecoderDecode, Queued
  <2>11. CASE PublishLock \/ PublishPicture
    BY <2>1, <2>11 DEF PublishLock, PublishPicture
  <2>12. CASE OwnerCalls
    BY <2>1, <2>12 DEF OwnerCalls, Open, ReadFrame, StopWorking
  <2>13. CASE LockPicture \/ CopyPicture
    BY <2>1, <2>13 DEF LockPicture, CopyPicture
  <2>14. CASE JoinDecoder \/ JoinDemuxer
    BY <2>1, <2>14 DEF JoinDecoder, JoinDemuxer, Joined
  <2>15. CASE StartDecoder \/ StartDemuxer
    BY <2>1, <2>15 DEF StartDecoder, StartDemuxer, ImporterInv, ThreadInv
  <2>16. CASE Destroyed
    BY <2>1, <2>16 DEF Destroyed, vars
  <2> QED BY <2>2, <2>3, <2>4, <2>6, <2>7, <2>8, <2>9, <2>10, <2>11, <2>12, <2>13,
             <2>14, <2>15, <2>16
          DEF Next, DemuxerNext, DecoderNext, OwnerInCall
<1>2. ASSUME ImporterInv, [Next]_vars PROVE [Claim]_<<queue, heap, demuxer, decoder>>
  BY <1>1, <1>2 DEF vars, queueVars, demuxerVars, decoderVars
<1> QED BY <1>2, Invariance, PTL DEF Spec, LossOnlyWhenFull
==============================================================================
