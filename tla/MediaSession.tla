----------------------------- MODULE MediaSession -----------------------------
(***************************************************************************)
(* From a file to its pictures: MediaImporter's calls of the demuxer, the  *)
(* decoder registry and the decoder.  The threads and the frames they hand *)
(* over are in MediaImporter; here the queue joins a step of read_frame to *)
(* a step of decode_video_frame, and open, which MediaImporter takes as    *)
(* one outcome, is done in full.                                           *)
(***************************************************************************)
EXTENDS FFmpegDemuxer, FFmpegDecoder

CONSTANTS QueueSize,  \* frames the queue has room for
          MaxOpens    \* bound: files opened

ASSUME SessionAssumption == QueueSize \in Nat /\ MaxOpens \in Nat /\ NoContext \notin DOMAIN Media

\* The packets of a file the player's decoder takes, and those of them before the
\* k-th that are presented after it.
Decodable(media, k) == media.streams[media.packets[k].stream].codec = CodecFor("H264")
Overtaken(media, k) ==
  {j \in 1..k - 1 : Decodable(media, j) /\ media.packets[j].pts > media.packets[k].pts}

\* No two pictures of a file are presented at once, and its stream asks for no more
\* pictures to be held back than the codec holds.
ASSUME ReorderAssumption == \A path \in DOMAIN Media :
  LET media == Media[path]
  IN  \A k \in DOMAIN media.packets : Decodable(media, k) =>
        /\ Cardinality(Overtaken(media, k)) <= Delay
        /\ \A j \in 1..k - 1 : Decodable(media, j) => media.packets[j].pts # media.packets[k].pts

VARIABLES
  queue,    \* _compressed_frames
  chosen,   \* the index of video_stream_info among the streams, 0 for nullptr
  opened,   \* what open returned last
  working,  \* between start_working and stop_working
  shown     \* _last_video_frame

importerVars == <<queue, chosen, opened, working, shown>>
vars == <<demuxerVars, decoderVars, importerVars>>

Init ==
  /\ DemuxerInit /\ DecoderInit
  /\ queue = <<>> /\ chosen = 0
  /\ opened = FALSE /\ working = FALSE /\ shown = NoPicture

(***************************************************************************)
(* open(file_path), by its outcomes.                                       *)
(***************************************************************************)
\* The places of the video streams in what the demuxer has described.
VideoStreams(infos) == {i \in DOMAIN infos : infos[i].type = "video"}

\* Variant: the first one is taken.
FirstOf(places) == CHOOSE i \in places : \A j \in places : i <= j
LastOf(places) == CHOOSE i \in places : \A j \in places : i >= j

Opening == ~working /\ UNCHANGED <<queue, working, shown>>

DemuxerFails(file, available) ==
  /\ Opening
  /\ OpenFails(file, available)
  /\ opened' = FALSE
  /\ UNCHANGED <<chosen, decoderVars>>

NoVideoStream(file) ==
  /\ Opening /\ opens < MaxOpens
  /\ OpenInput(file)
  /\ VideoStreams(streams') = {}
  /\ chosen' = 0
  /\ opened' = FALSE
  /\ UNCHANGED decoderVars

\* A decoder for H264 whatever the stream's codec; the one before it is leaked.
OpenDecoder(file) ==
  /\ Opening /\ opens < MaxOpens
  /\ OpenInput(file)
  /\ VideoStreams(streams') # {}
  /\ chosen' = LastOf(VideoStreams(streams'))
  /\ CanCreate("H264")
  /\ \/ OpenCodec("H264") /\ opened' = TRUE
     \/ CodecFails /\ opened' = FALSE

(***************************************************************************)
(* The threads, and the calls that start and stop them.                    *)
(***************************************************************************)
StartWorking ==
  /\ ~working /\ opened
  /\ working' = TRUE
  /\ UNCHANGED <<queue, chosen, opened, shown, demuxerVars, decoderVars>>

StopWorking ==
  /\ working
  /\ working' = FALSE
  /\ queue' = <<>>
  /\ UNCHANGED <<chosen, opened, shown, demuxerVars, decoderVars>>

\* A frame the full queue refuses is lost.
Enqueued(f) == IF f = NoFrame \/ Len(queue) = QueueSize THEN queue ELSE Append(queue, f)

ReadCompressedFrame ==
  /\ working
  /\ ReadFrame
  /\ queue' = Enqueued(frame')
  /\ UNCHANGED <<chosen, opened, working, shown, decoderVars>>

\* Variant: the decoder waits for a full queue.
DecodeWhenFull ==
  /\ working /\ Len(queue) = QueueSize
  /\ Decode(Head(queue))
  /\ queue' = Tail(queue)
  /\ shown' = IF picture' = NoPicture THEN shown ELSE picture'
  /\ UNCHANGED <<chosen, opened, working, demuxerVars>>

DecodeCompressedFrame ==
  /\ working /\ queue # <<>>
  /\ Decode(Head(queue))
  /\ queue' = Tail(queue)
  /\ shown' = IF picture' = NoPicture THEN shown ELSE picture'
  /\ UNCHANGED <<chosen, opened, working, demuxerVars>>

Next ==
  \/ \E file \in DOMAIN Media, available \in BOOLEAN : DemuxerFails(file, available)
  \/ \E file \in DOMAIN Media : NoVideoStream(file) \/ OpenDecoder(file)
  \/ StartWorking \/ StopWorking
  \/ ReadCompressedFrame \/ DecodeCompressedFrame

Spec == Init /\ [][Next]_vars

\* The threads keep running and the source answers in the end; the owner's
\* calls are not assumed.
FairSpec ==
  /\ Spec
  /\ WF_vars(ReadCompressedFrame /\ position' # position)
  /\ WF_vars(DecodeCompressedFrame)
==============================================================================
