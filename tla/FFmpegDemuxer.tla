----------------------------- MODULE FFmpegDemuxer -----------------------------
(***************************************************************************)
(* FFmpegDemuxer (ffmpeg_demuxer/ffmpeg_demuxer.cpp): opens a file or a    *)
(* stream, describes its streams and returns its packets one by one, as    *)
(* compressed frames.                                                      *)
(*                                                                         *)
(* libavformat is external: opening may fail, a read may have to be tried  *)
(* again or fail, and packets come in the order of the file, which is the  *)
(* order they are decoded in.  On error the packet is blank, of size 0.    *)
(***************************************************************************)
EXTENDS FFmpegCommon, Integers, Sequences

\* What there is to play: file_path |-> [protocol, streams, packets], a stream
\* being [type, codec, format] and a packet [stream, key, size, pts], pts the time it
\* is presented at.  type is "none" for a stream without codec parameters.
CONSTANT Media

CONSTANTS NoContext,
          NoFrame    \* no compressed frame, a null pointer

\* Streams and packets come one after the other, and each packet is of a stream.
ASSUME MediaAssumption == \A path \in DOMAIN Media :
  LET media == Media[path]
  IN  /\ media.streams \in Seq({media.streams[i] : i \in DOMAIN media.streams})
      /\ media.packets \in Seq([stream : DOMAIN media.streams, key : BOOLEAN, size : Nat, pts : Nat])

VARIABLES
  context,        \* _format_context: the path it is open on
  position,       \* of libavformat: packets of it read so far
  streams,        \* _movie_info.streams
  end_of_file,    \* _eof, which open sets before anything is read
  got_key_frame,  \* _got_key_frame
  frame,          \* what read_frame returned last
  opens           \* ghost: calls of open that succeeded

demuxerVars == <<context, position, streams, end_of_file, got_key_frame, frame, opens>>

DemuxerInit ==
  /\ context = NoContext /\ position = 0 /\ streams = <<>>
  /\ end_of_file = FALSE /\ got_key_frame = FALSE
  /\ frame = NoFrame /\ opens = 0

(***************************************************************************)
(* open and close.                                                         *)
(***************************************************************************)
Whitelist == {"file", "udp", "rtp"}

StreamType(s) ==
  IF s.codec # "NONE" /\ s.type \in {"video", "audio", "subtitle"} THEN s.type ELSE "unknown"

\* What build_movie_info writes down of a stream, and the opening it is of.
StreamInfo(s, opening) ==
  [type |-> StreamType(s),
   codec_id |-> IF s.type = "none" THEN "None" ELSE FFMpegCodecIDToMeidaCodecID(s.codec),
   pixel_format |-> IF s.type = "video" THEN StreamPixelFormat(s.format) ELSE "None",
   opening |-> opening]

\* It appends to what earlier files have left.
BuildMovieInfo(file) ==
  streams' = streams \o [i \in DOMAIN Media[file].streams |->
                           StreamInfo(Media[file].streams[i], opens + 1)]

Close ==
  /\ context' = NoContext /\ position' = 0
  /\ UNCHANGED <<streams, end_of_file, got_key_frame, frame, opens>>

\* Each closes what was open first.
OpenInput(file) ==
  /\ Media[file].protocol \in Whitelist
  /\ context' = file /\ position' = 0
  /\ BuildMovieInfo(file)
  /\ end_of_file' = FALSE /\ got_key_frame' = FALSE
  /\ opens' = opens + 1
  /\ UNCHANGED frame

\* What can be opened may still not be there.
OpenFails(file, available) ==
  /\ ~available \/ Media[file].protocol \notin Whitelist
  /\ Close

(***************************************************************************)
(* read_frame.  The loop is left after one round, also by continue.        *)
(***************************************************************************)
Packets == Media[context].packets
AtEnd == position = Len(Packets)

LargeEnough(size) == size > 20

TryAgain ==
  /\ frame' = NoFrame
  /\ UNCHANGED <<context, position, streams, end_of_file, got_key_frame, opens>>

\* At the end, or for any other reason.
ReadFails ==
  /\ end_of_file' = TRUE
  /\ frame' = NoFrame
  /\ UNCHANGED <<context, position, streams, got_key_frame, opens>>

\* The compressed frame of the k-th packet.
FrameOf(k) == [opening |-> opens, index |-> k, size |-> Packets[k].size, pts |-> Packets[k].pts,
               stream |-> Media[context].streams[Packets[k].stream]]

ReadPacket ==
  /\ ~AtEnd
  /\ position' = position + 1
  /\ got_key_frame' = (got_key_frame \/ Packets[position'].key)
  /\ frame' = IF LargeEnough(Packets[position'].size) THEN FrameOf(position') ELSE NoFrame
  /\ UNCHANGED <<context, streams, end_of_file, opens>>

ReadFrame == context # NoContext /\ (TryAgain \/ ReadFails \/ ReadPacket)
==============================================================================
