------------------------ MODULE MediaSessionProperties ------------------------
(***************************************************************************)
(* What the demuxer, the registry, the decoder and the importer's use of   *)
(* them promise together.                                                  *)
(***************************************************************************)
EXTENDS MediaSession

FileStreams == UNION {{Media[path].streams[i] : i \in DOMAIN Media[path].streams} : path \in DOMAIN Media}
Frames == [opening : Nat, index : Nat, size : Nat, pts : Nat, stream : FileStreams]
Pictures == [opening : Nat, pts : Nat, pixel_format : PixelFormats \union {"None"}]
StreamInfos ==
  [type : {"video", "audio", "subtitle", "unknown"}, codec_id : Codecs \union {"None"},
   pixel_format : PixelFormats \union {"None"}, opening : Nat]

ASSUME NothingAssumption == NoFrame \notin Frames /\ NoPicture \notin Pictures

\* Types of the state variables; the demuxer is within the file, the queue within its room.
TypeOK ==
  /\ context \in DOMAIN Media \union {NoContext}
  /\ position \in Nat /\ (context # NoContext => position <= Len(Media[context].packets))
  /\ streams \in Seq(StreamInfos) /\ chosen \in Nat /\ opens \in Nat
  /\ {end_of_file, got_key_frame, opened, working} \subseteq BOOLEAN
  /\ frame \in Frames \union {NoFrame} /\ picture \in Pictures \union {NoPicture}
  /\ codec \in Codecs \union {"None", NoCodec} /\ held \subseteq Frames /\ IsFiniteSet(held)
  /\ queue \in Seq(Frames) /\ Len(queue) <= QueueSize
  /\ shown \in Pictures \union {NoPicture}

\* After an open that returned true the stream chosen is one of the file that is
\* open, if it has a video stream at all: the streams of the files opened before
\* are still in the demuxer's list, in front of its own.
ChosenStreamIsOfOpenFile ==
  opened /\ (\E i \in DOMAIN Media[context].streams : StreamType(Media[context].streams[i]) = "video")
    => streams[chosen].opening = opens

\* One receive for each packet sent is enough: between two calls no picture is
\* ready in the codec, so it never refuses a packet for want of room.
CodecKeptUp == ~Ready(held)

(***************************************************************************)
(* The inductive invariant.                                                *)
(***************************************************************************)
\* The threads run only on what has been opened, and leave no frame behind.
Working ==
  /\ opened => context # NoContext /\ codec = CodecFor("H264")
  /\ working => opened
  /\ ~working => queue = <<>>

\* The frame of a packet of the open file that has been read.
OfOpenFile(f) == f.index \in 1..position /\ f = FrameOf(f.index)

\* The packets that may still get to the codec: queued, or not read yet.
ToCome == {queue[i].index : i \in DOMAIN queue} \union position + 1..Len(Packets)

\* What is queued is in the order of the file, and behind what the codec holds.
FramesInOrder ==
  /\ \A i \in DOMAIN queue : OfOpenFile(queue[i])
  /\ \A i, j \in DOMAIN queue : i < j => queue[i].index < queue[j].index
  /\ \A f \in held : /\ OfOpenFile(f) /\ f.stream.codec = codec
                    /\ \A k \in ToCome : f.index < k

\* What is shown is presented before all that is held, and all that is to come.
ShownFirst ==
  shown # NoPicture /\ shown.opening = opens =>
    /\ \A f \in held : shown.pts < f.pts
    /\ \A k \in ToCome : Decodable(Media[context], k) => shown.pts < Packets[k].pts

PicturesFollow ==
  /\ shown # NoPicture => shown.opening <= opens
  /\ opened => FramesInOrder /\ ShownFirst

SessionInv == TypeOK /\ CodecKeptUp /\ Working /\ PicturesFollow /\ ChosenStreamIsOfOpenFile

\* A picture is of the file that is open, and presented later than the one before,
\* over stops, restarts, frames lost and frames the codec refuses, though packets
\* come in another order.
PicturesInOrder ==
  [][shown' # shown =>
       /\ shown'.opening = opens
       /\ shown # NoPicture => shown.opening < opens \/ shown.pts < shown'.pts]_vars

\* Left to work, the importer reads the file to its end and hands every frame it
\* could queue to the decoder.
PlaysToTheEnd == working ~> (~working \/ (AtEnd /\ queue = <<>>))

\* "assert(false)": PushFrameData knows the format of every picture.
PictureFormatsKnown == picture # NoPicture => picture.pixel_format \in {"YUV420P", "RGB24", "BGR24"}
==============================================================================
