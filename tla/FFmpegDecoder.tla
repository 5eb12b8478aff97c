----------------------------- MODULE FFmpegDecoder -----------------------------
(***************************************************************************)
(* FFmpegDecoder and the registry it is created from (ffmpeg_decoder/): a  *)
(* frame is sent to the codec and one picture, at most, is received.       *)
(*                                                                         *)
(* libavcodec is external.  Packets come in the order they are decoded in, *)
(* pictures leave in the order they are presented in: it holds back up to  *)
(* Delay pictures and gives out the earliest once it has more.  It takes   *)
(* no packet while a picture beyond those is waiting, it may find a packet *)
(* corrupt, and a packet it takes need not complete a picture.             *)
(*                                                                         *)
(* The null frame, which flushes the codec, is left out: the player never  *)
(* decodes one.                                                            *)
(***************************************************************************)
EXTENDS FFmpegCommon, Integers, Sequences, FiniteSets

CONSTANTS Delay,            \* pictures the codec holds back
          NoCodec, NoPicture

ASSUME DelayAssumption == Delay \in Nat

VARIABLES
  codec,     \* _avcodec_context, by the codec it is open for
  held,      \* of libavcodec: frames whose pictures are not received yet
  picture    \* what decode_video_frame returned last

decoderVars == <<codec, held, picture>>

DecoderInit == codec = NoCodec /\ held = {} /\ picture = NoPicture

(***************************************************************************)
(* FFmpegDecoderEnumerator.  init enters one decoder: its loop over        *)
(* libavcodec's has nothing to go through.                                 *)
(***************************************************************************)
codec_infos == <<[type |-> "video", codec_id |-> FFMpegCodecIDToMeidaCodecID("H264")]>>

InfosFor(codec_id) == SelectSeq(codec_infos, LAMBDA info : info.codec_id = codec_id)
CanCreate(codec_id) == InfosFor(codec_id) # <<>>

\* The codec of the decoder that is created.
CodecFor(codec_id) == MediaCodecIDToFFMpegCodecID(Head(InfosFor(codec_id)).codec_id)

(***************************************************************************)
(* create_decoder_by_codec_id and open_codec, of the decoder created.      *)
(***************************************************************************)
\* Variant: the codec that is open is used again.
OpenCodecOnce(codec_id) ==
  /\ codec' = CodecFor(codec_id)
  /\ UNCHANGED <<held, picture>>

OpenCodec(codec_id) ==
  /\ codec' = CodecFor(codec_id)
  /\ held' = {}
  /\ UNCHANGED picture

\* avcodec_find_decoder or avcodec_open2 fails.
CodecFails == codec' = NoCodec /\ held' = {} /\ UNCHANGED picture

(***************************************************************************)
(* decode_video_frame(f).                                                  *)
(***************************************************************************)
\* Whether a picture can be received, and which one.
Ready(pictures) == Cardinality(pictures) > Delay
Earliest(pictures) == CHOOSE f \in pictures : \A g \in pictures : f.pts <= g.pts

Takes(f) == ~Ready(held) /\ f.stream.codec = codec

Picture(f) == [opening |-> f.opening, pts |-> f.pts,
               pixel_format |-> PicturePixelFormat(f.stream.format)]

\* Too small to be sent, or the codec refuses it.
NotSent(f) == picture' = NoPicture /\ UNCHANGED <<codec, held>>

\* Variant: the picture is received before the packet is sent.
ReceiveAndSend(f, completes) ==
  /\ Takes(f) /\ f.size >= 2
  /\ picture' = IF Ready(held) THEN Picture(Earliest(held)) ELSE NoPicture
  /\ held' = (IF Ready(held) THEN held \ {Earliest(held)} ELSE held)
                \union IF completes THEN {f} ELSE {}
  /\ UNCHANGED codec

SendAndReceive(f, completes) ==
  /\ Takes(f) /\ f.size >= 2
  /\ LET pictures == held \union IF completes THEN {f} ELSE {}
     IN IF Ready(pictures)
        THEN picture' = Picture(Earliest(pictures)) /\ held' = pictures \ {Earliest(pictures)}
        ELSE picture' = NoPicture /\ held' = pictures
  /\ UNCHANGED codec

Decode(f) == NotSent(f) \/ \E completes \in BOOLEAN : SendAndReceive(f, completes)
==============================================================================
