----------------------------- MODULE FFmpegCommon -----------------------------
(***************************************************************************)
(* The tables between FFmpeg's names and the player's, which the demuxer   *)
(* and the decoder each have a copy of (ffmpeg_common.cpp).  A name both   *)
(* sides have is the same value here.                                      *)
(***************************************************************************)
Supported(known, name) == IF name \in known THEN name ELSE "None"

Codecs == {"H264", "HEVC", "AAC", "AC3"}

\* Of either copy.
FFMpegCodecIDToMeidaCodecID(ff_codec_id) == Supported(Codecs, ff_codec_id)

MediaCodecIDToFFMpegCodecID(codec_id) == Supported(Codecs, codec_id)

PixelFormats == {"YUV420P", "YUV422P", "YUV444P", "NV12", "RGB24", "BGR24"}

\* Of the demuxer's copy.
StreamPixelFormat(ff_pixel_format) == Supported(PixelFormats, ff_pixel_format)

\* Of the decoder's, which also knows YUV420P in full range.
PicturePixelFormat(ff_pixel_format) ==
  IF ff_pixel_format = "YUVJ420P" THEN "YUV420P" ELSE Supported(PixelFormats, ff_pixel_format)
==============================================================================
