---------------------------- MODULE MCMediaSession ----------------------------
\* Instances of MediaSession for TLC: a file with video and sound, a source on the
\* network and a file without video; one the demuxer does not open; and a file in a
\* pixel format the player does not draw.  Clip and camera have packets that are
\* presented before one that is decoded first.
EXTENDS MediaSessionProperties

Video(format) == [type |-> "video", codec |-> "H264", format |-> format]
Audio == [type |-> "audio", codec |-> "AAC", format |-> "none"]
P(stream, key, size, pts) == [stream |-> stream, key |-> key, size |-> size, pts |-> pts]

MCMedia ==
  [clip |-> [protocol |-> "file", streams |-> <<Video("YUV420P"), Audio>>,
             packets |-> <<P(1, FALSE, 21, 1), P(1, TRUE, 21, 4), P(2, TRUE, 21, 1), P(1, FALSE, 1, 2),
                          P(1, FALSE, 21, 3)>>],
   camera |-> [protocol |-> "udp", streams |-> <<Audio, Video("YUVJ420P")>>,
               packets |-> <<P(2, TRUE, 21, 1), P(2, FALSE, 21, 3), P(2, FALSE, 21, 2), P(2, FALSE, 20, 4)>>],
   song |-> [protocol |-> "file", streams |-> <<Audio, [type |-> "none", codec |-> "NONE", format |-> "none"]>>,
             packets |-> <<P(1, TRUE, 21, 1)>>],
   broadcast |-> [protocol |-> "rtmp", streams |-> <<Video("YUV420P")>>, packets |-> <<>>]]

MCWideMedia == [clip |-> [protocol |-> "file", streams |-> <<Video("YUV422P")>>, packets |-> <<P(1, TRUE, 21, 1)>>]]
==============================================================================
