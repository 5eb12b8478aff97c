-------------------------- MODULE MediaSessionProofs --------------------------
(***************************************************************************)
(* Proofs that the stream the importer decodes is of the file that is      *)
(* open, that the codec never runs out of room, and that what is shown     *)
(* comes in the order it is to be presented in, whatever is opened, in     *)
(* whatever order, and whatever of it is lost on the way.                  *)
(***************************************************************************)
EXTENDS MediaSessionProperties, SequenceTheorems, FiniteSetTheorems, NaturalsInduction,
        WellFoundedInduction, TLAPS

(***************************************************************************)
(* Sequences and numbers.                                                  *)
(***************************************************************************)
\* A function that is a sequence.
LEMMA SeqIs ==
  ASSUME NEW S, NEW n \in Nat, NEW s \in [1..n -> S]
  PROVE  s \in Seq(S) /\ Len(s) = n
<1>1. s \in Seq(S) BY SMT
<1>2. DOMAIN s = 1..n /\ DOMAIN s = 1..Len(s) /\ Len(s) \in Nat BY <1>1
<1> QED BY <1>1, <1>2

\* Of numbers that are at most n there is a greatest.
LEMMA Greatest ==
  ASSUME NEW n \in Nat, NEW T \in SUBSET (1..n), T # {}
  PROVE  \E x \in T : \A y \in T : x >= y
<1> DEFINE D == {n - x : x \in T}
<1>0. \A x \in T : n - x \in Nat OBVIOUS
<1>1. D \in SUBSET Nat /\ D # {} BY <1>0, Zenon
<1> HIDE DEF D
<1>2. PICK d \in D : \A e \in D : ~(<<e, d>> \in OpToRel(<, Nat))
  BY <1>1, NatLessThanWellFounded, WFMin
<1>3. \A e \in D : <<e, d>> \in OpToRel(<, Nat) <=> e < d BY <1>1 DEF OpToRel
<1>4. \A e \in D : ~(e < d) BY <1>2, <1>3, Zenon
<1>5. PICK x \in T : d = n - x BY <1>2 DEF D
<1>6. ASSUME NEW y \in T PROVE x >= y
  <2>1. n - y \in D BY DEF D
  <2>2. ~(n - y < n - x) BY <1>4, <1>5, <2>1
  <2> QED BY <2>2
<1> QED BY <1>6

\* The place LastOf chooses is the last one.
LEMMA LastOfIsLast ==
  ASSUME NEW n \in Nat, NEW T \in SUBSET (1..n), T # {}
  PROVE  LastOf(T) \in T /\ \A y \in T : LastOf(T) >= y
<1>1. \E x \in T : \A y \in T : x >= y BY Greatest
<1> QED BY <1>1 DEF LastOf

(***************************************************************************)
(* What the media, the demuxer and the codec give.                         *)
(***************************************************************************)
\* A stream of a file is one of all the streams.
LEMMA StreamsOfFile ==
  ASSUME NEW path \in DOMAIN Media
  PROVE  /\ Media[path].streams \in Seq(FileStreams)
         /\ Media[path].packets \in Seq([stream : DOMAIN Media[path].streams, key : BOOLEAN, size : Nat, pts : Nat])
<1> DEFINE own == {Media[path].streams[i] : i \in DOMAIN Media[path].streams}
<1>1. /\ Media[path].streams \in Seq(own)
      /\ Media[path].packets \in Seq([stream : DOMAIN Media[path].streams, key : BOOLEAN, size : Nat, pts : Nat])
  BY MediaAssumption
<1>2. own \subseteq FileStreams BY DEF FileStreams
<1> HIDE DEF own
<1>3. Media[path].streams \in Seq(FileStreams) BY <1>1, <1>2, SeqMonotonic
<1> QED BY <1>1, <1>3

\* What build_movie_info writes down is a description of a stream.
LEMMA StreamInfoType ==
  ASSUME NEW s, NEW opening \in Nat
  PROVE  StreamInfo(s, opening) \in StreamInfos
BY DEF StreamInfo, StreamInfos, StreamType, StreamPixelFormat, FFMpegCodecIDToMeidaCodecID, Supported

\* The picture of a frame.
LEMMA PictureType ==
  ASSUME NEW f \in Frames
  PROVE  /\ Picture(f) \in Pictures /\ Picture(f) # NoPicture
         /\ Picture(f).opening = f.opening /\ Picture(f).pts = f.pts
<1>1. PicturePixelFormat(f.stream.format) \in PixelFormats \union {"None"}
  BY DEF PicturePixelFormat, Supported, PixelFormats
<1>2. f.opening \in Nat /\ f.pts \in Nat BY DEF Frames
<1>3. Picture(f) \in Pictures BY <1>1, <1>2 DEF Picture, Pictures
<1> QED BY <1>3, NothingAssumption DEF Picture

\* After an open the demuxer's list has the file's streams behind those it had.
LEMMA StreamsAfterOpen ==
  ASSUME NEW file \in DOMAIN Media, OpenInput(file), streams \in Seq(StreamInfos), opens \in Nat
  PROVE  /\ streams' \in Seq(StreamInfos)
         /\ Len(streams') = Len(streams) + Len(Media[file].streams)
         /\ \A i \in DOMAIN Media[file].streams :
              /\ Len(streams) + i \in DOMAIN streams'
              /\ streams'[Len(streams) + i] = StreamInfo(Media[file].streams[i], opens + 1)
         /\ \A k \in DOMAIN streams' : k > Len(streams) => streams'[k].opening = opens + 1
<1>1. PICK n : n = Len(Media[file].streams) OBVIOUS
<1>2. n \in Nat /\ DOMAIN Media[file].streams = 1..n BY <1>1, StreamsOfFile
<1>3. PICK new : new = [i \in 1..n |-> StreamInfo(Media[file].streams[i], opens + 1)] OBVIOUS
<1>4. new \in [1..n -> StreamInfos] BY <1>3, StreamInfoType
<1>5. new \in Seq(StreamInfos) /\ Len(new) = n BY <1>2, <1>4, SeqIs
<1>6. streams' = streams \o new BY <1>2, <1>3 DEF OpenInput, BuildMovieInfo
<1>7. PICK old : old = streams OBVIOUS
<1>8. old \in Seq(StreamInfos) /\ Len(old) \in Nat BY <1>7
<1>9. /\ old \o new \in Seq(StreamInfos) /\ Len(old \o new) = Len(old) + n
      /\ \A i \in 1 .. Len(old) + n : (old \o new)[i] = IF i <= Len(old) THEN old[i] ELSE new[i - Len(old)]
  BY <1>5, <1>8, ConcatProperties
<1>10. DOMAIN (old \o new) = 1..Len(old) + n BY <1>9
<1>11. ASSUME NEW i \in 1..n
       PROVE  /\ Len(old) + i \in DOMAIN (old \o new)
              /\ (old \o new)[Len(old) + i] = StreamInfo(Media[file].streams[i], opens + 1)
  <2>1. Len(old) + i \in 1..Len(old) + n /\ ~(Len(old) + i <= Len(old)) /\ Len(old) + i - Len(old) = i
    BY <1>2, <1>8
  <2>2. (old \o new)[Len(old) + i] = new[i] BY <1>9, <2>1
  <2> QED BY <1>3, <1>10, <2>1, <2>2
<1>12. ASSUME NEW k \in DOMAIN (old \o new), k > Len(old)
       PROVE  (old \o new)[k].opening = opens + 1
  <2>1. k - Len(old) \in 1..n /\ k = Len(old) + (k - Len(old)) BY <1>2, <1>8, <1>10, <1>12
  <2>2. (old \o new)[k] = StreamInfo(Media[file].streams[k - Len(old)], opens + 1)
    BY <1>11, <2>1
  <2> QED BY <2>2 DEF StreamInfo
<1> QED BY <1>1, <1>2, <1>6, <1>7, <1>9, <1>11, <1>12

\* The last video stream in the list is of the file just opened, if that has one.
LEMMA LastVideoStream ==
  ASSUME NEW file \in DOMAIN Media, OpenInput(file), streams \in Seq(StreamInfos), opens \in Nat,
         VideoStreams(streams') # {}
  PROVE  /\ LastOf(VideoStreams(streams')) \in Nat
         /\ (\E i \in DOMAIN Media[file].streams : StreamType(Media[file].streams[i]) = "video")
              => streams'[LastOf(VideoStreams(streams'))].opening = opens + 1
<1>1. PICK now : now = streams' OBVIOUS
<1>2. /\ now \in Seq(StreamInfos) /\ Len(streams) \in Nat
      /\ \A i \in DOMAIN Media[file].streams :
           /\ Len(streams) + i \in DOMAIN now
           /\ now[Len(streams) + i] = StreamInfo(Media[file].streams[i], opens + 1)
      /\ \A k \in DOMAIN now : k > Len(streams) => now[k].opening = opens + 1
  BY <1>1, StreamsAfterOpen
<1>3. PICK T : T = VideoStreams(now) OBVIOUS
<1>4. Len(now) \in Nat /\ DOMAIN now = 1..Len(now) BY <1>2
<1>5. T \in SUBSET (1..Len(now)) /\ T # {} BY <1>1, <1>3, <1>4 DEF VideoStreams
<1>6. LastOf(T) \in T /\ \A y \in T : LastOf(T) >= y BY <1>4, <1>5, LastOfIsLast
<1>7. ASSUME NEW i \in DOMAIN Media[file].streams, StreamType(Media[file].streams[i]) = "video"
      PROVE  now[LastOf(T)].opening = opens + 1
  <2>0. StreamInfo(Media[file].streams[i], opens + 1).type = "video" BY <1>7 DEF StreamInfo
  <2>1. now[Len(streams) + i].type = "video" BY <1>2, <2>0
  <2>2. Len(streams) + i \in T BY <1>2, <1>3, <2>1 DEF VideoStreams
  <2>3. PICK s : s = Media[file].streams OBVIOUS
  <2>4. s \in Seq(FileStreams) BY <2>3, StreamsOfFile
  <2>5. i \in 1..Len(s) /\ Len(s) \in Nat BY <1>7, <2>3, <2>4
  <2>6. LastOf(T) >= Len(streams) + i /\ LastOf(T) \in 1..Len(now) BY <1>5, <1>6, <2>2
  <2>7. LastOf(T) > Len(streams) BY <1>2, <1>4, <2>5, <2>6
  <2> QED BY <1>2, <1>4, <2>6, <2>7
<1> QED BY <1>1, <1>3, <1>5, <1>6, <1>7

(***************************************************************************)
(* The order of packets and the order of pictures.                         *)
(***************************************************************************)
\* The codec the player opens is one of the table.
LEMMA CodecForType == \A codec_id : CodecFor(codec_id) \in Codecs \union {"None"}
BY DEF CodecFor, MediaCodecIDToFFMpegCodecID, Supported

\* The frame of a packet of the open file.
LEMMA FrameOfPacket ==
  ASSUME context \in DOMAIN Media, opens \in Nat, NEW k \in 1..Len(Packets)
  PROVE  /\ Len(Packets) \in Nat /\ k \in DOMAIN Packets /\ Packets[k].pts \in Nat
         /\ Packets[k].key \in BOOLEAN /\ Packets[k].size \in Nat
         /\ FrameOf(k) \in Frames /\ FrameOf(k).index = k /\ FrameOf(k).opening = opens
         /\ FrameOf(k).pts = Packets[k].pts
         /\ FrameOf(k).stream.codec = CodecFor("H264") <=> Decodable(Media[context], k)
<1>1. Packets \in Seq([stream : DOMAIN Media[context].streams, key : BOOLEAN, size : Nat, pts : Nat])
  BY StreamsOfFile DEF Packets
<1>2. Len(Packets) \in Nat /\ k \in DOMAIN Packets BY <1>1
<1>3. Packets[k] \in [stream : DOMAIN Media[context].streams, key : BOOLEAN, size : Nat, pts : Nat]
  BY <1>1, ElementOfSeq
<1>4. Media[context].streams[Packets[k].stream] \in FileStreams BY <1>3 DEF FileStreams
<1>5. FrameOf(k) \in Frames BY <1>3, <1>4 DEF FrameOf, Frames
<1>6. FrameOf(k).stream.codec = CodecFor("H264") <=> Decodable(Media[context], k)
  BY DEF FrameOf, Decodable, Packets
<1> QED BY <1>2, <1>3, <1>5, <1>6 DEF FrameOf

\* The codec's choice among what it holds.
LEMMA EarliestIsFirst ==
  ASSUME NEW pictures \in SUBSET Frames, pictures # {}
  PROVE  Earliest(pictures) \in pictures /\ \A g \in pictures : Earliest(pictures).pts <= g.pts
<1> DEFINE times == {g.pts : g \in pictures}
<1>0. \A g \in pictures : g.pts \in Nat BY DEF Frames
<1>1. times \in SUBSET Nat /\ times # {} BY <1>0, Zenon
<1> HIDE DEF times
<1>2. PICK t \in times : \A u \in times : ~(<<u, t>> \in OpToRel(<, Nat))
  BY <1>1, NatLessThanWellFounded, WFMin
<1>3. \A u \in times : <<u, t>> \in OpToRel(<, Nat) <=> u < t BY <1>1 DEF OpToRel
<1>4. \A u \in times : ~(u < t) BY <1>2, <1>3, Zenon
<1>5. PICK f \in pictures : t = f.pts BY <1>2 DEF times
<1>6. \A g \in pictures : g.pts \in times BY DEF times
<1>7. \A g \in pictures : f.pts <= g.pts BY <1>0, <1>4, <1>5, <1>6
<1> QED BY <1>5, <1>7 DEF Earliest

\* Frames the codec may be given: of packets of the open file, in its own codec.
Given(f) == /\ f.index \in 1..Len(Packets) /\ f = FrameOf(f.index)
            /\ f.stream.codec = CodecFor("H264")

\* No two pictures are presented at once.
LEMMA TimesDiffer ==
  ASSUME context \in DOMAIN Media, opens \in Nat,
         NEW j \in 1..Len(Packets), NEW k \in 1..Len(Packets), j # k,
         Decodable(Media[context], j), Decodable(Media[context], k)
  PROVE  Packets[j].pts # Packets[k].pts
<1>1. ASSUME NEW a \in 1..Len(Packets), NEW b \in 1..Len(Packets), a < b,
             Decodable(Media[context], a), Decodable(Media[context], b)
      PROVE  Packets[a].pts # Packets[b].pts
  <2>1. b \in DOMAIN Media[context].packets BY FrameOfPacket DEF Packets
  <2>2. a \in 1..b - 1 BY <1>1, FrameOfPacket
  <2> QED BY <1>1, <2>1, <2>2, ReorderAssumption DEF Packets
<1>2. j < k \/ k < j BY FrameOfPacket
<1> QED BY <1>1, <1>2

\* Once it has more frames than it holds back, the codec has one that is presented
\* before any packet that comes later: as many as it has are not overtaken by one.
LEMMA FirstIsThere ==
  ASSUME context \in DOMAIN Media, opens \in Nat,
         NEW pictures, IsFiniteSet(pictures), Cardinality(pictures) > Delay,
         NEW k \in 1..Len(Packets), Decodable(Media[context], k),
         \A f \in pictures : Given(f) /\ f.index < k
  PROVE  \E f \in pictures : f.pts < Packets[k].pts
<1> SUFFICES ASSUME \A f \in pictures : ~(f.pts < Packets[k].pts) PROVE FALSE OBVIOUS
<1>1. PICK late : late = Overtaken(Media[context], k) OBVIOUS
<1>2. /\ k \in DOMAIN Media[context].packets /\ Packets[k].pts \in Nat /\ k \in Nat
      /\ Len(Packets) \in Nat
  BY FrameOfPacket DEF Packets
<1>3. late \in SUBSET (1..k - 1) BY <1>1 DEF Overtaken
<1>4. IsFiniteSet(late) /\ Cardinality(late) \in Nat
  <2>0. 1 \in Int /\ k - 1 \in Int BY <1>2
  <2>1. IsFiniteSet(1..k - 1) BY <2>0, FS_Interval
  <2> QED BY <1>3, <2>1, FS_Subset, FS_CardinalityType
<1>5. Cardinality(late) <= Delay BY <1>1, <1>2, ReorderAssumption
<1>6. Cardinality(late) < Cardinality(pictures)
  BY <1>4, <1>5, DelayAssumption, FS_CardinalityType
<1>7. ASSUME NEW f \in pictures PROVE f.index \in late
  <2>1. f.index \in 1..Len(Packets) /\ f.index \in 1..k - 1 /\ f.index # k BY <1>2, <1>7 DEF Given
  <2>2. Decodable(Media[context], f.index) /\ f.pts = Packets[f.index].pts /\ f.pts \in Nat
    BY <2>1, FrameOfPacket DEF Given
  <2>3. f.pts # Packets[k].pts BY <2>1, <2>2, TimesDiffer
  <2>4. Packets[f.index].pts > Packets[k].pts BY <1>2, <2>2, <2>3
  <2> QED BY <1>1, <2>1, <2>2, <2>4 DEF Overtaken, Packets
<1> DEFINE place == [f \in pictures |-> f.index]
<1>8. place \in [pictures -> late] BY <1>7
<1> HIDE DEF place
<1>9. PICK f, g \in pictures : f # g /\ place[f] = place[g] BY <1>4, <1>6, <1>8, FS_PigeonHole
<1>10. f.index = g.index BY <1>9 DEF place
<1> QED BY <1>9, <1>10 DEF Given

(***************************************************************************)
(* The inductive invariant.                                                *)
(***************************************************************************)
\* The importer as constructed satisfies the invariant.
LEMMA InitInv == Init => SessionInv
<1> SUFFICES ASSUME Init PROVE SessionInv OBVIOUS
<1> USE DEF Init, DemuxerInit, DecoderInit
<1>1. TypeOK
  <2>1. <<>> \in Seq(Frames) /\ <<>> \in Seq(StreamInfos) /\ Len(<<>>) = 0 BY EmptySeq
  <2>2. 0 <= QueueSize BY SessionAssumption
  <2>3. {end_of_file, got_key_frame, opened, working} \subseteq BOOLEAN OBVIOUS
  <2>4. position \in Nat /\ (context # NoContext => position <= Len(Media[context].packets)) OBVIOUS
  <2>5. queue \in Seq(Frames) /\ Len(queue) <= QueueSize BY <2>1, <2>2
  <2>6. held \subseteq Frames /\ IsFiniteSet(held) BY FS_EmptySet
  <2> QED BY <2>1, <2>3, <2>4, <2>5, <2>6 DEF TypeOK
<1>2. CodecKeptUp BY DelayAssumption, FS_EmptySet DEF CodecKeptUp, Ready
<1>3. Working /\ PicturesFollow /\ ChosenStreamIsOfOpenFile
  BY DEF Working, PicturesFollow, ChosenStreamIsOfOpenFile
<1> QED BY <1>1, <1>2, <1>3 DEF SessionInv

\* A queue or a codec that has just been emptied holds nothing.
LEMMA Emptied ==
  /\ <<>> \in Seq(Frames) /\ Len(<<>>) = 0 /\ DOMAIN <<>> = {}
  /\ IsFiniteSet({}) /\ ~Ready({})
BY EmptySeq, DelayAssumption, FS_EmptySet DEF Ready

\* A frame put behind others.
LEMMA AppendFrame ==
  ASSUME NEW s \in Seq(Frames), NEW f \in Frames
  PROVE  /\ Append(s, f) \in Seq(Frames) /\ Len(Append(s, f)) = Len(s) + 1
         /\ DOMAIN Append(s, f) = 1..Len(s) + 1 /\ DOMAIN s = 1..Len(s) /\ Len(s) \in Nat
         /\ \A i \in DOMAIN s : Append(s, f)[i] = s[i]
         /\ Append(s, f)[Len(s) + 1] = f
         /\ \A i \in DOMAIN Append(s, f) : i \in DOMAIN s \/ i = Len(s) + 1
<1>1. Append(s, f) \in Seq(Frames) /\ Len(Append(s, f)) = Len(s) + 1
      /\ \A i \in 1..Len(s) + 1 : Append(s, f)[i] = IF i = Len(s) + 1 THEN f ELSE s[i]
  BY AppendProperties
<1>2. DOMAIN s = 1..Len(s) /\ Len(s) \in Nat /\ DOMAIN Append(s, f) = 1..Len(s) + 1 BY <1>1
<1> QED BY <1>1, <1>2

\* The frames behind the first one.
LEMMA TailFrames ==
  ASSUME NEW s \in Seq(Frames), s # <<>>
  PROVE  /\ Tail(s) \in Seq(Frames) /\ Len(Tail(s)) = Len(s) - 1
         /\ Head(s) \in Frames /\ Head(s) = s[1] /\ 1 \in DOMAIN s
         /\ \A i \in DOMAIN Tail(s) : i \in Nat /\ i + 1 \in DOMAIN s /\ 1 < i + 1 /\ Tail(s)[i] = s[i + 1]
<1>1. /\ Tail(s) \in Seq(Frames) /\ Len(Tail(s)) = Len(s) - 1 /\ Head(s) \in Frames
      /\ \A i \in 1..Len(Tail(s)) : Tail(s)[i] = s[i + 1]
  BY HeadTailProperties
<1>2. Len(s) \in Nat /\ Len(s) # 0 /\ DOMAIN s = 1..Len(s) /\ DOMAIN Tail(s) = 1..Len(Tail(s))
  BY <1>1
<1> QED BY <1>1, <1>2

\* An open that finds something leaves no frame of the file before it anywhere.
LEMMA OpenDecoderInv ==
  ASSUME SessionInv, NEW file \in DOMAIN Media, OpenDecoder(file)
  PROVE  SessionInv'
<1> USE DEF SessionInv
<1>1. /\ context' = file /\ position' = 0 /\ opens' = opens + 1 /\ opens \in Nat
      /\ frame' = frame /\ end_of_file' = FALSE /\ got_key_frame' = FALSE
      /\ picture' = picture /\ working' = FALSE /\ working = FALSE /\ opened' \in BOOLEAN
      /\ queue' = <<>> /\ held' = {} /\ shown' = shown
  BY DEF OpenDecoder, Opening, OpenInput, OpenCodec, CodecFails, TypeOK, Working
<1>2. OpenInput(file) /\ streams \in Seq(StreamInfos) /\ chosen' = LastOf(VideoStreams(streams'))
      /\ VideoStreams(streams') # {}
  BY DEF OpenDecoder, TypeOK
<1>3. streams' \in Seq(StreamInfos) BY <1>1, <1>2, StreamsAfterOpen
<1>4. /\ chosen' \in Nat
      /\ (\E i \in DOMAIN Media[file].streams : StreamType(Media[file].streams[i]) = "video")
           => streams'[chosen'].opening = opens + 1
  BY <1>1, <1>2, LastVideoStream
<1>5. codec' \in Codecs \union {"None", NoCodec} /\ (opened' => codec' = CodecFor("H264"))
  BY CodecForType DEF OpenDecoder, OpenCodec, CodecFails
<1>6. NoContext # file /\ QueueSize \in Nat BY SessionAssumption
<1>7. Len(Media[file].packets) \in Nat BY StreamsOfFile
<1>8. TypeOK'
  <2>1. /\ picture \in Pictures \union {NoPicture} /\ shown \in Pictures \union {NoPicture}
        /\ frame \in Frames \union {NoFrame}
    BY DEF TypeOK
  <2>2. queue' \in Seq(Frames) /\ Len(queue') <= QueueSize BY <1>1, <1>6, Emptied
  <2>3. held' \subseteq Frames /\ IsFiniteSet(held') BY <1>1, Emptied
  <2>4. position' \in Nat /\ (context' # NoContext => position' <= Len(Media[context'].packets))
    BY <1>1, <1>7
  <2>5. {end_of_file', got_key_frame', opened', working'} \subseteq BOOLEAN BY <1>1
  <2> QED BY <1>1, <1>3, <1>4, <1>5, <2>1, <2>2, <2>3, <2>4, <2>5 DEF TypeOK
<1>9. CodecKeptUp' BY <1>1, Emptied DEF CodecKeptUp, Ready
<1>10. Working' BY <1>1, <1>5, <1>6 DEF Working
<1>11. PicturesFollow'
  <2>1. shown' # NoPicture => shown'.opening \in Nat /\ shown'.opening <= opens
    BY <1>1 DEF TypeOK, Pictures, PicturesFollow
  <2>2. shown' # NoPicture => shown'.opening <= opens' /\ shown'.opening # opens' BY <1>1, <2>1
  <2>3. FramesInOrder' BY <1>1, Emptied DEF FramesInOrder
  <2>4. ShownFirst' BY <2>2 DEF ShownFirst
  <2> QED BY <2>2, <2>3, <2>4 DEF PicturesFollow
<1>12. ChosenStreamIsOfOpenFile' BY <1>1, <1>4 DEF ChosenStreamIsOfOpenFile
<1> QED BY <1>8, <1>9, <1>10, <1>11, <1>12

\* One that fails leaves nothing opened.
LEMMA OpenFailsInv ==
  ASSUME SessionInv, NEW file \in DOMAIN Media,
         (\E available \in BOOLEAN : DemuxerFails(file, available)) \/ NoVideoStream(file)
  PROVE  SessionInv'
<1> USE DEF SessionInv
<1>1. /\ opened' = FALSE /\ working' = FALSE /\ working = FALSE /\ queue' = <<>> /\ shown' = shown
      /\ codec' = codec /\ held' = held /\ picture' = picture /\ frame' = frame
      /\ chosen' \in Nat /\ position' = 0 /\ context' \in DOMAIN Media \union {NoContext}
      /\ {end_of_file', got_key_frame'} \subseteq BOOLEAN
      /\ opens' = opens \/ opens' = opens + 1
  <2> USE DEF Opening, decoderVars
  <2>1. working = FALSE /\ queue = <<>> BY DEF DemuxerFails, NoVideoStream, TypeOK, Working
  <2>2. {end_of_file, got_key_frame} \subseteq BOOLEAN /\ chosen \in Nat BY DEF TypeOK
  <2>3. CASE NoVideoStream(file) BY <2>1, <2>3 DEF NoVideoStream, OpenInput
  <2>4. CASE \E available \in BOOLEAN : DemuxerFails(file, available)
    BY <2>1, <2>2, <2>4 DEF DemuxerFails, OpenFails, Close
  <2> QED BY <2>3, <2>4
<1>2. streams' \in Seq(StreamInfos)
  <2>1. CASE NoVideoStream(file) BY <2>1, StreamsAfterOpen DEF NoVideoStream, TypeOK
  <2>2. CASE \E available \in BOOLEAN : DemuxerFails(file, available)
    BY <2>2 DEF DemuxerFails, OpenFails, Close, TypeOK
  <2> QED BY <2>1, <2>2
<1>3. \A path \in DOMAIN Media : Len(Media[path].packets) \in Nat BY StreamsOfFile
<1>4. TypeOK'
  <2>1. /\ picture \in Pictures \union {NoPicture} /\ shown \in Pictures \union {NoPicture}
        /\ frame \in Frames \union {NoFrame} /\ opens \in Nat
        /\ held \subseteq Frames /\ IsFiniteSet(held)
        /\ codec \in Codecs \union {"None", NoCodec}
    BY DEF TypeOK
  <2>2. position' \in Nat /\ (context' # NoContext => position' <= Len(Media[context'].packets))
    BY <1>1, <1>3
  <2>3. queue' \in Seq(Frames) /\ Len(queue') <= QueueSize BY <1>1, SessionAssumption, Emptied
  <2>4. {end_of_file', got_key_frame', opened', working'} \subseteq BOOLEAN BY <1>1
  <2>5. opens' \in Nat BY <1>1, <2>1
  <2> QED BY <1>1, <1>2, <2>1, <2>2, <2>3, <2>4, <2>5 DEF TypeOK
<1>5. CodecKeptUp' BY <1>1 DEF CodecKeptUp, Ready
<1>6. Working' BY <1>1 DEF Working
<1>7. PicturesFollow'
  <2>1. shown # NoPicture => shown.opening \in Nat /\ shown.opening <= opens
    BY DEF TypeOK, Pictures, PicturesFollow
  <2>2. shown' # NoPicture => shown'.opening <= opens' BY <1>1, <2>1 DEF TypeOK
  <2> QED BY <1>1, <2>2 DEF PicturesFollow
<1>8. ChosenStreamIsOfOpenFile' BY <1>1 DEF ChosenStreamIsOfOpenFile
<1> QED BY <1>4, <1>5, <1>6, <1>7, <1>8

\* A step that changes no more than whether the threads run, and forgets the queue.
LEMMA StartStopInv ==
  ASSUME SessionInv, StartWorking \/ StopWorking
  PROVE  SessionInv'
<1> USE DEF SessionInv, StartWorking, StopWorking, demuxerVars, decoderVars
<1>1. queue' = queue \/ queue' = <<>> OBVIOUS
<1>2. queue' \in Seq(Frames) /\ Len(queue') <= QueueSize
  <2>1. queue \in Seq(Frames) /\ Len(queue) <= QueueSize BY DEF TypeOK
  <2>2. <<>> \in Seq(Frames) /\ Len(<<>>) <= QueueSize BY Emptied, SessionAssumption
  <2> QED BY <1>1, <2>1, <2>2
<1>3. TypeOK'
  <2>1. {end_of_file', got_key_frame', opened', working'} \subseteq BOOLEAN BY DEF TypeOK
  <2> QED BY <1>2, <2>1 DEF TypeOK
<1>4. CodecKeptUp' BY DEF CodecKeptUp, Ready
<1>5. Working' BY DEF Working
<1>6. PicturesFollow'
  <2> SUFFICES ASSUME opened PROVE FramesInOrder' /\ ShownFirst' BY DEF PicturesFollow
  <2>1. FramesInOrder /\ ShownFirst BY DEF PicturesFollow
  <2>2. ToCome' \subseteq ToCome
    <3>1. CASE queue' = queue BY <3>1 DEF ToCome, Packets
    <3>2. CASE queue' = <<>> BY <3>2, Emptied DEF ToCome, Packets
    <3> QED BY <1>1, <3>1, <3>2
  <2>3. /\ \A i \in DOMAIN queue' : OfOpenFile(queue'[i])
        /\ \A i, j \in DOMAIN queue' : i < j => queue'[i].index < queue'[j].index
    BY <1>1, <2>1, Emptied DEF FramesInOrder
  <2>4. FramesInOrder'
    BY <2>1, <2>2, <2>3 DEF FramesInOrder, OfOpenFile, FrameOf, Packets
  <2>5. ShownFirst' BY <2>1, <2>2 DEF ShownFirst, Packets
  <2> QED BY <2>4, <2>5
<1>7. ChosenStreamIsOfOpenFile' BY DEF ChosenStreamIsOfOpenFile
<1> QED BY <1>3, <1>4, <1>5, <1>6, <1>7

\* What read_frame returns is the packet it has gone past, if it returns one.
LEMMA FrameRead ==
  ASSUME SessionInv, working, ReadFrame
  PROVE  /\ opened /\ context' = context /\ context \in DOMAIN Media /\ opens \in Nat
         /\ position \in Nat /\ position' \in {position, position + 1}
         /\ position' <= Len(Packets) /\ Len(Packets) \in Nat
         /\ {end_of_file', got_key_frame'} \subseteq BOOLEAN
         /\ streams' = streams /\ opens' = opens
         /\ frame' # NoFrame => position' = position + 1 /\ frame' = FrameOf(position + 1)
         /\ frame' \in Frames \union {NoFrame}
<1>1. /\ opened /\ context # NoContext /\ context \in DOMAIN Media /\ opens \in Nat
      /\ position \in Nat /\ position <= Len(Packets)
      /\ {end_of_file, got_key_frame} \subseteq BOOLEAN
  BY DEF SessionInv, TypeOK, Working, Packets
<1>2. Len(Packets) \in Nat BY <1>1, StreamsOfFile DEF Packets
<1>3. CASE TryAgain BY <1>1, <1>2, <1>3 DEF TryAgain
<1>4. CASE ReadFails BY <1>1, <1>2, <1>4 DEF ReadFails
<1>5. CASE ReadPacket
  <2>1. position' = position + 1 /\ position + 1 \in 1..Len(Packets) /\ position + 1 <= Len(Packets)
    BY <1>1, <1>2, <1>5 DEF ReadPacket, AtEnd
  <2>2. Packets[position + 1].key \in BOOLEAN /\ FrameOf(position + 1) \in Frames
    BY <1>1, <2>1, FrameOfPacket
  <2>3. /\ context' = context /\ streams' = streams /\ opens' = opens /\ end_of_file' = end_of_file
        /\ got_key_frame' = (got_key_frame \/ Packets[position + 1].key)
        /\ frame' = IF LargeEnough(Packets[position + 1].size) THEN FrameOf(position + 1) ELSE NoFrame
    BY <1>5, <2>1 DEF ReadPacket
  <2>4. {end_of_file', got_key_frame'} \subseteq BOOLEAN BY <1>1, <2>2, <2>3
  <2>5. frame' \in Frames \union {NoFrame} /\ (frame' # NoFrame => frame' = FrameOf(position + 1))
    BY <2>2, <2>3
  <2> QED BY <1>1, <1>2, <2>1, <2>3, <2>4, <2>5
<1> QED BY <1>3, <1>4, <1>5 DEF ReadFrame

\* A packet just read is one of those to come, and the last of those queued.
LEMMA ReadCompressedFrameInv ==
  ASSUME SessionInv, ReadCompressedFrame
  PROVE  SessionInv'
<1> USE DEF SessionInv
<1>1. /\ working /\ ReadFrame /\ queue' = Enqueued(frame')
      /\ chosen' = chosen /\ opened' = opened /\ working' = working /\ shown' = shown
      /\ codec' = codec /\ held' = held /\ picture' = picture
  BY DEF ReadCompressedFrame, decoderVars
<1>2. /\ opened /\ context' = context /\ context \in DOMAIN Media /\ opens \in Nat
      /\ position \in Nat /\ position' \in {position, position + 1} /\ position' \in Nat
      /\ position' <= Len(Packets) /\ Len(Packets) \in Nat
      /\ {end_of_file', got_key_frame'} \subseteq BOOLEAN
      /\ streams' = streams /\ opens' = opens
      /\ frame' \in Frames \union {NoFrame}
  BY <1>1, FrameRead
<1>3. frame' # NoFrame => position' = position + 1 /\ frame' = FrameOf(position + 1)
  BY <1>1, FrameRead
<1>4. queue \in Seq(Frames) /\ Len(queue) <= QueueSize /\ Len(queue) \in Nat /\ QueueSize \in Nat
  BY SessionAssumption DEF TypeOK
<1>5. \/ queue' = queue
      \/ frame' # NoFrame /\ Len(queue) < QueueSize /\ queue' = Append(queue, frame')
  BY <1>1, <1>4 DEF Enqueued
<1>6. queue' \in Seq(Frames) /\ Len(queue') <= QueueSize
  BY <1>2, <1>4, <1>5, AppendFrame
<1>7. TypeOK'
  <2>1. {opened', working'} \subseteq BOOLEAN BY <1>1 DEF TypeOK
  <2>2. context' # NoContext => position' <= Len(Media[context'].packets) BY <1>2 DEF Packets
  <2> QED BY <1>1, <1>2, <1>6, <2>1, <2>2 DEF TypeOK
<1>8. CodecKeptUp' BY <1>1 DEF CodecKeptUp, Ready
<1>9. Working' BY <1>1, <1>2 DEF Working
<1>10. PicturesFollow'
  <2>1. FramesInOrder /\ ShownFirst /\ (shown # NoPicture => shown.opening <= opens)
    BY <1>2 DEF PicturesFollow
  <2>2. Packets' = Packets /\ \A k : FrameOf(k)' = FrameOf(k) BY <1>2 DEF FrameOf, Packets
  <2>3. ASSUME NEW f, OfOpenFile(f) PROVE f.index \in 1..position' /\ f = FrameOf(f.index)
    BY <1>2, <2>3 DEF OfOpenFile
  <2>4. /\ ToCome' \subseteq ToCome
        /\ \A i \in DOMAIN queue' : queue'[i].index \in 1..position' /\ queue'[i] = FrameOf(queue'[i].index)
        /\ \A i, j \in DOMAIN queue' : i < j => queue'[i].index < queue'[j].index
    <3>1. /\ \A i \in DOMAIN queue : queue[i].index \in 1..position' /\ queue[i] = FrameOf(queue[i].index)
          /\ \A i \in DOMAIN queue : queue[i].index \in 1..position
          /\ \A i, j \in DOMAIN queue : i < j => queue[i].index < queue[j].index
      BY <2>1, <2>3 DEF FramesInOrder, OfOpenFile
    <3>2. CASE queue' = queue
      BY <1>2, <2>2, <3>1, <3>2 DEF ToCome
    <3>3. CASE frame' # NoFrame /\ Len(queue) < QueueSize /\ queue' = Append(queue, frame')
      <4>1. PICK f : f = frame' OBVIOUS
      <4>2. PICK q : q = queue' OBVIOUS
      <4>3. /\ f \in Frames /\ position' = position + 1 /\ f = FrameOf(position + 1)
            /\ position + 1 \in 1..Len(Packets)
        BY <1>2, <1>3, <3>3, <4>1
      <4>4. f.index = position + 1 BY <1>2, <4>3, FrameOfPacket
      <4>5. /\ \A i \in DOMAIN queue : q[i] = queue[i]
            /\ DOMAIN queue = 1..Len(queue) /\ DOMAIN q = 1..Len(queue) + 1
            /\ q[Len(queue) + 1] = f
            /\ \A i \in DOMAIN q : i \in DOMAIN queue \/ i = Len(queue) + 1
        BY <1>4, <3>3, <4>1, <4>2, <4>3, AppendFrame
      <4>6. \A i \in DOMAIN q : q[i].index \in 1..position' /\ q[i] = FrameOf(q[i].index)
        <5>1. position + 1 \in 1..position' BY <1>2, <4>3
        <5> QED BY <3>1, <4>3, <4>4, <4>5, <5>1
      <4>7. ASSUME NEW i \in DOMAIN q, NEW j \in DOMAIN q, i < j PROVE q[i].index < q[j].index
        <5>1. i \in DOMAIN queue BY <1>4, <4>5, <4>7
        <5>2. CASE j \in DOMAIN queue BY <3>1, <4>5, <4>7, <5>1, <5>2
        <5>3. CASE j = Len(queue) + 1
          <6>1. queue[i].index \in 1..position BY <3>1, <5>1
          <6> QED BY <1>2, <4>4, <4>5, <5>1, <5>3, <6>1
        <5> QED BY <4>5, <5>2, <5>3
      <4>8. ToCome' \subseteq ToCome
        <5>1. ASSUME NEW k \in ToCome' PROVE k \in ToCome
          <6>1. k \in {q[i].index : i \in DOMAIN q} \/ k \in position' + 1..Len(Packets)
            BY <2>2, <4>2, <5>1 DEF ToCome
          <6>2. CASE k \in position' + 1..Len(Packets)
            <7>1. k \in position + 1..Len(Packets) BY <1>2, <4>3, <6>2
            <7> QED BY <7>1 DEF ToCome
          <6>3. ASSUME NEW i \in DOMAIN q, k = q[i].index PROVE k \in ToCome
            <7>1. CASE i \in DOMAIN queue BY <4>5, <6>3, <7>1 DEF ToCome
            <7>2. CASE i = Len(queue) + 1
              <8>1. k \in position + 1..Len(Packets) BY <1>2, <4>3, <4>4, <4>5, <6>3, <7>2
              <8> QED BY <8>1 DEF ToCome
            <7> QED BY <4>5, <6>3, <7>1, <7>2
          <6> QED BY <6>1, <6>2, <6>3
        <5> QED BY <5>1
      <4> QED BY <4>2, <4>6, <4>7, <4>8
    <3> QED BY <1>5, <3>2, <3>3
  <2>5. FramesInOrder'
    <3>1. \A f \in held : /\ f.index \in 1..position' /\ f = FrameOf(f.index) /\ f.stream.codec = codec
                          /\ \A k \in ToCome' : f.index < k
      BY <2>1, <2>3, <2>4 DEF FramesInOrder
    <3> QED BY <1>1, <2>2, <2>4, <3>1 DEF FramesInOrder, OfOpenFile
  <2>6. ShownFirst'
    BY <1>1, <1>2, <2>1, <2>2, <2>4 DEF ShownFirst
  <2> QED BY <1>1, <1>2, <2>1, <2>5, <2>6 DEF PicturesFollow
<1>11. ChosenStreamIsOfOpenFile' BY <1>1, <1>2 DEF ChosenStreamIsOfOpenFile
<1> QED BY <1>7, <1>8, <1>9, <1>10, <1>11

\* The three things a decode does to what the codec holds: nothing, one frame more,
\* or one more and the earliest of them out.
Kept == held' = held /\ picture' = NoPicture
TakenIn(pictures) == held' = pictures /\ picture' = NoPicture /\ ~Ready(pictures)
Reordered(pictures) ==
  /\ held' = pictures \ {Earliest(pictures)} /\ picture' = Picture(Earliest(pictures))
  /\ Ready(pictures)

\* A frame decoded is refused, taken in with nothing to show yet, or taken in for the
\* earliest picture of those held and its own.
LEMMA DecodeCases ==
  ASSUME NEW f, CodecKeptUp, Decode(f)
  PROVE  /\ codec' = codec
         /\ \/ Kept
            \/ f.stream.codec = codec /\ (TakenIn(held \union {f}) \/ Reordered(held \union {f}))
<1>1. CASE NotSent(f) BY <1>1 DEF NotSent, Kept
<1>2. CASE SendAndReceive(f, TRUE)
  <2>1. f.stream.codec = codec /\ codec' = codec BY <1>2 DEF SendAndReceive, Takes
  <2>2. TakenIn(held \union {f}) \/ Reordered(held \union {f})
    BY <1>2 DEF SendAndReceive, TakenIn, Reordered
  <2> QED BY <2>1, <2>2
<1>3. CASE SendAndReceive(f, FALSE)
  <2>1. held \union {} = held OBVIOUS
  <2> QED BY <1>3, <2>1 DEF SendAndReceive, Kept, CodecKeptUp
<1> QED BY <1>1, <1>2, <1>3 DEF Decode

\* A frame leaves the queue for the codec, and the earliest one there is shown.
LEMMA DecodeCompressedFrameInv ==
  ASSUME SessionInv, DecodeCompressedFrame
  PROVE  /\ SessionInv'
         /\ shown' # shown =>
              /\ shown'.opening = opens
              /\ shown # NoPicture => shown.opening < opens \/ shown.pts < shown'.pts
<1> USE DEF SessionInv
<1>1. /\ working /\ queue # <<>> /\ Decode(Head(queue)) /\ queue' = Tail(queue)
      /\ shown' = (IF picture' = NoPicture THEN shown ELSE picture')
      /\ chosen' = chosen /\ opened' = opened /\ working' = working
      /\ context' = context /\ position' = position /\ streams' = streams /\ frame' = frame
      /\ end_of_file' = end_of_file /\ got_key_frame' = got_key_frame /\ opens' = opens
  BY DEF DecodeCompressedFrame, demuxerVars
<1>2. opened /\ context # NoContext /\ context \in DOMAIN Media /\ codec = CodecFor("H264")
  BY <1>1 DEF Working, TypeOK
<1>3. /\ queue \in Seq(Frames) /\ Len(queue) <= QueueSize /\ Len(queue) \in Nat
      /\ held \subseteq Frames /\ IsFiniteSet(held) /\ Cardinality(held) \in Nat
      /\ Cardinality(held) <= Delay
      /\ QueueSize \in Nat /\ Delay \in Nat /\ position \in Nat /\ opens \in Nat
      /\ position <= Len(Packets) /\ Len(Packets) \in Nat
  <2>1. IsFiniteSet(held) BY DEF TypeOK
  <2>2. Cardinality(held) \in Nat BY <2>1, FS_CardinalityType
  <2>3. Cardinality(held) <= Delay BY <2>2, DelayAssumption DEF CodecKeptUp, Ready
  <2>4. position <= Len(Packets) /\ Len(Packets) \in Nat
    BY <1>2, StreamsOfFile DEF TypeOK, Packets
  <2> QED BY <2>1, <2>2, <2>3, <2>4, SessionAssumption, DelayAssumption DEF TypeOK
<1>4. PICK f : f = Head(queue) OBVIOUS
<1>5. PICK rest : rest = Tail(queue) OBVIOUS
<1>6. /\ f \in Frames /\ f = queue[1] /\ 1 \in DOMAIN queue
      /\ rest \in Seq(Frames) /\ Len(rest) = Len(queue) - 1
      /\ \A i \in DOMAIN rest : i \in Nat /\ i + 1 \in DOMAIN queue /\ 1 < i + 1 /\ rest[i] = queue[i + 1]
  BY <1>1, <1>3, <1>4, <1>5, TailFrames
<1>7. queue' = rest /\ Len(rest) <= QueueSize BY <1>1, <1>3, <1>5, <1>6
<1>8. PICK P : P = held \union {f} OBVIOUS
<1>9. codec' = codec /\ (Kept \/ (f.stream.codec = codec /\ (TakenIn(P) \/ Reordered(P))))
  BY <1>1, <1>4, <1>8, DecodeCases
<1>10. Packets' = Packets /\ \A k : FrameOf(k)' = FrameOf(k) BY <1>1 DEF FrameOf, Packets
\* The packets still to come are those behind the one decoded.
<1>11. /\ FramesInOrder /\ ShownFirst /\ (shown # NoPicture => shown.opening <= opens)
  BY <1>2 DEF PicturesFollow
<1>12. /\ \A i \in DOMAIN queue : queue[i].index \in 1..position /\ OfOpenFile(queue[i])
       /\ \A i, j \in DOMAIN queue : i < j => queue[i].index < queue[j].index
       /\ f.index \in 1..position /\ f = FrameOf(f.index)
  BY <1>6, <1>11 DEF FramesInOrder, OfOpenFile
<1>13. PICK coming : coming = {rest[i].index : i \in DOMAIN rest} \union position + 1..Len(Packets) OBVIOUS
<1>14. ToCome' = coming BY <1>1, <1>7, <1>10, <1>13 DEF ToCome
<1>15. ASSUME NEW k \in coming PROVE k \in ToCome /\ f.index < k /\ k \in 1..Len(Packets)
  <2>1. CASE k \in position + 1..Len(Packets)
    BY <1>3, <1>12, <2>1 DEF ToCome
  <2>2. ASSUME NEW i \in DOMAIN rest, k = rest[i].index PROVE k \in ToCome /\ f.index < k /\ k \in 1..Len(Packets)
    <3>1. i + 1 \in DOMAIN queue /\ 1 < i + 1 /\ k = queue[i + 1].index BY <1>6, <2>2
    <3>2. queue[1].index < queue[i + 1].index /\ queue[i + 1].index \in 1..position
      BY <1>6, <1>12, <3>1
    <3> QED BY <1>3, <1>6, <3>1, <3>2 DEF ToCome
  <2> QED BY <1>13, <1>15, <2>1, <2>2
<1>16. /\ \A i \in DOMAIN rest : OfOpenFile(rest[i])
       /\ \A i, j \in DOMAIN rest : i < j => rest[i].index < rest[j].index
  <2>1. ASSUME NEW i \in DOMAIN rest, NEW j \in DOMAIN rest, i < j PROVE rest[i].index < rest[j].index
    <3>1. i + 1 \in DOMAIN queue /\ j + 1 \in DOMAIN queue /\ i + 1 < j + 1 BY <1>6, <2>1
    <3>2. queue[i + 1].index < queue[j + 1].index BY <1>12, <3>1
    <3> QED BY <1>6, <3>2
  <2> QED BY <1>6, <1>12, <2>1
\* What the codec has with the frame decoded.
<1>17. P \subseteq Frames /\ P # {} /\ IsFiniteSet(P)
  BY <1>3, <1>6, <1>8, FS_AddElement
<1>18. f \in P /\ \A g \in P : g = f \/ g \in held BY <1>8
<1>19. \A g \in held : /\ OfOpenFile(g) /\ g.stream.codec = codec
                       /\ g.index < f.index /\ \A k \in coming : g.index < k
  <2>1. f.index \in ToCome BY <1>6 DEF ToCome
  <2> QED BY <1>11, <1>15, <2>1 DEF FramesInOrder
<1>20. ASSUME f.stream.codec = codec
       PROVE  \A g \in P : /\ Given(g) /\ OfOpenFile(g) /\ g.stream.codec = codec
                           /\ \A k \in coming : g.index < k
  <2>1. ASSUME NEW g \in P
        PROVE  /\ OfOpenFile(g) /\ g.stream.codec = codec /\ \A k \in coming : g.index < k
    BY <1>12, <1>15, <1>18, <1>19, <1>20, <2>1 DEF OfOpenFile
  <2>2. ASSUME NEW g \in P PROVE Given(g)
    <3>1. g.index \in 1..position /\ g = FrameOf(g.index) /\ g.stream.codec = codec
      BY <2>1, <2>2 DEF OfOpenFile
    <3>2. g.index \in 1..Len(Packets) BY <1>3, <3>1
    <3> QED BY <1>2, <3>1, <3>2 DEF Given
  <2> QED BY <2>1, <2>2
<1>21. ASSUME f.stream.codec = codec, shown # NoPicture, shown.opening = opens
       PROVE  \A g \in P : shown.pts < g.pts
  <2>1. f.index \in ToCome BY <1>6 DEF ToCome
  <2>2. f.index \in 1..Len(Packets) /\ f.stream.codec = CodecFor("H264")
    BY <1>2, <1>3, <1>12, <1>21
  <2>3. Decodable(Media[context], f.index) /\ f.pts = Packets[f.index].pts
    BY <1>2, <1>3, <1>12, <2>2, FrameOfPacket
  <2>4. shown.pts < f.pts BY <1>11, <1>21, <2>1, <2>3 DEF ShownFirst
  <2> QED BY <1>11, <1>18, <1>21, <2>4 DEF ShownFirst
\* The picture that is received is the first of all.
<1>22. ASSUME f.stream.codec = codec, Reordered(P)
       PROVE  LET e == Earliest(P)
              IN  /\ e \in P /\ e \in Frames /\ e.opening = opens
                  /\ \A g \in P \ {e} : e.pts < g.pts
                  /\ \A k \in coming : Decodable(Media[context], k) => e.pts < Packets[k].pts
  <2>1. PICK e : e = Earliest(P) OBVIOUS
  <2>2. e \in P /\ \A g \in P : e.pts <= g.pts BY <1>17, <2>1, EarliestIsFirst
  <2>3. e \in Frames /\ \A g \in P : g.pts \in Nat BY <1>17, <2>2 DEF Frames
  <2>4. \A g \in P : /\ g.index \in 1..Len(Packets) /\ g = FrameOf(g.index)
                     /\ g.pts = Packets[g.index].pts /\ Decodable(Media[context], g.index)
                     /\ g.opening = opens
    <3> SUFFICES ASSUME NEW g \in P
                 PROVE  /\ g.index \in 1..Len(Packets) /\ g = FrameOf(g.index)
                        /\ g.pts = Packets[g.index].pts /\ Decodable(Media[context], g.index)
                        /\ g.opening = opens
      OBVIOUS
    <3>1. g.index \in 1..Len(Packets) /\ g = FrameOf(g.index) /\ g.stream.codec = CodecFor("H264")
      BY <1>20, <1>22 DEF Given
    <3> QED BY <1>2, <1>3, <3>1, FrameOfPacket
  <2>5. ASSUME NEW g \in P \ {e} PROVE e.pts < g.pts
    <3>1. e.index # g.index BY <2>2, <2>4, <2>5
    <3>2. e.pts # g.pts BY <1>2, <1>3, <2>2, <2>4, <2>5, <3>1, TimesDiffer
    <3> QED BY <2>2, <2>3, <2>5, <3>2
  <2>6. ASSUME NEW k \in coming, Decodable(Media[context], k) PROVE e.pts < Packets[k].pts
    <3>1. k \in 1..Len(Packets) BY <1>15, <2>6
    <3>2. Cardinality(P) > Delay BY <1>22 DEF Reordered, Ready
    <3>3. \A g \in P : Given(g) /\ g.index < k BY <1>20, <1>22, <2>6
    <3>4. PICK g \in P : g.pts < Packets[k].pts
      BY <1>2, <1>3, <1>17, <2>6, <3>1, <3>2, <3>3, FirstIsThere
    <3>5. Packets[k].pts \in Nat BY <1>2, <1>3, <3>1, FrameOfPacket
    <3> QED BY <2>2, <2>3, <3>4, <3>5
  <2> QED BY <2>1, <2>2, <2>3, <2>4, <2>5, <2>6
\* What each of the three cases leaves held and shown.
<1> DEFINE Ordered(frames, pic) ==
      /\ frames \subseteq Frames /\ IsFiniteSet(frames) /\ ~Ready(frames)
      /\ \A g \in frames : /\ OfOpenFile(g) /\ g.stream.codec = codec
                           /\ \A k \in coming : g.index < k
      /\ pic \in Pictures \union {NoPicture}
      /\ pic # NoPicture => pic.opening <= opens
      /\ pic # NoPicture /\ pic.opening = opens =>
           /\ \A g \in frames : pic.pts < g.pts
           /\ \A k \in coming : Decodable(Media[context], k) => pic.pts < Packets[k].pts
      /\ pic # shown => /\ pic.opening = opens
                        /\ shown # NoPicture => shown.opening < opens \/ shown.pts < pic.pts
<1>23. /\ shown \in Pictures \union {NoPicture}
       /\ shown # NoPicture => shown.opening \in Nat /\ shown.pts \in Nat
  BY DEF TypeOK, Pictures
<1>24. shown # NoPicture /\ shown.opening = opens =>
         \A k \in coming : Decodable(Media[context], k) => shown.pts < Packets[k].pts
  BY <1>11, <1>15 DEF ShownFirst
<1>25. ASSUME Kept PROVE Ordered(held, shown)
  BY <1>3, <1>11, <1>19, <1>23, <1>24 DEF ShownFirst, CodecKeptUp
<1>26. ASSUME f.stream.codec = codec, TakenIn(P) PROVE Ordered(P, shown)
  BY <1>11, <1>17, <1>20, <1>21, <1>23, <1>24, <1>26 DEF TakenIn
<1>27. ASSUME f.stream.codec = codec, Reordered(P)
       PROVE  /\ Ordered(P \ {Earliest(P)}, Picture(Earliest(P)))
              /\ Picture(Earliest(P)) \in Pictures /\ Picture(Earliest(P)) # NoPicture
  <2>1. PICK e : e = Earliest(P) OBVIOUS
  <2>2. /\ e \in P /\ e \in Frames /\ e.opening = opens
        /\ \A g \in P \ {e} : e.pts < g.pts
        /\ \A k \in coming : Decodable(Media[context], k) => e.pts < Packets[k].pts
    BY <1>22, <1>27, <2>1
  <2>3. PICK pic : pic = Picture(e) OBVIOUS
  <2>4. pic \in Pictures /\ pic # NoPicture /\ pic.opening = opens /\ pic.pts = e.pts
    BY <2>2, <2>3, PictureType
  <2>5. IsFiniteSet(P \ {e}) /\ ~Ready(P \ {e})
    <3>1. Cardinality(P) = Cardinality(held) \/ Cardinality(P) = Cardinality(held) + 1
      BY <1>3, <1>8, FS_AddElement
    <3>2. IsFiniteSet(P \ {e}) /\ Cardinality(P \ {e}) = Cardinality(P) - 1
      BY <1>17, <2>2, FS_RemoveElement
    <3> QED BY <1>3, <3>1, <3>2 DEF Ready
  <2>6. P \ {e} \subseteq Frames BY <1>17
  <2>7. \A g \in P \ {e} : /\ OfOpenFile(g) /\ g.stream.codec = codec
                           /\ \A k \in coming : g.index < k
    BY <1>20, <1>27
  <2>8. shown # NoPicture => shown.opening < opens \/ shown.pts < pic.pts
    BY <1>3, <1>11, <1>21, <1>23, <1>27, <2>2, <2>4
  <2>9. Ordered(P \ {e}, pic) BY <1>3, <2>2, <2>4, <2>5, <2>6, <2>7, <2>8
  <2> HIDE DEF Ordered
  <2> QED BY <2>1, <2>3, <2>4, <2>9
<1>28. PICK pic : pic = shown' OBVIOUS
<1>29. PICK frames : frames = held' OBVIOUS
<1>30. Ordered(frames, pic) /\ picture' \in Pictures \union {NoPicture}
  <2> HIDE DEF Ordered
  <2>1. CASE Kept BY <1>1, <1>25, <1>28, <1>29, <2>1 DEF Kept
  <2>2. CASE f.stream.codec = codec /\ TakenIn(P)
    BY <1>1, <1>26, <1>28, <1>29, <2>2 DEF TakenIn
  <2>3. CASE f.stream.codec = codec /\ Reordered(P)
    BY <1>1, <1>27, <1>28, <1>29, <2>3 DEF Reordered
  <2> QED BY <1>9, <2>1, <2>2, <2>3
<1>31. TypeOK'
  <2>1. frames \subseteq Frames /\ IsFiniteSet(frames) /\ pic \in Pictures \union {NoPicture}
    BY <1>30
  <2> HIDE DEF Ordered
  <2>2. frame' \in Frames \union {NoFrame} /\ {end_of_file', got_key_frame', opened', working'} \subseteq BOOLEAN
    BY <1>1 DEF TypeOK
  <2>3. context' # NoContext => position' <= Len(Media[context'].packets) BY <1>1, <1>3 DEF Packets
  <2> QED BY <1>1, <1>6, <1>7, <1>9, <1>28, <1>29, <1>30, <2>1, <2>2, <2>3 DEF TypeOK
<1>32. CodecKeptUp' BY <1>29, <1>30 DEF CodecKeptUp, Ready
<1>33. Working' BY <1>1, <1>9 DEF Working
<1>34. PicturesFollow'
  <2>1. FramesInOrder'
    <3>1. \A g \in frames : /\ OfOpenFile(g) /\ g.stream.codec = codec
                            /\ \A k \in coming : g.index < k
      BY <1>30
    <3> HIDE DEF Ordered
    <3> QED BY <1>1, <1>7, <1>9, <1>10, <1>14, <1>16, <1>29, <3>1 DEF FramesInOrder, OfOpenFile
  <2>2. ShownFirst'
    <3>1. pic # NoPicture /\ pic.opening = opens =>
            /\ \A g \in frames : pic.pts < g.pts
            /\ \A k \in coming : Decodable(Media[context], k) => pic.pts < Packets[k].pts
      BY <1>30
    <3> HIDE DEF Ordered
    <3> QED BY <1>1, <1>10, <1>14, <1>28, <1>29, <3>1 DEF ShownFirst
  <2>3. pic # NoPicture => pic.opening <= opens BY <1>30
  <2> HIDE DEF Ordered
  <2> QED BY <1>1, <1>28, <2>1, <2>2, <2>3 DEF PicturesFollow
<1>35. ChosenStreamIsOfOpenFile' BY <1>1 DEF ChosenStreamIsOfOpenFile
<1>36. pic # shown => /\ pic.opening = opens
                      /\ shown # NoPicture => shown.opening < opens \/ shown.pts < pic.pts
  BY <1>30
<1> HIDE DEF Ordered
<1> QED BY <1>28, <1>31, <1>32, <1>33, <1>34, <1>35, <1>36

\* A step of no action.
LEMMA StutterInv ==
  ASSUME SessionInv, UNCHANGED vars
  PROVE  SessionInv'
<1> USE DEF SessionInv, vars, demuxerVars, decoderVars, importerVars
<1>1. TypeOK' BY DEF TypeOK
<1>2. CodecKeptUp' /\ Working' BY DEF CodecKeptUp, Ready, Working
<1>3. PicturesFollow'
  BY DEF PicturesFollow, FramesInOrder, ShownFirst, OfOpenFile, ToCome, FrameOf, Packets
<1>4. ChosenStreamIsOfOpenFile' BY DEF ChosenStreamIsOfOpenFile
<1> QED BY <1>1, <1>2, <1>3, <1>4

\* Every step keeps the invariant.
LEMMA NextInv == SessionInv /\ [Next]_vars => SessionInv'
<1> SUFFICES ASSUME SessionInv, [Next]_vars PROVE SessionInv' OBVIOUS
<1>1. ASSUME NEW file \in DOMAIN Media, NEW available \in BOOLEAN, DemuxerFails(file, available)
      PROVE  SessionInv'
  BY <1>1, OpenFailsInv
<1>2. ASSUME NEW file \in DOMAIN Media, NoVideoStream(file) PROVE SessionInv' BY <1>2, OpenFailsInv
<1>3. ASSUME NEW file \in DOMAIN Media, OpenDecoder(file) PROVE SessionInv' BY <1>3, OpenDecoderInv
<1>4. CASE StartWorking \/ StopWorking BY <1>4, StartStopInv
<1>5. CASE ReadCompressedFrame BY <1>5, ReadCompressedFrameInv
<1>6. CASE DecodeCompressedFrame BY <1>6, DecodeCompressedFrameInv
<1>7. CASE UNCHANGED vars BY <1>7, StutterInv
<1> QED BY <1>1, <1>2, <1>3, <1>4, <1>5, <1>6, <1>7 DEF Next

(***************************************************************************)
(* The theorems.                                                           *)
(***************************************************************************)
\* The inductive invariant holds over any opens, stops and restarts, of files with
\* any streams and packets, whatever the codec makes of them.
THEOREM SessionInvariant == Spec => []SessionInv
<1>1. Init => SessionInv BY InitInv
<1>2. SessionInv /\ [Next]_vars => SessionInv' BY NextInv
<1> QED BY <1>1, <1>2, PTL DEF Spec

\* The demuxer stays within the file and the queue within its room.
THEOREM SessionTypes == Spec => []TypeOK
<1>1. SessionInv => TypeOK BY DEF SessionInv
<1> QED BY <1>1, SessionInvariant, PTL

\* The importer decodes a stream of the file that is open, although the demuxer's
\* list has those of every file before it.
THEOREM SessionChoosesOpenFile == Spec => []ChosenStreamIsOfOpenFile
<1>1. SessionInv => ChosenStreamIsOfOpenFile BY DEF SessionInv
<1> QED BY <1>1, SessionInvariant, PTL

\* One receive for each packet is enough for a codec of any delay.
THEOREM SessionCodecKeptUp == Spec => []CodecKeptUp
<1>1. SessionInv => CodecKeptUp BY DEF SessionInv
<1> QED BY <1>1, SessionInvariant, PTL

\* The pictures shown follow one another as they are to be presented, though the
\* packets come in another order.
THEOREM SessionPicturesInOrder == Spec => PicturesInOrder
<1> DEFINE Follows ==
      shown' # shown =>
        /\ shown'.opening = opens
        /\ shown # NoPicture => shown.opening < opens \/ shown.pts < shown'.pts
<1>1. SessionInv /\ [Next]_vars => [Follows]_vars
  <2> SUFFICES ASSUME SessionInv, Next, shown' # shown PROVE Follows OBVIOUS
  <2>1. DecodeCompressedFrame
    BY DEF Next, DemuxerFails, NoVideoStream, OpenDecoder, Opening, StartWorking, StopWorking,
           ReadCompressedFrame
  <2> QED BY <2>1, DecodeCompressedFrameInv
<1>2. Spec => [][Follows]_vars BY <1>1, SessionInvariant, PTL DEF Spec
<1> QED BY <1>2 DEF PicturesInOrder
===============================================================================
