----------------------------- MODULE RawVideoFrame -----------------------------
(***************************************************************************)
(* media_base::RawVideoFrame (media_base/raw_video_frame.cpp): a picture   *)
(* that owns one buffer for each of its planes.  Pictures are made by the  *)
(* decoder, copied by the importer and deleted by either and by main, over *)
(* one heap.                                                               *)
(***************************************************************************)
EXTENDS Integers, Sequences, Functions

CONSTANTS Formats,    \* pixel formats of pictures
          Objects,    \* the variables that can hold a RawVideoFrame
          Heights,    \* heights of pictures
          LineSizes,  \* bytes of a line of a plane
          Planes,     \* what the data of a plane may be
          Buffers,    \* the addresses malloc may return: how many is a bound
          Gone        \* what a variable holds after delete

VARIABLES
  frames,  \* the RawVideoFrame in each variable, or Gone
  heap     \* allocated buffer |-> its bytes and what they are

vars == <<frames, heap>>

Init == frames = [o \in Objects |-> Gone] /\ heap = <<>>

\* The formats PushFrameData does not reject by assert(false).
PixelFormats == {"YUV420P", "RGB24", "BGR24"}

ASSUME FormatAssumption == Formats \subseteq PixelFormats /\ Heights \subseteq Int /\ LineSizes \subseteq Int

LineCount(pixel_format, lineIndex, height) ==
  IF pixel_format = "YUV420P" /\ lineIndex > 0 THEN height \div 2 ELSE height

\* n calls of malloc: addresses not in use, in any order.
Malloc(h, n) == Injection(1..n, Buffers \ DOMAIN h)

Data(buffers) == {buffers[k].data : k \in DOMAIN buffers}

Construct(o, pixel_format, height) ==
  /\ frames[o] = Gone
  /\ frames' = [frames EXCEPT ![o] = [pixel_format |-> pixel_format, height |-> height, buffers |-> <<>>]]
  /\ UNCHANGED heap

\* The buffers of planes with these lines, pushed behind the first k of a picture.
Pushed(pixel_format, height, k, line_sizes, addresses) ==
  [n \in DOMAIN addresses |-> [data |-> addresses[n], line_size |-> line_sizes[n],
                               line_count |-> LineCount(pixel_format, k + n - 1, height)]]

Bytes(buffer) == buffer.line_size * buffer.line_count

\* The heap with the planes written to their buffers.
Written(h, new, planes) ==
  [b \in DOMAIN h \union Data(new) |->
     IF b \in Data(new) THEN LET n == CHOOSE n \in DOMAIN new : new[n].data = b
                             IN [plane |-> planes[n], bytes |-> Bytes(new[n])]
                        ELSE h[b]]

PushFrameData(o, line_size, plane) ==
  /\ frames[o] # Gone /\ Len(frames[o].buffers) < 3
  /\ \E addresses \in Malloc(heap, 1) :
       LET f == frames[o]
           new == Pushed(f.pixel_format, f.height, Len(f.buffers), <<line_size>>, addresses)
       IN /\ frames' = [frames EXCEPT ![o].buffers = @ \o new]
          /\ heap' = Written(heap, new, <<plane>>)

\* The frame_buffers of the picture in a variable, if there is one.
PlanesOf(o) == IF frames[o] = Gone THEN <<>> ELSE frames[o].buffers

FreeFrameBuffer(o) == [b \in DOMAIN heap \ Data(PlanesOf(o)) |-> heap[b]]

\* Variants: the buffers are shared; those there were are not cleared.
CopyPointers(o, source) ==
  /\ frames' = [frames EXCEPT ![o] = source]
  /\ heap' = FreeFrameBuffer(o)

CopyBehind(o, source) ==
  \E addresses \in Malloc(heap, Len(source.buffers)) :
    LET old == source.buffers
        new == Pushed(source.pixel_format, source.height, Len(PlanesOf(o)),
                      [n \in DOMAIN old |-> old[n].line_size], addresses)
    IN /\ frames' = [frames EXCEPT ![o] = [source EXCEPT !.buffers = PlanesOf(o) \o new]]
       /\ heap' = Written(heap, new, [n \in DOMAIN old |-> heap[old[n].data].plane])

\* CopyInfo: free what there is, then push the planes of the other one by one.
CopyInfo(o, source) ==
  \E addresses \in Malloc(FreeFrameBuffer(o), Len(source.buffers)) :
    LET old == source.buffers
        new == Pushed(source.pixel_format, source.height, 0,
                      [n \in DOMAIN old |-> old[n].line_size], addresses)
    IN /\ frames' = [frames EXCEPT ![o] = [source EXCEPT !.buffers = new]]
       /\ heap' = Written(FreeFrameBuffer(o), new, [n \in DOMAIN old |-> heap[old[n].data].plane])

CopyConstruct(o, other) == frames[o] = Gone /\ frames[other] # Gone /\ CopyInfo(o, frames[other])

\* Assignment, but of an object to itself.
Assign(o, other) == o # other /\ frames[o] # Gone /\ frames[other] # Gone /\ CopyInfo(o, frames[other])

Destroy(o) ==
  /\ frames[o] # Gone
  /\ frames' = [frames EXCEPT ![o] = Gone]
  /\ heap' = FreeFrameBuffer(o)

Next == \E o \in Objects :
  \/ \E pixel_format \in Formats, height \in Heights : Construct(o, pixel_format, height)
  \/ \E line_size \in LineSizes, plane \in Planes : PushFrameData(o, line_size, plane)
  \/ \E other \in Objects : CopyConstruct(o, other) \/ Assign(o, other)
  \/ Destroy(o)

Spec == Init /\ [][Next]_vars

(***************************************************************************)
(* Properties.                                                             *)
(***************************************************************************)
FrameBuffers == [data : Buffers, line_size : LineSizes, line_count : Int]
RawVideoFrames == [pixel_format : Formats, height : Heights, buffers : Seq(FrameBuffers)]

ASSUME GoneAssumption == Gone \notin RawVideoFrames

\* Types of the state variables.
TypeOK ==
  /\ frames \in [Objects -> RawVideoFrames \union {Gone}]
  /\ DOMAIN heap \subseteq Buffers
  /\ heap \in [DOMAIN heap -> [plane : Planes, bytes : Int]]

\* Every allocated buffer belongs to one plane of one picture, and every plane
\* has an allocated one: none is leaked, shared, freed twice or used after that.
\* What a copy reads of it, "frame data with length lineSize * lineCount"
\* (raw_video_frame.h:10), is what was allocated.
BuffersOwnedOnce ==
  /\ DOMAIN heap = UNION {Data(PlanesOf(o)) : o \in Objects}
  /\ \A o, p \in Objects : o # p => Data(PlanesOf(o)) \intersect Data(PlanesOf(p)) = {}
  /\ \A o \in Objects : \A k, l \in DOMAIN PlanesOf(o) :
       PlanesOf(o)[k].data = PlanesOf(o)[l].data => k = l
  /\ \A o \in Objects : \A k \in DOMAIN PlanesOf(o) :
       heap[PlanesOf(o)[k].data].bytes = Bytes(PlanesOf(o)[k])

\* A picture's planes have the lines its format and height give them, whichever
\* picture they were copied from and whatever there was before.
PlanesFitFormat ==
  \A o \in Objects : \A k \in DOMAIN PlanesOf(o) :
    PlanesOf(o)[k].line_count = LineCount(frames[o].pixel_format, k - 1, frames[o].height)

\* The inductive invariant.
PicturesInv == TypeOK /\ BuffersOwnedOnce /\ PlanesFitFormat

\* What there is to see in a picture.
Looks(o) == <<frames[o].pixel_format, frames[o].height,
              [k \in DOMAIN frames[o].buffers |->
                 <<frames[o].buffers[k].line_size, frames[o].buffers[k].line_count,
                   heap[frames[o].buffers[k].data].plane>>]>>

\* A copy looks like the original, plane by plane.
CopiesAreEqual ==
  [][\A o \in Objects, other \in Objects : (CopyConstruct(o, other) \/ Assign(o, other))
       => Looks(o)' = Looks(other)]_vars
==============================================================================
