------------------------- MODULE RawVideoFrameProofs -------------------------
(***************************************************************************)
(* Proofs that no buffer of a picture is leaked, shared, freed twice or    *)
(* used after that, and that a copy looks like its original, for any       *)
(* number of pictures and planes and any memory.                           *)
(*                                                                         *)
(* All the operations do the same to a variable: what its picture owned is *)
(* freed or kept by the picture that is there next.  Replaces says this    *)
(* once, and each operation is shown to be one.                            *)
(***************************************************************************)
EXTENDS RawVideoFrame, SequenceTheorems, TLAPS

\* A function that is a sequence.
LEMMA SeqIs ==
  ASSUME NEW S, NEW n \in Nat, NEW s \in [1..n -> S]
  PROVE  s \in Seq(S) /\ Len(s) = n
<1>1. s \in Seq(S) BY SMT
<1>2. DOMAIN s = 1..n /\ DOMAIN s = 1..Len(s) /\ Len(s) \in Nat BY <1>1
<1> QED BY <1>1, <1>2

\* Lines and bytes are numbers.
LEMMA LineCountType ==
  ASSUME NEW pixel_format, NEW k \in Int, NEW height \in Heights
  PROVE  LineCount(pixel_format, k, height) \in Int
BY FormatAssumption DEF LineCount

\* The bytes of a plane are a number.
LEMMA BytesType ==
  ASSUME NEW buffer \in FrameBuffers
  PROVE  Bytes(buffer) \in Int
<1>1. PICK x : x = buffer.line_size OBVIOUS
<1>2. PICK y : y = buffer.line_count OBVIOUS
<1>3. x \in Int /\ y \in Int BY <1>1, <1>2, FormatAssumption DEF FrameBuffers
<1>4. x * y \in Int BY <1>3
<1> QED BY <1>1, <1>2, <1>4 DEF Bytes

(***************************************************************************)
(* What is pushed and what is written.                                     *)
(***************************************************************************)
\* Planes with a buffer each.
Separate(buffers) ==
  \A k, l \in DOMAIN buffers : buffers[k].data = buffers[l].data => k = l

\* new is n planes of these line sizes, pushed behind the first k on addresses of S.
PushedOn(S, new, n, pixel_format, height, k, line_sizes, addresses) ==
  /\ n \in Nat /\ k \in Nat /\ height \in Heights
  /\ S \subseteq Buffers /\ addresses \in Injection(1..n, S)
  /\ \A i \in 1..n : line_sizes[i] \in LineSizes
  /\ new = Pushed(pixel_format, height, k, line_sizes, addresses)

\* Planes pushed behind the first k, on addresses that are not in use.
LEMMA PushedPlanes ==
  ASSUME NEW S, NEW new, NEW n, NEW pixel_format, NEW height, NEW k, NEW line_sizes, NEW addresses,
         PushedOn(S, new, n, pixel_format, height, k, line_sizes, addresses)
  PROVE  /\ new \in Seq(FrameBuffers) /\ Len(new) = n /\ DOMAIN new = 1..n
         /\ Data(new) \subseteq S /\ Separate(new)
         /\ \A i \in 1..n : /\ new[i].line_size = line_sizes[i]
                            /\ new[i].line_count = LineCount(pixel_format, k + i - 1, height)
<1> USE DEF PushedOn
<1>1. addresses \in [1..n -> S] /\ \A i, j \in 1..n : addresses[i] = addresses[j] => i = j
  BY DEF Injection, IsInjective
<1>2. DOMAIN new = 1..n
      /\ \A i \in 1..n : new[i] = [data |-> addresses[i], line_size |-> line_sizes[i],
                                   line_count |-> LineCount(pixel_format, k + i - 1, height)]
  BY <1>1 DEF Pushed
<1>3. \A i \in 1..n : new[i] \in FrameBuffers
  <2> SUFFICES ASSUME NEW i \in 1..n PROVE new[i] \in FrameBuffers OBVIOUS
  <2>1. LineCount(pixel_format, k + i - 1, height) \in Int BY LineCountType
  <2> QED BY <1>1, <1>2, <2>1 DEF FrameBuffers
<1>4. new \in [1..n -> FrameBuffers] BY <1>2, <1>3 DEF Pushed
<1>5. new \in Seq(FrameBuffers) /\ Len(new) = n BY <1>4, SeqIs
<1>6. Data(new) \subseteq S BY <1>1, <1>2 DEF Data
<1>7. Separate(new) BY <1>1, <1>2 DEF Separate
<1> QED BY <1>2, <1>5, <1>6, <1>7

\* The heap afterwards: the planes are in the buffers pushed, the rest is as before.
LEMMA WrittenPlane ==
  ASSUME NEW h, NEW new, NEW planes, Separate(new), NEW n \in DOMAIN new,
         planes[n] \in Planes, new[n] \in FrameBuffers
  PROVE  /\ Written(h, new, planes)[new[n].data] \in [plane : Planes, bytes : Int]
         /\ Written(h, new, planes)[new[n].data].plane = planes[n]
         /\ Written(h, new, planes)[new[n].data].bytes = Bytes(new[n])
<1>1. new[n].data \in Data(new) BY DEF Data
<1>2. (CHOOSE m \in DOMAIN new : new[m].data = new[n].data) = n BY DEF Separate
<1>3. Written(h, new, planes)[new[n].data] = [plane |-> planes[n], bytes |-> Bytes(new[n])]
  BY <1>1, <1>2 DEF Written
<1>4. Bytes(new[n]) \in Int BY BytesType
<1> QED BY <1>3, <1>4

\* Writing planes changes no other buffer.
LEMMA WrittenRest ==
  ASSUME NEW h, NEW new, NEW planes
  PROVE  /\ DOMAIN Written(h, new, planes) = DOMAIN h \union Data(new)
         /\ \A b \in DOMAIN h \ Data(new) : Written(h, new, planes)[b] = h[b]
BY DEF Written

(***************************************************************************)
(* One picture in place of another.                                        *)
(***************************************************************************)
BuffersOf(f) == IF f = Gone THEN <<>> ELSE f.buffers

\* The variable o holds f now; its planes are in buffers of their own.
Replaces(o, f) ==
  /\ f \in RawVideoFrames \union {Gone}
  /\ frames' = [frames EXCEPT ![o] = f]
  /\ DOMAIN heap' = (DOMAIN heap \ Data(PlanesOf(o))) \union Data(BuffersOf(f))
  /\ heap' = [b \in DOMAIN heap' |-> heap'[b]]
  /\ Data(BuffersOf(f)) \intersect (DOMAIN heap \ Data(PlanesOf(o))) = {}
  /\ Data(BuffersOf(f)) \subseteq Buffers
  /\ Separate(BuffersOf(f))
  /\ \A b \in DOMAIN heap \ Data(PlanesOf(o)) : heap'[b] = heap[b]
  /\ \A k \in DOMAIN BuffersOf(f) :
       /\ heap'[BuffersOf(f)[k].data] \in [plane : Planes, bytes : Int]
       /\ heap'[BuffersOf(f)[k].data].bytes = Bytes(BuffersOf(f)[k])
       /\ BuffersOf(f)[k] \in FrameBuffers
       /\ BuffersOf(f)[k].line_count = LineCount(f.pixel_format, k - 1, f.height)

\* A picture put in place of another keeps the invariant.
LEMMA ReplacesInv ==
  ASSUME PicturesInv, NEW o \in Objects, NEW f, Replaces(o, f)
  PROVE  PicturesInv'
<1>0. /\ frames \in [Objects -> RawVideoFrames \union {Gone}]
      /\ DOMAIN heap \subseteq Buffers
      /\ heap \in [DOMAIN heap -> [plane : Planes, bytes : Int]]
  BY DEF PicturesInv, TypeOK
<1>1. /\ f \in RawVideoFrames \union {Gone}
      /\ frames' = [frames EXCEPT ![o] = f]
  BY DEF Replaces
<1>2. PICK rest : rest = DOMAIN heap \ Data(PlanesOf(o)) OBVIOUS
<1>3. PICK new : new = BuffersOf(f) OBVIOUS
<1>4. PICK h : h = heap' OBVIOUS
<1>5. /\ DOMAIN h = rest \union Data(new) /\ Data(new) \intersect rest = {}
      /\ h = [b \in DOMAIN h |-> h[b]]
      /\ Data(new) \subseteq Buffers /\ Separate(new)
      /\ \A b \in rest : h[b] = heap[b]
      /\ \A k \in DOMAIN new :
           /\ h[new[k].data] \in [plane : Planes, bytes : Int]
           /\ h[new[k].data].bytes = Bytes(new[k])
           /\ new[k] \in FrameBuffers
           /\ new[k].line_count = LineCount(f.pixel_format, k - 1, f.height)
  BY <1>2, <1>3, <1>4 DEF Replaces
<1>6. /\ PlanesOf(o)' = new /\ (new # <<>> => frames'[o] = f)
      /\ \A p \in Objects : p # o => PlanesOf(p)' = PlanesOf(p) /\ frames'[p] = frames[p]
  BY <1>0, <1>1, <1>3 DEF PlanesOf, BuffersOf
<1>7. DOMAIN new # {} => frames'[o] = f BY <1>0, <1>1
\* What the others own is the rest of the heap.
<1>8. /\ \A p \in Objects : p # o => Data(PlanesOf(p)) \subseteq rest
      /\ \A b \in rest : \E p \in Objects : p # o /\ b \in Data(PlanesOf(p))
  BY <1>2 DEF PicturesInv, BuffersOwnedOnce
<1>9. \A p \in Objects : p # o => \A k \in DOMAIN PlanesOf(p) : PlanesOf(p)[k].data \in rest
  BY <1>8 DEF Data
<1>10. TypeOK'
  <2>1. frames' \in [Objects -> RawVideoFrames \union {Gone}] BY <1>0, <1>1
  <2>2. DOMAIN h \subseteq Buffers BY <1>0, <1>2, <1>5
  <2>3. ASSUME NEW b \in DOMAIN h PROVE h[b] \in [plane : Planes, bytes : Int]
    <3>1. CASE b \in rest BY <1>0, <1>2, <1>5, <3>1
    <3>2. CASE b \in Data(new)
      <4>1. PICK k \in DOMAIN new : b = new[k].data BY <3>2 DEF Data
      <4> QED BY <1>5, <4>1
    <3> QED BY <1>5, <3>1, <3>2
  <2>4. h \in [DOMAIN h -> [plane : Planes, bytes : Int]] BY <1>5, <2>3
  <2> QED BY <1>4, <2>1, <2>2, <2>4 DEF TypeOK
<1>11. BuffersOwnedOnce'
  <2>1. DOMAIN h = UNION {Data(PlanesOf(p)') : p \in Objects}
    <3>1. ASSUME NEW b \in DOMAIN h PROVE \E p \in Objects : b \in Data(PlanesOf(p)')
      <4>1. CASE b \in rest BY <1>6, <1>8, <4>1
      <4>2. CASE b \in Data(new) BY <1>6, <4>2
      <4> QED BY <1>5, <4>1, <4>2
    <3>2. ASSUME NEW p \in Objects, NEW b \in Data(PlanesOf(p)') PROVE b \in DOMAIN h
      <4>1. CASE p = o BY <1>5, <1>6, <4>1
      <4>2. CASE p # o BY <1>5, <1>6, <1>8, <4>2
      <4> QED BY <4>1, <4>2
    <3> QED BY <3>1, <3>2
  <2>2. ASSUME NEW p \in Objects, NEW q \in Objects, p # q
        PROVE  Data(PlanesOf(p)') \intersect Data(PlanesOf(q)') = {}
    <3>1. CASE p = o BY <1>5, <1>6, <1>8, <2>2, <3>1
    <3>2. CASE q = o BY <1>5, <1>6, <1>8, <2>2, <3>2
    <3>3. CASE p # o /\ q # o BY <1>6, <2>2, <3>3 DEF PicturesInv, BuffersOwnedOnce
    <3> QED BY <3>1, <3>2, <3>3
  <2>3. ASSUME NEW p \in Objects PROVE Separate(PlanesOf(p)')
    <3>1. CASE p = o BY <1>5, <1>6, <3>1
    <3>2. CASE p # o BY <1>6, <3>2 DEF PicturesInv, BuffersOwnedOnce, Separate
    <3> QED BY <3>1, <3>2
  <2>4. ASSUME NEW p \in Objects, NEW k \in DOMAIN PlanesOf(p)'
        PROVE  h[PlanesOf(p)'[k].data].bytes = Bytes(PlanesOf(p)'[k])
    <3>1. CASE p = o
      <4>1. PlanesOf(p)' = new /\ k \in DOMAIN new BY <1>6, <3>1
      <4>2. h[new[k].data].bytes = Bytes(new[k]) BY <1>5, <4>1
      <4> QED BY <4>1, <4>2
    <3>2. CASE p # o
      <4>1. PlanesOf(p)' = PlanesOf(p) /\ k \in DOMAIN PlanesOf(p) BY <1>6, <3>2
      <4>2. h[PlanesOf(p)[k].data] = heap[PlanesOf(p)[k].data] BY <1>5, <1>9, <3>2, <4>1
      <4>3. heap[PlanesOf(p)[k].data].bytes = Bytes(PlanesOf(p)[k])
        BY <4>1 DEF PicturesInv, BuffersOwnedOnce
      <4> QED BY <4>1, <4>2, <4>3
    <3> QED BY <3>1, <3>2
  <2> QED BY <1>4, <2>1, <2>2, <2>3, <2>4 DEF BuffersOwnedOnce, Separate
<1>12. PlanesFitFormat'
  <2> SUFFICES ASSUME NEW p \in Objects, NEW k \in DOMAIN PlanesOf(p)'
               PROVE  PlanesOf(p)'[k].line_count
                        = LineCount(frames'[p].pixel_format, k - 1, frames'[p].height)
    BY DEF PlanesFitFormat
  <2>1. CASE p = o BY <1>5, <1>6, <1>7, <2>1
  <2>2. CASE p # o BY <1>6, <2>2 DEF PicturesInv, PlanesFitFormat
  <2> QED BY <2>1, <2>2
<1> QED BY <1>10, <1>11, <1>12 DEF PicturesInv

(***************************************************************************)
(* The operations.                                                         *)
(***************************************************************************)
\* A buffer in use holds a plane, of the bytes its lines take.
LEMMA PlaneInHeap ==
  ASSUME PicturesInv, NEW o \in Objects, NEW k \in DOMAIN PlanesOf(o)
  PROVE  /\ PlanesOf(o)[k].data \in DOMAIN heap
         /\ heap[PlanesOf(o)[k].data] \in [plane : Planes, bytes : Int]
         /\ heap[PlanesOf(o)[k].data].bytes = Bytes(PlanesOf(o)[k])
<1>1. PlanesOf(o)[k].data \in Data(PlanesOf(o)) BY DEF Data
<1>2. PlanesOf(o)[k].data \in DOMAIN heap BY <1>1 DEF PicturesInv, BuffersOwnedOnce
<1>3. heap[PlanesOf(o)[k].data] \in [plane : Planes, bytes : Int] BY <1>2 DEF PicturesInv, TypeOK
<1>4. heap[PlanesOf(o)[k].data].bytes = Bytes(PlanesOf(o)[k]) BY DEF PicturesInv, BuffersOwnedOnce
<1> QED BY <1>2, <1>3, <1>4

\* A picture and its planes.
LEMMA PictureType ==
  ASSUME PicturesInv, NEW o \in Objects, frames[o] # Gone
  PROVE  /\ frames[o] \in RawVideoFrames /\ PlanesOf(o) = frames[o].buffers
         /\ frames[o].buffers \in Seq(FrameBuffers)
         /\ Len(frames[o].buffers) \in Nat /\ DOMAIN frames[o].buffers = 1..Len(frames[o].buffers)
         /\ \A k \in DOMAIN frames[o].buffers : frames[o].buffers[k] \in FrameBuffers
         /\ frames[o].pixel_format \in Formats /\ frames[o].height \in Heights
<1>1. frames[o] \in RawVideoFrames BY DEF PicturesInv, TypeOK
<1>2. PICK s : s = frames[o].buffers OBVIOUS
<1>3. s \in Seq(FrameBuffers) BY <1>1, <1>2 DEF RawVideoFrames
<1>4. Len(s) \in Nat /\ DOMAIN s = 1..Len(s) BY <1>3
<1>5. \A k \in DOMAIN s : s[k] \in FrameBuffers BY <1>3, <1>4, ElementOfSeq
<1> QED BY <1>1, <1>2, <1>3, <1>4, <1>5 DEF PlanesOf, RawVideoFrames

\* A new picture has no planes.
LEMMA ConstructInv ==
  ASSUME PicturesInv, NEW o \in Objects, NEW pixel_format \in Formats, NEW height \in Heights,
         Construct(o, pixel_format, height)
  PROVE  PicturesInv'
<1>1. PICK f : f = [pixel_format |-> pixel_format, height |-> height, buffers |-> <<>>] OBVIOUS
<1>2. <<>> \in Seq(FrameBuffers) /\ DOMAIN <<>> = {} BY EmptySeq
<1>3. f \in RawVideoFrames BY <1>1, <1>2 DEF RawVideoFrames
<1>4. BuffersOf(f) = <<>> /\ PlanesOf(o) = <<>>
  BY <1>1, <1>3, GoneAssumption DEF BuffersOf, PlanesOf, Construct
<1>5. Data(<<>>) = {} BY <1>2 DEF Data
<1>6. heap' = heap /\ heap = [b \in DOMAIN heap |-> heap[b]] BY DEF Construct, PicturesInv, TypeOK
<1>7. frames' = [frames EXCEPT ![o] = f] BY <1>1 DEF Construct
<1>8. Replaces(o, f) BY <1>2, <1>3, <1>4, <1>5, <1>6, <1>7 DEF Replaces, Separate
<1> QED BY <1>8, ReplacesInv

\* delete frees what the picture had.
LEMMA DestroyInv ==
  ASSUME PicturesInv, NEW o \in Objects, Destroy(o)
  PROVE  PicturesInv'
<1>1. BuffersOf(Gone) = <<>> /\ DOMAIN <<>> = {} /\ Data(<<>>) = {} BY DEF BuffersOf, Data
<1>2. frames' = [frames EXCEPT ![o] = Gone] /\ heap' = FreeFrameBuffer(o) BY DEF Destroy
<1>3. Replaces(o, Gone) BY <1>1, <1>2 DEF Replaces, Separate, FreeFrameBuffer
<1> QED BY <1>3, ReplacesInv

\* A plane more, behind those there are.
LEMMA PushFrameDataInv ==
  ASSUME PicturesInv, NEW o \in Objects, NEW line_size \in LineSizes, NEW plane \in Planes,
         PushFrameData(o, line_size, plane)
  PROVE  PicturesInv'
<1>1. PICK f : f = frames[o] OBVIOUS
<1>2. PICK old : old = f.buffers OBVIOUS
<1>3. /\ f \in RawVideoFrames /\ PlanesOf(o) = old /\ f # Gone
      /\ old \in Seq(FrameBuffers) /\ Len(old) \in Nat /\ DOMAIN old = 1..Len(old)
      /\ \A k \in DOMAIN old : old[k] \in FrameBuffers
      /\ f.pixel_format \in Formats /\ f.height \in Heights
  BY <1>1, <1>2, PictureType DEF PushFrameData
<1>4. PICK addresses \in Malloc(heap, 1) :
        LET new == Pushed(f.pixel_format, f.height, Len(old), <<line_size>>, addresses)
        IN /\ frames' = [frames EXCEPT ![o].buffers = @ \o new]
           /\ heap' = Written(heap, new, <<plane>>)
  BY <1>1, <1>2 DEF PushFrameData
<1>5. PICK new : new = Pushed(f.pixel_format, f.height, Len(old), <<line_size>>, addresses) OBVIOUS
<1>6. frames' = [frames EXCEPT ![o].buffers = @ \o new] /\ heap' = Written(heap, new, <<plane>>)
  BY <1>4, <1>5
<1>7. PICK free : free = Buffers \ DOMAIN heap OBVIOUS
<1>8. addresses \in Injection(1..1, free) /\ free \in SUBSET Buffers BY <1>4, <1>7 DEF Malloc
<1>9. PICK sizes, planes : sizes = <<line_size>> /\ planes = <<plane>> OBVIOUS
<1>10. /\ new \in Seq(FrameBuffers) /\ Len(new) = 1 /\ DOMAIN new = 1..1
       /\ Data(new) \subseteq free /\ Separate(new)
       /\ \A i \in 1..1 : /\ new[i].line_size = sizes[i]
                          /\ new[i].line_count = LineCount(f.pixel_format, Len(old) + i - 1, f.height)
  <2>1. PICK m, k : m = 1 /\ k = Len(old) OBVIOUS
  <2>2. PushedOn(free, new, m, f.pixel_format, f.height, k, sizes, addresses)
    <3>1. \A i \in 1..m : sizes[i] \in LineSizes BY <1>9, <2>1
    <3>2. new = Pushed(f.pixel_format, f.height, k, sizes, addresses) BY <1>5, <1>9, <2>1
    <3> QED BY <1>3, <1>8, <2>1, <3>1, <3>2 DEF PushedOn
  <2>3. /\ new \in Seq(FrameBuffers) /\ Len(new) = m /\ DOMAIN new = 1..m
        /\ Data(new) \subseteq free /\ Separate(new)
        /\ \A i \in 1..m : /\ new[i].line_size = sizes[i]
                           /\ new[i].line_count = LineCount(f.pixel_format, k + i - 1, f.height)
    BY <2>2, PushedPlanes
  <2> QED BY <2>1, <2>3
<1>11. /\ DOMAIN heap' = DOMAIN heap \union Data(new)
       /\ heap'[new[1].data] \in [plane : Planes, bytes : Int]
       /\ heap'[new[1].data].bytes = Bytes(new[1])
       /\ \A b \in DOMAIN heap \ Data(new) : heap'[b] = heap[b]
       /\ heap' = [b \in DOMAIN heap' |-> heap'[b]]
  <2>1. Separate(new) BY <1>10
  <2>2. PICK w : w = Written(heap, new, planes) OBVIOUS
  <2>3. heap' = w BY <1>6, <1>9, <2>2
  <2>4. /\ DOMAIN w = DOMAIN heap \union Data(new)
        /\ \A b \in DOMAIN heap \ Data(new) : w[b] = heap[b]
    BY <2>2, WrittenRest
  <2>5. w = [b \in DOMAIN w |-> w[b]] BY <2>2 DEF Written
  <2>6. 1 \in DOMAIN new /\ planes[1] \in Planes /\ new[1] \in FrameBuffers
    <3>1. new \in Seq(FrameBuffers) /\ Len(new) = 1 /\ 1 \in 1..Len(new) BY <1>10
    <3> QED BY <1>9, <1>10, <3>1, ElementOfSeq
  <2>7. w[new[1].data] \in [plane : Planes, bytes : Int] /\ w[new[1].data].bytes = Bytes(new[1])
    BY <2>1, <2>2, <2>6, WrittenPlane
  <2> QED BY <2>3, <2>4, <2>5, <2>7
<1>12. PICK all : all = old \o new OBVIOUS
<1>13. PICK n : n = Len(old) OBVIOUS
<1>14. /\ all \in Seq(FrameBuffers) /\ n \in Nat /\ DOMAIN all = 1..n + 1 /\ DOMAIN old = 1..n
       /\ \A i \in 1..n : all[i] = old[i]
       /\ all[n + 1] = new[1]
       /\ \A i \in DOMAIN all : i \in 1..n \/ i = n + 1
  <2>1. /\ all \in Seq(FrameBuffers) /\ Len(all) = n + 1 /\ n \in Nat
        /\ \A i \in 1 .. n + 1 : all[i] = IF i <= n THEN old[i] ELSE new[i - n]
    <3>1. old \in Seq(FrameBuffers) /\ Len(old) \in Nat BY <1>3
    <3>2. new \in Seq(FrameBuffers) /\ Len(new) = 1 BY <1>10
    <3>3. /\ old \o new \in Seq(FrameBuffers) /\ Len(old \o new) = Len(old) + Len(new)
          /\ \A i \in 1 .. Len(old) + Len(new) :
               (old \o new)[i] = IF i <= Len(old) THEN old[i] ELSE new[i - Len(old)]
      BY <3>1, <3>2, ConcatProperties
    <3> QED BY <1>12, <1>13, <3>1, <3>2, <3>3
  <2>2. DOMAIN all = 1..n + 1 BY <2>1
  <2>3. n + 1 - n = 1 /\ ~(n + 1 <= n) /\ n + 1 \in 1..n + 1 BY <2>1
  <2> QED BY <1>3, <1>13, <2>1, <2>2, <2>3
<1>15. PICK g : g = [f EXCEPT !.buffers = all] OBVIOUS
<1>16. /\ g \in RawVideoFrames /\ g.buffers = all /\ g # Gone
       /\ g.pixel_format = f.pixel_format /\ g.height = f.height
  BY <1>3, <1>14, <1>15, GoneAssumption DEF RawVideoFrames
<1>17. frames' = [frames EXCEPT ![o] = g]
  <2>1. frames' = [frames EXCEPT ![o] = [frames[o] EXCEPT !.buffers = frames[o].buffers \o new]]
    BY <1>6 DEF PicturesInv, TypeOK
  <2> QED BY <1>1, <1>2, <1>12, <1>15, <2>1
<1>18. BuffersOf(g) = all BY <1>16 DEF BuffersOf
<1>19. Data(all) = Data(old) \union Data(new)
  <2>1. ASSUME NEW i \in DOMAIN all PROVE all[i].data \in Data(old) \union Data(new)
    <3>1. CASE i \in 1..n BY <1>14, <3>1 DEF Data
    <3>2. CASE i = n + 1 BY <1>10, <1>14, <3>2 DEF Data
    <3> QED BY <1>14, <3>1, <3>2
  <2>2. ASSUME NEW i \in DOMAIN old PROVE old[i].data \in Data(all)
    <3>1. i \in DOMAIN all /\ all[i] = old[i] BY <1>14
    <3> QED BY <3>1 DEF Data
  <2>3. new[1].data \in Data(all)
    <3>1. n + 1 \in DOMAIN all BY <1>14
    <3> QED BY <1>14, <3>1 DEF Data
  <2>4. Data(new) = {new[1].data} BY <1>10 DEF Data
  <2>5. Data(all) \subseteq Data(old) \union Data(new) BY <2>1 DEF Data
  <2>6. Data(old) \subseteq Data(all) BY <2>2 DEF Data
  <2> QED BY <2>3, <2>4, <2>5, <2>6
<1>20. /\ Data(old) \subseteq DOMAIN heap /\ DOMAIN heap \subseteq Buffers
       /\ Data(new) \intersect DOMAIN heap = {} /\ Data(new) \subseteq Buffers
  <2>1. Data(old) \subseteq DOMAIN heap BY <1>3 DEF PicturesInv, BuffersOwnedOnce
  <2>2. DOMAIN heap \subseteq Buffers BY DEF PicturesInv, TypeOK
  <2> QED BY <1>7, <1>10, <2>1, <2>2
<1>21. Separate(all)
  <2>1. \A i, j \in DOMAIN old : old[i].data = old[j].data => i = j
    BY <1>3 DEF PicturesInv, BuffersOwnedOnce
  <2>2. \A i \in DOMAIN old : old[i].data # new[1].data
    <3>1. \A i \in DOMAIN old : old[i].data \in Data(old) BY DEF Data
    <3>2. new[1].data \in Data(new) BY <1>10 DEF Data
    <3> QED BY <1>20, <3>1, <3>2
  <2> SUFFICES ASSUME NEW i \in DOMAIN all, NEW j \in DOMAIN all, all[i].data = all[j].data
               PROVE  i = j
    BY DEF Separate
  <2>3. (i \in 1..n \/ i = n + 1) /\ (j \in 1..n \/ j = n + 1) BY <1>14
  <2>4. CASE i \in 1..n /\ j \in 1..n BY <1>14, <2>1, <2>4
  <2>5. CASE i \in 1..n /\ j = n + 1 BY <1>14, <2>2, <2>5
  <2>6. CASE i = n + 1 /\ j \in 1..n BY <1>14, <2>2, <2>6
  <2> QED BY <2>3, <2>4, <2>5, <2>6
<1>22. ASSUME NEW k \in DOMAIN all
       PROVE  /\ heap'[all[k].data] \in [plane : Planes, bytes : Int]
              /\ heap'[all[k].data].bytes = Bytes(all[k])
              /\ all[k] \in FrameBuffers
              /\ all[k].line_count = LineCount(g.pixel_format, k - 1, g.height)
  <2>1. CASE k \in 1..n
    <3>1. k \in DOMAIN old /\ all[k] = old[k] BY <1>14, <2>1
    <3>2. /\ old[k].data \in DOMAIN heap /\ heap[old[k].data] \in [plane : Planes, bytes : Int]
          /\ heap[old[k].data].bytes = Bytes(old[k])
      BY <1>3, <3>1, PlaneInHeap
    <3>3. heap'[old[k].data] = heap[old[k].data] BY <1>11, <1>20, <3>2
    <3>4. old[k].line_count = LineCount(f.pixel_format, k - 1, f.height)
      BY <1>1, <1>3, <3>1 DEF PicturesInv, PlanesFitFormat
    <3> QED BY <1>3, <1>16, <3>1, <3>2, <3>3, <3>4
  <2>2. CASE k = n + 1
    <3>1. all[k] = new[1] /\ 1 \in DOMAIN new BY <1>10, <1>14, <2>2
    <3>2. heap'[new[1].data] \in [plane : Planes, bytes : Int] /\ heap'[new[1].data].bytes = Bytes(new[1])
      BY <1>11
    <3>3. new[1] \in FrameBuffers BY <1>10, <3>1, ElementOfSeq
    <3>4. new[1].line_count = LineCount(f.pixel_format, k - 1, f.height)
      <4>1. n + 1 - 1 = k - 1 BY <1>14, <2>2
      <4> QED BY <1>10, <1>13, <4>1
    <3> QED BY <1>16, <3>1, <3>2, <3>3, <3>4
  <2> QED BY <1>14, <2>1, <2>2
<1>23. DOMAIN heap' = (DOMAIN heap \ Data(old)) \union Data(all)
       /\ Data(all) \intersect (DOMAIN heap \ Data(old)) = {} /\ Data(all) \subseteq Buffers
       /\ \A b \in DOMAIN heap \ Data(old) : heap'[b] = heap[b]
  BY <1>11, <1>19, <1>20
<1>24. Replaces(o, g)
  BY <1>3, <1>11, <1>16, <1>17, <1>18, <1>21, <1>22, <1>23 DEF Replaces
<1> QED BY <1>24, ReplacesInv

\* The copy of another picture, whose planes are as they were: what is freed is not
\* theirs.
LEMMA CopyInfoInv ==
  ASSUME PicturesInv, NEW o \in Objects, NEW other \in Objects, o # other, frames[other] # Gone,
         CopyInfo(o, frames[other])
  PROVE  PicturesInv' /\ Looks(o)' = Looks(other)
<1>1. PICK f : f = frames[other] OBVIOUS
<1>2. PICK old : old = f.buffers OBVIOUS
<1>3. /\ f \in RawVideoFrames /\ PlanesOf(other) = old /\ f # Gone
      /\ old \in Seq(FrameBuffers) /\ Len(old) \in Nat /\ DOMAIN old = 1..Len(old)
      /\ \A k \in DOMAIN old : old[k] \in FrameBuffers
      /\ f.pixel_format \in Formats /\ f.height \in Heights
  BY <1>1, <1>2, PictureType
<1>4. PICK freed : freed = FreeFrameBuffer(o) OBVIOUS
<1>5. PICK sizes, planes : /\ sizes = [n \in DOMAIN old |-> old[n].line_size]
                           /\ planes = [n \in DOMAIN old |-> heap[old[n].data].plane]
  OBVIOUS
<1>6. PICK addresses \in Malloc(freed, Len(old)) :
        LET new == Pushed(f.pixel_format, f.height, 0, sizes, addresses)
        IN /\ frames' = [frames EXCEPT ![o] = [f EXCEPT !.buffers = new]]
           /\ heap' = Written(freed, new, planes)
  BY <1>1, <1>2, <1>4, <1>5 DEF CopyInfo
<1>7. PICK new : new = Pushed(f.pixel_format, f.height, 0, sizes, addresses) OBVIOUS
<1>8. frames' = [frames EXCEPT ![o] = [f EXCEPT !.buffers = new]] /\ heap' = Written(freed, new, planes)
  BY <1>6, <1>7
<1>9. PICK free : free = Buffers \ DOMAIN freed OBVIOUS
<1>10. addresses \in Injection(1..Len(old), free) /\ free \subseteq Buffers BY <1>6, <1>9 DEF Malloc
<1>11. /\ DOMAIN freed = DOMAIN heap \ Data(PlanesOf(o))
       /\ \A b \in DOMAIN freed : freed[b] = heap[b]
  BY <1>4 DEF FreeFrameBuffer
<1>12. PICK m, zero : m = Len(old) /\ zero = 0 OBVIOUS
<1>13. /\ new \in Seq(FrameBuffers) /\ Len(new) = m /\ DOMAIN new = 1..m
       /\ Data(new) \subseteq free /\ Separate(new)
       /\ \A i \in 1..m : /\ new[i].line_size = sizes[i]
                          /\ new[i].line_count = LineCount(f.pixel_format, zero + i - 1, f.height)
  <2>1. PushedOn(free, new, m, f.pixel_format, f.height, zero, sizes, addresses)
    <3>1. \A i \in 1..m : sizes[i] \in LineSizes BY <1>3, <1>5, <1>12 DEF FrameBuffers
    <3>2. new = Pushed(f.pixel_format, f.height, zero, sizes, addresses) BY <1>7, <1>12
    <3> QED BY <1>3, <1>10, <1>12, <3>1, <3>2 DEF PushedOn
  <2> QED BY <2>1, PushedPlanes
<1>14. \A i \in 1..m : /\ new[i].line_size = old[i].line_size
                       /\ new[i].line_count = LineCount(f.pixel_format, i - 1, f.height)
                       /\ new[i] \in FrameBuffers
  <2>1. \A i \in 1..m : new[i].line_size = old[i].line_size BY <1>3, <1>5, <1>12, <1>13
  <2>2. \A i \in 1..m : zero + i - 1 = i - 1 BY <1>3, <1>12
  <2>3. \A i \in 1..m : new[i] \in FrameBuffers BY <1>13, ElementOfSeq
  <2> QED BY <1>13, <2>1, <2>2, <2>3
<1>15. PICK h : h = heap' OBVIOUS
<1>16. \A k \in 1..m : planes[k] = heap[old[k].data].plane /\ planes[k] \in Planes
  <2>1. \A k \in DOMAIN old : heap[old[k].data] \in [plane : Planes, bytes : Int] BY <1>3, PlaneInHeap
  <2> QED BY <1>3, <1>5, <1>12, <2>1
<1>17. /\ DOMAIN h = DOMAIN freed \union Data(new)
       /\ \A b \in DOMAIN freed \ Data(new) : h[b] = freed[b]
       /\ h = [b \in DOMAIN h |-> h[b]]
  <2>1. DOMAIN h = DOMAIN freed \union Data(new) /\ \A b \in DOMAIN freed \ Data(new) : h[b] = freed[b]
    BY <1>8, <1>15, WrittenRest
  <2>2. h = [b \in DOMAIN h |-> h[b]] BY <1>8, <1>15 DEF Written
  <2> QED BY <2>1, <2>2
<1>18. ASSUME NEW k \in 1..m
       PROVE  /\ h[new[k].data] \in [plane : Planes, bytes : Int]
              /\ h[new[k].data].plane = heap[old[k].data].plane
              /\ h[new[k].data].bytes = Bytes(new[k])
  <2>1. Separate(new) /\ k \in DOMAIN new /\ planes[k] \in Planes /\ new[k] \in FrameBuffers
    BY <1>13, <1>14, <1>16
  <2>2. PICK w : w = Written(freed, new, planes) OBVIOUS
  <2>3. /\ w[new[k].data] \in [plane : Planes, bytes : Int]
        /\ w[new[k].data].plane = planes[k] /\ w[new[k].data].bytes = Bytes(new[k])
    BY <2>1, <2>2, WrittenPlane
  <2> QED BY <1>8, <1>15, <1>16, <2>2, <2>3
<1>19. PICK g : g = [f EXCEPT !.buffers = new] OBVIOUS
<1>20. /\ g \in RawVideoFrames /\ g.buffers = new /\ g # Gone
       /\ g.pixel_format = f.pixel_format /\ g.height = f.height
  BY <1>3, <1>13, <1>19, GoneAssumption DEF RawVideoFrames
<1>21. frames' = [frames EXCEPT ![o] = g] BY <1>8, <1>19
<1>22. BuffersOf(g) = new BY <1>20 DEF BuffersOf
<1>23. /\ DOMAIN h = (DOMAIN heap \ Data(PlanesOf(o))) \union Data(new)
       /\ Data(new) \intersect (DOMAIN heap \ Data(PlanesOf(o))) = {} /\ Data(new) \subseteq Buffers
       /\ \A b \in DOMAIN heap \ Data(PlanesOf(o)) : h[b] = heap[b]
  BY <1>9, <1>11, <1>13, <1>17
<1>24. \A k \in DOMAIN new :
         /\ h[new[k].data] \in [plane : Planes, bytes : Int]
         /\ h[new[k].data].bytes = Bytes(new[k])
         /\ new[k] \in FrameBuffers
         /\ new[k].line_count = LineCount(g.pixel_format, k - 1, g.height)
  BY <1>13, <1>14, <1>18, <1>20
<1>25. Replaces(o, g)
  BY <1>13, <1>15, <1>17, <1>20, <1>21, <1>22, <1>23, <1>24 DEF Replaces
<1>26. PicturesInv' BY <1>25, ReplacesInv
\* Plane by plane.
<1>27. Looks(o)' = Looks(other)
  <2>1. frames'[o] = g BY <1>21 DEF PicturesInv, TypeOK
  <2>2. \A k \in 1..m : old[k].line_count = LineCount(f.pixel_format, k - 1, f.height)
    BY <1>1, <1>3, <1>12 DEF PicturesInv, PlanesFitFormat
  <2>3. ASSUME NEW k \in 1..m
        PROVE  /\ new[k].line_size = old[k].line_size /\ new[k].line_count = old[k].line_count
               /\ h[new[k].data].plane = heap[old[k].data].plane
    BY <1>14, <1>18, <2>2
  <2>4. DOMAIN old = 1..m /\ DOMAIN new = 1..m BY <1>3, <1>12, <1>13
  <2>5. [k \in DOMAIN new |-> <<new[k].line_size, new[k].line_count, h[new[k].data].plane>>]
          = [k \in DOMAIN old |-> <<old[k].line_size, old[k].line_count, heap[old[k].data].plane>>]
    BY <2>3, <2>4
  <2>6. Looks(o)' = <<g.pixel_format, g.height,
                      [k \in DOMAIN new |-> <<new[k].line_size, new[k].line_count, h[new[k].data].plane>>]>>
    BY <1>15, <1>20, <2>1 DEF Looks
  <2>7. Looks(other) = <<f.pixel_format, f.height,
                         [k \in DOMAIN old |-> <<old[k].line_size, old[k].line_count, heap[old[k].data].plane>>]>>
    BY <1>1, <1>2 DEF Looks
  <2> QED BY <1>20, <2>5, <2>6, <2>7
<1> QED BY <1>26, <1>27

\* Each operation keeps the invariant.
LEMMA NextInv == PicturesInv /\ [Next]_vars => PicturesInv'
<1> SUFFICES ASSUME PicturesInv, [Next]_vars PROVE PicturesInv' OBVIOUS
<1>1. ASSUME NEW o \in Objects, NEW pixel_format \in Formats, NEW height \in Heights,
             Construct(o, pixel_format, height)
      PROVE  PicturesInv'
  BY <1>1, ConstructInv
<1>2. ASSUME NEW o \in Objects, NEW line_size \in LineSizes, NEW plane \in Planes,
             PushFrameData(o, line_size, plane)
      PROVE  PicturesInv'
  BY <1>2, PushFrameDataInv
<1>3. ASSUME NEW o \in Objects, NEW other \in Objects, CopyConstruct(o, other) \/ Assign(o, other)
      PROVE  PicturesInv'
  BY <1>3, CopyInfoInv DEF CopyConstruct, Assign
<1>4. ASSUME NEW o \in Objects, Destroy(o) PROVE PicturesInv' BY <1>4, DestroyInv
<1>5. CASE UNCHANGED vars
  <2>1. frames' = frames /\ heap' = heap /\ \A o \in Objects : PlanesOf(o)' = PlanesOf(o)
    BY <1>5 DEF vars, PlanesOf
  <2>2. TypeOK' BY <2>1 DEF PicturesInv, TypeOK
  <2>3. BuffersOwnedOnce' BY <2>1 DEF PicturesInv, BuffersOwnedOnce
  <2>4. PlanesFitFormat' BY <2>1 DEF PicturesInv, PlanesFitFormat
  <2> QED BY <2>2, <2>3, <2>4 DEF PicturesInv
<1> QED BY <1>1, <1>2, <1>3, <1>4, <1>5 DEF Next

(***************************************************************************)
(* The theorems.                                                           *)
(***************************************************************************)
\* The inductive invariant holds of any number of pictures, over any memory.
THEOREM PicturesInvariant == Spec => []PicturesInv
<1>1. Init => PicturesInv
  <2> SUFFICES ASSUME Init PROVE PicturesInv OBVIOUS
  <2>1. DOMAIN heap = {} /\ \A o \in Objects : frames[o] = Gone /\ PlanesOf(o) = <<>>
    BY DEF Init, PlanesOf
  <2>2. DOMAIN <<>> = {} /\ Data(<<>>) = {} BY DEF Data
  <2>3. TypeOK BY <2>1 DEF Init, TypeOK
  <2>4. BuffersOwnedOnce BY <2>1, <2>2 DEF BuffersOwnedOnce
  <2>5. PlanesFitFormat BY <2>1, <2>2 DEF PlanesFitFormat
  <2> QED BY <2>3, <2>4, <2>5 DEF PicturesInv
<1>2. PicturesInv /\ [Next]_vars => PicturesInv' BY NextInv
<1> QED BY <1>1, <1>2, PTL DEF Spec

\* No buffer is leaked, shared, freed twice or read beyond its end.
THEOREM PicturesOwnBuffersOnce == Spec => []BuffersOwnedOnce
<1>1. PicturesInv => BuffersOwnedOnce BY DEF PicturesInv
<1> QED BY <1>1, PicturesInvariant, PTL

\* A copy looks like its original, whatever the variable held before.
THEOREM PicturesCopiedEqual == Spec => CopiesAreEqual
<1> DEFINE Copied ==
      \A o \in Objects, other \in Objects : (CopyConstruct(o, other) \/ Assign(o, other))
        => Looks(o)' = Looks(other)
<1>1. PicturesInv /\ [Next]_vars => [Copied]_vars
  <2> SUFFICES ASSUME PicturesInv, NEW o \in Objects, NEW other \in Objects,
                      CopyConstruct(o, other) \/ Assign(o, other)
               PROVE  Looks(o)' = Looks(other)
    OBVIOUS
  <2>1. o # other /\ frames[other] # Gone /\ CopyInfo(o, frames[other])
    BY DEF CopyConstruct, Assign
  <2> QED BY <2>1, CopyInfoInv
<1>2. Spec => [][Copied]_vars BY <1>1, PicturesInvariant, PTL DEF Spec
<1> QED BY <1>2 DEF CopiesAreEqual
===============================================================================
