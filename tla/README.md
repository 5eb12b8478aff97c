# MAVPlayer: a TLA+ verification project

MAVPlayer plays a video file in an SDL window. The main thread opens the file and shows pictures; a
demuxer thread reads compressed frames; a decoder thread turns them into pictures. This directory
holds TLA+ models of the program's parts, the TLC runs that check them on small instances, and TLAPS
proofs for all instances. Lines such as `media_importer.cpp:111` refer to the repository's sources;
`PROJECT.json` maps every definition to the lines it stands for.

## The system

| Part | State it keeps | Operations | Meets the others through | Modules |
|---|---|---|---|---|
| Playback pipeline, `player/media_importer.*` | frame queue, exit flags, thread pointers, last picture and its mutex, `_need_refresh` | `open`, `read_frame`, `start_working`, `stop_working`, destructor; the two thread functions | calls from `main`; two threads that share its members | `MediaImporter` |
| Frame queue, `base/readerwriterqueue.h` | ring of blocks, one index at each end of each | `try_enqueue`, `enqueue`, `try_dequeue`, `pop`, `peek`, `size_approx`, constructor | lock-free memory shared by one producer and one consumer | `ReaderWriterQueue`, `SpscQueue` |
| Blocking queue and semaphores, `base/readerwriterqueue.h`, `base/atomicops.h` | count, kernel semaphore | `wait`, `tryWait`, `signal`, timed wait; the queue's operations over them | not used by the player | `LightweightSemaphore`, `BlockingReaderWriterQueue` |
| FFmpeg demuxer, `ffmpeg_demuxer/` | format context, movie info, end of file, key frame flag | `open`, `close`, `read_frame` | returns frames to the demuxer thread; calls libavformat | `FFmpegDemuxer`, `MediaSession` |
| FFmpeg decoder and registry, `ffmpeg_decoder/` | list of decoders; codec context, extra data | `create_decoder_by_codec_id`, `open_codec`, `decode_video_frame` | called by `open` and the decoder thread; calls libavcodec | `FFmpegDecoder` |
| Main loop, `player/main.cpp` | window, texture, quit flag | command line, start-up, event loop | owns the importer | `Player`, `PlayerArgs` |
| Media types, `media_base/` | buffers | copy, assign, destroy, add a plane | passed between all of the above | `RawVideoFrame` |
| Logging, `base/log.*` | callback | one line per temporary object | used by every thread | none |

What is hard about it:

* three threads share a queue that allows one producer and one consumer, and the consumer's role
  moves from the decoder to the owner (draining in `stop_working`) and, in the code that handles too
  many frames, to the demuxer;
* ownership of a frame passes from the demuxer through the queue to the decoder, and is lost where a
  result is ignored;
* the last picture is replaced by one thread while another copies it, with a flag read outside the
  mutex;
* the queue's two sides decide on old copies of each other's indices, and the producer may fill a
  block and leave it between two looks of the consumer;
* a timed wait may expire while the signal that answers it is half done;
* packets come in the order they are decoded in and pictures leave the codec in the order they are
  shown in, so the codec holds pictures back, and a frame sent and a picture received for it are
  different ones;
* stopping joins threads that may be waiting, and starting again reuses the queue and the picture.

What makes each part correct: the pipeline has one consumer at a time, never touches a deleted frame
or picture, stops with nothing left over, and stops at all; the queue delivers every element once and
in order, refuses only when full and finds nothing only when empty; the semaphore neither makes nor
loses a unit and leaves nobody asleep beside one; demuxer and decoder show a file's pictures in order
and reach its end; the media types free each buffer once; main calls the importer in turn, has both
threads at work while it waits for pictures, and leaves nothing running on any return.

## Modules

The pipeline and its queue:

* `MediaImporter` models `media_importer.cpp`. Each thread has a variable for the place it is at, and
  an action for each stretch of code that touches shared state. `demuxer` and `decoder` are the two
  thread functions, `"none"` while the thread pointer is null and `"finished"` once the function has
  returned; `owner` is the thread that calls the importer. `stop_working` is the chain
  `StopWorking`, `JoinDecoder`, `JoinDemuxer`, `Drain`, `DrainDone`; `start_working` goes on with
  `StartDecoder` and `StartDemuxer`, and the destructor ends in `Destroyed`. A frame is the number of
  the read that made it, a picture the number of the decode; `heap` and `pictures` are what is
  allocated. The demuxer's own loop that clears the queue is the same `Drain`, for `t = "demuxer"`.
* `MediaImporterProperties` states what must hold, and the inductive invariant `ImporterInv`;
  `MediaImporterProofs` proves it.
* `SpscQueue` is the abstract bounded FIFO, which the next one implements.
* `ReaderWriterQueue` models the queue's algorithm block by block: a block is a record with the
  members of `Block`, and each action makes at most one access to what the other thread writes.
  `try_dequeue`, `pop` and `peek` share their actions, told apart by `op`; `try_enqueue` and `enqueue`
  by `mode`. `ReaderWriterQueueProperties` states what it promises, that it implements `SpscQueue`, and
  two inductive invariants, `QueueInv` and, for `size_approx`, `SizingInv`; `ReaderWriterQueueProofs`
  proves them. Either thread's `size_approx` is a walk of its own over the circle (`sizing`), one step
  to count a block and one to go on to the next.

`MediaImporter` takes a call on the queue as one step, on a sequence: `TryEnqueue` and `Dequeued` are what
`SpscQueue` does. That is an assumption about the queue, not something the importer could get wrong, and
`ReaderWriterQueue` shows it to be right (`QueueSpec` of `queue_one_block`) for one producer and one
consumer, refusing only at exactly the size asked for. What the importer has to do for it is never to have
two consumers (`SingleConsumer` of `importer_safety`).

The blocking queue, built the same way:

* `CountingSemaphore` is the abstract semaphore. `LightweightSemaphore` models `atomicops.h:658-752`:
  one action for each access to `m_count` (`count`) or to the kernel's semaphore (`kernel`), `waiter`
  and `signaler` being the places of the two threads. The 1024 rounds of spinning are any number.
  `LightweightSemaphoreProperties` relates it to `CountingSemaphore`: a unit is available if it is in
  the count with the waiter's announcement taken out. `LightweightSemaphoreProofs` has its proofs.
* `BlockingReaderWriterQueue` extends the semaphore's module: `SignalElement`, `PostElement`,
  `Dequeue`, `WaitStep` and `Waited` take its steps (`SemaSpec` is what it does of them alone), and the
  inner queue is a sequence, as `SpscQueue` allows. `BlockingReaderWriterQueueProperties` and
  `BlockingReaderWriterQueueProofs` are about the two together.

From a file to its pictures:

* `FFmpegCommon` has the tables of codecs and pixel formats. `FFmpegDemuxer` and `FFmpegDecoder` are
  the two classes, with the part of libavformat and libavcodec that shows: what is left of a file, and
  the pictures the codec holds. libavformat may fail, ask to be called again, and reads packets in the
  order of the file, which is that of decoding; libavcodec holds back up to `Delay` pictures and gives out
  the one to be presented first once it has more, takes no packet while one more is waiting, and may find a
  packet corrupt. A packet's `pts` may be smaller than that of one before it, as with B-frames.
* `MediaSession` composes them as the importer does: `open` in full, a bounded queue, and the two
  thread functions one iteration a step. Where `MediaImporter` has the threads and takes a read or a
  decode to return anything, `MediaSession` has reads and decodes and takes an iteration as one step;
  it does not repeat the interleavings of the former. `MediaSessionProperties` and `MediaSessionProofs`
  are about the three together.

The program and its data:

* `Player` is `main` over all the steps of `MediaImporter`: `place` is where main is, and each call it
  makes is a step of the importer's owner, taken together with it. Any call of SDL that main tests may
  fail; what `SDL_UpdateYUVTexture` and the two calls behind it answer (`main.cpp:118-128`) main does not
  look at, so `drawn` is the picture last given to SDL to draw. The user may send events while there is a
  window. `PlayerProofs` has its proofs.
* `PlayerArgs` is the loop over `argv`, on every command line up to a length, with its proofs in
  `PlayerArgsProofs`.
* `RawVideoFrame` holds pictures in a few variables over one heap. `malloc` returns any address that is
  free, so that a buffer used after its free may be somebody else's; the bytes allocated for a plane
  are kept beside what is in it. `RawVideoFrameProofs` has its proofs.

The modules whose name begins with `MC` are those TLC runs.

The definitions called variants (`TryEnqueue` and `EnqueueNoSpareSlot`, `Recheck` and `TakeOnTrust`,
and so on) are slips one could make in the code. Nothing uses them: each is there to be put in the
place of its original, to see that a property notices.

## Runs

| Run | Question | Bounds |
|---|---|---|
| `importer_safety` | Is the pipeline safe in every interleaving of its three threads, does `stop_working` return, and is every accepted frame freed? | room for 3 frames, limit 4, 5 frames, 3 starts |
| `importer_leak` | Is every frame decoded or deleted? No. | room for 2, 4 frames, 1 start |
| `queue_one_block` | Is the player's kind of queue an atomic FIFO of the size asked for? | size 3, 7 elements |
| `queue_reserved` | Does it stay one when the constructor splits it over blocks? | size 4 over 5 blocks of 2 slots, 8 elements |
| `queue_growing` | And when `enqueue` adds blocks while the other thread reads or walks them? | size 1, up to 3 blocks, 6 elements |
| `blocking_queue` | Is the semaphore a counting semaphore, do it and the queue it counts agree where it matters, and do waits end? | room for 3, 6 elements, all five calls |
| `blocking_peek` | Does `peek` show what `try_dequeue` would remove? No. | room for 2, 2 elements |
| `session_play` | Are a file's pictures shown in the order they are meant to be, to its end? | 4 sources, 2 openings, room for 2, delay 1 |
| `session_formats` | Does `PushFrameData` know every picture's format? No. | one file in YUV422P |
| `player_life` | Does main call the importer in turn, end well, and have drawn what is decoded? | room for 2, 3 frames, 1 start, 2 events |
| `arguments` | Does a command line mean what its pairs say? | 9 arguments, up to 5 at once |
| `pictures` | Is every plane of every picture owned once, and copied right? | 2 pictures, 2 formats, 2 line sizes, 6 addresses |

Why these bounds are enough for what they look at. Importer: more frames than the queue holds, so it
fills and refuses; the limit stays above the capacity as 120 is above 15; three starts give two
restarts with frames of three sessions. Queue: 7 elements take the indices of a 4-slot block almost
twice round; 8 elements take both threads once and a half round the circle of 5 blocks; the third
block is linked when neither thread need be in the first. Blocking queue: twice what there is room for;
the count of a waiter goes no lower than -1, and six units let several waits in a row meet a half-done
signal. Session: each source has a packet of 20 bytes or fewer, one before the first
key frame or one of another stream, and one that is presented before the packet it follows, which is as
much as a codec with a delay of 1 can put in order; and the file is longer than queue and codec hold. Player: two events give a
quit with another event before or after it. Pictures: the heap holds two full pictures; which addresses
these have makes no difference, so the addresses are symmetric. Where there is a proof, it does not
depend on any bound; the runs `importer_safety`, `queue_growing`, `blocking_queue` and `session_play` check
the inductive invariants themselves. In `queue_growing` both threads call `size_approx`, which is what
`SizingInv` is about: in turn the producer adds blocks beneath the consumer's walk, and the consumer leaves
blocks behind the producer's.

`CHECK_DEADLOCK FALSE` stands where the system may come to rest: the blocking queue when its consumer
sleeps and the bound on elements is reached, the command line when it is decided on.

### Findings

* `importer_leak`: the demuxer thread ignores what `try_enqueue` returns (`media_importer.cpp:111`);
  the queue, built with its default size of 15, refuses a sixteenth frame, which is then neither
  decoded nor deleted. The branch meant for too many frames asks for more than 120 in the queue
  (`media_importer.cpp:5`, `:94`) and is never reached; `SingleConsumer` holds only because of that,
  since the branch would dequeue beside the decoder. With the constant `QueueCapacity` above
  `MaxQueueSize` it fails, so the two must not be changed apart: the assumption `ImporterAssumption`
  says so.
* `blocking_peek`: `peek` does not ask the semaphore that `try_dequeue` and `pop` ask, and
  `try_enqueue` signals it after the inner queue has the element (`readerwriterqueue.h:786`, `:928`).
* `session_formats`: `decode_video_frame` passes on pictures of formats that `PushFrameData` rules
  out by `assert(false)` (`raw_video_frame.cpp:48`).

Seen while reading, and not checked by a run:

* `signal(0)`, which the assertion of `signal` admits, finds a waiter's -1 in the count and posts the
  kernel semaphore for it (`atomicops.h:738-743`). The models signal at least 1.
* `eof` is a stub that returns false (`ffmpeg_demuxer.cpp:113`), and the list of protocols given to
  libavformat keeps out the rtsp and rtmp urls that `media_demuxer.h:19` speaks of
  (`ffmpeg_demuxer.cpp:36`).
* A null frame flushes the decoder, but one picture is received for it and the codec refuses a second
  empty packet (`ffmpeg_decoder.cpp:119-125`). The player never sends one, so the pictures its codec
  holds back at the end are not shown.
* One decoder is entered in the registry, H264's: the call that would fetch libavcodec's is commented
  out (`ffmpeg_decoder_enumerate.cpp:21`), where the header says "init all support decoder".
* The usage lists `-v` and `--version` (`main.cpp:143`); the loop over the arguments takes neither.
* An assigned compressed frame gets the duration for its position (`compressed_frame.cpp:47`), an
  assigned stream keeps a pointer to what it has freed (`stream_info.cpp:73`). The player assigns
  neither.

## Fairness

`FairSpec` of the importer assumes that a thread which can take a step keeps taking steps (the
operating system's scheduler), including the owner inside a call; that the source always answers a
read, with a frame or without one (`DemuxerRead` is part of the demuxer's weak fairness); and that the
decoder thread, waiting for the mutex, gets it in the end even if the owner goes on taking and
releasing it in `read_frame` (strong fairness of `PublishLock`). `std::mutex` does not promise that by
itself; the main loop makes it so, since it releases the mutex and renders, or sleeps, between two
calls of `read_frame` (`main.cpp:116-131`). The owner is never obliged to make a call. If the source
can go silent for ever, `stop_working` does not return: nothing interrupts `av_read_frame`.

`PlayerFairSpec` asks the same weak fairness of each thread, main included, and no strong fairness:
what it is used for does not need the decoder to get the mutex. The user need do nothing. `QuitEndsPlayer`
rests on the bound `MaxEvents` besides: the inner loop (`main.cpp:110`) goes on for as long as SDL has
another event, and nothing in the code bounds that. It ends because a user sends fewer events than main can
take, which is what the bound stands for.

`FairSpec` of the blocking queue: each thread goes on inside a call. A timed wait may expire as soon as
it sleeps, and does in the end unless it is woken; whether either thread calls is open.

`FairSpec` of the session: the decoder thread goes on, and the demuxer thread goes on with reads that
come to something (`position' # position`): a source that answers "try again" for ever, or not at all,
is left out, as in `StopReturns`.

## Proofs

`MediaImporterProofs` proves, for every queue capacity not above the limit, every number of frames
and every number of starts, all the safety properties of `importer_safety`: `ImporterInv`, `TypeOK`,
`SingleConsumer`, `FrameOwnership`, `NoStaleSession`, `QuiescentAfterStop`, `PictureSafe`, the action
properties `LossOnlyWhenFull`, `FifoDecode` and `ShownNeverGoesBack`.

All rest on `Invariance`, `Spec => []ImporterInv`. None of the properties is inductive alone. `TypeOK` needs
that pictures never outnumber frames, which needs that each decode used up a frame newer than all
before it, which needs the order of the queue. `SingleConsumer` needs that the demuxer never gets to
clear the queue, which needs `TypeOK` and the assumption on the constants. So `ImporterInv` has four parts:
`TypeOK`; `ThreadInv`, which threads exist at each point of the owner's calls and where the queue is
empty; `FrameInv`, frames are allocated, in order, and of this session all along the pipeline; and
`PictureInv`, who holds the mutex and what is allocated at each point of the replacement. `TypeStep`,
`ThreadStep`, `FrameStep` and `PictureStep` show that each part survives every action, given all
four. `DequeuedFacts` and `TryEnqueueFacts` say what the queue's operators do to a sequence.

`LightweightSemaphoreProofs` proves `SemaSpec => []SemaInv` and that the semaphore implements
`CountingSemaphore`, for every initial count and any positive signals. That no unit is made or lost
(`UnitsConserved`) is not inductive: a wait that takes a unit from the kernel must know that the
kernel has it on account of its own announcement. `KernelMatchesWaiter` says so: there is a unit in
the kernel, or about to be posted, exactly while the announced waiter has been answered. `WaiterKnows`
adds what the waiter has seen of the count between its look and its decrement. There is a lemma for
each kind of step (`SignalKeeps`, `PostKeeps`, `WaitKeeps`, `WaiterKeeps`), which also says what the
step does to the units available.

`BlockingReaderWriterQueueProofs` uses these for the queue. Every step of it is one of the semaphore or
leaves it alone (`SemaphoreSteps`), so it has the semaphore's invariant and refinement
(`SemaphoreRuns`, `UnitsCounted`). Its own invariant is that the elements are the units plus those in
one of the threads' hands (`CountKept`); from it follow, for every capacity, that a dequeue which got a
unit finds an element (`DequeuesSucceed`) and that a dequeue is refused only beside no finished enqueue
(`RefusalsRight`).

`PlayerProofs` proves `CallsInTurn`, `LoopPlays` and `NothingLeftRunning`, for any number of frames and
events. That main takes the importer's steps and no others holds by how the model is written
(`ImporterInProgram`), and so what is proved of the importer holds in the program; but a call that comes where
the importer cannot take it would be a step missing there, and `CallsInTurn` says that none is. It is
inductive only with what is under way inside the calls: `MainInv` says for each place of main how far the
importer's owner can be, what it goes on with after `stop_working`, and which of the threads has been started
by then and has not been asked to end. `ThreadSteps` and `OwnerSteps` are what the importer's steps do to
these. With `StopQuiesces` it follows that main leaves nothing running however it returns
(`NothingIsLeftRunning`).

`ReaderWriterQueueProofs` proves, for every size, every largest block, every number of blocks and
elements and both allocation modes, everything the runs check of the lock-free queue: `SlotExclusive`, `AssertionsHold`,
`ValuesInOrder`, `RefusesOnlyWhenFull`, `FindsNothingOnlyWhenEmpty`, `SizeApproxBetween`, and that it
implements `SpscQueue` (`QueueImplementsFifo`). With `OneConsumer` of the importer this closes the chain
from the atomic accesses of the queue to the pipeline, which takes the queue's calls for those of `SpscQueue`.

None of these is inductive. That a slot is free when the producer writes it depends on its copy of the
front index being old in the harmless direction only; that the consumer may leave an empty block
depends on which blocks the producer can have filled since. So `QueueInv` of
`ReaderWriterQueueProperties` describes the whole structure at every point of both calls:

* `OneCircle`: the blocks are linked into one circle;
* `SlotsHold`: what is in a slot follows from its place behind the front of its block, but for the one
  slot each thread is at;
* `BlocksFollow`: from front block to tail block the numbers of the elements go on without a gap, the
  blocks in between are full and the others are empty;
* `ProducerKnows`, `ConsumerKnows`: what each thread has read of the other's indices is still true in
  the direction it counts on, at each place of its code;
* `BlockBounds`: how many blocks there are and how large, from which `RefusesOnlyWhenFull` follows by
  counting: a producer that refuses has seen the block behind the tail block taken, so all blocks but
  that one are full.

There is a lemma for each step of either thread; what several of them need of a step (that an index
published, a slot filled or released, a block left leaves the other blocks and slots as they were) is
a lemma of its own. The steps that change the circle are the long ones:
`AllocateBlock` puts a block into it, `AdvanceTailBlock` and `AdvanceFrontBlock` move along it, and
"every block between front and tail" has to be re-established each time. Such facts about
the blocks in between are proved by their least counterexample (`Least`, from the
well-foundedness of `<`), since the provers have no induction. The refinement needs that the queue's content is
the run of numbers from `removed + 1` to `accepted` (`ContentsAre`), and that the blocks have no more room
than the abstract queue (`Room`).

`SizeApproxBetween` is about a sum that one thread makes over blocks while the other moves through them
and adds to their number. `SizingInv` needs no sum over blocks, though: the elements are numbered,
and by `BlocksFollow` what lies in the blocks from one to another is a difference of two numbers. At each
place of a walk, `Ahead` is what there is from it on and `Passed` what there is behind it.

* The consumer's front block does not move while it walks. Its sum has missed nothing that was there at
  the start (it and what is ahead are at least `held`), and has not counted more than it has passed.
  `PassedNew` is the one exception, the element that is in the block the producer is about to enter: the
  walk may count it before `accepted` does. That is why the upper bound is one above.
* The producer's own end does not move, but the consumer may take blocks from the front of the circle
  while the walk is still in them. `Left` is the set of these, from the block the walk began at to before
  the front block. In them the walk finds nothing and has all that is in the queue ahead of it; beyond
  them it counts nothing that was not there at the start, and misses nothing that it has passed and that is
  still there.

A walk ends where it began, which must come neither too early nor too late: `WalkHops` shows that from a
block with elements ahead it goes on to one whose elements follow, until it is beyond the tail block and so has
passed everything; a consumer is there when it meets its front block again, and so is a producer when
it meets the block it began with (`LeftHops`). `ProducerStepSizes`, `ConsumerStepSizes` and `WalkStepSizes` show that both parts
survive every step of either thread; those that change the circle (`AllocateBlock`, `AdvanceTailBlock` beneath
the consumer's walk, `AdvanceFrontBlock` beneath the producer's) are the ones that need an argument.

`MediaSessionProofs` proves, for all files, streams and packets, every delay of the codec and every size of
the queue, `ChosenStreamIsOfOpenFile`, `CodecKeptUp` and `PicturesInOrder`. The last of these is about two
orders. `FramesInOrder` of `SessionInv` is the one of the file: what the codec holds was read before all that
may still get to it (`ToCome`), and all of it is of the file opened last. `ShownFirst` is the one of
presentation: the picture shown comes before all the codec holds, and before every packet to come that the codec
can decode. The step from one to the other is `FirstIsThere`: a codec that has `Delay + 1` pictures has one that is
presented before any given packet to come, since that packet is presented before at most `Delay` of those
it follows (`ReorderAssumption`), and different pictures are of different packets, so one of these is not
among them (`FS_PigeonHole`). So the earliest is safe to give out, and frames lost to a full queue, refused or of other
streams only leave the codec more time. That the codec has at most `Delay + 1`, and takes every
frame offered, is `CodecKeptUp`, and that it has pictures of one file only, that it is new for each file
(`avcodec_alloc_context3` in `open_codec`). `ChosenStreamIsOfOpenFile` rests on `LastVideoStream`: the
streams of the open file are the last in the demuxer's list, and `open` goes through to the end of it.

`RawVideoFrameProofs` proves `BuffersOwnedOnce` and `CopiesAreEqual` for any number of pictures, planes of
any size and any allocator that returns free addresses. `Replaces` says what all operations have in
common: one variable's picture gives way to another, whose planes are in addresses that were free or its
own. `ReplacesInv` shows that this keeps the invariant, and there is a lemma for each operation which says that
it is one such step. `BuffersOwnedOnce` is all but inductive; the invariant adds the types and
`PlanesFitFormat`, without which a copy, whose line counts are worked out anew, might not be that of
its original.

`PlayerArgsProofs` proves `PlaysWhatItSays` for command lines of any length over any set of arguments, in which
four strings stand for all that are digits: the empty one, two widths, and one above the range of `int`
(`Digits` of `PlayerArgs`). The loop asks of a value only whether it is digits, and `std::stoi` whether it
fits. The property speaks of the finished loop only; `ParsedSoFar` is what it says of the pairs the loop has
passed. It needs that the loop is always at the first of a pair, a part of `TypeOK`.

Assumed are the assumptions on the constants, which TLC evaluates in every run of the modules that state them:

* `ImporterAssumption`, `SemaphoreAssumption`, `BlockingAssumption`: the importer's code has 15 and 120; the
  queue's semaphore starts from 0 and is signalled 1;
* `QueueAssumption`, `ReserveAssumption`: the size is at least 1 and not above what integers of 32 bits
  allow, the largest block is a power of two (the code asserts it), and there may be as many blocks as the
  constructor makes (otherwise it throws);
* `ReorderAssumption`: in each file, no two packets the player decodes are presented at once, and none is
  presented before more than `Delay` of those it follows. The second is what a stream promises its decoder
  (`has_b_frames`) and what a codec sets its delay by;
* `MediaAssumption`, `DelayAssumption`, `SessionAssumption`, `NothingAssumption`: a file has streams and
  packets of these, delay and queue size are numbers, and what stands for nothing is not a frame, a picture
  or a file;
* `FormatAssumption`, `GoneAssumption`: pictures have one of the three formats `PushFrameData` knows (that
  others occur is the finding `session_formats`), and `Gone` is not a picture;
* `ArgumentsAssumption`: the bound on the length of the command line is a number.

Left to TLC: the six liveness properties (`StopReturns`, `QueuedFramesAreFreed`, `WaitEnds`, `PlaysToTheEnd`,
`QuitEndsPlayer`, `PublishedIsDrawn`), since fairness and `ENABLED` are out of this prover's reach. Every safety
property and every refinement that a passing run checks is also a theorem.

## What the models leave out

* Memory below sequential consistency. The fences of `atomicops.h` are taken at their word.
* The content of frames and pictures, their sizes, and of their times all but which is first. What SDL reads of a
  picture goes by the texture's size. That the picture's planes are at least as
  large as the texture of the window's size is up to the user (`main.cpp:145-146`).
* The memory of `AVPacket` and `AVFrame`: a packet too small is not unreferenced
  (`ffmpeg_demuxer.cpp:90`) and a frame not decoded not freed (`ffmpeg_decoder.cpp:128`); both lose a
  little for each frame.
* `~FFmpegDecoder`, which nothing calls and which frees its extra data twice; the importer deletes
  neither decoder, demuxer nor last picture, and the process ends soon after.
* Names, durations, frame rates, sample formats and metadata of streams, `current_timestamp` (a stub)
  and `ffmpeg_log`.
* Copies of `CompressedFrame`, `StreamInfo` and `MovieInfo`, which nothing in the player makes; their
  copy constructors test members nobody has initialised. When a compressed frame is allocated and
  deleted is in `MediaImporter`.
* Failure of `new` (but in `ReaderWriterQueue`) and of thread creation.
* The semaphores of other platforms, move operations of the queues, `max_capacity`.
* The flush of the decoder, `size_approx` of the blocking queue.
* The log: output only, on which no state of the player depends.

## Plan

1. Done: all components but the atomics, which are below what TLC's interleavings show, and the log.
2. Done: the inductive invariant of every component, and from these all safety properties and
   refinements that the runs check.
3. Open: liveness has no proofs, for want of rules for fairness in the prover.
