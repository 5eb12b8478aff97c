-------------------------- MODULE ReaderWriterQueue --------------------------
(***************************************************************************)
(* moodycamel::ReaderWriterQueue (base/readerwriterqueue.h): a wait-free   *)
(* queue of one producer and one consumer, built as a circular list of     *)
(* blocks, each a circular buffer with one slot always left free.          *)
(*                                                                         *)
(* A step makes at most one access to what the other thread writes; what a *)
(* thread alone writes it reads for free.  The memory is sequentially      *)
(* consistent: the acquire and release fences of the code are taken to do  *)
(* what their comments say.  The elements are the numbers 1, 2, 3, ... in  *)
(* the order they are accepted; Raw is a slot without an element.          *)
(***************************************************************************)
EXTENDS Naturals, Sequences

CONSTANTS Size,           \* the constructor's argument; 15 by default
          MaxBlockSize,   \* MAX_BLOCK_SIZE; 512 by default
          Modes,          \* allocation modes the producer uses, of CanAlloc and CannotAlloc
          SizeCallers,    \* threads that call size_approx
          MaxBlocks,      \* bound: make_block fails when there are that many blocks
          MaxItems        \* bound: elements accepted

\* As far as TLC's integers go.
PowersOf2 == {2^i : i \in 0..30}
CeilToPow2(x) == CHOOSE p \in PowersOf2 :
                   x <= p /\ \A q \in PowersOf2 : x <= q => p <= q

ASSUME QueueAssumption ==
  /\ Size \in 1..2^30 - 1 /\ MaxBlockSize \in PowersOf2 \ {1}
  /\ Modes \subseteq {"CanAlloc", "CannotAlloc"}
  /\ SizeCallers \subseteq {"producer", "consumer"}
  /\ MaxBlocks \in Nat /\ MaxItems \in Nat

VARIABLES
  blocks,             \* every block, in the order of their creation
  frontBlock,         \* number of the block the consumer is in
  tailBlock,          \* number of the block the producer is in
  largestBlockSize,
  producer, consumer, \* where each thread is in its call; "idle" between calls
  mode,               \* allocation mode of the producer's call
  op,                 \* the consumer's call: try_dequeue, pop or peek
  got,                \* element the consumer read last
  sizing,             \* locals of each thread's size_approx, while it runs
  \* Ghosts: elements accepted and removed, how many the queue held when each
  \* thread's call began, and what its last call returned.
  accepted, removed, held, outcome

producerVars == <<tailBlock, largestBlockSize, producer, mode, accepted>>
consumerVars == <<frontBlock, consumer, op, got, removed>>
vars == <<blocks, producerVars, consumerVars, sizing, held, outcome>>

Raw == 0
NewBlock(size) ==
  [size |-> size, front |-> 0, tail |-> 0, localFront |-> 0, localTail |-> 0,
   next |-> 1, data |-> [i \in 0..size - 1 |-> Raw]]

After(b, slot) == (slot + 1) % blocks[b].size

\* How many blocks the constructor reserves, and of what size.
OneBlock == CeilToPow2(Size + 1) <= MaxBlockSize * 2
InitialBlockSize == IF OneBlock THEN CeilToPow2(Size + 1) ELSE MaxBlockSize
\* Variant: the spare block forgotten.
ReserveWithoutSpare == (Size + MaxBlockSize - 2) \div (MaxBlockSize - 1)

ReserveBlocks == (Size + MaxBlockSize * 2 - 3) \div (MaxBlockSize - 1)
InitialBlockCount == IF OneBlock THEN 1 ELSE ReserveBlocks

ASSUME ReserveAssumption == InitialBlockCount <= MaxBlocks

NoSizing == [first |-> 1, at |-> 1, sum |-> 0]

Init ==
  /\ blocks = [b \in 1..InitialBlockCount |->
                 [NewBlock(InitialBlockSize) EXCEPT !.next = (b % InitialBlockCount) + 1]]
  /\ frontBlock = 1 /\ tailBlock = 1 /\ largestBlockSize = InitialBlockSize
  /\ producer = "idle" /\ consumer = "idle"
  /\ mode = "CannotAlloc" /\ op = "try_dequeue" /\ got = Raw
  /\ sizing = [t \in {"producer", "consumer"} |-> NoSizing]
  /\ accepted = 0 /\ removed = 0
  /\ held = [t \in {"producer", "consumer"} |-> 0]
  /\ outcome = [t \in {"producer", "consumer"} |-> "none"]

\* A call of thread t begins, or ends with an answer.
Begin(t) == /\ held' = [held EXCEPT ![t] = accepted - removed]
            /\ outcome' = [outcome EXCEPT ![t] = "none"]
Answer(t, a) == outcome' = [outcome EXCEPT ![t] = a] /\ UNCHANGED held
Continue == UNCHANGED <<held, outcome>>

(***************************************************************************)
(* The producer: try_enqueue and enqueue, that is inner_enqueue.           *)
(***************************************************************************)
producerRest == <<consumerVars, sizing>>

\* Variant: the producer's copy of the front is never refreshed.
StaleFront(front) == IF After(tailBlock, blocks[tailBlock].tail) # front THEN "write" ELSE "full"
WithRoom(front) == IF After(tailBlock, blocks[tailBlock].tail) # front THEN "write" ELSE "refresh"

\* The tail block has room by the producer's own copy of its front.
Enqueue(m) ==
  /\ producer = "idle" /\ accepted < MaxItems
  /\ mode' = m
  /\ producer' = WithRoom(blocks[tailBlock].localFront)
  /\ Begin("producer")
  /\ UNCHANGED <<blocks, tailBlock, largestBlockSize, accepted, producerRest>>

\* Variant: no slot is kept free in a block.
NoFreeSlotKept(b) == TRUE
HasRoom(b) == After(tailBlock, b.tail) # b.front

\* Read the consumer's front and look again.
RefreshFront ==
  /\ producer = "refresh"
  /\ LET b == blocks[tailBlock]
     IN  /\ blocks' = [blocks EXCEPT ![tailBlock].localFront = b.front]
         /\ producer' = IF HasRoom(b) THEN "write" ELSE "full"
  /\ Continue
  /\ UNCHANGED <<tailBlock, largestBlockSize, mode, accepted, producerRest>>

\* Construct the element in its slot; then publish it by moving the tail.
WriteElement ==
  /\ producer = "write"
  /\ blocks' = [blocks EXCEPT ![tailBlock].data[blocks[tailBlock].tail] = accepted + 1]
  /\ producer' = "publish"
  /\ Continue
  /\ UNCHANGED <<tailBlock, largestBlockSize, mode, accepted, producerRest>>

PublishElement ==
  /\ producer = "publish"
  /\ blocks' = [blocks EXCEPT ![tailBlock].tail = After(tailBlock, @)]
  /\ producer' = "idle"
  /\ accepted' = accepted + 1
  /\ Answer("producer", "true")
  /\ UNCHANGED <<tailBlock, largestBlockSize, mode, producerRest>>

\* Whether the producer may move into block b: not if the consumer is there.
\* Variant: the tail is only kept from running into its own block.
NextBlockExists(b) == b # tailBlock
BlockFree(b) == b # frontBlock

\* The tail block is full: go to the next block, allocate one, or refuse.
TailBlockFull ==
  /\ producer = "full"
  /\ IF BlockFree(blocks[tailBlock].next)
       THEN producer' = "nextBlock" /\ Continue
     ELSE IF mode = "CanAlloc"
       THEN producer' = "allocate" /\ Continue
       ELSE producer' = "idle" /\ Answer("producer", "false")
  /\ UNCHANGED <<blocks, tailBlock, largestBlockSize, mode, accepted, producerRest>>

\* The element goes into the next block, which no one reads before tailBlock
\* says it may: the writes before that are one step.
UseNextBlock ==
  /\ producer = "nextBlock"
  /\ LET next == blocks[tailBlock].next
         slot == blocks[next].tail
     IN  blocks' = [blocks EXCEPT ![next].localFront = blocks[next].front,
                                  ![next].data[slot] = accepted + 1,
                                  ![next].tail = After(next, slot)]
  /\ producer' = "advance"
  /\ Continue
  /\ UNCHANGED <<tailBlock, largestBlockSize, mode, accepted, producerRest>>

\* Variant: a new block is followed by the first one.
FirstBlockNext == 1
NewBlockNext == blocks[tailBlock].next

\* A new block, twice as large until MAX_BLOCK_SIZE, linked after the tail block
\* with the element already in it; make_block may fail.
AllocateBlock ==
  /\ producer = "allocate"
  /\ \/ /\ Len(blocks) < MaxBlocks
        /\ LET size == IF largestBlockSize >= MaxBlockSize THEN largestBlockSize
                                                           ELSE largestBlockSize * 2
           IN  /\ largestBlockSize' = size
               /\ blocks' = Append([blocks EXCEPT ![tailBlock].next = Len(blocks) + 1],
                                   [NewBlock(size) EXCEPT !.tail = 1, !.localTail = 1,
                                                          !.data[0] = accepted + 1,
                                                          !.next = NewBlockNext])
        /\ producer' = "advance" /\ Continue
     \/ /\ producer' = "idle" /\ Answer("producer", "false")
        /\ UNCHANGED <<blocks, largestBlockSize>>
  /\ UNCHANGED <<tailBlock, mode, accepted, producerRest>>

AdvanceTailBlock ==
  /\ producer = "advance"
  /\ tailBlock' = blocks[tailBlock].next
  /\ producer' = "idle"
  /\ accepted' = accepted + 1
  /\ Answer("producer", "true")
  /\ UNCHANGED <<blocks, largestBlockSize, mode, producerRest>>

(***************************************************************************)
(* The consumer: try_dequeue, pop and peek.                                *)
(***************************************************************************)
consumerRest == <<producerVars, sizing>>

\* The front block holds an element by the consumer's own copy of its tail.
Dequeue(o) ==
  /\ consumer = "idle"
  /\ op' = o
  /\ LET b == blocks[frontBlock]
     IN  consumer' = IF b.front # b.localTail THEN "take" ELSE "refresh"
  /\ Begin("consumer")
  /\ UNCHANGED <<blocks, frontBlock, got, removed, consumerRest>>

\* Read the producer's tail into the consumer's copy; go on to where if the
\* front block has an element after all, else to otherwise.
ReadTail(otherwise) ==
  LET b == blocks[frontBlock]
  IN  /\ blocks' = [blocks EXCEPT ![frontBlock].localTail = b.tail]
      /\ consumer' = IF b.front # b.tail THEN "take" ELSE otherwise

RefreshTail ==
  /\ consumer = "refresh"
  /\ ReadTail("tailBlock")
  /\ Continue
  /\ UNCHANGED <<frontBlock, op, got, removed, consumerRest>>

\* Nothing in the front block; if the producer is there too, nothing at all.
CheckTailBlock ==
  /\ consumer = "tailBlock"
  /\ IF frontBlock = tailBlock
       THEN consumer' = "idle" /\ Answer("consumer", "false")
       ELSE consumer' = "recheck" /\ Continue
  /\ UNCHANGED <<blocks, frontBlock, op, got, removed, consumerRest>>

\* Variant: the front block, found empty before, is not looked at again.
TakeOnTrust ==
  /\ consumer = "recheck"
  /\ consumer' = "nextBlock"
  /\ Continue
  /\ UNCHANGED <<blocks, frontBlock, op, got, removed, consumerRest>>

\* The producer may have filled the front block before it moved on: look again.
Recheck ==
  /\ consumer = "recheck"
  /\ ReadTail("nextBlock")
  /\ Continue
  /\ UNCHANGED <<frontBlock, op, got, removed, consumerRest>>

\* The front block is used up: move to the next one, which holds an element.
\* peek reads that element from where it is.
NextBlockTail ==
  /\ consumer = "nextBlock"
  /\ LET next == blocks[frontBlock].next
         b == blocks[next]
     IN  IF op = "peek"
           THEN /\ got' = b.data[b.front]
                /\ consumer' = "idle" /\ Answer("consumer", "true")
                /\ UNCHANGED blocks
           ELSE /\ blocks' = [blocks EXCEPT ![next].localTail = b.tail]
                /\ consumer' = "advance" /\ Continue /\ UNCHANGED got
  /\ UNCHANGED <<frontBlock, op, removed, consumerRest>>

AdvanceFrontBlock ==
  /\ consumer = "advance"
  /\ frontBlock' = blocks[frontBlock].next
  /\ consumer' = "take"
  /\ Continue
  /\ UNCHANGED <<blocks, op, got, removed, consumerRest>>

\* Read the element, and unless peeking destroy it; then free its slot.
TakeElement ==
  /\ consumer = "take"
  /\ LET b == blocks[frontBlock]
     IN  /\ got' = b.data[b.front]
         /\ IF op = "peek"
              THEN consumer' = "idle" /\ Answer("consumer", "true") /\ UNCHANGED blocks
              ELSE /\ consumer' = "release" /\ Continue
                   /\ blocks' = [blocks EXCEPT ![frontBlock].data[b.front] = Raw]
  /\ UNCHANGED <<frontBlock, op, removed, consumerRest>>

ReleaseSlot ==
  /\ consumer = "release"
  /\ blocks' = [blocks EXCEPT ![frontBlock].front = After(frontBlock, @)]
  /\ consumer' = "idle"
  /\ removed' = removed + 1
  /\ Answer("consumer", "true")
  /\ UNCHANGED <<frontBlock, op, got, consumerRest>>

(***************************************************************************)
(* size_approx, called by either thread: once round the circle from the    *)
(* front block.                                                            *)
(***************************************************************************)
\* Where thread t is, and its move to another place.
At(t, pc) == IF t = "producer" THEN producer = pc ELSE consumer = pc
Go(t, pc) == IF t = "producer" THEN producer' = pc /\ UNCHANGED consumer
                               ELSE consumer' = pc /\ UNCHANGED producer

sizeRest == <<blocks, frontBlock, tailBlock, largestBlockSize, mode, op, got, accepted, removed>>

SizeApprox(t) ==
  /\ At(t, "idle") /\ Go(t, "count")
  /\ sizing' = [sizing EXCEPT ![t] = [first |-> frontBlock, at |-> frontBlock, sum |-> 0]]
  /\ Begin(t)
  /\ UNCHANGED sizeRest

\* Variant: the wrap-around of the indices forgotten.
Distance(b) == IF b.tail >= b.front THEN b.tail - b.front ELSE b.size
\* Elements in a block by its indices.
Count(b) == (b.tail + b.size - b.front) % b.size

CountBlock(t) ==
  /\ At(t, "count") /\ Go(t, "hop")
  /\ sizing' = [sizing EXCEPT ![t].sum = @ + Count(blocks[sizing[t].at])]
  /\ Continue
  /\ UNCHANGED sizeRest

\* Variant: the walk ends at what is the front block by now.
FrontBlockOf(t) == frontBlock
\* The block at which the walk ends, the front block as it was when the walk began.
FirstBlockOf(t) == sizing[t].first

HopBlock(t) ==
  /\ At(t, "hop")
  /\ sizing' = [sizing EXCEPT ![t].at = blocks[@].next]
  /\ Go(t, IF sizing'[t].at = FirstBlockOf(t) THEN "sized" ELSE "count")
  /\ Continue
  /\ UNCHANGED sizeRest

ReturnSize(t) ==
  /\ At(t, "sized") /\ Go(t, "idle")
  /\ sizing' = [sizing EXCEPT ![t] = NoSizing]
  /\ Continue
  /\ UNCHANGED sizeRest

ProducerNext == \/ \E m \in Modes : Enqueue(m)
                \/ RefreshFront \/ WriteElement \/ PublishElement
                \/ TailBlockFull \/ UseNextBlock \/ AllocateBlock \/ AdvanceTailBlock
ConsumerNext == \/ \E o \in {"try_dequeue", "pop", "peek"} : Dequeue(o)
                \/ RefreshTail \/ CheckTailBlock \/ Recheck \/ NextBlockTail
                \/ AdvanceFrontBlock \/ TakeElement \/ ReleaseSlot
SizeNext(t) == SizeApprox(t) \/ CountBlock(t) \/ HopBlock(t) \/ ReturnSize(t)

Next == ProducerNext \/ ConsumerNext \/ \E t \in SizeCallers : SizeNext(t)

Spec == Init /\ [][Next]_vars
==============================================================================
