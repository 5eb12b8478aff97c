-------------------- MODULE ReaderWriterQueueProperties --------------------
(***************************************************************************)
(* What the queue promises its one producer and its one consumer.          *)
(***************************************************************************)
EXTENDS ReaderWriterQueue, SequencesExt

Threads == {"producer", "consumer"}
SizeStates == {"count", "hop", "sized"}
Items == 1..MaxItems
BlockNumbers == 1..Len(blocks)

Sizes == PowersOf2 \intersect 2..2 * MaxBlockSize
Block(size) ==
  [size : {size}, front : 0..size - 1, tail : 0..size - 1,
   localFront : 0..size - 1, localTail : 0..size - 1,
   next : BlockNumbers, data : [0..size - 1 -> Items \union {Raw}]]

BlocksOK ==
  /\ blocks \in Seq(Range(blocks))
  /\ \A b \in BlockNumbers : blocks[b].size \in Sizes /\ blocks[b] \in Block(blocks[b].size)

\* Types of the state variables; every index stays inside its block.
TypeOK ==
  /\ BlocksOK
  /\ frontBlock \in BlockNumbers /\ tailBlock \in BlockNumbers /\ largestBlockSize \in Sizes
  /\ producer \in SizeStates \union {"idle", "refresh", "write", "publish", "full", "nextBlock",
                                    "allocate", "advance"}
  /\ consumer \in SizeStates \union {"idle", "refresh", "tailBlock", "recheck", "nextBlock",
                                    "advance", "take", "release"}
  /\ mode \in Modes \union {"CannotAlloc"} /\ op \in {"try_dequeue", "pop", "peek"}
  /\ got \in Items \union {Raw}
  /\ sizing \in [Threads -> [first : BlockNumbers, at : BlockNumbers, sum : Nat]]
  /\ accepted \in 0..MaxItems /\ removed \in 0..accepted
  /\ held \in [Threads -> 0..MaxItems] /\ outcome \in [Threads -> {"none", "true", "false"}]

(***************************************************************************)
(* What is in the queue: the blocks from the front block to the tail block *)
(* one after the other, each from its front to its tail.  An element read  *)
(* and destroyed counts until its slot is free again.                      *)
(***************************************************************************)
Filled(b) == (b.tail + b.size - b.front) % b.size

BlockAt[n \in 0..Len(blocks)] == IF n = 0 THEN frontBlock ELSE blocks[BlockAt[n - 1]].next
TailDistance == CHOOSE n \in 0..Len(blocks) - 1 : BlockAt[n] = tailBlock

BlockContents(b) ==
  [i \in 1..Filled(b) |-> b.data[(b.front + i - 1) % b.size]]
Slots == FlattenSeq([i \in 1..TailDistance + 1 |-> BlockContents(blocks[BlockAt[i - 1]])])
Contents == IF consumer = "release" THEN <<got>> \o SubSeq(Slots, 2, Len(Slots)) ELSE Slots

(***************************************************************************)
(* The inductive invariant.                                                *)
(***************************************************************************)
\* A list of all the blocks that goes once round the circle.
Circle(ring) ==
  /\ ring \in [0..Len(blocks) - 1 -> BlockNumbers]
  /\ ring[0] = frontBlock
  /\ \A m, n \in 0..Len(blocks) - 1 : ring[m] = ring[n] => m = n
  /\ \A b \in BlockNumbers : \E n \in 0..Len(blocks) - 1 : ring[n] = b
  /\ \A n \in 0..Len(blocks) - 1 :
       blocks[ring[n]].next = ring[IF n = Len(blocks) - 1 THEN 0 ELSE n + 1]

\* The blocks are linked into one circle.
OneCircle == Circle([n \in 0..Len(blocks) - 1 |-> BlockAt[n]])

\* The slots of a block are numbered from its front.
Place(b, slot) == (slot + b.size - b.front) % b.size

\* The number of the first element of a block, and of the first one behind it.
First(b) == IF b = frontBlock THEN removed + 1 ELSE blocks[b].data[blocks[b].front]
Behind(b) == First(b) + Filled(blocks[b])

\* The block the producer is about to move into; it has put an element there.
Entering(b) == producer = "advance" /\ b = blocks[tailBlock].next
Live(b) == b = frontBlock \/ b = tailBlock \/ (Filled(blocks[b]) > 0 /\ ~Entering(b))

\* Every slot has the element that its place says, or none; a thread between its
\* access to a slot and that to an index makes an exception of that slot.
SlotsHold ==
  \A b \in BlockNumbers : \A slot \in 0..blocks[b].size - 1 :
    blocks[b].data[slot] =
      IF Place(blocks[b], slot) < Filled(blocks[b])
        THEN IF consumer = "release" /\ b = frontBlock /\ slot = blocks[b].front
             THEN Raw ELSE First(b) + Place(blocks[b], slot)
        ELSE IF producer = "publish" /\ b = tailBlock /\ slot = blocks[b].tail
             THEN accepted + 1 ELSE Raw

\* From the front block to the tail block every block goes on where the one
\* before it ends, and is full but for these two; the others are empty.
BlocksFollow ==
  /\ \A b \in BlockNumbers : Live(b) =>
       /\ Behind(b) <= accepted + 1
       /\ b # tailBlock =>
            /\ blocks[b].next # frontBlock
            /\ Filled(blocks[blocks[b].next]) > 0 /\ First(blocks[b].next) = Behind(b)
            /\ b # frontBlock => Filled(blocks[b]) = blocks[b].size - 1
  /\ \A b \in BlockNumbers : b = tailBlock \/ ~Live(b) =>
       blocks[b].next = frontBlock \/ ~Live(blocks[b].next)
  /\ Behind(tailBlock) = accepted + 1
  /\ tailBlock # frontBlock => Filled(blocks[tailBlock]) > 0

\* How much a block holds by a thread's own copy of the other thread's index.
FilledAtMost(b) == (b.tail + b.size - b.localFront) % b.size
FilledAtLeast(b) == (b.localTail + b.size - b.front) % b.size

\* What the producer has seen is still so where it counts on it.
ProducerKnows ==
  LET b == blocks[tailBlock]
      next == blocks[b.next]
  IN  /\ Filled(b) <= FilledAtMost(b)
      /\ producer \in {"write", "publish"} => FilledAtMost(b) < b.size - 1
      /\ producer \in {"full", "nextBlock", "allocate", "advance"}
           => /\ tailBlock # frontBlock => Filled(b) = b.size - 1
              /\ held["producer"] >= b.size - 1
      /\ producer = "nextBlock" => b.next # frontBlock
      /\ producer = "allocate" => mode = "CanAlloc"
      /\ producer = "advance" =>
           /\ b.next \notin {frontBlock, tailBlock}
           /\ Filled(next) = 1 /\ next.data[next.front] = accepted + 1
           /\ next.localFront = next.front
      /\ producer \in {"refresh", "write", "publish", "full", "nextBlock", "allocate", "advance"}
           => accepted < MaxItems /\ held["producer"] >= accepted - removed

\* And so for the consumer.
ConsumerKnows ==
  LET b == blocks[frontBlock]
      next == blocks[b.next]
  IN  /\ FilledAtLeast(b) <= Filled(b)
      /\ consumer \in {"take", "release"} => FilledAtLeast(b) > 0
      /\ consumer = "release" => got = removed + 1 /\ op # "peek"
      /\ consumer \in {"recheck", "nextBlock", "advance"} => frontBlock # tailBlock
      /\ consumer \in {"nextBlock", "advance"} => Filled(b) = 0
      /\ consumer = "advance" =>
           /\ op # "peek"
           /\ FilledAtLeast(next) \in 1..Filled(next)
      /\ consumer \in {"refresh", "tailBlock", "recheck", "nextBlock", "advance", "take", "release"}
           => held["consumer"] <= accepted - removed /\ outcome["consumer"] = "none"
      /\ consumer = "tailBlock" /\ held["consumer"] > 0 => frontBlock # tailBlock

\* The assertions in the code: a block the producer moves into is empty, one
\* the consumer moves into is not.
AssertionsHold ==
  /\ producer = "nextBlock" => Filled(blocks[blocks[tailBlock].next]) = 0
  /\ consumer = "nextBlock" => Filled(blocks[blocks[frontBlock].next]) > 0

\* A slot is constructed only while it holds nothing and read only while it
\* holds an element, so the two threads are never in the same slot at once.
SlotExclusive ==
  LET in == blocks[tailBlock]
      out == blocks[frontBlock]
  IN  /\ producer = "write" => in.data[in.tail] = Raw
      /\ consumer = "take" => out.data[out.front] # Raw
      /\ producer = "write" /\ consumer = "take"
           => tailBlock # frontBlock \/ in.tail # out.front

\* The consumer gets every element once, in the order they were accepted, and
\* peek shows the one that comes next.
ValuesInOrder ==
  /\ consumer = "release" => got = removed + 1
  /\ outcome["consumer"] = "true" => got = removed + IF op = "peek" THEN 1 ELSE 0

\* "can hold at least `size` elements without further allocations": try_enqueue
\* refuses an element only when the queue held that many as it was called.
RefusesOnlyWhenFull ==
  outcome["producer"] = "false" /\ mode = "CannotAlloc" => held["producer"] >= Size

\* try_dequeue, pop and peek find nothing only if the queue was empty when they
\* were called, whatever the producer has done since.
FindsNothingOnlyWhenEmpty == outcome["consumer"] = "false" => held["consumer"] = 0

\* What size_approx returns lies between the number of elements at the start of
\* the call and at its end; the consumer may also count the one element that is
\* in a block the producer has not moved into yet.
SizeApproxBetween ==
  /\ producer = "sized" => /\ sizing["producer"].sum >= accepted - removed
                           /\ sizing["producer"].sum <= held["producer"]
  /\ consumer = "sized" => /\ sizing["consumer"].sum >= held["consumer"]
                           /\ sizing["consumer"].sum <= accepted - removed + 1

\* Where a walk of size_approx goes on counting: in front of block b if it has yet
\* to count it, behind it if it has.
Walking(pc, b) == pc # "sized" /\ Live(b)
WalkedTo(pc, b) == IF pc = "count" THEN First(b) ELSE Behind(b)

\* The elements ahead of the walk, and those it has passed, which are all of them
\* beyond the tail block.
Ahead(pc, b) == IF Walking(pc, b) THEN accepted + 1 - WalkedTo(pc, b) ELSE 0
Passed(pc, b) == IF Walking(pc, b) THEN WalkedTo(pc, b) - removed - 1 ELSE accepted - removed

\* There it may have passed the element in the block the producer enters, too.
PassedNew(pc, b) ==
  IF ~Walking(pc, b) /\ producer = "advance" /\ (pc = "count" => ~Entering(b)) THEN 1 ELSE 0

\* The consumer's front block stays as it walks: it misses nothing that was there
\* when it began, and counts nothing that it has not passed.
ConsumerSizes ==
  LET s == sizing["consumer"]
  IN  consumer \in SizeStates =>
        /\ s.first = frontBlock
        /\ held["consumer"] <= s.sum + Ahead(consumer, s.at)
        /\ s.sum <= Passed(consumer, s.at) + PassedNew(consumer, s.at)

\* The blocks the consumer has left since the producer's walk began in the block
\* first: from that one to before the front block, all of them used up.
Left(left, first) ==
  LET since == left \union {frontBlock}
  IN  /\ first \in since
      /\ \A b \in left : ~Live(b)
      /\ \A b \in BlockNumbers : b \in left <=> blocks[b].next \in since \ {first}

\* The producer counts nothing that was not there when it began, and misses
\* nothing that it has passed and is still there.
ProducerSizes ==
  LET s == sizing["producer"]
      h == held["producer"]
  IN  producer \in SizeStates =>
        \E left \in SUBSET BlockNumbers :
          /\ Left(left, s.first)
          /\ IF producer # "sized" /\ s.at \in left
               THEN s.sum + (accepted - removed) <= h
               ELSE s.sum + Ahead(producer, s.at) <= h /\ Passed(producer, s.at) <= s.sum

\* What a walk has counted: inductive once QueueInv is known.
SizingInv == ConsumerSizes /\ ProducerSizes

\* How many blocks there are, and how large.
BlockBounds ==
  /\ Len(blocks) \in InitialBlockCount..MaxBlocks
  /\ largestBlockSize \in InitialBlockSize..2 * MaxBlockSize
  /\ \A b \in BlockNumbers : blocks[b].size \in InitialBlockSize..largestBlockSize
  /\ mode = "CanAlloc" => "CanAlloc" \in Modes
  /\ "CanAlloc" \notin Modes
       => Len(blocks) = InitialBlockCount /\ largestBlockSize = InitialBlockSize

\* The inductive invariant.
QueueInv ==
  /\ TypeOK /\ OneCircle /\ SlotsHold /\ BlocksFollow /\ ProducerKnows /\ ConsumerKnows
  /\ BlockBounds /\ ValuesInOrder /\ RefusesOnlyWhenFull /\ FindsNothingOnlyWhenEmpty

\* The queue implements the bounded FIFO that the rest of the player relies on.
MaxCapacity == IF "CanAlloc" \in Modes THEN MaxBlocks * (2 * MaxBlockSize - 1)
                                       ELSE InitialBlockCount * (InitialBlockSize - 1)
Fifo == INSTANCE SpscQueue WITH Capacity <- MaxCapacity, Elements <- Items, queue <- Contents
QueueSpec == Fifo!Spec
==============================================================================
