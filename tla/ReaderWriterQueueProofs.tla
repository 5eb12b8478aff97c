----------------------- MODULE ReaderWriterQueueProofs -----------------------
(***************************************************************************)
(* The queue keeps its promises for every size, every largest size of a    *)
(* block, every number of blocks and of elements.  The inductive invariant *)
(* is QueueInv of ReaderWriterQueueProperties: one lemma for each step says    *)
(* that it is kept.  Numbers of elements, blocks and slots are reasoned    *)
(* about by their least counterexample (lemma Least).  What size_approx     *)
(* returns rests on a second invariant, SizingInv, at the end.             *)
(***************************************************************************)
EXTENDS ReaderWriterQueueProperties, SequenceTheorems, WellFoundedInduction, TLAPS

(***************************************************************************)
(* Arithmetic: indices that wrap around.                                   *)
(***************************************************************************)
\* The slots from one index to another.
LEMMA Wrapped ==
  ASSUME NEW s \in Nat \ {0}, NEW f \in 0..s - 1, NEW t \in 0..s - 1
  PROVE  (t + s - f) % s = IF f <= t THEN t - f ELSE t + s - f
<1>1. CASE f <= t
  <2>1. t + s - f = s + (t - f) /\ t - f \in 0..s - 1 BY <1>1
  <2>2. (s + (t - f)) % s = t - f BY <2>1
  <2> QED BY <1>1, <2>1, <2>2
<1>2. CASE f > t
  <2>1. t + s - f \in 0..s - 1 BY <1>2
  <2> QED BY <1>2, <2>1
<1> QED BY <1>1, <1>2

\* The index after another.
LEMMA NextIndex ==
  ASSUME NEW s \in Nat \ {0}, NEW f \in 0..s - 1
  PROVE  (f + 1) % s = IF f = s - 1 THEN 0 ELSE f + 1
OBVIOUS

(***************************************************************************)
(* Blocks.                                                                 *)
(***************************************************************************)
\* A block has at least two slots.
LEMMA SizesAre == \A s \in Sizes : s \in Nat /\ s >= 2
BY DEF Sizes, PowersOf2

\* A record with the indices of a block.
Indices(r) ==
  /\ r.size \in Nat /\ r.size >= 2
  /\ r.front \in 0..r.size - 1 /\ r.tail \in 0..r.size - 1
  /\ r.localFront \in 0..r.size - 1 /\ r.localTail \in 0..r.size - 1

\* The fields of a block.
LEMMA Fields ==
  ASSUME NEW s \in Sizes, NEW r \in Block(s)
  PROVE  /\ Indices(r) /\ r.size = s /\ r.next \in BlockNumbers
         /\ r.data \in [0..s - 1 -> Items \union {Raw}]
<1>1. s \in Nat /\ s >= 2 BY SizesAre
<1> QED BY <1>1 DEF Block, Indices

\* The fields of every block.
LEMMA FieldsOfAll ==
  BlocksOK => \A b \in BlockNumbers :
    /\ Indices(blocks[b]) /\ blocks[b].next \in BlockNumbers
    /\ blocks[b].data \in [0..blocks[b].size - 1 -> Items \union {Raw}]
BY Fields DEF BlocksOK

\* Slots, counted from the front of the block.
LEMMA Places ==
  ASSUME NEW r, Indices(r)
  PROVE  /\ Filled(r) \in 0..r.size - 1
         /\ Filled(r) = IF r.front <= r.tail THEN r.tail - r.front ELSE r.tail + r.size - r.front
         /\ \A slot \in 0..r.size - 1 :
              /\ Place(r, slot) \in 0..r.size - 1
              /\ Place(r, slot) = IF r.front <= slot THEN slot - r.front
                                                     ELSE slot + r.size - r.front
         /\ Place(r, r.front) = 0 /\ Place(r, r.tail) = Filled(r)
<1> USE DEF Indices
<1>1. \A slot \in 0..r.size - 1 :
        Place(r, slot) = IF r.front <= slot THEN slot - r.front ELSE slot + r.size - r.front
  <2> TAKE slot \in 0..r.size - 1
  <2>1. r.size \in Nat \ {0} /\ r.front \in 0..r.size - 1 OBVIOUS
  <2>2. (slot + r.size - r.front) % r.size
          = IF r.front <= slot THEN slot - r.front ELSE slot + r.size - r.front
    BY <2>1, Wrapped, Zenon
  <2> QED BY <2>2 DEF Place
<1>2. Filled(r) = Place(r, r.tail) BY DEF Filled, Place
<1> QED BY <1>1, <1>2

\* What changing one block does to all of them.
LEMMA Updated ==
  ASSUME BlocksOK, NEW b \in BlockNumbers, NEW r, blocks' = [blocks EXCEPT ![b] = r]
  PROVE  /\ Len(blocks') = Len(blocks) /\ BlockNumbers' = BlockNumbers
         /\ \A c \in BlockNumbers : blocks'[c] = IF c = b THEN r ELSE blocks[c]
         /\ r \in Block(blocks[b].size) => BlocksOK'
<1>1. blocks \in Seq(Range(blocks)) BY DEF BlocksOK
<1>2. Len(blocks) \in Nat /\ DOMAIN blocks = 1..Len(blocks) BY <1>1
<1>3. blocks' \in [1..Len(blocks) -> Range(blocks')] BY <1>2 DEF Range
<1>4. blocks' \in Seq(Range(blocks')) BY <1>2, <1>3, SeqDef, ZenonT(60)
<1>5. Len(blocks') = Len(blocks) BY <1>2, <1>3, <1>4
<1>6. BlockNumbers' = BlockNumbers BY <1>5 DEF BlockNumbers
<1>7. \A c \in BlockNumbers : blocks'[c] = IF c = b THEN r ELSE blocks[c]
  BY <1>2 DEF BlockNumbers
<1>8. ASSUME r \in Block(blocks[b].size) PROVE BlocksOK'
  <2>1. r.size = blocks[b].size BY <1>8 DEF Block
  <2>2. ASSUME NEW c \in BlockNumbers
        PROVE  (blocks[c].size \in Sizes /\ blocks[c] \in Block(blocks[c].size))'
    <3>1. blocks[c].size \in Sizes /\ blocks[c] \in Block(blocks[c].size) BY DEF BlocksOK
    <3>2. Block(blocks[c].size)' = Block(blocks'[c].size) BY <1>6, Zenon DEF Block
    <3> QED BY <1>7, <1>8, <2>1, <3>1, <3>2
  <2> QED BY <1>4, <1>6, <2>2 DEF BlocksOK
<1> QED BY <1>5, <1>6, <1>7, <1>8

\* What the assignments to one index or one slot of a block make of the block.
LEMMA Assigned ==
  ASSUME NEW s \in Sizes, NEW r \in Block(s), NEW i \in 0..s - 1, NEW x \in Items \union {Raw}
  PROVE  /\ [r EXCEPT !.front = i] \in Block(s) /\ [r EXCEPT !.tail = i] \in Block(s)
         /\ [r EXCEPT !.localFront = i] \in Block(s) /\ [r EXCEPT !.localTail = i] \in Block(s)
         /\ [r EXCEPT !.data[i] = x] \in Block(s)
BY SizesAre DEF Block

\* A slot constructed or destroyed.
LEMMA SlotAssigned ==
  ASSUME BlocksOK, NEW b \in BlockNumbers, NEW i \in 0..blocks[b].size - 1,
         NEW x \in Items \union {Raw},
         blocks' = [blocks EXCEPT ![b].data[i] = x]
  PROVE  /\ BlocksOK' /\ Len(blocks') = Len(blocks) /\ BlockNumbers' = BlockNumbers
         /\ \A c \in BlockNumbers : c # b => blocks'[c] = blocks[c]
         /\ LET old == blocks[b]  new == blocks'[b]
            IN  /\ new.size = old.size /\ new.front = old.front /\ new.tail = old.tail
                /\ new.localFront = old.localFront /\ new.localTail = old.localTail
                /\ new.next = old.next
                /\ Filled(new) = Filled(old)
                /\ \A slot \in 0..old.size - 1 :
                     /\ Place(new, slot) = Place(old, slot)
                     /\ new.data[slot] = IF slot = i THEN x ELSE old.data[slot]
<1> DEFINE r == [blocks[b] EXCEPT !.data[i] = x]
<1>1. blocks' = [blocks EXCEPT ![b] = r] OBVIOUS
<1>2. blocks[b].size \in Sizes /\ blocks[b] \in Block(blocks[b].size) BY DEF BlocksOK
<1>3. r \in Block(blocks[b].size) BY <1>2, Assigned
<1>4. /\ r.size = blocks[b].size /\ r.front = blocks[b].front /\ r.tail = blocks[b].tail
      /\ r.localFront = blocks[b].localFront /\ r.localTail = blocks[b].localTail
      /\ r.next = blocks[b].next
      /\ \A slot \in 0..blocks[b].size - 1 :
           r.data[slot] = IF slot = i THEN x ELSE blocks[b].data[slot]
  BY <1>2 DEF Block
<1> HIDE DEF r
<1>5. Filled(r) = Filled(blocks[b]) /\ \A slot : Place(r, slot) = Place(blocks[b], slot)
  BY <1>4 DEF Filled, Place
<1>6. /\ BlocksOK' /\ Len(blocks') = Len(blocks) /\ BlockNumbers' = BlockNumbers
      /\ \A c \in BlockNumbers : c # b => blocks'[c] = blocks[c]
      /\ blocks'[b] = r
  BY <1>1, <1>3, Updated
<1> QED BY <1>4, <1>5, <1>6, Zenon

\* A copy of an index brought up to date: what the block holds stays.
LEMMA CopyAssigned ==
  ASSUME BlocksOK, NEW b \in BlockNumbers, NEW i \in 0..blocks[b].size - 1,
         \/ blocks' = [blocks EXCEPT ![b].localFront = i]
         \/ blocks' = [blocks EXCEPT ![b].localTail = i]
  PROVE  /\ BlocksOK' /\ Len(blocks') = Len(blocks) /\ BlockNumbers' = BlockNumbers
         /\ \A c \in BlockNumbers : c # b => blocks'[c] = blocks[c]
         /\ LET old == blocks[b]  new == blocks'[b]
            IN  /\ new.size = old.size /\ new.front = old.front /\ new.tail = old.tail
                /\ new.data = old.data /\ new.next = old.next
                /\ Filled(new) = Filled(old)
                /\ \A slot : Place(new, slot) = Place(old, slot)
         /\ blocks' = [blocks EXCEPT ![b].localFront = i]
              => blocks'[b].localFront = i /\ blocks'[b].localTail = blocks[b].localTail
         /\ blocks' = [blocks EXCEPT ![b].localTail = i]
              => blocks'[b].localTail = i /\ blocks'[b].localFront = blocks[b].localFront
<1> DEFINE AtFront == [blocks[b] EXCEPT !.localFront = i]
           AtTail == [blocks[b] EXCEPT !.localTail = i]
<1>1. /\ [blocks EXCEPT ![b].localFront = i] = [blocks EXCEPT ![b] = AtFront]
      /\ [blocks EXCEPT ![b].localTail = i] = [blocks EXCEPT ![b] = AtTail]
  OBVIOUS
<1>2. blocks[b].size \in Sizes /\ blocks[b] \in Block(blocks[b].size) BY DEF BlocksOK
<1>3. AtFront \in Block(blocks[b].size) /\ AtTail \in Block(blocks[b].size) BY <1>2, Assigned
<1>4. \A r \in {AtFront, AtTail} :
        /\ r.size = blocks[b].size /\ r.front = blocks[b].front /\ r.tail = blocks[b].tail
        /\ r.data = blocks[b].data /\ r.next = blocks[b].next
  BY <1>2 DEF Block
<1>5. /\ AtFront.localFront = i /\ AtFront.localTail = blocks[b].localTail
      /\ AtTail.localTail = i /\ AtTail.localFront = blocks[b].localFront
  BY <1>2 DEF Block
<1> HIDE DEF AtFront, AtTail
<1>6. \A r \in {AtFront, AtTail} :
        Filled(r) = Filled(blocks[b]) /\ \A slot : Place(r, slot) = Place(blocks[b], slot)
  BY <1>4 DEF Filled, Place
<1>7. blocks' = [blocks EXCEPT ![b].localFront = i] => blocks'[b] = AtFront BY <1>1, Updated
<1>8. blocks' = [blocks EXCEPT ![b].localTail = i] => blocks'[b] = AtTail BY <1>1, Updated
<1>9. \E r \in {AtFront, AtTail} : blocks' = [blocks EXCEPT ![b] = r] /\ blocks'[b] = r
  BY <1>1, <1>7, <1>8
<1>10. /\ BlocksOK' /\ Len(blocks') = Len(blocks) /\ BlockNumbers' = BlockNumbers
       /\ \A c \in BlockNumbers : c # b => blocks'[c] = blocks[c]
  BY <1>3, <1>9, Updated
<1> QED BY <1>4, <1>5, <1>6, <1>7, <1>8, <1>9, <1>10

\* The tail moved behind one more element.
LEMMA TailMoved ==
  ASSUME BlocksOK, NEW b \in BlockNumbers, Filled(blocks[b]) < blocks[b].size - 1,
         blocks' = [blocks EXCEPT ![b].tail = After(b, blocks[b].tail)]
  PROVE  /\ BlocksOK' /\ Len(blocks') = Len(blocks) /\ BlockNumbers' = BlockNumbers
         /\ \A c \in BlockNumbers : c # b => blocks'[c] = blocks[c]
         /\ LET old == blocks[b]  new == blocks'[b]
            IN  /\ new.size = old.size /\ new.front = old.front
                /\ new.localFront = old.localFront /\ new.localTail = old.localTail
                /\ new.next = old.next /\ new.data = old.data
                /\ Filled(new) = Filled(old) + 1
                /\ FilledAtMost(old) < old.size - 1 => FilledAtMost(new) = FilledAtMost(old) + 1
                /\ \A slot : Place(new, slot) = Place(old, slot)
<1> DEFINE i == After(b, blocks[b].tail)
           r == [blocks[b] EXCEPT !.tail = i]
<1>1. blocks' = [blocks EXCEPT ![b] = r] OBVIOUS
<1>2. blocks[b].size \in Sizes /\ blocks[b] \in Block(blocks[b].size) BY DEF BlocksOK
<1>3. Indices(blocks[b]) BY FieldsOfAll
<1>4. i = IF blocks[b].tail = blocks[b].size - 1 THEN 0 ELSE blocks[b].tail + 1
  BY <1>3, NextIndex DEF After, Indices
<1>5. i \in 0..blocks[b].size - 1 BY <1>3, <1>4 DEF Indices
<1>6. r \in Block(blocks[b].size) BY <1>2, <1>5, Assigned
<1>7. /\ r.size = blocks[b].size /\ r.front = blocks[b].front /\ r.tail = i
      /\ r.localFront = blocks[b].localFront /\ r.localTail = blocks[b].localTail
      /\ r.next = blocks[b].next /\ r.data = blocks[b].data
  BY <1>2 DEF Block
<1> HIDE DEF r, i
<1>8. \A slot : Place(r, slot) = Place(blocks[b], slot) BY <1>7 DEF Place
<1>9. Indices(r) BY <1>3, <1>5, <1>7 DEF Indices
<1>10. Filled(r) = Filled(blocks[b]) + 1
  BY <1>3, <1>4, <1>7, <1>9, Places DEF Indices
<1>11. FilledAtMost(blocks[b]) < blocks[b].size - 1
         => FilledAtMost(r) = FilledAtMost(blocks[b]) + 1
  <2>1. FilledAtMost(r) = IF r.localFront <= i THEN i - r.localFront ELSE i + r.size - r.localFront
    BY <1>7, <1>9, Wrapped DEF FilledAtMost, Indices
  <2>2. FilledAtMost(blocks[b]) = IF r.localFront <= blocks[b].tail
                                    THEN blocks[b].tail - r.localFront
                                    ELSE blocks[b].tail + r.size - r.localFront
    BY <1>3, <1>7, Wrapped DEF FilledAtMost, Indices
  <2> QED BY <1>3, <1>4, <1>7, <2>1, <2>2 DEF Indices
<1>12. /\ BlocksOK' /\ Len(blocks') = Len(blocks) /\ BlockNumbers' = BlockNumbers
       /\ \A c \in BlockNumbers : c # b => blocks'[c] = blocks[c]
       /\ blocks'[b] = r
  BY <1>1, <1>6, Updated
<1> QED BY <1>7, <1>8, <1>10, <1>11, <1>12, Zenon

\* The front moved behind its element.
LEMMA FrontMoved ==
  ASSUME BlocksOK, NEW b \in BlockNumbers, Filled(blocks[b]) > 0,
         blocks' = [blocks EXCEPT ![b].front = After(b, blocks[b].front)]
  PROVE  /\ BlocksOK' /\ Len(blocks') = Len(blocks) /\ BlockNumbers' = BlockNumbers
         /\ \A c \in BlockNumbers : c # b => blocks'[c] = blocks[c]
         /\ LET old == blocks[b]  new == blocks'[b]
            IN  /\ new.size = old.size /\ new.tail = old.tail
                /\ new.localFront = old.localFront /\ new.localTail = old.localTail
                /\ new.next = old.next /\ new.data = old.data
                /\ Filled(new) = Filled(old) - 1
                /\ FilledAtLeast(old) > 0 => FilledAtLeast(new) = FilledAtLeast(old) - 1
                /\ \A slot \in 0..old.size - 1 :
                     Place(new, slot) = IF slot = old.front THEN old.size - 1
                                                            ELSE Place(old, slot) - 1
<1> DEFINE i == After(b, blocks[b].front)
           r == [blocks[b] EXCEPT !.front = i]
<1>1. blocks' = [blocks EXCEPT ![b] = r] OBVIOUS
<1>2. blocks[b].size \in Sizes /\ blocks[b] \in Block(blocks[b].size) BY DEF BlocksOK
<1>3. Indices(blocks[b]) BY FieldsOfAll
<1>4. i = IF blocks[b].front = blocks[b].size - 1 THEN 0 ELSE blocks[b].front + 1
  BY <1>3, NextIndex DEF After, Indices
<1>5. i \in 0..blocks[b].size - 1 BY <1>3, <1>4 DEF Indices
<1>6. r \in Block(blocks[b].size) BY <1>2, <1>5, Assigned
<1>7. /\ r.size = blocks[b].size /\ r.tail = blocks[b].tail /\ r.front = i
      /\ r.localFront = blocks[b].localFront /\ r.localTail = blocks[b].localTail
      /\ r.next = blocks[b].next /\ r.data = blocks[b].data
  BY <1>2 DEF Block
<1> HIDE DEF r, i
<1>8. Indices(r) BY <1>3, <1>5, <1>7 DEF Indices
<1>9. Filled(r) = Filled(blocks[b]) - 1
  <2>1. Filled(r) = IF i <= blocks[b].tail THEN blocks[b].tail - i
                                           ELSE blocks[b].tail + blocks[b].size - i
    BY <1>7, <1>8, Places
  <2>2. Filled(blocks[b]) = IF blocks[b].front <= blocks[b].tail
                              THEN blocks[b].tail - blocks[b].front
                              ELSE blocks[b].tail + blocks[b].size - blocks[b].front
    BY <1>3, Places
  <2> QED BY <1>3, <1>4, <2>1, <2>2 DEF Indices
<1>10. ASSUME NEW slot \in 0..blocks[b].size - 1
       PROVE  Place(r, slot) = IF slot = blocks[b].front THEN blocks[b].size - 1
                                                         ELSE Place(blocks[b], slot) - 1
  <2>1. Place(r, slot) = IF i <= slot THEN slot - i ELSE slot + blocks[b].size - i
    BY <1>7, <1>8, Places
  <2>2. Place(blocks[b], slot) = IF blocks[b].front <= slot
                                   THEN slot - blocks[b].front
                                   ELSE slot + blocks[b].size - blocks[b].front
    BY <1>3, Places
  <2> QED BY <1>3, <1>4, <2>1, <2>2 DEF Indices
<1>11. FilledAtLeast(blocks[b]) > 0 => FilledAtLeast(r) = FilledAtLeast(blocks[b]) - 1
  <2>1. FilledAtLeast(r) = IF i <= r.localTail THEN r.localTail - i ELSE r.localTail + r.size - i
    BY <1>7, <1>8, Wrapped DEF FilledAtLeast, Indices
  <2>2. FilledAtLeast(blocks[b]) = IF blocks[b].front <= r.localTail
                                     THEN r.localTail - blocks[b].front
                                     ELSE r.localTail + r.size - blocks[b].front
    BY <1>3, <1>7, Wrapped DEF FilledAtLeast, Indices
  <2> QED BY <1>3, <1>4, <1>7, <2>1, <2>2 DEF Indices
<1>12. /\ BlocksOK' /\ Len(blocks') = Len(blocks) /\ BlockNumbers' = BlockNumbers
       /\ \A c \in BlockNumbers : c # b => blocks'[c] = blocks[c]
       /\ blocks'[b] = r
  BY <1>1, <1>6, Updated
<1> QED BY <1>7, <1>9, <1>10, <1>11, <1>12, Zenon

\* The first element of an empty block.
LEMMA FirstWritten ==
  ASSUME BlocksOK, NEW b \in BlockNumbers, Filled(blocks[b]) = 0, NEW x \in Items,
         blocks' = [blocks EXCEPT ![b].localFront = blocks[b].front,
                                  ![b].data[blocks[b].tail] = x,
                                  ![b].tail = After(b, blocks[b].tail)]
  PROVE  /\ BlocksOK' /\ Len(blocks') = Len(blocks) /\ BlockNumbers' = BlockNumbers
         /\ \A c \in BlockNumbers : c # b => blocks'[c] = blocks[c]
         /\ LET old == blocks[b]  new == blocks'[b]
            IN  /\ new.size = old.size /\ new.front = old.front /\ new.next = old.next
                /\ new.localFront = old.front /\ new.localTail = old.localTail
                /\ Filled(new) = 1
                /\ \A slot \in 0..old.size - 1 :
                     /\ Place(new, slot) = Place(old, slot)
                     /\ new.data[slot] = IF slot = old.front THEN x ELSE old.data[slot]
<1> DEFINE i == After(b, blocks[b].tail)
           r1 == [blocks[b] EXCEPT !.localFront = blocks[b].front]
           r2 == [r1 EXCEPT !.data[blocks[b].tail] = x]
           r == [r2 EXCEPT !.tail = i]
<1>1. blocks' = [blocks EXCEPT ![b] = r] OBVIOUS
<1>2. blocks[b].size \in Sizes /\ blocks[b] \in Block(blocks[b].size) BY DEF BlocksOK
<1>3. Indices(blocks[b]) BY FieldsOfAll
<1>4. blocks[b].tail = blocks[b].front
  <2>1. Filled(blocks[b]) = IF blocks[b].front <= blocks[b].tail
                              THEN blocks[b].tail - blocks[b].front
                              ELSE blocks[b].tail + blocks[b].size - blocks[b].front
    BY <1>3, Places
  <2> QED BY <1>3, <2>1 DEF Indices
<1>5. i = IF blocks[b].tail = blocks[b].size - 1 THEN 0 ELSE blocks[b].tail + 1
  BY <1>3, NextIndex DEF After, Indices
<1>6. i \in 0..blocks[b].size - 1 BY <1>3, <1>5 DEF Indices
<1>7. r1 \in Block(blocks[b].size) BY <1>2, <1>3, Assigned DEF Indices
<1>8. r2 \in Block(blocks[b].size) BY <1>2, <1>3, <1>7, Assigned DEF Indices
<1>9. r \in Block(blocks[b].size) BY <1>2, <1>6, <1>8, Assigned
<1>10. /\ r.size = blocks[b].size /\ r.front = blocks[b].front /\ r.tail = i
       /\ r.localFront = blocks[b].front /\ r.localTail = blocks[b].localTail
       /\ r.next = blocks[b].next
       /\ \A slot \in 0..blocks[b].size - 1 :
            r.data[slot] = IF slot = blocks[b].front THEN x ELSE blocks[b].data[slot]
  BY <1>2, <1>4 DEF Block
<1> HIDE DEF r, i
<1>11. \A slot : Place(r, slot) = Place(blocks[b], slot) BY <1>10 DEF Place
<1>12. Filled(r) = 1
  <2>1. Indices(r) BY <1>3, <1>6, <1>10 DEF Indices
  <2>2. Filled(r) = IF blocks[b].front <= i THEN i - blocks[b].front
                                            ELSE i + blocks[b].size - blocks[b].front
    BY <1>10, <2>1, Places
  <2> QED BY <1>3, <1>4, <1>5, <2>2 DEF Indices
<1>13. /\ BlocksOK' /\ Len(blocks') = Len(blocks) /\ BlockNumbers' = BlockNumbers
       /\ \A c \in BlockNumbers : c # b => blocks'[c] = blocks[c]
       /\ blocks'[b] = r
  BY <1>1, <1>9, Updated
<1> QED BY <1>10, <1>11, <1>12, <1>13, Zenon

\* The blocks with a new one, which holds one element, linked behind block b.
Linked(b, s, x) ==
  Append([blocks EXCEPT ![b].next = Len(blocks) + 1],
         [NewBlock(s) EXCEPT !.tail = 1, !.localTail = 1, !.data[0] = x, !.next = blocks[b].next])

\* What linking a block changes.
LEMMA BlockLinked ==
  ASSUME BlocksOK, NEW b \in BlockNumbers, NEW s \in Sizes, NEW x \in Items,
         NEW n, n = Len(blocks) + 1,
         blocks' = Linked(b, s, x)
  PROVE  LET new == blocks'[n]
         IN  /\ BlocksOK' /\ Len(blocks') = n /\ BlockNumbers' = BlockNumbers \union {n}
             /\ n \notin BlockNumbers
             /\ \A c \in BlockNumbers : c # b => blocks'[c] = blocks[c]
             /\ /\ blocks'[b].size = blocks[b].size /\ blocks'[b].front = blocks[b].front
                /\ blocks'[b].tail = blocks[b].tail /\ blocks'[b].data = blocks[b].data
                /\ blocks'[b].localFront = blocks[b].localFront
                /\ blocks'[b].localTail = blocks[b].localTail
                /\ blocks'[b].next = n
                /\ Filled(blocks'[b]) = Filled(blocks[b])
                /\ \A slot : Place(blocks'[b], slot) = Place(blocks[b], slot)
             /\ new.size = s /\ new.front = 0 /\ new.localFront = 0
             /\ new.next = blocks[b].next /\ Filled(new) = 1
             /\ \A slot \in 0..s - 1 :
                  Place(new, slot) = slot /\ new.data[slot] = IF slot = 0 THEN x ELSE Raw
<1> DEFINE old == [blocks[b] EXCEPT !.next = n]
           new == [NewBlock(s) EXCEPT !.tail = 1, !.localTail = 1, !.data[0] = x,
                                      !.next = blocks[b].next]
           linked == [blocks EXCEPT ![b] = old]
<1>1. blocks \in Seq(Range(blocks)) BY DEF BlocksOK
<1>2. Len(blocks) \in Nat /\ DOMAIN blocks = 1..Len(blocks) BY <1>1
<1>3. s \in Nat /\ s >= 2 BY SizesAre
<1>4. blocks[b].size \in Sizes /\ blocks[b] \in Block(blocks[b].size) BY DEF BlocksOK
<1>5. blocks[b].next \in BlockNumbers BY FieldsOfAll
<1>6. /\ new \in Block(s)
      /\ new.size = s /\ new.front = 0 /\ new.tail = 1 /\ new.localFront = 0
      /\ new.localTail = 1 /\ new.next = blocks[b].next
      /\ \A slot \in 0..s - 1 : new.data[slot] = IF slot = 0 THEN x ELSE Raw
  <2> DEFINE r == NewBlock(s)
             r3 == [[[r EXCEPT !.tail = 1] EXCEPT !.localTail = 1] EXCEPT !.data[0] = x]
  <2>1. r \in Block(s)
    <3>1. 1 \in BlockNumbers BY <1>2 DEF BlockNumbers
    <3> QED BY <1>3, <3>1 DEF NewBlock, Block
  <2>2. /\ r.size = s /\ r.front = 0 /\ r.localFront = 0
        /\ \A slot \in 0..s - 1 : r.data[slot] = Raw
    BY DEF NewBlock
  <2> HIDE DEF r
  <2>3. r3 \in Block(s)
    <3>1. 0 \in 0..s - 1 /\ 1 \in 0..s - 1 /\ x \in Items \union {Raw} BY <1>3
    <3>2. [r EXCEPT !.tail = 1] \in Block(s) BY <2>1, <3>1, Assigned, Zenon
    <3>3. [[r EXCEPT !.tail = 1] EXCEPT !.localTail = 1] \in Block(s)
      BY <3>1, <3>2, Assigned, Zenon
    <3> QED BY <3>1, <3>3, Assigned, Zenon
  <2>4. /\ r3.size = s /\ r3.front = 0 /\ r3.tail = 1 /\ r3.localFront = 0
        /\ r3.localTail = 1 /\ \A slot \in 0..s - 1 : r3.data[slot] = IF slot = 0 THEN x ELSE Raw
    BY <1>3, <2>1, <2>2 DEF Block
  <2>5. new = [r3 EXCEPT !.next = blocks[b].next] BY DEF r
  <2> HIDE DEF r3, new
  <2> QED BY <1>5, <2>3, <2>4, <2>5 DEF Block
<1>8. /\ old.size = blocks[b].size /\ old.front = blocks[b].front /\ old.tail = blocks[b].tail
      /\ old.localFront = blocks[b].localFront /\ old.localTail = blocks[b].localTail
      /\ old.next = n /\ old.data = blocks[b].data
  BY <1>4 DEF Block
<1>9. blocks' = Append(linked, new) BY DEF Linked
<1> HIDE DEF old, new
<1> DEFINE V == Range(linked) \union {new}
<1>10. linked \in [1..Len(blocks) -> V] /\ new \in V BY <1>2 DEF Range
<1> HIDE DEF V
<1>11. linked \in Seq(V) BY <1>2, <1>10, SeqDef, ZenonT(60)
<1>12. Len(linked) = Len(blocks) BY <1>2, <1>10, <1>11
<1>13. \A c \in BlockNumbers : linked[c] = IF c = b THEN old ELSE blocks[c]
  BY <1>2 DEF BlockNumbers
<1> HIDE DEF linked
<1>14. /\ Len(blocks') = n /\ DOMAIN blocks' = 1..n
       /\ \A c \in 1..n : blocks'[c] = IF c = n THEN new ELSE linked[c]
  BY <1>2, <1>9, <1>10, <1>11, <1>12
<1>15. BlockNumbers' = BlockNumbers \union {n} /\ n \notin BlockNumbers
  BY <1>2, <1>14 DEF BlockNumbers
<1>16. /\ \A c \in BlockNumbers : blocks'[c] = IF c = b THEN old ELSE blocks[c]
       /\ blocks'[n] = new
  BY <1>2, <1>13, <1>14 DEF BlockNumbers
<1>17. blocks' \in Seq(Range(blocks'))
  <2>1. blocks' \in Seq(V)
    <3>1. Append(linked, new) \in Seq(V) BY <1>10, <1>11, AppendProperties, Zenon
    <3> QED BY <1>9, <3>1
  <2>2. blocks' \in [1..n -> V] BY <1>14, <2>1, LenProperties
  <2>3. blocks' \in [1..n -> Range(blocks')] BY <1>14, <2>2 DEF Range
  <2>4. n \in Nat BY <1>2
  <2> QED BY <2>3, <2>4, SeqDef, Zenon
<1>18. ASSUME NEW c \in BlockNumbers'
       PROVE  (blocks[c].size \in Sizes /\ blocks[c] \in Block(blocks[c].size))'
  <2>1. CASE c = n
    <3>1. new \in [size : {s}, front : 0..s - 1, tail : 0..s - 1, localFront : 0..s - 1,
                   localTail : 0..s - 1, next : BlockNumbers',
                   data : [0..s - 1 -> Items \union {Raw}]]
      BY <1>6, <1>15 DEF Block
    <3> QED BY <1>6, <1>16, <2>1, <3>1 DEF Block
  <2>2. CASE c = b
    <3>1. old \in [size : {old.size}, front : 0..old.size - 1, tail : 0..old.size - 1,
                   localFront : 0..old.size - 1, localTail : 0..old.size - 1,
                   next : BlockNumbers', data : [0..old.size - 1 -> Items \union {Raw}]]
      BY <1>4, <1>8, <1>15 DEF Block, old
    <3> QED BY <1>4, <1>8, <1>16, <2>2, <3>1 DEF Block
  <2>3. CASE c # b /\ c \in BlockNumbers
    <3> DEFINE r == blocks[c]
    <3>1. r.size \in Sizes /\ r \in Block(r.size) BY <2>3 DEF BlocksOK
    <3>2. r \in [size : {r.size}, front : 0..r.size - 1, tail : 0..r.size - 1,
                 localFront : 0..r.size - 1, localTail : 0..r.size - 1,
                 next : BlockNumbers', data : [0..r.size - 1 -> Items \union {Raw}]]
      BY <1>15, <3>1 DEF Block
    <3>3. blocks'[c] = r BY <1>16, <2>3
    <3> QED BY <3>1, <3>2, <3>3 DEF Block
  <2> QED BY <1>15, <2>1, <2>2, <2>3
<1>19. BlocksOK' BY <1>17, <1>18 DEF BlocksOK
<1>20. Filled(old) = Filled(blocks[b]) /\ \A slot : Place(old, slot) = Place(blocks[b], slot)
  BY <1>8 DEF Filled, Place
<1>21. Filled(new) = 1 /\ \A slot \in 0..s - 1 : Place(new, slot) = slot
  <2>1. Indices(new) BY <1>3, <1>6 DEF Indices
  <2>2. Filled(new) = IF new.front <= new.tail THEN new.tail - new.front
                                               ELSE new.tail + new.size - new.front
    BY <2>1, Places, Zenon
  <2>3. \A slot \in 0..new.size - 1 :
          Place(new, slot) = IF new.front <= slot THEN slot - new.front
                                                  ELSE slot + new.size - new.front
    BY <2>1, Places, Zenon
  <2> QED BY <1>3, <1>6, <2>2, <2>3
<1>22. blocks'[b] = old BY <1>16
<1>23. \A c \in BlockNumbers : c # b => blocks'[c] = blocks[c] BY <1>16
<1>24. blocks'[n] = new BY <1>16
<1> QED BY <1>6, <1>8, <1>14, <1>15, <1>19, <1>20, <1>21, <1>22, <1>23, <1>24

(***************************************************************************)
(* The circle of the blocks.                                               *)
(***************************************************************************)
\* A set of numbers has a least one: the induction of these proofs.
LEMMA Least ==
  ASSUME NEW T \in SUBSET Nat, T # {}
  PROVE  \E x \in T : \A y \in T : x <= y
<1>1. PICK x \in T : \A y \in T : ~(<<y, x>> \in OpToRel(<, Nat))
  BY NatLessThanWellFounded, WFMin
<1>2. \A y \in T : <<y, x>> \in OpToRel(<, Nat) <=> y < x BY DEF OpToRel
<1>3. \A y \in T : ~(y < x) BY <1>1, <1>2, Zenon
<1> QED BY <1>3

\* A list of the blocks that goes once round the circle is the walk from block
\* to block.
LEMMA CircleWalked ==
  ASSUME BlocksOK, frontBlock \in BlockNumbers, NEW ring, Circle(ring)
  PROVE  OneCircle /\ \A n \in 0..Len(blocks) - 1 : BlockAt[n] = ring[n]
<1> DEFINE N == Len(blocks)
           f == [n \in 0..N |-> ring[IF n = N THEN 0 ELSE n]]
<1>1. N \in Nat /\ N > 0
  <2>1. N \in Nat BY DEF BlocksOK
  <2> QED BY <2>1 DEF BlockNumbers
<1> HIDE DEF N
<1>2. \A n \in 0..N : f[n] = IF n = 0 THEN frontBlock ELSE blocks[f[n - 1]].next
  BY <1>1 DEF Circle, N
<1>3. f = [n \in 0..N |-> IF n = 0 THEN frontBlock ELSE blocks[f[n - 1]].next]
  BY <1>2
<1>4. BlockAt = [n \in 0..N |-> IF n = 0 THEN frontBlock ELSE blocks[BlockAt[n - 1]].next]
  BY <1>3 DEF BlockAt, N
<1>5. \A n \in 0..N : BlockAt[n] = f[n]
  <2> DEFINE T == {n \in 0..N : BlockAt[n] # f[n]}
  <2> SUFFICES ASSUME T # {} PROVE FALSE OBVIOUS
  <2>1. T \in SUBSET Nat BY <1>1
  <2>2. PICK x \in T : \A y \in T : x <= y
    <3> HIDE DEF T
    <3> QED BY <2>1, Least, Zenon
  <2>3. x # 0 BY <1>1, <1>2, <1>4
  <2>4. x - 1 \in 0..N /\ x - 1 \notin T BY <1>1, <2>2, <2>3
  <2>5. BlockAt[x - 1] = f[x - 1] BY <2>4
  <2>6. BlockAt[x] = f[x] BY <1>2, <1>4, <2>3, <2>5, ZenonT(60)
  <2> QED BY <2>6
<1>6. \A n \in 0..N - 1 : BlockAt[n] = ring[n] BY <1>1, <1>5
<1>7. ring = [n \in 0..N - 1 |-> BlockAt[n]] BY <1>6 DEF Circle, N
<1> QED BY <1>6, <1>7 DEF OneCircle, N

Circled == BlocksOK /\ frontBlock \in BlockNumbers /\ \E ring : Circle(ring)

\* The walk from block to block is that list, in one formula for a later state.
LEMMA CircleSuffices == Circled => OneCircle
BY CircleWalked DEF Circled

\* No two blocks are followed by the same one, and the walk visits every block.
LEMMA CircleFacts ==
  ASSUME BlocksOK, frontBlock \in BlockNumbers, OneCircle
  PROVE  /\ Len(blocks) \in Nat
         /\ \A n \in 0..Len(blocks) - 1 : BlockAt[n] \in BlockNumbers
         /\ \A m, n \in 0..Len(blocks) - 1 : BlockAt[m] = BlockAt[n] => m = n
         /\ \A b \in BlockNumbers : \E n \in 0..Len(blocks) - 1 : BlockAt[n] = b
         /\ \A n \in 0..Len(blocks) - 1 :
              blocks[BlockAt[n]].next = BlockAt[IF n = Len(blocks) - 1 THEN 0 ELSE n + 1]
         /\ BlockAt[0] = frontBlock
         /\ \A b, c \in BlockNumbers : blocks[b].next = blocks[c].next => b = c
<1> DEFINE N == Len(blocks)
           ring == [n \in 0..N - 1 |-> BlockAt[n]]
<1>1. Circle(ring) BY DEF OneCircle
<1>2. N \in Nat BY DEF BlocksOK
<1>3. N > 0 BY <1>2 DEF BlockNumbers
<1>4. \A n \in 0..N - 1 : ring[n] = BlockAt[n] OBVIOUS
<1> HIDE DEF N, ring
<1>5. /\ \A n \in 0..N - 1 : ring[n] \in BlockNumbers
      /\ \A m, n \in 0..N - 1 : ring[m] = ring[n] => m = n
      /\ \A b \in BlockNumbers : \E n \in 0..N - 1 : ring[n] = b
      /\ \A n \in 0..N - 1 : blocks[ring[n]].next = ring[IF n = N - 1 THEN 0 ELSE n + 1]
      /\ ring[0] = frontBlock
  BY <1>1 DEF Circle, N
<1>6. ASSUME NEW b \in BlockNumbers, NEW c \in BlockNumbers, blocks[b].next = blocks[c].next
      PROVE  b = c
  <2>1. PICK m \in 0..N - 1 : ring[m] = b BY <1>5
  <2>2. PICK n \in 0..N - 1 : ring[n] = c BY <1>5
  <2>3. ring[IF m = N - 1 THEN 0 ELSE m + 1] = ring[IF n = N - 1 THEN 0 ELSE n + 1]
    BY <1>5, <1>6, <2>1, <2>2
  <2>4. (IF m = N - 1 THEN 0 ELSE m + 1) = IF n = N - 1 THEN 0 ELSE n + 1
    BY <1>2, <1>3, <1>5, <2>3
  <2> QED BY <1>2, <2>1, <2>2, <2>4
<1>7. /\ \A n \in 0..N - 1 : BlockAt[n] \in BlockNumbers
      /\ \A m, n \in 0..N - 1 : BlockAt[m] = BlockAt[n] => m = n
      /\ \A b \in BlockNumbers : \E n \in 0..N - 1 : BlockAt[n] = b
      /\ BlockAt[0] = frontBlock
  BY <1>2, <1>3, <1>4, <1>5
<1>8. \A n \in 0..N - 1 :
        blocks[BlockAt[n]].next = BlockAt[IF n = N - 1 THEN 0 ELSE n + 1]
  BY <1>2, <1>3, <1>4, <1>5
<1> QED BY <1>2, <1>6, <1>7, <1>8 DEF N

(***************************************************************************)
(* The blocks in use.                                                      *)
(***************************************************************************)
\* Nothing of the circle changes.
CircleKept ==
  /\ Len(blocks') = Len(blocks) /\ BlockNumbers' = BlockNumbers /\ frontBlock' = frontBlock
  /\ \A b \in BlockNumbers : blocks'[b].next = blocks[b].next

\* Where no link and not the front block changes, the circle stays.
LEMMA CircleStays ==
  ASSUME BlocksOK', frontBlock \in BlockNumbers, OneCircle, CircleKept
  PROVE  OneCircle'
<1>1. PICK ring : Circle(ring) BY DEF OneCircle
<1>2. Circle(ring)' BY <1>1 DEF Circle, CircleKept
<1>3. Circled' BY <1>2 DEF CircleKept, Circled
<1>4. Circled' => OneCircle' BY CircleSuffices, PTL
<1> QED BY <1>3, <1>4

\* Nothing changes of what the order of the blocks is about.
OrderKept ==
  /\ BlockNumbers' = BlockNumbers /\ frontBlock' = frontBlock /\ tailBlock' = tailBlock
  /\ accepted' = accepted /\ (producer' = "advance" <=> producer = "advance")
  /\ \A b \in BlockNumbers :
       /\ First(b)' = First(b) /\ Filled(blocks[b])' = Filled(blocks[b])
       /\ blocks'[b].size = blocks[b].size /\ blocks'[b].next = blocks[b].next

\* Where nothing of it changes, the order of the blocks stays.
LEMMA OrderStays ==
  ASSUME BlocksOK, frontBlock \in BlockNumbers, tailBlock \in BlockNumbers, BlocksFollow, OrderKept
  PROVE  BlocksFollow'
<1>1. \A b \in BlockNumbers : blocks[b].next \in BlockNumbers BY FieldsOfAll
<1>2. \A b \in BlockNumbers : (Live(b)' <=> Live(b)) /\ Behind(b)' = Behind(b)
  BY DEF OrderKept, Live, Entering, Behind
<1> QED BY <1>1, <1>2 DEF OrderKept, BlocksFollow

\* The numbers that go with a block.
LEMMA Numbers ==
  ASSUME TypeOK, NEW b \in BlockNumbers
  PROVE  /\ blocks[b].size \in Nat /\ blocks[b].size >= 2 /\ blocks[b].next \in BlockNumbers
         /\ First(b) \in Nat /\ Filled(blocks[b]) \in 0..blocks[b].size - 1
         /\ Behind(b) \in Nat /\ accepted \in Nat /\ removed \in Nat
<1>1. /\ Indices(blocks[b]) /\ blocks[b].next \in BlockNumbers
      /\ blocks[b].data \in [0..blocks[b].size - 1 -> Items \union {Raw}]
  BY FieldsOfAll DEF TypeOK
<1>2. Filled(blocks[b]) \in 0..blocks[b].size - 1 BY <1>1, Places
<1>3. accepted \in Nat /\ removed \in Nat BY QueueAssumption DEF TypeOK
<1>4. First(b) \in Nat BY <1>1, <1>3 DEF First, Indices, Items, Raw
<1> QED BY <1>1, <1>2, <1>3, <1>4 DEF Behind, Indices

\* The walk from the front block to the tail block passes through blocks in use,
\* with more elements before each that is further on.
LEMMA InOrder ==
  ASSUME TypeOK, OneCircle, BlocksFollow,
         NEW k \in Nat, \A b \in BlockNumbers : k <= blocks[b].size - 1,
         NEW d \in 0..Len(blocks) - 1, BlockAt[d] = tailBlock
  PROVE  \A n \in 0..d : /\ Live(BlockAt[n])
                         /\ n # 0 => First(BlockAt[n]) >= Behind(frontBlock) + (n - 1) * k
<1> DEFINE P(n) == /\ Live(BlockAt[n])
                   /\ n # 0 => First(BlockAt[n]) >= Behind(frontBlock) + (n - 1) * k
           T == {n \in 0..d : ~P(n)}
<1> SUFFICES ASSUME T # {} PROVE FALSE OBVIOUS
<1>1. BlocksOK /\ frontBlock \in BlockNumbers BY DEF TypeOK
<1>2. /\ Len(blocks) \in Nat
      /\ \A n \in 0..Len(blocks) - 1 : BlockAt[n] \in BlockNumbers
      /\ \A m, n \in 0..Len(blocks) - 1 : BlockAt[m] = BlockAt[n] => m = n
      /\ \A n \in 0..Len(blocks) - 1 :
           blocks[BlockAt[n]].next = BlockAt[IF n = Len(blocks) - 1 THEN 0 ELSE n + 1]
      /\ BlockAt[0] = frontBlock
  BY <1>1, CircleFacts
<1>3. P(0) BY <1>2 DEF Live
<1>4. T \in SUBSET Nat OBVIOUS
<1>5. PICK x \in T : \A y \in T : x <= y
  <2> HIDE DEF T
  <2> QED BY <1>4, Least, Zenon
<1>6. x \in 0..d /\ x # 0 /\ ~P(x) BY <1>3
<1>7. x - 1 \in 0..d /\ x - 1 # d /\ P(x - 1) BY <1>5, <1>6
<1> HIDE DEF T
<1> DEFINE a == BlockAt[x - 1]
           b == BlockAt[x]
<1>8. a \in BlockNumbers /\ b \in BlockNumbers /\ blocks[a].next = b BY <1>2, <1>6, <1>7
<1>9. a # tailBlock BY <1>2, <1>7
<1>10. Live(a) BY <1>7
<1>11. Filled(blocks[b]) > 0 /\ First(b) = Behind(a)
  BY <1>8, <1>9, <1>10 DEF BlocksFollow
<1>12. ~Entering(b)
  <2>1. tailBlock \in BlockNumbers BY DEF TypeOK
  <2>2. blocks[tailBlock].next # b BY <1>1, <1>8, <1>9, <2>1, CircleFacts
  <2> QED BY <2>2 DEF Entering
<1>13. Live(b) BY <1>11, <1>12 DEF Live
<1>14. First(b) >= Behind(frontBlock) + (x - 1) * k
  <2>1. CASE x = 1 BY <1>1, <1>2, <1>11, <2>1, Numbers
  <2>2. CASE x # 1
    <3>1. First(a) >= Behind(frontBlock) + (x - 2) * k BY <1>6, <1>7, <2>2
    <3>2. a # frontBlock
      <4>1. x - 1 # 0 /\ x - 1 \in 0..Len(blocks) - 1 /\ 0 \in 0..Len(blocks) - 1
        BY <1>2, <1>6, <1>7, <2>2
      <4>2. BlockAt[x - 1] # BlockAt[0] BY <1>2, <4>1
      <4> QED BY <1>2, <4>2
    <3>3. Filled(blocks[a]) = blocks[a].size - 1 BY <1>8, <1>9, <1>10, <3>2 DEF BlocksFollow
    <3>4. (x - 1) * k = (x - 2) * k + k /\ (x - 2) * k \in Int BY <1>6, <2>2
    <3>5. Behind(a) = First(a) + Filled(blocks[a]) BY DEF Behind
    <3>6. k <= blocks[a].size - 1 BY <1>8
    <3>7. /\ Behind(frontBlock) \in Nat /\ First(a) \in Nat
          /\ blocks[a].size \in Nat
      BY <1>1, <1>8, Numbers
    <3> DEFINE p == (x - 1) * k
               q == (x - 2) * k
    <3> HIDE DEF a, b
    <3>8. p = q + k /\ q \in Int /\ First(a) >= Behind(frontBlock) + q BY <3>1, <3>4
    <3> HIDE DEF p, q
    <3>9. First(b) >= Behind(frontBlock) + p
      BY <1>11, <3>3, <3>5, <3>6, <3>7, <3>8
    <3> QED BY <3>9 DEF p
  <2> QED BY <2>1, <2>2
<1> QED BY <1>6, <1>13, <1>14

\* What is in the tail block is in the queue.
LEMMA TailCounted ==
  ASSUME TypeOK, OneCircle, BlocksFollow
  PROVE  /\ accepted - removed >= Filled(blocks[tailBlock])
         /\ tailBlock = frontBlock => accepted - removed = Filled(blocks[tailBlock])
<1>1. BlocksOK /\ frontBlock \in BlockNumbers /\ tailBlock \in BlockNumbers BY DEF TypeOK
<1>2. PICK d \in 0..Len(blocks) - 1 : BlockAt[d] = tailBlock BY <1>1, CircleFacts
<1>3. \A b \in BlockNumbers : 0 <= blocks[b].size - 1 BY Numbers
<1>4. d # 0 => First(tailBlock) >= Behind(frontBlock) + (d - 1) * 0 BY <1>2, <1>3, InOrder
<1>5. d = 0 => tailBlock = frontBlock BY <1>1, <1>2, CircleFacts
<1>6. First(frontBlock) = removed + 1 BY DEF First
<1>7. /\ Behind(frontBlock) = First(frontBlock) + Filled(blocks[frontBlock])
      /\ Behind(tailBlock) = First(tailBlock) + Filled(blocks[tailBlock])
      /\ Behind(tailBlock) = accepted + 1
  BY DEF Behind, BlocksFollow
<1> QED BY <1>1, <1>4, <1>5, <1>6, <1>7, Numbers

(***************************************************************************)
(* Types.                                                                  *)
(***************************************************************************)
\* The powers of two that are sizes of blocks, one by one.
LEMMA Powers ==
  PowersOf2 = {1, 2, 4, 8, 16, 32, 64, 128, 256, 512, 1024, 2048, 4096, 8192, 16384, 32768,
               65536, 131072, 262144, 524288, 1048576, 2097152, 4194304, 8388608, 16777216,
               33554432, 67108864, 134217728, 268435456, 536870912, 1073741824}
BY DEF PowersOf2

\* The power of two that the constructor rounds up to.
LEMMA Ceil ==
  ASSUME NEW x \in Nat, x <= 2^30
  PROVE  CeilToPow2(x) \in PowersOf2 /\ x <= CeilToPow2(x)
<1> DEFINE Q(p) == x <= p /\ \A q \in PowersOf2 : x <= q => p <= q
<1>1. 2^30 = 1073741824 OBVIOUS
<1>2. \E p \in PowersOf2 : Q(p) BY <1>1, Powers
<1> QED BY <1>2 DEF CeilToPow2

\* A block larger than the one before it, but for the largest.
LEMMA Doubled ==
  ASSUME NEW s \in Sizes, s < MaxBlockSize
  PROVE  2 * s \in Sizes /\ 2 * s <= 2 * MaxBlockSize
<1>1. s \in PowersOf2 /\ MaxBlockSize \in PowersOf2 BY QueueAssumption DEF Sizes
<1>2. 2 * s \in PowersOf2 BY <1>1, Powers
<1>3. s \in Nat /\ MaxBlockSize \in Nat /\ s >= 2 BY <1>1, Powers, SizesAre
<1> QED BY <1>2, <1>3 DEF Sizes

\* What the constructor reserves holds Size elements, without the block that the
\* consumer has used up or the producer has moved into.
LEMMA Reserved ==
  /\ InitialBlockSize \in Sizes /\ MaxBlockSize \in Sizes
  /\ InitialBlockSize <= 2 * MaxBlockSize
  /\ InitialBlockCount \in Nat /\ InitialBlockCount >= 1
  /\ InitialBlockCount = 1 => InitialBlockSize - 1 >= Size
  /\ InitialBlockCount > 1 => (InitialBlockCount - 1) * (InitialBlockSize - 1) >= Size
<1> DEFINE k == MaxBlockSize - 1
           a == Size + MaxBlockSize * 2 - 3
<1>1. MaxBlockSize \in PowersOf2 /\ MaxBlockSize \in Nat /\ MaxBlockSize >= 2
  BY QueueAssumption, Powers
<1>2. MaxBlockSize \in Sizes BY <1>1 DEF Sizes
<1>3. Size \in Nat /\ Size >= 1 /\ Size + 1 <= 2^30
  <2>1. 2^30 = 1073741824 OBVIOUS
  <2> QED BY <2>1, QueueAssumption
<1>4. CASE OneBlock
  <2>1. CeilToPow2(Size + 1) \in PowersOf2 /\ Size + 1 <= CeilToPow2(Size + 1)
    BY <1>3, Ceil
  <2>2. CeilToPow2(Size + 1) \in Nat BY <2>1, Powers
  <2>3. InitialBlockSize = CeilToPow2(Size + 1) BY <1>4 DEF InitialBlockSize
  <2>4. InitialBlockCount = 1 BY <1>4 DEF InitialBlockCount
  <2>5. InitialBlockSize <= 2 * MaxBlockSize BY <1>1, <1>4, <2>2, <2>3 DEF OneBlock
  <2> QED BY <1>1, <1>2, <1>3, <2>1, <2>2, <2>3, <2>4, <2>5 DEF Sizes
<1>5. CASE ~OneBlock
  <2>1. InitialBlockSize = MaxBlockSize /\ InitialBlockCount = a \div k
    BY <1>5 DEF InitialBlockSize, InitialBlockCount, ReserveBlocks
  <2>2. a \in Nat /\ k \in Nat /\ k >= 1 /\ a = Size + 2 * k - 1 BY <1>1, <1>3
  <2>3. PICK q \in Nat : a \div k = q /\ a < (q + 1) * k
    <3> HIDE DEF a, k
    <3>1. a \div k \in Nat /\ a < (a \div k + 1) * k BY <2>2
    <3> QED BY <3>1
  <2>4. (q + 1) * k = (q - 1) * k + 2 * k /\ (q - 1) * k \in Int
    <3> HIDE DEF a, k
    <3> QED BY <2>2
  <2> DEFINE p == (q - 1) * k
  <2>5. p >= Size
    <3>1. p \in Int /\ a < p + 2 * k BY <2>3, <2>4
    <3> HIDE DEF p
    <3> QED BY <1>3, <2>2, <3>1
  <2>6. q >= 2
    <3> SUFFICES ASSUME q <= 1 PROVE FALSE BY <2>3
    <3>1. p <= 0 BY <2>2, <2>3
    <3> HIDE DEF p
    <3> QED BY <1>3, <2>4, <2>5, <3>1 DEF p
  <2> QED BY <1>1, <1>2, <2>1, <2>3, <2>5, <2>6
<1> QED BY <1>4, <1>5

(***************************************************************************)
(* The invariant holds at first.                                           *)
(***************************************************************************)
\* The blocks as constructed: empty, and one after another in a circle.
LEMMA InitBlocks ==
  ASSUME Init
  PROVE  /\ BlocksOK /\ Len(blocks) = InitialBlockCount /\ BlockNumbers = 1..InitialBlockCount
         /\ \A b \in BlockNumbers :
              /\ blocks[b].size = InitialBlockSize
              /\ blocks[b].front = 0 /\ blocks[b].tail = 0
              /\ blocks[b].localFront = 0 /\ blocks[b].localTail = 0
              /\ blocks[b].next = IF b = InitialBlockCount THEN 1 ELSE b + 1
              /\ \A slot \in 0..InitialBlockSize - 1 : blocks[b].data[slot] = Raw
              /\ Filled(blocks[b]) = 0 /\ FilledAtMost(blocks[b]) = 0
              /\ FilledAtLeast(blocks[b]) = 0
<1> DEFINE N == InitialBlockCount
           s == InitialBlockSize
           new(b) == [NewBlock(s) EXCEPT !.next = (b % N) + 1]
<1>1. N \in Nat /\ N >= 1 /\ s \in Sizes BY Reserved
<1>2. s \in Nat /\ s >= 2 BY <1>1, SizesAre
<1>3. blocks = [b \in 1..N |-> new(b)] BY DEF Init
<1> HIDE DEF N, s
<1>4. \A b \in 1..N : b % N = IF b = N THEN 0 ELSE b BY <1>1
<1>5. ASSUME NEW b \in 1..N
      PROVE  /\ new(b).size = s /\ new(b).front = 0 /\ new(b).tail = 0
             /\ new(b).localFront = 0 /\ new(b).localTail = 0
             /\ new(b).next = IF b = N THEN 1 ELSE b + 1
             /\ \A slot \in 0..s - 1 : new(b).data[slot] = Raw
             /\ new(b) \in [size : {s}, front : 0..s - 1, tail : 0..s - 1,
                            localFront : 0..s - 1, localTail : 0..s - 1,
                            next : 1..N, data : [0..s - 1 -> Items \union {Raw}]]
  <2> DEFINE v == (b % N) + 1
  <2>1. v = (IF b = N THEN 1 ELSE b + 1) /\ v \in 1..N BY <1>1, <1>4
  <2>2. 0 \in 0..s - 1 BY <1>2
  <2>3. [i \in 0..s - 1 |-> Raw] \in [0..s - 1 -> Items \union {Raw}] OBVIOUS
  <2> DEFINE r == NewBlock(s)
             R == [size : {s}, front : 0..s - 1, tail : 0..s - 1, localFront : 0..s - 1,
                   localTail : 0..s - 1, next : 1..N, data : [0..s - 1 -> Items \union {Raw}]]
  <2>4. r \in R BY <1>1, <2>2, <2>3 DEF NewBlock
  <2>5. /\ r.size = s /\ r.front = 0 /\ r.tail = 0 /\ r.localFront = 0 /\ r.localTail = 0
        /\ \A slot \in 0..s - 1 : r.data[slot] = Raw
    BY DEF NewBlock
  <2>6. new(b) = [r EXCEPT !.next = v] OBVIOUS
  <2> HIDE DEF v, r, new
  <2> QED BY <2>1, <2>4, <2>5, <2>6
<1> HIDE DEF new
<1>6. DOMAIN blocks = 1..N /\ \A b \in 1..N : blocks[b] = new(b) BY <1>3
<1>7. blocks \in [1..N -> Range(blocks)] BY <1>3 DEF Range
<1>8. blocks \in Seq(Range(blocks)) BY <1>1, <1>7, SeqDef, Zenon
<1>9. Len(blocks) = N BY <1>1, <1>6, <1>8
<1>10. BlockNumbers = 1..N BY <1>9 DEF BlockNumbers
<1>11. BlocksOK
  <2> SUFFICES ASSUME NEW b \in 1..N
               PROVE  blocks[b].size \in Sizes /\ blocks[b] \in Block(blocks[b].size)
    BY <1>8, <1>10 DEF BlocksOK
  <2> QED BY <1>1, <1>5, <1>6, <1>10 DEF Block
<1>12. ASSUME NEW b \in 1..N
       PROVE  /\ Filled(blocks[b]) = 0 /\ FilledAtMost(blocks[b]) = 0
              /\ FilledAtLeast(blocks[b]) = 0
  <2>1. (0 + s - 0) % s = 0 BY <1>2
  <2> QED BY <1>5, <1>6, <2>1 DEF Filled, FilledAtMost, FilledAtLeast
<1>13. \A b \in 1..N :
         /\ blocks[b].size = s /\ blocks[b].front = 0 /\ blocks[b].tail = 0
         /\ blocks[b].localFront = 0 /\ blocks[b].localTail = 0
         /\ blocks[b].next = IF b = N THEN 1 ELSE b + 1
         /\ \A slot \in 0..s - 1 : blocks[b].data[slot] = Raw
  BY <1>5, <1>6
<1> QED BY <1>9, <1>10, <1>11, <1>12, <1>13 DEF N, s

\* The empty queue the constructor makes satisfies the invariant.
LEMMA InitInvariant == Init => QueueInv
<1> SUFFICES ASSUME Init PROVE QueueInv OBVIOUS
<1> DEFINE N == InitialBlockCount
<1>1. N \in Nat /\ N >= 1 /\ InitialBlockSize \in Nat /\ InitialBlockSize >= 2
  BY Reserved, SizesAre
<1>2. BlockNumbers = 1..N /\ 1 \in BlockNumbers BY <1>1, InitBlocks
<1>3. TypeOK
  <2>1. Items \subseteq Nat /\ MaxItems \in Nat BY QueueAssumption DEF Items
  <2>2. NoSizing \in [first : BlockNumbers, at : BlockNumbers, sum : Nat] BY <1>2 DEF NoSizing
  <2> QED BY <1>2, <2>1, <2>2, InitBlocks, Reserved DEF Init, TypeOK, Threads
<1>4. OneCircle
  <2> DEFINE ring == [n \in 0..N - 1 |-> n + 1]
  <2> HIDE DEF N
  <2>1. Len(blocks) = N /\ BlockNumbers = 1..N /\ frontBlock = 1
    BY InitBlocks DEF Init, N
  <2>2. \A n \in 0..N - 1 :
          blocks[ring[n]].next = ring[IF n = N - 1 THEN 0 ELSE n + 1]
    <3>1. \A b \in 1..N : blocks[b].next = IF b = N THEN 1 ELSE b + 1 BY InitBlocks DEF N
    <3> QED BY <1>1, <3>1
  <2>3. \A b \in 1..N : b - 1 \in 0..N - 1 /\ ring[b - 1] = b BY <1>1
  <2>4. Circle(ring) BY <1>1, <2>1, <2>2, <2>3 DEF Circle
  <2> QED BY <1>2, <2>1, <2>4, InitBlocks, CircleSuffices DEF Circled
<1>5. \A b \in BlockNumbers : Filled(blocks[b]) = 0 /\ blocks[b].next \in BlockNumbers
  BY <1>3, InitBlocks, FieldsOfAll
<1>6. frontBlock = 1 /\ tailBlock = 1 /\ accepted = 0 /\ removed = 0 /\ producer = "idle"
      /\ consumer = "idle"
  BY DEF Init
<1>7. \A b \in BlockNumbers : Live(b) <=> b = 1 BY <1>5, <1>6 DEF Live
<1>8. SlotsHold
  <2>1. \A b \in BlockNumbers : \A slot \in 0..blocks[b].size - 1 :
          Place(blocks[b], slot) \in 0..blocks[b].size - 1
    BY <1>3, FieldsOfAll, Places DEF TypeOK
  <2>2. \A b \in BlockNumbers : \A slot \in 0..blocks[b].size - 1 : blocks[b].data[slot] = Raw
    BY InitBlocks
  <2>3. \A b \in BlockNumbers : blocks[b].size \in Nat BY <1>3, Numbers
  <2> QED BY <1>5, <1>6, <2>1, <2>2, <2>3 DEF SlotsHold
<1>9. Behind(1) = 1 /\ First(1) = 1 BY <1>2, <1>5, <1>6 DEF Behind, First
<1>10. BlocksFollow BY <1>2, <1>5, <1>6, <1>7, <1>9 DEF BlocksFollow
<1>11. ProducerKnows BY <1>2, <1>6, InitBlocks DEF ProducerKnows
<1>12. ConsumerKnows BY <1>2, <1>6, InitBlocks DEF ConsumerKnows
<1>13. BlockBounds
  <2>1. InitialBlockCount \in InitialBlockCount..MaxBlocks
    BY <1>1, QueueAssumption, ReserveAssumption
  <2>2. largestBlockSize = InitialBlockSize /\ mode = "CannotAlloc" BY DEF Init
  <2>3. InitialBlockSize \in InitialBlockSize..2 * MaxBlockSize
    <3>1. MaxBlockSize \in Nat BY QueueAssumption, Powers
    <3> QED BY <1>1, <3>1, Reserved
  <2> QED BY <1>1, <2>1, <2>2, <2>3, InitBlocks DEF BlockBounds
<1>14. ValuesInOrder /\ RefusesOnlyWhenFull /\ FindsNothingOnlyWhenEmpty
  <2>1. outcome = [t \in {"producer", "consumer"} |-> "none"] BY DEF Init
  <2> QED BY <1>6, <2>1 DEF ValuesInOrder, RefusesOnlyWhenFull, FindsNothingOnlyWhenEmpty
<1> QED BY <1>3, <1>4, <1>8, <1>10, <1>11, <1>12, <1>13, <1>14 DEF QueueInv

(***************************************************************************)
(* Steps that leave alone what the queue holds.                            *)
(***************************************************************************)
\* What the tests of the code say of a block.
LEMMA Tests ==
  ASSUME NEW r, Indices(r)
  PROVE  /\ FilledAtMost(r) \in 0..r.size - 1 /\ FilledAtLeast(r) \in 0..r.size - 1
         /\ (r.tail + 1) % r.size # r.localFront <=> FilledAtMost(r) < r.size - 1
         /\ (r.tail + 1) % r.size # r.front <=> Filled(r) < r.size - 1
         /\ r.front # r.localTail <=> FilledAtLeast(r) > 0
         /\ r.front # r.tail <=> Filled(r) > 0
<1> DEFINE s == r.size
           Dist(i, j) == (j + s - i) % s
<1>1. s \in Nat \ {0} /\ s >= 2 BY DEF Indices
<1>2. \A i, j \in 0..s - 1 : Dist(i, j) = IF i <= j THEN j - i ELSE j + s - i
  BY <1>1, Wrapped
<1>3. \A i \in 0..s - 1 : (i + 1) % s = IF i = s - 1 THEN 0 ELSE i + 1 BY <1>1, NextIndex
<1>4. /\ r.front \in 0..s - 1 /\ r.tail \in 0..s - 1
      /\ r.localFront \in 0..s - 1 /\ r.localTail \in 0..s - 1
  BY DEF Indices
<1>5. /\ FilledAtMost(r) = Dist(r.localFront, r.tail)
      /\ FilledAtLeast(r) = Dist(r.front, r.localTail)
      /\ Filled(r) = Dist(r.front, r.tail)
  BY DEF FilledAtMost, FilledAtLeast, Filled
<1> HIDE DEF s, Dist
<1>6. \A i, j \in 0..s - 1 : /\ Dist(i, j) \in 0..s - 1
                             /\ (j + 1) % s # i <=> Dist(i, j) < s - 1
                             /\ i # j <=> Dist(i, j) > 0
  <2> TAKE i, j \in 0..s - 1
  <2>1. Dist(i, j) = IF i <= j THEN j - i ELSE j + s - i BY <1>2
  <2>2. (j + 1) % s = IF j = s - 1 THEN 0 ELSE j + 1 BY <1>3
  <2> QED BY <1>1, <2>1, <2>2
<1>7. /\ FilledAtMost(r) \in 0..s - 1 /\ FilledAtLeast(r) \in 0..s - 1
      /\ (r.tail + 1) % s # r.localFront <=> FilledAtMost(r) < s - 1
      /\ (r.tail + 1) % s # r.front <=> Filled(r) < s - 1
      /\ r.front # r.localTail <=> FilledAtLeast(r) > 0
      /\ r.front # r.tail <=> Filled(r) > 0
  <2>1. /\ Dist(r.localFront, r.tail) \in 0..s - 1
        /\ (r.tail + 1) % s # r.localFront <=> Dist(r.localFront, r.tail) < s - 1
    BY <1>4, <1>6, Zenon
  <2>2. /\ Dist(r.front, r.localTail) \in 0..s - 1
        /\ r.front # r.localTail <=> Dist(r.front, r.localTail) > 0
    BY <1>4, <1>6, Zenon
  <2>3. /\ (r.tail + 1) % s # r.front <=> Dist(r.front, r.tail) < s - 1
        /\ r.front # r.tail <=> Dist(r.front, r.tail) > 0
    BY <1>4, <1>6, Zenon
  <2> QED BY <1>5, <2>1, <2>2, <2>3
<1> QED BY <1>7 DEF s

\* Nothing changes that the contents of block b depend on.
BlockKept(b) ==
  /\ blocks'[b].size = blocks[b].size /\ blocks'[b].next = blocks[b].next
  /\ blocks'[b].front = blocks[b].front /\ blocks'[b].tail = blocks[b].tail
  /\ blocks'[b].data = blocks[b].data /\ Filled(blocks'[b]) = Filled(blocks[b])
  /\ \A slot : Place(blocks'[b], slot) = Place(blocks[b], slot)

BlocksKept ==
  /\ BlocksOK' /\ Len(blocks') = Len(blocks) /\ BlockNumbers' = BlockNumbers
  /\ \A b \in BlockNumbers : BlockKept(b)

\* A step that writes to no block.
LEMMA NoBlockChanged ==
  ASSUME BlocksOK, blocks' = blocks
  PROVE  BlocksKept
<1>1. BlocksOK' BY DEF BlocksOK, Block, BlockNumbers
<1> QED BY <1>1 DEF BlocksKept, BlockKept, BlockNumbers

\* The parts of the invariant about the contents, where these stay.
LEMMA ContentsStay ==
  ASSUME QueueInv, BlocksKept,
         UNCHANGED <<frontBlock, tailBlock, largestBlockSize, accepted, removed>>,
         \A pc \in {"publish", "advance"} : producer' = pc <=> producer = pc,
         consumer' = "release" <=> consumer = "release",
         mode' = "CanAlloc" => "CanAlloc" \in Modes
  PROVE  OneCircle' /\ SlotsHold' /\ BlocksFollow' /\ BlockBounds'
<1>1. TypeOK /\ OneCircle /\ SlotsHold /\ BlocksFollow /\ BlockBounds BY DEF QueueInv
<1>2. BlocksOK /\ frontBlock \in BlockNumbers /\ tailBlock \in BlockNumbers BY <1>1 DEF TypeOK
<1>3. CircleKept BY DEF BlocksKept, BlockKept, CircleKept
<1>4. OneCircle' BY <1>1, <1>2, <1>3, CircleStays DEF BlocksKept
<1>5. \A b \in BlockNumbers : First(b)' = First(b) BY DEF First, BlocksKept, BlockKept
<1>6. OrderKept BY <1>5 DEF OrderKept, BlocksKept, BlockKept
<1>7. BlocksFollow' BY <1>1, <1>2, <1>6, OrderStays
<1>8. SlotsHold'
  <2> SUFFICES ASSUME NEW b \in BlockNumbers, NEW slot \in 0..blocks[b].size - 1
               PROVE  (blocks[b].data[slot] =
                         IF Place(blocks[b], slot) < Filled(blocks[b])
                           THEN IF consumer = "release" /\ b = frontBlock /\ slot = blocks[b].front
                                THEN Raw ELSE First(b) + Place(blocks[b], slot)
                           ELSE IF producer = "publish" /\ b = tailBlock /\ slot = blocks[b].tail
                                THEN accepted + 1 ELSE Raw)'
    BY DEF SlotsHold, BlocksKept, BlockKept
  <2>1. blocks[b].data[slot] =
          IF Place(blocks[b], slot) < Filled(blocks[b])
            THEN IF consumer = "release" /\ b = frontBlock /\ slot = blocks[b].front
                 THEN Raw ELSE First(b) + Place(blocks[b], slot)
            ELSE IF producer = "publish" /\ b = tailBlock /\ slot = blocks[b].tail
                 THEN accepted + 1 ELSE Raw
    BY <1>1 DEF SlotsHold
  <2> QED BY <1>5, <2>1 DEF BlocksKept, BlockKept
<1>9. BlockBounds' BY <1>1 DEF BlockBounds, BlocksKept, BlockKept
<1> QED BY <1>4, <1>7, <1>8, <1>9

\* A step of the consumer, or the end of a call, leaves what the producer knows.
LEMMA ProducerStays ==
  ASSUME QueueInv, BlocksKept,
         \A b \in BlockNumbers : blocks'[b].localFront = blocks[b].localFront,
         UNCHANGED <<frontBlock, tailBlock, accepted, removed>>,
         \/ producer' = producer /\ mode' = mode /\ held'["producer"] = held["producer"]
         \/ producer' \in {"idle"} \union SizeStates
  PROVE  ProducerKnows'
<1>1. TypeOK /\ ProducerKnows BY DEF QueueInv
<1>2. tailBlock \in BlockNumbers BY <1>1 DEF TypeOK
<1>3. blocks[tailBlock].next \in BlockNumbers BY <1>1, <1>2, Numbers
<1>4. \A b \in BlockNumbers : FilledAtMost(blocks'[b]) = FilledAtMost(blocks[b])
  BY DEF FilledAtMost, BlocksKept, BlockKept
<1> QED BY <1>1, <1>2, <1>3, <1>4 DEF ProducerKnows, BlocksKept, BlockKept, SizeStates

\* A step of the producer, or the end of a call, leaves what the consumer knows.
LEMMA ConsumerStays ==
  ASSUME QueueInv, BlocksKept,
         \A b \in BlockNumbers : blocks'[b].localTail = blocks[b].localTail,
         UNCHANGED <<frontBlock, tailBlock, accepted, removed, got, op>>,
         \/ consumer' = consumer /\ held'["consumer"] = held["consumer"]
                                 /\ outcome'["consumer"] = outcome["consumer"]
         \/ consumer' \in {"idle"} \union SizeStates
  PROVE  ConsumerKnows'
<1>1. TypeOK /\ ConsumerKnows BY DEF QueueInv
<1>2. frontBlock \in BlockNumbers BY <1>1 DEF TypeOK
<1>3. blocks[frontBlock].next \in BlockNumbers BY <1>1, <1>2, Numbers
<1>4. \A b \in BlockNumbers : FilledAtLeast(blocks'[b]) = FilledAtLeast(blocks[b])
  BY DEF FilledAtLeast, BlocksKept, BlockKept
<1> QED BY <1>1, <1>2, <1>3, <1>4 DEF ConsumerKnows, BlocksKept, BlockKept, SizeStates

\* What a step of one thread leaves to the other.
LEMMA AnswersStay ==
  ASSUME QueueInv,
         \/ UNCHANGED <<op, got, removed>> /\ outcome'["consumer"] = outcome["consumer"]
         \/ outcome'["consumer"] = "none",
         consumer' = "release" => consumer = "release" /\ UNCHANGED <<got, removed>>,
         \/ held'["consumer"] = held["consumer"] /\ outcome'["consumer"] = outcome["consumer"]
         \/ outcome'["consumer"] = "none",
         \/ mode' = mode /\ held'["producer"] = held["producer"]
                         /\ outcome'["producer"] = outcome["producer"]
         \/ outcome'["producer"] = "none"
  PROVE  ValuesInOrder' /\ RefusesOnlyWhenFull' /\ FindsNothingOnlyWhenEmpty'
BY DEF QueueInv, ValuesInOrder, RefusesOnlyWhenFull, FindsNothingOnlyWhenEmpty

\* The facts that nearly every step is about.
LEMMA Facts ==
  ASSUME QueueInv
  PROVE  /\ TypeOK /\ BlocksOK /\ OneCircle
         /\ frontBlock \in BlockNumbers /\ tailBlock \in BlockNumbers
         /\ Indices(blocks[frontBlock]) /\ Indices(blocks[tailBlock])
         /\ blocks[frontBlock].next \in BlockNumbers /\ blocks[tailBlock].next \in BlockNumbers
         /\ accepted \in Nat /\ removed \in Nat /\ accepted <= MaxItems /\ removed <= accepted
         /\ MaxItems \in Nat
         /\ held \in [Threads -> 0..MaxItems]
         /\ outcome \in [Threads -> {"none", "true", "false"}]
BY Numbers, FieldsOfAll, QueueAssumption DEF QueueInv, TypeOK

\* A call of the producer begins.
LEMMA EnqueueKeeps ==
  ASSUME QueueInv, NEW m \in Modes, Enqueue(m)
  PROVE  QueueInv'
<1>1. BlocksKept BY Facts, NoBlockChanged DEF Enqueue
<1>2. TypeOK /\ ProducerKnows BY DEF QueueInv
<1>3. producer' \in {"write", "refresh"} BY DEF Enqueue, WithRoom
<1>4. accepted - removed \in 0..MaxItems BY Facts
<1>5. /\ held' = [held EXCEPT !["producer"] = accepted - removed]
      /\ outcome' = [outcome EXCEPT !["producer"] = "none"]
  BY DEF Enqueue, Begin
<1>6. /\ held' \in [Threads -> 0..MaxItems] /\ held'["producer"] = accepted - removed
      /\ held'["consumer"] = held["consumer"]
      /\ outcome' \in [Threads -> {"none", "true", "false"}]
      /\ outcome'["producer"] = "none" /\ outcome'["consumer"] = outcome["consumer"]
  BY <1>4, <1>5, Facts DEF Threads
<1>7. TypeOK'
  BY <1>1, <1>2, <1>3, <1>6
  DEF Enqueue, TypeOK, BlocksKept, producerRest, consumerVars
<1>8. OneCircle' /\ SlotsHold' /\ BlocksFollow' /\ BlockBounds'
  BY <1>1, <1>3, ContentsStay DEF Enqueue, producerRest, consumerVars
<1>9. ProducerKnows'
  <2>1. blocks' = blocks /\ tailBlock' = tailBlock BY DEF Enqueue
  <2>2. FilledAtMost(blocks[tailBlock]) < blocks[tailBlock].size - 1 \/ producer' = "refresh"
    BY Facts, Tests DEF Enqueue, WithRoom, After
  <2>3. accepted' = accepted /\ removed' = removed /\ accepted < MaxItems
    BY DEF Enqueue, producerRest, consumerVars
  <2> QED BY <1>2, <1>3, <1>4, <1>6, <2>1, <2>2, <2>3 DEF ProducerKnows
<1>10. ConsumerKnows'
  BY <1>1, <1>6, ConsumerStays DEF Enqueue, producerRest, consumerVars
<1>11. ValuesInOrder' /\ RefusesOnlyWhenFull' /\ FindsNothingOnlyWhenEmpty'
  BY <1>6, AnswersStay DEF Enqueue, producerRest, consumerVars
<1> QED BY <1>7, <1>8, <1>9, <1>10, <1>11 DEF QueueInv

\* A copy of an index brought up to date leaves every block as it was.
LEMMA CopyKeeps ==
  ASSUME BlocksOK, NEW b \in BlockNumbers, NEW i \in 0..blocks[b].size - 1,
         \/ blocks' = [blocks EXCEPT ![b].localFront = i]
         \/ blocks' = [blocks EXCEPT ![b].localTail = i]
  PROVE  BlocksKept /\ \A c \in BlockNumbers : c # b => blocks'[c] = blocks[c]
<1>1. /\ BlocksOK' /\ Len(blocks') = Len(blocks) /\ BlockNumbers' = BlockNumbers
      /\ \A c \in BlockNumbers : c # b => blocks'[c] = blocks[c]
  BY CopyAssigned
<1>2. BlockKept(b) BY CopyAssigned DEF BlockKept
<1> QED BY <1>1, <1>2 DEF BlocksKept, BlockKept

\* The producer looks at the front again.
LEMMA RefreshFrontKeeps ==
  ASSUME QueueInv, RefreshFront
  PROVE  QueueInv'
<1> DEFINE b == blocks[tailBlock]
<1>1. TypeOK /\ ProducerKnows /\ BlockBounds BY DEF QueueInv
<1>2. b.front \in 0..b.size - 1 BY Facts DEF Indices
<1>3. blocks' = [blocks EXCEPT ![tailBlock].localFront = b.front] BY DEF RefreshFront
<1>4. BlocksKept /\ \A c \in BlockNumbers : c # tailBlock => blocks'[c] = blocks[c]
  BY <1>2, <1>3, Facts, CopyKeeps
<1>5. blocks'[tailBlock].localFront = b.front /\ blocks'[tailBlock].localTail = b.localTail
  BY <1>2, <1>3, Facts, CopyAssigned
<1>6. producer = "refresh" /\ producer' \in {"write", "full"} BY DEF RefreshFront
<1>7. UNCHANGED <<frontBlock, tailBlock, largestBlockSize, mode, accepted, consumer, op, got,
                  removed, sizing, held, outcome>>
  BY DEF RefreshFront, producerRest, consumerVars, Continue
<1>8. TypeOK' BY <1>1, <1>4, <1>6, <1>7 DEF TypeOK, BlocksKept
<1>9. OneCircle' /\ SlotsHold' /\ BlocksFollow' /\ BlockBounds'
  BY <1>1, <1>4, <1>6, <1>7, ContentsStay DEF BlockBounds
<1>10. ProducerKnows'
  <2> DEFINE new == blocks'[tailBlock]
  <2>1. /\ new.size = b.size /\ new.tail = b.tail /\ Filled(new) = Filled(b)
        /\ Filled(b) \in 0..b.size - 1 /\ b.size \in Nat
    BY <1>1, <1>4, Facts, Numbers DEF BlocksKept, BlockKept
  <2>2. FilledAtMost(new) = Filled(b) BY <1>5, <2>1 DEF FilledAtMost, Filled
  <2>3. producer' = IF Filled(b) < b.size - 1 THEN "write" ELSE "full"
    BY Facts, Tests DEF RefreshFront, HasRoom, After
  <2>4. accepted - removed >= Filled(b) BY TailCounted DEF QueueInv
  <2>5. accepted < MaxItems /\ held["producer"] >= accepted - removed
    BY <1>1, <1>6 DEF ProducerKnows
  <2>6. held["producer"] >= Filled(b)
    <3>1. held["producer"] \in Nat BY Facts DEF Threads
    <3> QED BY <2>1, <2>4, <2>5, <3>1, Facts
  <2>7. producer' = "full" => Filled(b) = b.size - 1 BY <2>1, <2>3
  <2>8. tailBlock' = tailBlock BY <1>7
  <2> HIDE DEF b, new
  <2> QED BY <1>6, <1>7, <2>1, <2>2, <2>3, <2>5, <2>6, <2>7 DEF ProducerKnows, new
<1>11. ConsumerKnows'
  <2>1. \A c \in BlockNumbers : blocks'[c].localTail = blocks[c].localTail BY <1>4, <1>5
  <2> QED BY <1>4, <1>7, <2>1, ConsumerStays
<1>12. ValuesInOrder' /\ RefusesOnlyWhenFull' /\ FindsNothingOnlyWhenEmpty'
  BY <1>7, AnswersStay
<1> QED BY <1>8, <1>9, <1>10, <1>11, <1>12 DEF QueueInv

\* The tail block is full: a refusal is right, by what the constructor reserved.
LEMMA TailBlockFullKeeps ==
  ASSUME QueueInv, TailBlockFull
  PROVE  QueueInv'
<1> DEFINE b == blocks[tailBlock]
<1>1. /\ TypeOK /\ OneCircle /\ BlocksFollow /\ ProducerKnows /\ BlockBounds
      /\ RefusesOnlyWhenFull
  BY DEF QueueInv
<1>2. UNCHANGED <<blocks, frontBlock, tailBlock, largestBlockSize, mode, accepted, consumer, op,
                  got, removed, sizing, held>>
  BY DEF TailBlockFull, producerRest, consumerVars, Continue, Answer
<1>3. BlocksKept BY <1>2, Facts, NoBlockChanged
<1>4. /\ producer = "full" /\ producer' \in {"nextBlock", "allocate", "idle"}
      /\ producer' = "nextBlock" => b.next # frontBlock
      /\ producer' = "allocate" => mode = "CanAlloc"
      /\ \/ outcome' = outcome
         \/ /\ producer' = "idle" /\ b.next = frontBlock /\ mode # "CanAlloc"
            /\ outcome' = [outcome EXCEPT !["producer"] = "false"]
  BY DEF TailBlockFull, BlockFree, Continue, Answer
<1>5. /\ outcome' \in [Threads -> {"none", "true", "false"}]
      /\ outcome'["consumer"] = outcome["consumer"]
  BY <1>4, Facts DEF Threads
<1>6. TypeOK' BY <1>1, <1>2, <1>3, <1>4, <1>5 DEF TypeOK, BlocksKept
<1>7. OneCircle' /\ SlotsHold' /\ BlocksFollow' /\ BlockBounds'
  BY <1>1, <1>2, <1>3, <1>4, ContentsStay DEF BlockBounds
<1>8. ProducerKnows'
  <2>1. UNCHANGED <<blocks, tailBlock, frontBlock, accepted, removed, held, mode>> BY <1>2
  <2> QED BY <1>1, <1>4, <2>1 DEF ProducerKnows
<1>9. ConsumerKnows' BY <1>2, <1>3, <1>5, ConsumerStays
<1>10. ValuesInOrder' /\ FindsNothingOnlyWhenEmpty'
  BY <1>2, <1>5 DEF QueueInv, ValuesInOrder, FindsNothingOnlyWhenEmpty
<1>11. RefusesOnlyWhenFull'
  <2>1. CASE outcome' = outcome BY <1>1, <1>2, <2>1 DEF RefusesOnlyWhenFull
  <2>2. CASE b.next = frontBlock
    <3> DEFINE N == Len(blocks)
               s == InitialBlockSize
               p == (N - 1) * (s - 1)
    <3>1. PICK d \in 0..N - 1 : BlockAt[d] = tailBlock BY Facts, CircleFacts
    <3>2. N \in Nat /\ N >= InitialBlockCount /\ InitialBlockCount \in Nat /\ N >= 1
      BY <1>1, Reserved DEF BlockBounds
    <3>3. s \in Nat /\ s >= 2 BY Reserved, SizesAre
    <3>4. \A c \in BlockNumbers : s - 1 <= blocks[c].size - 1
      <4>1. largestBlockSize \in Nat BY <1>1, SizesAre DEF TypeOK
      <4>2. \A c \in BlockNumbers : blocks[c].size \in s..largestBlockSize
        BY <1>1 DEF BlockBounds
      <4> QED BY <3>3, <4>1, <4>2
    <3>5. d = N - 1
      <4>1. b.next = BlockAt[IF d = N - 1 THEN 0 ELSE d + 1] BY <3>1, Facts, CircleFacts
      <4>2. BlockAt[0] = BlockAt[IF d = N - 1 THEN 0 ELSE d + 1]
        BY <2>2, <4>1, Facts, CircleFacts
      <4>3. \A m, n \in 0..N - 1 : BlockAt[m] = BlockAt[n] => m = n BY Facts, CircleFacts
      <4> QED BY <3>1, <3>2, <4>2, <4>3
    <3>6. /\ tailBlock # frontBlock => Filled(b) = b.size - 1
          /\ held["producer"] >= b.size - 1 /\ held["producer"] >= accepted - removed
      BY <1>1, <1>4 DEF ProducerKnows
    <3>7. b.size \in Nat /\ b.size >= s
      <4>1. b.size \in Nat /\ s - 1 <= b.size - 1 BY <1>1, <3>4, Facts, Numbers
      <4> HIDE DEF b, s
      <4> QED BY <3>3, <4>1
    <3>8. held["producer"] \in Nat BY Facts DEF Threads
    <3>9. CASE N = 1
      BY <3>2, <3>3, <3>6, <3>7, <3>8, <3>9, Reserved, QueueAssumption, <1>2
      DEF RefusesOnlyWhenFull
    <3>10. CASE N # 1
      <4>1. d # 0 BY <3>2, <3>5, <3>10
      <4>2. tailBlock # frontBlock BY <3>1, <4>1, <3>2, Facts, CircleFacts
      <4>3. s - 1 \in Nat BY <3>3
      <4>4. First(tailBlock) >= Behind(frontBlock) + (d - 1) * (s - 1)
        BY <1>1, <3>1, <3>4, <4>1, <4>3, InOrder
      <4>5. (d - 1) * (s - 1) = p - (s - 1) /\ p \in Int
        BY <3>2, <3>3, <3>5
      <4>6. /\ Behind(frontBlock) >= removed + 1 /\ Behind(frontBlock) \in Nat
            /\ First(tailBlock) \in Nat
            /\ accepted + 1 = First(tailBlock) + Filled(b)
        BY <1>1, Facts, Numbers DEF Behind, First, BlocksFollow
      <4>7. p >= Size
        <5>1. CASE InitialBlockCount = 1
          <6>1. s - 1 >= Size BY <5>1, Reserved
          <6>2. p >= s - 1
            <7> HIDE DEF N, s
            <7> DEFINE u == (N - 2) * (s - 1)
            <7>1. p = u + (s - 1) /\ u \in Int /\ u >= 0 BY <3>2, <3>3, <3>10
            <7> HIDE DEF p, u
            <7> QED BY <3>3, <7>1
          <6> HIDE DEF p
          <6> QED BY <3>3, <4>5, <6>1, <6>2, QueueAssumption
        <5>2. CASE InitialBlockCount > 1
          <6>1. (InitialBlockCount - 1) * (s - 1) >= Size BY <5>2, Reserved
          <6>2. p >= (InitialBlockCount - 1) * (s - 1) BY <3>2, <3>3
          <6>3. (InitialBlockCount - 1) * (s - 1) \in Int BY <3>2, <3>3
          <6> DEFINE q == (InitialBlockCount - 1) * (s - 1)
          <6> HIDE DEF p, q
          <6>4. p >= q /\ q \in Int /\ q >= Size BY <6>1, <6>2, <6>3 DEF q
          <6> QED BY <4>5, <6>4, QueueAssumption
        <5> QED BY <3>2, <5>1, <5>2, Reserved
      <4> DEFINE e == (d - 1) * (s - 1)
      <4>8. e = p - (s - 1) /\ First(tailBlock) >= Behind(frontBlock) + e BY <4>4, <4>5
      <4>9. p \in Int BY <4>5
      <4>10. Filled(b) >= s - 1 /\ Filled(b) \in Nat BY <3>3, <3>6, <3>7, <4>2
      <4> HIDE DEF e, p, s, b, N
      <4>11. accepted - removed >= p BY <3>3, <4>6, <4>8, <4>9, <4>10, Facts
      <4>12. held["producer"] >= Size
        BY <3>6, <3>8, <4>7, <4>9, <4>11, Facts, QueueAssumption
      <4> QED BY <1>2, <4>12 DEF RefusesOnlyWhenFull
    <3> QED BY <3>9, <3>10
  <2> QED BY <1>4, <2>1, <2>2
<1> QED BY <1>6, <1>7, <1>8, <1>9, <1>10, <1>11 DEF QueueInv

(***************************************************************************)
(* The producer's steps that change what the queue holds.                  *)
(***************************************************************************)
\* What SlotsHold says of a slot, by its place.
LEMMA Held ==
  ASSUME QueueInv, NEW b \in BlockNumbers, NEW slot \in 0..blocks[b].size - 1
  PROVE  /\ Place(blocks[b], slot) \in 0..blocks[b].size - 1
         /\ Filled(blocks[b]) \in 0..blocks[b].size - 1
         /\ blocks[b].data[slot] =
              IF Place(blocks[b], slot) < Filled(blocks[b])
                THEN IF consumer = "release" /\ b = frontBlock /\ slot = blocks[b].front
                     THEN Raw ELSE First(b) + Place(blocks[b], slot)
                ELSE IF producer = "publish" /\ b = tailBlock /\ slot = blocks[b].tail
                     THEN accepted + 1 ELSE Raw
         /\ First(b) \in Nat
         /\ Place(blocks[b], slot) = 0 <=> slot = blocks[b].front
         /\ Place(blocks[b], slot) = Filled(blocks[b]) <=> slot = blocks[b].tail
<1>1. Indices(blocks[b]) BY FieldsOfAll, Facts
<1>2. First(b) \in Nat BY Numbers DEF QueueInv
<1>3. /\ Place(blocks[b], slot) \in 0..blocks[b].size - 1
      /\ Filled(blocks[b]) \in 0..blocks[b].size - 1
      /\ Place(blocks[b], slot) = IF blocks[b].front <= slot THEN slot - blocks[b].front
                                       ELSE slot + blocks[b].size - blocks[b].front
      /\ Filled(blocks[b]) = IF blocks[b].front <= blocks[b].tail
                               THEN blocks[b].tail - blocks[b].front
                               ELSE blocks[b].tail + blocks[b].size - blocks[b].front
  BY <1>1, Places
<1>4. /\ Place(blocks[b], slot) = 0 <=> slot = blocks[b].front
      /\ Place(blocks[b], slot) = Filled(blocks[b]) <=> slot = blocks[b].tail
  BY <1>1, <1>3 DEF Indices
<1> QED BY <1>2, <1>3, <1>4 DEF QueueInv, SlotsHold

\* The producer constructs an element in its slot.
LEMMA WriteElementKeeps ==
  ASSUME QueueInv, WriteElement
  PROVE  QueueInv'
<1> DEFINE b == blocks[tailBlock]
           new == blocks'[tailBlock]
<1>1. TypeOK /\ OneCircle /\ BlocksFollow /\ ProducerKnows /\ ConsumerKnows /\ BlockBounds
  BY DEF QueueInv
<1>2. producer = "write" /\ producer' = "publish" BY DEF WriteElement
<1>3. UNCHANGED <<frontBlock, tailBlock, largestBlockSize, mode, accepted, consumer, op, got,
                  removed, sizing, held, outcome>>
  BY DEF WriteElement, producerRest, consumerVars, Continue
<1>4. accepted < MaxItems BY <1>1, <1>2 DEF ProducerKnows
<1>5. accepted + 1 \in Items \union {Raw} BY <1>4, Facts DEF Items
<1>6. b.tail \in 0..b.size - 1 BY Facts DEF Indices
<1>7. blocks' = [blocks EXCEPT ![tailBlock].data[b.tail] = accepted + 1] BY DEF WriteElement
<1>8. /\ BlocksOK' /\ Len(blocks') = Len(blocks) /\ BlockNumbers' = BlockNumbers
      /\ \A c \in BlockNumbers : c # tailBlock => blocks'[c] = blocks[c]
      /\ new.size = b.size /\ new.front = b.front /\ new.tail = b.tail
      /\ new.localFront = b.localFront /\ new.localTail = b.localTail /\ new.next = b.next
      /\ Filled(new) = Filled(b)
      /\ \A slot \in 0..b.size - 1 :
           /\ Place(new, slot) = Place(b, slot)
           /\ new.data[slot] = IF slot = b.tail THEN accepted + 1 ELSE b.data[slot]
  BY <1>5, <1>6, <1>7, Facts, SlotAssigned
<1> HIDE DEF new, b
<1>9. TypeOK' BY <1>1, <1>2, <1>3, <1>8 DEF TypeOK
<1>10. tailBlock # frontBlock => new.data[new.front] = b.data[b.front]
  <2>1. tailBlock # frontBlock => Filled(b) > 0 BY <1>1 DEF BlocksFollow, b
  <2>2. b.front \in 0..b.size - 1 BY Facts DEF Indices, b
  <2>3. Filled(b) > 0 => b.front # b.tail BY Facts, Tests DEF b
  <2> QED BY <1>8, <2>1, <2>2, <2>3
<1>11. \A c \in BlockNumbers : First(c)' = First(c)
  BY <1>3, <1>8, <1>10 DEF First, b, new
<1>12. OneCircle' BY <1>1, <1>3, <1>8, Facts, CircleStays DEF CircleKept, b, new
<1>13. BlocksFollow'
  BY <1>1, <1>2, <1>3, <1>8, <1>11, Facts, OrderStays DEF OrderKept, b, new
<1>14. SlotsHold'
  <2> SUFFICES ASSUME NEW c \in BlockNumbers, NEW slot \in 0..blocks[c].size - 1
               PROVE  (blocks[c].data[slot] =
                         IF Place(blocks[c], slot) < Filled(blocks[c])
                           THEN IF consumer = "release" /\ c = frontBlock /\ slot = blocks[c].front
                                THEN Raw ELSE First(c) + Place(blocks[c], slot)
                           ELSE IF producer = "publish" /\ c = tailBlock /\ slot = blocks[c].tail
                                THEN accepted + 1 ELSE Raw)'
    BY <1>8 DEF SlotsHold, b, new
  <2>1. CASE c # tailBlock BY <1>2, <1>3, <1>8, <1>11, <2>1, Held
  <2>2. CASE c = tailBlock BY <1>2, <1>3, <1>8, <1>11, <2>2, Held, SMTT(30) DEF b, new
  <2> QED BY <2>1, <2>2
<1>15. ProducerKnows'
  <2>1. FilledAtMost(new) = FilledAtMost(b) BY <1>8 DEF FilledAtMost
  <2>2. FilledAtMost(b) < b.size - 1 /\ Filled(b) <= FilledAtMost(b)
    BY <1>1, <1>2 DEF ProducerKnows, b
  <2>3. held["producer"] >= accepted - removed BY <1>1, <1>2 DEF ProducerKnows
  <2> QED BY <1>2, <1>3, <1>4, <1>8, <2>1, <2>2, <2>3 DEF ProducerKnows, new
<1>16. ConsumerKnows'
  <2>1. \A c \in BlockNumbers : /\ FilledAtLeast(blocks'[c]) = FilledAtLeast(blocks[c])
                                /\ Filled(blocks'[c]) = Filled(blocks[c])
                                /\ blocks'[c].next = blocks[c].next
    BY <1>8 DEF FilledAtLeast, b, new
  <2> QED BY <1>1, <1>3, <2>1, Facts DEF ConsumerKnows
<1>17. BlockBounds' BY <1>1, <1>3, <1>8 DEF BlockBounds, b, new
<1>18. ValuesInOrder' /\ RefusesOnlyWhenFull' /\ FindsNothingOnlyWhenEmpty'
  BY <1>3, AnswersStay
<1> QED BY <1>9, <1>12, <1>13, <1>14, <1>15, <1>16, <1>17, <1>18 DEF QueueInv

\* There is room for the element that the producer has written.
LEMMA PublishRoom ==
  ASSUME QueueInv, producer = "publish"
  PROVE  LET b == blocks[tailBlock]
         IN  /\ FilledAtMost(b) < b.size - 1 /\ Filled(b) <= FilledAtMost(b) /\ accepted < MaxItems
             /\ FilledAtMost(b) \in Nat /\ Filled(b) \in Nat /\ b.size \in Nat
<1> DEFINE b == blocks[tailBlock]
<1>1. TypeOK /\ ProducerKnows BY DEF QueueInv
<1>2. /\ FilledAtMost(b) < b.size - 1 /\ Filled(b) <= FilledAtMost(b)
      /\ accepted < MaxItems
  BY <1>1 DEF ProducerKnows
<1>3. FilledAtMost(b) \in 0..b.size - 1 BY Facts, Tests
<1>4. Filled(b) \in 0..b.size - 1 /\ b.size \in Nat BY <1>1, Facts, Numbers
<1> QED BY <1>2, <1>3, <1>4

\* The tail block, once the element is published.
LEMMA Published ==
  ASSUME QueueInv, PublishElement
  PROVE  /\ BlocksOK' /\ Len(blocks') = Len(blocks) /\ BlockNumbers' = BlockNumbers
         /\ \A c \in BlockNumbers : c # tailBlock => blocks'[c] = blocks[c]
         /\ LET b == blocks[tailBlock]  new == blocks'[tailBlock]
            IN  /\ new.size = b.size /\ new.front = b.front
                /\ new.localFront = b.localFront /\ new.localTail = b.localTail
                /\ new.next = b.next /\ new.data = b.data
                /\ Filled(new) = Filled(b) + 1 /\ FilledAtMost(new) = FilledAtMost(b) + 1
                /\ \A slot : Place(new, slot) = Place(b, slot)
<1> DEFINE b == blocks[tailBlock]
<1>1. blocks' = [blocks EXCEPT ![tailBlock].tail = After(tailBlock, b.tail)]
  BY DEF PublishElement
<1>2. /\ FilledAtMost(b) < b.size - 1 /\ Filled(b) <= FilledAtMost(b)
      /\ FilledAtMost(b) \in Nat /\ Filled(b) \in Nat /\ b.size \in Nat
  BY PublishRoom DEF PublishElement
<1>3. Filled(b) < b.size - 1
  <2> HIDE DEF b
  <2> QED BY <1>2
<1> QED BY <1>1, <1>2, <1>3, Facts, TailMoved

\* The producer moves the tail behind the element.
LEMMA PublishElementKeeps ==
  ASSUME QueueInv, PublishElement
  PROVE  QueueInv'
<1> DEFINE b == blocks[tailBlock]
           new == blocks'[tailBlock]
<1>1. TypeOK /\ OneCircle /\ BlocksFollow /\ ProducerKnows /\ ConsumerKnows /\ BlockBounds
  BY DEF QueueInv
<1>2. producer = "publish" /\ producer' = "idle" /\ accepted' = accepted + 1
  BY DEF PublishElement
<1>3. UNCHANGED <<frontBlock, tailBlock, largestBlockSize, mode, consumer, op, got, removed,
                  sizing, held>>
  BY DEF PublishElement, producerRest, consumerVars, Answer
<1>4. /\ outcome' \in [Threads -> {"none", "true", "false"}]
      /\ outcome'["producer"] = "true" /\ outcome'["consumer"] = outcome["consumer"]
  BY Facts DEF PublishElement, Answer, Threads
<1>5. /\ FilledAtMost(b) < b.size - 1 /\ Filled(b) <= FilledAtMost(b) /\ accepted < MaxItems
      /\ FilledAtMost(b) \in Nat /\ Filled(b) \in Nat /\ b.size \in Nat
  BY <1>2, PublishRoom
<1>6. /\ BlocksOK' /\ Len(blocks') = Len(blocks) /\ BlockNumbers' = BlockNumbers
      /\ \A c \in BlockNumbers : c # tailBlock => blocks'[c] = blocks[c]
      /\ new.size = b.size /\ new.front = b.front
      /\ new.localFront = b.localFront /\ new.localTail = b.localTail
      /\ new.next = b.next /\ new.data = b.data
      /\ Filled(new) = Filled(b) + 1 /\ FilledAtMost(new) = FilledAtMost(b) + 1
      /\ \A slot : Place(new, slot) = Place(b, slot)
  BY Published
<1> HIDE DEF new, b
<1>7. TypeOK'
  <2>1. accepted' \in 0..MaxItems /\ removed' \in 0..accepted' BY <1>2, <1>3, <1>5, Facts
  <2> QED BY <1>1, <1>2, <1>3, <1>4, <1>6, <2>1 DEF TypeOK
<1>8. \A c \in BlockNumbers : First(c)' = First(c)
  BY <1>3, <1>6 DEF First, b, new
<1>9. OneCircle' BY <1>1, <1>3, <1>6, Facts, CircleStays DEF CircleKept, b, new
<1>10. \A c \in BlockNumbers : Filled(blocks'[c]) = Filled(blocks[c]) + IF c = tailBlock THEN 1 ELSE 0
  <2>1. \A c \in BlockNumbers : Filled(blocks[c]) \in Nat BY <1>1, Numbers
  <2> QED BY <1>6, <2>1 DEF b, new
<1>11. BlocksFollow'
  <2>1. \A c \in BlockNumbers : blocks'[c].size = blocks[c].size /\ blocks'[c].next = blocks[c].next
    BY <1>6 DEF b, new
  <2>2. \A c \in BlockNumbers :
          /\ blocks[c].next \in BlockNumbers /\ First(c) \in Nat
          /\ Filled(blocks[c]) \in Nat
    BY <1>1, Numbers
  <2>3. \A c \in BlockNumbers : Live(c)' <=> Live(c)
    BY <1>2, <1>3, <1>10, <2>2 DEF Live, Entering
  <2>4. \A c \in BlockNumbers :
          Behind(c)' = Behind(c) + (IF c = tailBlock THEN 1 ELSE 0) /\ Behind(c) \in Nat
    BY <1>8, <1>10, <2>2 DEF Behind
  <2>5. /\ \A c \in BlockNumbers : Live(c)' =>
             /\ Behind(c)' <= accepted' + 1
             /\ c # tailBlock' =>
                  /\ blocks'[c].next # frontBlock'
                  /\ Filled(blocks'[blocks'[c].next]) > 0
                  /\ First(blocks[c].next)' = Behind(c)'
                  /\ c # frontBlock' => Filled(blocks'[c]) = blocks'[c].size - 1
    <3> SUFFICES ASSUME NEW c \in BlockNumbers, Live(c)
                 PROVE  /\ Behind(c)' <= accepted' + 1
                        /\ c # tailBlock =>
                             /\ blocks[c].next # frontBlock
                             /\ Filled(blocks'[blocks[c].next]) > 0
                             /\ First(blocks[c].next) = Behind(c)
                             /\ c # frontBlock => Filled(blocks'[c]) = blocks[c].size - 1
      BY <1>3, <1>8, <2>1, <2>3, <2>2, <2>4
    <3>1. Behind(c) <= accepted + 1 /\ Behind(tailBlock) = accepted + 1
      BY <1>1 DEF BlocksFollow
    <3>2. c # tailBlock =>
             /\ blocks[c].next # frontBlock
             /\ Filled(blocks[blocks[c].next]) > 0
             /\ First(blocks[c].next) = Behind(c)
             /\ c # frontBlock => Filled(blocks[c]) = blocks[c].size - 1
      BY <1>1 DEF BlocksFollow
    <3> QED BY <1>2, <1>10, <2>2, <2>4, <3>1, <3>2, Facts
  <2>6. \A c \in BlockNumbers : c = tailBlock' \/ ~Live(c)' =>
          blocks'[c].next = frontBlock' \/ ~Live(blocks[c].next)'
    BY <1>1, <1>3, <2>1, <2>3, <2>2 DEF BlocksFollow
  <2>7. Behind(tailBlock)' = accepted' + 1
    BY <1>1, <1>2, <1>3, <2>4, Facts DEF BlocksFollow
  <2>8. tailBlock' # frontBlock' => Filled(blocks'[tailBlock']) > 0
    BY <1>3, <1>10, <2>2, Facts
  <2> QED BY <1>3, <1>6, <2>1, <2>5, <2>6, <2>7, <2>8 DEF BlocksFollow
<1>12. SlotsHold'
  <2> SUFFICES ASSUME NEW c \in BlockNumbers, NEW slot \in 0..blocks[c].size - 1
               PROVE  (blocks[c].data[slot] =
                         IF Place(blocks[c], slot) < Filled(blocks[c])
                           THEN IF consumer = "release" /\ c = frontBlock /\ slot = blocks[c].front
                                THEN Raw ELSE First(c) + Place(blocks[c], slot)
                           ELSE IF producer = "publish" /\ c = tailBlock /\ slot = blocks[c].tail
                                THEN accepted + 1 ELSE Raw)'
    BY <1>6 DEF SlotsHold, b, new
  <2>1. CASE c # tailBlock BY <1>2, <1>3, <1>6, <1>8, <2>1, Held
  <2>2. CASE c = tailBlock
    <3>1. First(tailBlock) + Filled(b) = accepted + 1 BY <1>1 DEF BlocksFollow, Behind, b
    <3>2. consumer = "release" /\ tailBlock = frontBlock => Filled(b) > 0
      <4>1. consumer = "release" => FilledAtLeast(blocks[frontBlock]) > 0
                /\ FilledAtLeast(blocks[frontBlock]) <= Filled(blocks[frontBlock])
        BY <1>1 DEF ConsumerKnows
      <4>2. FilledAtLeast(blocks[frontBlock]) \in Nat /\ Filled(blocks[frontBlock]) \in Nat
        BY <1>1, Facts, Tests, Numbers
      <4> QED BY <4>1, <4>2 DEF b
    <3>3. CASE slot = b.tail
      <4>1. Place(b, slot) = Filled(b) /\ b.data[slot] = accepted + 1
        BY <1>2, <2>2, <3>3, Held DEF b
      <4>2. slot = b.front => Filled(b) = 0
        BY <2>2, <4>1, Held DEF b
      <4> QED BY <1>2, <1>3, <1>5, <1>6, <1>8, <2>2, <3>1, <3>2, <4>1, <4>2 DEF b, new
    <3>4. CASE slot # b.tail
      <4>1. Place(b, slot) # Filled(b) /\ Place(b, slot) \in Nat BY <2>2, <3>4, Held DEF b
      <4>2. Place(b, slot) < Filled(b) <=> Place(b, slot) < Filled(b) + 1 BY <1>5, <4>1
      <4> QED BY <1>2, <1>3, <1>6, <1>8, <2>2, <3>4, <4>2, Held DEF b, new
    <3> QED BY <3>3, <3>4
  <2> QED BY <2>1, <2>2
<1>13. ProducerKnows'
  <2>1. Filled(new) <= FilledAtMost(new) BY <1>5, <1>6
  <2> QED BY <1>2, <1>3, <2>1 DEF ProducerKnows, new
<1>14. ConsumerKnows'
  <2>1. \A c \in BlockNumbers : /\ FilledAtLeast(blocks'[c]) = FilledAtLeast(blocks[c])
                                /\ blocks'[c].next = blocks[c].next
    BY <1>6 DEF FilledAtLeast, b, new
  <2>2. \A c \in BlockNumbers : FilledAtLeast(blocks[c]) \in Nat /\ Filled(blocks[c]) \in Nat
    BY <1>1, Numbers, FieldsOfAll, Tests, Facts
  <2>3. held["consumer"] \in Nat BY Facts DEF Threads
  <2> QED BY <1>1, <1>2, <1>3, <1>4, <1>10, <2>1, <2>2, <2>3, Facts DEF ConsumerKnows
<1>15. BlockBounds' BY <1>1, <1>3, <1>6 DEF BlockBounds, b, new
<1>16. ValuesInOrder' /\ RefusesOnlyWhenFull' /\ FindsNothingOnlyWhenEmpty'
  BY <1>3, <1>4 DEF QueueInv, ValuesInOrder, RefusesOnlyWhenFull, FindsNothingOnlyWhenEmpty
<1> QED BY <1>7, <1>9, <1>11, <1>12, <1>13, <1>14, <1>15, <1>16 DEF QueueInv

\* The block behind the tail block that the producer may move into.
LEMMA NextOfTail ==
  ASSUME QueueInv, producer # "advance", blocks[tailBlock].next # frontBlock
  PROVE  /\ blocks[tailBlock].next # tailBlock /\ Filled(blocks[blocks[tailBlock].next]) = 0
         /\ ~Live(blocks[tailBlock].next)
<1> DEFINE next == blocks[tailBlock].next
<1>1. BlocksFollow /\ TypeOK BY DEF QueueInv
<1>2. ~Live(next) BY <1>1, Facts DEF BlocksFollow
<1>3. ~(Filled(blocks[next]) > 0) /\ next # tailBlock BY <1>2 DEF Live, Entering
<1>4. Filled(blocks[next]) \in Nat BY <1>1, Facts, Numbers
<1> QED BY <1>2, <1>3, <1>4

\* It is free, and there are more elements to come.
LEMMA NextFree ==
  ASSUME QueueInv, producer = "nextBlock", NEW next, next = blocks[tailBlock].next
  PROVE  /\ next \in BlockNumbers /\ next # frontBlock /\ next # tailBlock
         /\ Filled(blocks[next]) = 0 /\ ~Live(next) /\ accepted < MaxItems
<1>1. next \in BlockNumbers /\ next # frontBlock BY Facts DEF QueueInv, ProducerKnows
<1>2. next # tailBlock /\ Filled(blocks[next]) = 0 /\ ~Live(next) BY <1>1, NextOfTail
<1> QED BY <1>1, <1>2 DEF QueueInv, ProducerKnows

\* It has one element, once the producer has put it there.
LEMMA NextFilled ==
  ASSUME QueueInv, UseNextBlock, NEW next, next = blocks[tailBlock].next
  PROVE  /\ BlocksOK' /\ Len(blocks') = Len(blocks) /\ BlockNumbers' = BlockNumbers
         /\ \A c \in BlockNumbers : c # next => blocks'[c] = blocks[c]
         /\ LET b == blocks[next]  new == blocks'[next]
            IN  /\ new.size = b.size /\ new.front = b.front /\ new.next = b.next
                /\ new.localFront = b.front /\ new.localTail = b.localTail
                /\ Filled(new) = 1
                /\ \A slot \in 0..b.size - 1 :
                     /\ Place(new, slot) = Place(b, slot)
                     /\ new.data[slot] = IF slot = b.front THEN accepted + 1 ELSE b.data[slot]
<1> DEFINE b == blocks[next]
<1>1. next \in BlockNumbers /\ Filled(b) = 0 /\ accepted < MaxItems
  BY NextFree DEF UseNextBlock
<1>2. accepted + 1 \in Items BY <1>1, Facts DEF Items
<1>3. blocks' = [blocks EXCEPT ![next].localFront = b.front,
                               ![next].data[b.tail] = accepted + 1,
                               ![next].tail = After(next, b.tail)]
  BY DEF UseNextBlock
<1>4. BlocksOK BY Facts
<1> QED BY <1>1, <1>2, <1>3, <1>4, FirstWritten, ZenonT(60)

\* The producer puts the element into the next block.
LEMMA UseNextBlockKeeps ==
  ASSUME QueueInv, UseNextBlock
  PROVE  QueueInv'
<1>1. PICK next : next = blocks[tailBlock].next OBVIOUS
<1> DEFINE b == blocks[next]
           new == blocks'[next]
<1>2. TypeOK /\ OneCircle /\ BlocksFollow /\ ProducerKnows /\ ConsumerKnows /\ BlockBounds
  BY DEF QueueInv
<1>3. producer = "nextBlock" /\ producer' = "advance" BY DEF UseNextBlock
<1>4. UNCHANGED <<frontBlock, tailBlock, largestBlockSize, mode, accepted, consumer, op, got,
                  removed, sizing, held, outcome>>
  BY DEF UseNextBlock, producerRest, consumerVars, Continue
<1>5. /\ next \in BlockNumbers /\ next # frontBlock /\ next # tailBlock
      /\ Filled(b) = 0 /\ ~Live(next) /\ accepted < MaxItems
  BY <1>1, <1>3, NextFree
<1>6. /\ BlocksOK' /\ Len(blocks') = Len(blocks) /\ BlockNumbers' = BlockNumbers
      /\ \A c \in BlockNumbers : c # next => blocks'[c] = blocks[c]
      /\ new.size = b.size /\ new.front = b.front /\ new.next = b.next
      /\ new.localFront = b.front /\ new.localTail = b.localTail
      /\ Filled(new) = 1
      /\ \A slot \in 0..b.size - 1 :
           /\ Place(new, slot) = Place(b, slot)
           /\ new.data[slot] = IF slot = b.front THEN accepted + 1 ELSE b.data[slot]
  BY <1>1, NextFilled
<1> HIDE DEF b, new
<1>7. blocks[tailBlock].next = next /\ blocks'[tailBlock] = blocks[tailBlock]
  BY <1>1, <1>5, <1>6, Facts
<1>8. TypeOK' BY <1>2, <1>3, <1>4, <1>6 DEF TypeOK
<1>9. OneCircle' BY <1>2, <1>4, <1>6, Facts, CircleStays DEF CircleKept, b, new
<1>10. \A c \in BlockNumbers : c # next => First(c)' = First(c)
  BY <1>4, <1>6 DEF First
<1>11. Indices(b) BY <1>5, Facts, FieldsOfAll DEF b
<1>12. First(next)' = accepted + 1
  BY <1>4, <1>5, <1>6, <1>11 DEF First, new, Indices
<1>13. BlocksFollow'
  <2>1. \A c \in BlockNumbers : blocks'[c].size = blocks[c].size /\ blocks'[c].next = blocks[c].next
    BY <1>6 DEF b, new
  <2>2. \A c \in BlockNumbers : c # next => Filled(blocks'[c]) = Filled(blocks[c]) BY <1>6
  <2>3. \A c \in BlockNumbers : Entering(c)' <=> c = next BY <1>3, <1>4, <1>7 DEF Entering
  <2>4. \A c \in BlockNumbers : ~Entering(c) BY <1>3 DEF Entering
  <2>5. \A c \in BlockNumbers : Live(c)' <=> Live(c)
    BY <1>4, <1>5, <2>2, <2>3, <2>4 DEF Live
  <2>6. \A c \in BlockNumbers : c # next => Behind(c)' = Behind(c)
    BY <1>10, <2>2 DEF Behind
  <2>7. \A c \in BlockNumbers : blocks[c].next \in BlockNumbers BY <1>2, Numbers
  <2>8. ASSUME NEW c \in BlockNumbers, Live(c)
        PROVE  /\ Behind(c)' <= accepted + 1
               /\ c # tailBlock =>
                    /\ blocks[c].next # frontBlock
                    /\ Filled(blocks'[blocks[c].next]) > 0
                    /\ First(blocks[c].next)' = Behind(c)'
                    /\ c # frontBlock => Filled(blocks'[c]) = blocks[c].size - 1
    <3>1. c # next BY <1>5, <2>8
    <3>2. Behind(c) <= accepted + 1 BY <1>2, <2>8 DEF BlocksFollow
    <3>3. c # tailBlock =>
            /\ blocks[c].next # frontBlock
            /\ Filled(blocks[blocks[c].next]) > 0
            /\ First(blocks[c].next) = Behind(c)
            /\ c # frontBlock => Filled(blocks[c]) = blocks[c].size - 1
      BY <1>2, <2>8 DEF BlocksFollow
    <3>4. c # tailBlock => blocks[c].next # next BY <1>5, <3>3 DEF b
    <3> QED BY <1>10, <2>1, <2>2, <2>6, <2>7, <3>1, <3>2, <3>3, <3>4
  <2>9. \A c \in BlockNumbers : c = tailBlock \/ ~Live(c) =>
          blocks[c].next = frontBlock \/ ~Live(blocks[c].next)'
    BY <1>2, <2>1, <2>5, <2>7 DEF BlocksFollow
  <2>10. Behind(tailBlock)' = accepted + 1 BY <1>2, <1>4, <1>5, <2>6, Facts DEF BlocksFollow
  <2>11. tailBlock # frontBlock => Filled(blocks'[tailBlock]) > 0
    BY <1>2, <1>7 DEF BlocksFollow
  <2> QED BY <1>4, <1>6, <2>1, <2>5, <2>7, <2>8, <2>9, <2>10, <2>11 DEF BlocksFollow
<1>14. SlotsHold'
  <2> SUFFICES ASSUME NEW c \in BlockNumbers, NEW slot \in 0..blocks[c].size - 1
               PROVE  (blocks[c].data[slot] =
                         IF Place(blocks[c], slot) < Filled(blocks[c])
                           THEN IF consumer = "release" /\ c = frontBlock /\ slot = blocks[c].front
                                THEN Raw ELSE First(c) + Place(blocks[c], slot)
                           ELSE IF producer = "publish" /\ c = tailBlock /\ slot = blocks[c].tail
                                THEN accepted + 1 ELSE Raw)'
    BY <1>6 DEF SlotsHold, b, new
  <2>1. CASE c # next BY <1>3, <1>4, <1>6, <1>10, <2>1, Held
  <2>2. CASE c = next
    <3>1. /\ Place(b, slot) \in Nat
          /\ Place(b, slot) = 0 <=> slot = b.front
          /\ b.data[slot] = Raw
      BY <1>3, <1>5, <2>2, Held DEF b
    <3>2. First(c)' = accepted + 1 /\ accepted + 1 + 0 = accepted + 1 BY <1>12, <2>2, Facts
    <3>3. Place(new, slot) = Place(b, slot) /\ Filled(new) = 1 BY <1>6, <2>2 DEF b
    <3>4. new.data[slot] = IF slot = b.front THEN accepted + 1 ELSE b.data[slot]
      BY <1>6, <2>2 DEF b
    <3>5. c # frontBlock' /\ producer' # "publish" BY <1>3, <1>4, <1>5, <2>2
    <3>6. Place(b, slot) < 1 <=> slot = b.front BY <3>1
    <3> QED BY <2>2, <3>1, <3>2, <3>3, <3>4, <3>5, <3>6 DEF new
  <2> QED BY <2>1, <2>2
<1>15. ProducerKnows'
  <2>1. blocks'[blocks'[tailBlock'].next] = new BY <1>4, <1>7 DEF new
  <2>2. new.data[new.front] = accepted + 1 BY <1>6, <1>11 DEF Indices
  <2> QED BY <1>2, <1>3, <1>4, <1>5, <1>6, <1>7, <2>1, <2>2 DEF ProducerKnows
<1>16. ConsumerKnows'
  <2>1. blocks'[frontBlock] = blocks[frontBlock] BY <1>5, <1>6, Facts
  <2>2. consumer = "advance" => blocks[frontBlock].next # next
    <3>1. consumer = "advance" => frontBlock # tailBlock BY <1>2 DEF ConsumerKnows
    <3> QED BY <1>7, <3>1, Facts, CircleFacts
  <2>3. consumer = "advance" =>
          blocks'[blocks[frontBlock].next] = blocks[blocks[frontBlock].next]
    BY <1>6, <2>2, Facts
  <2> QED BY <1>2, <1>4, <2>1, <2>3 DEF ConsumerKnows
<1>17. BlockBounds' BY <1>2, <1>4, <1>6 DEF BlockBounds, b, new
<1>18. ValuesInOrder' /\ RefusesOnlyWhenFull' /\ FindsNothingOnlyWhenEmpty'
  BY <1>4, AnswersStay
<1> QED BY <1>8, <1>9, <1>13, <1>14, <1>15, <1>16, <1>17, <1>18 DEF QueueInv

\* make_block fails: the producer is refused.
LEMMA AllocateRefusedKeeps ==
  ASSUME QueueInv, producer = "allocate", producer' = "idle", Answer("producer", "false"),
         UNCHANGED <<blocks, tailBlock, largestBlockSize, mode, accepted, producerRest>>
  PROVE  QueueInv'
<1>1. TypeOK /\ ProducerKnows /\ BlockBounds BY DEF QueueInv
<1>2. UNCHANGED <<blocks, frontBlock, tailBlock, largestBlockSize, mode, accepted, consumer, op,
                  got, removed, sizing, held>>
  BY DEF producerRest, consumerVars, Answer
<1>3. BlocksKept BY <1>2, Facts, NoBlockChanged
<1>4. /\ outcome' \in [Threads -> {"none", "true", "false"}]
      /\ outcome'["consumer"] = outcome["consumer"]
  BY Facts DEF Answer, Threads
<1>5. TypeOK' BY <1>1, <1>2, <1>3, <1>4 DEF TypeOK, BlocksKept
<1>6. OneCircle' /\ SlotsHold' /\ BlocksFollow' /\ BlockBounds'
  BY <1>1, <1>2, <1>3, ContentsStay DEF BlockBounds
<1>7. ProducerKnows' BY <1>2, <1>3, ProducerStays
<1>8. ConsumerKnows' BY <1>2, <1>3, <1>4, ConsumerStays
<1>9. mode = "CanAlloc" BY <1>1 DEF ProducerKnows
<1>10. ValuesInOrder' /\ RefusesOnlyWhenFull' /\ FindsNothingOnlyWhenEmpty'
  BY <1>2, <1>4, <1>9 DEF QueueInv, ValuesInOrder, RefusesOnlyWhenFull, FindsNothingOnlyWhenEmpty
<1> QED BY <1>5, <1>6, <1>7, <1>8, <1>10 DEF QueueInv

\* A list that goes round the circle with a block put in behind the one at d.
LEMMA CircleGrows ==
  ASSUME BlocksOK, frontBlock \in BlockNumbers, OneCircle, NEW d \in BlockNumbers,
         NEW n, n = Len(blocks) + 1,
         BlocksOK', Len(blocks') = n, BlockNumbers' = BlockNumbers \union {n},
         frontBlock' = frontBlock,
         \A c \in BlockNumbers : blocks'[c].next = IF c = d THEN n ELSE blocks[c].next,
         blocks'[n].next = blocks[d].next
  PROVE  OneCircle'
<1>1. PICK N : N = Len(blocks) OBVIOUS
<1>2. PICK ring : ring = [m \in 0..N - 1 |-> BlockAt[m]] OBVIOUS
<1>3. /\ N \in Nat
      /\ \A m \in 0..N - 1 : ring[m] \in BlockNumbers
      /\ \A l, m \in 0..N - 1 : ring[l] = ring[m] => l = m
      /\ \A b \in BlockNumbers : \E m \in 0..N - 1 : ring[m] = b
      /\ \A m \in 0..N - 1 : blocks[ring[m]].next = ring[IF m = N - 1 THEN 0 ELSE m + 1]
      /\ ring[0] = frontBlock
  <2>1. /\ N \in Nat
        /\ \A m \in 0..N - 1 : BlockAt[m] \in BlockNumbers
        /\ \A l, m \in 0..N - 1 : BlockAt[l] = BlockAt[m] => l = m
        /\ \A b \in BlockNumbers : \E m \in 0..N - 1 : BlockAt[m] = b
        /\ \A m \in 0..N - 1 :
             blocks[BlockAt[m]].next = BlockAt[IF m = N - 1 THEN 0 ELSE m + 1]
        /\ BlockAt[0] = frontBlock
    BY <1>1, CircleFacts
  <2>2. N > 0 BY <1>1, <2>1
  <2>3. \A m \in 0..N - 1 : ring[m] = BlockAt[m] BY <1>2
  <2>4. \A m \in 0..N - 1 : (IF m = N - 1 THEN 0 ELSE m + 1) \in 0..N - 1 BY <2>1, <2>2
  <2>5. \A m \in 0..N - 1 : blocks[ring[m]].next = ring[IF m = N - 1 THEN 0 ELSE m + 1]
    BY <2>1, <2>3, <2>4
  <2>6. ring[0] = frontBlock BY <2>1, <2>2, <2>3
  <2>7. \A b \in BlockNumbers : \E m \in 0..N - 1 : ring[m] = b BY <2>1, <2>3
  <2>8. \A l, m \in 0..N - 1 : ring[l] = ring[m] => l = m BY <2>1, <2>3
  <2> QED BY <2>1, <2>3, <2>5, <2>6, <2>7, <2>8
<1>4. BlockNumbers = 1..N BY <1>1 DEF BlockNumbers
<1>5. PICK e \in 0..N - 1 : ring[e] = d BY <1>3
<1> DEFINE f == [m \in 0..N |-> IF m <= e THEN ring[m] ELSE IF m = e + 1 THEN n ELSE ring[m - 1]]
<1>6. Len(blocks') = N + 1 /\ n = N + 1 BY <1>1
<1>7. f \in [0..N -> BlockNumbers'] BY <1>3, <1>5
<1>8. f[0] = frontBlock' BY <1>3, <1>5
<1>9. n \notin BlockNumbers BY <1>3, <1>4, <1>6
<1>10. \A l, m \in 0..N : f[l] = f[m] => l = m
  <2> TAKE l, m \in 0..N
  <2>1. f[l] = (IF l <= e THEN ring[l] ELSE IF l = e + 1 THEN n ELSE ring[l - 1]) OBVIOUS
  <2>2. f[m] = (IF m <= e THEN ring[m] ELSE IF m = e + 1 THEN n ELSE ring[m - 1]) OBVIOUS
  <2> HIDE DEF f
  <2> QED BY <1>3, <1>5, <1>9, <2>1, <2>2
<1>11. \A b \in BlockNumbers' : \E m \in 0..N : f[m] = b
  <2> TAKE b \in BlockNumbers'
  <2>1. CASE b = n
    <3>1. e + 1 \in 0..N /\ f[e + 1] = n BY <1>3, <1>5
    <3> QED BY <2>1, <3>1
  <2>2. CASE b \in BlockNumbers
    <3>1. PICK m \in 0..N - 1 : ring[m] = b BY <1>3, <2>2
    <3>2. CASE m <= e
      <4>1. m \in 0..N /\ f[m] = b BY <1>3, <3>1, <3>2
      <4> QED BY <4>1
    <3>3. CASE m > e
      <4>1. m + 1 \in 0..N /\ f[m + 1] = b BY <1>3, <1>5, <3>1, <3>3
      <4> QED BY <4>1
    <3> QED BY <1>3, <1>5, <3>2, <3>3
  <2> QED BY <2>1, <2>2
<1>12. \A m \in 0..N : blocks'[f[m]].next = f[IF m = N THEN 0 ELSE m + 1]
  <2> TAKE m \in 0..N
  <2>1. CASE m < e
    <3>1. m \in 0..N - 1 /\ m # N - 1 /\ m + 1 \in 0..N - 1 BY <1>3, <1>5, <2>1
    <3>2. f[m] = ring[m] /\ f[m + 1] = ring[m + 1] BY <1>3, <1>5, <2>1
    <3>3. ring[m] # d /\ ring[m] \in BlockNumbers BY <1>3, <1>5, <2>1, <3>1
    <3> HIDE DEF f
    <3> QED BY <1>3, <3>1, <3>2, <3>3, SMTT(30)
  <2>2. CASE m = e
    <3>1. f[m] = d /\ f[m + 1] = n /\ m # N BY <1>3, <1>5, <2>2
    <3> HIDE DEF f
    <3> QED BY <3>1
  <2>3. CASE m = e + 1
    <3>1. f[m] = n BY <2>3
    <3>2. f[IF m = N THEN 0 ELSE m + 1] = ring[IF e = N - 1 THEN 0 ELSE e + 1]
      BY <1>3, <1>5, <2>3
    <3>3. blocks[d].next = ring[IF e = N - 1 THEN 0 ELSE e + 1] BY <1>3, <1>5
    <3> HIDE DEF f
    <3> QED BY <3>1, <3>2, <3>3
  <2>4. CASE m > e + 1
    <3>1. m - 1 \in 0..N - 1 /\ m - 1 # e BY <1>3, <1>5, <2>4
    <3>2. f[m] = ring[m - 1] BY <1>3, <1>5, <2>4
    <3>3. f[IF m = N THEN 0 ELSE m + 1] = ring[IF m - 1 = N - 1 THEN 0 ELSE m]
      BY <1>3, <1>5, <2>4
    <3>4. ring[m - 1] # d /\ ring[m - 1] \in BlockNumbers BY <1>3, <1>5, <3>1
    <3>5. blocks[ring[m - 1]].next = ring[IF m - 1 = N - 1 THEN 0 ELSE m] BY <1>3, <3>1
    <3> HIDE DEF f
    <3> QED BY <3>2, <3>3, <3>4, <3>5
  <2> QED BY <1>3, <1>5, <2>1, <2>2, <2>3, <2>4
<1> HIDE DEF f
<1>13. Circle(f)'
  <2>1. Len(blocks') - 1 = N BY <1>3, <1>6
  <2> QED BY <1>7, <1>8, <1>10, <1>11, <1>12, <2>1 DEF Circle
<1>14. Circled' BY <1>13 DEF Circled
<1>15. Circled' => OneCircle' BY CircleSuffices, PTL
<1> QED BY <1>14, <1>15

\* The size of a new block.
LEMMA GrownSize ==
  ASSUME QueueInv, NEW s, s = IF largestBlockSize >= MaxBlockSize THEN largestBlockSize
                                                              ELSE largestBlockSize * 2
  PROVE  s \in Sizes /\ s >= largestBlockSize /\ s <= 2 * MaxBlockSize /\ largestBlockSize \in Nat
<1>1. largestBlockSize \in Sizes /\ largestBlockSize \in Nat BY SizesAre DEF QueueInv, TypeOK
<1>2. largestBlockSize <= 2 * MaxBlockSize
  BY <1>1, Reserved, SizesAre DEF QueueInv, BlockBounds
<1>3. MaxBlockSize \in Nat BY Reserved, SizesAre
<1>4. CASE largestBlockSize >= MaxBlockSize BY <1>1, <1>2, <1>4
<1>5. CASE largestBlockSize < MaxBlockSize
  <2>1. 2 * largestBlockSize \in Sizes /\ 2 * largestBlockSize <= 2 * MaxBlockSize
    BY <1>1, <1>5, Doubled
  <2>2. s = 2 * largestBlockSize BY <1>1, <1>3, <1>5
  <2> QED BY <1>1, <2>1, <2>2
<1> QED BY <1>1, <1>3, <1>4, <1>5

\* The producer links a new block behind its own.
LEMMA AllocateBlockKeeps ==
  ASSUME QueueInv, AllocateBlock
  PROVE  QueueInv'
<1>1. TypeOK /\ OneCircle /\ BlocksFollow /\ ProducerKnows /\ ConsumerKnows /\ BlockBounds
  BY DEF QueueInv
<1>2. producer = "allocate" BY DEF AllocateBlock
<1>3. CASE producer' = "idle" /\ Answer("producer", "false") /\ UNCHANGED <<blocks, largestBlockSize>>
  BY <1>2, <1>3, AllocateRefusedKeeps DEF AllocateBlock
<1>4. ASSUME NEW s, NEW n, n = Len(blocks) + 1, Len(blocks) < MaxBlocks,
             s = IF largestBlockSize >= MaxBlockSize THEN largestBlockSize
                                                     ELSE largestBlockSize * 2,
             largestBlockSize' = s,
             blocks' = Append([blocks EXCEPT ![tailBlock].next = Len(blocks) + 1],
                              [NewBlock(s) EXCEPT !.tail = 1, !.localTail = 1,
                                                  !.data[0] = accepted + 1,
                                                  !.next = NewBlockNext]),
             producer' = "advance", Continue
      PROVE  QueueInv'
  <2> DEFINE b == blocks[tailBlock]
             old == blocks'[tailBlock]
             new == blocks'[n]
  <2>1. UNCHANGED <<frontBlock, tailBlock, mode, accepted, consumer, op, got, removed, sizing,
                    held, outcome>>
    BY <1>4 DEF AllocateBlock, producerRest, consumerVars, Continue
  <2>2. s \in Sizes /\ s >= largestBlockSize /\ s <= 2 * MaxBlockSize /\ largestBlockSize \in Nat
    BY <1>4, GrownSize
  <2>3. /\ accepted < MaxItems /\ mode = "CanAlloc"
        /\ tailBlock # frontBlock => Filled(b) = b.size - 1
        /\ Filled(b) <= FilledAtMost(b)
        /\ held["producer"] >= b.size - 1 /\ held["producer"] >= accepted - removed
    BY <1>1, <1>2 DEF ProducerKnows
  <2>4. accepted + 1 \in Items BY <2>3, Facts DEF Items
  <2>5. /\ BlocksOK' /\ Len(blocks') = n /\ BlockNumbers' = BlockNumbers \union {n}
        /\ n \notin BlockNumbers
        /\ \A c \in BlockNumbers : c # tailBlock => blocks'[c] = blocks[c]
        /\ /\ old.size = b.size /\ old.front = b.front /\ old.tail = b.tail /\ old.data = b.data
           /\ old.localFront = b.localFront /\ old.localTail = b.localTail
           /\ old.next = n
           /\ Filled(old) = Filled(b)
           /\ \A slot : Place(old, slot) = Place(b, slot)
        /\ new.size = s /\ new.front = 0 /\ new.localFront = 0
        /\ new.next = b.next /\ Filled(new) = 1
        /\ \A slot \in 0..s - 1 :
             Place(new, slot) = slot /\ new.data[slot] = IF slot = 0 THEN accepted + 1 ELSE Raw
    <3>1. n = Len(blocks) + 1 BY <1>4
    <3>2. blocks' = Linked(tailBlock, s, accepted + 1) BY <1>4 DEF Linked, NewBlockNext
    <3> QED BY <2>2, <2>4, <3>1, <3>2, Facts, BlockLinked
  <2> HIDE DEF b, old, new
  <2>6. \A c \in BlockNumbers : /\ c # n /\ c \in BlockNumbers'
                                /\ blocks[c].next \in BlockNumbers
    BY <1>1, <2>5, Numbers
  <2>7. frontBlock # n /\ tailBlock # n BY <2>5, Facts
  <2>8. \A c \in BlockNumbers :
          /\ blocks'[c].next = IF c = tailBlock THEN n ELSE blocks[c].next
          /\ blocks'[c].size = blocks[c].size /\ blocks'[c].front = blocks[c].front
          /\ blocks'[c].tail = blocks[c].tail /\ blocks'[c].data = blocks[c].data
          /\ blocks'[c].localFront = blocks[c].localFront
          /\ blocks'[c].localTail = blocks[c].localTail
          /\ Filled(blocks'[c]) = Filled(blocks[c])
          /\ \A slot : Place(blocks'[c], slot) = Place(blocks[c], slot)
    BY <2>5 DEF b, old
  <2>9. TypeOK'
    <3>1. sizing' \in [Threads -> [first : BlockNumbers', at : BlockNumbers', sum : Nat]]
      BY <1>1, <2>1, <2>5 DEF TypeOK
    <3>2. largestBlockSize' \in Sizes BY <1>4, <2>2
    <3> QED BY <1>1, <1>4, <2>1, <2>5, <3>1, <3>2 DEF TypeOK
  <2>10. OneCircle'
    <3>1. \A c \in BlockNumbers :
            blocks'[c].next = IF c = tailBlock THEN n ELSE blocks[c].next
      BY <2>8
    <3>2. blocks'[n].next = blocks[tailBlock].next BY <2>5 DEF b, new
    <3>3. /\ BlocksOK' /\ Len(blocks') = n /\ BlockNumbers' = BlockNumbers \union {n}
          /\ frontBlock' = frontBlock
      BY <2>1, <2>5
    <3>4. n = Len(blocks) + 1 BY <1>4
    <3>5. BlocksOK /\ OneCircle /\ frontBlock \in BlockNumbers /\ tailBlock \in BlockNumbers
      BY Facts
    <3> QED BY <3>1, <3>2, <3>3, <3>4, <3>5, CircleGrows
  <2>11. /\ \A c \in BlockNumbers : First(c)' = First(c)
         /\ First(n)' = accepted + 1
    <3>1. \A c \in BlockNumbers : First(c)' = First(c) BY <2>1, <2>8 DEF First
    <3>2. 0 \in 0..s - 1 BY <2>2, SizesAre
    <3> QED BY <2>1, <2>5, <2>7, <3>1, <3>2 DEF First, new
  <2>12. BlocksFollow'
    <3>1. \A c \in BlockNumbers : ~Entering(c) BY <1>2 DEF Entering
    <3>2. \A c \in BlockNumbers' : Entering(c)' <=> c = n
      BY <1>4, <2>1, <2>5 DEF Entering, old
    <3>3. \A c \in BlockNumbers : Live(c)' <=> Live(c)
      BY <2>1, <2>6, <2>8, <3>1, <3>2 DEF Live
    <3>4. ~Live(n)' BY <2>1, <2>5, <2>7, <3>2 DEF Live
    <3>5. \A c \in BlockNumbers : Behind(c)' = Behind(c) BY <2>8, <2>11 DEF Behind
    <3>6. ASSUME NEW c \in BlockNumbers, Live(c)
          PROVE  /\ Behind(c)' <= accepted + 1
                 /\ c # tailBlock =>
                      /\ blocks'[c].next # frontBlock
                      /\ Filled(blocks'[blocks'[c].next]) > 0
                      /\ First(blocks[c].next)' = Behind(c)'
                      /\ c # frontBlock => Filled(blocks'[c]) = blocks'[c].size - 1
      <4>1. Behind(c) <= accepted + 1 BY <1>1, <3>6 DEF BlocksFollow
      <4>2. c # tailBlock =>
              /\ blocks[c].next # frontBlock
              /\ Filled(blocks[blocks[c].next]) > 0
              /\ First(blocks[c].next) = Behind(c)
              /\ c # frontBlock => Filled(blocks[c]) = blocks[c].size - 1
        BY <1>1, <3>6 DEF BlocksFollow
      <4> QED BY <2>6, <2>8, <2>11, <3>5, <4>1, <4>2
    <3>7. ASSUME NEW c \in BlockNumbers', c = tailBlock \/ ~Live(c)'
          PROVE  blocks'[c].next = frontBlock \/ ~Live(blocks[c].next)'
      <4>1. CASE c = n
        <5>1. blocks'[c].next = blocks[tailBlock].next BY <2>5, <4>1 DEF new, b
        <5>2. blocks[tailBlock].next = frontBlock \/ ~Live(blocks[tailBlock].next)
          BY <1>1, Facts DEF BlocksFollow
        <5>3. PICK x \in BlockNumbers : x = blocks[tailBlock].next BY Facts
        <5>4. x = frontBlock \/ ~Live(x)' BY <3>3, <5>2, <5>3
        <5> QED BY <5>1, <5>3, <5>4
      <4>2. CASE c = tailBlock BY <2>1, <2>5, <3>4, <4>2 DEF old
      <4>3. CASE c # tailBlock /\ c # n
        <5>1. c \in BlockNumbers /\ blocks'[c].next = blocks[c].next BY <2>5, <2>8, <4>3
        <5>2. blocks[c].next = frontBlock \/ ~Live(blocks[c].next)
          BY <1>1, <3>3, <3>7, <4>3, <5>1 DEF BlocksFollow
        <5>3. PICK x \in BlockNumbers : x = blocks[c].next BY <2>6, <5>1
        <5>4. x = frontBlock \/ ~Live(x)' BY <3>3, <5>2, <5>3
        <5> QED BY <5>1, <5>3, <5>4
      <4> QED BY <4>1, <4>2, <4>3
    <3>8. \A c \in BlockNumbers : c = tailBlock => Behind(c)' = accepted + 1
      BY <1>1, <3>5 DEF BlocksFollow
    <3>9. tailBlock # frontBlock => Filled(blocks'[tailBlock]) > 0
      BY <1>1, <2>8, Facts DEF BlocksFollow
    <3>10. \A c \in BlockNumbers' : Live(c)' => c \in BlockNumbers /\ Live(c)
      BY <2>5, <3>3, <3>4
    <3> QED BY <2>1, <2>5, <3>6, <3>7, <3>8, <3>9, <3>10, Facts DEF BlocksFollow
  <2>13. SlotsHold'
    <3> SUFFICES ASSUME NEW c \in BlockNumbers', NEW slot \in 0..blocks'[c].size - 1
                 PROVE  (blocks[c].data[slot] =
                           IF Place(blocks[c], slot) < Filled(blocks[c])
                             THEN IF consumer = "release" /\ c = frontBlock
                                                          /\ slot = blocks[c].front
                                  THEN Raw ELSE First(c) + Place(blocks[c], slot)
                             ELSE IF producer = "publish" /\ c = tailBlock
                                                          /\ slot = blocks[c].tail
                                  THEN accepted + 1 ELSE Raw)'
      BY DEF SlotsHold
    <3>1. CASE c = n
      <4>1. new.data[slot] = (IF slot = 0 THEN accepted + 1 ELSE Raw) /\ Place(new, slot) = slot
            /\ Filled(new) = 1 /\ slot \in Nat
        BY <2>2, <2>5, <3>1, SizesAre DEF new
      <4>2. slot < 1 <=> slot = 0 BY <4>1
      <4>3. First(c)' = accepted + 1 /\ accepted + 1 + 0 = accepted + 1 BY <2>11, <3>1, Facts
      <4> QED BY <1>4, <2>1, <2>7, <3>1, <4>1, <4>2, <4>3 DEF new
    <3>2. CASE c \in BlockNumbers
      <4>1. slot \in 0..blocks[c].size - 1 BY <2>8, <3>2
      <4>2. blocks[c].data[slot] =
              IF Place(blocks[c], slot) < Filled(blocks[c])
                THEN IF consumer = "release" /\ c = frontBlock /\ slot = blocks[c].front
                     THEN Raw ELSE First(c) + Place(blocks[c], slot)
                ELSE IF producer = "publish" /\ c = tailBlock /\ slot = blocks[c].tail
                     THEN accepted + 1 ELSE Raw
        BY <3>2, <4>1, Held
      <4> QED BY <1>2, <1>4, <2>1, <2>8, <2>11, <3>2, <4>2, ZenonT(60)
    <3> QED BY <2>5, <3>1, <3>2
  <2>14. ProducerKnows'
    <3>1. FilledAtMost(old) = FilledAtMost(b) BY <2>5 DEF FilledAtMost
    <3>2. 0 \in 0..s - 1 BY <2>2, SizesAre
    <3>3. blocks'[tailBlock'] = old /\ old.next = n BY <2>1, <2>5 DEF old
    <3>4. new.data[new.front] = accepted + 1 BY <2>5, <3>2
    <3>5. tailBlock # frontBlock => Filled(old) = old.size - 1 BY <2>3, <2>5
    <3>6. Filled(old) <= FilledAtMost(old) /\ held["producer"] >= old.size - 1 BY <2>3, <2>5, <3>1
    <3>7. n \notin {frontBlock, tailBlock} BY <2>7
    <3>8. blocks'[n] = new BY DEF new
    <3> QED BY <1>4, <2>1, <2>3, <2>5, <3>3, <3>4, <3>5, <3>6, <3>7, <3>8 DEF ProducerKnows
  <2>15. ConsumerKnows'
    <3>1. \A c \in BlockNumbers : FilledAtLeast(blocks'[c]) = FilledAtLeast(blocks[c])
      BY <2>8 DEF FilledAtLeast
    <3>2. consumer = "advance" => blocks'[frontBlock].next = blocks[frontBlock].next
      BY <1>1, <2>8, Facts DEF ConsumerKnows
    <3> QED BY <1>1, <2>1, <2>8, <3>1, <3>2, Facts DEF ConsumerKnows
  <2>16. BlockBounds'
    <3>1. /\ Len(blocks) \in InitialBlockCount..MaxBlocks
          /\ largestBlockSize \in InitialBlockSize..2 * MaxBlockSize
          /\ \A c \in BlockNumbers : blocks[c].size \in InitialBlockSize..largestBlockSize
          /\ "CanAlloc" \in Modes
      BY <1>1, <2>3 DEF BlockBounds
    <3>2. InitialBlockSize \in Nat /\ MaxBlockSize \in Nat /\ s \in Nat /\ InitialBlockCount \in Nat
          /\ MaxBlocks \in Nat
      BY <2>2, Reserved, SizesAre, QueueAssumption
    <3>3. n \in InitialBlockCount..MaxBlocks BY <1>4, <3>1, <3>2
    <3>4. s \in InitialBlockSize..2 * MaxBlockSize BY <2>2, <3>1, <3>2
    <3>5. \A c \in BlockNumbers' : blocks'[c].size \in InitialBlockSize..s
      <4>1. \A c \in BlockNumbers : blocks'[c].size \in InitialBlockSize..s
        BY <2>2, <2>8, <3>1, <3>2
      <4>2. blocks'[n].size \in InitialBlockSize..s BY <2>2, <2>5, <3>1, <3>2 DEF new
      <4> QED BY <2>5, <4>1, <4>2
    <3> QED BY <1>4, <2>1, <2>5, <3>1, <3>3, <3>4, <3>5 DEF BlockBounds
  <2>17. ValuesInOrder' /\ RefusesOnlyWhenFull' /\ FindsNothingOnlyWhenEmpty'
    BY <2>1, AnswersStay
  <2> QED BY <2>9, <2>10, <2>12, <2>13, <2>14, <2>15, <2>16, <2>17 DEF QueueInv
<1> QED BY <1>3, <1>4 DEF AllocateBlock

\* The block the producer is about to move into, and the one it is in.
LEMMA NextEntered ==
  ASSUME QueueInv, producer = "advance", NEW next, next = blocks[tailBlock].next
  PROVE  /\ next \in BlockNumbers /\ tailBlock \in BlockNumbers
         /\ next # frontBlock /\ next # tailBlock /\ Filled(blocks[next]) = 1
         /\ blocks[next].data[blocks[next].front] = accepted + 1
         /\ blocks[next].localFront = blocks[next].front
         /\ tailBlock # frontBlock => Filled(blocks[tailBlock]) = blocks[tailBlock].size - 1
         /\ accepted < MaxItems
BY Facts DEF QueueInv, ProducerKnows

\* It comes into use as the producer moves.
LEMMA TailAdvanced ==
  ASSUME QueueInv, AdvanceTailBlock, NEW next, next = blocks[tailBlock].next
  PROVE  /\ next \in BlockNumbers
         /\ \A c \in BlockNumbers : First(c)' = First(c) /\ Behind(c)' = Behind(c)
         /\ First(next) = accepted + 1 /\ Behind(next) = accepted + 2
         /\ \A c \in BlockNumbers : Live(c)' <=> Live(c) \/ c = next
         /\ ~Live(next)
<1>1. PICK last : last = tailBlock OBVIOUS
<1>2. /\ producer = "advance" /\ producer' = "idle" /\ accepted' = accepted + 1
      /\ tailBlock' = next /\ UNCHANGED <<blocks, frontBlock, removed>>
  BY DEF AdvanceTailBlock, producerRest, consumerVars
<1>3. /\ next \in BlockNumbers /\ last \in BlockNumbers
      /\ next # frontBlock /\ next # last /\ Filled(blocks[next]) = 1
      /\ blocks[next].data[blocks[next].front] = accepted + 1
      /\ last # frontBlock => Filled(blocks[last]) = blocks[last].size - 1
  BY <1>1, <1>2, NextEntered
<1>4. \A c \in BlockNumbers : First(c)' = First(c) /\ Behind(c)' = Behind(c)
  BY <1>2 DEF First, Behind
<1>5. First(next) = accepted + 1 /\ Behind(next) = accepted + 2
  <2>1. First(next) = accepted + 1 BY <1>3 DEF First
  <2> QED BY <1>3, <2>1, Facts DEF Behind
<1>6. \A c \in BlockNumbers : Live(c)' <=> Live(c) \/ c = next
  <2>1. \A c \in BlockNumbers : Entering(c) <=> c = next BY <1>2 DEF Entering
  <2>2. \A c \in BlockNumbers : ~Entering(c)' BY <1>2 DEF Entering
  <2>3. last # frontBlock => Filled(blocks[last]) > 0
    <3>1. blocks[last].size \in Nat /\ blocks[last].size >= 2 BY <1>3, Numbers DEF QueueInv
    <3> QED BY <1>3, <3>1
  <2> QED BY <1>1, <1>2, <1>3, <2>1, <2>2, <2>3 DEF Live
<1>7. ~Live(next) BY <1>1, <1>2, <1>3 DEF Live, Entering
<1> QED BY <1>3, <1>4, <1>5, <1>6, <1>7

\* The producer moves into the next block.
LEMMA AdvanceTailBlockKeeps ==
  ASSUME QueueInv, AdvanceTailBlock
  PROVE  QueueInv'
<1>1. PICK next : next = blocks[tailBlock].next OBVIOUS
<1>2. PICK last : last = tailBlock OBVIOUS
<1>3. TypeOK /\ OneCircle /\ BlocksFollow /\ ProducerKnows /\ ConsumerKnows /\ BlockBounds
  BY DEF QueueInv
<1>4. /\ producer = "advance" /\ producer' = "idle" /\ accepted' = accepted + 1
      /\ tailBlock' = next
  BY <1>1 DEF AdvanceTailBlock
<1>5. UNCHANGED <<blocks, frontBlock, largestBlockSize, mode, consumer, op, got, removed,
                  sizing, held>>
  BY DEF AdvanceTailBlock, producerRest, consumerVars, Answer
<1>6. BlocksKept BY <1>5, Facts, NoBlockChanged
<1>7. /\ outcome' \in [Threads -> {"none", "true", "false"}]
      /\ outcome'["producer"] = "true" /\ outcome'["consumer"] = outcome["consumer"]
  BY Facts DEF AdvanceTailBlock, Answer, Threads
<1>8. /\ next \in BlockNumbers /\ last \in BlockNumbers
      /\ next # frontBlock /\ next # last /\ Filled(blocks[next]) = 1
      /\ blocks[next].data[blocks[next].front] = accepted + 1
      /\ blocks[next].localFront = blocks[next].front
      /\ last # frontBlock => Filled(blocks[last]) = blocks[last].size - 1
      /\ accepted < MaxItems
  BY <1>1, <1>2, <1>4, NextEntered
<1>9. \A c \in BlockNumbers : blocks[c].next = next => c = last BY <1>1, <1>2, Facts, CircleFacts
<1>10. TypeOK'
  <2>1. accepted' \in 0..MaxItems /\ removed' \in 0..accepted' BY <1>4, <1>5, <1>8, Facts
  <2>2. next \in BlockNumbers' BY <1>6, <1>8 DEF BlocksKept
  <2> QED BY <1>3, <1>4, <1>5, <1>6, <1>7, <2>1, <2>2 DEF TypeOK, BlocksKept
<1>11. CircleKept BY <1>5, <1>6 DEF CircleKept, BlocksKept, BlockKept
<1>12. OneCircle' BY <1>6, <1>11, Facts, CircleStays DEF BlocksKept
<1>13. \A c \in BlockNumbers : First(c)' = First(c) /\ Behind(c)' = Behind(c)
  BY <1>1, TailAdvanced
<1>14. First(next) = accepted + 1 /\ Behind(next) = accepted + 2 BY <1>1, TailAdvanced
<1>15. \A c \in BlockNumbers : Live(c)' <=> Live(c) \/ c = next BY <1>1, TailAdvanced
<1>16. ~Live(next) BY <1>1, TailAdvanced
<1>17. BlocksFollow'
  <2>1. ASSUME NEW c \in BlockNumbers, Live(c) \/ c = next
        PROVE  /\ Behind(c) <= accepted + 2
               /\ c # next =>
                    /\ blocks[c].next # frontBlock
                    /\ Filled(blocks[blocks[c].next]) > 0
                    /\ First(blocks[c].next) = Behind(c)
                    /\ c # frontBlock => Filled(blocks[c]) = blocks[c].size - 1
    <3>1. CASE c = next BY <1>14, <3>1, Facts
    <3>2. CASE c = last
      <4>1. Behind(c) = accepted + 1 BY <1>2, <1>3, <3>2 DEF BlocksFollow
      <4> QED BY <1>1, <1>2, <1>8, <1>14, <3>2, <4>1, Facts
    <3>3. CASE c # next /\ c # last
      <4>1. Behind(c) <= accepted + 1 /\ Behind(c) \in Nat
        BY <1>3, <2>1, <3>3, Numbers DEF BlocksFollow
      <4>2. /\ blocks[c].next # frontBlock
            /\ Filled(blocks[blocks[c].next]) > 0
            /\ First(blocks[c].next) = Behind(c)
            /\ c # frontBlock => Filled(blocks[c]) = blocks[c].size - 1
        BY <1>2, <1>3, <2>1, <3>3 DEF BlocksFollow
      <4> QED BY <4>1, <4>2, Facts
    <3> QED BY <3>1, <3>2, <3>3
  <2>2. ASSUME NEW c \in BlockNumbers, c = next \/ ~(Live(c) \/ c = next)
        PROVE  blocks[c].next = frontBlock
                 \/ (~Live(blocks[c].next) /\ blocks[c].next # next)
    <3>1. ~Live(c) BY <1>16, <2>2
    <3>2. blocks[c].next = frontBlock \/ ~Live(blocks[c].next) BY <1>3, <3>1 DEF BlocksFollow
    <3>3. c # last BY <1>2, <1>8, <2>2 DEF Live
    <3> QED BY <1>9, <3>2, <3>3
  <2>3. \A c \in BlockNumbers : blocks[c].next \in BlockNumbers BY <1>3, Numbers
  <2>4. accepted' + 1 = accepted + 2 BY <1>4, Facts
  <2>5. BlockNumbers' = BlockNumbers BY <1>6 DEF BlocksKept
  <2>6. /\ \A c \in BlockNumbers' : Live(c)' =>
             /\ Behind(c)' <= accepted' + 1
             /\ c # tailBlock' =>
                  /\ blocks'[c].next # frontBlock'
                  /\ Filled(blocks'[blocks'[c].next]) > 0
                  /\ First(blocks[c].next)' = Behind(c)'
                  /\ c # frontBlock' => Filled(blocks'[c]) = blocks'[c].size - 1
    BY <1>4, <1>5, <1>13, <1>15, <2>1, <2>3, <2>4, <2>5
  <2>7. \A c \in BlockNumbers' : c = tailBlock' \/ ~Live(c)' =>
             blocks'[c].next = frontBlock' \/ ~Live(blocks[c].next)'
    BY <1>4, <1>5, <1>15, <2>2, <2>3, <2>5
  <2>8. Behind(tailBlock)' = accepted' + 1 BY <1>4, <1>8, <1>13, <1>14, <2>4
  <2>9. Filled(blocks'[tailBlock']) > 0 BY <1>4, <1>5, <1>8
  <2> QED BY <2>6, <2>7, <2>8, <2>9 DEF BlocksFollow
<1>18. SlotsHold'
  <2> SUFFICES ASSUME NEW c \in BlockNumbers, NEW slot \in 0..blocks[c].size - 1
               PROVE  (blocks[c].data[slot] =
                         IF Place(blocks[c], slot) < Filled(blocks[c])
                           THEN IF consumer = "release" /\ c = frontBlock /\ slot = blocks[c].front
                                THEN Raw ELSE First(c) + Place(blocks[c], slot)
                           ELSE IF producer = "publish" /\ c = tailBlock /\ slot = blocks[c].tail
                                THEN accepted + 1 ELSE Raw)'
    BY <1>5, <1>6 DEF SlotsHold, BlocksKept
  <2> QED BY <1>4, <1>5, <1>13, Held
<1>19. ProducerKnows'
  <2>1. FilledAtMost(blocks[next]) = Filled(blocks[next])
    BY <1>8 DEF FilledAtMost, Filled
  <2> QED BY <1>4, <1>5, <1>8, <2>1 DEF ProducerKnows
<1>20. ConsumerKnows'
  <2>1. held["consumer"] \in Nat BY Facts DEF Threads
  <2> QED BY <1>3, <1>4, <1>5, <1>7, <1>8, <2>1, Facts DEF ConsumerKnows
<1>21. BlockBounds' BY <1>3, <1>5, <1>6 DEF BlockBounds, BlocksKept
<1>22. ValuesInOrder' /\ RefusesOnlyWhenFull' /\ FindsNothingOnlyWhenEmpty'
  BY <1>5, <1>7 DEF QueueInv, ValuesInOrder, RefusesOnlyWhenFull, FindsNothingOnlyWhenEmpty
<1> QED BY <1>10, <1>12, <1>17, <1>18, <1>19, <1>20, <1>21, <1>22 DEF QueueInv

(***************************************************************************)
(* The consumer's steps that leave alone what the queue holds.             *)
(***************************************************************************)
\* A look at the front index of the first block, to dequeue or to peek.
LEMMA DequeueKeeps ==
  ASSUME QueueInv, NEW o \in {"try_dequeue", "pop", "peek"}, Dequeue(o)
  PROVE  QueueInv'
<1> DEFINE b == blocks[frontBlock]
<1>1. TypeOK /\ BlockBounds /\ ConsumerKnows BY DEF QueueInv
<1>2. BlocksKept BY Facts, NoBlockChanged DEF Dequeue
<1>3. consumer = "idle" /\ consumer' \in {"take", "refresh"} /\ op' = o BY DEF Dequeue
<1>4. UNCHANGED <<blocks, frontBlock, tailBlock, largestBlockSize, producer, mode, accepted,
                  got, removed, sizing>>
  BY DEF Dequeue, consumerRest, producerVars
<1>5. accepted - removed \in 0..MaxItems BY Facts
<1>6. /\ held' \in [Threads -> 0..MaxItems] /\ held'["consumer"] = accepted - removed
      /\ held'["producer"] = held["producer"]
      /\ outcome' \in [Threads -> {"none", "true", "false"}]
      /\ outcome'["consumer"] = "none" /\ outcome'["producer"] = outcome["producer"]
  BY <1>5, Facts DEF Dequeue, Begin, Threads
<1>7. TypeOK' BY <1>1, <1>2, <1>3, <1>4, <1>6 DEF TypeOK, BlocksKept
<1>8. OneCircle' /\ SlotsHold' /\ BlocksFollow' /\ BlockBounds'
  BY <1>1, <1>2, <1>3, <1>4, ContentsStay DEF BlockBounds
<1>9. ProducerKnows' BY <1>2, <1>4, <1>6, ProducerStays
<1>10. ConsumerKnows'
  <2>1. consumer' = IF FilledAtLeast(b) > 0 THEN "take" ELSE "refresh"
    BY Facts, Tests DEF Dequeue
  <2> QED BY <1>1, <1>3, <1>4, <1>5, <1>6, <2>1 DEF ConsumerKnows
<1>11. ValuesInOrder' /\ RefusesOnlyWhenFull' /\ FindsNothingOnlyWhenEmpty'
  BY <1>3, <1>4, <1>6, AnswersStay
<1> QED BY <1>7, <1>8, <1>9, <1>10, <1>11 DEF QueueInv

\* The consumer looks at the tail again.
LEMMA ReadTailKeeps ==
  ASSUME QueueInv, NEW otherwise \in {"tailBlock", "nextBlock"},
         IF otherwise = "tailBlock" THEN consumer = "refresh" ELSE consumer = "recheck",
         ReadTail(otherwise), Continue, UNCHANGED <<frontBlock, op, got, removed, consumerRest>>
  PROVE  QueueInv'
<1> DEFINE b == blocks[frontBlock]
           new == blocks'[frontBlock]
<1>1. TypeOK /\ BlockBounds /\ ConsumerKnows /\ BlocksFollow BY DEF QueueInv
<1>2. b.tail \in 0..b.size - 1 BY Facts DEF Indices
<1>3. blocks' = [blocks EXCEPT ![frontBlock].localTail = b.tail] BY DEF ReadTail
<1>4. BlocksKept /\ \A c \in BlockNumbers : c # frontBlock => blocks'[c] = blocks[c]
  BY <1>2, <1>3, Facts, CopyKeeps
<1>5. new.localTail = b.tail /\ new.localFront = b.localFront
  BY <1>2, <1>3, Facts, CopyAssigned
<1>6. consumer' = (IF Filled(b) > 0 THEN "take" ELSE otherwise) BY Facts, Tests DEF ReadTail
<1>7. UNCHANGED <<frontBlock, tailBlock, largestBlockSize, producer, mode, accepted, op, got,
                  removed, sizing, held, outcome>>
  BY DEF consumerRest, producerVars, Continue
<1>8. TypeOK' BY <1>1, <1>4, <1>6, <1>7 DEF TypeOK, BlocksKept
<1>9. OneCircle' /\ SlotsHold' /\ BlocksFollow' /\ BlockBounds'
  BY <1>1, <1>4, <1>6, <1>7, ContentsStay DEF BlockBounds
<1>10. ProducerKnows'
  <2>1. \A c \in BlockNumbers : blocks'[c].localFront = blocks[c].localFront BY <1>4, <1>5
  <2> QED BY <1>4, <1>7, <2>1, ProducerStays
<1>11. ConsumerKnows'
  <2>1. /\ new.size = b.size /\ new.front = b.front /\ new.next = b.next
        /\ Filled(new) = Filled(b) /\ Filled(b) \in Nat
    BY <1>1, <1>4, Facts, Numbers DEF BlocksKept, BlockKept
  <2>2. FilledAtLeast(new) = Filled(b) BY <1>5, <2>1 DEF FilledAtLeast, Filled
  <2>3. held["consumer"] <= accepted - removed /\ outcome["consumer"] = "none"
    BY <1>1 DEF ConsumerKnows
  <2>4. otherwise = "nextBlock" => frontBlock # tailBlock BY <1>1 DEF ConsumerKnows
  <2>5. frontBlock = tailBlock => accepted - removed = Filled(b)
    BY <1>1, TailCounted DEF QueueInv
  <2>6. Filled(b) = 0 /\ held["consumer"] > 0 => frontBlock # tailBlock
    <3>1. held["consumer"] \in Nat BY Facts DEF Threads
    <3> QED BY <2>3, <2>5, <3>1
  <2> HIDE DEF b, new
  <2>7. consumer' # "take" => Filled(b) = 0 BY <1>6, <2>1
  <2>8. blocks'[frontBlock'] = new BY <1>7 DEF new
  <2> QED BY <1>6, <1>7, <2>1, <2>2, <2>3, <2>4, <2>6, <2>7, <2>8 DEF ConsumerKnows
<1>12. ValuesInOrder' /\ RefusesOnlyWhenFull' /\ FindsNothingOnlyWhenEmpty'
  BY <1>6, <1>7, AnswersStay
<1> QED BY <1>8, <1>9, <1>10, <1>11, <1>12 DEF QueueInv

\* The consumer finds nothing, or goes on behind the producer.
LEMMA CheckTailBlockKeeps ==
  ASSUME QueueInv, CheckTailBlock
  PROVE  QueueInv'
<1>1. TypeOK /\ BlockBounds /\ ConsumerKnows BY DEF QueueInv
<1>2. UNCHANGED <<blocks, frontBlock, tailBlock, largestBlockSize, producer, mode, accepted, op,
                  got, removed, sizing, held>>
  BY DEF CheckTailBlock, consumerRest, producerVars, Answer, Continue
<1>3. BlocksKept BY <1>2, Facts, NoBlockChanged
<1>4. /\ consumer = "tailBlock" /\ consumer' \in {"idle", "recheck"}
      /\ consumer' = "recheck" => frontBlock # tailBlock /\ outcome' = outcome
      /\ consumer' = "idle" =>
           frontBlock = tailBlock /\ outcome' = [outcome EXCEPT !["consumer"] = "false"]
  BY DEF CheckTailBlock, Answer, Continue
<1>5. /\ outcome' \in [Threads -> {"none", "true", "false"}]
      /\ outcome'["producer"] = outcome["producer"]
      /\ consumer' = "recheck" => outcome'["consumer"] = outcome["consumer"]
      /\ consumer' = "idle" => outcome'["consumer"] = "false"
  BY <1>4, Facts DEF Threads
<1>6. TypeOK' BY <1>1, <1>2, <1>3, <1>4, <1>5 DEF TypeOK, BlocksKept
<1>7. OneCircle' /\ SlotsHold' /\ BlocksFollow' /\ BlockBounds'
  BY <1>1, <1>2, <1>3, <1>4, ContentsStay DEF BlockBounds
<1>8. ProducerKnows' BY <1>2, <1>3, <1>5, ProducerStays
<1>9. ConsumerKnows' BY <1>1, <1>2, <1>4, <1>5 DEF ConsumerKnows
<1>10. consumer' = "idle" => held["consumer"] = 0
  <2>1. held["consumer"] \in Nat BY Facts DEF Threads
  <2>2. held["consumer"] > 0 => frontBlock # tailBlock BY <1>1, <1>4 DEF ConsumerKnows
  <2> QED BY <1>4, <2>1, <2>2
<1>11. outcome["consumer"] = "none" BY <1>1, <1>4 DEF ConsumerKnows
<1>12. ValuesInOrder' /\ RefusesOnlyWhenFull' /\ FindsNothingOnlyWhenEmpty'
  BY <1>2, <1>4, <1>5, <1>10, <1>11
  DEF QueueInv, ValuesInOrder, RefusesOnlyWhenFull, FindsNothingOnlyWhenEmpty
<1> QED BY <1>6, <1>7, <1>8, <1>9, <1>12 DEF QueueInv

\* The block behind the front block when the producer is further on.
LEMMA NextOfFront ==
  ASSUME QueueInv, frontBlock # tailBlock, Filled(blocks[frontBlock]) = 0
  PROVE  LET next == blocks[frontBlock].next
         IN  /\ next # frontBlock /\ Filled(blocks[next]) > 0 /\ First(next) = removed + 1
             /\ Live(next)
             /\ blocks[next].front \in 0..blocks[next].size - 1
             /\ blocks[next].data[blocks[next].front] = removed + 1
<1> DEFINE next == blocks[frontBlock].next
<1>1. TypeOK /\ BlocksFollow BY DEF QueueInv
<1>2. next \in BlockNumbers BY Facts
<1>3. Live(frontBlock) BY DEF Live
<1>4. next # frontBlock /\ Filled(blocks[next]) > 0 /\ First(next) = Behind(frontBlock)
  BY <1>1, <1>3, Facts DEF BlocksFollow
<1>5. Behind(frontBlock) = removed + 1 BY Facts DEF Behind, First
<1>6. next # blocks[tailBlock].next BY Facts, CircleFacts
<1>7. Live(next) BY <1>4, <1>6 DEF Live, Entering
<1>8. blocks[next].front \in 0..blocks[next].size - 1 BY <1>2, Facts, FieldsOfAll DEF Indices
<1>9. blocks[next].data[blocks[next].front] = First(next) BY <1>4 DEF First
<1> QED BY <1>4, <1>5, <1>7, <1>8, <1>9

\* peek reads from where it is the element of the next block.
LEMMA PeekNextBlockKeeps ==
  ASSUME QueueInv, NextBlockTail, op = "peek"
  PROVE  QueueInv'
<1> DEFINE next == blocks[frontBlock].next
<1>1. TypeOK /\ BlockBounds /\ ConsumerKnows BY DEF QueueInv
<1>2. UNCHANGED <<blocks, frontBlock, tailBlock, largestBlockSize, producer, mode, accepted, op,
                  removed, sizing, held>>
  BY DEF NextBlockTail, consumerRest, producerVars, Answer
<1>3. BlocksKept BY <1>2, Facts, NoBlockChanged
<1>4. /\ consumer = "nextBlock" /\ consumer' = "idle"
      /\ got' = blocks[next].data[blocks[next].front]
      /\ outcome' = [outcome EXCEPT !["consumer"] = "true"]
  BY DEF NextBlockTail, Answer
<1>5. /\ outcome' \in [Threads -> {"none", "true", "false"}]
      /\ outcome'["producer"] = outcome["producer"] /\ outcome'["consumer"] = "true"
  BY <1>4, Facts DEF Threads
<1>6. frontBlock # tailBlock /\ Filled(blocks[frontBlock]) = 0 BY <1>1, <1>4 DEF ConsumerKnows
<1>7. got' = removed + 1 BY <1>4, <1>6, NextOfFront
<1>8. got' \in Items \union {Raw}
  <2>1. blocks[next].data \in [0..blocks[next].size - 1 -> Items \union {Raw}]
    BY Facts, FieldsOfAll
  <2>2. blocks[next].front \in 0..blocks[next].size - 1 BY <1>6, NextOfFront
  <2> QED BY <1>4, <2>1, <2>2
<1>9. TypeOK' BY <1>1, <1>2, <1>3, <1>4, <1>5, <1>8 DEF TypeOK, BlocksKept
<1>10. OneCircle' /\ SlotsHold' /\ BlocksFollow' /\ BlockBounds'
  BY <1>1, <1>2, <1>3, <1>4, ContentsStay DEF BlockBounds
<1>11. ProducerKnows' BY <1>2, <1>3, ProducerStays
<1>12. ConsumerKnows' BY <1>1, <1>2, <1>4 DEF ConsumerKnows
<1>13. ValuesInOrder' /\ RefusesOnlyWhenFull' /\ FindsNothingOnlyWhenEmpty'
  BY <1>2, <1>4, <1>5, <1>7
  DEF QueueInv, ValuesInOrder, RefusesOnlyWhenFull, FindsNothingOnlyWhenEmpty
<1> QED BY <1>9, <1>10, <1>11, <1>12, <1>13 DEF QueueInv

\* The consumer reads the tail of the next block.
LEMMA NextBlockTailKeeps ==
  ASSUME QueueInv, NextBlockTail, op # "peek"
  PROVE  QueueInv'
<1>1. PICK next : next = blocks[frontBlock].next OBVIOUS
<1> DEFINE b == blocks[next]
           new == blocks'[next]
<1>2. TypeOK /\ BlockBounds /\ ConsumerKnows BY DEF QueueInv
<1>3. next \in BlockNumbers BY <1>1, Facts
<1>4. /\ consumer = "nextBlock" /\ consumer' = "advance"
      /\ blocks' = [blocks EXCEPT ![next].localTail = b.tail]
  BY <1>1 DEF NextBlockTail
<1>5. UNCHANGED <<frontBlock, tailBlock, largestBlockSize, producer, mode, accepted, op, got,
                  removed, sizing, held, outcome>>
  BY DEF NextBlockTail, consumerRest, producerVars, Continue
<1>6. b.tail \in 0..b.size - 1 BY <1>3, Facts, FieldsOfAll DEF Indices
<1>7. BlocksKept /\ \A c \in BlockNumbers : c # next => blocks'[c] = blocks[c]
  BY <1>3, <1>4, <1>6, Facts, CopyKeeps
<1>8. new.localTail = b.tail /\ new.localFront = b.localFront
  BY <1>3, <1>4, <1>6, Facts, CopyAssigned
<1>9. frontBlock # tailBlock /\ Filled(blocks[frontBlock]) = 0 BY <1>2, <1>4 DEF ConsumerKnows
<1>10. next # frontBlock /\ Filled(b) > 0 BY <1>1, <1>9, NextOfFront
<1>11. TypeOK' BY <1>2, <1>4, <1>5, <1>7 DEF TypeOK, BlocksKept
<1>12. OneCircle' /\ SlotsHold' /\ BlocksFollow' /\ BlockBounds'
  BY <1>2, <1>4, <1>5, <1>7, ContentsStay DEF BlockBounds
<1>13. ProducerKnows'
  <2>1. \A c \in BlockNumbers : blocks'[c].localFront = blocks[c].localFront BY <1>7, <1>8
  <2> QED BY <1>5, <1>7, <2>1, ProducerStays
<1>14. ConsumerKnows'
  <2>1. /\ new.size = b.size /\ new.front = b.front /\ Filled(new) = Filled(b)
        /\ Filled(b) \in Nat
    BY <1>2, <1>3, <1>7, Numbers DEF BlocksKept, BlockKept
  <2>2. FilledAtLeast(new) = Filled(b) BY <1>8, <2>1 DEF FilledAtLeast, Filled
  <2>3. FilledAtLeast(new) \in 1..Filled(new) BY <1>10, <2>1, <2>2
  <2>4. blocks'[frontBlock] = blocks[frontBlock] BY <1>7, <1>10, Facts
  <2> HIDE DEF b
  <2> QED BY <1>1, <1>2, <1>4, <1>5, <1>9, <2>3, <2>4 DEF ConsumerKnows
<1>15. ValuesInOrder' /\ RefusesOnlyWhenFull' /\ FindsNothingOnlyWhenEmpty'
  BY <1>4, <1>5, AnswersStay
<1> QED BY <1>11, <1>12, <1>13, <1>14, <1>15 DEF QueueInv

\* Either thread counts the elements.
LEMMA SizeKeeps ==
  ASSUME QueueInv, NEW t \in SizeCallers, SizeNext(t)
  PROVE  QueueInv'
<1>1. TypeOK /\ BlockBounds /\ ProducerKnows /\ ConsumerKnows BY DEF QueueInv
<1>2. t \in Threads BY QueueAssumption DEF Threads
<1>3. UNCHANGED sizeRest BY DEF SizeNext, SizeApprox, CountBlock, HopBlock, ReturnSize
<1>4. UNCHANGED <<blocks, frontBlock, tailBlock, largestBlockSize, mode, op, got, accepted,
                  removed>>
  BY <1>3 DEF sizeRest
<1>5. BlocksKept BY <1>4, Facts, NoBlockChanged
<1>6. \/ Begin(t) \/ Continue
  BY DEF SizeNext, SizeApprox, CountBlock, HopBlock, ReturnSize
<1>7. \E pc \in SizeStates \union {"idle"} : Go(t, pc)
  BY DEF SizeNext, SizeApprox, CountBlock, HopBlock, ReturnSize, SizeStates
<1>8. /\ t = "producer" => /\ producer' \in SizeStates \union {"idle"} /\ consumer' = consumer
                           /\ producer \in SizeStates \union {"idle"}
      /\ t = "consumer" => /\ consumer' \in SizeStates \union {"idle"} /\ producer' = producer
                           /\ consumer \in SizeStates \union {"idle"}
  <2>1. \E pc \in SizeStates \union {"idle"} : At(t, pc)
    BY DEF SizeNext, SizeApprox, CountBlock, HopBlock, ReturnSize, SizeStates
  <2> QED BY <1>2, <1>7, <2>1 DEF Go, At, Threads
<1>9. accepted - removed \in 0..MaxItems BY Facts
<1>10. /\ held' \in [Threads -> 0..MaxItems]
       /\ outcome' \in [Threads -> {"none", "true", "false"}]
       /\ \A u \in Threads : u # t => held'[u] = held[u] /\ outcome'[u] = outcome[u]
       /\ \/ held' = held /\ outcome' = outcome
          \/ outcome'[t] = "none"
  BY <1>2, <1>6, <1>9, Facts DEF Begin, Continue
<1>11. sizing' \in [Threads -> [first : BlockNumbers, at : BlockNumbers, sum : Nat]]
  <2>1. sizing \in [Threads -> [first : BlockNumbers, at : BlockNumbers, sum : Nat]]
    BY <1>1 DEF TypeOK
  <2>2. CASE SizeApprox(t) BY <1>2, <2>1, <2>2, Facts DEF SizeApprox
  <2>3. CASE CountBlock(t)
    <3>1. Count(blocks[sizing[t].at]) \in Nat
      <4>1. sizing[t].at \in BlockNumbers BY <1>2, <2>1
      <4> QED BY <1>1, <4>1, Numbers DEF Count, Filled
    <3> QED BY <1>2, <2>1, <2>3, <3>1 DEF CountBlock
  <2>4. CASE HopBlock(t)
    <3>1. blocks[sizing[t].at].next \in BlockNumbers
      <4>1. sizing[t].at \in BlockNumbers BY <1>2, <2>1
      <4> QED BY <1>1, <4>1, Numbers
    <3> QED BY <1>2, <2>1, <2>4, <3>1 DEF HopBlock
  <2>5. CASE ReturnSize(t)
    <3>1. 1 \in BlockNumbers
      <4>1. frontBlock \in 1..Len(blocks) BY Facts DEF BlockNumbers
      <4>2. Len(blocks) \in Nat BY Facts DEF BlocksOK
      <4> QED BY <4>1, <4>2 DEF BlockNumbers
    <3> QED BY <1>2, <2>1, <2>5, <3>1 DEF ReturnSize, NoSizing
  <2> QED BY <2>2, <2>3, <2>4, <2>5 DEF SizeNext
<1>12. producer' \in SizeStates \union {"idle"} \/ producer' = producer
  BY <1>2, <1>8 DEF Threads
<1>13. consumer' \in SizeStates \union {"idle"} \/ consumer' = consumer
  BY <1>2, <1>8 DEF Threads
<1>14. TypeOK'
  BY <1>1, <1>4, <1>5, <1>10, <1>11, <1>12, <1>13 DEF TypeOK, BlocksKept
<1>15. OneCircle' /\ SlotsHold' /\ BlocksFollow' /\ BlockBounds'
  <2>1. \A pc \in {"publish", "advance"} : producer' = pc <=> producer = pc
    BY <1>2, <1>8 DEF Threads, SizeStates
  <2>2. consumer' = "release" <=> consumer = "release"
    BY <1>2, <1>8 DEF Threads, SizeStates
  <2> QED BY <1>1, <1>4, <1>5, <2>1, <2>2, ContentsStay DEF BlockBounds
<1>16. ProducerKnows'
  <2>1. \A c \in BlockNumbers : blocks'[c].localFront = blocks[c].localFront BY <1>4
  <2> QED BY <1>2, <1>4, <1>5, <1>8, <1>10, <2>1, ProducerStays DEF Threads
<1>17. ConsumerKnows'
  <2>1. \A c \in BlockNumbers : blocks'[c].localTail = blocks[c].localTail BY <1>4
  <2> QED BY <1>2, <1>4, <1>5, <1>8, <1>10, <2>1, ConsumerStays DEF Threads
<1>18. ValuesInOrder' /\ RefusesOnlyWhenFull' /\ FindsNothingOnlyWhenEmpty'
  <2>1. consumer' = "release" => consumer = "release" BY <1>2, <1>8 DEF Threads, SizeStates
  <2> QED BY <1>2, <1>4, <1>10, <2>1, AnswersStay DEF Threads
<1> QED BY <1>14, <1>15, <1>16, <1>17, <1>18 DEF QueueInv

(***************************************************************************)
(* The consumer's steps that change what the queue holds.                  *)
(***************************************************************************)
\* The element in front, while the consumer takes it.
LEMMA FrontElement ==
  ASSUME QueueInv, consumer = "take"
  PROVE  LET b == blocks[frontBlock]
         IN  /\ Filled(b) > 0 /\ b.front \in 0..b.size - 1
             /\ b.data[b.front] = removed + 1 /\ removed + 1 \in Items
<1> DEFINE b == blocks[frontBlock]
<1>1. TypeOK /\ BlocksFollow /\ ConsumerKnows BY DEF QueueInv
<1>2. FilledAtLeast(b) > 0 /\ FilledAtLeast(b) <= Filled(b) BY <1>1 DEF ConsumerKnows
<1>3. FilledAtLeast(b) \in Nat /\ Filled(b) \in Nat
  <2>1. FilledAtLeast(b) \in 0..b.size - 1 BY Facts, Tests
  <2>2. Filled(b) \in 0..b.size - 1 /\ b.size \in Nat BY <1>1, Facts, Numbers
  <2> QED BY <2>1, <2>2
<1>4. Filled(b) > 0
  <2> HIDE DEF b
  <2> QED BY <1>2, <1>3
<1>5. b.front \in 0..b.size - 1 BY Facts DEF Indices
<1>6. b.data[b.front] = removed + 1
  <2>1. Place(b, b.front) = 0 BY <1>5, Facts, Held
  <2>2. b.data[b.front] = First(frontBlock) + Place(b, b.front)
    BY <1>4, <1>5, <2>1, Facts, Held
  <2> QED BY <2>1, <2>2, Facts DEF First
<1>7. removed + 1 \in Items
  <2>1. Behind(frontBlock) <= accepted + 1 BY <1>1, Facts DEF BlocksFollow, Live
  <2>2. Behind(frontBlock) = removed + 1 + Filled(b) BY DEF Behind, First
  <2> QED BY <1>3, <1>4, <2>1, <2>2, Facts DEF Items
<1> QED BY <1>4, <1>5, <1>6, <1>7

\* peek shows the element in front.
LEMMA PeekElementKeeps ==
  ASSUME QueueInv, TakeElement, op = "peek"
  PROVE  QueueInv'
<1>1. TypeOK /\ BlockBounds /\ ConsumerKnows BY DEF QueueInv
<1>2. UNCHANGED <<blocks, frontBlock, tailBlock, largestBlockSize, producer, mode, accepted, op,
                  removed, sizing, held>>
  BY DEF TakeElement, consumerRest, producerVars, Answer
<1>3. BlocksKept BY <1>2, Facts, NoBlockChanged
<1>4. /\ consumer = "take" /\ consumer' = "idle"
      /\ got' = blocks[frontBlock].data[blocks[frontBlock].front]
      /\ outcome' = [outcome EXCEPT !["consumer"] = "true"]
  BY DEF TakeElement, Answer
<1>5. /\ outcome' \in [Threads -> {"none", "true", "false"}]
      /\ outcome'["producer"] = outcome["producer"] /\ outcome'["consumer"] = "true"
  BY <1>4, Facts DEF Threads
<1>6. got' = removed + 1 /\ got' \in Items BY <1>4, FrontElement
<1>7. TypeOK' BY <1>1, <1>2, <1>3, <1>4, <1>5, <1>6 DEF TypeOK, BlocksKept
<1>8. OneCircle' /\ SlotsHold' /\ BlocksFollow' /\ BlockBounds'
  BY <1>1, <1>2, <1>3, <1>4, ContentsStay DEF BlockBounds
<1>9. ProducerKnows' BY <1>2, <1>3, ProducerStays
<1>10. ConsumerKnows' BY <1>1, <1>2, <1>4 DEF ConsumerKnows
<1>11. ValuesInOrder' /\ RefusesOnlyWhenFull' /\ FindsNothingOnlyWhenEmpty'
  BY <1>2, <1>4, <1>5, <1>6
  DEF QueueInv, ValuesInOrder, RefusesOnlyWhenFull, FindsNothingOnlyWhenEmpty
<1> QED BY <1>7, <1>8, <1>9, <1>10, <1>11 DEF QueueInv

\* The consumer moves the element out of its slot.
LEMMA TakeElementKeeps ==
  ASSUME QueueInv, TakeElement, op # "peek"
  PROVE  QueueInv'
<1> DEFINE b == blocks[frontBlock]
           new == blocks'[frontBlock]
<1>1. TypeOK /\ OneCircle /\ BlocksFollow /\ ProducerKnows /\ ConsumerKnows /\ BlockBounds
  BY DEF QueueInv
<1>2. /\ consumer = "take" /\ consumer' = "release" /\ got' = b.data[b.front]
      /\ blocks' = [blocks EXCEPT ![frontBlock].data[b.front] = Raw]
  BY DEF TakeElement
<1>3. UNCHANGED <<frontBlock, tailBlock, largestBlockSize, producer, mode, accepted, op, removed,
                  sizing, held, outcome>>
  BY DEF TakeElement, consumerRest, producerVars, Continue
<1>4. /\ Filled(b) > 0 /\ b.front \in 0..b.size - 1 /\ got' = removed + 1 /\ got' \in Items
  BY <1>2, FrontElement
<1>5. /\ BlocksOK' /\ Len(blocks') = Len(blocks) /\ BlockNumbers' = BlockNumbers
      /\ \A c \in BlockNumbers : c # frontBlock => blocks'[c] = blocks[c]
      /\ new.size = b.size /\ new.front = b.front /\ new.tail = b.tail
      /\ new.localFront = b.localFront /\ new.localTail = b.localTail /\ new.next = b.next
      /\ Filled(new) = Filled(b)
      /\ \A slot \in 0..b.size - 1 :
           /\ Place(new, slot) = Place(b, slot)
           /\ new.data[slot] = IF slot = b.front THEN Raw ELSE b.data[slot]
  <2>1. Raw \in Items \union {Raw} /\ b.front \in 0..b.size - 1 BY <1>4
  <2>2. blocks' = [blocks EXCEPT ![frontBlock].data[b.front] = Raw] BY <1>2
  <2> QED BY <2>1, <2>2, Facts, SlotAssigned
<1> HIDE DEF b, new
<1>6. \A c \in BlockNumbers :
        /\ blocks'[c].size = blocks[c].size /\ blocks'[c].next = blocks[c].next
        /\ blocks'[c].front = blocks[c].front /\ blocks'[c].tail = blocks[c].tail
        /\ blocks'[c].localFront = blocks[c].localFront
        /\ blocks'[c].localTail = blocks[c].localTail
        /\ Filled(blocks'[c]) = Filled(blocks[c])
        /\ FilledAtLeast(blocks'[c]) = FilledAtLeast(blocks[c])
        /\ FilledAtMost(blocks'[c]) = FilledAtMost(blocks[c])
  BY <1>5 DEF b, new, FilledAtLeast, FilledAtMost
<1>7. TypeOK' BY <1>1, <1>2, <1>3, <1>4, <1>5 DEF TypeOK
<1>8. \A c \in BlockNumbers : First(c)' = First(c)
  BY <1>3, <1>5 DEF First
<1>9. OneCircle' BY <1>1, <1>3, <1>5, <1>6, Facts, CircleStays DEF CircleKept
<1>10. BlocksFollow'
  BY <1>1, <1>3, <1>5, <1>6, <1>8, Facts, OrderStays DEF OrderKept
<1>11. SlotsHold'
  <2> SUFFICES ASSUME NEW c \in BlockNumbers, NEW slot \in 0..blocks[c].size - 1
               PROVE  (blocks[c].data[slot] =
                         IF Place(blocks[c], slot) < Filled(blocks[c])
                           THEN IF consumer = "release" /\ c = frontBlock /\ slot = blocks[c].front
                                THEN Raw ELSE First(c) + Place(blocks[c], slot)
                           ELSE IF producer = "publish" /\ c = tailBlock /\ slot = blocks[c].tail
                                THEN accepted + 1 ELSE Raw)'
    BY <1>5, <1>6 DEF SlotsHold
  <2>1. CASE c # frontBlock BY <1>2, <1>3, <1>5, <1>8, <2>1, Held, SMTT(30)
  <2>2. CASE c = frontBlock
    <3>1. CASE slot = b.front
      <4>1. Place(b, slot) = 0 BY <2>2, <3>1, Held DEF b
      <4> QED BY <1>2, <1>3, <1>4, <1>5, <2>2, <3>1, <4>1 DEF b, new
    <3>2. CASE slot # b.front
      <4>1. /\ slot \in 0..b.size - 1
            /\ b.data[slot] =
                 IF Place(b, slot) < Filled(b)
                   THEN First(c) + Place(b, slot)
                   ELSE IF producer = "publish" /\ c = tailBlock /\ slot = b.tail
                        THEN accepted + 1 ELSE Raw
        BY <1>2, <2>2, <3>2, Held DEF b
      <4>2. First(c)' = First(c) BY <1>8
      <4> QED BY <1>2, <1>3, <1>5, <2>2, <3>2, <4>1, <4>2 DEF new
    <3> QED BY <3>1, <3>2
  <2> QED BY <2>1, <2>2
<1>12. ProducerKnows'
  <2>1. producer = "advance" =>
          blocks'[blocks[tailBlock].next] = blocks[blocks[tailBlock].next]
    <3>1. producer = "advance" => blocks[tailBlock].next # frontBlock
      BY <1>1 DEF ProducerKnows
    <3> QED BY <1>5, <3>1, Facts
  <2> QED BY <1>1, <1>3, <1>6, <2>1, Facts DEF ProducerKnows
<1>13. ConsumerKnows' BY <1>1, <1>2, <1>3, <1>4, <1>6, Facts DEF ConsumerKnows
<1>14. BlockBounds' BY <1>1, <1>3, <1>5, <1>6 DEF BlockBounds
<1>15. ValuesInOrder' /\ RefusesOnlyWhenFull' /\ FindsNothingOnlyWhenEmpty'
  <2>1. outcome["consumer"] = "none" BY <1>1, <1>2 DEF ConsumerKnows
  <2> QED BY <1>2, <1>3, <1>4, <2>1
      DEF QueueInv, ValuesInOrder, RefusesOnlyWhenFull, FindsNothingOnlyWhenEmpty
<1> QED BY <1>7, <1>9, <1>10, <1>11, <1>12, <1>13, <1>14, <1>15 DEF QueueInv

\* There is an element in the slot the consumer frees.
LEMMA ReleasedFilled ==
  ASSUME QueueInv, consumer = "release"
  PROVE  LET b == blocks[frontBlock]
         IN  /\ FilledAtLeast(b) > 0 /\ FilledAtLeast(b) <= Filled(b) /\ FilledAtLeast(b) \in Nat
             /\ Filled(b) \in 0..b.size - 1 /\ b.size \in Nat /\ Filled(b) > 0
<1> DEFINE b == blocks[frontBlock]
<1>1. FilledAtLeast(b) > 0 /\ FilledAtLeast(b) <= Filled(b) BY DEF QueueInv, ConsumerKnows
<1>2. FilledAtLeast(b) \in 0..b.size - 1 BY Facts, Tests
<1>3. Filled(b) \in 0..b.size - 1 /\ b.size \in Nat BY Facts, Numbers
<1>4. FilledAtLeast(b) \in Nat /\ Filled(b) > 0
  <2> HIDE DEF b
  <2> QED BY <1>1, <1>2, <1>3
<1> QED BY <1>1, <1>3, <1>4

\* The front block, once that slot is free.
LEMMA SlotReleased ==
  ASSUME QueueInv, ReleaseSlot
  PROVE  /\ BlocksOK' /\ Len(blocks') = Len(blocks) /\ BlockNumbers' = BlockNumbers
         /\ \A c \in BlockNumbers : c # frontBlock => blocks'[c] = blocks[c]
         /\ LET b == blocks[frontBlock]  new == blocks'[frontBlock]
            IN  /\ new.size = b.size /\ new.tail = b.tail
                /\ new.localFront = b.localFront /\ new.localTail = b.localTail
                /\ new.next = b.next /\ new.data = b.data
                /\ Filled(new) = Filled(b) - 1 /\ FilledAtLeast(new) = FilledAtLeast(b) - 1
                /\ \A slot \in 0..b.size - 1 :
                     Place(new, slot) = IF slot = b.front THEN b.size - 1 ELSE Place(b, slot) - 1
<1> DEFINE b == blocks[frontBlock]
<1>1. blocks' = [blocks EXCEPT ![frontBlock].front = After(frontBlock, b.front)]
  BY DEF ReleaseSlot
<1>2. FilledAtLeast(b) > 0 /\ Filled(b) > 0 BY ReleasedFilled DEF ReleaseSlot
<1> QED BY <1>1, <1>2, Facts, FrontMoved

\* Its first element is gone; behind that nothing changes.
LEMMA ReleasedSame ==
  ASSUME QueueInv, ReleaseSlot
  PROVE  /\ \A c \in BlockNumbers : c # frontBlock => First(c)' = First(c)
         /\ First(frontBlock) = removed + 1 /\ First(frontBlock)' = removed + 2
         /\ \A c \in BlockNumbers : (Live(c)' <=> Live(c)) /\ Behind(c)' = Behind(c)
<1> DEFINE b == blocks[frontBlock]
           new == blocks'[frontBlock]
<1>1. removed' = removed + 1 /\ UNCHANGED <<frontBlock, tailBlock, producer, accepted>>
  BY DEF ReleaseSlot, consumerRest, producerVars
<1>2. /\ \A c \in BlockNumbers : c # frontBlock => blocks'[c] = blocks[c]
      /\ new.next = b.next /\ Filled(new) = Filled(b) - 1
  BY SlotReleased
<1>3. Filled(b) \in Nat BY ReleasedFilled DEF ReleaseSlot
<1> HIDE DEF b, new
<1>4. /\ \A c \in BlockNumbers : c # frontBlock => First(c)' = First(c)
      /\ First(frontBlock) = removed + 1 /\ First(frontBlock)' = removed + 2
  BY <1>1, <1>2, Facts DEF First
<1>5. \A c \in BlockNumbers : c # frontBlock => Filled(blocks'[c]) = Filled(blocks[c])
  BY <1>2
<1>6. \A c \in BlockNumbers : Entering(c)' <=> Entering(c)
  BY <1>1, <1>2, Facts DEF Entering, b, new
<1>7. \A c \in BlockNumbers : Live(c)' <=> Live(c) BY <1>1, <1>5, <1>6 DEF Live
<1>8. Behind(frontBlock)' = Behind(frontBlock)
  <2>1. Behind(frontBlock)' = removed + 2 + (Filled(b) - 1)
    BY <1>1, <1>2, <1>4 DEF Behind, new
  <2>2. Behind(frontBlock) = removed + 1 + Filled(b) BY <1>4 DEF Behind, b
  <2> QED BY <1>3, <2>1, <2>2, Facts
<1>9. ASSUME NEW c \in BlockNumbers PROVE Behind(c)' = Behind(c)
  <2>1. CASE c = frontBlock BY <1>1, <1>8, <2>1
  <2>2. CASE c # frontBlock BY <1>4, <1>5, <2>2 DEF Behind
  <2> QED BY <2>1, <2>2
<1> QED BY <1>4, <1>7, <1>9

\* The consumer frees the slot.
LEMMA ReleaseSlotKeeps ==
  ASSUME QueueInv, ReleaseSlot
  PROVE  QueueInv'
<1> DEFINE b == blocks[frontBlock]
           new == blocks'[frontBlock]
<1>1. TypeOK /\ OneCircle /\ BlocksFollow /\ ProducerKnows /\ ConsumerKnows /\ BlockBounds
  BY DEF QueueInv
<1>2. /\ consumer = "release" /\ consumer' = "idle" /\ removed' = removed + 1
      /\ blocks' = [blocks EXCEPT ![frontBlock].front = After(frontBlock, b.front)]
  BY DEF ReleaseSlot
<1>3. UNCHANGED <<frontBlock, tailBlock, largestBlockSize, producer, mode, accepted, op, got,
                  sizing, held>>
  BY DEF ReleaseSlot, consumerRest, producerVars, Answer
<1>4. /\ outcome' \in [Threads -> {"none", "true", "false"}]
      /\ outcome'["consumer"] = "true" /\ outcome'["producer"] = outcome["producer"]
  BY Facts DEF ReleaseSlot, Answer, Threads
<1>5. /\ FilledAtLeast(b) > 0 /\ FilledAtLeast(b) <= Filled(b) /\ FilledAtLeast(b) \in Nat
      /\ Filled(b) \in 0..b.size - 1 /\ b.size \in Nat /\ Filled(b) > 0
      /\ got = removed + 1 /\ op # "peek"
  BY <1>1, <1>2, ReleasedFilled DEF ConsumerKnows
<1>6. Filled(b) > 0 BY <1>5
<1>7. /\ BlocksOK' /\ Len(blocks') = Len(blocks) /\ BlockNumbers' = BlockNumbers
      /\ \A c \in BlockNumbers : c # frontBlock => blocks'[c] = blocks[c]
      /\ new.size = b.size /\ new.tail = b.tail
      /\ new.localFront = b.localFront /\ new.localTail = b.localTail
      /\ new.next = b.next /\ new.data = b.data
      /\ Filled(new) = Filled(b) - 1 /\ FilledAtLeast(new) = FilledAtLeast(b) - 1
      /\ \A slot \in 0..b.size - 1 :
           Place(new, slot) = IF slot = b.front THEN b.size - 1 ELSE Place(b, slot) - 1
  BY SlotReleased
<1> HIDE DEF b, new
<1>8. Behind(frontBlock) = removed + 1 + Filled(b) /\ Behind(frontBlock) <= accepted + 1
  <2>1. Behind(frontBlock) <= accepted + 1 BY <1>1, Facts DEF BlocksFollow, Live
  <2> QED BY <2>1 DEF Behind, First, b
<1>9. TypeOK'
  <2>1. removed' \in 0..accepted' BY <1>2, <1>3, <1>5, <1>6, <1>8, Facts
  <2> QED BY <1>1, <1>2, <1>3, <1>4, <1>7, <2>1 DEF TypeOK
<1>10. \A c \in BlockNumbers :
         /\ blocks'[c].size = blocks[c].size /\ blocks'[c].next = blocks[c].next
         /\ blocks'[c].tail = blocks[c].tail /\ blocks'[c].data = blocks[c].data
         /\ FilledAtMost(blocks'[c]) = FilledAtMost(blocks[c])
  BY <1>7 DEF b, new, FilledAtMost
<1>11. OneCircle' BY <1>1, <1>3, <1>7, <1>10, Facts, CircleStays DEF CircleKept
<1>12. /\ \A c \in BlockNumbers : c # frontBlock => First(c)' = First(c)
       /\ First(frontBlock) = removed + 1 /\ First(frontBlock)' = removed + 2
       /\ \A c \in BlockNumbers : (Live(c)' <=> Live(c)) /\ Behind(c)' = Behind(c)
  BY ReleasedSame
<1>13. \A c \in BlockNumbers : c # frontBlock => Filled(blocks'[c]) = Filled(blocks[c])
  BY <1>7
<1>14. BlocksFollow'
  <2>2. \A c \in BlockNumbers : Live(c)' <=> Live(c) BY <1>12
  <2>3. \A c \in BlockNumbers : Behind(c)' = Behind(c) BY <1>12
  <2>4. \A c \in BlockNumbers : blocks[c].next \in BlockNumbers BY <1>1, Numbers
  <2>5. ASSUME NEW c \in BlockNumbers, Live(c)
        PROVE  /\ Behind(c)' <= accepted' + 1
               /\ c # tailBlock' =>
                    /\ blocks'[c].next # frontBlock'
                    /\ Filled(blocks'[blocks'[c].next]) > 0
                    /\ First(blocks[c].next)' = Behind(c)'
                    /\ c # frontBlock' => Filled(blocks'[c]) = blocks'[c].size - 1
    <3>1. Behind(c) <= accepted + 1 BY <1>1, <2>5 DEF BlocksFollow
    <3>2. c # tailBlock =>
            /\ blocks[c].next # frontBlock
            /\ Filled(blocks[blocks[c].next]) > 0
            /\ First(blocks[c].next) = Behind(c)
            /\ c # frontBlock => Filled(blocks[c]) = blocks[c].size - 1
      BY <1>1, <2>5 DEF BlocksFollow
    <3> QED BY <1>3, <1>10, <1>12, <1>13, <2>3, <2>4, <3>1, <3>2
  <2>6. \A c \in BlockNumbers : c = tailBlock' \/ ~Live(c)' =>
          blocks'[c].next = frontBlock' \/ ~Live(blocks[c].next)'
    BY <1>1, <1>3, <1>10, <2>2, <2>4 DEF BlocksFollow
  <2>7. Behind(tailBlock)' = accepted' + 1 BY <1>1, <1>3, <2>3, Facts DEF BlocksFollow
  <2>8. tailBlock' # frontBlock' => Filled(blocks'[tailBlock']) > 0
    BY <1>1, <1>3, <1>13, Facts DEF BlocksFollow
  <2> QED BY <1>7, <2>2, <2>5, <2>6, <2>7, <2>8 DEF BlocksFollow
<1>15. SlotsHold'
  <2> SUFFICES ASSUME NEW c \in BlockNumbers, NEW slot \in 0..blocks[c].size - 1
               PROVE  (blocks[c].data[slot] =
                         IF Place(blocks[c], slot) < Filled(blocks[c])
                           THEN IF consumer = "release" /\ c = frontBlock /\ slot = blocks[c].front
                                THEN Raw ELSE First(c) + Place(blocks[c], slot)
                           ELSE IF producer = "publish" /\ c = tailBlock /\ slot = blocks[c].tail
                                THEN accepted + 1 ELSE Raw)'
    BY <1>7, <1>10 DEF SlotsHold
  <2>1. CASE c # frontBlock BY <1>2, <1>3, <1>7, <1>12, <2>1, Held, SMTT(30)
  <2>2. CASE c = frontBlock
    <3>1. CASE slot = b.front
      <4>1. Place(new, slot) = b.size - 1 /\ b.data[slot] = Raw /\ slot # b.tail
        <5>1. Place(b, slot) = 0 BY <2>2, <3>1, Held DEF b
        <5>2. b.data[slot] = Raw BY <1>2, <1>6, <2>2, <3>1, <5>1, Held DEF b
        <5>3. slot # b.tail BY <1>6, <2>2, <5>1, Held DEF b
        <5> QED BY <1>7, <2>2, <3>1, <5>2, <5>3 DEF b
      <4>2. ~(Place(new, slot) < Filled(new)) BY <1>5, <1>7, <4>1
      <4> QED BY <1>2, <1>3, <1>7, <2>2, <4>1, <4>2 DEF b, new
    <3>2. CASE slot # b.front
      <4>1. Place(new, slot) = Place(b, slot) - 1 /\ Place(b, slot) \in Nat /\ slot \in 0..b.size - 1
        BY <1>7, <2>2, <3>2, Held DEF b
      <4>2. Place(new, slot) < Filled(new) <=> Place(b, slot) < Filled(b)
        BY <1>5, <1>7, <4>1
      <4>3. First(c)' + Place(new, slot) = First(c) + Place(b, slot)
        BY <1>3, <1>12, <2>2, <4>1, Facts
      <4>4. b.data[slot] =
              IF Place(b, slot) < Filled(b)
                THEN First(c) + Place(b, slot)
                ELSE IF producer = "publish" /\ c = tailBlock /\ slot = b.tail
                     THEN accepted + 1 ELSE Raw
        BY <2>2, <3>2, Held DEF b
      <4> QED BY <1>2, <1>3, <1>7, <2>2, <4>2, <4>3, <4>4 DEF new
    <3> QED BY <3>1, <3>2
  <2> QED BY <2>1, <2>2
<1>16. ProducerKnows'
  <2>1. Filled(blocks'[tailBlock]) <= Filled(blocks[tailBlock])
    <3>1. Filled(blocks[tailBlock]) \in Nat BY <1>1, Facts, Numbers
    <3>2. CASE tailBlock = frontBlock BY <1>5, <1>7, <3>2 DEF b, new
    <3>3. CASE tailBlock # frontBlock BY <1>13, <3>1, <3>3, Facts
    <3> QED BY <3>2, <3>3
  <2>2. /\ Filled(blocks[tailBlock]) \in Nat /\ Filled(blocks'[tailBlock]) \in Int
        /\ FilledAtMost(blocks[tailBlock]) \in Nat
    <3>1. Filled(blocks[tailBlock]) \in Nat BY <1>1, Facts, Numbers
    <3>2. FilledAtMost(blocks[tailBlock]) \in 0..blocks[tailBlock].size - 1 BY Facts, Tests
    <3>3. CASE tailBlock = frontBlock BY <1>5, <1>7, <3>1, <3>2, <3>3 DEF b, new
    <3>4. CASE tailBlock # frontBlock BY <1>13, <3>1, <3>2, <3>4, Facts
    <3> QED BY <3>3, <3>4
  <2>3. producer = "advance" =>
          blocks'[blocks[tailBlock].next] = blocks[blocks[tailBlock].next]
    <3>1. producer = "advance" => blocks[tailBlock].next # frontBlock
      BY <1>1 DEF ProducerKnows
    <3> QED BY <1>7, <3>1, Facts
  <2>4. tailBlock # frontBlock => Filled(blocks'[tailBlock]) = Filled(blocks[tailBlock])
    BY <1>13, Facts
  <2>5. held["producer"] \in Nat BY Facts DEF Threads
  <2>6. held["producer"] >= accepted - removed => held["producer"] >= accepted - removed'
    BY <1>2, <2>5, Facts
  <2>7. /\ blocks'[tailBlock].size = blocks[tailBlock].size
        /\ blocks'[tailBlock].next = blocks[tailBlock].next
        /\ FilledAtMost(blocks'[tailBlock]) = FilledAtMost(blocks[tailBlock])
    BY <1>10, Facts
  <2>8. Filled(blocks'[tailBlock]) <= FilledAtMost(blocks'[tailBlock])
    <3>1. Filled(blocks[tailBlock]) <= FilledAtMost(blocks[tailBlock])
      BY <1>1 DEF ProducerKnows
    <3> QED BY <2>1, <2>2, <2>7, <3>1
  <2> QED BY <1>1, <1>3, <2>3, <2>4, <2>6, <2>7, <2>8 DEF ProducerKnows
<1>17. ConsumerKnows'
  <2>1. FilledAtLeast(new) <= Filled(new) BY <1>5, <1>7
  <2> QED BY <1>2, <1>3, <2>1 DEF ConsumerKnows, new
<1>18. BlockBounds' BY <1>1, <1>3, <1>7, <1>10 DEF BlockBounds
<1>19. ValuesInOrder' /\ RefusesOnlyWhenFull' /\ FindsNothingOnlyWhenEmpty'
  BY <1>2, <1>3, <1>4, <1>5, Facts
  DEF QueueInv, ValuesInOrder, RefusesOnlyWhenFull, FindsNothingOnlyWhenEmpty
<1> QED BY <1>9, <1>11, <1>14, <1>15, <1>16, <1>17, <1>18, <1>19 DEF QueueInv

\* The same circle, walked from the block behind the front block.
LEMMA CircleTurns ==
  ASSUME BlocksOK, frontBlock \in BlockNumbers, OneCircle,
         UNCHANGED blocks, frontBlock' = blocks[frontBlock].next
  PROVE  OneCircle'
<1>1. PICK N : N = Len(blocks) OBVIOUS
<1>2. PICK ring : ring = [m \in 0..N - 1 |-> BlockAt[m]] OBVIOUS
<1> DEFINE After1(m) == IF m = N - 1 THEN 0 ELSE m + 1
           f == [m \in 0..N - 1 |-> ring[After1(m)]]
<1>3. /\ N \in Nat /\ N > 0
      /\ \A m \in 0..N - 1 : After1(m) \in 0..N - 1
      /\ \A l, m \in 0..N - 1 : After1(l) = After1(m) => l = m
  <2>1. N \in Nat /\ N > 0 BY <1>1, CircleFacts DEF BlockNumbers
  <2> QED BY <2>1
<1>4. /\ \A m \in 0..N - 1 : ring[m] \in BlockNumbers
      /\ \A l, m \in 0..N - 1 : ring[l] = ring[m] => l = m
      /\ \A b \in BlockNumbers : \E m \in 0..N - 1 : ring[m] = b
      /\ \A m \in 0..N - 1 : blocks[ring[m]].next = ring[After1(m)]
      /\ ring[0] = frontBlock
  <2>1. /\ \A m \in 0..N - 1 : BlockAt[m] \in BlockNumbers
        /\ \A l, m \in 0..N - 1 : BlockAt[l] = BlockAt[m] => l = m
        /\ \A b \in BlockNumbers : \E m \in 0..N - 1 : BlockAt[m] = b
        /\ \A m \in 0..N - 1 : blocks[BlockAt[m]].next = BlockAt[After1(m)]
        /\ BlockAt[0] = frontBlock
    BY <1>1, CircleFacts
  <2>2. \A m \in 0..N - 1 : ring[m] = BlockAt[m] BY <1>2
  <2>3. 0 \in 0..N - 1 BY <1>3
  <2> HIDE DEF After1
  <2>4. \A m \in 0..N - 1 : blocks[ring[m]].next = ring[After1(m)] BY <1>3, <2>1, <2>2
  <2> QED BY <2>1, <2>2, <2>3, <2>4
<1> HIDE DEF After1
<1>5. \A m \in 0..N - 1 : f[m] = ring[After1(m)] OBVIOUS
<1>6. DOMAIN f = 0..N - 1 /\ f \in [0..N - 1 -> BlockNumbers] BY <1>3, <1>4
<1> HIDE DEF f
<1>7. f[0] = frontBlock'
  <2>1. 0 \in 0..N - 1 BY <1>3
  <2> QED BY <1>4, <1>5, <2>1
<1>8. \A l, m \in 0..N - 1 : f[l] = f[m] => l = m BY <1>3, <1>4, <1>5
<1>9. \A b \in BlockNumbers : \E m \in 0..N - 1 : f[m] = b
  <2> TAKE b \in BlockNumbers
  <2>1. PICK m \in 0..N - 1 : ring[m] = b BY <1>4
  <2>2. \E l \in 0..N - 1 : After1(l) = m
    <3>1. CASE m = 0
      <4>1. N - 1 \in 0..N - 1 /\ After1(N - 1) = 0 BY <1>3 DEF After1
      <4> QED BY <3>1, <4>1
    <3>2. CASE m # 0
      <4>1. m - 1 \in 0..N - 1 /\ After1(m - 1) = m BY <1>3, <3>2 DEF After1
      <4> QED BY <4>1
    <3> QED BY <3>1, <3>2
  <2> QED BY <1>5, <2>1, <2>2
<1>10. \A m \in 0..N - 1 : blocks[f[m]].next = f[After1(m)] BY <1>3, <1>4, <1>5
<1>11. Circle(f)'
  <2>1. blocks' = blocks /\ BlockNumbers' = BlockNumbers /\ Len(blocks) = N
    BY <1>1 DEF BlockNumbers
  <2> QED BY <1>6, <1>7, <1>8, <1>9, <1>10, <2>1 DEF Circle, After1
<1>12. Circled'
  <2>1. BlocksOK' BY DEF BlocksOK, Block, BlockNumbers
  <2>2. frontBlock' \in BlockNumbers'
    <3>1. frontBlock' \in BlockNumbers BY FieldsOfAll
    <3> QED BY <3>1 DEF BlockNumbers
  <2> QED BY <1>11, <2>1, <2>2 DEF Circled
<1>13. Circled' => OneCircle' BY CircleSuffices, PTL
<1> QED BY <1>12, <1>13

\* The block the consumer leaves goes out of use.
LEMMA FrontAdvanced ==
  ASSUME QueueInv, AdvanceFrontBlock,
         NEW old, old = frontBlock, NEW next, next = blocks[frontBlock].next
  PROVE  /\ Filled(blocks[old]) = 0 /\ Live(next) /\ next # old
         /\ \A c \in BlockNumbers : c # old => First(c)' = First(c) /\ Behind(c)' = Behind(c)
         /\ ~Live(old)'
         /\ \A c \in BlockNumbers : c # old => (Live(c)' <=> Live(c))
<1>1. /\ consumer = "advance" /\ frontBlock' = next
      /\ UNCHANGED <<blocks, tailBlock, producer, accepted, removed>>
  BY DEF AdvanceFrontBlock, consumerRest, producerVars
<1>2. old # tailBlock /\ Filled(blocks[old]) = 0 BY <1>1 DEF QueueInv, ConsumerKnows
<1>3. /\ next # old /\ Filled(blocks[next]) > 0 /\ First(next) = removed + 1 /\ Live(next)
      /\ blocks[next].data[blocks[next].front] = removed + 1
  BY <1>2, NextOfFront
<1>4. \A c \in BlockNumbers : c # old => First(c)' = First(c) BY <1>1, <1>3 DEF First
<1>5. \A c \in BlockNumbers : c # old => Behind(c)' = Behind(c) BY <1>1, <1>4 DEF Behind
<1>6. ~Live(old)' BY <1>1, <1>2, <1>3 DEF Live
<1>7. \A c \in BlockNumbers : c # old => (Live(c)' <=> Live(c))
  <2>1. \A c \in BlockNumbers : Entering(c)' <=> Entering(c) BY <1>1 DEF Entering
  <2>2. \A c \in BlockNumbers : c # old => (Live(c)' <=> c = next \/ Live(c))
    BY <1>1, <2>1 DEF Live
  <2> QED BY <1>3, <2>2
<1> QED BY <1>2, <1>3, <1>4, <1>5, <1>6, <1>7

\* The consumer moves into the next block.
LEMMA AdvanceFrontBlockKeeps ==
  ASSUME QueueInv, AdvanceFrontBlock
  PROVE  QueueInv'
<1>1. PICK old : old = frontBlock OBVIOUS
<1>2. PICK next : next = blocks[frontBlock].next OBVIOUS
<1>3. TypeOK /\ BlocksFollow /\ ProducerKnows /\ ConsumerKnows /\ BlockBounds BY DEF QueueInv
<1>4. consumer = "advance" /\ consumer' = "take" /\ frontBlock' = next
  BY <1>2 DEF AdvanceFrontBlock
<1>5. UNCHANGED <<blocks, tailBlock, largestBlockSize, producer, mode, accepted, op, got, removed,
                  sizing, held, outcome>>
  BY DEF AdvanceFrontBlock, consumerRest, producerVars, Continue
<1>6. /\ old # tailBlock /\ Filled(blocks[old]) = 0
      /\ op # "peek" /\ FilledAtLeast(blocks[next]) \in 1..Filled(blocks[next])
      /\ held["consumer"] <= accepted - removed /\ outcome["consumer"] = "none"
  BY <1>1, <1>2, <1>3, <1>4 DEF ConsumerKnows
<1>7. /\ next # old /\ Filled(blocks[next]) > 0 /\ Live(next)
      /\ blocks[next].data[blocks[next].front] = removed + 1
  BY <1>1, <1>2, <1>6, NextOfFront
<1>8. old \in BlockNumbers /\ next \in BlockNumbers /\ tailBlock \in BlockNumbers
  BY <1>1, <1>2, Facts
<1>9. BlockNumbers' = BlockNumbers BY <1>5 DEF BlockNumbers
<1>10. BlocksKept BY <1>5, Facts, NoBlockChanged
<1>11. TypeOK' BY <1>3, <1>4, <1>5, <1>8, <1>9, <1>10 DEF TypeOK, BlocksKept
<1>12. OneCircle' BY <1>2, <1>4, <1>5, Facts, CircleTurns
<1>13. \A c \in BlockNumbers : c # old => First(c)' = First(c) BY <1>1, <1>2, FrontAdvanced
<1>14. \A c \in BlockNumbers : Filled(blocks'[c]) = Filled(blocks[c]) BY <1>5
<1>15. ~Live(old)' BY <1>1, <1>2, FrontAdvanced
<1>16. \A c \in BlockNumbers : c # old => (Live(c)' <=> Live(c)) BY <1>1, <1>2, FrontAdvanced
<1>17. \A c \in BlockNumbers : c # old => blocks[c].next # next
  BY <1>1, <1>2, <1>8, Facts, CircleFacts
<1>18. BlocksFollow'
  <2>1. \A c \in BlockNumbers : c # old => Behind(c)' = Behind(c) BY <1>5, <1>13 DEF Behind
  <2>2. \A c \in BlockNumbers : blocks[c].next \in BlockNumbers BY Facts, FieldsOfAll
  <2>3. ASSUME NEW c \in BlockNumbers, Live(c)'
        PROVE  /\ Behind(c)' <= accepted' + 1
               /\ c # tailBlock' =>
                    /\ blocks'[c].next # frontBlock'
                    /\ Filled(blocks'[blocks'[c].next]) > 0
                    /\ First(blocks[c].next)' = Behind(c)'
                    /\ c # frontBlock' => Filled(blocks'[c]) = blocks'[c].size - 1
    <3>1. c # old /\ Live(c) BY <1>15, <1>16, <2>3
    <3>2. /\ Behind(c) <= accepted + 1
          /\ c # tailBlock =>
               /\ blocks[c].next # old
               /\ Filled(blocks[blocks[c].next]) > 0
               /\ First(blocks[c].next) = Behind(c)
               /\ Filled(blocks[c]) = blocks[c].size - 1
      BY <1>1, <1>3, <3>1 DEF BlocksFollow
    <3>3. c # tailBlock => First(blocks[c].next)' = First(blocks[c].next)
      <4>1. PICK d : d = blocks[c].next OBVIOUS
      <4>2. c # tailBlock => First(d)' = First(d) BY <1>13, <2>2, <3>2, <4>1
      <4>3. blocks'[c].next = d BY <1>5, <4>1
      <4> QED BY <4>1, <4>2, <4>3
    <3> QED BY <1>4, <1>5, <1>17, <2>1, <3>1, <3>2, <3>3
  <2>4. ASSUME NEW c \in BlockNumbers, c = tailBlock' \/ ~Live(c)'
        PROVE  blocks'[c].next = frontBlock' \/ ~Live(blocks[c].next)'
    <3>1. CASE c = old BY <1>1, <1>2, <1>4, <1>5, <3>1
    <3>2. CASE c # old
      <4>1. PICK d : d = blocks[c].next OBVIOUS
      <4>2. c = tailBlock \/ ~Live(c) BY <1>5, <1>16, <2>4, <3>2
      <4>3. d = old \/ ~Live(d) BY <1>1, <1>3, <4>1, <4>2 DEF BlocksFollow
      <4>4. ~Live(d)' BY <1>15, <1>16, <2>2, <4>1, <4>3
      <4>5. blocks'[c].next = d BY <1>5, <4>1
      <4> QED BY <4>4, <4>5
    <3> QED BY <3>1, <3>2
  <2>5. Behind(tailBlock)' = accepted' + 1
    <3>1. PICK d : d = tailBlock OBVIOUS
    <3>2. Behind(d)' = accepted + 1 BY <1>3, <1>6, <1>8, <2>1, <3>1 DEF BlocksFollow
    <3> QED BY <1>5, <3>1, <3>2
  <2>6. Filled(blocks[tailBlock]) > 0 BY <1>1, <1>3, <1>6 DEF BlocksFollow
  <2> QED BY <1>5, <1>9, <2>3, <2>4, <2>5, <2>6 DEF BlocksFollow
<1>19. SlotsHold'
  <2> SUFFICES ASSUME NEW c \in BlockNumbers, NEW slot \in 0..blocks[c].size - 1
               PROVE  (blocks[c].data[slot] =
                         IF Place(blocks[c], slot) < Filled(blocks[c])
                           THEN IF consumer = "release" /\ c = frontBlock /\ slot = blocks[c].front
                                THEN Raw ELSE First(c) + Place(blocks[c], slot)
                           ELSE IF producer = "publish" /\ c = tailBlock /\ slot = blocks[c].tail
                                THEN accepted + 1 ELSE Raw)'
    BY <1>5, <1>9 DEF SlotsHold
  <2>1. /\ Place(blocks[c], slot) \in Nat
        /\ blocks[c].data[slot] =
             IF Place(blocks[c], slot) < Filled(blocks[c])
               THEN First(c) + Place(blocks[c], slot)
               ELSE IF producer = "publish" /\ c = tailBlock /\ slot = blocks[c].tail
                    THEN accepted + 1 ELSE Raw
    BY <1>4, Held
  <2>2. CASE c # old
    <3>1. First(c)' = First(c) BY <1>13, <2>2
    <3> QED BY <1>4, <1>5, <2>1, <3>1
  <2>3. CASE c = old
    <3>1. ~(Place(blocks[c], slot) < Filled(blocks[c])) BY <1>6, <2>1, <2>3
    <3> QED BY <1>5, <2>1, <3>1
  <2> QED BY <2>2, <2>3
<1>20. ProducerKnows'
  <2>1. producer = "advance" => blocks[tailBlock].next \notin {next, tailBlock}
    <3>1. blocks[tailBlock].next # next BY <1>6, <1>8, <1>17
    <3> QED BY <1>3, <3>1 DEF ProducerKnows
  <2>2. producer = "nextBlock" => blocks[tailBlock].next # next BY <1>6, <1>8, <1>17
  <2>3. tailBlock # frontBlock BY <1>1, <1>6
  <2> QED BY <1>3, <1>4, <1>5, <2>1, <2>2, <2>3 DEF ProducerKnows
<1>21. ConsumerKnows'
  <2>1. FilledAtLeast(blocks[next]) <= Filled(blocks[next]) /\ FilledAtLeast(blocks[next]) > 0
    <3>1. Filled(blocks[next]) \in Int BY <1>3, <1>8, Numbers
    <3> QED BY <1>6, <3>1
  <2> QED BY <1>4, <1>5, <1>6, <2>1 DEF ConsumerKnows
<1>22. BlockBounds' BY <1>3, <1>5, <1>9 DEF BlockBounds
<1>23. ValuesInOrder' /\ RefusesOnlyWhenFull' /\ FindsNothingOnlyWhenEmpty'
  BY <1>4, <1>5, AnswersStay
<1> QED BY <1>11, <1>12, <1>18, <1>19, <1>20, <1>21, <1>22, <1>23 DEF QueueInv

(***************************************************************************)
(* The theorems.                                                           *)
(***************************************************************************)
\* Nothing at all happens.
LEMMA StutterKeeps ==
  ASSUME QueueInv, UNCHANGED vars
  PROVE  QueueInv'
<1>1. UNCHANGED <<blocks, frontBlock, tailBlock, largestBlockSize, producer, consumer, mode, op,
                  got, sizing, accepted, removed, held, outcome>>
  BY DEF vars, producerVars, consumerVars
<1>2. BlocksKept BY <1>1, Facts, NoBlockChanged
<1>3. TypeOK /\ BlockBounds BY DEF QueueInv
<1>4. TypeOK' BY <1>1, <1>2, <1>3 DEF TypeOK, BlocksKept
<1>5. OneCircle' /\ SlotsHold' /\ BlocksFollow' /\ BlockBounds'
  BY <1>1, <1>2, <1>3, ContentsStay DEF BlockBounds
<1>6. ProducerKnows' BY <1>1, <1>2, ProducerStays
<1>7. ConsumerKnows' BY <1>1, <1>2, ConsumerStays
<1>8. ValuesInOrder' /\ RefusesOnlyWhenFull' /\ FindsNothingOnlyWhenEmpty' BY <1>1, AnswersStay
<1> QED BY <1>4, <1>5, <1>6, <1>7, <1>8 DEF QueueInv

\* Every step keeps the invariant.
LEMMA NextInvariant ==
  ASSUME QueueInv, [Next]_vars
  PROVE  QueueInv'
<1>1. CASE ProducerNext
  <2>1. ASSUME NEW m \in Modes, Enqueue(m) PROVE QueueInv' BY <2>1, EnqueueKeeps
  <2>2. CASE RefreshFront BY <2>2, RefreshFrontKeeps
  <2>3. CASE WriteElement BY <2>3, WriteElementKeeps
  <2>4. CASE PublishElement BY <2>4, PublishElementKeeps
  <2>5. CASE TailBlockFull BY <2>5, TailBlockFullKeeps
  <2>6. CASE UseNextBlock BY <2>6, UseNextBlockKeeps
  <2>7. CASE AllocateBlock BY <2>7, AllocateBlockKeeps
  <2>8. CASE AdvanceTailBlock BY <2>8, AdvanceTailBlockKeeps
  <2> QED BY <1>1, <2>1, <2>2, <2>3, <2>4, <2>5, <2>6, <2>7, <2>8 DEF ProducerNext
<1>2. CASE ConsumerNext
  <2>1. ASSUME NEW o \in {"try_dequeue", "pop", "peek"}, Dequeue(o) PROVE QueueInv'
    BY <2>1, DequeueKeeps
  <2>2. CASE RefreshTail
    <3>1. /\ consumer = "refresh" /\ ReadTail("tailBlock") /\ Continue
          /\ UNCHANGED <<frontBlock, op, got, removed, consumerRest>>
      BY <2>2 DEF RefreshTail
    <3> QED BY <3>1, ReadTailKeeps
  <2>3. CASE CheckTailBlock BY <2>3, CheckTailBlockKeeps
  <2>4. CASE Recheck
    <3>1. /\ consumer = "recheck" /\ ReadTail("nextBlock") /\ Continue
          /\ UNCHANGED <<frontBlock, op, got, removed, consumerRest>>
      BY <2>4 DEF Recheck
    <3> QED BY <3>1, ReadTailKeeps
  <2>5. CASE NextBlockTail BY <2>5, PeekNextBlockKeeps, NextBlockTailKeeps
  <2>6. CASE AdvanceFrontBlock BY <2>6, AdvanceFrontBlockKeeps
  <2>7. CASE TakeElement BY <2>7, PeekElementKeeps, TakeElementKeeps
  <2>8. CASE ReleaseSlot BY <2>8, ReleaseSlotKeeps
  <2> QED BY <1>2, <2>1, <2>2, <2>3, <2>4, <2>5, <2>6, <2>7, <2>8 DEF ConsumerNext
<1>3. ASSUME NEW t \in SizeCallers, SizeNext(t) PROVE QueueInv' BY <1>3, SizeKeeps
<1>4. CASE UNCHANGED vars BY <1>4, StutterKeeps
<1> QED BY <1>1, <1>2, <1>3, <1>4 DEF Next

\* For every size, every largest size of a block and every use of the queue, the
\* blocks stay one circle, each slot holds what its place says, and what a thread
\* has read of the other's indices is safe to act on.
THEOREM QueueInvariant == Spec => []QueueInv
<1>1. QueueInv /\ [Next]_vars => QueueInv' BY NextInvariant
<1> QED BY <1>1, InitInvariant, PTL DEF Spec

\* Types, and no index is ever outside its block.
THEOREM QueueTypes == Spec => []TypeOK
<1>1. QueueInv => TypeOK BY DEF QueueInv
<1> QED BY <1>1, QueueInvariant, PTL

\* The producer constructs an element only in a slot without one, the consumer
\* reads only a slot with one, and the two are never in the same slot.
THEOREM QueueSlotExclusive == Spec => []SlotExclusive
<1>1. QueueInv => SlotExclusive
  <2> SUFFICES ASSUME QueueInv PROVE SlotExclusive OBVIOUS
  <2> DEFINE in == blocks[tailBlock]
             out == blocks[frontBlock]
  <2>1. producer = "write" => in.data[in.tail] = Raw
    <3>1. in.tail \in 0..in.size - 1 BY Facts DEF Indices
    <3>2. Place(in, in.tail) = Filled(in) /\ Filled(in) \in Nat BY <3>1, Facts, Held
    <3>3. producer = "write" => in.data[in.tail] = Raw BY <3>1, <3>2, Facts, Held
    <3> QED BY <3>3
  <2>2. consumer = "take" => out.data[out.front] # Raw
    <3>1. consumer = "take" => out.data[out.front] = removed + 1 BY FrontElement
    <3>2. removed + 1 # Raw BY Facts DEF Raw
    <3> QED BY <3>1, <3>2
  <2>3. producer = "write" /\ consumer = "take" /\ tailBlock = frontBlock => in.tail # out.front
    BY <2>1, <2>2
  <2> QED BY <2>1, <2>2, <2>3 DEF SlotExclusive
<1> QED BY <1>1, QueueInvariant, PTL

\* The assertions in the code: the block the producer moves into is empty, the
\* one the consumer moves into is not.
THEOREM QueueAssertions == Spec => []AssertionsHold
<1>1. QueueInv => AssertionsHold
  <2> SUFFICES ASSUME QueueInv PROVE AssertionsHold OBVIOUS
  <2>1. producer = "nextBlock" => blocks[tailBlock].next # frontBlock
    BY DEF QueueInv, ProducerKnows
  <2>2. consumer = "nextBlock" => frontBlock # tailBlock /\ Filled(blocks[frontBlock]) = 0
    BY DEF QueueInv, ConsumerKnows
  <2> QED BY <2>1, <2>2, NextOfTail, NextOfFront DEF AssertionsHold
<1> QED BY <1>1, QueueInvariant, PTL

\* The consumer gets every element once and in order.
THEOREM QueueValuesInOrder == Spec => []ValuesInOrder
<1>1. QueueInv => ValuesInOrder BY DEF QueueInv
<1> QED BY <1>1, QueueInvariant, PTL

\* The constructor's promise: as many elements as asked for fit in without another
\* allocation, whatever the wrap-around and wherever the consumer is.
THEOREM QueueRefusesOnlyWhenFull == Spec => []RefusesOnlyWhenFull
<1>1. QueueInv => RefusesOnlyWhenFull BY DEF QueueInv
<1> QED BY <1>1, QueueInvariant, PTL

\* No call finds the queue empty that was not so at some time during the call.
THEOREM QueueFindsNothingOnlyWhenEmpty == Spec => []FindsNothingOnlyWhenEmpty
<1>1. QueueInv => FindsNothingOnlyWhenEmpty BY DEF QueueInv
<1> QED BY <1>1, QueueInvariant, PTL

(***************************************************************************)
(* What the queue holds.                                                   *)
(***************************************************************************)
\* A function that is a sequence.
LEMMA SeqIs ==
  ASSUME NEW S, NEW n \in Nat, NEW s \in [1..n -> S]
  PROVE  s \in Seq(S) /\ Len(s) = n
<1>1. s \in Seq(S) BY SMT
<1>2. DOMAIN s = 1..n /\ DOMAIN s = 1..Len(s) /\ Len(s) \in Nat BY <1>1
<1> QED BY <1>1, <1>2

\* Sequences, each with the part of run that comes behind the one before it.
Parts(seqs, n, upTo, run) ==
  /\ DOMAIN seqs = 1..n /\ Len(seqs) = n /\ upTo \in [0..n -> Nat] /\ upTo[0] = 0
  /\ \A i \in 1..n :
       /\ upTo[i - 1] <= upTo[i] /\ upTo[i] <= upTo[n]
       /\ seqs[i] = [j \in 1..upTo[i] - upTo[i - 1] |-> run[upTo[i - 1] + j]]

\* Put one behind the other, such parts are the whole run.
LEMMA FlattenedRun ==
  ASSUME NEW n \in Nat \ {0}, NEW S, NEW seqs, NEW upTo, NEW run \in [1..upTo[n] -> S],
         Parts(seqs, n, upTo, run)
  PROVE  FlattenSeq(seqs) = run
<1>0. \A k \in 1..upTo[n] : run[k] \in S OBVIOUS
<1> USE DEF Parts
<1> DEFINE G(g) == [i \in 1..n |-> IF i = 1 THEN seqs[i] ELSE g[i - 1] \o seqs[i]]
           f == [i \in 1..n |-> [k \in 1..upTo[i] |-> run[k]]]
<1>1. \A i \in 1..n : f[i] = IF i = 1 THEN seqs[i] ELSE f[i - 1] \o seqs[i]
  <2> TAKE i \in 1..n
  <2>1. CASE i = 1
    <3>1. seqs[1] = [j \in 1..upTo[1] |-> run[j]]
      <4>1. seqs[1] = [j \in 1..upTo[1] - upTo[0] |-> run[upTo[0] + j]]
        <5>1. 1 \in 1..n /\ 1 - 1 = 0 OBVIOUS
        <5> QED BY <5>1
      <4>2. upTo[1] - upTo[0] = upTo[1] /\ \A j \in 1..upTo[1] : upTo[0] + j = j
        <5>1. upTo[1] \in Nat OBVIOUS
        <5> QED BY <5>1
      <4> QED BY <4>1, <4>2
    <3> QED BY <2>1, <3>1
  <2>2. CASE i # 1
    <3>1. i - 1 \in 1..n /\ upTo[i] \in Nat /\ upTo[i - 1] \in Nat
      BY <2>2
    <3>2. upTo[i - 1] <= upTo[i] /\ upTo[i] <= upTo[n] /\ upTo[n] \in Nat OBVIOUS
    <3> DEFINE a == upTo[i - 1]  b == upTo[i]
    <3>3. seqs[i] = [j \in 1..b - a |-> run[a + j]] OBVIOUS
    <3>4. f[i - 1] = [k \in 1..a |-> run[k]] /\ f[i] = [k \in 1..b |-> run[k]] BY <3>1
    <3>5. a \in Nat /\ b \in Nat /\ a <= b /\ b <= upTo[n] BY <3>1, <3>2
    <3>6. f[i - 1] \in Seq(S) /\ Len(f[i - 1]) = a
      <4>1. \A k \in 1..a : run[k] \in S BY <1>0, <3>2, <3>5
      <4> HIDE DEF f, a, b
      <4>2. [k \in 1..a |-> run[k]] \in [1..a -> S] BY <4>1
      <4>3. f[i - 1] \in [1..a -> S] BY <3>4, <4>2
      <4> QED BY <3>5, <4>3, SeqIs
    <3>7. seqs[i] \in Seq(S) /\ Len(seqs[i]) = b - a
      <4>1. \A k \in 1..b - a : run[a + k] \in S BY <3>2, <3>5
      <4>2. b - a \in Nat BY <3>5
      <4> HIDE DEF f, a, b
      <4>3. PICK c : c = b - a OBVIOUS
      <4>4. seqs[i] = [j \in 1..c |-> run[a + j]] BY <3>3, <4>3
      <4>5. seqs[i] \in [1..c -> S] BY <4>1, <4>3, <4>4
      <4> QED BY <4>2, <4>3, <4>5, SeqIs
    <3>8. f[i] \in Seq(S) /\ Len(f[i]) = b
      <4>1. \A k \in 1..b : run[k] \in S BY <1>0, <3>2, <3>5
      <4> HIDE DEF f, a, b
      <4>2. [k \in 1..b |-> run[k]] \in [1..b -> S] BY <4>1
      <4>3. f[i] \in [1..b -> S] BY <3>4, <4>2
      <4> QED BY <3>5, <4>3, SeqIs
    <3> HIDE DEF f, a, b
    <3>9. /\ f[i - 1] \o seqs[i] \in Seq(S) /\ Len(f[i - 1] \o seqs[i]) = b
          /\ \A k \in 1..b : (f[i - 1] \o seqs[i])[k] =
                               IF k <= a THEN f[i - 1][k] ELSE seqs[i][k - a]
      <4>1. a + (b - a) = b BY <3>5
      <4>2. PICK s1, s2 : s1 = f[i - 1] /\ s2 = seqs[i] OBVIOUS
      <4>3. s1 \in Seq(S) /\ s2 \in Seq(S) BY <3>6, <3>7, <4>2
      <4>4. /\ s1 \o s2 \in Seq(S) /\ Len(s1 \o s2) = Len(s1) + Len(s2)
            /\ \A k \in 1..Len(s1) + Len(s2) :
                 (s1 \o s2)[k] = IF k <= Len(s1) THEN s1[k] ELSE s2[k - Len(s1)]
        BY <4>3, ConcatProperties
      <4>5. Len(s1) = a /\ Len(s2) = b - a BY <3>6, <3>7, <4>2
      <4>6. /\ s1 \o s2 \in Seq(S) /\ Len(s1 \o s2) = b
            /\ \A k \in 1..b : (s1 \o s2)[k] = IF k <= a THEN s1[k] ELSE s2[k - a]
        BY <4>1, <4>4, <4>5
      <4> QED BY <4>2, <4>6
    <3>10. \A k \in 1..b : (f[i - 1] \o seqs[i])[k] = f[i][k]
      BY <3>3, <3>4, <3>5, <3>9
    <3>11. f[i - 1] \o seqs[i] = f[i] BY <3>8, <3>9, <3>10, SeqEqual, ZenonT(60)
    <3> QED BY <2>2, <3>11
  <2> QED BY <2>1, <2>2
<1>2. f = G(f)
  <2> HIDE DEF f
  <2>1. DOMAIN f = 1..n /\ f = [i \in 1..n |-> f[i]] BY DEF f
  <2> QED BY <1>1, <2>1
<1> DEFINE g == CHOOSE h : h = G(h)
<1>3. g = G(g) 
  <2> HIDE DEF f
  <2> QED BY <1>2
<1> HIDE DEF f, g
<1>4. \A i \in 1..n : g[i] = IF i = 1 THEN seqs[i] ELSE g[i - 1] \o seqs[i] BY <1>3
<1>5. \A i \in 1..n : g[i] = f[i]
  <2> DEFINE T == {i \in 1..n : g[i] # f[i]}
  <2> SUFFICES ASSUME T # {} PROVE FALSE OBVIOUS
  <2>1. T \in SUBSET Nat OBVIOUS
  <2>2. PICK x \in T : \A y \in T : x <= y
    <3> HIDE DEF T
    <3> QED BY <2>1, Least, Zenon
  <2>3. x # 1 BY <1>1, <1>4
  <2>4. x - 1 \in 1..n /\ x - 1 \notin T BY <2>2, <2>3
  <2>5. g[x - 1] = f[x - 1] BY <2>4
  <2> QED BY <1>1, <1>4, <2>3, <2>5
<1>6. FlattenSeq(seqs) = g[n]
  <2>1. Len(seqs) # 0 OBVIOUS
  <2> QED BY <2>1 DEF FlattenSeq, g
<1>7. g[n] = f[n] BY <1>5
<1>8. f[n] = run BY DEF f
<1> QED BY <1>6, <1>7, <1>8

\* The elements of a block are in order.
LEMMA ElementAt ==
  ASSUME QueueInv, NEW b \in BlockNumbers, NEW j \in 1..Filled(blocks[b])
  PROVE  /\ Filled(blocks[b]) \in Nat
         /\ BlockContents(blocks[b])[j] = IF consumer = "release" /\ b = frontBlock /\ j = 1
                                          THEN Raw ELSE First(b) + (j - 1)
<1> DEFINE r == blocks[b]
           slot == (r.front + j - 1) % r.size
<1>1. Indices(r) BY Facts, FieldsOfAll
<1>2. Filled(r) \in 0..r.size - 1 BY <1>1, Places
<1>3. r.size \in Nat /\ r.size >= 2 /\ r.front \in 0..r.size - 1 BY <1>1 DEF Indices
<1>4. j \in 1..r.size - 1
  <2> HIDE DEF r
  <2> QED BY <1>2, <1>3 DEF r
<1>5. BlockContents(r)[j] = r.data[slot] BY DEF BlockContents
<1>6. slot \in 0..r.size - 1 /\ Place(r, slot) = j - 1
  <2>1. PICK x : x = r.front + j - 1 OBVIOUS
  <2>2. PICK s : s = r.size OBVIOUS
  <2>3. s \in Nat /\ s >= 2 /\ x \in 0..2 * s - 2 BY <1>3, <1>4, <2>1, <2>2
  <2>4. x % s = IF x < s THEN x ELSE x - s
    <3>1. CASE x < s BY <2>3, <3>1
    <3>2. CASE x >= s
      <4>1. x - s \in 0..s - 1 /\ x = s + (x - s) BY <2>3, <3>2
      <4>2. (s + (x - s)) % s = x - s BY <2>3, <4>1
      <4> QED BY <2>3, <3>2, <4>1, <4>2
    <3> QED BY <2>3, <3>1, <3>2
  <2>5. slot \in 0..s - 1 /\ slot = IF x < s THEN x ELSE x - s
    BY <2>1, <2>2, <2>3, <2>4
  <2>6. Place(r, slot) = IF r.front <= slot THEN slot - r.front ELSE slot + s - r.front
    BY <1>1, <2>2, <2>5, Places
  <2> HIDE DEF slot, r
  <2> QED BY <1>3, <1>4, <2>1, <2>2, <2>5, <2>6
<1> HIDE DEF slot
<1>7. Place(r, slot) < Filled(r)
  <2> HIDE DEF r
  <2> QED BY <1>2, <1>3, <1>6 DEF r
<1>8. slot = r.front <=> j = 1 BY <1>6, Held
<1>9. r.data[slot] = IF consumer = "release" /\ b = frontBlock /\ slot = r.front
                     THEN Raw ELSE First(b) + Place(r, slot)
  BY <1>6, <1>7, Held
<1> QED BY <1>2, <1>5, <1>6, <1>8, <1>9

\* On the way from the front block to the tail block every block goes on where
\* the one before it ends.
LEMMA Walk ==
  ASSUME QueueInv, NEW d \in 0..Len(blocks) - 1, BlockAt[d] = tailBlock
  PROVE  \A n \in 0..d : /\ BlockAt[n] \in BlockNumbers /\ Live(BlockAt[n])
                         /\ n # 0 => First(BlockAt[n]) = Behind(BlockAt[n - 1])
<1>1. TypeOK /\ OneCircle /\ BlocksFollow BY DEF QueueInv
<1>2. PICK N : N = Len(blocks) OBVIOUS
<1>3. /\ N \in Nat
      /\ \A n \in 0..N - 1 : BlockAt[n] \in BlockNumbers
      /\ \A m, n \in 0..N - 1 : BlockAt[m] = BlockAt[n] => m = n
      /\ \A n \in 0..N - 1 : blocks[BlockAt[n]].next = BlockAt[IF n = N - 1 THEN 0 ELSE n + 1]
  BY <1>2, Facts, CircleFacts
<1>4. d \in 0..N - 1 BY <1>2
<1>5. \A n \in 0..d : Live(BlockAt[n])
  <2>1. \A b \in BlockNumbers : 0 <= blocks[b].size - 1 BY <1>1, Numbers
  <2> QED BY <1>1, <2>1, InOrder
<1>6. \A n \in 0..d : BlockAt[n] \in BlockNumbers BY <1>3, <1>4
<1>7. ASSUME NEW n \in 0..d, n # 0 PROVE First(BlockAt[n]) = Behind(BlockAt[n - 1])
  <2>1. n - 1 \in 0..d /\ n - 1 \in 0..N - 1 /\ n - 1 # N - 1 /\ n - 1 # d
    BY <1>3, <1>4, <1>7
  <2>2. blocks[BlockAt[n - 1]].next = BlockAt[n] BY <1>3, <2>1
  <2>3. BlockAt[n - 1] # tailBlock BY <1>3, <1>4, <2>1
  <2>4. BlockAt[n - 1] \in BlockNumbers /\ Live(BlockAt[n - 1]) BY <1>5, <1>6, <2>1
  <2> QED BY <1>1, <2>2, <2>3, <2>4 DEF BlocksFollow
<1> QED BY <1>5, <1>6, <1>7

Run == [i \in 1..accepted - removed |-> removed + i]

InRun == Contents = Run

\* What is in the queue are the elements accepted and not removed, in order.
LEMMA ContentsAre == QueueInv => InRun
<1> SUFFICES ASSUME QueueInv PROVE Contents = Run BY DEF InRun
<1>1. TypeOK /\ OneCircle /\ BlocksFollow /\ ConsumerKnows BY DEF QueueInv
<1>2. PICK N : N = Len(blocks) OBVIOUS
<1>3. /\ N \in Nat
      /\ \A n \in 0..N - 1 : BlockAt[n] \in BlockNumbers
      /\ \A m, n \in 0..N - 1 : BlockAt[m] = BlockAt[n] => m = n
      /\ \A b \in BlockNumbers : \E n \in 0..N - 1 : BlockAt[n] = b
      /\ \A n \in 0..N - 1 : blocks[BlockAt[n]].next = BlockAt[IF n = N - 1 THEN 0 ELSE n + 1]
      /\ BlockAt[0] = frontBlock
  BY <1>2, Facts, CircleFacts
<1>4. PICK d : d = TailDistance OBVIOUS
<1>5. d \in 0..N - 1 /\ BlockAt[d] = tailBlock
  <2>1. \E n \in 0..N - 1 : BlockAt[n] = tailBlock BY <1>3, Facts
  <2> QED BY <1>2, <1>4, <2>1 DEF TailDistance
<1>6. \A n \in 0..d : /\ Live(BlockAt[n])
                      /\ n # 0 => First(BlockAt[n]) >= Behind(frontBlock)
  <2>1. \A b \in BlockNumbers : 0 <= blocks[b].size - 1 BY <1>1, Numbers
  <2>2. \A n \in 0..d : /\ Live(BlockAt[n])
                        /\ n # 0 => First(BlockAt[n]) >= Behind(frontBlock) + (n - 1) * 0
    BY <1>1, <1>2, <1>5, <2>1, InOrder
  <2>3. Behind(frontBlock) \in Nat BY <1>1, Facts, Numbers
  <2> QED BY <2>2, <2>3
<1>7. \A n \in 0..d : n # 0 => First(BlockAt[n]) = Behind(BlockAt[n - 1])
  BY <1>2, <1>5, Walk
<1> DEFINE n == d + 1
           block(i) == BlockAt[i - 1]
           upTo == [i \in 0..n |-> IF i = 0 THEN 0 ELSE Behind(block(i)) - removed - 1]
           run == [k \in 1..accepted - removed |->
                     IF consumer = "release" /\ k = 1 THEN Raw ELSE removed + k]
           seqs == [i \in 1..n |-> BlockContents(blocks[block(i)])]
<1>8. n \in Nat \ {0} /\ removed \in Nat /\ accepted \in Nat /\ removed <= accepted
  BY <1>3, <1>5, Facts
<1>9. \A i \in 1..n : /\ i - 1 \in 0..d /\ block(i) \in BlockNumbers /\ Live(block(i))
                      /\ Filled(blocks[block(i)]) \in Nat /\ First(block(i)) \in Nat
                      /\ Behind(block(i)) = First(block(i)) + Filled(blocks[block(i)])
                      /\ Behind(block(i)) <= accepted + 1
  <2> TAKE i \in 1..n
  <2>1. i - 1 \in 0..d /\ i - 1 \in 0..N - 1 BY <1>3, <1>5
  <2>2. block(i) \in BlockNumbers /\ Live(block(i)) BY <1>3, <1>6, <2>1
  <2>3. Filled(blocks[block(i)]) \in Nat /\ First(block(i)) \in Nat BY <1>1, <2>2, Numbers
  <2>4. Behind(block(i)) <= accepted + 1 BY <1>1, <2>2 DEF BlocksFollow
  <2> QED BY <2>1, <2>2, <2>3, <2>4 DEF Behind
<1>10. First(frontBlock) = removed + 1 BY DEF First
<1>11. Behind(tailBlock) = accepted + 1 BY <1>1 DEF BlocksFollow
<1>12. \A i \in 1..n : First(block(i)) = upTo[i - 1] + removed + 1
  <2> TAKE i \in 1..n
  <2>1. i - 1 \in 0..n /\ i - 1 \in 0..d BY <1>3, <1>5
  <2>2. CASE i = 1
    <3>1. upTo[i - 1] = 0 BY <1>8, <2>2
    <3>2. block(i) = frontBlock BY <1>3, <2>2
    <3> QED BY <1>8, <1>10, <3>1, <3>2
  <2>3. CASE i # 1
    <3>1. i - 1 # 0 /\ i - 1 \in 1..n BY <1>8, <2>3
    <3>2. upTo[i - 1] = Behind(block(i - 1)) - removed - 1 BY <2>1, <3>1
    <3>3. First(block(i)) = Behind(block(i - 1)) BY <1>7, <2>1, <3>1
    <3>4. First(block(i)) \in Nat BY <1>9
    <3> HIDE DEF upTo, block
    <3> QED BY <1>8, <3>2, <3>3, <3>4
  <2> QED BY <2>2, <2>3
<1>13. \A i \in 1..n : upTo[i] = Behind(block(i)) - removed - 1 BY <1>8
<1>14. upTo \in [0..n -> Nat] /\ upTo[0] = 0
  <2>1. ASSUME NEW i \in 1..n PROVE Behind(block(i)) - removed - 1 \in Nat
    <3>1. First(block(i)) >= removed + 1
      <4>1. CASE i = 1 BY <1>3, <1>8, <1>10, <4>1
      <4>2. CASE i # 1
        <5>1. i - 1 \in 0..d /\ i - 1 # 0 BY <1>9, <4>2
        <5>2. First(block(i)) >= Behind(frontBlock) BY <1>6, <5>1
        <5>3. Behind(frontBlock) = removed + 1 + Filled(blocks[frontBlock])
              /\ Filled(blocks[frontBlock]) \in Nat
          BY <1>1, <1>10, Facts, Numbers DEF Behind
        <5>4. First(block(i)) \in Nat BY <1>9
        <5> HIDE DEF block
        <5> QED BY <1>8, <5>2, <5>3, <5>4
      <4> QED BY <4>1, <4>2
    <3>2. /\ Filled(blocks[block(i)]) \in Nat /\ First(block(i)) \in Nat
          /\ Behind(block(i)) = First(block(i)) + Filled(blocks[block(i)])
      BY <1>9
    <3> HIDE DEF block
    <3> QED BY <1>8, <3>1, <3>2
  <2> QED BY <1>8, <2>1
<1>15. upTo[n] = accepted - removed
  <2>1. n \in 1..n /\ n - 1 = d BY <1>3, <1>5
  <2>2. upTo[n] = Behind(block(n)) - removed - 1 BY <1>13, <2>1
  <2>3. block(n) = tailBlock BY <1>5, <2>1
  <2> HIDE DEF upTo, block, n
  <2> QED BY <1>8, <1>11, <2>2, <2>3
<1> HIDE DEF upTo
<1>16. \A i \in 1..n : upTo[i - 1] <= upTo[i] /\ upTo[i] <= upTo[n]
                       /\ upTo[i] - upTo[i - 1] = Filled(blocks[block(i)])
  <2> TAKE i \in 1..n
  <2>1. /\ upTo[i - 1] \in Nat /\ upTo[i] \in Nat /\ upTo[i] = Behind(block(i)) - removed - 1
        /\ First(block(i)) = upTo[i - 1] + removed + 1
    <3>1. i - 1 \in 0..n /\ i \in 0..n BY <1>3, <1>5
    <3> HIDE DEF n, block
    <3> QED BY <1>12, <1>13, <1>14, <3>1
  <2>2. /\ Filled(blocks[block(i)]) \in Nat
        /\ Behind(block(i)) = First(block(i)) + Filled(blocks[block(i)])
        /\ Behind(block(i)) <= accepted + 1 /\ Behind(block(i)) \in Nat
    BY <1>9
  <2> HIDE DEF block, n
  <2> QED BY <1>8, <1>15, <2>1, <2>2
<1>17. \A i \in 1..n :
         seqs[i] = [j \in 1..upTo[i] - upTo[i - 1] |-> run[upTo[i - 1] + j]]
  <2> TAKE i \in 1..n
  <2>1. PICK b : b = block(i) OBVIOUS
  <2>2. b \in BlockNumbers /\ Filled(blocks[b]) \in Nat BY <1>9, <2>1
  <2>3. seqs[i] = [j \in 1..Filled(blocks[b]) |-> BlockContents(blocks[b])[j]]
    BY <2>1 DEF BlockContents
  <2>4. ASSUME NEW j \in 1..Filled(blocks[b])
        PROVE  BlockContents(blocks[b])[j] = run[upTo[i - 1] + j]
    <3>1. BlockContents(blocks[b])[j] = IF consumer = "release" /\ b = frontBlock /\ j = 1
                                        THEN Raw ELSE First(b) + (j - 1)
      BY <2>2, ElementAt
    <3>2. First(b) = upTo[i - 1] + removed + 1 /\ upTo[i - 1] \in Nat /\ upTo[i] \in Nat
      BY <1>8, <1>12, <1>14, <2>1
    <3>3. upTo[i] - upTo[i - 1] = Filled(blocks[b]) /\ upTo[i] <= accepted - removed
      BY <1>15, <1>16, <2>1
    <3>4. b = frontBlock <=> i = 1
      <4>1. i - 1 \in 0..N - 1 /\ 0 \in 0..N - 1 BY <1>3, <1>5, <1>9
      <4> QED BY <1>3, <2>1, <4>1
    <3>5. i = 1 => upTo[i - 1] = 0 BY <1>14
    <3>6. consumer = "release" => (b = frontBlock /\ j = 1 <=> upTo[i - 1] + j = 1)
      <4>1. CASE i = 1 BY <2>2, <3>4, <3>5, <4>1
      <4>2. CASE i # 1
        <5>1. j \in Nat /\ j >= 1 BY <2>2
        <5>2. First(b) >= Behind(frontBlock) BY <1>6, <1>9, <2>1, <4>2
        <5>3. /\ Behind(frontBlock) = removed + 1 + Filled(blocks[frontBlock])
              /\ Filled(blocks[frontBlock]) \in Nat
          BY <1>1, <1>10, Facts, Numbers DEF Behind
        <5>4. consumer = "release" => Filled(blocks[frontBlock]) > 0
          <6>1. /\ consumer = "release" => FilledAtLeast(blocks[frontBlock]) > 0
                /\ FilledAtLeast(blocks[frontBlock]) <= Filled(blocks[frontBlock])
            BY <1>1 DEF ConsumerKnows
          <6>2. FilledAtLeast(blocks[frontBlock]) \in 0..blocks[frontBlock].size - 1
            BY Facts, Tests
          <6> QED BY <5>3, <6>1, <6>2
        <5>5. consumer = "release" => upTo[i - 1] # 0 BY <1>8, <3>2, <5>2, <5>3, <5>4
        <5> QED BY <3>2, <3>4, <4>2, <5>1, <5>5
      <4> QED BY <4>1, <4>2
    <3>7. upTo[i - 1] + j \in 1..accepted - removed BY <1>8, <2>2, <3>2, <3>3
    <3>8. PICK x : x = upTo[i - 1] + j OBVIOUS
    <3>9. run[x] = IF consumer = "release" /\ x = 1 THEN Raw ELSE removed + x BY <3>7, <3>8
    <3>10. First(b) + (j - 1) = removed + x BY <1>8, <2>2, <3>2, <3>8
    <3> HIDE DEF block, run
    <3> QED BY <3>1, <3>6, <3>8, <3>9, <3>10
  <2> QED BY <1>16, <2>1, <2>3, <2>4
<1>18. \A k \in 1..upTo[n] : run[k] \in Nat
  <2> HIDE DEF n
  <2> QED BY <1>8, <1>15 DEF Raw
<1>19. Slots = run
  <2>1. Slots = FlattenSeq(seqs) BY <1>4 DEF Slots
  <2>2. DOMAIN seqs = 1..n /\ Len(seqs) = n BY <1>8
  <2> HIDE DEF seqs, run, n, block
  <2>3. Parts(seqs, n, upTo, run) BY <1>14, <1>16, <1>17, <2>2 DEF Parts
  <2>4. run \in [1..upTo[n] -> Nat]
    <3>1. run = [k \in 1..upTo[n] |-> run[k]] BY <1>15 DEF run
    <3> QED BY <1>18, <3>1
  <2>5. n \in Nat \ {0} BY <1>8
  <2>6. FlattenSeq(seqs) = run BY <2>3, <2>4, <2>5, FlattenedRun
  <2> QED BY <2>1, <2>6
<1>20. CASE consumer # "release" BY <1>19, <1>20 DEF Contents, Run
<1>21. CASE consumer = "release"
  <2>1. got = removed + 1 BY <1>1, <1>21 DEF ConsumerKnows
  <2>2. accepted > removed
    <3>1. FilledAtLeast(blocks[frontBlock]) > 0
          /\ FilledAtLeast(blocks[frontBlock]) <= Filled(blocks[frontBlock])
      BY <1>1, <1>21 DEF ConsumerKnows
    <3>2. FilledAtLeast(blocks[frontBlock]) \in 0..blocks[frontBlock].size - 1
      BY Facts, Tests
    <3>3. Live(frontBlock) BY DEF Live
    <3>4. Behind(frontBlock) <= accepted + 1 BY <1>1, <3>3, Facts DEF BlocksFollow
    <3>5. Behind(frontBlock) = removed + 1 + Filled(blocks[frontBlock]) BY <1>10 DEF Behind
    <3>6. Filled(blocks[frontBlock]) \in Nat BY <1>1, Facts, Numbers
    <3> QED BY <1>8, <3>1, <3>2, <3>4, <3>5, <3>6
  <2>3. PICK m : m = accepted - removed OBVIOUS
  <2>4. m \in Nat /\ m >= 1 BY <1>8, <2>2, <2>3
  <2>5. \A k \in 2..m : run[k] = removed + k BY <2>3, <2>4
  <2>6. run \in [1..m -> Nat]
    <3>1. run = [k \in 1..m |-> run[k]] BY <2>3
    <3> HIDE DEF run, n
    <3> QED BY <1>15, <1>18, <2>3, <3>1
  <2> HIDE DEF run
  <2>7. Len(run) = m BY <2>4, <2>6, SeqIs
  <2>8. PICK rest : rest = SubSeq(run, 2, m) OBVIOUS
  <2>9. /\ rest \in Seq(Nat) /\ Len(rest) = m - 1
        /\ \A k \in 1..m - 1 : rest[k] = removed + k + 1
    <3>1. \A k \in 2..m : run[k] \in Nat BY <2>4, <2>6
    <3>2. /\ rest \in Seq(Nat) /\ Len(rest) = IF 2 <= m THEN m - 2 + 1 ELSE 0
          /\ \A k \in 1..m - 2 + 1 : rest[k] = run[2 + k - 1]
      BY <2>4, <2>8, <3>1, SubSeqProperties
    <3>3. \A k \in 1..m - 1 : 2 + k - 1 \in 2..m /\ 2 + k - 1 = k + 1 BY <2>4
    <3> QED BY <1>8, <2>4, <2>5, <3>2, <3>3
  <2>10. PICK one : one = <<got>> OBVIOUS
  <2>11. one \in Seq(Nat) /\ Len(one) = 1 /\ one[1] = removed + 1 BY <1>8, <2>1, <2>10
  <2>12. Contents = one \o rest
    BY <1>19, <1>21, <2>7, <2>8, <2>10 DEF Contents
  <2>13. /\ one \o rest \in Seq(Nat) /\ Len(one \o rest) = 1 + (m - 1)
         /\ \A k \in 1..1 + (m - 1) : (one \o rest)[k] = IF k <= 1 THEN one[k] ELSE rest[k - 1]
    <3>1. one \in Seq(Nat) /\ rest \in Seq(Nat) BY <2>9, <2>11
    <3>2. /\ one \o rest \in Seq(Nat) /\ Len(one \o rest) = Len(one) + Len(rest)
          /\ \A k \in 1..Len(one) + Len(rest) :
               (one \o rest)[k] = IF k <= Len(one) THEN one[k] ELSE rest[k - Len(one)]
      BY <3>1, ConcatProperties
    <3>3. Len(one) = 1 /\ Len(rest) = m - 1 BY <2>9, <2>11
    <3> QED BY <3>2, <3>3
  <2>14. Run \in Seq(Nat) /\ Len(Run) = m /\ \A k \in 1..m : Run[k] = removed + k
    <3>1. Run \in [1..m -> Nat] BY <1>8, <2>3 DEF Run
    <3>2. \A k \in 1..m : Run[k] = removed + k BY <2>3 DEF Run
    <3> QED BY <2>4, <3>1, <3>2, SeqIs
  <2>15. \A k \in 1..m : (one \o rest)[k] = removed + k
    <3> TAKE k \in 1..m
    <3>1. CASE k = 1 BY <2>4, <2>11, <2>13, <3>1
    <3>2. CASE k # 1
      <4>1. k - 1 \in 1..m - 1 /\ k \in 1..1 + (m - 1) BY <2>4, <3>2
      <4>2. rest[k - 1] = removed + k BY <1>8, <2>4, <2>9, <4>1
      <4> QED BY <2>4, <2>13, <3>2, <4>1, <4>2
    <3> QED BY <3>1, <3>2
  <2>16. Len(one \o rest) = m BY <2>4, <2>13
  <2>17. one \o rest = Run BY <2>13, <2>14, <2>15, <2>16, SeqEqual
  <2> QED BY <2>12, <2>17
<1> QED BY <1>20, <1>21

RoomEnough == accepted - removed <= MaxCapacity

\* So many blocks of that size hold no more than the abstract queue has room for.
LEMMA Room == QueueInv => RoomEnough
<1> SUFFICES ASSUME QueueInv PROVE accepted - removed <= MaxCapacity BY DEF RoomEnough
<1> DEFINE largest == IF "CanAlloc" \in Modes THEN 2 * MaxBlockSize ELSE InitialBlockSize
           most == IF "CanAlloc" \in Modes THEN MaxBlocks ELSE InitialBlockCount
<1>1. TypeOK /\ OneCircle /\ BlocksFollow /\ BlockBounds BY DEF QueueInv
<1>2. PICK k : k = largest - 1 OBVIOUS
<1>3. k \in Nat /\ most \in Nat
  BY <1>2, QueueAssumption, Reserved, SizesAre
<1>4. Len(blocks) <= most BY <1>1, <1>3 DEF BlockBounds
<1>5. \A b \in BlockNumbers : Filled(blocks[b]) <= k
  <2> TAKE b \in BlockNumbers
  <2>1. Filled(blocks[b]) \in 0..blocks[b].size - 1 /\ blocks[b].size \in Nat
    BY <1>1, Numbers
  <2>2. blocks[b].size <= largest
    <3>1. blocks[b].size <= largestBlockSize /\ largestBlockSize <= 2 * MaxBlockSize
      BY <1>1 DEF BlockBounds
    <3>2. "CanAlloc" \notin Modes => largestBlockSize = InitialBlockSize
      BY <1>1 DEF BlockBounds
    <3>3. largestBlockSize \in Nat /\ MaxBlockSize \in Nat
      BY <1>1, Reserved, SizesAre DEF TypeOK
    <3> QED BY <2>1, <3>1, <3>2, <3>3
  <2>3. largest \in Nat BY Reserved, SizesAre
  <2> HIDE DEF largest
  <2> QED BY <1>2, <2>1, <2>2, <2>3
<1> HIDE DEF largest
<1>6. /\ Len(blocks) \in Nat
      /\ \E n \in 0..Len(blocks) - 1 : BlockAt[n] = tailBlock
      /\ BlockAt[0] = frontBlock
  BY Facts, CircleFacts
<1>7. PICK d \in 0..Len(blocks) - 1 : BlockAt[d] = tailBlock BY <1>6
<1>8. \A n \in 0..d : /\ BlockAt[n] \in BlockNumbers
                      /\ n # 0 => First(BlockAt[n]) = Behind(BlockAt[n - 1])
  BY <1>7, Walk
<1> DEFINE P(n) == Behind(BlockAt[n]) <= removed + 1 + (n + 1) * k
<1>9. \A n \in 0..d : P(n)
  <2> DEFINE T == {n \in 0..d : ~P(n)}
  <2> SUFFICES ASSUME T # {} PROVE FALSE OBVIOUS
  <2>1. T \in SUBSET Nat OBVIOUS
  <2>2. PICK x \in T : \A y \in T : x <= y
    <3> HIDE DEF T
    <3> QED BY <2>1, Least, Zenon
  <2>3. x \in 0..d /\ ~P(x) OBVIOUS
  <2>4. /\ Behind(BlockAt[x]) = First(BlockAt[x]) + Filled(blocks[BlockAt[x]])
        /\ Filled(blocks[BlockAt[x]]) \in Nat /\ Filled(blocks[BlockAt[x]]) <= k
        /\ First(BlockAt[x]) \in Nat /\ removed \in Nat
    BY <1>1, <1>5, <1>8, <2>3, Numbers, SMTT(30) DEF Behind
  <2>5. CASE x = 0
    <3>1. First(BlockAt[x]) = removed + 1 BY <1>6, <2>5 DEF First
    <3>2. (x + 1) * k = k BY <1>3, <2>5
    <3> HIDE DEF T
    <3> QED BY <1>3, <2>3, <2>4, <3>1, <3>2
  <2>6. CASE x # 0
    <3>1. x - 1 \in 0..d /\ x - 1 \notin T BY <2>2, <2>3, <2>6
    <3>2. P(x - 1) BY <3>1
    <3>3. First(BlockAt[x]) = Behind(BlockAt[x - 1]) BY <1>8, <2>3, <2>6
    <3>4. (x + 1) * k = (x - 1 + 1) * k + k BY <1>3, <2>3
    <3>5. (x - 1 + 1) * k \in Int /\ (x + 1) * k \in Int BY <1>3, <2>3
    <3> DEFINE p == (x + 1) * k
               q == (x - 1 + 1) * k
    <3>6. /\ p = q + k /\ p \in Int /\ q \in Int
          /\ Behind(BlockAt[x - 1]) <= removed + 1 + q
          /\ ~(Behind(BlockAt[x]) <= removed + 1 + p)
      BY <2>3, <3>2, <3>4, <3>5
    <3> HIDE DEF T, P, p, q
    <3> QED BY <1>3, <2>4, <3>3, <3>6
  <2> QED BY <2>5, <2>6
<1>10. Behind(tailBlock) <= removed + 1 + (d + 1) * k
  <2>1. d \in 0..d BY <1>6
  <2> QED BY <1>7, <1>9, <2>1
<1>11. (d + 1) * k <= most * k
  <2>1. PICK e : e = most - (d + 1) OBVIOUS
  <2>2. e \in Nat /\ most = (d + 1) + e /\ d \in Nat BY <1>3, <1>4, <1>6, <1>7, <2>1
  <2>3. ((d + 1) + e) * k = (d + 1) * k + e * k BY <1>3, <2>2
  <2>4. e * k \in Nat /\ (d + 1) * k \in Nat BY <1>3, <2>2
  <2> DEFINE p == e * k
             q == (d + 1) * k
  <2>5. most * k = q + p /\ p \in Nat /\ q \in Nat BY <2>2, <2>3, <2>4
  <2> HIDE DEF p, q
  <2>6. q <= most * k BY <2>5
  <2> QED BY <2>6 DEF q
<1>12. most * k = MaxCapacity BY <1>2 DEF MaxCapacity, largest
<1>13. Behind(tailBlock) = accepted + 1 BY <1>1 DEF BlocksFollow
<1>14. (d + 1) * k \in Int /\ MaxCapacity \in Int
  <2>1. d \in Nat BY <1>6, <1>7
  <2>2. most * k \in Int BY <1>3
  <2> QED BY <1>3, <1>12, <2>1, <2>2
<1> DEFINE p == (d + 1) * k
<1>15. /\ Behind(tailBlock) <= removed + 1 + p /\ p <= MaxCapacity /\ p \in Int
  BY <1>10, <1>11, <1>12, <1>14
<1> HIDE DEF p, most
<1> QED BY <1>13, <1>14, <1>15, Facts

\* What a step does to the numbers of the elements accepted and removed.
LEMMA Counted ==
  ASSUME QueueInv, [Next]_vars
  PROVE  \/ accepted' = accepted + 1 /\ accepted < MaxItems /\ removed' = removed
         \/ accepted' = accepted /\ removed' = removed + 1
         \/ accepted' = accepted /\ removed' = removed
<1> USE DEF producerRest, producerVars, consumerRest, consumerVars, sizeRest
<1>1. CASE ProducerNext
  <2>1. CASE PublishElement \/ AdvanceTailBlock
    <3>1. accepted < MaxItems BY <2>1 DEF PublishElement, AdvanceTailBlock, QueueInv, ProducerKnows
    <3> QED BY <2>1, <3>1 DEF PublishElement, AdvanceTailBlock
  <2>2. CASE ~(PublishElement \/ AdvanceTailBlock)
    BY <1>1, <2>2
    DEF ProducerNext, Enqueue, RefreshFront, WriteElement, TailBlockFull, UseNextBlock,
        AllocateBlock
  <2> QED BY <2>1, <2>2
<1>2. CASE ConsumerNext
  BY <1>2
  DEF ConsumerNext, Dequeue, RefreshTail, CheckTailBlock, Recheck, NextBlockTail,
      AdvanceFrontBlock, TakeElement, ReleaseSlot
<1>3. ASSUME NEW t \in SizeCallers, SizeNext(t) PROVE accepted' = accepted /\ removed' = removed
  BY <1>3 DEF SizeNext, SizeApprox, CountBlock, HopBlock, ReturnSize
<1>4. CASE UNCHANGED vars BY <1>4 DEF vars
<1> QED BY <1>1, <1>2, <1>3, <1>4 DEF Next

\* No element is removed that was not accepted.
Removable == accepted \in Nat /\ removed \in Nat /\ removed <= accepted

\* So says the invariant.
LEMMA RemovedLess == QueueInv => Removable
BY Facts DEF Removable

\* For every size and every number of blocks the queue implements a bounded FIFO
\* buffer: each step appends the next element accepted, while there is room, or
\* removes the oldest one, or is not seen.
THEOREM QueueImplementsFifo == Spec => QueueSpec
<1>1. Init => Fifo!Init
  <2> SUFFICES ASSUME Init PROVE Contents = <<>> BY DEF Fifo!Init
  <2>1. Contents = Run BY ContentsAre, InitInvariant DEF InRun
  <2>2. accepted = 0 /\ removed = 0 BY DEF Init
  <2>3. 1..accepted - removed = {} BY <2>2
  <2> QED BY <2>1, <2>3 DEF Run
<1>2. QueueInv /\ QueueInv' /\ [Next]_vars => [Fifo!Next]_Contents
  <2> SUFFICES ASSUME QueueInv, QueueInv', [Next]_vars PROVE [Fifo!Next]_Contents OBVIOUS
  <2>1. Contents = Run BY ContentsAre DEF InRun
  <2>2. Contents' = Run'
    <3>1. QueueInv' => InRun' BY ContentsAre, PTL
    <3> QED BY <3>1 DEF InRun
  <2>3. accepted' - removed' <= MaxCapacity
    <3>1. QueueInv' => RoomEnough' BY Room, PTL
    <3> QED BY <3>1 DEF RoomEnough
  <2>4. PICK m : m = accepted - removed OBVIOUS
  <2>5. accepted \in Nat /\ removed \in Nat /\ m \in Nat /\ MaxItems \in Nat BY <2>4, Facts
  <2>6. Run \in Seq(Nat) /\ Len(Run) = m /\ \A k \in 1..m : Run[k] = removed + k
    <3>1. Run \in [1..m -> Nat] BY <2>4, <2>5 DEF Run
    <3>2. \A k \in 1..m : Run[k] = removed + k BY <2>4 DEF Run
    <3> QED BY <2>5, <3>1, <3>2, SeqIs
  <2>7. CASE accepted' = accepted + 1 /\ accepted < MaxItems /\ removed' = removed
    <3>1. m + 1 \in Nat /\ Run' = [i \in 1..m + 1 |-> removed + i]
      BY <2>4, <2>5, <2>7 DEF Run
    <3>2. /\ Run' \in Seq(Nat) /\ Len(Run') = m + 1
          /\ \A k \in 1..m + 1 : Run'[k] = removed + k
      <4>1. Run' \in [1..m + 1 -> Nat] BY <2>5, <3>1
      <4>2. \A k \in 1..m + 1 : Run'[k] = removed + k BY <3>1
      <4> QED BY <3>1, <4>1, <4>2, SeqIs
    <3>3. PICK x : x = accepted + 1 OBVIOUS
    <3>4. x \in Nat /\ x = removed + (m + 1) BY <2>4, <2>5, <3>3
    <3>5. PICK s : s = Run OBVIOUS
    <3>6. /\ Append(s, x) \in Seq(Nat) /\ Len(Append(s, x)) = m + 1
          /\ \A k \in 1..m + 1 : Append(s, x)[k] = removed + k
      <4>1. s \in Seq(Nat) /\ Len(s) = m /\ \A k \in 1..m : s[k] = removed + k
        BY <2>6, <3>5
      <4>2. /\ Append(s, x) \in Seq(Nat) /\ Len(Append(s, x)) = Len(s) + 1
            /\ \A k \in 1..Len(s) : Append(s, x)[k] = s[k]
            /\ Append(s, x)[Len(s) + 1] = x
        BY <3>4, <4>1, AppendProperties
      <4>3. ASSUME NEW k \in 1..m + 1 PROVE Append(s, x)[k] = removed + k
        <5>1. CASE k \in 1..m BY <4>1, <4>2, <5>1
        <5>2. CASE k = m + 1 BY <3>4, <4>1, <4>2, <5>2
        <5>3. k \in 1..m \/ k = m + 1 BY <2>5
        <5> QED BY <5>1, <5>2, <5>3
      <4> QED BY <4>1, <4>2, <4>3
    <3>7. Run' = Append(s, x) BY <3>2, <3>6, SeqEqual
    <3>8. x \in Items BY <2>5, <2>7, <3>3 DEF Items
    <3>9. m < MaxCapacity
      <4>1. MaxCapacity \in Int
        BY QueueAssumption, Reserved, SizesAre DEF MaxCapacity
      <4> QED BY <2>3, <2>4, <2>5, <2>7, <4>1
    <3>10. Fifo!Enqueue(x)
      BY <2>1, <2>2, <2>6, <3>5, <3>7, <3>9 DEF Fifo!Enqueue
    <3> QED BY <3>8, <3>10 DEF Fifo!Next
  <2>8. CASE accepted' = accepted /\ removed' = removed + 1
    <3>1. m \in Nat \ {0}
      <4>1. accepted' \in Nat /\ removed' \in Nat /\ removed' <= accepted'
        <5>1. QueueInv' => Removable' BY RemovedLess, PTL
        <5> QED BY <5>1 DEF Removable
      <4> QED BY <2>4, <2>5, <2>8, <4>1
    <3>2. Run' = [i \in 1..m - 1 |-> removed + 1 + i] BY <2>4, <2>5, <2>8 DEF Run
    <3>3. /\ Run' \in Seq(Nat) /\ Len(Run') = m - 1
          /\ \A k \in 1..m - 1 : Run'[k] = removed + 1 + k
      <4>1. Run' \in [1..m - 1 -> Nat] BY <2>5, <3>2
      <4>2. \A k \in 1..m - 1 : Run'[k] = removed + 1 + k BY <3>2
      <4>3. m - 1 \in Nat BY <3>1
      <4> QED BY <4>1, <4>2, <4>3, SeqIs
    <3>4. PICK s : s = Run OBVIOUS
    <3>5. s \in Seq(Nat) /\ Len(s) = m /\ \A k \in 1..m : s[k] = removed + k BY <2>6, <3>4
    <3>6. s # <<>> BY <3>1, <3>5
    <3>7. /\ Tail(s) \in Seq(Nat) /\ Len(Tail(s)) = m - 1
          /\ \A k \in 1..m - 1 : Tail(s)[k] = removed + 1 + k
      <4>1. /\ Tail(s) \in Seq(Nat) /\ Len(Tail(s)) = Len(s) - 1
            /\ \A k \in 1..Len(Tail(s)) : Tail(s)[k] = s[k + 1]
        BY <3>5, <3>6, HeadTailProperties
      <4>2. \A k \in 1..m - 1 : k + 1 \in 1..m /\ removed + (k + 1) = removed + 1 + k
        BY <2>5, <3>1
      <4> QED BY <3>5, <4>1, <4>2
    <3>8. Run' = Tail(s) BY <3>3, <3>7, SeqEqual
    <3>9. Fifo!Dequeue BY <2>1, <2>2, <3>4, <3>6, <3>8 DEF Fifo!Dequeue
    <3> QED BY <3>9 DEF Fifo!Next
  <2>9. CASE accepted' = accepted /\ removed' = removed
    <3>1. Run' = Run BY <2>9 DEF Run
    <3> QED BY <2>1, <2>2, <3>1
  <2> QED BY <2>7, <2>8, <2>9, Counted
<1> QED BY <1>1, <1>2, QueueInvariant, PTL DEF Spec, QueueSpec, Fifo!Spec

(***************************************************************************)
(* What size_approx counts.                                                *)
(***************************************************************************)
\* The elements in a block.
LEMMA BlockCount ==
  ASSUME QueueInv, NEW b \in BlockNumbers
  PROVE  /\ Count(blocks[b]) = Filled(blocks[b]) /\ Filled(blocks[b]) \in Nat
         /\ Behind(b) = First(b) + Filled(blocks[b]) /\ First(b) \in Nat /\ Behind(b) \in Nat
         /\ ~Live(b) => Filled(blocks[b]) = IF Entering(b) THEN 1 ELSE 0
<1>1. TypeOK /\ ProducerKnows BY DEF QueueInv
<1>2. Filled(blocks[b]) \in Nat /\ First(b) \in Nat /\ Behind(b) \in Nat BY <1>1, Numbers
<1>3. Entering(b) => Filled(blocks[b]) = 1 BY <1>1 DEF Entering, ProducerKnows
<1>4. ~Live(b) => Filled(blocks[b]) = IF Entering(b) THEN 1 ELSE 0
  BY <1>2, <1>3 DEF Live
<1> QED BY <1>2, <1>4 DEF Count, Filled, Behind

\* The block behind a block.
LEMMA BlockBehind ==
  ASSUME QueueInv, NEW b \in BlockNumbers, NEW n, n = blocks[b].next
  PROVE  /\ n \in BlockNumbers
         /\ Live(b) /\ b # tailBlock => n # frontBlock /\ Live(n) /\ First(n) = Behind(b)
         /\ b = tailBlock => Live(b) /\ Behind(b) = accepted + 1
         /\ b = tailBlock \/ ~Live(b) => n = frontBlock \/ ~Live(n)
         /\ b # tailBlock => ~Entering(n)
<1>1. TypeOK /\ BlocksFollow BY DEF QueueInv
<1>2. n \in BlockNumbers BY <1>1, Numbers
<1>3. b # tailBlock => ~Entering(n)
  <2>1. b # tailBlock => blocks[tailBlock].next # n BY Facts, CircleFacts
  <2> QED BY <2>1 DEF Entering
<1>4. Live(b) /\ b # tailBlock => n # frontBlock /\ Live(n) /\ First(n) = Behind(b)
  BY <1>1, <1>3 DEF BlocksFollow, Live
<1>5. b = tailBlock => Live(b) /\ Behind(b) = accepted + 1 BY <1>1 DEF BlocksFollow, Live
<1>6. b = tailBlock \/ ~Live(b) => n = frontBlock \/ ~Live(n) BY <1>1 DEF BlocksFollow
<1> QED BY <1>2, <1>3, <1>4, <1>5, <1>6

\* A walk is somewhere among the blocks.
LEMMA WalkAt ==
  ASSUME QueueInv, NEW t \in Threads
  PROVE  /\ sizing[t] \in [first : BlockNumbers, at : BlockNumbers, sum : Nat]
         /\ sizing[t].first \in BlockNumbers /\ sizing[t].at \in BlockNumbers
         /\ sizing[t].sum \in Nat /\ held[t] \in Nat
         /\ accepted \in Nat /\ removed \in Nat /\ removed <= accepted
         /\ frontBlock \in BlockNumbers /\ Live(frontBlock) /\ First(frontBlock) = removed + 1
BY Facts DEF QueueInv, TypeOK, Live, First

\* What is ahead of a walk and what is behind it.
LEMMA WalkNumbers ==
  ASSUME QueueInv, NEW pc, NEW b \in BlockNumbers
  PROVE  /\ Ahead(pc, b) \in Int /\ Passed(pc, b) \in Int /\ PassedNew(pc, b) \in {0, 1}
BY Facts, BlockCount DEF Ahead, Passed, PassedNew, WalkedTo

\* A walk begins in front of everything.
LEMMA WalkBegins ==
  ASSUME QueueInv
  PROVE  /\ Ahead("count", frontBlock) = accepted - removed
         /\ Passed("count", frontBlock) = 0 /\ PassedNew("count", frontBlock) = 0
<1>1. /\ Live(frontBlock) /\ First(frontBlock) = removed + 1
      /\ accepted \in Nat /\ removed \in Nat
  BY WalkAt DEF Threads
<1>2. Walking("count", frontBlock) BY <1>1 DEF Walking
<1> QED BY <1>1, <1>2 DEF Ahead, Passed, PassedNew, WalkedTo

\* It counts a block.
LEMMA WalkCounts ==
  ASSUME QueueInv, NEW b \in BlockNumbers
  PROVE  /\ Ahead("hop", b) = Ahead("count", b) - (IF Live(b) THEN Count(blocks[b]) ELSE 0)
         /\ Passed("hop", b) = Passed("count", b) + (IF Live(b) THEN Count(blocks[b]) ELSE 0)
         /\ ~Live(b) => PassedNew("hop", b) = PassedNew("count", b) + Count(blocks[b])
         /\ Live(b) => PassedNew("hop", b) = 0 /\ PassedNew("count", b) = 0
<1>1. /\ Count(blocks[b]) = Filled(blocks[b]) /\ Filled(blocks[b]) \in Nat
      /\ Behind(b) = First(b) + Filled(blocks[b]) /\ First(b) \in Nat
      /\ ~Live(b) => Filled(blocks[b]) = IF Entering(b) THEN 1 ELSE 0
      /\ accepted \in Nat /\ removed \in Nat
  BY BlockCount, Facts
<1>2. CASE Live(b)
  <2>1. Walking("hop", b) /\ Walking("count", b) BY <1>2 DEF Walking
  <2>2. WalkedTo("hop", b) = Behind(b) /\ WalkedTo("count", b) = First(b) BY DEF WalkedTo
  <2> QED BY <1>1, <1>2, <2>1, <2>2 DEF Ahead, Passed, PassedNew
<1>3. CASE ~Live(b)
  <2>1. ~Walking("hop", b) /\ ~Walking("count", b) BY <1>3 DEF Walking
  <2>2. Entering(b) => producer = "advance" BY DEF Entering
  <2>3. PassedNew("hop", b) = PassedNew("count", b) + Count(blocks[b])
    BY <1>1, <1>3, <2>1, <2>2 DEF PassedNew
  <2> QED BY <1>1, <1>3, <2>1, <2>3 DEF Ahead, Passed
<1> QED BY <1>2, <1>3

\* It goes on to the next block, or is back where it began.
LEMMA WalkHops ==
  ASSUME QueueInv, NEW b \in BlockNumbers, NEW n, n = blocks[b].next,
         NEW pc \in {"count", "sized"},
         IF pc = "count" THEN n # frontBlock ELSE b = tailBlock \/ ~Live(b)
  PROVE  /\ Ahead(pc, n) = Ahead("hop", b) /\ Passed(pc, n) = Passed("hop", b)
         /\ PassedNew(pc, n) >= PassedNew("hop", b)
<1>1. /\ n \in BlockNumbers
      /\ Live(b) /\ b # tailBlock => n # frontBlock /\ Live(n) /\ First(n) = Behind(b)
      /\ b = tailBlock => Live(b) /\ Behind(b) = accepted + 1
      /\ b = tailBlock \/ ~Live(b) => n = frontBlock \/ ~Live(n)
      /\ b # tailBlock => ~Entering(n)
  BY BlockBehind
<1>2. accepted \in Nat /\ removed \in Nat BY Facts
<1>3. CASE Live(b) /\ b # tailBlock
  <2>1. pc = "count" BY <1>3
  <2>2. Walking(pc, n) /\ Walking("hop", b) BY <1>1, <1>3, <2>1 DEF Walking
  <2>3. WalkedTo(pc, n) = WalkedTo("hop", b) BY <1>1, <1>3, <2>1 DEF WalkedTo
  <2> QED BY <2>2, <2>3 DEF Ahead, Passed, PassedNew
<1>4. CASE b = tailBlock
  <2>1. ~Walking(pc, n) BY <1>1, <1>4 DEF Walking
  <2>2. Walking("hop", b) /\ WalkedTo("hop", b) = accepted + 1
    BY <1>1, <1>4 DEF Walking, WalkedTo
  <2> QED BY <1>2, <2>1, <2>2 DEF Ahead, Passed, PassedNew
<1>5. CASE ~Live(b)
  <2>1. ~Walking(pc, n) BY <1>1, <1>5 DEF Walking
  <2>2. ~Walking("hop", b) BY <1>5 DEF Walking
  <2>3. ~Entering(n) BY <1>1, <1>5
  <2> QED BY <2>1, <2>2, <2>3 DEF Ahead, Passed, PassedNew
<1> QED BY <1>3, <1>4, <1>5

\* Nothing changes of what a walk counts.
WalkSame ==
  /\ frontBlock' = frontBlock /\ accepted' = accepted /\ removed' = removed
  /\ \A b \in BlockNumbers :
       /\ Live(b)' <=> Live(b)
       /\ Live(b) => First(b)' = First(b) /\ Behind(b)' = Behind(b)

\* No block is linked in.
LinksSame ==
  BlockNumbers' = BlockNumbers /\ \A b \in BlockNumbers : blocks'[b].next = blocks[b].next

\* Then nothing is ahead of a walk, or behind it, that was not.
LEMMA WalkStays ==
  ASSUME WalkSame, NEW pc, NEW b \in BlockNumbers
  PROVE  Ahead(pc, b)' = Ahead(pc, b) /\ Passed(pc, b)' = Passed(pc, b)
<1>1. Walking(pc, b)' <=> Walking(pc, b) BY DEF WalkSame, Walking
<1>2. Walking(pc, b) => WalkedTo(pc, b)' = WalkedTo(pc, b) BY DEF WalkSame, Walking, WalkedTo
<1> QED BY <1>1, <1>2 DEF WalkSame, Ahead, Passed

\* Which steps a walk takes, and what these change.
LEMMA WalkSteps ==
  ASSUME QueueInv, NEW t \in SizeCallers, SizeNext(t)
  PROVE  /\ t \in Threads /\ WalkSame /\ LinksSame /\ UNCHANGED <<blocks, tailBlock>>
         /\ \A u \in Threads : u # t => sizing'[u] = sizing[u] /\ held'[u] = held[u]
         /\ t = "producer" => consumer' = consumer /\ producer # "advance" /\ producer' # "advance"
         /\ t = "consumer" => producer' = producer
<1>1. t \in Threads BY QueueAssumption DEF Threads
<1>2. UNCHANGED <<blocks, frontBlock, tailBlock, accepted, removed>>
  BY DEF SizeNext, SizeApprox, CountBlock, HopBlock, ReturnSize, sizeRest
<1>3. sizing \in [Threads -> [first : BlockNumbers, at : BlockNumbers, sum : Nat]]
  BY DEF QueueInv, TypeOK
<1>4. \A u \in Threads : u # t => sizing'[u] = sizing[u] /\ held'[u] = held[u]
  <2>1. held' = held \/ held' = [held EXCEPT ![t] = accepted - removed]
    BY DEF SizeNext, SizeApprox, CountBlock, HopBlock, ReturnSize, Begin, Continue
  <2>2. \A u \in Threads : u # t => sizing'[u] = sizing[u]
    BY <1>1, <1>3 DEF SizeNext, SizeApprox, CountBlock, HopBlock, ReturnSize
  <2> QED BY <1>1, <2>1, <2>2, Facts
<1>5. \E p, q \in SizeStates \union {"idle"} : At(t, p) /\ Go(t, q)
  BY DEF SizeNext, SizeApprox, CountBlock, HopBlock, ReturnSize, SizeStates
<1>6. /\ t = "producer" => consumer' = consumer /\ producer # "advance" /\ producer' # "advance"
      /\ t = "consumer" => producer' = producer
  BY <1>1, <1>5 DEF At, Go, SizeStates, Threads
<1>7. WalkSame /\ LinksSame
  <2>1. BlockNumbers' = BlockNumbers BY <1>2 DEF BlockNumbers
  <2>2. \A b \in BlockNumbers : Entering(b)' <=> Entering(b)
    BY <1>1, <1>2, <1>6 DEF Entering, Threads
  <2>3. \A b \in BlockNumbers : (Live(b)' <=> Live(b)) /\ First(b)' = First(b) /\ Behind(b)' = Behind(b)
    BY <1>2, <2>2 DEF Live, First, Behind
  <2> QED BY <1>2, <2>1, <2>3 DEF WalkSame, LinksSame
<1> QED BY <1>1, <1>2, <1>4, <1>6, <1>7

\* The consumer's own walk.
LEMMA ConsumerWalks ==
  ASSUME QueueInv, ConsumerSizes, "consumer" \in SizeCallers, SizeNext("consumer")
  PROVE  ConsumerSizes'
<1>1. PICK s : s = sizing["consumer"] OBVIOUS
<1>2. PICK a : a = sizing'["consumer"].at OBVIOUS
<1>3. PICK pc : pc = consumer' OBVIOUS
<1> DEFINE d == sizing'["consumer"]
<1>4. /\ WalkSame /\ blocks' = blocks /\ tailBlock' = tailBlock /\ producer' = producer
      /\ frontBlock' = frontBlock
  BY WalkSteps DEF WalkSame
<1>5. /\ s.first \in BlockNumbers /\ s.at \in BlockNumbers /\ s.sum \in Nat
      /\ held["consumer"] \in Nat /\ accepted \in Nat /\ removed \in Nat
      /\ frontBlock \in BlockNumbers
      /\ sizing \in [Threads -> [first : BlockNumbers, at : BlockNumbers, sum : Nat]]
      /\ held \in [Threads -> 0..MaxItems]
  BY <1>1, WalkAt, Facts DEF Threads, QueueInv, TypeOK
<1>6. \A b \in BlockNumbers : /\ Ahead(pc, b)' = Ahead(pc, b) /\ Passed(pc, b)' = Passed(pc, b)
                              /\ PassedNew(pc, b)' = PassedNew(pc, b)
  <2>1. \A b \in BlockNumbers : (Entering(b)' <=> Entering(b)) /\ (Live(b)' <=> Live(b))
    BY <1>4 DEF Entering, WalkSame
  <2>2. \A b \in BlockNumbers : PassedNew(pc, b)' = PassedNew(pc, b)
    BY <1>4, <2>1 DEF PassedNew, Walking
  <2> QED BY <1>4, <2>2, WalkStays
<1>7. consumer \in SizeStates =>
        /\ s.first = frontBlock
        /\ held["consumer"] <= s.sum + Ahead(consumer, s.at)
        /\ s.sum <= Passed(consumer, s.at) + PassedNew(consumer, s.at)
  BY <1>1 DEF ConsumerSizes
<1>8. SUFFICES ASSUME pc \in SizeStates
               PROVE  /\ a \in BlockNumbers /\ d.first = frontBlock
                      /\ held'["consumer"] <= d.sum + Ahead(pc, a)
                      /\ d.sum <= Passed(pc, a) + PassedNew(pc, a)
  BY <1>2, <1>3, <1>4, <1>6 DEF ConsumerSizes
<1>9. CASE SizeApprox("consumer")
  <2>1. /\ pc = "count" /\ d = [first |-> frontBlock, at |-> frontBlock, sum |-> 0]
        /\ held'["consumer"] = accepted - removed
    BY <1>3, <1>5, <1>9 DEF SizeApprox, Go, Begin, Threads
  <2> QED BY <1>2, <1>5, <2>1, WalkBegins
<1>10. CASE CountBlock("consumer")
  <2>1. /\ consumer = "count" /\ pc = "hop" /\ held'["consumer"] = held["consumer"]
        /\ d.first = s.first /\ d.at = s.at /\ d.sum = s.sum + Count(blocks[s.at])
    BY <1>1, <1>3, <1>5, <1>10 DEF CountBlock, At, Go, Continue, Threads
  <2>2. Count(blocks[s.at]) \in Nat BY <1>5, BlockCount
  <2>3. /\ Ahead("count", s.at) \in Int /\ Passed("count", s.at) \in Int
        /\ PassedNew("count", s.at) \in {0, 1}
    BY <1>5, WalkNumbers
  <2> HIDE DEF d
  <2> QED BY <1>2, <1>5, <1>7, <2>1, <2>2, <2>3, WalkCounts DEF SizeStates, d
<1>11. CASE HopBlock("consumer")
  <2>1. /\ consumer = "hop" /\ held'["consumer"] = held["consumer"]
        /\ d.first = s.first /\ d.at = blocks[s.at].next /\ d.sum = s.sum
        /\ pc = IF a = s.first THEN "sized" ELSE "count"
    BY <1>1, <1>2, <1>3, <1>5, <1>11 DEF HopBlock, FirstBlockOf, At, Go, Continue, Threads
  <2>2. /\ a \in BlockNumbers
        /\ Live(s.at) /\ s.at # tailBlock => a # frontBlock
    BY <1>2, <1>5, <2>1, BlockBehind
  <2>3. s.first = frontBlock BY <1>7, <2>1 DEF SizeStates
  <2>4. /\ Ahead(pc, a) = Ahead("hop", s.at) /\ Passed(pc, a) = Passed("hop", s.at)
        /\ PassedNew(pc, a) >= PassedNew("hop", s.at)
    BY <1>2, <1>5, <2>1, <2>2, <2>3, WalkHops
  <2>5. /\ Ahead("hop", s.at) \in Int /\ Passed("hop", s.at) \in Int
        /\ PassedNew("hop", s.at) \in {0, 1}
    BY <1>5, WalkNumbers
  <2>6. PassedNew(pc, a) \in {0, 1} BY <2>2, WalkNumbers
  <2> HIDE DEF d
  <2> QED BY <1>2, <1>5, <1>7, <2>1, <2>2, <2>3, <2>4, <2>5, <2>6 DEF SizeStates, d
<1>12. CASE ReturnSize("consumer")
  <2>1. pc = "idle" BY <1>3, <1>12 DEF ReturnSize, Go
  <2> QED BY <1>8, <2>1 DEF SizeStates
<1> QED BY <1>9, <1>10, <1>11, <1>12 DEF SizeNext

\* What the producer has counted, when it is at a with the sum n, began with h
\* elements in the queue and the consumer has left the blocks in left since.
Tallied(left, pc, a, n, h) ==
  IF pc # "sized" /\ a \in left
    THEN n + (accepted - removed) <= h
    ELSE n + Ahead(pc, a) <= h /\ Passed(pc, a) <= n

\* The blocks the consumer has left stay those.
LEMMA LeftStays ==
  ASSUME LinksSame, frontBlock' = frontBlock, \A b \in BlockNumbers : Live(b)' => Live(b),
         NEW left \in SUBSET BlockNumbers, NEW first, Left(left, first)
  PROVE  left \in SUBSET BlockNumbers' /\ Left(left, first)'
BY DEF LinksSame, Left

\* The block where the walk goes on, after one the consumer has left and after another.
LEMMA LeftHops ==
  ASSUME QueueInv, NEW left \in SUBSET BlockNumbers, NEW first, Left(left, first),
         NEW b \in BlockNumbers, NEW n, n = blocks[b].next
  PROVE  /\ frontBlock \notin left
         /\ b \in left => n # first /\ (n \in left \/ n = frontBlock)
         /\ b \notin left /\ n # first => n \notin left /\ n # frontBlock
         /\ b \notin left /\ n = first => b = tailBlock \/ ~Live(b)
<1>1. Live(frontBlock) BY DEF Live
<1>2. frontBlock \notin left BY <1>1 DEF Left
<1>3. b \in left <=> n \in (left \union {frontBlock}) \ {first} BY DEF Left
<1>4. first \in left \union {frontBlock} BY DEF Left
<1>5. ASSUME n = first, Live(b), b # tailBlock PROVE FALSE
  <2>1. n # frontBlock /\ Live(n) BY <1>5, BlockBehind
  <2>2. n \in left BY <1>4, <1>5, <2>1
  <2> QED BY <2>1, <2>2 DEF Left
<1> QED BY <1>2, <1>3, <1>5

\* The producer's own walk.
LEMMA ProducerWalks ==
  ASSUME QueueInv, ProducerSizes, "producer" \in SizeCallers, SizeNext("producer")
  PROVE  ProducerSizes'
<1>1. PICK s : s = sizing["producer"] OBVIOUS
<1>2. PICK a : a = sizing'["producer"].at OBVIOUS
<1>3. PICK pc : pc = producer' OBVIOUS
<1> DEFINE d == sizing'["producer"]
<1>4. /\ WalkSame /\ LinksSame /\ blocks' = blocks /\ producer # "advance"
      /\ frontBlock' = frontBlock /\ accepted' = accepted /\ removed' = removed
  BY WalkSteps DEF WalkSame
<1>5. /\ s.first \in BlockNumbers /\ s.at \in BlockNumbers /\ s.sum \in Nat
      /\ held["producer"] \in Nat /\ accepted \in Nat /\ removed \in Nat /\ removed <= accepted
      /\ frontBlock \in BlockNumbers
      /\ sizing \in [Threads -> [first : BlockNumbers, at : BlockNumbers, sum : Nat]]
      /\ held \in [Threads -> 0..MaxItems]
  BY <1>1, WalkAt, Facts DEF Threads, QueueInv, TypeOK
<1>6. SUFFICES ASSUME pc \in SizeStates
               PROVE  a \in BlockNumbers /\ \E left \in SUBSET BlockNumbers :
                        Left(left, d.first) /\ Tallied(left, pc, a, d.sum, held'["producer"])
  <2>1. ASSUME a \in BlockNumbers, NEW left \in SUBSET BlockNumbers, Left(left, d.first),
               Tallied(left, pc, a, d.sum, held'["producer"])
        PROVE  ProducerSizes'
    <3>1. PICK f : f = d.first OBVIOUS
    <3>2. left \in SUBSET BlockNumbers' /\ Left(left, f)' BY <1>4, <2>1, <3>1, LeftStays DEF WalkSame
    <3>3. Ahead(pc, a)' = Ahead(pc, a) /\ Passed(pc, a)' = Passed(pc, a)
      BY <1>4, <2>1, WalkStays
    <3> QED BY <1>2, <1>3, <1>4, <2>1, <3>1, <3>2, <3>3 DEF ProducerSizes, Tallied
  <2>2. pc \notin SizeStates => ProducerSizes' BY <1>3 DEF ProducerSizes
  <2> QED BY <2>1, <2>2
<1>7. CASE SizeApprox("producer")
  <2>1. /\ pc = "count" /\ d = [first |-> frontBlock, at |-> frontBlock, sum |-> 0]
        /\ held'["producer"] = accepted - removed
    BY <1>3, <1>5, <1>7 DEF SizeApprox, Go, Begin, Threads
  <2>2. Left({}, frontBlock) BY DEF Left
  <2>3. Tallied({}, pc, a, d.sum, held'["producer"])
    BY <1>2, <1>5, <2>1, WalkBegins DEF Tallied
  <2> QED BY <1>2, <1>5, <2>1, <2>2, <2>3
<1>8. ASSUME producer \in SizeStates
      PROVE  \E left \in SUBSET BlockNumbers :
               Left(left, s.first) /\ Tallied(left, producer, s.at, s.sum, held["producer"])
  BY <1>1, <1>8 DEF ProducerSizes, Tallied
<1>9. CASE CountBlock("producer")
  <2>1. /\ producer = "count" /\ pc = "hop" /\ held'["producer"] = held["producer"]
        /\ d.first = s.first /\ d.at = s.at /\ d.sum = s.sum + Count(blocks[s.at])
    BY <1>1, <1>3, <1>5, <1>9 DEF CountBlock, At, Go, Continue, Threads
  <2>2. PICK left \in SUBSET BlockNumbers :
          Left(left, s.first) /\ Tallied(left, "count", s.at, s.sum, held["producer"])
    BY <1>8, <2>1 DEF SizeStates
  <2>3. Count(blocks[s.at]) \in Nat /\ (~Live(s.at) => Count(blocks[s.at]) = 0)
    BY <1>4, <1>5, BlockCount DEF Entering
  <2>4. /\ Ahead("hop", s.at) = Ahead("count", s.at) - Count(blocks[s.at])
        /\ Passed("hop", s.at) = Passed("count", s.at) + Count(blocks[s.at])
        /\ Ahead("count", s.at) \in Int /\ Passed("count", s.at) \in Int
    BY <1>5, <2>3, WalkCounts, WalkNumbers
  <2>5. s.at \in left => ~Live(s.at) BY <2>2 DEF Left
  <2> HIDE DEF d
  <2>6. Tallied(left, "hop", s.at, s.sum + Count(blocks[s.at]), held["producer"])
    BY <1>5, <2>2, <2>3, <2>4, <2>5 DEF Tallied
  <2> QED BY <1>2, <1>5, <2>1, <2>2, <2>6 DEF d
<1>10. CASE HopBlock("producer")
  <2>1. /\ producer = "hop" /\ held'["producer"] = held["producer"]
        /\ d.first = s.first /\ d.at = blocks[s.at].next /\ d.sum = s.sum
        /\ pc = IF a = s.first THEN "sized" ELSE "count"
    BY <1>1, <1>2, <1>3, <1>5, <1>10 DEF HopBlock, FirstBlockOf, At, Go, Continue, Threads
  <2>2. PICK left \in SUBSET BlockNumbers :
          Left(left, s.first) /\ Tallied(left, "hop", s.at, s.sum, held["producer"])
    BY <1>8, <2>1 DEF SizeStates
  <2>3. a \in BlockNumbers /\ a = blocks[s.at].next BY <1>2, <1>5, <2>1, BlockBehind
  <2>4. /\ frontBlock \notin left
        /\ s.at \in left => a # s.first /\ (a \in left \/ a = frontBlock)
        /\ s.at \notin left /\ a # s.first => a \notin left /\ a # frontBlock
        /\ s.at \notin left /\ a = s.first => s.at = tailBlock \/ ~Live(s.at)
    BY <1>5, <2>2, <2>3, LeftHops
  <2>5. Tallied(left, pc, a, s.sum, held["producer"])
    <3>1. CASE s.at \in left /\ a \in left BY <2>1, <2>2, <2>4, <3>1 DEF Tallied
    <3>2. CASE s.at \in left /\ a = frontBlock
      <4>1. pc = "count" /\ a \notin left BY <2>1, <2>4, <3>2
      <4>2. s.sum + (accepted - removed) <= held["producer"] BY <2>2, <3>2 DEF Tallied
      <4> QED BY <1>5, <3>2, <4>1, <4>2, WalkBegins DEF Tallied
    <3>3. CASE s.at \notin left
      <4>1. Ahead(pc, a) = Ahead("hop", s.at) /\ Passed(pc, a) = Passed("hop", s.at)
        BY <1>5, <2>1, <2>3, <2>4, <3>3, WalkHops
      <4>2. s.sum + Ahead("hop", s.at) <= held["producer"] /\ Passed("hop", s.at) <= s.sum
        BY <2>2, <3>3 DEF Tallied
      <4>3. ~(pc # "sized" /\ a \in left) BY <2>1, <2>4, <3>3
      <4> QED BY <4>1, <4>2, <4>3 DEF Tallied
    <3> QED BY <2>4, <3>1, <3>2, <3>3
  <2> QED BY <2>1, <2>2, <2>3, <2>5
<1>11. CASE ReturnSize("producer")
  <2>1. pc = "idle" BY <1>3, <1>11 DEF ReturnSize, Go
  <2> QED BY <1>6, <2>1 DEF SizeStates
<1> QED BY <1>7, <1>9, <1>10, <1>11 DEF SizeNext

(***************************************************************************)
(* The producer's steps, for a walk of the consumer.                       *)
(***************************************************************************)
\* More may be ahead of a walk than before, and more behind it.
Fed(pc, b) ==
  /\ Ahead(pc, b)' \in Int /\ Ahead(pc, b)' >= Ahead(pc, b)
  /\ Passed(pc, b)' \in Int
  /\ Passed(pc, b)' + PassedNew(pc, b)' >= Passed(pc, b) + PassedNew(pc, b)

\* Then the consumer has missed nothing.
LEMMA ConsumerWalkFed ==
  ASSUME QueueInv, ConsumerSizes, \A pc \in SizeStates : \A b \in BlockNumbers : Fed(pc, b),
         frontBlock' = frontBlock, consumer' = consumer,
         sizing'["consumer"] = sizing["consumer"], held'["consumer"] = held["consumer"]
  PROVE  ConsumerSizes'
<1>1. PICK a : a = sizing["consumer"].at OBVIOUS
<1>2. PICK pc : pc = consumer OBVIOUS
<1>3. /\ a \in BlockNumbers /\ sizing["consumer"].sum \in Nat /\ held["consumer"] \in Nat
  BY <1>1, WalkAt DEF Threads
<1>4. CASE pc \in SizeStates
  <2>1. /\ sizing["consumer"].first = frontBlock
        /\ held["consumer"] <= sizing["consumer"].sum + Ahead(pc, a)
        /\ sizing["consumer"].sum <= Passed(pc, a) + PassedNew(pc, a)
    BY <1>1, <1>2, <1>4 DEF ConsumerSizes
  <2>2. /\ Ahead(pc, a)' \in Int /\ Ahead(pc, a)' >= Ahead(pc, a)
        /\ Passed(pc, a)' \in Int
        /\ Passed(pc, a)' + PassedNew(pc, a)' >= Passed(pc, a) + PassedNew(pc, a)
    BY <1>3, <1>4 DEF Fed
  <2>3. PassedNew(pc, a)' \in {0, 1} BY DEF PassedNew
  <2>4. Ahead(pc, a) \in Int /\ Passed(pc, a) \in Int /\ PassedNew(pc, a) \in {0, 1}
    BY <1>3, WalkNumbers
  <2>5. /\ held["consumer"] <= sizing["consumer"].sum + Ahead(pc, a)'
        /\ sizing["consumer"].sum <= Passed(pc, a)' + PassedNew(pc, a)'
    BY <1>3, <2>1, <2>2, <2>3, <2>4
  <2> QED BY <1>1, <1>2, <2>1, <2>5 DEF ConsumerSizes
<1>5. CASE pc \notin SizeStates BY <1>2, <1>5 DEF ConsumerSizes
<1> QED BY <1>4, <1>5

\* So it is where nothing changes of what a walk counts.
LEMMA SameFed ==
  ASSUME QueueInv, WalkSame, producer # "advance", NEW pc \in SizeStates, NEW b \in BlockNumbers
  PROVE  Fed(pc, b)
<1>1. Ahead(pc, b)' = Ahead(pc, b) /\ Passed(pc, b)' = Passed(pc, b) BY WalkStays
<1>2. PassedNew(pc, b) = 0 /\ PassedNew(pc, b)' \in {0, 1} BY DEF PassedNew
<1>3. Ahead(pc, b) \in Int /\ Passed(pc, b) \in Int BY WalkNumbers
<1> QED BY <1>1, <1>2, <1>3 DEF Fed

\* Where every block is kept, nothing changes of what a walk counts.
LEMMA KeptSame ==
  ASSUME BlocksKept, UNCHANGED <<frontBlock, tailBlock, accepted, removed>>,
         producer # "advance", producer' # "advance"
  PROVE  WalkSame /\ LinksSame
<1>1. \A b \in BlockNumbers : ~Entering(b) /\ ~Entering(b)' BY DEF Entering
<1>2. \A b \in BlockNumbers : (Live(b)' <=> Live(b)) /\ First(b)' = First(b) /\ Behind(b)' = Behind(b)
  BY <1>1 DEF Live, First, Behind, BlocksKept, BlockKept
<1> QED BY <1>2 DEF WalkSame, LinksSame, BlocksKept, BlockKept

\* Nor where a slot is constructed or destroyed, since that is not the first one
\* of a block behind the front block.
LEMMA SlotSame ==
  ASSUME QueueInv, NEW d \in BlockNumbers, NEW i \in 0..blocks[d].size - 1, NEW x \in Items \union {Raw},
         blocks' = [blocks EXCEPT ![d].data[i] = x],
         d = frontBlock \/ i # blocks[d].front,
         UNCHANGED <<frontBlock, tailBlock, accepted, removed>>,
         producer # "advance", producer' # "advance"
  PROVE  WalkSame /\ LinksSame
<1>0. BlocksOK BY Facts
<1>1. /\ BlockNumbers' = BlockNumbers
      /\ \A c \in BlockNumbers : c # d => blocks'[c] = blocks[c]
      /\ blocks'[d].front = blocks[d].front /\ blocks'[d].next = blocks[d].next
      /\ Filled(blocks'[d]) = Filled(blocks[d])
      /\ \A slot \in 0..blocks[d].size - 1 :
           blocks'[d].data[slot] = IF slot = i THEN x ELSE blocks[d].data[slot]
  BY <1>0, SlotAssigned
<1>2. blocks[d].front \in 0..blocks[d].size - 1 BY Facts, FieldsOfAll DEF Indices
<1>3. \A b \in BlockNumbers : First(b)' = First(b) BY <1>1, <1>2 DEF First
<1>4. \A b \in BlockNumbers : ~Entering(b) /\ ~Entering(b)' BY DEF Entering
<1>5. \A b \in BlockNumbers : Filled(blocks'[b]) = Filled(blocks[b]) /\ blocks'[b].next = blocks[b].next
  BY <1>1
<1>6. \A b \in BlockNumbers : (Live(b)' <=> Live(b)) /\ Behind(b)' = Behind(b)
  BY <1>3, <1>4, <1>5 DEF Live, Behind
<1> QED BY <1>1, <1>3, <1>5, <1>6 DEF WalkSame, LinksSame

\* An element is written.
LEMMA WriteSame ==
  ASSUME QueueInv, WriteElement
  PROVE  WalkSame
<1>1. /\ producer = "write" /\ producer' = "publish"
      /\ UNCHANGED <<frontBlock, tailBlock, accepted, removed>>
      /\ blocks' = [blocks EXCEPT ![tailBlock].data[blocks[tailBlock].tail] = accepted + 1]
  BY DEF WriteElement, producerRest, consumerVars
<1>2. accepted + 1 \in Items \union {Raw}
  <2>1. accepted < MaxItems BY <1>1 DEF QueueInv, ProducerKnows
  <2> QED BY <2>1, Facts DEF Items
<1>3. tailBlock \in BlockNumbers /\ blocks[tailBlock].tail \in 0..blocks[tailBlock].size - 1
  BY Facts DEF Indices
<1>4. tailBlock = frontBlock \/ blocks[tailBlock].tail # blocks[tailBlock].front
  <2>1. tailBlock # frontBlock => Filled(blocks[tailBlock]) > 0 BY DEF QueueInv, BlocksFollow
  <2>2. Filled(blocks[tailBlock]) > 0 => blocks[tailBlock].front # blocks[tailBlock].tail
    BY Facts, Tests
  <2> QED BY <2>1, <2>2
<1> QED BY <1>1, <1>2, <1>3, <1>4, SlotSame

\* Nor where the producer puts an element into a block that is not in use yet,
LEMMA NextSame ==
  ASSUME QueueInv, UseNextBlock
  PROVE  WalkSame
<1>1. PICK next : next = blocks[tailBlock].next OBVIOUS
<1>2. /\ producer = "nextBlock" /\ producer' = "advance"
      /\ UNCHANGED <<frontBlock, tailBlock, accepted, removed>>
  BY DEF UseNextBlock, producerRest, consumerVars
<1>3. next # frontBlock /\ next # tailBlock /\ ~Live(next) BY <1>1, <1>2, NextFree
<1>4. \A c \in BlockNumbers : c # next => blocks'[c] = blocks[c] BY <1>1, NextFilled
<1>5. blocks'[tailBlock].next = next BY <1>1, <1>3, <1>4, Facts
<1>6. \A c \in BlockNumbers : c # next => First(c)' = First(c) /\ Behind(c)' = Behind(c)
  BY <1>2, <1>4 DEF First, Behind
<1>7. \A c \in BlockNumbers : ~Entering(c) /\ (Entering(c)' <=> c = next)
  BY <1>2, <1>5 DEF Entering
<1>8. \A c \in BlockNumbers : Live(c)' <=> Live(c)
  <2>1. \A c \in BlockNumbers : c # next => (Live(c)' <=> Live(c))
    BY <1>2, <1>4, <1>7 DEF Live
  <2>2. next \in BlockNumbers => ~Live(next)' BY <1>2, <1>3, <1>7 DEF Live
  <2> QED BY <1>3, <2>1, <2>2
<1> QED BY <1>2, <1>3, <1>6, <1>8 DEF WalkSame

\* or links in a block with an element.
LEMMA AllocateSame ==
  ASSUME QueueInv, AllocateBlock
  PROVE  WalkSame
<1>1. producer = "allocate" /\ UNCHANGED <<frontBlock, tailBlock, accepted, removed>>
  BY DEF AllocateBlock, producerRest, consumerVars
<1>2. CASE producer' = "idle" /\ blocks' = blocks
  BY <1>1, <1>2, Facts, NoBlockChanged, KeptSame
<1>3. CASE ~(producer' = "idle" /\ blocks' = blocks)
  <2>1. PICK s, n :
          /\ n = Len(blocks) + 1
          /\ s = (IF largestBlockSize >= MaxBlockSize THEN largestBlockSize
                                                       ELSE largestBlockSize * 2)
          /\ blocks' = Append([blocks EXCEPT ![tailBlock].next = n],
                              [NewBlock(s) EXCEPT !.tail = 1, !.localTail = 1,
                                                  !.data[0] = accepted + 1,
                                                  !.next = NewBlockNext])
          /\ producer' = "advance"
    BY <1>3 DEF AllocateBlock
  <2>2. s \in Sizes BY <2>1, GrownSize
  <2>3. accepted + 1 \in Items
    <3>1. accepted < MaxItems BY <1>1 DEF QueueInv, ProducerKnows
    <3> QED BY <3>1, Facts DEF Items
  <2>4. blocks' = Linked(tailBlock, s, accepted + 1) BY <2>1 DEF Linked, NewBlockNext
  <2>5. /\ n \notin BlockNumbers /\ blocks'[tailBlock].next = n
        /\ \A c \in BlockNumbers : /\ blocks'[c].front = blocks[c].front
                                   /\ blocks'[c].data = blocks[c].data
                                   /\ Filled(blocks'[c]) = Filled(blocks[c])
    <3>1. /\ BlocksOK /\ tailBlock \in BlockNumbers BY Facts
    <3>2. n = Len(blocks) + 1 BY <2>1
    <3>3. /\ n \notin BlockNumbers
          /\ \A c \in BlockNumbers : c # tailBlock => blocks'[c] = blocks[c]
          /\ blocks'[tailBlock].front = blocks[tailBlock].front
          /\ blocks'[tailBlock].data = blocks[tailBlock].data
          /\ blocks'[tailBlock].next = n
          /\ Filled(blocks'[tailBlock]) = Filled(blocks[tailBlock])
      BY <2>2, <2>3, <2>4, <3>1, <3>2, BlockLinked
    <3> QED BY <3>3
  <2>6. \A c \in BlockNumbers : First(c)' = First(c) /\ Behind(c)' = Behind(c)
    BY <1>1, <2>5 DEF First, Behind
  <2>7. \A c \in BlockNumbers : ~Entering(c) /\ ~Entering(c)'
    BY <1>1, <2>5 DEF Entering
  <2>8. \A c \in BlockNumbers : Live(c)' <=> Live(c) BY <1>1, <2>5, <2>7 DEF Live
  <2> QED BY <1>1, <2>6, <2>8 DEF WalkSame
<1> QED BY <1>2, <1>3

\* The element that is published is ahead of a walk that is not beyond the tail
\* block, and behind one that is.
LEMMA PublishFed ==
  ASSUME QueueInv, PublishElement, NEW pc \in SizeStates, NEW b \in BlockNumbers
  PROVE  Fed(pc, b)
<1>1. /\ producer = "publish" /\ producer' = "idle" /\ accepted' = accepted + 1
      /\ UNCHANGED <<frontBlock, tailBlock, removed>>
  BY DEF PublishElement, producerRest, consumerVars
<1>2. /\ \A c \in BlockNumbers : c # tailBlock => blocks'[c] = blocks[c]
      /\ blocks'[tailBlock].front = blocks[tailBlock].front
      /\ blocks'[tailBlock].data = blocks[tailBlock].data
      /\ Filled(blocks'[tailBlock]) = Filled(blocks[tailBlock]) + 1
  BY Published
<1>3. /\ accepted \in Nat /\ removed \in Nat /\ First(b) \in Nat /\ Behind(b) \in Nat
      /\ Filled(blocks[b]) \in Nat
  BY Facts, BlockCount
<1>4. First(b)' = First(b) BY <1>1, <1>2 DEF First
<1>5. Behind(b)' = Behind(b) + IF b = tailBlock THEN 1 ELSE 0
  <2>1. CASE b = tailBlock BY <1>2, <1>3, <1>4, <2>1 DEF Behind
  <2>2. CASE b # tailBlock BY <1>2, <1>3, <1>4, <2>2 DEF Behind
  <2> QED BY <2>1, <2>2
<1>6. Live(b)' <=> Live(b)
  <2>1. ~Entering(b) /\ ~Entering(b)' BY <1>1 DEF Entering
  <2> QED BY <1>1, <1>2, <2>1 DEF Live
<1>7. PassedNew(pc, b) = 0 /\ PassedNew(pc, b)' = 0 BY <1>1 DEF PassedNew
<1>8. CASE Walking(pc, b)
  <2>1. Walking(pc, b)' BY <1>6, <1>8 DEF Walking
  <2>2. /\ WalkedTo(pc, b) \in Nat
        /\ WalkedTo(pc, b)' = WalkedTo(pc, b) \/ WalkedTo(pc, b)' = WalkedTo(pc, b) + 1
    BY <1>3, <1>4, <1>5 DEF WalkedTo
  <2>3. /\ Ahead(pc, b) = accepted + 1 - WalkedTo(pc, b)
        /\ Ahead(pc, b)' = accepted + 2 - WalkedTo(pc, b)'
        /\ Passed(pc, b) = WalkedTo(pc, b) - removed - 1
        /\ Passed(pc, b)' = WalkedTo(pc, b)' - removed - 1
    BY <1>1, <1>3, <1>8, <2>1, <2>2 DEF Ahead, Passed
  <2> QED BY <1>3, <1>7, <2>2, <2>3 DEF Fed
<1>9. CASE ~Walking(pc, b)
  <2>1. ~Walking(pc, b)' BY <1>6, <1>9 DEF Walking
  <2> QED BY <1>1, <1>3, <1>7, <1>9, <2>1 DEF Ahead, Passed, Fed
<1> QED BY <1>8, <1>9

\* The block the producer moves into is one that a walk may have passed.
LEMMA AdvanceFed ==
  ASSUME QueueInv, AdvanceTailBlock, NEW pc \in SizeStates, NEW b \in BlockNumbers
  PROVE  Fed(pc, b)
<1>1. PICK next : next = blocks[tailBlock].next OBVIOUS
<1>2. /\ producer = "advance" /\ producer' = "idle" /\ accepted' = accepted + 1
      /\ removed' = removed
  BY DEF AdvanceTailBlock, producerRest, consumerVars
<1>3. /\ First(b)' = First(b) /\ Behind(b)' = Behind(b)
      /\ First(next) = accepted + 1 /\ Behind(next) = accepted + 2
      /\ Live(b)' <=> Live(b) \/ b = next
      /\ ~Live(next)
  BY <1>1, TailAdvanced
<1>4. /\ accepted \in Nat /\ removed \in Nat /\ First(b) \in Nat /\ Behind(b) \in Nat
  BY Facts, BlockCount
<1>5. PassedNew(pc, b)' = 0 BY <1>2 DEF PassedNew
<1>6. CASE Walking(pc, b)
  <2>1. Walking(pc, b)' BY <1>3, <1>6 DEF Walking
  <2>2. WalkedTo(pc, b) \in Nat /\ WalkedTo(pc, b)' = WalkedTo(pc, b)
    BY <1>3, <1>4 DEF WalkedTo
  <2>3. PassedNew(pc, b) = 0 BY <1>6 DEF PassedNew
  <2> QED BY <1>2, <1>4, <1>5, <1>6, <2>1, <2>2, <2>3 DEF Ahead, Passed, Fed
<1>7. CASE ~Walking(pc, b) /\ b = next /\ pc # "sized"
  <2>1. Walking(pc, b)' BY <1>3, <1>7 DEF Walking
  <2>2. Entering(b) BY <1>1, <1>2, <1>7 DEF Entering
  <2>3. WalkedTo(pc, b)' = accepted + (IF pc = "count" THEN 1 ELSE 2)
    BY <1>3, <1>7 DEF WalkedTo
  <2>4. PassedNew(pc, b) = IF pc = "count" THEN 0 ELSE 1 BY <1>2, <1>7, <2>2 DEF PassedNew
  <2>5. Ahead(pc, b) = 0 /\ Passed(pc, b) = accepted - removed BY <1>7 DEF Ahead, Passed
  <2> QED BY <1>2, <1>4, <1>5, <2>1, <2>3, <2>4, <2>5 DEF Ahead, Passed, Fed
<1>8. CASE ~Walking(pc, b) /\ (b # next \/ pc = "sized")
  <2>1. ~Walking(pc, b)' BY <1>3, <1>8 DEF Walking
  <2>2. PassedNew(pc, b) \in {0, 1} BY DEF PassedNew
  <2> QED BY <1>2, <1>4, <1>5, <1>8, <2>1, <2>2 DEF Ahead, Passed, Fed
<1> QED BY <1>6, <1>7, <1>8

\* What a step of the producer that changes nothing a walk counts leaves.
LEMMA ConsumerWalkSame ==
  ASSUME QueueInv, ConsumerSizes, WalkSame, producer # "advance", consumer' = consumer,
         sizing'["consumer"] = sizing["consumer"], held'["consumer"] = held["consumer"]
  PROVE  ConsumerSizes'
<1>1. \A pc \in SizeStates : \A b \in BlockNumbers : Fed(pc, b) BY SameFed
<1>2. frontBlock' = frontBlock BY DEF WalkSame
<1> QED BY <1>1, <1>2, ConsumerWalkFed

\* The producer's steps keep what the consumer has counted, and it is not walking
\* itself as it takes them.
LEMMA ProducerStepSizes ==
  ASSUME QueueInv, SizingInv, ProducerNext
  PROVE  SizingInv'
<1>1. ConsumerSizes BY DEF SizingInv
<1>2. /\ consumer' = consumer /\ sizing' = sizing /\ frontBlock' = frontBlock /\ removed' = removed
      /\ producer' \in {"idle", "refresh", "write", "publish", "full", "nextBlock", "allocate",
                        "advance"}
  BY DEF ProducerNext, Enqueue, RefreshFront, WriteElement, PublishElement, TailBlockFull,
         UseNextBlock, AllocateBlock, AdvanceTailBlock, WithRoom, producerRest, consumerVars
<1>3. held'["consumer"] = held["consumer"]
  <2>1. held' = held \/ held' = [held EXCEPT !["producer"] = accepted - removed]
    BY DEF ProducerNext, Enqueue, RefreshFront, WriteElement, PublishElement, TailBlockFull,
           UseNextBlock, AllocateBlock, AdvanceTailBlock, Begin, Answer, Continue
  <2> QED BY <2>1, Facts DEF Threads
<1>4. ProducerSizes' BY <1>2 DEF ProducerSizes, SizeStates
<1>5. ConsumerSizes'
  <2>1. CASE (\E m \in Modes : Enqueue(m)) \/ TailBlockFull
    <3>1. /\ blocks' = blocks /\ UNCHANGED <<tailBlock, accepted>>
          /\ producer # "advance" /\ producer' # "advance"
      BY <2>1 DEF Enqueue, TailBlockFull, WithRoom
    <3>2. BlocksKept BY <3>1, Facts, NoBlockChanged
    <3> QED BY <1>1, <1>2, <1>3, <3>1, <3>2, KeptSame, ConsumerWalkSame
  <2>2. CASE RefreshFront
    <3>1. /\ blocks' = [blocks EXCEPT ![tailBlock].localFront = blocks[tailBlock].front]
          /\ UNCHANGED <<tailBlock, accepted>>
          /\ producer # "advance" /\ producer' # "advance"
      BY <2>2 DEF RefreshFront
    <3>2. blocks[tailBlock].front \in 0..blocks[tailBlock].size - 1 BY Facts DEF Indices
    <3>3. BlocksKept BY <3>1, <3>2, Facts, CopyKeeps
    <3> QED BY <1>1, <1>2, <1>3, <3>1, <3>3, KeptSame, ConsumerWalkSame
  <2>3. CASE WriteElement
    <3>1. producer # "advance" BY <2>3 DEF WriteElement
    <3> QED BY <1>1, <1>2, <1>3, <2>3, <3>1, WriteSame, ConsumerWalkSame
  <2>4. CASE PublishElement
    <3>1. \A pc \in SizeStates : \A b \in BlockNumbers : Fed(pc, b) BY <2>4, PublishFed
    <3> QED BY <1>1, <1>2, <1>3, <3>1, ConsumerWalkFed
  <2>5. CASE UseNextBlock
    <3>1. producer # "advance" BY <2>5 DEF UseNextBlock
    <3> QED BY <1>1, <1>2, <1>3, <2>5, <3>1, NextSame, ConsumerWalkSame
  <2>6. CASE AllocateBlock
    <3>1. producer # "advance" BY <2>6 DEF AllocateBlock
    <3> QED BY <1>1, <1>2, <1>3, <2>6, <3>1, AllocateSame, ConsumerWalkSame
  <2>7. CASE AdvanceTailBlock
    <3>1. \A pc \in SizeStates : \A b \in BlockNumbers : Fed(pc, b) BY <2>7, AdvanceFed
    <3> QED BY <1>1, <1>2, <1>3, <3>1, ConsumerWalkFed
  <2> QED BY <2>1, <2>2, <2>3, <2>4, <2>5, <2>6, <2>7 DEF ProducerNext
<1> QED BY <1>4, <1>5 DEF SizingInv

(***************************************************************************)
(* The consumer's steps, for a walk of the producer.                       *)
(***************************************************************************)
\* The blocks the consumer has left go on to account for what the walk counted.
Accounted(left, first, pc, a, n, h) ==
  left \in SUBSET BlockNumbers /\ Left(left, first) /\ Tallied(left, pc, a, n, h)

LEMMA ProducerWalkKept ==
  ASSUME QueueInv, ProducerSizes,
         \A left \in SUBSET BlockNumbers : \A first, a \in BlockNumbers : \A pc \in SizeStates :
           \A n, h \in Nat :
             producer = pc /\ Left(left, first) /\ Tallied(left, pc, a, n, h)
               => \E now : Accounted(now, first, pc, a, n, h)',
         producer' = producer, sizing'["producer"] = sizing["producer"],
         held'["producer"] = held["producer"]
  PROVE  ProducerSizes'
<1>1. PICK s : s = sizing["producer"] OBVIOUS
<1>2. PICK h : h = held["producer"] OBVIOUS
<1>3. PICK pc : pc = producer OBVIOUS
<1>4. /\ s.first \in BlockNumbers /\ s.at \in BlockNumbers /\ s.sum \in Nat /\ h \in Nat
  BY <1>1, <1>2, WalkAt DEF Threads
<1>5. CASE pc \in SizeStates
  <2>1. PICK left \in SUBSET BlockNumbers :
          Left(left, s.first) /\ Tallied(left, pc, s.at, s.sum, h)
    BY <1>1, <1>2, <1>3, <1>5 DEF ProducerSizes, Tallied
  <2>2. PICK now : Accounted(now, s.first, pc, s.at, s.sum, h)'
    BY <1>3, <1>4, <1>5, <2>1
  <2> QED BY <1>1, <1>2, <1>3, <2>2 DEF Accounted, ProducerSizes, Tallied
<1>6. CASE pc \notin SizeStates BY <1>3, <1>6 DEF ProducerSizes
<1> QED BY <1>5, <1>6

\* So it is where nothing changes of what a walk counts,
LEMMA ProducerWalkSame ==
  ASSUME QueueInv, ProducerSizes, WalkSame, LinksSame, producer' = producer,
         sizing'["producer"] = sizing["producer"], held'["producer"] = held["producer"]
  PROVE  ProducerSizes'
<1>1. ASSUME NEW left \in SUBSET BlockNumbers, NEW first, NEW pc, NEW a \in BlockNumbers,
             NEW n, NEW h, Left(left, first), Tallied(left, pc, a, n, h)
      PROVE  Accounted(left, first, pc, a, n, h)'
  <2>1. left \in SUBSET BlockNumbers' /\ Left(left, first)' BY <1>1, LeftStays DEF WalkSame
  <2>2. Ahead(pc, a)' = Ahead(pc, a) /\ Passed(pc, a)' = Passed(pc, a) BY WalkStays
  <2>3. accepted' = accepted /\ removed' = removed BY DEF WalkSame
  <2> QED BY <1>1, <2>1, <2>2, <2>3 DEF Accounted, Tallied
<1> QED BY <1>1, ProducerWalkKept

\* where a slot is freed,
LEMMA ReleaseKeepsWalk ==
  ASSUME QueueInv, ProducerSizes, ReleaseSlot
  PROVE  ProducerSizes'
<1>1. /\ removed' = removed + 1
      /\ UNCHANGED <<frontBlock, producer, accepted, sizing, held>>
  BY DEF ReleaseSlot, consumerRest, producerVars, Answer
<1>2. /\ \A c \in BlockNumbers : c # frontBlock => First(c)' = First(c)
      /\ First(frontBlock) = removed + 1 /\ First(frontBlock)' = removed + 2
      /\ \A c \in BlockNumbers : (Live(c)' <=> Live(c)) /\ Behind(c)' = Behind(c)
  BY ReleasedSame
<1>3. LinksSame BY SlotReleased DEF LinksSame
<1>4. accepted \in Nat /\ removed \in Nat BY Facts
<1>5. ASSUME NEW left \in SUBSET BlockNumbers, NEW first, NEW pc \in SizeStates,
             NEW a \in BlockNumbers, NEW n \in Nat, NEW h \in Nat,
             Left(left, first), Tallied(left, pc, a, n, h)
      PROVE  Accounted(left, first, pc, a, n, h)'
  <2>1. left \in SUBSET BlockNumbers' /\ Left(left, first)'
    BY <1>1, <1>2, <1>3, <1>5, LeftStays
  <2>2. First(a) \in Nat /\ Behind(a) \in Nat BY BlockCount
  <2>3. CASE Walking(pc, a)
    <3>1. Walking(pc, a)' BY <1>2, <2>3 DEF Walking
    <3>2. /\ WalkedTo(pc, a) \in Nat
          /\ \/ WalkedTo(pc, a)' = WalkedTo(pc, a)
             \/ WalkedTo(pc, a)' = WalkedTo(pc, a) + 1
      BY <1>1, <1>2, <1>4, <2>2 DEF WalkedTo
    <3>3. /\ Ahead(pc, a) = accepted + 1 - WalkedTo(pc, a)
          /\ Ahead(pc, a)' = accepted + 1 - WalkedTo(pc, a)'
          /\ Passed(pc, a) = WalkedTo(pc, a) - removed - 1
          /\ Passed(pc, a)' = WalkedTo(pc, a)' - removed - 2
      BY <1>1, <1>4, <2>3, <3>1, <3>2 DEF Ahead, Passed
    <3> QED BY <1>1, <1>4, <1>5, <2>1, <3>2, <3>3 DEF Accounted, Tallied
  <2>4. CASE ~Walking(pc, a)
    <3>1. ~Walking(pc, a)' BY <1>2, <2>4 DEF Walking
    <3>2. /\ Ahead(pc, a) = 0 /\ Ahead(pc, a)' = 0
          /\ Passed(pc, a) = accepted - removed /\ Passed(pc, a)' = accepted - removed - 1
      BY <1>1, <1>4, <2>4, <3>1 DEF Ahead, Passed
    <3> QED BY <1>1, <1>4, <1>5, <2>1, <3>2 DEF Accounted, Tallied
  <2> QED BY <2>3, <2>4
<1> QED BY <1>1, <1>5, ProducerWalkKept

\* and where the consumer leaves another block.
LEMMA AdvanceKeepsWalk ==
  ASSUME QueueInv, ProducerSizes, AdvanceFrontBlock
  PROVE  ProducerSizes'
<1>1. PICK old : old = frontBlock OBVIOUS
<1>2. PICK next : next = blocks[frontBlock].next OBVIOUS
<1>3. /\ frontBlock' = next
      /\ UNCHANGED <<blocks, tailBlock, producer, accepted, removed, sizing, held>>
  BY <1>2 DEF AdvanceFrontBlock, consumerRest, producerVars, Continue
<1>4. /\ Filled(blocks[old]) = 0 /\ Live(next) /\ next # old
      /\ \A c \in BlockNumbers : c # old => First(c)' = First(c) /\ Behind(c)' = Behind(c)
      /\ ~Live(old)'
      /\ \A c \in BlockNumbers : c # old => (Live(c)' <=> Live(c))
  BY <1>1, <1>2, FrontAdvanced
<1>5. /\ BlockNumbers' = BlockNumbers /\ old \in BlockNumbers /\ next \in BlockNumbers
      /\ accepted \in Nat /\ removed \in Nat
      /\ \A c \in BlockNumbers : blocks[c].next = next <=> c = old
  BY <1>1, <1>2, <1>3, Facts, CircleFacts DEF BlockNumbers
<1>6. Live(old) /\ First(old) = removed + 1 /\ Behind(old) = removed + 1
  <2>1. Live(old) /\ First(old) = removed + 1 BY <1>1, WalkAt DEF Threads
  <2> QED BY <1>4, <1>5, <2>1 DEF Behind
<1>7. ASSUME NEW left \in SUBSET BlockNumbers, NEW first, NEW pc \in SizeStates,
             NEW a \in BlockNumbers, NEW n \in Nat, NEW h \in Nat,
             Left(left, first), Tallied(left, pc, a, n, h)
      PROVE  Accounted(left \union {old}, first, pc, a, n, h)'
  <2>1. old \notin left /\ next \notin left /\ first # next
    BY <1>1, <1>4, <1>6, <1>7 DEF Left
  <2>2. Left(left \union {old}, first)'
    <3>1. first \in left \union {old} BY <1>1, <1>7 DEF Left
    <3>2. \A c \in left : ~Live(c)' BY <1>4, <1>7, <2>1 DEF Left
    <3>3. \A c \in BlockNumbers : c \in left <=> blocks[c].next \in (left \union {old}) \ {first}
      BY <1>1, <1>7 DEF Left
    <3>4. \A c \in BlockNumbers :
            c \in left \union {old}
              <=> blocks[c].next \in ((left \union {old}) \union {next}) \ {first}
      BY <1>5, <2>1, <3>3
    <3> QED BY <1>3, <1>4, <1>5, <3>1, <3>2, <3>4 DEF Left
  <2>3. CASE a = old
    <3>1. pc # "sized" => n + (accepted - removed) <= h
      <4>1. pc # "sized" => Walking(pc, a) /\ WalkedTo(pc, a) = removed + 1
        BY <1>6, <2>3 DEF Walking, WalkedTo
      <4> QED BY <1>5, <1>7, <2>1, <2>3, <4>1 DEF Tallied, Ahead
    <3>2. pc = "sized" => n <= h /\ accepted - removed <= n
      BY <1>5, <1>7 DEF Tallied, Ahead, Passed, Walking
    <3> QED BY <1>3, <1>5, <1>7, <2>2, <2>3, <3>1, <3>2
        DEF Accounted, Tallied, Ahead, Passed, Walking
  <2>4. CASE a # old
    <3>1. Walking(pc, a)' <=> Walking(pc, a) BY <1>4, <2>4 DEF Walking
    <3>2. WalkedTo(pc, a)' = WalkedTo(pc, a) BY <1>4, <2>4 DEF WalkedTo
    <3>3. Ahead(pc, a)' = Ahead(pc, a) /\ Passed(pc, a)' = Passed(pc, a)
      BY <1>3, <3>1, <3>2 DEF Ahead, Passed
    <3> QED BY <1>3, <1>5, <1>7, <2>2, <2>4, <3>3 DEF Accounted, Tallied
  <2> QED BY <2>3, <2>4
<1> QED BY <1>3, <1>7, ProducerWalkKept

\* The consumer's steps keep what the producer has counted, and it is not walking
\* itself as it takes them.
LEMMA ConsumerStepSizes ==
  ASSUME QueueInv, SizingInv, ConsumerNext
  PROVE  SizingInv'
<1>1. ProducerSizes BY DEF SizingInv
<1>2. /\ producer' = producer /\ sizing' = sizing /\ tailBlock' = tailBlock /\ accepted' = accepted
      /\ consumer' \in {"idle", "refresh", "tailBlock", "recheck", "nextBlock", "advance", "take",
                        "release"}
  BY DEF ConsumerNext, Dequeue, RefreshTail, CheckTailBlock, Recheck, NextBlockTail,
         AdvanceFrontBlock, TakeElement, ReleaseSlot, ReadTail, consumerRest, producerVars
<1>3. held'["producer"] = held["producer"]
  <2>1. held' = held \/ held' = [held EXCEPT !["consumer"] = accepted - removed]
    BY DEF ConsumerNext, Dequeue, RefreshTail, CheckTailBlock, Recheck, NextBlockTail,
           AdvanceFrontBlock, TakeElement, ReleaseSlot, Begin, Answer, Continue
  <2> QED BY <2>1, Facts DEF Threads
<1>4. ConsumerSizes' BY <1>2 DEF ConsumerSizes, SizeStates
<1>5. ProducerSizes'
  <2>1. CASE producer \in SizeStates
    <3>1. producer # "advance" /\ producer' # "advance" BY <1>2, <2>1 DEF SizeStates
    <3>2. CASE (\E o \in {"try_dequeue", "pop", "peek"} : Dequeue(o)) \/ CheckTailBlock
      <4>1. blocks' = blocks /\ UNCHANGED <<frontBlock, removed>>
        BY <3>2 DEF Dequeue, CheckTailBlock
      <4>2. BlocksKept BY <4>1, Facts, NoBlockChanged
      <4> QED BY <1>1, <1>2, <1>3, <3>1, <4>1, <4>2, KeptSame, ProducerWalkSame
    <3>3. CASE RefreshTail \/ Recheck
      <4>1. /\ blocks' = [blocks EXCEPT ![frontBlock].localTail = blocks[frontBlock].tail]
            /\ UNCHANGED <<frontBlock, removed>>
        BY <3>3 DEF RefreshTail, Recheck, ReadTail
      <4>2. blocks[frontBlock].tail \in 0..blocks[frontBlock].size - 1 BY Facts DEF Indices
      <4>3. BlocksKept BY <4>1, <4>2, Facts, CopyKeeps
      <4> QED BY <1>1, <1>2, <1>3, <3>1, <4>1, <4>3, KeptSame, ProducerWalkSame
    <3>4. CASE NextBlockTail
      <4>1. PICK next : next = blocks[frontBlock].next OBVIOUS
      <4>2. /\ UNCHANGED <<frontBlock, removed>>
            /\ blocks' = blocks \/ blocks' = [blocks EXCEPT ![next].localTail = blocks[next].tail]
        BY <3>4, <4>1 DEF NextBlockTail
      <4>3. next \in BlockNumbers /\ blocks[next].tail \in 0..blocks[next].size - 1
        BY <4>1, Facts, FieldsOfAll DEF Indices
      <4>4. BlocksKept BY <4>2, <4>3, Facts, NoBlockChanged, CopyKeeps
      <4> QED BY <1>1, <1>2, <1>3, <3>1, <4>2, <4>4, KeptSame, ProducerWalkSame
    <3>5. CASE TakeElement
      <4>1. /\ UNCHANGED <<frontBlock, removed>>
            /\ blocks' = blocks
               \/ blocks' = [blocks EXCEPT ![frontBlock].data[blocks[frontBlock].front] = Raw]
        BY <3>5 DEF TakeElement
      <4>2. CASE blocks' = blocks
        <5>1. BlocksKept BY <4>2, Facts, NoBlockChanged
        <5> QED BY <1>1, <1>2, <1>3, <3>1, <4>1, <5>1, KeptSame, ProducerWalkSame
      <4>3. CASE blocks' = [blocks EXCEPT ![frontBlock].data[blocks[frontBlock].front] = Raw]
        <5>1. /\ frontBlock \in BlockNumbers /\ Raw \in Items \union {Raw}
              /\ blocks[frontBlock].front \in 0..blocks[frontBlock].size - 1
          BY Facts DEF Indices
        <5>2. WalkSame /\ LinksSame BY <1>2, <3>1, <4>1, <4>3, <5>1, SlotSame
        <5> QED BY <1>1, <1>2, <1>3, <5>2, ProducerWalkSame
      <4> QED BY <4>1, <4>2, <4>3
    <3>6. CASE ReleaseSlot BY <1>1, <3>6, ReleaseKeepsWalk
    <3>7. CASE AdvanceFrontBlock BY <1>1, <3>7, AdvanceKeepsWalk
    <3> QED BY <3>2, <3>3, <3>4, <3>5, <3>6, <3>7 DEF ConsumerNext
  <2>2. CASE producer \notin SizeStates BY <1>2, <2>2 DEF ProducerSizes
  <2> QED BY <2>1, <2>2
<1> QED BY <1>4, <1>5 DEF SizingInv

\* A step of one walk keeps that walk, and the other one.
LEMMA WalkStepSizes ==
  ASSUME QueueInv, SizingInv, NEW t \in SizeCallers, SizeNext(t)
  PROVE  SizingInv'
<1>1. ConsumerSizes /\ ProducerSizes BY DEF SizingInv
<1>2. /\ t \in Threads /\ WalkSame /\ LinksSame
      /\ \A u \in Threads : u # t => sizing'[u] = sizing[u] /\ held'[u] = held[u]
      /\ t = "producer" => consumer' = consumer /\ producer # "advance"
      /\ t = "consumer" => producer' = producer
  BY WalkSteps
<1>3. CASE t = "producer"
  <2>1. ProducerSizes' BY <1>1, <1>3, ProducerWalks
  <2>2. ConsumerSizes' BY <1>1, <1>2, <1>3, ConsumerWalkSame DEF Threads
  <2> QED BY <2>1, <2>2 DEF SizingInv
<1>4. CASE t = "consumer"
  <2>1. ConsumerSizes' BY <1>1, <1>4, ConsumerWalks
  <2>2. ProducerSizes' BY <1>1, <1>2, <1>4, ProducerWalkSame DEF Threads
  <2> QED BY <2>1, <2>2 DEF SizingInv
<1> QED BY <1>2, <1>3, <1>4 DEF Threads

\* Nothing at all happens.
LEMMA StutterSizes ==
  ASSUME SizingInv, UNCHANGED vars
  PROVE  SizingInv'
<1>1. UNCHANGED <<blocks, frontBlock, tailBlock, producer, consumer, sizing, accepted, removed, held>>
  BY DEF vars, producerVars, consumerVars
<1> QED BY <1>1
    DEF SizingInv, ConsumerSizes, ProducerSizes, Left, Ahead, Passed, PassedNew, Walking, WalkedTo,
        Live, First, Behind, Entering, BlockNumbers

\* No call of size_approx has begun.
LEMMA InitSizes == Init => SizingInv
BY DEF Init, SizingInv, ConsumerSizes, ProducerSizes, SizeStates

\* Wherever a walk of either thread is, what it has counted is at most what was
\* there as it began or has come since, and at least what has stayed.
THEOREM QueueSizing == Spec => []SizingInv
<1>1. QueueInv /\ SizingInv /\ [Next]_vars => SizingInv'
  BY ProducerStepSizes, ConsumerStepSizes, WalkStepSizes, StutterSizes DEF Next
<1> QED BY <1>1, InitSizes, QueueInvariant, PTL DEF Spec

\* What size_approx returns lies between the numbers of elements at its start and
\* at its end, but for one that the consumer may count before it is accepted.
THEOREM QueueSizeApproxBetween == Spec => []SizeApproxBetween
<1>1. QueueInv /\ SizingInv => SizeApproxBetween
  <2> SUFFICES ASSUME QueueInv, SizingInv PROVE SizeApproxBetween OBVIOUS
  <2>1. /\ accepted \in Nat /\ removed \in Nat
        /\ \A t \in Threads : sizing[t].sum \in Nat /\ held[t] \in Nat
    BY WalkAt DEF Threads
  <2>2. \A b : Ahead("sized", b) = 0 /\ Passed("sized", b) = accepted - removed
                                     /\ PassedNew("sized", b) \in {0, 1}
    BY DEF Ahead, Passed, PassedNew, Walking
  <2>3. producer = "sized" => /\ sizing["producer"].sum >= accepted - removed
                              /\ sizing["producer"].sum <= held["producer"]
    BY <2>1, <2>2 DEF SizingInv, ProducerSizes, SizeStates, Threads
  <2>4. consumer = "sized" => /\ sizing["consumer"].sum >= held["consumer"]
                              /\ sizing["consumer"].sum <= accepted - removed + 1
    <3> SUFFICES ASSUME consumer = "sized"
                 PROVE  /\ sizing["consumer"].sum >= held["consumer"]
                        /\ sizing["consumer"].sum <= accepted - removed + 1
      OBVIOUS
    <3>1. /\ held["consumer"] <= sizing["consumer"].sum + Ahead("sized", sizing["consumer"].at)
          /\ sizing["consumer"].sum <= Passed("sized", sizing["consumer"].at)
                                         + PassedNew("sized", sizing["consumer"].at)
      BY DEF SizingInv, ConsumerSizes, SizeStates
    <3> QED BY <2>1, <2>2, <3>1 DEF Threads
  <2> QED BY <2>3, <2>4 DEF SizeApproxBetween
<1> QED BY <1>1, QueueInvariant, QueueSizing, PTL
==============================================================================
