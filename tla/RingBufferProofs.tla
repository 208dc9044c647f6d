-------------------------- MODULE RingBufferProofs --------------------------
(***************************************************************************)
(* The ring buffer is a bounded FIFO queue, for every size and every       *)
(* number of producers, as long as only one producer pushes at a time.     *)
(***************************************************************************)
EXTENDS RingBuffer, SequenceTheorems, TLAPS

(* Pushes do not overlap: there is a lock, or only one producer.           *)
SingleWriter == Serialised \/ \A p, q \in Producers : p = q

-----------------------------------------------------------------------------
(* Wrapping around: one subtraction is enough.                             *)
LEMMA IndexFormat ==
  ASSUME NEW x \in 0 .. 2 * Size - 1
  PROVE  index_format(x) = IF x < Size THEN x ELSE x - Size
  BY SizeAssumption DEF index_format

(* The slot after a slot is a slot.                                        *)
LEMMA NextSlot ==
  ASSUME NEW i \in Slots
  PROVE  /\ index_format(i + 1) \in Slots
         /\ index_format(i + 1) = IF i = Size - 1 THEN 0 ELSE i + 1
<1>1. i + 1 \in 0 .. 2 * Size - 1
  BY SizeAssumption DEF Slots
<1>2. QED
  BY <1>1, IndexFormat, SizeAssumption DEF Slots

(* How far apart the indices are: empty and full can be told apart.        *)
LEMMA DistanceType ==
  ASSUME NEW r \in Slots, NEW w \in Slots
  PROVE  /\ Distance(r, w) \in 0 .. Size - 1
         /\ Distance(r, w) = 0 <=> r = w
         /\ Distance(r, w) = Size - 1 <=> index_format(w + 1) = r
  BY NextSlot, SizeAssumption DEF Distance, Slots

(* Moving an index on by one slot changes the distance by one.             *)
LEMMA DistanceChange ==
  ASSUME NEW r \in Slots, NEW w \in Slots
  PROVE  /\ index_format(w + 1) # r => Distance(r, index_format(w + 1)) = Distance(r, w) + 1
         /\ r # w => Distance(index_format(r + 1), w) = Distance(r, w) - 1
<1>1. /\ index_format(w + 1) = IF w = Size - 1 THEN 0 ELSE w + 1
      /\ index_format(r + 1) = IF r = Size - 1 THEN 0 ELSE r + 1
      /\ Size \in Nat /\ Size >= 2
  BY NextSlot, SizeAssumption
<1>2. QED
  BY <1>1 DEF Distance, Slots

(* The slots between the indices, the one that comes next, and how they    *)
(* are counted once the first is gone.                                     *)
LEMMA SlotsBetween ==
  ASSUME NEW r \in Slots, NEW w \in Slots
  PROVE  /\ \A i \in 1 .. Distance(r, w) : /\ index_format(r + i - 1) \in Slots
                                          /\ index_format(r + i - 1) # w
         /\ index_format(r + Distance(r, w)) = w
         /\ \A i \in 1 .. Distance(r, w) :
              index_format(index_format(r + 1) + i - 1) = index_format(r + i)
<1>1. Distance(r, w) \in Nat /\ Distance(r, w) =< Size - 1 /\ Size \in Nat /\ Size >= 2
  BY DistanceType, SizeAssumption
<1>2. ASSUME NEW i \in 1 .. Distance(r, w)
      PROVE  index_format(r + i - 1) \in Slots /\ index_format(r + i - 1) # w
  <2> DEFINE x == r + i - 1
  <2>1. x \in 0 .. 2 * Size - 1
    BY <1>1 DEF Slots
  <2> HIDE DEF x
  <2>2. index_format(x) = IF x < Size THEN x ELSE x - Size
    BY <2>1, IndexFormat
  <2>3. index_format(x) \in Slots /\ index_format(x) # w
    BY <1>1, <2>1, <2>2 DEF Distance, Slots, x
  <2>4. QED
    BY <2>3 DEF x
<1>3. index_format(r + Distance(r, w)) = w
  <2> DEFINE x == r + Distance(r, w)
  <2>1. x \in 0 .. 2 * Size - 1
    BY <1>1 DEF Slots
  <2> HIDE DEF x
  <2>2. index_format(x) = IF x < Size THEN x ELSE x - Size
    BY <2>1, IndexFormat
  <2>3. index_format(x) = w
    BY <1>1, <2>2 DEF Distance, Slots, x
  <2>4. QED
    BY <2>3 DEF x
<1>4. ASSUME NEW i \in 1 .. Distance(r, w)
      PROVE  index_format(index_format(r + 1) + i - 1) = index_format(r + i)
  <2> DEFINE x == r + i
             y == index_format(r + 1) + i - 1
  <2>1. index_format(r + 1) = IF r = Size - 1 THEN 0 ELSE r + 1
    BY NextSlot
  <2>2. x \in 0 .. 2 * Size - 1 /\ y \in 0 .. 2 * Size - 1
    BY <1>1, <2>1 DEF Slots
  <2>3. y = IF r = Size - 1 THEN x - Size ELSE x
    BY <1>1, <2>1 DEF Slots
  <2>4. r = Size - 1 => x >= Size /\ x - Size < Size
    BY <1>1 DEF Slots
  <2> HIDE DEF x, y
  <2>5. /\ index_format(x) = IF x < Size THEN x ELSE x - Size
        /\ index_format(y) = IF y < Size THEN y ELSE y - Size
    BY <2>2, IndexFormat
  <2>6. index_format(y) = index_format(x)
    BY <1>1, <2>2, <2>3, <2>4, <2>5
  <2>7. QED
    BY <2>6 DEF x, y
<1>5. QED
  BY <1>2, <1>3, <1>4

(* What lies between two indices is a sequence of items, read slot by slot.*)
LEMMA ContentType ==
  ASSUME NEW b \in [Slots -> Nat], NEW r \in Slots, NEW w \in Slots
  PROVE  /\ ContentOf(b, r, w) \in Seq(Nat)
         /\ Len(ContentOf(b, r, w)) = Distance(r, w)
         /\ \A i \in 1 .. Distance(r, w) : ContentOf(b, r, w)[i] = b[index_format(r + i - 1)]
<1>1. Distance(r, w) \in Nat
  BY DistanceType, SizeAssumption
<1>2. \A i \in 1 .. Distance(r, w) : b[index_format(r + i - 1)] \in Nat
  BY SlotsBetween
<1>3. QED
  BY <1>1, <1>2 DEF ContentOf

(* Writing the slot at w leaves the content alone.                         *)
LEMMA SameContent ==
  ASSUME NEW b \in [Slots -> Nat], NEW c \in [Slots -> Nat],
         NEW r \in Slots, NEW w \in Slots,
         \A i \in Slots : i # w => c[i] = b[i]
  PROVE  ContentOf(c, r, w) = ContentOf(b, r, w)
<1>1. \A i \in 1 .. Distance(r, w) :
        c[index_format(r + i - 1)] = b[index_format(r + i - 1)]
  BY SlotsBetween
<1>2. QED
  BY <1>1 DEF ContentOf

(* Moving w on appends the slot it pointed to.                             *)
LEMMA ContentAppend ==
  ASSUME NEW b \in [Slots -> Nat], NEW r \in Slots, NEW w \in Slots,
         index_format(w + 1) # r
  PROVE  ContentOf(b, r, index_format(w + 1)) = Append(ContentOf(b, r, w), b[w])
<1> DEFINE v == index_format(w + 1)
           D == Distance(r, w)
           s == ContentOf(b, r, w)
           t == ContentOf(b, r, v)
<1>1. v \in Slots
  BY NextSlot
<1>2. D \in Nat /\ Distance(r, v) = D + 1
  BY DistanceChange, DistanceType, SizeAssumption
<1>3. index_format(r + D) = w
  BY SlotsBetween
<1> HIDE DEF v, D
<1>4. /\ s \in Seq(Nat) /\ Len(s) = D
      /\ \A i \in 1 .. D : s[i] = b[index_format(r + i - 1)]
  BY ContentType DEF D
<1>5. /\ t \in Seq(Nat) /\ Len(t) = D + 1
      /\ \A i \in 1 .. D + 1 : t[i] = b[index_format(r + i - 1)]
  <2>1. /\ t \in Seq(Nat) /\ Len(t) = Distance(r, v)
        /\ \A i \in 1 .. Distance(r, v) : t[i] = b[index_format(r + i - 1)]
    BY <1>1, ContentType
  <2> QED
    BY <1>2, <2>1
<1> HIDE DEF s, t
<1>6. /\ Append(s, b[w]) \in Seq(Nat) /\ Len(Append(s, b[w])) = D + 1
      /\ \A i \in 1 .. D : Append(s, b[w])[i] = s[i]
      /\ Append(s, b[w])[D + 1] = b[w]
  BY <1>2, <1>4
<1>7. ASSUME NEW i \in 1 .. D + 1
      PROVE  t[i] = Append(s, b[w])[i]
  <2>1. CASE i \in 1 .. D
    <3>1. t[i] = b[index_format(r + i - 1)]
      BY <1>5
    <3>2. s[i] = b[index_format(r + i - 1)]
      BY <1>4, <2>1
    <3>3. Append(s, b[w])[i] = s[i]
      BY <1>6, <2>1
    <3>4. QED
      BY <3>1, <3>2, <3>3
  <2>2. CASE i = D + 1
    <3>1. r + i - 1 = r + D
      BY <1>2, <2>2 DEF Slots
    <3>2. QED
      BY <1>3, <1>5, <1>6, <2>2, <3>1
  <2>3. i \in 1 .. D \/ i = D + 1
    BY <1>2
  <2>4. QED
    BY <2>1, <2>2, <2>3
<1>8. t = Append(s, b[w])
  BY <1>5, <1>6, <1>7, SeqEqual
<1>9. QED
  BY <1>8 DEF s, t, v

(* Moving r on removes the slot it pointed to.                             *)
LEMMA ContentTail ==
  ASSUME NEW b \in [Slots -> Nat], NEW r \in Slots, NEW w \in Slots, r # w
  PROVE  /\ ContentOf(b, r, w) # << >>
         /\ Head(ContentOf(b, r, w)) = b[r]
         /\ ContentOf(b, index_format(r + 1), w) = Tail(ContentOf(b, r, w))
<1> DEFINE v == index_format(r + 1)
           D == Distance(r, w)
           s == ContentOf(b, r, w)
           t == ContentOf(b, v, w)
<1>1. v \in Slots
  BY NextSlot
<1>2. D \in Nat \ {0} /\ Distance(v, w) = D - 1
  BY DistanceChange, DistanceType, SizeAssumption
<1>3. \A i \in 1 .. D : index_format(v + i - 1) = index_format(r + i)
  BY SlotsBetween
<1>4. index_format(r + 1 - 1) = r
  <2>1. r \in 0 .. 2 * Size - 1 /\ r < Size /\ r + 1 - 1 = r
    BY SizeAssumption DEF Slots
  <2>2. QED
    BY <2>1, IndexFormat
<1> HIDE DEF v, D
<1>5. /\ s \in Seq(Nat) /\ Len(s) = D
      /\ \A i \in 1 .. D : s[i] = b[index_format(r + i - 1)]
  BY ContentType DEF D
<1>6. /\ t \in Seq(Nat) /\ Len(t) = D - 1
      /\ \A i \in 1 .. D - 1 : t[i] = b[index_format(v + i - 1)]
  <2>1. /\ t \in Seq(Nat) /\ Len(t) = Distance(v, w)
        /\ \A i \in 1 .. Distance(v, w) : t[i] = b[index_format(v + i - 1)]
    BY <1>1, ContentType
  <2> HIDE DEF t
  <2>2. QED
    BY <1>2, <2>1
<1> HIDE DEF s, t
<1>7. s # << >> /\ Head(s) = s[1] /\ 1 \in 1 .. D
  BY <1>2, <1>5
<1>8. /\ Tail(s) \in Seq(Nat) /\ Len(Tail(s)) = D - 1
      /\ \A i \in 1 .. D - 1 : Tail(s)[i] = s[i + 1]
  BY <1>2, <1>5, <1>7
<1>9. ASSUME NEW i \in 1 .. D - 1
      PROVE  t[i] = Tail(s)[i]
  <2>1. i \in 1 .. D /\ i + 1 \in 1 .. D /\ r + (i + 1) - 1 = r + i
    BY <1>2 DEF Slots
  <2>2. t[i] = b[index_format(v + i - 1)]
    BY <1>6
  <2>3. index_format(v + i - 1) = index_format(r + i)
    BY <1>3, <2>1
  <2>4. s[i + 1] = b[index_format(r + (i + 1) - 1)]
    BY <1>5, <2>1
  <2>5. s[i + 1] = b[index_format(r + i)]
    BY <2>1, <2>4
  <2>6. Tail(s)[i] = s[i + 1]
    BY <1>8
  <2>7. QED
    BY <2>2, <2>3, <2>5, <2>6
<1>10. t = Tail(s)
  BY <1>6, <1>8, <1>9, SeqEqual
<1>11. Head(s) = b[r]
  BY <1>4, <1>5, <1>7
<1>12. QED
  BY <1>7, <1>10, <1>11 DEF s, t, v

-----------------------------------------------------------------------------
(***************************************************************************)
(* The inductive invariant.                                                *)
(***************************************************************************)

(* A producer in the middle of a push is alone, keeps the room it has      *)
(* found, has written its item where write_idx points, and is about to     *)
(* publish the slot after it.                                              *)
ProducerInv ==
  \A p \in Producers : ppc[p] # "idle" =>
    /\ \A q \in Producers : ppc[q] # "idle" => q = p
    /\ index_format(write_idx + 1) # read_idx
    /\ item[p] \in 1 .. MaxOffered
    /\ ppc[p] \in {"advance", "publish"} => buffer[write_idx] = item[p]
    /\ ppc[p] = "publish" => next[p] = index_format(write_idx + 1)

(* A consumer in the middle of a pop keeps the item it has found.          *)
ConsumerInv ==
  /\ cpc # "idle" => read_idx # write_idx
  /\ cpc = "publish" => res = buffer[read_idx]

Inv == TypeOK /\ ProducerInv /\ ConsumerInv

(* The invariant holds of a new buffer.                                    *)
LEMMA InitInv == Init => Inv
  BY SizeAssumption DEF Init, Inv, TypeOK, ProducerInv, ConsumerInv, Slots

(* Every step keeps the types; the indices stay within the buffer.         *)
LEMMA TypeStep ==
  ASSUME TypeOK, [Next]_vars
  PROVE  TypeOK'
<1> USE DEF producerVars, consumerVars
<1>1. ASSUME NEW p \in Producers, Push(p)
      PROVE  TypeOK'
  <2>1. rejected' \subseteq Nat
    <3>1. offered + 1 \in Nat /\ rejected \subseteq Nat
      BY DEF TypeOK
    <3>2. rejected' = rejected \/ rejected' = rejected \cup {offered + 1}
      BY <1>1 DEF Push
    <3>3. QED
      BY <3>1, <3>2
  <2>2. item' \in [Producers -> Nat]
    BY <1>1 DEF Push, TypeOK
  <2>3. ppc' \in [Producers -> {"idle", "write", "advance", "publish"}]
    BY <1>1 DEF Push, TypeOK
  <2>4. QED
    BY <1>1, <2>1, <2>2, <2>3 DEF Push, TypeOK
<1>2. ASSUME NEW p \in Producers, WriteSlot(p)
      PROVE  TypeOK'
  BY <1>2 DEF WriteSlot, TypeOK
<1>3. ASSUME NEW p \in Producers, AdvanceWrite(p)
      PROVE  TypeOK'
  BY <1>3, NextSlot DEF AdvanceWrite, TypeOK
<1>4. ASSUME NEW p \in Producers, PublishWrite(p)
      PROVE  TypeOK'
  BY <1>4 DEF PublishWrite, TypeOK
<1>5. CASE Pop
  BY <1>5 DEF Pop, TypeOK
<1>6. CASE ReadSlot
  BY <1>6 DEF ReadSlot, TypeOK
<1>7. CASE PublishRead
  BY <1>7, NextSlot DEF PublishRead, TypeOK
<1>8. CASE ClearDestroy \/ ClearFinished
  BY <1>8 DEF ClearDestroy, ClearFinished, TypeOK
<1>9. CASE UNCHANGED vars
  BY <1>9 DEF vars, TypeOK
<1>10. QED
  BY <1>1, <1>2, <1>3, <1>4, <1>5, <1>6, <1>7, <1>8, <1>9 DEF Next, Destroyed

(* Every step keeps the invariant while pushes do not overlap.             *)
LEMMA NextInv ==
  ASSUME SingleWriter, Inv, [Next]_vars
  PROVE  Inv'
<1> USE DEF producerVars, consumerVars
<1>a. TypeOK /\ ProducerInv /\ ConsumerInv
  BY DEF Inv
<1>b. TypeOK'
  BY <1>a, TypeStep
<1>c. /\ read_idx \in Slots /\ write_idx \in Slots /\ Size \in Nat /\ Size >= 2
      /\ offered \in Nat /\ MaxOffered \in Nat
      /\ ppc \in [Producers -> {"idle", "write", "advance", "publish"}]
      /\ item \in [Producers -> Nat] /\ next \in [Producers -> Slots]
      /\ buffer \in [Slots -> Nat]
  BY <1>a, SizeAssumption DEF TypeOK
<1>1. ASSUME NEW p \in Producers, Push(p)
      PROVE  Inv'
  <2>1. ConsumerInv'
    BY <1>a, <1>1 DEF Push, ConsumerInv
  <2>2. CASE index_format(write_idx + 1) # read_idx
    <3>1. \A q \in Producers : q # p => ppc[q] = "idle"
      BY <1>1 DEF Push, SingleWriter
    <3>2. /\ ppc' = [ppc EXCEPT ![p] = "write"] /\ item' = [item EXCEPT ![p] = offered + 1]
          /\ UNCHANGED <<write_idx, read_idx>>
      BY <1>1, <2>2 DEF Push
    <3>3. \A q \in Producers : ppc'[q] # "idle" => q = p
      BY <1>c, <3>1, <3>2
    <3>4. ppc'[p] = "write" /\ item'[p] \in 1 .. MaxOffered
      BY <1>c, <1>1, <3>2 DEF Push
    <3>5. ProducerInv'
      BY <2>2, <3>2, <3>3, <3>4 DEF ProducerInv
    <3>6. QED
      BY <1>b, <2>1, <3>5 DEF Inv
  <2>3. CASE index_format(write_idx + 1) = read_idx
    BY <1>a, <1>b, <1>1, <2>1, <2>3 DEF Push, ProducerInv, Inv
  <2>4. QED
    BY <2>2, <2>3
<1>2. ASSUME NEW p \in Producers, WriteSlot(p)
      PROVE  Inv'
  <2>1. ProducerInv'
    BY <1>a, <1>c, <1>2 DEF WriteSlot, ProducerInv
  <2>2. ConsumerInv'
    BY <1>a, <1>c, <1>2 DEF WriteSlot, ConsumerInv
  <2>3. QED
    BY <1>b, <2>1, <2>2 DEF Inv
<1>3. ASSUME NEW p \in Producers, AdvanceWrite(p)
      PROVE  Inv'
  <2>1. ProducerInv'
    BY <1>a, <1>c, <1>3 DEF AdvanceWrite, ProducerInv
  <2>2. ConsumerInv'
    BY <1>a, <1>3 DEF AdvanceWrite, ConsumerInv
  <2>3. QED
    BY <1>b, <2>1, <2>2 DEF Inv
<1>4. ASSUME NEW p \in Producers, PublishWrite(p)
      PROVE  Inv'
  <2>1. \A q \in Producers : ppc'[q] = "idle"
    BY <1>a, <1>c, <1>4 DEF PublishWrite, ProducerInv
  <2>2. write_idx' = index_format(write_idx + 1) /\ write_idx' # read_idx
    BY <1>a, <1>4 DEF PublishWrite, ProducerInv
  <2>3. ProducerInv'
    BY <2>1 DEF ProducerInv
  <2>4. ConsumerInv'
    BY <1>a, <1>4, <2>2 DEF PublishWrite, ConsumerInv
  <2>5. QED
    BY <1>b, <2>3, <2>4 DEF Inv
<1>5. CASE Pop
  BY <1>a, <1>b, <1>5 DEF Pop, ProducerInv, ConsumerInv, Inv
<1>6. CASE ReadSlot
  BY <1>a, <1>b, <1>6 DEF ReadSlot, ProducerInv, ConsumerInv, Inv
<1>7. CASE PublishRead
  <2>1. /\ read_idx' = index_format(read_idx + 1) /\ read_idx # write_idx
        /\ UNCHANGED <<write_idx, buffer, ppc, item, next>> /\ cpc' = "idle"
    BY <1>a, <1>7 DEF PublishRead, ConsumerInv
  <2>2. index_format(write_idx + 1) # read_idx'
    BY <1>c, <2>1, NextSlot DEF Slots
  <2>3. ProducerInv'
    BY <1>a, <2>1, <2>2 DEF ProducerInv
  <2>4. ConsumerInv'
    BY <2>1 DEF ConsumerInv
  <2>5. QED
    BY <1>b, <2>3, <2>4 DEF Inv
<1>8. CASE ClearDestroy \/ ClearFinished
  BY <1>a, <1>b, <1>8 DEF ClearDestroy, ClearFinished, ProducerInv, ConsumerInv, Inv
<1>9. CASE UNCHANGED vars
  BY <1>a, <1>b, <1>9 DEF vars, ProducerInv, ConsumerInv, Inv
<1>10. QED
  BY <1>1, <1>2, <1>3, <1>4, <1>5, <1>6, <1>7, <1>8, <1>9 DEF Next, Destroyed

-----------------------------------------------------------------------------
(***************************************************************************)
(* Refinement: the content between the indices behaves as the queue.       *)
(***************************************************************************)

(* A new buffer is an empty queue.                                         *)
LEMMA InitFifo == Init => Fifo!Init
<1>1. ASSUME Init
      PROVE  Content = << >>
  <2>1. read_idx = 0 /\ write_idx = 0
    BY <1>1 DEF Init
  <2>2. Distance(read_idx, write_idx) = 0
    BY <2>1 DEF Distance
  <2>3. QED
    BY <2>2 DEF Content, ContentOf
<1>2. QED
  BY <1>1 DEF Init, Fifo!Init

(* The content changes only when an index is published.                    *)
LEMMA ContentStays ==
  ASSUME UNCHANGED <<read_idx, write_idx, buffer>>
  PROVE  Content' = Content
  BY DEF Content, ContentOf, Distance, index_format

(* The slot that is written is not part of the content yet.                *)
LEMMA ContentWritten ==
  ASSUME Inv, NEW p \in Producers, WriteSlot(p)
  PROVE  Content' = Content
<1>1. /\ read_idx \in Slots /\ write_idx \in Slots /\ buffer \in [Slots -> Nat]
      /\ buffer' = [buffer EXCEPT ![write_idx] = item[p]]
      /\ UNCHANGED <<read_idx, write_idx>> /\ item[p] \in Nat
  BY DEF WriteSlot, Inv, TypeOK, consumerVars
<1>2. buffer' \in [Slots -> Nat] /\ \A i \in Slots : i # write_idx => buffer'[i] = buffer[i]
  BY <1>1
<1>3. ContentOf(buffer', read_idx, write_idx) = ContentOf(buffer, read_idx, write_idx)
  <2> DEFINE r == read_idx
             w == write_idx
             b == buffer'
  <2>1. /\ r \in Slots /\ w \in Slots /\ buffer \in [Slots -> Nat] /\ b \in [Slots -> Nat]
        /\ \A i \in Slots : i # w => b[i] = buffer[i]
    BY <1>1, <1>2
  <2> HIDE DEF r, w, b
  <2>2. ContentOf(b, r, w) = ContentOf(buffer, r, w)
    BY <2>1, SameContent
  <2> QED
    BY <2>2 DEF r, w, b
<1>4. QED
  BY <1>1, <1>3 DEF Content, ContentOf, Distance, index_format

(* A push is published: its item comes last.                               *)
LEMMA ContentPushed ==
  ASSUME Inv, NEW p \in Producers, PublishWrite(p)
  PROVE  /\ Content' = Append(Content, item[p])
         /\ item[p] \in 1 .. MaxOffered
         /\ index_format(write_idx + 1) # read_idx
         /\ UNCHANGED <<out, rejected>>
<1>1. read_idx \in Slots /\ write_idx \in Slots /\ buffer \in [Slots -> Nat]
  BY DEF Inv, TypeOK
<1>2. /\ write_idx' = index_format(write_idx + 1)
      /\ index_format(write_idx + 1) # read_idx
      /\ buffer[write_idx] = item[p] /\ item[p] \in 1 .. MaxOffered
      /\ UNCHANGED <<read_idx, buffer, out, rejected>>
  BY DEF PublishWrite, Inv, ProducerInv, consumerVars
<1>3. ContentOf(buffer, read_idx, index_format(write_idx + 1))
        = Append(ContentOf(buffer, read_idx, write_idx), item[p])
  BY <1>1, <1>2, ContentAppend
<1>4. Content' = ContentOf(buffer, read_idx, index_format(write_idx + 1))
  BY <1>2 DEF Content, ContentOf, Distance, index_format
<1>5. QED
  BY <1>2, <1>3, <1>4 DEF Content

(* A pop is published: the first item has come out.                        *)
LEMMA ContentPopped ==
  ASSUME Inv, PublishRead
  PROVE  /\ Content # << >>
         /\ out' = Append(out, Head(Content))
         /\ Content' = Tail(Content)
         /\ UNCHANGED rejected
<1>1. read_idx \in Slots /\ write_idx \in Slots /\ buffer \in [Slots -> Nat]
  BY DEF Inv, TypeOK
<1>2. /\ read_idx' = index_format(read_idx + 1) /\ read_idx # write_idx
      /\ out' = Append(out, buffer[read_idx])
      /\ UNCHANGED <<write_idx, buffer, rejected>>
  BY DEF PublishRead, Inv, ConsumerInv, producerVars
<1>3. /\ Content # << >> /\ Head(Content) = buffer[read_idx]
      /\ ContentOf(buffer, index_format(read_idx + 1), write_idx) = Tail(Content)
  BY <1>1, <1>2, ContentTail DEF Content
<1>4. Content' = ContentOf(buffer, index_format(read_idx + 1), write_idx)
  BY <1>2 DEF Content, ContentOf, Distance, index_format
<1>5. QED
  BY <1>2, <1>3, <1>4

(* Every step of the buffer is a step of the queue, or leaves it alone.    *)
LEMMA NextFifo ==
  ASSUME Inv, [Next]_vars
  PROVE  [Fifo!Next]_Fifo!vars
<1> USE DEF producerVars, consumerVars
<1>a. TypeOK /\ ProducerInv /\ ConsumerInv
  BY DEF Inv
<1>c. /\ read_idx \in Slots /\ write_idx \in Slots /\ Size \in Nat /\ Size >= 2
      /\ offered \in Nat /\ MaxOffered \in Nat
      /\ buffer \in [Slots -> Nat]
  BY <1>a, SizeAssumption DEF TypeOK
<1>d. /\ Content \in Seq(Nat)
      /\ Len(Content) = Distance(read_idx, write_idx)
  BY <1>c, ContentType DEF Content
<1>f. ASSUME UNCHANGED <<read_idx, write_idx, buffer, out, rejected>>
      PROVE  UNCHANGED Fifo!vars
  BY <1>f, ContentStays DEF Fifo!vars
<1>1. ASSUME NEW p \in Producers, Push(p)
      PROVE  [Fifo!Next]_Fifo!vars
  <2>1. CASE index_format(write_idx + 1) # read_idx
    BY <1>f, <1>1, <2>1 DEF Push
  <2>2. CASE index_format(write_idx + 1) = read_idx
    <3>1. Len(Content) = Size - 1
      BY <1>c, <1>d, <2>2, DistanceType
    <3>2. Content' = Content /\ rejected' = rejected \cup {offered + 1} /\ out' = out
      BY <1>1, <2>2, ContentStays DEF Push
    <3>3. offered + 1 \in 1 .. MaxOffered
      BY <1>c, <1>1 DEF Push
    <3>4. Fifo!Reject(offered + 1)
      BY <3>1, <3>2 DEF Fifo!Reject
    <3>5. QED
      BY <3>3, <3>4 DEF Fifo!Next
  <2>3. QED
    BY <2>1, <2>2
<1>2. ASSUME NEW p \in Producers, WriteSlot(p)
      PROVE  [Fifo!Next]_Fifo!vars
  BY <1>2, ContentWritten DEF WriteSlot, Fifo!vars
<1>3. ASSUME NEW p \in Producers, AdvanceWrite(p)
      PROVE  [Fifo!Next]_Fifo!vars
  BY <1>f, <1>3 DEF AdvanceWrite
<1>4. ASSUME NEW p \in Producers, PublishWrite(p)
      PROVE  [Fifo!Next]_Fifo!vars
  <2>1. /\ Content' = Append(Content, item[p])
        /\ item[p] \in 1 .. MaxOffered
        /\ index_format(write_idx + 1) # read_idx
        /\ UNCHANGED <<out, rejected>>
    BY <1>4, ContentPushed
  <2>2. Len(Content) < Size - 1
    BY <1>c, <1>d, <2>1, DistanceType
  <2>3. Fifo!Push(item[p])
    BY <2>1, <2>2 DEF Fifo!Push
  <2>4. QED
    BY <2>1, <2>3 DEF Fifo!Next
<1>5. CASE Pop
  BY <1>f, <1>5 DEF Pop
<1>6. CASE ReadSlot
  BY <1>f, <1>6 DEF ReadSlot
<1>7. CASE PublishRead
  <2>1. Fifo!Pop
    BY <1>7, ContentPopped DEF Fifo!Pop
  <2>2. QED
    BY <2>1 DEF Fifo!Next
<1>8. CASE ClearDestroy \/ ClearFinished
  BY <1>f, <1>8 DEF ClearDestroy, ClearFinished
<1>9. CASE UNCHANGED vars
  BY <1>f, <1>9 DEF vars
<1>10. QED
  BY <1>1, <1>2, <1>3, <1>4, <1>5, <1>6, <1>7, <1>8, <1>9 DEF Next, Destroyed

-----------------------------------------------------------------------------
(***************************************************************************)
(* Where the items are.                                                    *)
(***************************************************************************)
Has(s, v) == \E i \in DOMAIN s : s[i] = v

Pushing(v) == \E p \in Producers : ppc[p] # "idle" /\ item[p] = v

(* Every item that was offered was rejected, has come out, is in the       *)
(* buffer or is with its producer.                                         *)
Accounted ==
  \A v \in 1 .. offered : v \in rejected \/ Has(out, v) \/ Has(Content, v) \/ Pushing(v)

(* What was accepted and has not come out is in the buffer.                *)
Balanced == accepted = Len(out) + Len(Content)

(* ring_buffer_clear_destroy runs alone, and ends with an empty buffer.    *)
Cleared ==
  /\ phase # "open" => \A p \in Producers : ppc[p] = "idle"
  /\ phase = "destroyed" => cpc = "idle" /\ (WithCallback => read_idx = write_idx)

LeakInv == Accounted /\ Balanced /\ Cleared

(* Appending an item, and taking the first one.                            *)
LEMMA HasAppend ==
  ASSUME NEW s \in Seq(Nat), NEW x \in Nat
  PROVE  /\ Has(Append(s, x), x)
         /\ \A v : Has(s, v) => Has(Append(s, x), v)
<1>1. /\ DOMAIN s = 1 .. Len(s) /\ Len(s) \in Nat
      /\ DOMAIN Append(s, x) = 1 .. Len(s) + 1
      /\ Append(s, x)[Len(s) + 1] = x
      /\ \A i \in 1 .. Len(s) : Append(s, x)[i] = s[i]
  OBVIOUS
<1>2. Len(s) + 1 \in DOMAIN Append(s, x) /\ \A i \in DOMAIN s : i \in DOMAIN Append(s, x)
  BY <1>1
<1>3. QED
  BY <1>1, <1>2 DEF Has

(* Taking the first item loses no other.                                   *)
LEMMA HasTail ==
  ASSUME NEW s \in Seq(Nat), s # << >>, NEW v, Has(s, v)
  PROVE  v = Head(s) \/ Has(Tail(s), v)
<1>1. /\ DOMAIN s = 1 .. Len(s) /\ Len(s) \in Nat \ {0} /\ Head(s) = s[1]
      /\ DOMAIN Tail(s) = 1 .. Len(s) - 1
      /\ \A i \in 1 .. Len(s) - 1 : Tail(s)[i] = s[i + 1]
  OBVIOUS
<1>2. PICK i \in 1 .. Len(s) : s[i] = v
  BY <1>1 DEF Has
<1>3. CASE i = 1
  BY <1>1, <1>2, <1>3
<1>4. CASE i # 1
  <2>1. i - 1 \in 1 .. Len(s) - 1 /\ Tail(s)[i - 1] = s[i]
    BY <1>1, <1>4
  <2>2. QED
    BY <1>1, <1>2, <2>1 DEF Has
<1>5. QED
  BY <1>3, <1>4

(* No step loses an item.                                                  *)
LEMMA NextLeakInv ==
  ASSUME Inv, LeakInv, [Next]_vars
  PROVE  LeakInv'
<1> USE DEF producerVars, consumerVars
<1>a. TypeOK /\ ProducerInv /\ ConsumerInv /\ Accounted /\ Balanced /\ Cleared
  BY DEF Inv, LeakInv
<1>b. /\ read_idx \in Slots /\ write_idx \in Slots /\ buffer \in [Slots -> Nat]
      /\ offered \in Nat /\ accepted \in Nat /\ out \in Seq(Nat)
      /\ ppc \in [Producers -> {"idle", "write", "advance", "publish"}]
      /\ item \in [Producers -> Nat]
  BY <1>a DEF TypeOK
<1>c. Content \in Seq(Nat)
  BY <1>b, ContentType DEF Content
<1>1. ASSUME NEW p \in Producers, Push(p)
      PROVE  LeakInv'
  <2>1. /\ Content' = Content /\ out' = out /\ accepted' = accepted /\ offered' = offered + 1
        /\ phase = "open" /\ phase' = phase /\ rejected \subseteq rejected'
        /\ ppc[p] = "idle" /\ \A q \in Producers : q # p => ppc'[q] = ppc[q] /\ item'[q] = item[q]
    BY <1>b, <1>1, ContentStays DEF Push
  <2>2. offered + 1 \in rejected' \/ (ppc'[p] = "write" /\ item'[p] = offered + 1)
    BY <1>b, <1>1 DEF Push
  <2>3. \A v : Pushing(v) => Pushing(v)'
    BY <2>1 DEF Pushing
  <2>4. \A v : v = offered + 1 => v \in rejected' \/ Pushing(v)'
    BY <2>1, <2>2 DEF Pushing
  <2>5. \A v \in 1 .. offered' : v \in 1 .. offered \/ v = offered + 1
    BY <1>b, <2>1
  <2>6. Accounted'
    <3> SUFFICES ASSUME NEW v \in 1 .. offered'
                 PROVE  v \in rejected' \/ Has(out', v) \/ Has(Content', v) \/ Pushing(v)'
      BY DEF Accounted, Has
    <3>1. CASE v \in 1 .. offered
      <4>1. v \in rejected \/ Has(out, v) \/ Has(Content, v) \/ Pushing(v)
        BY <1>a, <3>1 DEF Accounted
      <4>2. QED
        BY <2>1, <2>3, <4>1
    <3>2. CASE v = offered + 1
      BY <2>4, <3>2
    <3>3. QED
      BY <2>5, <3>1, <3>2
  <2>7. Balanced' /\ Cleared'
    BY <1>a, <2>1 DEF Balanced, Cleared
  <2>8. QED
    BY <2>6, <2>7 DEF LeakInv
<1>2. ASSUME UNCHANGED <<out, rejected, offered, accepted, item>>, Content' = Content,
             \A q \in Producers : ppc'[q] = "idle" <=> ppc[q] = "idle"
      PROVE  Accounted' /\ Balanced'
  <2>1. \A v : Pushing(v)' <=> Pushing(v)
    BY <1>2 DEF Pushing
  <2>2. QED
    BY <1>a, <1>2, <2>1 DEF Accounted, Balanced, Has
<1>3. ASSUME NEW p \in Producers, WriteSlot(p) \/ AdvanceWrite(p)
      PROVE  LeakInv'
  <2>1. Content' = Content
    BY <1>3, ContentStays, ContentWritten DEF AdvanceWrite
  <2>2. /\ UNCHANGED <<out, rejected, offered, accepted, item, phase, read_idx, write_idx, cpc>>
        /\ \A q \in Producers : ppc'[q] = "idle" <=> ppc[q] = "idle"
    BY <1>b, <1>3 DEF WriteSlot, AdvanceWrite
  <2>3. Accounted' /\ Balanced'
    BY <1>2, <2>1, <2>2
  <2>4. Cleared'
    BY <1>a, <2>2 DEF Cleared
  <2>5. QED
    BY <2>3, <2>4 DEF LeakInv
<1>4. ASSUME NEW p \in Producers, PublishWrite(p)
      PROVE  LeakInv'
  <2>1. Content' = Append(Content, item[p]) /\ UNCHANGED <<out, rejected>>
    BY <1>4, ContentPushed
  <2>2. /\ ppc[p] = "publish" /\ UNCHANGED <<offered, item, phase>> /\ accepted' = accepted + 1
        /\ \A q \in Producers : q # p => ppc'[q] = ppc[q]
    BY <1>b, <1>4 DEF PublishWrite
  <2>3. item[p] \in Nat
    BY <1>b
  <2>4. Has(Content', item[p]) /\ \A v : Has(Content, v) => Has(Content', v)
    BY <1>c, <2>1, <2>3, HasAppend
  <2>5. \A v : Pushing(v) => Pushing(v)' \/ v = item[p]
    BY <2>2 DEF Pushing
  <2>6. Accounted'
    <3> SUFFICES ASSUME NEW v \in 1 .. offered
                 PROVE  v \in rejected' \/ Has(out', v) \/ Has(Content', v) \/ Pushing(v)'
      BY <2>2 DEF Accounted, Has
    <3>1. v \in rejected \/ Has(out, v) \/ Has(Content, v) \/ Pushing(v)
      BY <1>a DEF Accounted
    <3>2. QED
      BY <2>1, <2>4, <2>5, <3>1
  <2>7. Balanced'
    <3>1. Len(Content') = Len(Content) + 1 /\ Len(Content) \in Nat /\ Len(out) \in Nat
      BY <1>b, <1>c, <2>1, <2>3
    <3>2. QED
      BY <1>a, <2>1, <2>2, <3>1 DEF Balanced
  <2>8. Cleared'
    BY <1>a, <2>2 DEF Cleared
  <2>9. QED
    BY <2>6, <2>7, <2>8 DEF LeakInv
<1>5. CASE Pop \/ ReadSlot
  <2>1. /\ UNCHANGED <<out, rejected, offered, accepted, item, ppc, phase, read_idx, write_idx>>
        /\ phase # "destroyed" /\ Content' = Content
    BY <1>a, <1>5, ContentStays DEF Pop, ReadSlot, Cleared
  <2>2. Accounted' /\ Balanced'
    BY <1>2, <2>1
  <2>3. Cleared'
    BY <1>a, <2>1 DEF Cleared
  <2>4. QED
    BY <2>2, <2>3 DEF LeakInv
<1>6. CASE PublishRead
  <2>1. /\ Content # << >> /\ out' = Append(out, Head(Content)) /\ Content' = Tail(Content)
        /\ UNCHANGED rejected
    BY <1>6, ContentPopped
  <2>2. UNCHANGED <<offered, accepted, item, ppc, phase>> /\ phase # "destroyed"
    BY <1>a, <1>6 DEF PublishRead, Cleared
  <2>3. Head(Content) \in Nat
    BY <1>c, <2>1
  <2>4. Has(out', Head(Content)) /\ \A v : Has(out, v) => Has(out', v)
    BY <1>b, <2>1, <2>3, HasAppend
  <2>5. \A v : Has(Content, v) => v = Head(Content) \/ Has(Content', v)
    BY <1>c, <2>1, HasTail
  <2>6. Accounted'
    <3> SUFFICES ASSUME NEW v \in 1 .. offered
                 PROVE  v \in rejected' \/ Has(out', v) \/ Has(Content', v) \/ Pushing(v)'
      BY <2>2 DEF Accounted, Has
    <3>1. v \in rejected \/ Has(out, v) \/ Has(Content, v) \/ Pushing(v)
      BY <1>a DEF Accounted
    <3>2. Pushing(v) => Pushing(v)'
      BY <2>2 DEF Pushing
    <3>3. QED
      BY <2>1, <2>4, <2>5, <3>1, <3>2
  <2>7. Balanced'
    <3>1. /\ Len(Content') = Len(Content) - 1 /\ Len(out') = Len(out) + 1
          /\ Len(Content) \in Nat /\ Len(out) \in Nat
      BY <1>b, <1>c, <2>1, <2>3
    <3>2. QED
      BY <1>a, <2>2, <3>1 DEF Balanced
  <2>8. Cleared'
    BY <1>a, <2>2 DEF Cleared
  <2>9. QED
    BY <2>6, <2>7, <2>8 DEF LeakInv
<1>7. CASE ClearDestroy \/ ClearFinished
  <2>1. Content' = Content
    BY <1>7, ContentStays DEF ClearDestroy, ClearFinished
  <2>2. Accounted' /\ Balanced'
    BY <1>2, <1>7, <2>1 DEF ClearDestroy, ClearFinished
  <2>3. Cleared'
    BY <1>a, <1>7 DEF ClearDestroy, ClearFinished, Cleared
  <2>4. QED
    BY <2>2, <2>3 DEF LeakInv
<1>8. CASE UNCHANGED vars
  <2>1. Content' = Content
    BY <1>8, ContentStays DEF vars
  <2>2. Accounted' /\ Balanced'
    BY <1>2, <1>8, <2>1 DEF vars
  <2>3. Cleared'
    BY <1>a, <1>8 DEF vars, Cleared
  <2>4. QED
    BY <2>2, <2>3 DEF LeakInv
<1>9. QED
  BY <1>1, <1>3, <1>4, <1>5, <1>6, <1>7, <1>8 DEF Next, Destroyed

-----------------------------------------------------------------------------
(***************************************************************************)
(* The theorems.                                                           *)
(***************************************************************************)

(* The indices stay within the buffer, however many threads push.          *)
THEOREM TypeCorrect == Spec => []TypeOK
<1>1. Init => TypeOK
  BY InitInv DEF Inv
<1>2. QED
  BY <1>1, TypeStep, PTL DEF Spec

(* The invariant, while pushes do not overlap.                             *)
THEOREM Invariance ==
  ASSUME SingleWriter
  PROVE  Spec => []Inv
  BY InitInv, NextInv, PTL DEF Spec

(* The consumer never reads the slot that a producer is writing.           *)
THEOREM SlotsApart ==
  ASSUME SingleWriter
  PROVE  Spec => []NoSlotRace
<1>1. Inv => NoSlotRace
  BY DEF Inv, ConsumerInv, NoSlotRace
<1>2. QED
  BY <1>1, Invariance, PTL

(* ring_buffer_push and ring_buffer_pop implement the bounded FIFO queue.  *)
THEOREM Implements ==
  ASSUME SingleWriter
  PROVE  Spec => IsBoundedFifo
<1>1. Inv /\ [Next]_vars => [Fifo!Next]_Fifo!vars
  BY NextFifo
<1>2. QED
  BY <1>1, InitFifo, Invariance, PTL DEF Spec, IsBoundedFifo, Fifo!Spec

(* ring_buffer_clear_destroy with a callback leaves no item behind.        *)
THEOREM NothingLeaksHolds ==
  ASSUME SingleWriter
  PROVE  Spec => []NothingLeaks
<1>1. Init => LeakInv
  <2> SUFFICES ASSUME Init PROVE LeakInv
    OBVIOUS
  <2>1. Content = << >>
    BY InitFifo DEF Fifo!Init
  <2>2. offered = 0 /\ accepted = 0 /\ out = << >> /\ phase = "open"
    BY DEF Init
  <2>3. Accounted /\ Balanced /\ Cleared
    BY <2>1, <2>2 DEF Accounted, Balanced, Cleared
  <2>4. QED
    BY <2>3 DEF LeakInv
<1>2. Inv /\ LeakInv => NothingLeaks
  <2> SUFFICES ASSUME Inv, LeakInv, phase = "destroyed", WithCallback
               PROVE  /\ \A v \in 1 .. offered : v \in rejected \/ Has(out, v)
                      /\ Len(out) = accepted
    BY DEF NothingLeaks, Has
  <2>1. /\ read_idx = write_idx /\ \A p \in Producers : ppc[p] = "idle"
    BY DEF LeakInv, Cleared
  <2>2. read_idx \in Slots /\ write_idx \in Slots /\ buffer \in [Slots -> Nat] /\ out \in Seq(Nat)
    BY DEF Inv, TypeOK
  <2>3. Content \in Seq(Nat) /\ Len(Content) = 0
    BY <2>1, <2>2, ContentType, DistanceType DEF Content
  <2>4. \A v : ~Has(Content, v) /\ ~Pushing(v)
    BY <2>1, <2>3 DEF Has, Pushing
  <2>5. QED
    BY <2>2, <2>3, <2>4 DEF LeakInv, Accounted, Balanced
<1>3. QED
  BY <1>1, <1>2, NextLeakInv, Invariance, PTL DEF Spec
=============================================================================
