----------------------------- MODULE Fifo_proofs -----------------------------
(***************************************************************************)
(* Proofs about Fifo for a buffer of any length and any elements.          *)
(***************************************************************************)
EXTENDS Fifo, SequenceTheorems, TLAPS

(* The value of an index after fifo_head_offset or fifo_end_offset.        *)
LEMMA WrapBelow == \A i \in Cell : Wrap(i) = i
  BY FifoAssumption DEF Wrap, Cell

(* Beyond the last cell an index is one length too large.                  *)
LEMMA WrapAbove == \A i \in Max .. 2 * Max - 1 : Wrap(i) = i - Max
  BY FifoAssumption DEF Wrap

(* A wrapped index is a cell.                                              *)
LEMMA WrapInBuffer == \A i \in Nat : Wrap(i) \in Cell
  BY FifoAssumption DEF Wrap, Cell

(* A call has a length and elements.                                       *)
LEMMA CallProperties ==
  ASSUME NEW s \in Call
  PROVE  /\ Len(s) \in 0 .. MaxCall
         /\ \A i \in 1 .. Len(s) : s[i] \in Elem
  BY FifoAssumption DEF Call

(* A copy into the buffer leaves elements in every cell.                   *)
LEMMA CopyTyped ==
  ASSUME TypeOK, NEW s, Len(s) \in Nat, \A i \in 1 .. Len(s) : s[i] \in Elem
  PROVE  CopiedIn(s) \in [Cell -> Elem]
  <1>1. ASSUME NEW c \in Cell PROVE Wrap(c - head + Max) \in Nat
    BY FifoAssumption, WrapInBuffer DEF Cell, TypeOK
  <1>2. QED
    BY <1>1 DEF CopiedIn, TypeOK

(* The effect of the write on the indices.                                 *)
LEMMA WriteIndices ==
  ASSUME TypeOK, IndicesAgree, NEW s, Len(s) \in Nat,
         \A i \in 1 .. Len(s) : s[i] \in Elem, WriteBuffer(s)
  PROVE  TypeOK' /\ IndicesAgree'
  <1>1. CASE Len(s) <= size
    <2>1. head' = Wrap(head + Len(s)) /\ size' = size - Len(s) /\ end' = end
      BY <1>1 DEF WriteBuffer, HeadOffset
    <2>2. TypeOK'
      <3>1. buffer' \in [Cell -> Elem]
        BY <1>1, CopyTyped DEF WriteBuffer
      <3>2. head' \in Cell
        BY <2>1, WrapInBuffer, FifoAssumption DEF TypeOK, Cell
      <3>3. QED
        BY <1>1, <2>1, <3>1, <3>2, FifoAssumption DEF TypeOK
    <2>3. CASE end + used < Max
      <3>1. head = end + used
        BY <2>3, WrapBelow, FifoAssumption DEF IndicesAgree, TypeOK, used, Cell
      <3>2. end' + used' = head + Len(s)
        BY <3>1, <2>1, FifoAssumption DEF used, TypeOK, Cell
      <3>3. QED
        BY <3>2, <2>1, <2>2 DEF IndicesAgree
    <2>4. CASE end + used >= Max
      <3>1. head = end + used - Max
        BY <2>4, WrapAbove, FifoAssumption DEF IndicesAgree, TypeOK, used, Cell
      <3>2. head + Len(s) \in Cell
        BY <3>1, <1>1, <2>4, FifoAssumption DEF TypeOK, used, Cell
      <3>3. head' = head + Len(s)
        BY <3>2, <2>1, WrapBelow
      <3>4. end' + used' = end + used + Len(s)
        BY <2>1, FifoAssumption DEF used, TypeOK, Cell
      <3>5. Wrap(end + used + Len(s)) = end + used + Len(s) - Max
        BY <1>1, <2>4, WrapAbove, FifoAssumption DEF TypeOK, used, Cell
      <3>6. head' = Wrap(end' + used')
        BY <3>1, <3>3, <3>4, <3>5, FifoAssumption DEF TypeOK, used, Cell
      <3>7. QED
        BY <3>6, <2>2, <2>1 DEF IndicesAgree, used
    <2>5. QED
      BY <2>2, <2>3, <2>4, FifoAssumption DEF TypeOK, used, Cell
  <1>2. CASE ~(Len(s) <= size)
    BY <1>2 DEF WriteBuffer, TypeOK, IndicesAgree, used
  <1>3. QED
    BY <1>1, <1>2

(* Freeing at most what there is keeps the indices in step.                *)
LEMMA FreeIndices ==
  ASSUME TypeOK, IndicesAgree, NEW n \in 0 .. used, Free(n), UNCHANGED <<buffer, head>>
  PROVE  TypeOK' /\ IndicesAgree'
  <1>1. end' = Wrap(end + n) /\ size' = size + n /\ head' = head
    BY DEF Free, EndOffset
  <1>2. TypeOK'
    BY <1>1, WrapInBuffer, FifoAssumption DEF TypeOK, used, Cell
  <1>3. used' = used - n
    BY <1>1, FifoAssumption DEF used, TypeOK
  <1>4. CASE end + n < Max
    <2>1. end' = end + n
      BY <1>1, <1>4, WrapBelow, FifoAssumption DEF TypeOK, Cell, used
    <2>2. end' + used' = end + used
      BY <2>1, <1>3, FifoAssumption DEF TypeOK, Cell, used
    <2>3. QED
      BY <1>1, <1>2, <2>2 DEF IndicesAgree
  <1>5. CASE end + n >= Max
    <2>1. end' = end + n - Max
      BY <1>1, <1>5, WrapAbove, FifoAssumption DEF TypeOK, Cell, used
    <2>2. end' + used' = end + used - Max /\ end' + used' \in Cell
      BY <2>1, <1>3, <1>5, FifoAssumption DEF TypeOK, Cell, used
    <2>3. Wrap(end + used) = end + used - Max
      BY <2>2, <1>5, WrapAbove, FifoAssumption DEF TypeOK, Cell, used
    <2>4. QED
      BY <1>1, <1>2, <2>2, <2>3, WrapBelow DEF IndicesAgree
  <1>6. QED
    BY <1>4, <1>5, FifoAssumption DEF TypeOK, Cell, used

(* An emptied FIFO has indices that agree.                                 *)
LEMMA EmptiedIndices ==
  ASSUME Emptied PROVE TypeOK' /\ IndicesAgree'
  BY WrapBelow, FifoAssumption DEF Emptied, TypeOK, IndicesAgree, used, Cell

-----------------------------------------------------------------------------
(* Callers that free nothing they do not hold: the read state and grant.   *)
LEMMA GrantedRange ==
  ASSUME TypeOK, NEW n \in Nat
  PROVE  Granted(n) \in 0 .. used /\ (n <= used => Granted(n) = n)
  BY FifoAssumption DEF Granted, used, TypeOK

(* The fields are typed and the indices agree in every reachable state of  *)
(* callers that free with a null destination only what fifo_used reports.  *)
THEOREM IndicesTheorem ==
  Spec => [](TypeOK /\ IndicesAgree)
  <1> DEFINE Inv == TypeOK /\ IndicesAgree
  <1>1. Init => Inv
    BY FifoAssumption, WrapBelow DEF Init, TypeOK, IndicesAgree, used, Cell
  <1>2. Inv /\ [Next]_vars => Inv'
    <2> SUFFICES ASSUME TypeOK, IndicesAgree, [Next]_vars PROVE Inv'
      OBVIOUS
    <2>1. ASSUME UNCHANGED <<buffer, head, end, size>> PROVE Inv'
      BY <2>1 DEF TypeOK, IndicesAgree, used
    <2>2. ASSUME NEW d \in Elem, WriteElement(d) PROVE Inv'
      <3>1. Len(<<d>>) = 1 /\ <<d>>[1] = d
        OBVIOUS
      <3>2. QED
        BY <2>2, <3>1, WriteIndices DEF WriteElement
    <2>3. ASSUME NEW s \in Call, WriteBuffer(s) PROVE Inv'
      BY <2>3, CallProperties, WriteIndices
    <2>4. ASSUME NEW n \in Nat, NEW flag \in Flag, ReadBuffer(n, flag) PROVE Inv'
      <3>1. CASE flag = Clean
        BY <2>4, <3>1, GrantedRange, FreeIndices DEF ReadBuffer
      <3>2. CASE flag # Clean
        BY <2>4, <3>2, <2>1 DEF ReadBuffer
      <3>3. QED
        BY <3>1, <3>2
    <2>5. ASSUME NEW n \in Nat, NEW flag \in Flag, ReadNull(n, flag) PROVE Inv'
      <3>1. CASE flag = Clean
        <4>1. n \in 0 .. used
          BY <2>5, FifoAssumption DEF ReadNull, used, TypeOK
        <4>2. QED
          BY <2>5, <3>1, <4>1, FreeIndices DEF ReadNull
      <3>2. CASE flag # Clean
        BY <2>5, <3>2, <2>1 DEF ReadNull
      <3>3. QED
        BY <3>1, <3>2
    <2>6. ASSUME NEW n \in Nat, NEW flag \in Flag, ReadTailBuffer(n, flag) PROVE Inv'
      BY <2>6, <2>1, EmptiedIndices DEF ReadTailBuffer
    <2>7. ASSUME FifoClear PROVE Inv'
      BY <2>7, EmptiedIndices DEF FifoClear
    <2>8. CASE WriteNull
      BY <2>8, <2>1 DEF WriteNull
    <2>9. CASE UNCHANGED vars
      BY <2>9, <2>1 DEF vars
    <2>10. CASE \E flag \in Flag : ReadElement(flag)
      BY <2>10, <2>4 DEF ReadElement
    <2>11. 0 .. MaxCall \subseteq Nat
      OBVIOUS
    <2>12. ASSUME NEW flag \in Flag, ReadTailNull(flag) PROVE Inv'
      BY <2>12, <2>1, EmptiedIndices DEF ReadTailNull
    <2>13. QED
      BY <2>2, <2>3, <2>4, <2>5, <2>6, <2>7, <2>8, <2>9, <2>10, <2>11, <2>12 DEF Next
  <1>3. QED
    BY <1>1, <1>2, PTL DEF Spec

-----------------------------------------------------------------------------
(* The refinement: the ring buffer's contents as a sequence.               *)
LEMMA CellsSeq ==
  ASSUME NEW b \in [Cell -> Elem], NEW c \in Cell, NEW n \in 0 .. Max
  PROVE  LET q == [i \in 1 .. n |-> b[Wrap(c + i - 1)]]
         IN /\ q \in Seq(Elem)
            /\ Len(q) = n
            /\ \A i \in 1 .. n : q[i] = b[Wrap(c + i - 1)]
  <1>1. ASSUME NEW i \in 1 .. n PROVE Wrap(c + i - 1) \in Cell
    BY WrapInBuffer, FifoAssumption DEF Cell
  <1>2. \A i \in 1 .. n : b[Wrap(c + i - 1)] \in Elem
    BY <1>1
  <1>3. QED
    BY <1>2

(* What is not free is used.                                               *)
LEMMA UsedRange == \A x \in 0 .. Max : Max - x \in 0 .. Max
  BY FifoAssumption

(* A copy is a sequence of as many elements as were asked for.             *)
LEMMA CopiedOutSeq ==
  ASSUME TypeOK, NEW c \in Cell, NEW n \in 0 .. Max
  PROVE  /\ CopiedOut(c, n) \in Seq(Elem)
         /\ Len(CopiedOut(c, n)) = n
         /\ \A i \in 1 .. n : CopiedOut(c, n)[i] = buffer[Wrap(c + i - 1)]
  BY CellsSeq DEF TypeOK, CopiedOut

(* The contents are a sequence of the used length.                         *)
LEMMA ContentsSeq ==
  ASSUME TypeOK
  PROVE  /\ used \in 0 .. Max
         /\ Contents \in Seq(Elem)
         /\ Len(Contents) = used
         /\ \A i \in 1 .. used : Contents[i] = buffer[Wrap(end + i - 1)]
  <1>1. used \in 0 .. Max /\ end \in Cell
    BY UsedRange DEF TypeOK, used
  <1>2. QED
    BY <1>1, CopiedOutSeq DEF Contents

(* The same in the next state.                                             *)
LEMMA ContentsSeqNext ==
  ASSUME TypeOK'
  PROVE  /\ used' \in 0 .. Max
         /\ Contents' \in Seq(Elem)
         /\ Len(Contents') = used'
         /\ \A i \in 1 .. used' : Contents'[i] = buffer'[Wrap(end' + i - 1)]
  <1>1. buffer' \in [Cell -> Elem] /\ end' \in Cell /\ size' \in 0 .. Max
    BY DEF TypeOK
  <1>2. used' \in 0 .. Max
    BY <1>1, UsedRange, Zenon DEF used
  <1>3. Contents' = [i \in 1 .. used' |-> buffer'[Wrap(end' + i - 1)]]
    BY DEF Contents, CopiedOut
  <1>4. QED
    BY <1>1, <1>2, <1>3, CellsSeq, Zenon

(* Moving an index in two parts is moving it once.                         *)
LEMMA WrapTwice ==
  ASSUME NEW c \in Cell, NEW m \in 0 .. Max, NEW i \in 0 .. Max, m + i < Max
  PROVE  Wrap(Wrap(c + m) + i) = Wrap(c + (m + i))
  <1>1. CASE c + m + i < Max
    BY <1>1, WrapBelow, FifoAssumption DEF Cell
  <1>2. CASE c + m < Max /\ c + m + i >= Max
    BY <1>2, WrapBelow, FifoAssumption DEF Cell
  <1>3. CASE c + m >= Max
    <2>1. Wrap(c + m) = c + m - Max
      BY <1>3, WrapAbove, FifoAssumption DEF Cell
    <2>2. Wrap(c + m - Max + i) = c + m - Max + i
      BY <1>3, WrapBelow, FifoAssumption DEF Cell
    <2>3. Wrap(c + (m + i)) = c + (m + i) - Max
      BY <1>3, WrapAbove, FifoAssumption DEF Cell
    <2>4. QED
      BY <2>1, <2>2, <2>3, FifoAssumption DEF Cell
  <1>4. QED
    BY <1>1, <1>2, <1>3, FifoAssumption DEF Cell

(* How far the cell j behind end is from head.                             *)
LEMMA DistanceFromHead ==
  ASSUME TypeOK, IndicesAgree, NEW j \in 0 .. Max - 1
  PROVE  Wrap(Wrap(end + j) - head + Max) = IF j >= used THEN j - used ELSE j - used + Max
  <1> USE FifoAssumption DEF Cell, TypeOK, used
  <1>1. head = IF end + used < Max THEN end + used ELSE end + used - Max
    BY WrapBelow, WrapAbove DEF IndicesAgree
  <1>2. Wrap(end + j) = IF end + j < Max THEN end + j ELSE end + j - Max
    BY WrapBelow, WrapAbove
  <1> DEFINE k == Wrap(end + j) - head + Max
  <1>3. k \in {j - used, j - used + Max, j - used + 2 * Max} /\ k \in 1 .. 2 * Max - 1
    BY <1>1, <1>2
  <1>4. CASE k < Max
    <2>1. Wrap(k) = k
      BY <1>3, <1>4, WrapBelow
    <2>2. QED
      BY <2>1, <1>1, <1>2, <1>4
  <1>5. CASE k >= Max
    <2>1. Wrap(k) = k - Max
      BY <1>3, <1>5, WrapAbove
    <2>2. QED
      BY <2>1, <1>1, <1>2, <1>5
  <1>6. QED
    BY <1>3, <1>4, <1>5

(* An accepted write appends to the contents.                              *)
LEMMA WriteContents ==
  ASSUME TypeOK, TypeOK', IndicesAgree, NEW s \in Seq(Elem), Len(s) <= size, WriteBuffer(s)
  PROVE  Contents' = Contents \o s
  <1>1. /\ buffer' = CopiedIn(s)
        /\ size' = size - Len(s)
        /\ end' = end
    BY DEF WriteBuffer
  <1>2. Len(s) \in Nat /\ \A i \in 1 .. Len(s) : s[i] \in Elem
    BY LenProperties, ElementOfSeq
  <1>3. used' = used + Len(s) /\ used \in Nat
    BY <1>1, <1>2, FifoAssumption DEF used, TypeOK
  <1>4. /\ Contents' \in Seq(Elem)
        /\ Len(Contents') = used'
        /\ \A i \in 1 .. used' : Contents'[i] = buffer'[Wrap(end' + i - 1)]
    BY ContentsSeqNext
  <1>5. ASSUME NEW i \in 1 .. used'
        PROVE  Contents'[i] = IF i <= used THEN Contents[i] ELSE s[i - used]
    <2> DEFINE c == Wrap(end + (i - 1))
    <2>1. i - 1 \in 0 .. Max - 1
      BY <1>1, <1>3, <1>2, FifoAssumption DEF TypeOK, used
    <2>2. c \in Cell
      <3>1. end + (i - 1) \in Nat
        BY <2>1, FifoAssumption DEF TypeOK, Cell
      <3>2. QED
        BY <3>1, WrapInBuffer
    <2>3. Wrap(c - head + Max) = IF i - 1 >= used THEN i - 1 - used ELSE i - 1 - used + Max
      BY <2>1, DistanceFromHead
    <2>4. Contents'[i] = CopiedIn(s)[c]
      <3>1. end' + i - 1 = end + (i - 1)
        BY <1>1, FifoAssumption DEF TypeOK, Cell
      <3>2. QED
        BY <3>1, <1>1, <1>4
    <2>5. CASE i <= used
      <3>1. ~(Wrap(c - head + Max) < Len(s))
        BY <2>3, <2>5, <2>1, <1>2, <1>3, FifoAssumption DEF TypeOK, used
      <3>2. CopiedIn(s)[c] = buffer[c]
        BY <3>1, <2>2 DEF CopiedIn
      <3>3. Contents[i] = buffer[c]
        <4>1. end + i - 1 = end + (i - 1)
          BY FifoAssumption DEF TypeOK, Cell
        <4>2. QED
          BY <4>1, <2>5, <1>3, ContentsSeq
      <3>4. QED
        BY <2>4, <2>5, <3>2, <3>3
    <2>6. CASE ~(i <= used)
      <3>1. Wrap(c - head + Max) = i - 1 - used /\ i - 1 - used < Len(s)
        BY <2>3, <2>6, <1>2, <1>3
      <3>2. CopiedIn(s)[c] = s[i - 1 - used + 1]
        BY <3>1, <2>2 DEF CopiedIn
      <3>3. i - 1 - used + 1 = i - used
        BY <1>3
      <3>4. QED
        BY <2>4, <2>6, <3>2, <3>3
    <2>7. QED
      BY <2>5, <2>6
  <1>6. /\ Contents \o s \in Seq(Elem)
        /\ Len(Contents \o s) = used + Len(s)
        /\ \A i \in 1 .. used + Len(s) :
             (Contents \o s)[i] = IF i <= used THEN Contents[i] ELSE s[i - used]
    <2>1. Contents \in Seq(Elem) /\ Len(Contents) = used
      BY ContentsSeq
    <2>2. QED
      BY <2>1, ConcatProperties
  <1>7. QED
    BY <1>3, <1>4, <1>5, <1>6, SeqEqual

(* A read copies out a prefix of the contents.                             *)
LEMMA ReadPrefix ==
  ASSUME TypeOK, NEW n \in 0 .. used
  PROVE  CopiedOut(end, n) = SubSeq(Contents, 1, n)
  <1>1. used \in 0 .. Max /\ end \in Cell /\ n \in 0 .. Max
    BY FifoAssumption DEF TypeOK, used
  <1>2. /\ CopiedOut(end, n) \in Seq(Elem)
        /\ Len(CopiedOut(end, n)) = n
        /\ \A i \in 1 .. n : CopiedOut(end, n)[i] = buffer[Wrap(end + i - 1)]
    BY <1>1, CopiedOutSeq
  <1>3. \A i \in 1 .. n : Contents[i] \in Elem /\ Contents[i] = buffer[Wrap(end + i - 1)]
    BY <1>1, ContentsSeq, ElementOfSeq
  <1>4. /\ SubSeq(Contents, 1, n) \in Seq(Elem)
        /\ Len(SubSeq(Contents, 1, n)) = n
        /\ \A i \in 1 .. n : SubSeq(Contents, 1, n)[i] = Contents[i]
    BY <1>1, <1>3, SubSeqProperties
  <1>5. QED
    BY <1>2, <1>3, <1>4, SeqEqual

(* The clean half of a read drops a prefix of the contents.                *)
LEMMA FreeContents ==
  ASSUME TypeOK, TypeOK', NEW n \in 0 .. used, Free(n), UNCHANGED buffer
  PROVE  Contents' = SubSeq(Contents, n + 1, Len(Contents))
  <1>1. used \in 0 .. Max /\ end \in Cell /\ Len(Contents) = used
    BY ContentsSeq DEF TypeOK
  <1>2. end' = Wrap(end + n) /\ used' = used - n
    BY <1>1, FifoAssumption DEF Free, EndOffset, used, TypeOK
  <1>3. Contents' = [i \in 1 .. used' |-> buffer'[Wrap(end' + i - 1)]]
    BY DEF Contents, CopiedOut
  <1>4. ASSUME NEW i \in 1 .. used'
        PROVE  /\ Contents[n + 1 + i - 1] \in Elem
               /\ Contents'[i] = Contents[n + 1 + i - 1]
    <2>1. n + i \in 1 .. used /\ i - 1 \in 0 .. Max /\ n \in 0 .. Max /\ n + (i - 1) < Max
      <3>1. i \in Int /\ 1 <= i /\ i <= used - n
        BY <1>1, <1>2
      <3>2. n \in Int /\ 0 <= n /\ n <= Max
        BY <1>1, FifoAssumption
      <3>3. QED
        BY <3>1, <3>2, <1>1, FifoAssumption
    <2>2. Contents[n + i] = buffer[Wrap(end + (n + i) - 1)] /\ Contents[n + i] \in Elem
      BY <2>1, ContentsSeq, ElementOfSeq
    <2>3. Wrap(Wrap(end + n) + (i - 1)) = Wrap(end + (n + (i - 1)))
      BY <2>1, <1>1, WrapTwice
    <2>4. Wrap(end + n) \in Cell
      <3>1. end + n \in Nat
        BY <1>1, FifoAssumption DEF Cell
      <3>2. QED
        BY <3>1, WrapInBuffer
    <2>5. /\ end' + i - 1 = Wrap(end + n) + (i - 1)
          /\ end + (n + (i - 1)) = end + (n + i) - 1
          /\ n + 1 + i - 1 = n + i
      BY <1>1, <1>2, <2>4, FifoAssumption DEF Cell
    <2>6. Contents'[i] = buffer[Wrap(end' + i - 1)]
      BY <1>3
    <2>7. QED
      BY <2>2, <2>3, <2>5, <2>6
  <1>5. /\ SubSeq(Contents, n + 1, used) \in Seq(Elem)
        /\ Len(SubSeq(Contents, n + 1, used)) = used'
        /\ \A i \in 1 .. used' : SubSeq(Contents, n + 1, used)[i] = Contents[n + 1 + i - 1]
    <2>1. \A i \in n + 1 .. used : Contents[i] \in Elem
      BY <1>1, ContentsSeq, ElementOfSeq
    <2>2. used - (n + 1) + 1 = used' /\ n + 1 \in Int /\ used \in Int
      BY <1>1, <1>2
    <2>3. (IF n + 1 <= used THEN used - (n + 1) + 1 ELSE 0) = used'
      BY <1>1, <1>2
    <2>4. QED
      BY <2>1, <2>2, <2>3, SubSeqProperties
  <1>6. Contents' \in Seq(Elem) /\ Len(Contents') = used'
    BY ContentsSeqNext
  <1>7. QED
    BY <1>1, <1>4, <1>5, <1>6, SeqEqual

-----------------------------------------------------------------------------
(* An empty FIFO has no contents.                                          *)
LEMMA EmptyContents ==
  ASSUME TypeOK', used' = 0
  PROVE  Contents' = << >>
  BY ContentsSeqNext, EmptySeq

(* The elements of a call.                                                 *)
LEMMA CallSeq == Call \subseteq Seq(Elem)
  BY FifoAssumption DEF Call

(* Steps of the ring buffer are steps of the queue.                        *)
LEMMA WriteStep ==
  ASSUME TypeOK, TypeOK', IndicesAgree, NEW s \in Seq(Elem), WriteBuffer(s)
  PROVE  Queue!Write(s)
  <1>1. Len(Contents) = Max - size /\ Len(s) \in Nat
    BY ContentsSeq DEF used
  <1>2. Len(Contents) + Len(s) <= Max <=> Len(s) <= size
    BY <1>1, FifoAssumption DEF TypeOK
  <1>3. CASE Len(s) <= size
    BY <1>2, <1>3, WriteContents DEF WriteBuffer, Result, Queue!Write, Queue!Result
  <1>4. CASE ~(Len(s) <= size)
    BY <1>2, <1>4 DEF WriteBuffer, Result, Contents, CopiedOut, used, Queue!Write, Queue!Result
  <1>5. QED
    BY <1>3, <1>4

(* A read is a read of the queue.                                          *)
LEMMA ReadStep ==
  ASSUME TypeOK, TypeOK', NEW n \in Nat, NEW flag \in Flag, ReadBuffer(n, flag)
  PROVE  Queue!Read(n, flag)
  <1>1. Len(Contents) = used /\ Granted(n) \in 0 .. used
    BY ContentsSeq, GrantedRange
  <1>2. Queue!Granted(n) = Granted(n) /\ Queue!ReadState(n) = ReadState(n)
    BY <1>1 DEF Granted, ReadState, Queue!Granted, Queue!ReadState
  <1>3. out' = Result("read", <<n, flag>>, ReadState(n), SubSeq(Contents, 1, Granted(n)))
    BY <1>1, ReadPrefix DEF ReadBuffer
  <1>4. CASE flag = Clean
    <2>1. Contents' = SubSeq(Contents, Granted(n) + 1, Len(Contents))
      BY <1>1, <1>4, FreeContents DEF ReadBuffer
    <2>2. QED
      BY <1>2, <1>3, <1>4, <2>1 DEF Result, Clean, Queue!Read, Queue!Result, Queue!Clean
  <1>5. CASE flag # Clean
    <2>1. Contents' = Contents
      BY <1>5 DEF ReadBuffer, Contents, CopiedOut, used
    <2>2. QED
      BY <1>2, <1>3, <1>5, <2>1 DEF Result, Clean, Queue!Read, Queue!Result, Queue!Clean
  <1>6. QED
    BY <1>4, <1>5

(* A discard drops the oldest of the queue.                                *)
LEMMA DiscardStep ==
  ASSUME TypeOK, TypeOK', NEW n \in Nat, NEW flag \in Flag, ReadNull(n, flag)
  PROVE  Queue!Discard(n, flag)
  <1>1. Len(Contents) = used /\ n \in 0 .. used
    BY ContentsSeq DEF ReadNull
  <1>2. out' = Result("discard", <<n, flag>>, "FIFO_BUFFER_NULL", << >>)
    BY DEF ReadNull
  <1>3. CASE flag = Clean
    <2>1. Contents' = SubSeq(Contents, n + 1, Len(Contents))
      BY <1>1, <1>3, FreeContents DEF ReadNull
    <2>2. QED
      BY <1>1, <1>2, <1>3, <2>1 DEF Result, Clean, Queue!Discard, Queue!Result, Queue!Clean
  <1>4. CASE flag # Clean
    <2>1. Contents' = Contents
      BY <1>4 DEF ReadNull, Contents, CopiedOut, used
    <2>2. QED
      BY <1>1, <1>2, <1>4, <2>1 DEF Result, Clean, Queue!Discard, Queue!Result, Queue!Clean
  <1>5. QED
    BY <1>3, <1>4

(* A clear empties the queue.                                              *)
LEMMA ClearStep ==
  ASSUME TypeOK', FifoClear
  PROVE  Queue!Clear
  <1>1. used' = 0
    BY FifoAssumption DEF FifoClear, Emptied, used
  <1>2. QED
    BY <1>1, EmptyContents DEF FifoClear, Result, Queue!Clear, Queue!Result

(* What a tail read copies from the buffer are the newest elements, where  *)
(* it copies from the buffer.                                              *)
LEMMA TailCells ==
  ASSUME TypeOK, IndicesAgree, NEW g \in 0 .. used, NEW i \in 1 .. g,
         head > end \/ head >= g \/ i <= g - head
  PROVE  Contents[used - g + 1 + i - 1]
           = buffer[IF head > end \/ head >= g THEN head - g + i - 1 ELSE Max - (g - head) + i - 1]
  <1> DEFINE w == end + used - g + i - 1
  <1>1. /\ used \in 0 .. Max /\ end \in Cell /\ head \in Cell /\ g \in 0 .. Max /\ i \in Int
        /\ 1 <= i /\ i <= g /\ g <= used
    BY UsedRange, FifoAssumption DEF TypeOK, used
  <1>2. Contents[used - g + 1 + i - 1] = buffer[Wrap(w)]
    <2>1. used - g + 1 + i - 1 \in 1 .. used /\ end + (used - g + 1 + i - 1) - 1 = w
      BY <1>1, FifoAssumption DEF Cell
    <2>2. QED
      BY <2>1, ContentsSeq
  <1>3. head = IF end + used < Max THEN end + used ELSE end + used - Max
    <2>1. CASE end + used < Max
      BY <2>1, <1>1, WrapBelow, FifoAssumption DEF IndicesAgree, Cell
    <2>2. CASE end + used >= Max
      BY <2>2, <1>1, WrapAbove, FifoAssumption DEF IndicesAgree, Cell
    <2>3. QED
      BY <2>1, <2>2, <1>1, FifoAssumption DEF Cell
  <1>4. CASE w < Max
    <2>1. Wrap(w) = w
      BY <1>4, <1>1, WrapBelow, FifoAssumption DEF Cell
    <2>2. QED
      BY <2>1, <1>1, <1>2, <1>3, <1>4, FifoAssumption DEF Cell
  <1>5. CASE w >= Max
    <2>1. Wrap(w) = w - Max
      BY <1>5, <1>1, WrapAbove, FifoAssumption DEF Cell
    <2>2. QED
      BY <2>1, <1>1, <1>2, <1>3, <1>5, FifoAssumption DEF Cell
  <1>6. QED
    BY <1>4, <1>5, <1>1, FifoAssumption DEF Cell

(* A tail read is one of the queue.                                        *)
LEMMA TailStep ==
  ASSUME TypeOK, TypeOK', IndicesAgree, NEW n \in Nat, NEW flag \in Flag, ReadTailBuffer(n, flag)
  PROVE  Queue!ReadTail(n, flag)
  <1> DEFINE g == Granted(n)
             k == IF head > end \/ head >= g THEN g ELSE g - head
             new == Queue!Newest(g)
  <1>1. Len(Contents) = used /\ used \in 0 .. Max /\ g \in 0 .. used
    BY ContentsSeq, GrantedRange
  <1>2. Queue!Granted(n) = g /\ Queue!ReadState(n) = ReadState(n)
    BY <1>1 DEF Granted, ReadState, Queue!Granted, Queue!ReadState
  <1>3. k \in 0 .. g
    BY <1>1, FifoAssumption DEF TypeOK, Cell
  <1>4. ASSUME NEW i \in 1 .. g PROVE new[i] = Contents[used - g + 1 + i - 1]
    <2>1. \A j \in used - g + 1 .. used : Contents[j] \in Elem
      <3>1. used - g + 1 .. used \subseteq 1 .. used
        BY <1>1
      <3>2. QED
        BY <3>1, <1>1, ContentsSeq, ElementOfSeq
    <2>2. used - g + 1 \in Int /\ used \in Int
      BY <1>1
    <2>3. Len(SubSeq(Contents, used - g + 1, used)) = g
          /\ SubSeq(Contents, used - g + 1, used)[i] = Contents[used - g + 1 + i - 1]
      <3>1. (IF used - g + 1 <= used THEN used - (used - g + 1) + 1 ELSE 0) = g
        BY <1>1
      <3>2. QED
        BY <2>1, <2>2, <3>1, SubSeqProperties
    <2>4. QED
      BY <2>3, <1>1 DEF Queue!Newest
  <1>5. TailCopy(g) = [i \in 1 .. g |-> IF i <= k THEN new[i] ELSE Junk]
    <2>1. CASE head > end \/ head >= g
      <3>1. ASSUME NEW i \in 1 .. g PROVE i <= k /\ buffer[head - g + i - 1] = new[i]
        <4>1. i <= k
          BY <2>1, <1>1
        <4>2. buffer[head - g + i - 1] = new[i]
          BY <2>1, <1>1, <1>4, TailCells
        <4>3. QED
          BY <4>1, <4>2
      <3>2. QED
        BY <2>1, <3>1 DEF TailCopy
    <2>2. CASE ~(head > end \/ head >= g)
      <3>1. ASSUME NEW i \in 1 .. g
            PROVE  /\ i <= k <=> i <= g - head
                   /\ i <= g - head => buffer[Max - (g - head) + i - 1] = new[i]
        <4>1. i <= k <=> i <= g - head
          BY <2>2
        <4>2. ASSUME i <= g - head PROVE buffer[Max - (g - head) + i - 1] = new[i]
          BY <4>2, <2>2, <1>1, <1>4, TailCells
        <4>3. QED
          BY <4>1, <4>2
      <3>2. QED
        BY <2>2, <3>1 DEF TailCopy
    <2>3. QED
      BY <2>1, <2>2
  <1>6. \E x \in 0 .. Queue!Granted(n) :
          out' = Result("tail", <<n, flag>>, ReadState(n),
                        [i \in 1 .. Queue!Granted(n) |->
                           IF i <= x THEN Queue!Newest(Queue!Granted(n))[i] ELSE Junk])
    BY <1>2, <1>3, <1>5, Zenon DEF ReadTailBuffer
  <1>7. Contents' = IF flag = Clean THEN << >> ELSE Contents
    <2>1. CASE flag = Clean /\ ~(n > 0 /\ used = 0)
      <3>1. used' = 0
        BY <2>1, FifoAssumption DEF ReadTailBuffer, Emptied, used
      <3>2. QED
        BY <2>1, <3>1, EmptyContents
    <2>2. CASE ~(flag = Clean /\ ~(n > 0 /\ used = 0))
      <3>1. Contents' = Contents
        BY <2>2 DEF ReadTailBuffer, Contents, CopiedOut, used
      <3>2. CASE used = 0
        <4>1. Contents = << >>
          BY <3>2, ContentsSeq, EmptySeq
        <4>2. QED
          BY <3>1, <4>1
      <3>3. CASE used # 0
        BY <2>2, <3>1, <3>3
      <3>4. QED
        BY <3>2, <3>3
    <2>3. QED
      BY <2>1, <2>2
  <1>8. QED
    BY <1>2, <1>6, <1>7 DEF Queue!ReadTail, Queue!Result, Queue!Clean, Result, Clean

(* A tail read into no buffer is one of the queue.                         *)
LEMMA TailNullStep ==
  ASSUME TypeOK', NEW flag \in Flag, ReadTailNull(flag)
  PROVE  Queue!ReadTailNull(flag)
  <1>1. CASE flag = Clean
    <2>1. used' = 0
      <3>1. Emptied
        BY <1>1, Zenon DEF ReadTailNull
      <3>2. QED
        BY <3>1, FifoAssumption DEF Emptied, used
    <2>2. QED
      BY <1>1, <2>1, EmptyContents
      DEF ReadTailNull, Result, Clean, Queue!ReadTailNull, Queue!Result, Queue!Clean
  <1>2. CASE flag # Clean
    <2>1. Contents' = Contents
      BY <1>2 DEF ReadTailNull, Contents, CopiedOut, used
    <2>2. QED
      BY <1>2, <2>1 DEF ReadTailNull, Result, Clean, Queue!ReadTailNull, Queue!Result, Queue!Clean
  <1>3. QED
    BY <1>1, <1>2

(* The ring buffer implements the bounded queue FifoQueue, for a buffer of *)
(* any length and calls of any length: every call returns and leaves what  *)
(* the queue would.                                                        *)
THEOREM Refinement ==
  Spec => ImplementsQueue
  <1> DEFINE Inv == TypeOK /\ IndicesAgree
  <1>1. Init => Queue!Init
    <2>1. ASSUME Init PROVE TypeOK /\ used = 0
      BY <2>1, FifoAssumption DEF Init, TypeOK, used, Cell
    <2>2. ASSUME Init PROVE Contents = << >>
      BY <2>1, <2>2, ContentsSeq, EmptySeq
    <2>3. QED
      BY <2>2 DEF Init, Result, Queue!Init, Queue!Result
  <1>2. Inv /\ Inv' /\ [Next]_vars => [Queue!Next]_(Queue!vars)
    <2> SUFFICES ASSUME TypeOK, IndicesAgree, TypeOK', [Next]_vars
                 PROVE  [Queue!Next]_(Queue!vars)
      OBVIOUS
    <2>1. ASSUME NEW s \in Call, WriteBuffer(s) PROVE Queue!Next
      BY <2>1, CallSeq, WriteStep DEF Queue!Next, Queue!Call, Call
    <2>2. ASSUME NEW d \in Elem, WriteElement(d) PROVE Queue!Next \/ UNCHANGED Queue!vars
      <3>1. <<d>> \in Seq(Elem) /\ WriteBuffer(<<d>>)
        BY <2>2 DEF WriteElement
      <3>2. Queue!Write(<<d>>)
        BY <3>1, WriteStep
      <3>3. <<d>> \in Queue!Call
        <4>1. <<d>> \in [1 .. 1 -> Elem] /\ 1 \in 0 .. MaxCall
          BY FifoAssumption
        <4>2. QED
          BY <4>1 DEF Queue!Call
      <3>4. QED
        BY <3>2, <3>3 DEF Queue!Next
    <2>3. ASSUME NEW n \in 0 .. MaxCall, NEW flag \in Flag, ReadBuffer(n, flag) PROVE Queue!Next
      BY <2>3, ReadStep DEF Queue!Next, Queue!Flag, Queue!Clean, Queue!Peek, Flag, Clean, Peek
    <2>4. ASSUME NEW n \in 0 .. MaxCall, NEW flag \in Flag, ReadNull(n, flag) PROVE Queue!Next
      BY <2>4, DiscardStep DEF Queue!Next, Queue!Flag, Queue!Clean, Queue!Peek, Flag, Clean, Peek
    <2>5. CASE FifoClear
      BY <2>5, ClearStep DEF Queue!Next
    <2>6. ASSUME WriteNull PROVE Queue!Next
      BY <2>6 DEF WriteNull, Contents, CopiedOut, used, Result,
                  Queue!Next, Queue!WriteNull, Queue!Result
    <2>7. ASSUME UNCHANGED vars PROVE UNCHANGED Queue!vars
      BY <2>7 DEF vars, Contents, CopiedOut, used, Queue!vars
    <2>8. ASSUME NEW flag \in Flag, ReadElement(flag) PROVE Queue!Next
      BY <2>8, <2>3, FifoAssumption DEF ReadElement
    <2>9. ASSUME NEW n \in 0 .. MaxCall, NEW flag \in Flag, ReadTailBuffer(n, flag) PROVE Queue!Next
      BY <2>9, TailStep DEF Queue!Next, Queue!Flag, Queue!Clean, Queue!Peek, Flag, Clean, Peek
    <2>10. ASSUME NEW flag \in Flag, ReadTailNull(flag) PROVE Queue!Next
      BY <2>10, TailNullStep DEF Queue!Next, Queue!Flag, Queue!Clean, Queue!Peek, Flag, Clean, Peek
    <2>11. QED
      BY <2>1, <2>2, <2>3, <2>4, <2>5, <2>6, <2>7, <2>8, <2>9, <2>10 DEF Next
  <1>3. QED
    BY <1>1, <1>2, IndicesTheorem, PTL DEF Spec, ImplementsQueue, Queue!Spec
=============================================================================
