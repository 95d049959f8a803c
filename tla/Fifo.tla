-------------------------------- MODULE Fifo --------------------------------
(***************************************************************************)
(* The ring buffer of libraries/zf_common/zf_common_fifo.cpp, called from  *)
(* one context at a time: a call is one step, and the execution flags are  *)
(* FIFO_IDLE between calls.  FifoNested has the calls nested by interrupts.*)
(* The element width (8, 16 or 32 bits) selects the type of the same       *)
(* copies and is left out.  A definition X_Y is a wrong form of X, used to *)
(* show that a property depends on X.                                      *)
(***************************************************************************)
EXTENDS Integers, Sequences

CONSTANTS
  Max,       \* the length of the buffer given to fifo_init
  Elem,      \* the elements
  Zero,      \* the element fifo_clear fills the buffer with
  Junk,      \* what a copy from outside the buffer returns
  MaxCall    \* the longest buffer a caller passes (bound of the instance)

ASSUME FifoAssumption ==
  /\ Max \in Nat \ {0}
  /\ MaxCall \in Nat \ {0}
  /\ Zero \in Elem
  /\ Junk \notin Elem

VARIABLES
  buffer, head, end, size,  \* the fields of fifo_struct
  out                       \* the last call and what it returned

vars == <<buffer, head, end, size, out>>

Cell == 0 .. Max - 1

Clean == "FIFO_READ_AND_CLEAN"
Peek  == "FIFO_READ_ONLY"
Flag  == {Clean, Peek}

(* A call with its arguments, the state it returned and the data it copied *)
(* out.                                                                    *)
Result(f, arg, s, d) == [call |-> f, arg |-> arg, state |-> s, data |-> d]

used == Max - size    \* fifo_used

(* fifo_head_offset and fifo_end_offset: subtract max until below max.     *)
Wrap(i) == i % Max

HeadOffset(n) == head' = Wrap(head + n)
EndOffset(n)  == end' = Wrap(end + n)

-----------------------------------------------------------------------------
(* The buffer after the elements of s were copied in from cell head on,    *)
(* going on at cell 0 behind the last cell.                                *)
CopiedIn_NoWrap(s) ==
  [c \in Cell |-> IF c >= head /\ c - head < Len(s) THEN s[c - head + 1] ELSE buffer[c]]
CopiedIn(s) ==
  [c \in Cell |-> LET k == Wrap(c - head + Max)
                  IN IF k < Len(s) THEN s[k + 1] ELSE buffer[c]]

(* n elements copied out from cell c on.                                   *)
CopiedOut(c, n) == [i \in 1 .. n |-> buffer[Wrap(c + i - 1)]]

-----------------------------------------------------------------------------
(* fifo_write_buffer; fifo_write_element writes a buffer of one.           *)
WriteBuffer(s) ==
  IF Len(s) <= size
    THEN /\ buffer' = CopiedIn(s)
         /\ HeadOffset(Len(s))
         /\ size' = size - Len(s)
         /\ out' = Result("write", s, "FIFO_SUCCESS", << >>)
         /\ UNCHANGED end
    ELSE /\ out' = Result("write", s, "FIFO_SPACE_NO_ENOUGH", << >>)
         /\ UNCHANGED <<buffer, head, end, size>>

WriteElement(d) == WriteBuffer(<<d>>)

WriteNull ==
  /\ out' = Result("write null", << >>, "FIFO_BUFFER_NULL", << >>)
  /\ UNCHANGED <<buffer, head, end, size>>

(* What a read of n gets: *length is corrected to the data there is.       *)
Granted(n) == IF n > used THEN used ELSE n
ReadState(n) == IF n > used THEN "FIFO_DATA_NO_ENOUGH" ELSE "FIFO_SUCCESS"

(* The clean half of a read: free n elements at the end.                   *)
Free(n) ==
  /\ EndOffset(n)
  /\ size' = size + n

(* fifo_read_buffer; fifo_read_element reads a buffer of one.  An empty    *)
(* FIFO is left before the clean half, which would free nothing.           *)
ReadBuffer(n, flag) ==
  /\ out' = Result("read", <<n, flag>>, ReadState(n), CopiedOut(end, Granted(n)))
  /\ IF flag = Clean THEN Free(Granted(n)) ELSE UNCHANGED <<end, size>>
  /\ UNCHANGED <<buffer, head>>

ReadElement(flag) == ReadBuffer(1, flag)

(* A null destination copies nothing, but the clean half still runs, with  *)
(* the length as the caller passed it: a way to discard elements, for a    *)
(* caller that asks fifo_used first.  (With more than fifo_used, size      *)
(* would pass max.)                                                        *)
ReadNull(n, flag) ==
  /\ n <= used
  /\ out' = Result("discard", <<n, flag>>, "FIFO_BUFFER_NULL", << >>)
  /\ IF flag = Clean THEN Free(n) ELSE UNCHANGED <<end, size>>
  /\ UNCHANGED <<buffer, head>>

(* fifo_clear.                                                             *)
Emptied_KeepsEnd ==
  /\ head' = 0
  /\ size' = Max
  /\ buffer' = [c \in Cell |-> Zero]
  /\ UNCHANGED end
Emptied ==
  /\ head' = 0
  /\ end' = 0
  /\ size' = Max
  /\ buffer' = [c \in Cell |-> Zero]

FifoClear ==
  /\ Emptied
  /\ out' = Result("clear", << >>, "FIFO_SUCCESS", << >>)

(* The copy of fifo_read_tail_buffer.  When the newest n elements lie on   *)
(* both sides of the last cell the second memcpy starts at buffer[head-n], *)
(* which is before the buffer (uint32: far behind it).                     *)
TailCopy(n) ==
  IF head > end \/ head >= n
    THEN [i \in 1 .. n |-> buffer[head - n + i - 1]]
    ELSE [i \in 1 .. n |-> IF i <= n - head THEN buffer[Max - (n - head) + i - 1] ELSE Junk]

(* The clean half of a tail read clears the whole FIFO; an empty FIFO is   *)
(* left before it when anything was asked for.                             *)
ReadTailBuffer(n, flag) ==
  /\ out' = Result("tail", <<n, flag>>, ReadState(n), TailCopy(Granted(n)))
  /\ IF flag = Clean /\ ~(n > 0 /\ used = 0)
       THEN Emptied
       ELSE UNCHANGED <<buffer, head, end, size>>

ReadTailNull(flag) ==
  /\ out' = Result("tail null", <<flag>>, "FIFO_BUFFER_NULL", << >>)
  /\ IF flag = Clean THEN Emptied ELSE UNCHANGED <<buffer, head, end, size>>

-----------------------------------------------------------------------------
Call == UNION {[1 .. k -> Elem] : k \in 0 .. MaxCall}

(* fifo_init on a zeroed buffer.                                           *)
Init ==
  /\ buffer = [c \in Cell |-> Zero]
  /\ head = 0
  /\ end = 0
  /\ size = Max
  /\ out = Result("init", << >>, "FIFO_SUCCESS", << >>)

Next ==
  \/ \E d \in Elem : WriteElement(d)
  \/ \E s \in Call : WriteBuffer(s)
  \/ WriteNull
  \/ \E flag \in Flag : ReadElement(flag)
  \/ \E n \in 0 .. MaxCall, flag \in Flag : ReadBuffer(n, flag)
  \/ \E n \in 0 .. MaxCall, flag \in Flag : ReadNull(n, flag)
  \/ \E n \in 0 .. MaxCall, flag \in Flag : ReadTailBuffer(n, flag)
  \/ \E flag \in Flag : ReadTailNull(flag)
  \/ FifoClear

Spec == Init /\ [][Next]_vars

-----------------------------------------------------------------------------
(* Type invariant of the fields.                                           *)
TypeOK ==
  /\ buffer \in [Cell -> Elem]
  /\ head \in Cell
  /\ end \in Cell
  /\ size \in 0 .. Max

(* The two indices and the remaining size, which three functions move      *)
(* separately, always agree: head is used cells behind end.                *)
IndicesAgree == head = Wrap(end + used)

(* The elements the FIFO holds, oldest first.                              *)
Contents == CopiedOut(end, used)

(* zf_common_fifo.cpp:438 says the tail read returns the given length from *)
(* the tail of the FIFO: the newest elements, in order.                    *)
TailReadReturnsNewest ==
  [][\A n \in 0 .. MaxCall, flag \in Flag :
       ReadTailBuffer(n, flag)
         => out'.data = SubSeq(Contents, used - Granted(n) + 1, used)]_vars

Queue == INSTANCE FifoQueue WITH queue <- Contents

(* The ring buffer implements the bounded queue: wrapped copies, partial   *)
(* reads and refused writes included.                                      *)
ImplementsQueue == Queue!Spec
=============================================================================
