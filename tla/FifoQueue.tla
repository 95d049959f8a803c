------------------------------ MODULE FifoQueue ------------------------------
(***************************************************************************)
(* What a FIFO of zf_common_fifo promises its caller: a bounded queue whose *)
(* writes are all or nothing, whose reads return the oldest elements, at    *)
(* most as many as there are, and tell the caller when that was fewer than  *)
(* asked for.  A tail read promises less: from some element on, it may      *)
(* return junk.                                                             *)
(***************************************************************************)
EXTENDS Integers, Sequences

CONSTANTS
  Max,      \* capacity
  Elem,     \* the elements
  Junk,     \* what a copy from outside the buffer returns
  MaxCall   \* the longest buffer a caller passes (bound of the instance)

VARIABLES
  queue,    \* the elements, oldest first
  out       \* the last call and what it returned

vars == <<queue, out>>

Clean == "FIFO_READ_AND_CLEAN"
Peek  == "FIFO_READ_ONLY"
Flag  == {Clean, Peek}

(* A call with its arguments, the state it returned and the data it copied *)
(* out.                                                                    *)
Result(f, arg, s, d) == [call |-> f, arg |-> arg, state |-> s, data |-> d]

(* The elements a read of n gets, and its return state.                    *)
Granted(n) == IF n > Len(queue) THEN Len(queue) ELSE n
ReadState(n) == IF n > Len(queue) THEN "FIFO_DATA_NO_ENOUGH" ELSE "FIFO_SUCCESS"

Write(s) ==
  IF Len(queue) + Len(s) <= Max
    THEN /\ queue' = queue \o s
         /\ out' = Result("write", s, "FIFO_SUCCESS", << >>)
    ELSE /\ out' = Result("write", s, "FIFO_SPACE_NO_ENOUGH", << >>)
         /\ UNCHANGED queue

WriteNull ==
  /\ out' = Result("write null", << >>, "FIFO_BUFFER_NULL", << >>)
  /\ UNCHANGED queue

(* A read without a destination discards.                                  *)
Discard(n, flag) ==
  /\ n <= Len(queue)
  /\ out' = Result("discard", <<n, flag>>, "FIFO_BUFFER_NULL", << >>)
  /\ queue' = IF flag = Clean THEN SubSeq(queue, n + 1, Len(queue)) ELSE queue

Read(n, flag) ==
  /\ out' = Result("read", <<n, flag>>, ReadState(n), SubSeq(queue, 1, Granted(n)))
  /\ queue' = IF flag = Clean THEN SubSeq(queue, Granted(n) + 1, Len(queue)) ELSE queue

Newest(g) == SubSeq(queue, Len(queue) - g + 1, Len(queue))

ReadTail(n, flag) ==
  /\ \E k \in 0 .. Granted(n) :
       out' = Result("tail", <<n, flag>>, ReadState(n),
                     [i \in 1 .. Granted(n) |-> IF i <= k THEN Newest(Granted(n))[i] ELSE Junk])
  /\ queue' = IF flag = Clean THEN << >> ELSE queue

ReadTailNull(flag) ==
  /\ out' = Result("tail null", <<flag>>, "FIFO_BUFFER_NULL", << >>)
  /\ queue' = IF flag = Clean THEN << >> ELSE queue

Clear ==
  /\ queue' = << >>
  /\ out' = Result("clear", << >>, "FIFO_SUCCESS", << >>)

Call == UNION {[1 .. k -> Elem] : k \in 0 .. MaxCall}

Init == queue = << >> /\ out = Result("init", << >>, "FIFO_SUCCESS", << >>)

Next ==
  \/ \E s \in Call : Write(s)
  \/ WriteNull
  \/ \E n \in 0 .. MaxCall, flag \in Flag : Discard(n, flag)
  \/ \E n \in 0 .. MaxCall, flag \in Flag : Read(n, flag)
  \/ \E n \in 0 .. MaxCall, flag \in Flag : ReadTail(n, flag)
  \/ \E flag \in Flag : ReadTailNull(flag)
  \/ Clear

Spec == Init /\ [][Next]_vars
=============================================================================
