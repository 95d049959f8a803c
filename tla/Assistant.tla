------------------------------ MODULE Assistant ------------------------------
(***************************************************************************)
(* How libraries/zf_components/seekfree_assistant.cpp receives parameters: *)
(* data_analysis is called again and again, moves what the transport has   *)
(* received into its FIFO, and searches the FIFO for frames.  The FIFO is  *)
(* FifoQueue, which Fifo implements.  A frame is head, channel, check_sum  *)
(* and one byte of data; the function byte, which is not looked at, and    *)
(* the other three bytes of data are left out, and a byte is a number      *)
(* below ByteMod.  The transport is a TCP stream (zf_driver_tcp_client).   *)
(* A definition X_Y is a wrong form of X, used to show that a property     *)
(* depends on X.                                                           *)
(***************************************************************************)
EXTENDS Integers, Sequences

CONSTANTS
  ByteMod,   \* 256 in the code
  HeadByte,  \* the head byte, 0x55 in the code
  Channels,  \* channels 1 .. Channels have a parameter, 8 in the code; below ByteMod
  Capacity,  \* SEEKFREE_ASSISTANT_BUFFER_SIZE, of the FIFO and of a chunk: a frame or more
  Messages,  \* what the upper computer sets: channel and data
  Noise,     \* bytes that reach the stream between two frames
  MaxSent    \* frames and noise bytes sent in a run (bound)

FrameLen == 4

ASSUME AssistantAssumption ==
  /\ ByteMod \in Nat \ {0}
  /\ HeadByte \in 0 .. ByteMod - 1
  /\ Channels \in Nat /\ Channels < ByteMod
  /\ Capacity \in Nat /\ Capacity >= FrameLen
  /\ Messages \subseteq [channel : 1 .. Channels, data : 0 .. ByteMod - 1]
  /\ Noise \subseteq 0 .. ByteMod - 1
  /\ MaxSent \in Nat

VARIABLES
  wire,         \* the stream, sent and not yet received
  queue, fifo_out,  \* seekfree_assistant_fifo, and what its last call returned
  pc,           \* where data_analysis is
  read_length,
  parameter,    \* seekfree_assistant_parameter
  update_flag,  \* seekfree_assistant_parameter_update_flag
  stray,        \* was a parameter written outside the two arrays?
  sent,         \* frames and noise bytes sent
  due,          \* the messages sent and not yet taken in
  noisy,        \* was there noise?
  chunk_lost    \* has the FIFO refused a chunk?

fifo  == <<queue, fifo_out>>
ghost == <<due, noisy, chunk_lost>>
assistantVars == <<wire, fifo, pc, read_length, parameter, update_flag, stray, sent, ghost>>

(* A byte, and whether a frame that was sent starts with it.               *)
Elem == [byte : 0 .. ByteMod - 1, start : BOOLEAN]

Queue == INSTANCE FifoQueue WITH
  Max <- Capacity, MaxCall <- Capacity, Junk <- "junk", out <- fifo_out

-----------------------------------------------------------------------------
(* The upper computer (external).                                          *)
Sum(w) == (w[1].byte + w[2].byte + w[4].byte) % ByteMod

Frame(m) ==
  LET plain(b) == [byte |-> b, start |-> FALSE]
      w == <<[byte |-> HeadByte, start |-> TRUE], plain(m.channel), plain(0), plain(m.data)>>
  IN [w EXCEPT ![3] = plain(Sum(w))]

SendFrame(m) ==
  /\ sent < MaxSent
  /\ sent' = sent + 1
  /\ wire' = wire \o Frame(m)
  /\ due' = Append(due, m)
  /\ UNCHANGED <<fifo, pc, read_length, parameter, update_flag, stray, noisy, chunk_lost>>

SendNoise(b) ==
  /\ sent < MaxSent
  /\ sent' = sent + 1
  /\ wire' = Append(wire, [byte |-> b, start |-> FALSE])
  /\ noisy' = TRUE
  /\ UNCHANGED <<fifo, pc, read_length, parameter, update_flag, stray, due, chunk_lost>>

-----------------------------------------------------------------------------
(* data_analysis: receive.  What fifo_write_buffer returns is ignored.     *)
Local == <<read_length, parameter, update_flag, stray>>

ReceiveChunk ==
  /\ pc = "receive"
  /\ \E k \in 1 .. Capacity :
       /\ k <= Len(wire)
       /\ Queue!Write(SubSeq(wire, 1, k))
       /\ wire' = SubSeq(wire, k + 1, Len(wire))
  /\ chunk_lost' = (chunk_lost \/ fifo_out'.state # "FIFO_SUCCESS")
  /\ pc' = "scan"
  /\ UNCHANGED <<Local, sent, due, noisy>>

(* Nothing has come in: there is nothing to write.                         *)
ReceiveNothing ==
  /\ pc = "receive"
  /\ pc' = "scan"
  /\ UNCHANGED <<wire, fifo, Local, sent, ghost>>

(* An error: -1 as a uint32 is the longest chunk there is, and it is the   *)
(* FIFO that refuses it.                                                   *)
ReceiveError ==
  /\ pc = "receive"
  /\ fifo_out' = Queue!Result("write", << >>, "FIFO_SPACE_NO_ENOUGH", << >>)
  /\ pc' = "scan"
  /\ UNCHANGED <<wire, queue, Local, sent, ghost>>

(* Search while there is a whole frame's length.                           *)
Enough_Strict == FrameLen < Len(queue)
Enough == FrameLen <= Len(queue)

Peek ==
  /\ pc = "scan"
  /\ Enough
  /\ Queue!Read(FrameLen, Queue!Peek)
  /\ pc' = "judge"
  /\ UNCHANGED <<wire, Local, sent, ghost>>

Return ==
  /\ pc = "scan"
  /\ ~Enough
  /\ pc' = "receive"
  /\ UNCHANGED <<wire, fifo, Local, sent, ghost>>

(* Is what was read a frame?                                               *)
SumAgrees(w) == w[3].byte = Sum(w)
IsFrame(w) == w[1].byte = HeadByte /\ SumAgrees(w)

Taken == FrameLen
Skipped == 1

(* The channel indexes the arrays unchecked.                               *)
Stored_Below(c, d) ==
  /\ parameter' = [parameter EXCEPT ![IF c > 1 THEN c - 1 ELSE c] = d]
  /\ update_flag' = [update_flag EXCEPT ![c] = 1]
Stored(c, d) ==
  /\ parameter' = [parameter EXCEPT ![c] = d]
  /\ update_flag' = [update_flag EXCEPT ![c] = 1]

Judge ==
  /\ pc = "judge"
  /\ LET w == fifo_out.data
         c == w[2].byte
     IN IF IsFrame(w)
          THEN /\ read_length' = Taken
               /\ due' = IF due = << >> THEN due ELSE Tail(due)
               /\ IF c \in 1 .. Channels
                    THEN Stored(c, w[4].byte) /\ UNCHANGED stray
                    ELSE stray' = TRUE /\ UNCHANGED <<parameter, update_flag>>
          ELSE /\ read_length' = Skipped
               /\ UNCHANGED <<parameter, update_flag, stray, due>>
  /\ pc' = "discard"
  /\ UNCHANGED <<wire, fifo, sent, noisy, chunk_lost>>

Discard ==
  /\ pc = "discard"
  /\ Queue!Read(read_length, Queue!Clean)
  /\ pc' = "scan"
  /\ UNCHANGED <<wire, Local, sent, ghost>>

Analysis == ReceiveNothing \/ ReceiveError \/ Peek \/ Return \/ Judge \/ Discard

-----------------------------------------------------------------------------
AssistantInit ==
  /\ wire = << >>
  /\ Queue!Init
  /\ pc = "receive"
  /\ read_length = 1
  /\ parameter = [c \in 1 .. Channels |-> 0]
  /\ update_flag = [c \in 1 .. Channels |-> 0]
  /\ stray = FALSE
  /\ sent = 0
  /\ due = << >> /\ noisy = FALSE /\ chunk_lost = FALSE

AssistantNext ==
  \/ \E m \in Messages : SendFrame(m)
  \/ \E b \in Noise : SendNoise(b)
  \/ ReceiveChunk
  \/ Analysis

AssistantSpec == AssistantInit /\ [][AssistantNext]_assistantVars

(* data_analysis is called again and again, and a connection that is up    *)
(* delivers what was sent, between errors and calls that get nothing.      *)
FairSpec == AssistantSpec /\ WF_assistantVars(Analysis) /\ SF_assistantVars(ReceiveChunk)

-----------------------------------------------------------------------------
(* Type invariant.                                                         *)
AssistantTypeOK ==
  /\ wire \in Seq(Elem)
  /\ queue \in Seq(Elem) /\ Len(queue) <= Capacity
  /\ pc \in {"receive", "scan", "judge", "discard"}
  /\ read_length \in 1 .. Capacity
  /\ parameter \in [1 .. Channels -> 0 .. ByteMod - 1]
  /\ update_flag \in [1 .. Channels -> 0 .. 1]
  /\ due \in Seq(Messages)
  /\ {stray, noisy, chunk_lost} \subseteq BOOLEAN

Intact == ~noisy /\ ~chunk_lost

(* A stream of frames alone, cut into chunks anywhere: each parameter that *)
(* is stored is the one set by the oldest message not yet taken in.        *)
StoredInOrder ==
  [][Intact /\ <<parameter, update_flag>>' # <<parameter, update_flag>>
       => /\ due # << >>
          /\ due' = Tail(due)
          /\ parameter' = [parameter EXCEPT ![due[1].channel] = due[1].data]
          /\ update_flag' = [update_flag EXCEPT ![due[1].channel] = 1]]_assistantVars

(* The unchecked index leaves the arrays only after noise or a lost chunk. *)
StrayNeedsDamage == stray => ~Intact

(* Noise before a frame does not cost the frame: what is skipped is never  *)
(* the start of a frame that was sent, until a chunk is lost.              *)
StartsKept ==
  [][pc = "judge" /\ pc' = "discard" /\ ~IsFrame(fifo_out.data) /\ ~chunk_lost
       => \A i \in 1 .. read_length' : ~queue[i].start]_assistantVars

(* Leftovers of a call are shorter than a frame, so that a chunk is lost   *)
(* only when it nearly fills the FIFO.                                     *)
OnlyLongChunksLost ==
  [][~chunk_lost /\ chunk_lost' => Len(wire) - Len(wire') > Capacity - FrameLen + 1]_assistantVars

(* What is stored is what was sent, whatever pieces it came in.            *)
ReceivedAsSent == []StrayNeedsDamage /\ StoredInOrder /\ StartsKept /\ OnlyLongChunksLost

(* Each call of data_analysis returns.                                     *)
CallReturns == pc = "scan" ~> pc = "receive"

(* All messages are taken in, unless there was noise or a lost chunk.      *)
AllTaken == <>[](Intact => due = << >>)
=============================================================================
