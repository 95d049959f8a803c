---------------------------- MODULE ImageClient ----------------------------
(***************************************************************************)
(* How Socket_Tcp.cpp sends pictures and integers over its connection: the *)
(* length in four bytes, then the bytes of the picture, in as many pieces  *)
(* as the connection takes.  Every send may take only a part, or fail; the *)
(* four bytes of a number are taken whole or not at all (bound: a blocking *)
(* socket).  `stream` is what has reached the connection: numbers, and     *)
(* bytes of a picture by their position.                                   *)
(* A definition X_Y is a wrong form of X, used to show that a property     *)
(* depends on X.                                                           *)
(***************************************************************************)
EXTENDS Integers, Sequences

CONSTANTS
  MaxSize,    \* bytes of the largest picture
  MaxCalls    \* bound on the calls

ASSUME ImageAssumption == MaxSize \in Nat /\ MaxCalls \in Nat

VARIABLES
  img_buffer, \* size of the encoded picture
  place,      \* "idle", or where send_img is
  total_sent,
  stream,
  failed,     \* has a send_img or a send_int returned an error?
  img_calls

imageVars == <<img_buffer, place, total_sent, stream, failed, img_calls>>

Number(n) == [is |-> "number", v |-> n]
Byte(i)   == [is |-> "byte", v |-> i]

Begin == place = "idle" /\ img_calls < MaxCalls /\ img_calls' = img_calls + 1

(* img_imencode; an encoder that fails may leave anything behind.          *)
Imencode ==
  /\ Begin
  /\ img_buffer' \in 0 .. MaxSize
  /\ UNCHANGED <<place, total_sent, stream, failed>>

(* send_int, and the length at the beginning of send_img.                  *)
SendInt ==
  /\ Begin
  /\ \E taken \in BOOLEAN :
       /\ stream' = IF taken THEN Append(stream, Number(-1)) ELSE stream
       /\ failed' = (failed \/ ~taken)
  /\ UNCHANGED <<img_buffer, place, total_sent>>

SendLength ==
  /\ Begin
  /\ \E taken \in BOOLEAN :
       /\ stream' = IF taken THEN Append(stream, Number(img_buffer)) ELSE stream
       /\ failed' = (failed \/ ~taken)
       /\ place' = IF taken THEN "pieces" ELSE "idle"
  /\ total_sent' = 0
  /\ UNCHANGED img_buffer

(* One pass of the loop of send_img.                                       *)
Piece_FromStart(n) == [i \in 1 .. n |-> Byte(i)]
Piece(n) == [i \in 1 .. n |-> Byte(total_sent + i)]

SendPiece ==
  /\ place = "pieces"
  /\ total_sent < img_buffer
  /\ \E n \in 0 .. img_buffer - total_sent :
       /\ stream' = stream \o Piece(n)
       /\ total_sent' = total_sent + n
       /\ failed' = (failed \/ n = 0)
       /\ place' = IF n = 0 THEN "idle" ELSE place
  /\ UNCHANGED <<img_buffer, img_calls>>

LoopOver == total_sent >= img_buffer
SendReturns ==
  /\ place = "pieces"
  /\ LoopOver
  /\ place' = "idle"
  /\ UNCHANGED <<img_buffer, total_sent, stream, failed, img_calls>>

ImageInit ==
  /\ img_buffer = 0
  /\ place = "idle"
  /\ total_sent = 0
  /\ stream = <<>>
  /\ failed = FALSE
  /\ img_calls = 0

ImageNext == Imencode \/ SendInt \/ SendLength \/ SendPiece \/ SendReturns

ImageSpec == ImageInit /\ [][ImageNext]_imageVars /\ WF_imageVars(SendPiece \/ SendReturns)

-----------------------------------------------------------------------------
(* The receiver (external): a number that is not -1 is a length, and that  *)
(* many bytes in order follow it; the rest at the end may be on its way.   *)
Announces(x) == IF x.v = -1 THEN 0 ELSE x.v

Readable(s) ==
  \A i \in DOMAIN s :
    \/ /\ s[i].is = "number"
       /\ \A j \in 1 .. Announces(s[i]) : i + j \in DOMAIN s => s[i + j] = Byte(j)
    \/ /\ s[i].is = "byte"
       /\ \E k \in 1 .. i - 1 :
            s[i] = Byte(k) /\ s[i - k].is = "number" /\ k <= Announces(s[i - k])

(* However the connection cuts the pictures, as long as no call has failed *)
(* the receiver finds each of them whole and in order behind its length.   *)
PicturesArriveWhole == ~failed => Readable(stream)

(* send_img returns: every pass sends something or gives up.               *)
SendImgReturns == place = "pieces" ~> place = "idle"
=============================================================================
