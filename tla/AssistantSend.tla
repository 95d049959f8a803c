---------------------------- MODULE AssistantSend ----------------------------
(***************************************************************************)
(* How seekfree_assistant.cpp sends pictures, boundary lines and           *)
(* oscilloscope samples to the upper computer, over the weak default       *)
(* transport, the TCP client or the UDP client.                            *)
(*                                                                         *)
(* A call hands the transport one piece after the other (a header, a       *)
(* picture, an array of coordinates).  `to_send` is what the running call  *)
(* has still to hand over, `taken` the pieces of the last call with the    *)
(* bytes the transport took of each.                                       *)
(***************************************************************************)
EXTENDS Integers, Sequences

CONSTANTS
  Types,      \* of pictures: among BINARY, GRAY and RGB565
  Sizes,      \* width and height of the pictures
  NULL,
  Boundaries, \* what a caller configures: [kind, x, y], three arrays each, or NULL
  DotNums,    \* points of a boundary
  SumMod,     \* 256, of the sum
  Samples,    \* values of an oscilloscope channel
  MaxChannels,\* 8
  MaxSendCalls    \* bound on the calls in a run

(* The points, and the bytes of a picture, are counted without overflow.   *)
ASSUME SendAssumption ==
  /\ \A s \in Sizes : s[1] \in Nat /\ s[2] \in Nat
  /\ DotNums \subseteq Nat
  /\ Samples \subseteq Int /\ SumMod \in Nat \ {0} /\ MaxChannels \in 1 .. 8

VARIABLES
  transfer,   \* seekfree_assistant_transfer_callback
  camera,     \* seekfree_assistant_camera_buffer without the boundaries
  dot,        \* seekfree_assistant_camera_dot_data
  boundary_x, boundary_y,
  scope,      \* an oscilloscope structure of the caller
  to_send, taken,
  whole,      \* did the transport take every byte of the call?
  given,      \* the arrays of the last boundary_config, in order
  configs,    \* how often boundary_config was called
  send_calls

settings == <<camera, dot, boundary_x, boundary_y, given, configs>>
sendVars == <<transfer, settings, scope, to_send, taken, whole, send_calls>>

Slot == 0 .. 7
SendIdle == to_send = <<>>

(* The sum of the first n values of f.                                     *)
Total(f, n) ==
  LET sum[k \in 0 .. n] == IF k = 0 THEN 0 ELSE sum[k - 1] + f[k]
  IN  sum[n]

(* A call begins: nothing of the call before it is looked at any more.     *)
SendBegins ==
  /\ SendIdle
  /\ send_calls < MaxSendCalls
  /\ send_calls' = send_calls + 1
  /\ taken' = <<>>
  /\ whole' = TRUE

-----------------------------------------------------------------------------
(* seekfree_assistant_interface_init.                                      *)
InterfaceInit ==
  /\ SendBegins
  /\ \E t \in {"tcp", "udp"} : transfer' = t
  /\ UNCHANGED <<settings, scope, to_send>>

InformationConfig ==
  /\ SendBegins
  /\ \E t \in Types, s \in Sizes, a \in {NULL, "picture"} :
       camera' = [type |-> t, addr |-> a, width |-> s[1], height |-> s[2]]
  /\ UNCHANGED <<transfer, dot, boundary_x, boundary_y, given, configs, scope, to_send>>

(* The three pairs of array arguments; the pairs that are used.            *)
Used(kind, x, y) ==
  {k \in 1 .. 3 : CASE kind = "X_BOUNDARY" -> x[k] # NULL
                    [] kind = "Y_BOUNDARY" -> y[k] # NULL
                    [] kind = "XY_BOUNDARY" -> x[k] # NULL /\ y[k] # NULL
                    [] OTHER -> FALSE}

(* Where the n-th used array is kept: the loop that clears the slots 0, 1  *)
(* and 2 leaves i at 3.                                                    *)
FirstSlot == 3
Cleared(slots) == [i \in Slot |-> IF i < 3 THEN NULL ELSE slots[i]]
Kept(slots, arrays) ==
  [i \in Slot |-> IF i - FirstSlot + 1 \in DOMAIN arrays THEN arrays[i - FirstSlot + 1]
                  ELSE Cleared(slots)[i]]

Wide(kind) ==
  \/ kind \in {"X_BOUNDARY", "XY_BOUNDARY"} /\ camera.height > 255
  \/ kind \in {"Y_BOUNDARY", "XY_BOUNDARY"} /\ camera.width > 255

ArrayOf(a, used, k) == IF k \in used THEN <<a[k]>> ELSE <<>>
ArraysOf(a, used) == ArrayOf(a, used, 1) \o ArrayOf(a, used, 2) \o ArrayOf(a, used, 3)

BoundaryConfig ==
  /\ SendBegins
  /\ \E b \in Boundaries, n \in DotNums :
       LET used == Used(b.kind, b.x, b.y)
           xs == IF b.kind = "Y_BOUNDARY" THEN <<>> ELSE ArraysOf(b.x, used)
           ys == IF b.kind = "X_BOUNDARY" THEN <<>> ELSE ArraysOf(b.y, used)
       IN  /\ dot' = [kind |-> b.kind, wide |-> Wide(b.kind),
                      num |-> Len(IF xs = <<>> THEN ys ELSE xs), dot_num |-> n]
           /\ boundary_x' = Kept(boundary_x, xs)
           /\ boundary_y' = Kept(boundary_y, ys)
           /\ given' = [x |-> xs, y |-> ys]
  /\ configs' = configs + 1
  /\ UNCHANGED <<transfer, camera, scope, to_send>>

-----------------------------------------------------------------------------
(* What camera_send hands over.                                            *)
CameraHeader == 8
DotHeader == 8

ImageSize(c) ==
  CASE c.type = "BINARY" -> (c.width * c.height) \div 8
    [] c.type = "GRAY" -> c.width * c.height
    [] c.type = "RGB565" -> c.width * c.height * 2
    [] OTHER -> 0

Block(is, content, bytes) == [is |-> is, content |-> content, bytes |-> bytes]

CameraData ==
  <<Block("camera", [camera |-> camera, num |-> dot.num], CameraHeader)>>
    \o (IF camera.addr = NULL THEN <<>> ELSE <<Block("image", camera.addr, ImageSize(camera))>>)

DotBytes == IF dot.wide THEN dot.dot_num * 2 ELSE dot.dot_num

DotsOf(i) ==
  (IF boundary_x[i] = NULL THEN <<>> ELSE <<Block("array", boundary_x[i], DotBytes)>>)
    \o (IF boundary_y[i] = NULL THEN <<>> ELSE <<Block("array", boundary_y[i], DotBytes)>>)

Coordinates ==
  DotsOf(0) \o DotsOf(1) \o DotsOf(2) \o DotsOf(3)
    \o DotsOf(4) \o DotsOf(5) \o DotsOf(6) \o DotsOf(7)

CameraDots == <<Block("dots", dot, DotHeader)>> \o Coordinates

Picture == CameraData \o (IF dot.num # 0 THEN CameraDots ELSE <<>>)

CameraSend ==
  /\ SendBegins
  /\ camera.type # "none"     \* to be set up before, see the comment above the function
  /\ to_send' = Picture
  /\ UNCHANGED <<transfer, settings, scope>>

-----------------------------------------------------------------------------
(* The oscilloscope: the function's four bits share a byte with the number *)
(* of channels, in the caller's structure.                                 *)
PacketSize(channels) == 4 + 4 * channels

SumOf(s) == (170 + s.function * 16 + s.channels + s.check_sum + s.length
               + Total(s.data, s.channels)) % SumMod

Checked_NotCleared(s) == [s EXCEPT !.check_sum = SumOf(s)]
Checked(s) == [s EXCEPT !.check_sum = SumOf([s EXCEPT !.check_sum = 0])]

Prepared(s) == Checked([s EXCEPT !.function = 1, !.length = PacketSize(s.channels)])

OscilloscopeSend ==
  /\ SendBegins
  /\ scope' = Prepared(scope)
  /\ to_send' = <<Block("scope", scope', PacketSize(scope.channels))>>
  /\ UNCHANGED <<transfer, settings>>

(* The caller fills in its samples before it sends.                        *)
FillScope ==
  /\ SendBegins
  /\ \E n \in 1 .. MaxChannels, d \in [1 .. MaxChannels -> Samples] :
       scope' = [scope EXCEPT !.function = 0, !.channels = n, !.data = d]
  /\ UNCHANGED <<transfer, settings, to_send>>

-----------------------------------------------------------------------------
(* One call of the transfer function: the bytes it takes.  The default     *)
(* takes none; a UDP datagram goes as a whole or not at all; a TCP socket  *)
(* that does not block takes some, or none.  What the function returns is  *)
(* not looked at.                                                          *)
Accepted(piece) ==
  CASE transfer = "none" -> {0}
    [] transfer = "udp" -> {0, piece.bytes}
    [] transfer = "tcp" -> {0, piece.bytes \div 2, piece.bytes}

Transfer ==
  /\ ~SendIdle
  /\ \E n \in Accepted(Head(to_send)) :
       /\ taken' = Append(taken, [Head(to_send) EXCEPT !.bytes = n])
       /\ whole' = (whole /\ n = Head(to_send).bytes)
  /\ to_send' = Tail(to_send)
  /\ UNCHANGED <<transfer, settings, scope, send_calls>>

-----------------------------------------------------------------------------
SendInit ==
  /\ transfer = "none"
  /\ camera = [type |-> "none", addr |-> NULL, width |-> 0, height |-> 0]
  /\ dot = [kind |-> "X_BOUNDARY", wide |-> FALSE, num |-> 0, dot_num |-> 0]
  /\ boundary_x = [i \in Slot |-> NULL]
  /\ boundary_y = [i \in Slot |-> NULL]
  /\ given = [x |-> <<>>, y |-> <<>>]
  /\ configs = 0
  /\ scope = [function |-> 0, channels |-> 1, check_sum |-> 0, length |-> 0,
              data |-> [i \in 1 .. MaxChannels |-> 0]]
  /\ to_send = <<>>
  /\ taken = <<>>
  /\ whole = TRUE
  /\ send_calls = 0

SendNext ==
  \/ InterfaceInit \/ InformationConfig \/ BoundaryConfig \/ CameraSend
  \/ OscilloscopeSend \/ FillScope \/ Transfer

SendSpec == SendInit /\ [][SendNext]_sendVars

-----------------------------------------------------------------------------
(* The upper computer (external): how it reads what camera_send sent, from *)
(* the comments on the two headers.                                        *)
Bytes(s) == Total([k \in DOMAIN s |-> s[k].bytes], Len(s))
Lines(d) == d.num * (IF d.kind = "XY_BOUNDARY" THEN 2 ELSE 1)

CameraOnWire == taken # <<>> /\ taken[1].is = "camera"

Announced ==
  LET c == taken[1].content.camera
      image == IF c.addr = NULL THEN 0 ELSE ImageSize(c)
  IN  IF taken[1].content.num = 0 THEN image
      ELSE image + DotHeader + Lines(dot) * dot.dot_num * (IF dot.wide THEN 2 ELSE 1)

(* The pieces of a picture that the transport took whole add up to what    *)
(* the headers announce, so that the reader finds the next header where it *)
(* looks for it: as long as the boundaries were configured once only.      *)
PictureMatchesHeaders ==
  (SendIdle /\ whole /\ CameraOnWire /\ configs <= 1) => Bytes(Tail(taken)) = Announced

(* The arrays that go out with a picture.                                  *)
SentArrays ==
  LET arrays == SelectSeq(taken, LAMBDA p : p.is = "array")
  IN  [i \in DOMAIN arrays |-> arrays[i].content]

GivenArrays ==
  LET From(i) == (IF i \in DOMAIN given.x THEN <<given.x[i]>> ELSE <<>>)
                   \o (IF i \in DOMAIN given.y THEN <<given.y[i]>> ELSE <<>>)
  IN  From(1) \o From(2) \o From(3)

(* The comment of boundary_config says that a boundary whose array is NULL *)
(* is not sent (seekfree_assistant.cpp:245): the arrays that go out are    *)
(* those of the last configuration.                                        *)
OnlyGivenArraysSent == (SendIdle /\ CameraOnWire) => SentArrays = GivenArrays

(* Every oscilloscope packet carries the sum of its own bytes, also when   *)
(* the caller sends the same structure again, and the length its number of *)
(* channels asks for.                                                      *)
ScopePacketValid ==
  \A i \in DOMAIN taken :
    taken[i].is = "scope" =>
      LET s == taken[i].content
      IN  /\ s.check_sum = SumOf([s EXCEPT !.check_sum = 0])
          /\ s.length = PacketSize(s.channels) /\ s.function = 1

(* What the assistant sends agrees with what it announces: the pieces of a *)
(* picture with their headers, the oscilloscope's packets with their sums. *)
SentAsAnnounced == PictureMatchesHeaders /\ ScopePacketValid
=============================================================================
