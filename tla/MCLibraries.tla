---------------------------- MODULE MCLibraries ----------------------------
(***************************************************************************)
(* The libraries the program is built on: the assistant's receiving and    *)
(* sending, the conversions, descriptors and the periodic timer, and the   *)
(* image client.  They share no state; a behaviour is one of `part`, and   *)
(* the other parts stay as they begin.                                     *)
(***************************************************************************)
EXTENDS PeriodicTimer, Descriptors, Assistant, AssistantSend, ImageClient,
        ConversionCalls
CONSTANTS t1, t2, line1

VARIABLE part

-----------------------------------------------------------------------------
(* Assistant: bytes below 4; the head byte is also a channel and a value,  *)
(* so that a frame may hold what looks like a head.                        *)
SomeMessages == {[channel |-> 1, data |-> 1], [channel |-> 2, data |-> 3]}

(* AssistantSend: a picture higher than a byte counts, so that some        *)
(* boundaries are wide.                                                    *)
B(kind, x, y) == [kind |-> kind, x |-> x, y |-> y]
NoArrays == <<NULL, NULL, NULL>>
SomeBoundaries ==
  {B("X_BOUNDARY", <<line1, NULL, NULL>>, NoArrays), B("X_BOUNDARY", <<line1, line1, line1>>, NoArrays),
   B("Y_BOUNDARY", NoArrays, <<line1, NULL, line1>>),
   B("XY_BOUNDARY", <<NULL, line1, line1>>, <<NULL, line1, line1>>), B("NO_BOUNDARY", NoArrays, NoArrays)}

SomeSizes == {<<8, 300>>}

(* ConversionCalls: 12 bits, thousandths, of which some are exact in binary *)
(* and some are not; texts with signs, blanks, too many decimals, without  *)
(* digits, and with other letters.                                         *)
MostNegative == -2048
SomeNumbers == -130 .. 130 \cup {MostNegative, MostNegative + 1, 2047, 2046, 4095} \cup -1001 .. -999 \cup 999 .. 1001
SomeReals == {125 * k : k \in -18 .. 18} \cup {100 * k + 5 : k \in {-11, -1, 0, 1, 11}}
               \cup {1150, -19999, 45678}
SomeTexts ==
  {<<>>, <<45>>, <<43, 49>>, <<45, 49, 46, 53>>, <<32, 50>>, <<46, 53>>,
   <<48, 48, 120, 49, 71>>, <<120, 48>>, <<48, 120, 65, 102, 48, 120>>, <<49, 50, 46>>,
   <<45, 48, 46, 50, 53>>, <<49, 46, 57, 57, 57, 57, 57>>}
Item(as, arg) == [as |-> as, arg |-> arg]
SomeFormats ==
  {<<Item("d", n), Item("literal", 32), Item("u", IF n < 0 THEN 0 ELSE n), Item("%", 0)>> :
     n \in {0, 7, -7, 10, -120, 2047, MostNegative}}
    \cup {<<Item("f", x), Item("a", 0)>> : x \in SomeReals}
    \cup {<<Item("x", n), Item("o", n), Item("s", <<65, 66>>), Item("p", n), Item("c", 66)>> :
            n \in {0, 1, 15, 16, 255, 4095}}

(* Descriptors: two drivers at a time, four numbers.                       *)
Pairs == {{"tcp", "image"}, {"sensor", "image"}, {"sensor", "gpio"}, {"echo", "gpio"},
          {"tcp", "udp"}, {"echo", "image"}}

-----------------------------------------------------------------------------
Parts == {"receive", "send", "convert", "files", "timer", "client"}

all == <<part, assistantVars, sendVars, convertVars, filesVars, vars, imageVars>>

LibInit ==
  /\ part \in Parts
  /\ AssistantInit /\ SendInit /\ ConvertInit
  /\ FilesInit /\ (part # "files" => drivers = {"tcp", "udp"})
  /\ Init /\ ImageInit

(* The other parts stay as they are.                                       *)
Still(p, q, v) == IF p = q THEN TRUE ELSE UNCHANGED v
AllBut(p) ==
  /\ part = p
  /\ UNCHANGED part
  /\ Still(p, "receive", assistantVars)
  /\ Still(p, "send", sendVars)
  /\ Still(p, "convert", convertVars)
  /\ Still(p, "files", filesVars)
  /\ Still(p, "timer", vars)
  /\ Still(p, "client", imageVars)

LibNext ==
  \/ AllBut("receive") /\ AssistantNext
  \/ AllBut("send") /\ SendNext
  \/ AllBut("convert") /\ ConvertNext
  \/ AllBut("files") /\ FilesNext
  \/ AllBut("timer") /\ Next
  \/ AllBut("client") /\ ImageNext

(* The fairness of the parts, see there; the other parts stay as they are  *)
(* in every step of LibNext.                                               *)
LibFairness ==
  /\ WF_assistantVars(part = "receive" /\ Analysis)
  /\ SF_assistantVars(part = "receive" /\ ReceiveChunk)
  /\ WF_convertVars(part = "convert" /\ Run)
  /\ WF_filesVars(part = "files" /\ (Reader \/ VlStopClose) /\ UNCHANGED drivers)
  /\ WF_vars(part = "timer" /\ (Loop(t1) \/ Joined(t1)))
  /\ WF_vars(part = "timer" /\ (Loop(t2) \/ Joined(t2)))
  /\ WF_imageVars(part = "client" /\ (SendPiece \/ SendReturns))

LibSpec == LibInit /\ [][LibNext]_all /\ LibFairness

-----------------------------------------------------------------------------
(* The properties of the parts, under the names they have there;           *)
(* NoCallAfterEnd and KeepsCalling are those of PeriodicTimer,             *)
(* DescriptorsOwn and NothingLeaks those of Descriptors, ReceivedAsSent    *)
(* and AllTaken those of Assistant, SentAsAnnounced that of AssistantSend, *)
(* PicturesArriveWhole that of ImageClient, ResultsRight that of           *)
(* ConversionCalls.                                                        *)

(* Every call that loops or waits returns: data_analysis, the conversions  *)
(* (but the divisor of zero), vl53l0xStop, ~Pit_timer, send_img.           *)
LibraryCallsReturn ==
  /\ CallReturns /\ CallsReturn /\ StopReturns
  /\ DestructorReturns /\ SendImgReturns
=============================================================================
