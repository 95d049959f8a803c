------------------------- MODULE Libraries_proofs --------------------------
(***************************************************************************)
(* The timers, any number of them, made and stopped in any order; the      *)
(* descriptors, any number of them, with any drivers used together; the    *)
(* assistant's receiving, of any messages in chunks cut anywhere; the      *)
(* image client, with pictures of any size in pieces of any sizes; and the *)
(* assistant's sending, of any pictures, boundaries and samples.           *)
(***************************************************************************)
EXTENDS PeriodicTimer, Descriptors, Assistant, ImageClient, AssistantSend,
        WellFoundedInduction, SequenceTheorems, TLAPS

Places == {"none", "test", "sleep", "woken", "callback"}
Lives  == {"none", "alive", "stopping", "gone"}

TimerTypeOK ==
  /\ thread \in [Timers -> Places]
  /\ running \in [Timers -> BOOLEAN]
  /\ object \in [Timers -> Lives]

(* What the join waits for stays so: a thread is there only while there is *)
(* an object, and the flag is up just as long as nobody has stopped it.    *)
ThreadHasObject == \A t \in Timers : object[t] \in {"none", "gone"} => thread[t] = "none"
FlagFollowsObject == \A t \in Timers : running[t] <=> object[t] = "alive"

TimerIInv == TimerTypeOK /\ ThreadHasObject /\ FlagFollowsObject

(* A construction starts the thread of a timer that had none.              *)
LEMMA ConstructKeeps ==
  ASSUME TimerIInv, NEW t \in Timers, Construct(t)
  PROVE  TimerIInv'
<1>1. /\ object' = [object EXCEPT ![t] = "alive"]
      /\ running' = [running EXCEPT ![t] = TRUE]
      /\ thread' = [thread EXCEPT ![t] = "test"]
  BY DEF Construct
<1>2. TimerTypeOK'
  BY <1>1 DEF TimerIInv, TimerTypeOK, Places, Lives
<1>3. ThreadHasObject'
  BY <1>1 DEF TimerIInv, TimerTypeOK, ThreadHasObject
<1>4. FlagFollowsObject'
  <2> SUFFICES ASSUME NEW u \in Timers
               PROVE  running'[u] <=> object'[u] = "alive"
    BY DEF FlagFollowsObject
  <2>1. CASE u = t
    BY <1>1, <2>1 DEF TimerIInv, TimerTypeOK
  <2>2. CASE u # t
    <3>1. running'[u] = running[u] /\ object'[u] = object[u]
      BY <1>1, <2>2 DEF TimerIInv, TimerTypeOK
    <3> QED
      BY <3>1 DEF TimerIInv, FlagFollowsObject
  <2> QED
    BY <2>1, <2>2
<1> QED
  BY <1>2, <1>3, <1>4 DEF TimerIInv

(* A pass of the loop moves a thread that is there.                        *)
LEMMA LoopKeeps ==
  ASSUME TimerIInv, NEW t \in Timers, Loop(t)
  PROVE  TimerIInv'
<1>1. PICK p \in Places : thread' = [thread EXCEPT ![t] = p]
  BY DEF Loop, LoopTest, Wake, SecondTest, CallbackReturns, Places
<1>2. UNCHANGED <<running, object>> /\ thread[t] # "none"
  BY DEF Loop, LoopTest, Wake, SecondTest, CallbackReturns
<1>3. TimerTypeOK'
  BY <1>1, <1>2 DEF TimerIInv, TimerTypeOK
<1>4. ThreadHasObject'
  BY <1>1, <1>2 DEF TimerIInv, TimerTypeOK, ThreadHasObject
<1>5. FlagFollowsObject'
  BY <1>2 DEF TimerIInv, FlagFollowsObject
<1> QED
  BY <1>3, <1>4, <1>5 DEF TimerIInv

(* The destructor's first step clears the flag and keeps the object.       *)
LEMMA StopKeeps ==
  ASSUME TimerIInv, NEW t \in Timers, Stop(t)
  PROVE  TimerIInv'
<1>1. /\ object[t] = "alive" /\ object' = [object EXCEPT ![t] = "stopping"]
      /\ running' = [running EXCEPT ![t] = FALSE]
      /\ UNCHANGED thread
  BY DEF Stop
<1>2. TimerTypeOK'
  BY <1>1 DEF TimerIInv, TimerTypeOK, Lives
<1>3. ThreadHasObject'
  BY <1>1 DEF TimerIInv, TimerTypeOK, ThreadHasObject
<1>4. FlagFollowsObject'
  <2> SUFFICES ASSUME NEW u \in Timers
               PROVE  running'[u] <=> object'[u] = "alive"
    BY DEF FlagFollowsObject
  <2>1. CASE u = t
    BY <1>1, <2>1 DEF TimerIInv, TimerTypeOK
  <2>2. CASE u # t
    <3>1. running'[u] = running[u] /\ object'[u] = object[u]
      BY <1>1, <2>2 DEF TimerIInv, TimerTypeOK
    <3> QED
      BY <3>1 DEF TimerIInv, FlagFollowsObject
  <2> QED
    BY <2>1, <2>2
<1> QED
  BY <1>2, <1>3, <1>4 DEF TimerIInv

(* The object goes when its thread has gone.                               *)
LEMMA JoinedKeeps ==
  ASSUME TimerIInv, NEW t \in Timers, Joined(t)
  PROVE  TimerIInv'
<1>1. /\ object[t] = "stopping" /\ thread[t] = "none"
      /\ object' = [object EXCEPT ![t] = "gone"]
      /\ UNCHANGED <<thread, running>>
  BY DEF Joined
<1>2. TimerTypeOK' /\ ThreadHasObject'
  BY <1>1 DEF TimerIInv, TimerTypeOK, ThreadHasObject, Lives
<1>3. FlagFollowsObject'
  <2> SUFFICES ASSUME NEW u \in Timers
               PROVE  running[u] <=> object'[u] = "alive"
    BY <1>1 DEF FlagFollowsObject
  <2>1. object'[u] = "alive" <=> object[u] = "alive"
    BY <1>1 DEF TimerIInv, TimerTypeOK
  <2> QED
    BY <2>1 DEF TimerIInv, FlagFollowsObject
<1> QED
  BY <1>2, <1>3 DEF TimerIInv

(* The thread of a timer whose destructor has returned runs no more.       *)
THEOREM DestroyedCallsNoMore == Spec => []NoCallAfterEnd
<1>1. Init => TimerIInv
  BY DEF Init, TimerIInv, TimerTypeOK, ThreadHasObject, FlagFollowsObject, Places, Lives
<1>2. TimerIInv /\ [Next]_vars => TimerIInv'
  <2> SUFFICES ASSUME TimerIInv, [Next]_vars
               PROVE  TimerIInv'
    OBVIOUS
  <2>1. CASE New
    BY <2>1, ConstructKeeps DEF New
  <2>2. CASE PitMsInit
    BY <2>2, ConstructKeeps DEF PitMsInit
  <2>3. CASE \E t \in Timers : Loop(t) \/ Stop(t) \/ Joined(t)
    BY <2>3, LoopKeeps, StopKeeps, JoinedKeeps
  <2>4. CASE UNCHANGED vars
    BY <2>4 DEF vars, TimerIInv, TimerTypeOK, ThreadHasObject, FlagFollowsObject
  <2> QED
    BY <2>1, <2>2, <2>3, <2>4 DEF Next
<1>3. TimerIInv => NoCallAfterEnd
  BY DEF TimerIInv, ThreadHasObject, NoCallAfterEnd
<1> QED
  BY <1>1, <1>2, <1>3, PTL DEF Spec
-----------------------------------------------------------------------------
FilesTypeOK ==
  /\ table \in [Numbers -> Owner]
  /\ {tcp, udp, sock, sensor_fd, echo, gpio} \subseteq Numbers \cup {-1}
  /\ image \in {"none", "made", "connected", "refused"}
  /\ thread_running \in BOOLEAN /\ stopping \in BOOLEAN
  /\ reader \in {"none", "test", "measure"}
  /\ careful \in BOOLEAN

(* When a number that a driver has kept still means its own file: this,    *)
(* and not the number itself, is what a careful caller goes by.            *)
TcpHeld    == "tcp" \in initialised => OwnerOf(tcp) = "tcp"
UdpHeld    == "udp" \in initialised => OwnerOf(udp) = "udp"
ImageHeld  == image \in {"made", "connected"} => sock = -1 \/ OwnerOf(sock) = "image"
SensorHeld == thread_running \/ stopping => OwnerOf(sensor_fd) = "sensor"
EchoHeld   == echo # 0 => OwnerOf(echo) = "echo"
GpioHeld   == gpio # -1 => OwnerOf(gpio) = "gpio"
AllHeld == TcpHeld /\ UdpHeld /\ ImageHeld /\ SensorHeld /\ EchoHeld /\ GpioHeld

(* The read thread runs within the time its descriptor is held, and the    *)
(* flag is down while vl53l0xStop waits for it.                            *)
ReaderInTime ==
  /\ reader # "none" => thread_running \/ stopping
  /\ stopping => ~thread_running

FilesIInv ==
  /\ FilesTypeOK /\ ReaderInTime /\ DescriptorsOwn
  /\ careful => AllHeld

(* A step leaves the files of one owner as they are.                       *)
KeepsNumbers(owner) == \A n \in Numbers : table[n] = owner => table'[n] = owner

(* The kernel's choice: where a number is free there is a lowest one.      *)
LEMMA LowestIsFree ==
  ASSUME table \in [Numbers -> Owner], HasRoom
  PROVE  Lowest \in Numbers /\ table[Lowest] = Free
<1> DEFINE FreeOnes == {n \in Numbers : table[n] = Free}
<1>1. FreeOnes \subseteq Nat /\ FreeOnes # {}
  BY DescriptorsAssumption DEF HasRoom, Numbers
<1>2. PICK n \in FreeOnes : \A m \in FreeOnes : ~(<<m, n>> \in OpToRel(<, Nat))
  BY <1>1, WFMin, NatLessThanWellFounded, Zenon
<1>3. \A m \in FreeOnes : ~(m < n)
  BY <1>1, <1>2 DEF OpToRel
<1>4. n \in Numbers /\ table[n] = Free /\ \A m \in 0 .. n - 1 : table[m] # Free
  BY <1>3, DescriptorsAssumption DEF Numbers
<1> QED
  BY <1>4 DEF Lowest

(* Opening gives out a number nobody had, and takes none away.             *)
LEMMA OpenedGives ==
  ASSUME table \in [Numbers -> Owner], HasRoom, NEW owner \in Owner
  PROVE  /\ Lowest \in Numbers
         /\ Opened(owner) \in [Numbers -> Owner]
         /\ Opened(owner)[Lowest] = owner
         /\ \A n \in Numbers : table[n] # Free => Opened(owner)[n] = table[n]
<1>1. Lowest \in Numbers /\ table[Lowest] = Free
  BY LowestIsFree
<1> QED
  BY <1>1 DEF Opened

(* Closing takes away one number, and from nobody but the one who has it.  *)
LEMMA ClosedTakes ==
  ASSUME table \in [Numbers -> Owner], NEW n
  PROVE  /\ Closed(n) \in [Numbers -> Owner]
         /\ \A m \in Numbers : table[m] # OwnerOf(n) => Closed(n)[m] = table[m]
<1>1. \A m \in Numbers : Closed(n)[m] = IF m = n THEN Free ELSE table[m]
  BY DEF Closed
<1>2. Closed(n) \in [Numbers -> Owner]
  BY DEF Closed, Owner
<1> QED
  BY <1>1, <1>2 DEF OwnerOf

(* A driver whose numbers a step neither changes nor closes holds them on. *)
LEMMA HeldOn ==
  ASSUME FilesTypeOK
  PROVE  /\ TcpHeld /\ KeepsNumbers("tcp") /\ UNCHANGED tcp
              /\ ("tcp" \in initialised' => "tcp" \in initialised) => TcpHeld'
         /\ UdpHeld /\ KeepsNumbers("udp") /\ UNCHANGED udp
              /\ ("udp" \in initialised' => "udp" \in initialised) => UdpHeld'
         /\ ImageHeld /\ KeepsNumbers("image") /\ UNCHANGED <<sock, image>> => ImageHeld'
         /\ SensorHeld /\ KeepsNumbers("sensor") /\ UNCHANGED sensor_fd
              /\ (thread_running' \/ stopping' => thread_running \/ stopping) => SensorHeld'
         /\ EchoHeld /\ KeepsNumbers("echo") /\ UNCHANGED echo => EchoHeld'
         /\ GpioHeld /\ KeepsNumbers("gpio") /\ UNCHANGED gpio => GpioHeld'
<1>1. Free \notin {"tcp", "udp", "image", "sensor", "echo", "gpio"}
  BY DEF Free
<1>2. TcpHeld /\ KeepsNumbers("tcp") /\ UNCHANGED tcp
        /\ ("tcp" \in initialised' => "tcp" \in initialised) => TcpHeld'
  BY <1>1 DEF TcpHeld, KeepsNumbers, OwnerOf
<1>3. UdpHeld /\ KeepsNumbers("udp") /\ UNCHANGED udp
        /\ ("udp" \in initialised' => "udp" \in initialised) => UdpHeld'
  BY <1>1 DEF UdpHeld, KeepsNumbers, OwnerOf
<1>4. ImageHeld /\ KeepsNumbers("image") /\ UNCHANGED <<sock, image>> => ImageHeld'
  BY <1>1 DEF ImageHeld, KeepsNumbers, OwnerOf
<1>5. SensorHeld /\ KeepsNumbers("sensor") /\ UNCHANGED sensor_fd
        /\ (thread_running' \/ stopping' => thread_running \/ stopping) => SensorHeld'
  BY <1>1 DEF SensorHeld, KeepsNumbers, OwnerOf
<1>6. EchoHeld /\ KeepsNumbers("echo") /\ UNCHANGED echo => EchoHeld'
  BY <1>1 DEF EchoHeld, KeepsNumbers, OwnerOf
<1>7. GpioHeld /\ KeepsNumbers("gpio") /\ UNCHANGED gpio => GpioHeld'
  BY <1>1 DEF GpioHeld, KeepsNumbers, OwnerOf
<1> QED
  BY <1>2, <1>3, <1>4, <1>5, <1>6, <1>7
(* The calls that open a file and may shut it again: what they do to the   *)
(* table, whatever the outcome.                                            *)
LEMMA OpeningIsClean ==
  ASSUME FilesTypeOK, NEW owner \in Owner,
         table' = IF HasRoom THEN Opened(owner) ELSE table
  PROVE  /\ table' \in [Numbers -> Owner]
         /\ \A o \in Owner \ {Free} : KeepsNumbers(o)
         /\ HasRoom => Lowest \in Numbers /\ table'[Lowest] = owner
<1>1. CASE HasRoom
  BY <1>1, OpenedGives DEF FilesTypeOK, KeepsNumbers
<1>2. CASE ~HasRoom
  BY <1>2 DEF FilesTypeOK, KeepsNumbers
<1> QED
  BY <1>1, <1>2

(* tcp_client_init and udp_init.                                           *)
LEMMA SocketsOpened ==
  ASSUME FilesIInv, TcpInit \/ UdpInit
  PROVE  FilesIInv'
<1>1. CASE TcpInit
  <2>1. PICK connected \in BOOLEAN :
          /\ table' = IF HasRoom THEN Opened(Shut("tcp", connected)) ELSE table
          /\ initialised' = Listed("tcp", HasRoom /\ connected)
          /\ Returns("tcp_init", HasRoom /\ connected, "tcp")
    BY <1>1 DEF TcpInit
  <2>2. /\ tcp' = IF HasRoom THEN Lowest ELSE -1
        /\ UNCHANGED <<udp, sock, image, ranging, others, careful>>
    BY <1>1 DEF TcpInit
  <2>3. Shut("tcp", connected) \in Owner
    BY DEF Shut, Owner
  <2>4. /\ table' \in [Numbers -> Owner]
        /\ \A o \in Owner \ {Free} : KeepsNumbers(o)
        /\ HasRoom => Lowest \in Numbers /\ table'[Lowest] = Shut("tcp", connected)
    BY <2>1, <2>3, OpeningIsClean DEF FilesIInv
  <2>5. FilesTypeOK' /\ ReaderInTime' /\ DescriptorsOwn'
    <3>1. FilesTypeOK'
      BY <2>2, <2>4 DEF FilesIInv, FilesTypeOK, ranging, others
    <3>2. ReaderInTime'
      BY <2>2 DEF FilesIInv, ReaderInTime, ranging
    <3>3. DescriptorsOwn'
      BY <2>1 DEF DescriptorsOwn, OwnNumbers, GpioComesBack, OwnerOfCall, Returns
    <3> QED
      BY <3>1, <3>2, <3>3
  <2>6. ASSUME AllHeld
        PROVE  AllHeld'
    <3>1. TcpHeld'
      BY <2>1, <2>2, <2>4 DEF TcpHeld, Listed, OwnerOf, Shut
    <3>2. "udp" \in initialised' => "udp" \in initialised
      BY <2>1 DEF Listed
    <3> QED
      BY <2>2, <2>4, <2>6, <3>1, <3>2, HeldOn
      DEF FilesIInv, AllHeld, ranging, others, Owner, Free
  <2> QED
    BY <2>2, <2>5, <2>6 DEF FilesIInv
<1>2. CASE UdpInit
  <2>1. /\ table' = IF HasRoom THEN Opened("udp") ELSE table
        /\ udp' = IF HasRoom THEN Lowest ELSE -1
        /\ initialised' = Listed("udp", HasRoom)
        /\ Returns("udp_init", HasRoom, "udp")
        /\ UNCHANGED <<tcp, sock, image, ranging, others, careful>>
    BY <1>2 DEF UdpInit
  <2>2. "udp" \in Owner
    BY DEF Owner
  <2>3. /\ table' \in [Numbers -> Owner]
        /\ \A o \in Owner \ {Free} : KeepsNumbers(o)
        /\ HasRoom => Lowest \in Numbers /\ table'[Lowest] = "udp"
    BY <2>1, <2>2, OpeningIsClean DEF FilesIInv
  <2>4. FilesTypeOK' /\ ReaderInTime' /\ DescriptorsOwn'
    <3>1. FilesTypeOK'
      BY <2>1, <2>3 DEF FilesIInv, FilesTypeOK, ranging, others
    <3>2. ReaderInTime'
      BY <2>1 DEF FilesIInv, ReaderInTime, ranging
    <3>3. DescriptorsOwn'
      BY <2>1 DEF DescriptorsOwn, OwnNumbers, GpioComesBack, OwnerOfCall, Returns
    <3> QED
      BY <3>1, <3>2, <3>3
  <2>5. ASSUME AllHeld
        PROVE  AllHeld'
    <3>1. UdpHeld'
      BY <2>1, <2>3 DEF UdpHeld, Listed, OwnerOf
    <3>2. "tcp" \in initialised' => "tcp" \in initialised
      BY <2>1 DEF Listed
    <3> QED
      BY <2>1, <2>3, <2>5, <3>1, <3>2, HeldOn
      DEF FilesIInv, AllHeld, ranging, others, Owner, Free
  <2> QED
    BY <2>1, <2>4, <2>5 DEF FilesIInv
<1> QED
  BY <1>1, <1>2

(* Reading and sending through a number that is held.                      *)
LEMMA NumbersUsed ==
  ASSUME FilesIInv, TcpUse \/ UdpUse \/ ImageSend \/ EchoSend \/ GpioUse \/ ReaderMeasure
  PROVE  FilesIInv'
<1>1. /\ UNCHANGED <<table, sockets, sensor_fd, thread_running, stopping, others, initialised>>
      /\ reader' = reader \/ (reader' = "test" /\ reader = "measure")
  BY DEF TcpUse, UdpUse, ImageSend, EchoSend, GpioUse, ReaderMeasure, ranging
<1>2. careful' \in BOOLEAN /\ (careful' => careful)
  BY DEF FilesIInv, FilesTypeOK, TcpUse, UdpUse, ImageSend, EchoSend, GpioUse, ReaderMeasure
<1>3. FilesTypeOK' /\ ReaderInTime'
  <2>1. FilesTypeOK'
    BY <1>1, <1>2 DEF FilesIInv, FilesTypeOK, sockets, others
  <2>2. ReaderInTime'
    BY <1>1 DEF FilesIInv, ReaderInTime
  <2> QED
    BY <2>1, <2>2
<1>4. AllHeld => AllHeld'
  BY <1>1 DEF AllHeld, TcpHeld, UdpHeld, ImageHeld, SensorHeld, EchoHeld, GpioHeld, OwnerOf,
    sockets, others
<1>5. DescriptorsOwn'
  <2>1. CASE TcpUse
    BY <2>1 DEF FilesIInv, AllHeld, TcpHeld, TcpUse, Returns, DescriptorsOwn, OwnNumbers,
      GpioComesBack, OwnerOfCall
  <2>2. CASE UdpUse
    BY <2>2 DEF FilesIInv, AllHeld, UdpHeld, UdpUse, Returns, DescriptorsOwn, OwnNumbers,
      GpioComesBack, OwnerOfCall
  <2>3. CASE EchoSend
    BY <2>3 DEF FilesIInv, AllHeld, EchoHeld, EchoSend, Returns, DescriptorsOwn, OwnNumbers,
      GpioComesBack, OwnerOfCall
  <2>4. CASE GpioUse
    BY <2>4 DEF FilesIInv, AllHeld, GpioHeld, GpioUse, Returns, DescriptorsOwn, OwnNumbers,
      GpioComesBack, OwnerOfCall
  <2>5. CASE ReaderMeasure
    BY <2>5 DEF FilesIInv, AllHeld, SensorHeld, ReaderInTime, ReaderMeasure, Returns,
      DescriptorsOwn, OwnNumbers, GpioComesBack, OwnerOfCall
  <2>6. CASE ImageSend
    BY <2>6 DEF FilesIInv, FilesTypeOK, AllHeld, ImageHeld, ImageSend, OnImage, Returns,
      DescriptorsOwn, OwnNumbers, GpioComesBack, OwnerOfCall
  <2> QED
    BY <2>1, <2>2, <2>3, <2>4, <2>5, <2>6
<1> QED
  BY <1>2, <1>3, <1>4, <1>5 DEF FilesIInv

(* Socket_Tcp: what it closes is its own file, unless it closed it before. *)
LEMMA ImageKeeps ==
  ASSUME FilesIInv, ImageMake \/ ServerConfig \/ ImageDestroy
  PROVE  FilesIInv'
<1>1. CASE ImageMake
  <2>1. /\ sock' = IF HasRoom THEN Lowest ELSE -1
        /\ table' = IF HasRoom THEN Opened("image") ELSE table
        /\ image' = "made"
        /\ Returns("image_make", HasRoom, "image")
        /\ UNCHANGED <<tcp, udp, ranging, others, initialised, careful>>
    BY <1>1 DEF ImageMake
  <2>2. "image" \in Owner
    BY DEF Owner
  <2>3. /\ table' \in [Numbers -> Owner]
        /\ \A o \in Owner \ {Free} : KeepsNumbers(o)
        /\ HasRoom => Lowest \in Numbers /\ table'[Lowest] = "image"
    BY <2>1, <2>2, OpeningIsClean DEF FilesIInv
  <2>4. FilesTypeOK'
    BY <2>1, <2>3 DEF FilesIInv, FilesTypeOK, ranging, others
  <2>5. ReaderInTime' /\ DescriptorsOwn'
    BY <2>1 DEF FilesIInv, ReaderInTime, ranging, DescriptorsOwn, OwnNumbers, GpioComesBack,
      OwnerOfCall, Returns
  <2>6. ASSUME AllHeld
        PROVE  AllHeld'
    <3>1. ImageHeld'
      BY <2>1, <2>3 DEF ImageHeld, OwnerOf
    <3> QED
      BY <2>1, <2>3, <2>6, <3>1, HeldOn DEF FilesIInv, AllHeld, ranging, others, Owner, Free
  <2> QED
    BY <2>1, <2>4, <2>5, <2>6 DEF FilesIInv
<1>2. CASE ServerConfig
  <2>1. PICK connected \in BOOLEAN :
          /\ table' = IF connected THEN table ELSE Closed(sock)
          /\ image' = IF connected THEN "connected" ELSE "refused"
          /\ Returns("image_config", connected, OnImage)
    BY <1>2 DEF ServerConfig
  <2>2. /\ image # "none" /\ careful' = (careful /\ image # "refused")
        /\ UNCHANGED <<tcp, udp, sock, ranging, others, initialised>>
    BY <1>2 DEF ServerConfig
  <2>3. table' \in [Numbers -> Owner]
    BY <2>1, ClosedTakes DEF FilesIInv, FilesTypeOK
  <2>4. careful' \in BOOLEAN /\ (careful' => careful /\ image \in {"made", "connected"})
    BY <2>2 DEF FilesIInv, FilesTypeOK
  <2>5. FilesTypeOK' /\ ReaderInTime'
    BY <2>1, <2>2, <2>3, <2>4 DEF FilesIInv, FilesTypeOK, ReaderInTime, ranging, others
  <2>6. DescriptorsOwn'
    BY <2>1, <2>4 DEF FilesIInv, AllHeld, ImageHeld, DescriptorsOwn, OwnNumbers, GpioComesBack,
      OwnerOfCall, OnImage, Returns
  <2>7. ASSUME AllHeld, careful'
        PROVE  AllHeld'
    <3>1. OwnerOf(sock) \in {"image", Free}
      BY <2>4, <2>7, DescriptorsAssumption DEF AllHeld, ImageHeld, OwnerOf, Numbers
    <3>2. \A o \in Owner \ {Free, "image"} : KeepsNumbers(o)
      BY <2>1, <3>1, ClosedTakes DEF FilesIInv, FilesTypeOK, KeepsNumbers
    <3>3. ImageHeld'
      BY <2>1, <2>2, <2>4, <2>7 DEF AllHeld, ImageHeld, OwnerOf
    <3> QED
      BY <2>2, <2>7, <3>2, <3>3, HeldOn DEF FilesIInv, AllHeld, ranging, others, Owner, Free
  <2> QED
    BY <2>4, <2>5, <2>6, <2>7 DEF FilesIInv
<1>3. CASE ImageDestroy
  <2>1. /\ image # "none"
        /\ table' = IF sock = -1 THEN table ELSE Closed(sock)
        /\ image' = "none"
        /\ Returns("image_end", TRUE, OnImage)
        /\ careful' = (careful /\ image # "refused")
        /\ UNCHANGED <<tcp, udp, sock, ranging, others, initialised>>
    BY <1>3 DEF ImageDestroy
  <2>2. table' \in [Numbers -> Owner]
    BY <2>1, ClosedTakes DEF FilesIInv, FilesTypeOK
  <2>3. careful' \in BOOLEAN /\ (careful' => careful /\ image \in {"made", "connected"})
    BY <2>1 DEF FilesIInv, FilesTypeOK
  <2>4. FilesTypeOK' /\ ReaderInTime'
    BY <2>1, <2>2, <2>3 DEF FilesIInv, FilesTypeOK, ReaderInTime, ranging, others
  <2>5. DescriptorsOwn'
    BY <2>1, <2>3 DEF FilesIInv, AllHeld, ImageHeld, DescriptorsOwn, OwnNumbers, GpioComesBack,
      OwnerOfCall, OnImage, Returns
  <2>6. ASSUME AllHeld, careful'
        PROVE  AllHeld'
    <3>1. OwnerOf(sock) \in {"image", Free}
      BY <2>3, <2>6, DescriptorsAssumption DEF AllHeld, ImageHeld, OwnerOf, Numbers
    <3>2. \A o \in Owner \ {Free, "image"} : KeepsNumbers(o)
      BY <2>1, <3>1, ClosedTakes DEF FilesIInv, FilesTypeOK, KeepsNumbers
    <3>3. ImageHeld'
      BY <2>1 DEF ImageHeld
    <3> QED
      BY <2>1, <2>6, <3>2, <3>3, HeldOn DEF FilesIInv, AllHeld, ranging, others, Owner, Free
  <2> QED
    BY <2>3, <2>4, <2>5, <2>6 DEF FilesIInv
<1> QED
  BY <1>1, <1>2, <1>3

(* The range finder: its read thread is over before its number is closed.  *)
LEMMA SensorKeeps ==
  ASSUME FilesIInv, VlInit \/ VlStop \/ VlStopClose \/ ReaderTest,
         VlInit \/ VlStop => ~stopping
  PROVE  FilesIInv'
<1>1. CASE VlInit
  <2>1. ~thread_running /\ ~stopping /\ UNCHANGED <<sockets, stopping, others, initialised, careful>>
    BY <1>1 DEF VlInit
  <2>2. PICK outcome \in {"refused", "no_thread", "started"} :
          /\ outcome \in {"started", "no_thread"} => HasRoom
          /\ sensor_fd' = IF outcome = "refused" THEN sensor_fd ELSE Lowest
          /\ table' = IF HasRoom THEN Opened(Shut("sensor", outcome = "started")) ELSE table
          /\ thread_running' = (outcome = "started")
          /\ reader' = IF outcome = "started" THEN "test" ELSE reader
          /\ Returns("sensor_init", outcome = "started", "sensor")
    BY <1>1 DEF VlInit
  <2>3. thread_running' \in BOOLEAN /\ (thread_running' <=> outcome = "started")
    BY <2>2
  <2>4. Shut("sensor", outcome = "started") \in Owner
    BY DEF Shut, Owner
  <2>5. /\ table' \in [Numbers -> Owner]
        /\ \A o \in Owner \ {Free} : KeepsNumbers(o)
        /\ HasRoom => Lowest \in Numbers /\ table'[Lowest] = Shut("sensor", outcome = "started")
    BY <2>2, <2>4, OpeningIsClean DEF FilesIInv
  <2>6. FilesTypeOK'
    <3>1. sensor_fd' \in Numbers \cup {-1}
      BY <2>2, <2>5 DEF FilesIInv, FilesTypeOK
    <3> QED
      BY <2>1, <2>2, <2>3, <2>5, <3>1 DEF FilesIInv, FilesTypeOK, sockets, others
  <2>7. ReaderInTime'
    BY <2>1, <2>2, <2>3 DEF FilesIInv, ReaderInTime
  <2>8. DescriptorsOwn'
    BY <2>2 DEF DescriptorsOwn, OwnNumbers, GpioComesBack, OwnerOfCall, Returns
  <2>9. ASSUME AllHeld
        PROVE  AllHeld'
    <3>1. SensorHeld'
      BY <2>1, <2>2, <2>3, <2>5 DEF SensorHeld, OwnerOf, Shut
    <3> QED
      BY <2>1, <2>5, <2>9, <3>1, HeldOn DEF FilesIInv, AllHeld, sockets, others, Owner, Free
  <2> QED
    BY <2>1, <2>6, <2>7, <2>8, <2>9 DEF FilesIInv
<1>2. CASE VlStop
  <2>1. /\ stopping' = TRUE
        /\ thread_running' = FALSE
        /\ careful' = (careful /\ thread_running)
        /\ Returns("sensor_stop", TRUE, "sensor")
        /\ UNCHANGED <<table, sockets, sensor_fd, reader, others, initialised>>
    BY <1>2 DEF VlStop
  <2>2. careful' \in BOOLEAN /\ (careful' => careful /\ thread_running)
    BY <2>1 DEF FilesIInv, FilesTypeOK
  <2>3. FilesTypeOK' /\ ReaderInTime'
    BY <2>1, <2>2 DEF FilesIInv, FilesTypeOK, ReaderInTime, sockets, others
  <2>4. DescriptorsOwn'
    BY <2>1 DEF DescriptorsOwn, OwnNumbers, GpioComesBack, OwnerOfCall, Returns
  <2>5. careful' /\ AllHeld => AllHeld'
    BY <2>1, <2>2 DEF AllHeld, TcpHeld, UdpHeld, ImageHeld, SensorHeld, EchoHeld, GpioHeld,
      OwnerOf, sockets, others
  <2> QED
    BY <2>2, <2>3, <2>4, <2>5 DEF FilesIInv
<1>3. CASE VlStopClose
  <2>1. /\ stopping /\ reader = "none" /\ stopping' = FALSE
        /\ table' = Closed(sensor_fd)
        /\ Returns("sensor_close", OwnerOf(sensor_fd) = "sensor", OwnerOf(sensor_fd))
        /\ UNCHANGED <<sockets, sensor_fd, thread_running, reader, others, initialised, careful>>
    BY <1>3 DEF VlStopClose
  <2>2. table' \in [Numbers -> Owner]
    BY <2>1, ClosedTakes DEF FilesIInv, FilesTypeOK
  <2>3. FilesTypeOK' /\ ReaderInTime'
    BY <2>1, <2>2 DEF FilesIInv, FilesTypeOK, ReaderInTime, sockets, others
  <2>4. DescriptorsOwn'
    BY <2>1 DEF FilesIInv, AllHeld, SensorHeld, DescriptorsOwn, OwnNumbers, GpioComesBack,
      OwnerOfCall, Returns
  <2>5. ASSUME AllHeld
        PROVE  AllHeld'
    <3>1. OwnerOf(sensor_fd) = "sensor"
      BY <2>1, <2>5 DEF AllHeld, SensorHeld
    <3>2. \A o \in Owner \ {Free, "sensor"} : KeepsNumbers(o)
      BY <2>1, <3>1, ClosedTakes DEF FilesIInv, FilesTypeOK, KeepsNumbers
    <3>3. SensorHeld'
      BY <2>1 DEF FilesIInv, ReaderInTime, SensorHeld
    <3> QED
      BY <2>1, <2>5, <3>2, <3>3, HeldOn DEF FilesIInv, AllHeld, sockets, others, Owner, Free
  <2> QED
    BY <2>1, <2>3, <2>4, <2>5 DEF FilesIInv
<1>4. CASE ReaderTest
  <2>1. /\ reader' = IF thread_running THEN "measure" ELSE "none"
        /\ reader = "test"
        /\ UNCHANGED <<table, sockets, sensor_fd, thread_running, stopping, others, result,
                       initialised, careful>>
    BY <1>4 DEF ReaderTest
  <2>2. FilesTypeOK' /\ ReaderInTime'
    BY <2>1 DEF FilesIInv, FilesTypeOK, ReaderInTime, sockets, others
  <2>3. DescriptorsOwn' /\ (AllHeld => AllHeld')
    BY <2>1 DEF FilesIInv, DescriptorsOwn, OwnNumbers, GpioComesBack, OwnerOfCall, AllHeld,
      TcpHeld, UdpHeld, ImageHeld, SensorHeld, EchoHeld, GpioHeld, OwnerOf, sockets, others
  <2> QED
    BY <2>1, <2>2, <2>3 DEF FilesIInv
<1> QED
  BY <1>1, <1>2, <1>3, <1>4
(* wonderEchoInit keeps the older number until the new one is good.        *)
LEMMA EchoKeeps ==
  ASSUME FilesIInv, EchoInit
  PROVE  FilesIInv'
<1>1. PICK addressed \in BOOLEAN :
        /\ echo' = IF HasRoom /\ addressed THEN Lowest ELSE echo
        /\ table' = IF HasRoom THEN Opened(Shut("echo", HasRoom /\ addressed)) ELSE table
        /\ Returns("echo_init", HasRoom /\ addressed, "echo")
  BY DEF EchoInit
<1>2. UNCHANGED <<sockets, ranging, gpio, exported, initialised, careful>>
  BY DEF EchoInit
<1>3. Shut("echo", HasRoom /\ addressed) \in Owner
  BY DEF Shut, Owner
<1>4. /\ table' \in [Numbers -> Owner]
      /\ \A o \in Owner \ {Free} : KeepsNumbers(o)
      /\ HasRoom => Lowest \in Numbers /\ table'[Lowest] = Shut("echo", HasRoom /\ addressed)
  BY <1>1, <1>3, OpeningIsClean DEF FilesIInv
<1>5. FilesTypeOK' /\ ReaderInTime'
  BY <1>1, <1>2, <1>4 DEF FilesIInv, FilesTypeOK, ReaderInTime, sockets, ranging
<1>6. DescriptorsOwn'
  BY <1>1 DEF DescriptorsOwn, OwnNumbers, GpioComesBack, OwnerOfCall, Returns
<1>7. ASSUME AllHeld
      PROVE  AllHeld'
  <2>1. EchoHeld'
    <3>1. CASE HasRoom /\ addressed
      BY <1>1, <1>4, <3>1 DEF EchoHeld, OwnerOf, Shut
    <3>2. CASE ~(HasRoom /\ addressed)
      <4>1. echo' = echo /\ KeepsNumbers("echo")
        BY <1>1, <1>4, <3>2 DEF Owner, Free
      <4> QED
        BY <1>7, <4>1, HeldOn DEF FilesIInv, AllHeld
    <3> QED
      BY <3>1, <3>2
  <2> QED
    BY <1>2, <1>4, <1>7, <2>1, HeldOn DEF FilesIInv, AllHeld, sockets, ranging, Owner, Free
<1> QED
  BY <1>2, <1>5, <1>6, <1>7 DEF FilesIInv

(* GPIO: an object either has the pin's file or does not exist.            *)
LEMMA GpioKeeps ==
  ASSUME FilesIInv, GpioMake \/ GpioDestroy
  PROVE  FilesIInv'
<1>1. CASE GpioMake
  <2>1. PICK ok \in BOOLEAN, opens \in BOOLEAN :
          /\ ok <=> HasRoom /\ opens
          /\ gpio' = IF ok THEN Lowest ELSE -1
          /\ table' = IF ok THEN Opened("gpio") ELSE table
          /\ Returns(IF HasRoom /\ opens THEN "gpio_make" ELSE "gpio_fault", ok, "gpio")
    <3>1. PICK opens \in BOOLEAN :
            LET ok == HasRoom /\ opens /\ WriteReported
            IN  /\ gpio' = IF ok THEN Lowest ELSE -1
                /\ table' = IF ok THEN Opened("gpio") ELSE table
                /\ Returns(IF HasRoom /\ opens THEN "gpio_make" ELSE "gpio_fault", ok, "gpio")
      BY <1>1 DEF GpioMake
    <3> DEFINE good == HasRoom /\ opens /\ WriteReported
    <3>2. good \in BOOLEAN /\ (good <=> HasRoom /\ opens)
      BY DEF WriteReported
    <3> QED
      BY <3>1, <3>2, Zenon
  <2>2. UNCHANGED <<sockets, ranging, echo, initialised, careful>>
    BY <1>1 DEF GpioMake
  <2>3. /\ table' \in [Numbers -> Owner]
        /\ \A o \in Owner \ {Free} : KeepsNumbers(o)
        /\ ok => Lowest \in Numbers /\ table'[Lowest] = "gpio"
    <3>1. CASE ok
      <4>1. HasRoom /\ "gpio" \in Owner /\ table' = IF HasRoom THEN Opened("gpio") ELSE table
        BY <2>1, <3>1 DEF Owner
      <4> QED
        BY <4>1, OpeningIsClean DEF FilesIInv
    <3>2. CASE ~ok
      BY <2>1, <3>2 DEF FilesIInv, FilesTypeOK, KeepsNumbers
    <3> QED
      BY <3>1, <3>2
  <2>4. FilesTypeOK' /\ ReaderInTime'
    BY <2>1, <2>2, <2>3 DEF FilesIInv, FilesTypeOK, ReaderInTime, sockets, ranging
  <2>5. DescriptorsOwn'
    BY <2>1 DEF DescriptorsOwn, OwnNumbers, GpioComesBack, OwnerOfCall, Returns
  <2>6. ASSUME AllHeld
        PROVE  AllHeld'
    <3>1. GpioHeld'
      BY <2>1, <2>3 DEF GpioHeld, OwnerOf
    <3> QED
      BY <2>2, <2>3, <2>6, <3>1, HeldOn DEF FilesIInv, AllHeld, sockets, ranging, Owner, Free
  <2> QED
    BY <2>2, <2>4, <2>5, <2>6 DEF FilesIInv
<1>2. CASE GpioDestroy
  <2>1. /\ gpio # -1 /\ gpio' = -1
        /\ table' = Closed(gpio)
        /\ Returns("gpio_end", TRUE, OwnerOf(gpio))
        /\ UNCHANGED <<sockets, ranging, echo, exported, initialised, careful>>
    BY <1>2 DEF GpioDestroy
  <2>2. table' \in [Numbers -> Owner]
    BY <2>1, ClosedTakes DEF FilesIInv, FilesTypeOK
  <2>3. FilesTypeOK' /\ ReaderInTime'
    BY <2>1, <2>2 DEF FilesIInv, FilesTypeOK, ReaderInTime, sockets, ranging
  <2>4. DescriptorsOwn'
    BY <2>1 DEF FilesIInv, AllHeld, GpioHeld, DescriptorsOwn, OwnNumbers, GpioComesBack,
      OwnerOfCall, Returns
  <2>5. ASSUME AllHeld
        PROVE  AllHeld'
    <3>1. OwnerOf(gpio) = "gpio"
      BY <2>1, <2>5 DEF AllHeld, GpioHeld
    <3>2. \A o \in Owner \ {Free, "gpio"} : KeepsNumbers(o)
      BY <2>1, <3>1, ClosedTakes DEF FilesIInv, FilesTypeOK, KeepsNumbers
    <3>3. GpioHeld'
      BY <2>1 DEF GpioHeld
    <3> QED
      BY <2>1, <2>5, <3>2, <3>3, HeldOn DEF FilesIInv, AllHeld, sockets, ranging, Owner, Free
  <2> QED
    BY <2>1, <2>3, <2>4, <2>5 DEF FilesIInv
<1> QED
  BY <1>1, <1>2

(* A descriptor for the length of a call, and a new process.               *)
LEMMA BracketKeeps ==
  ASSUME FilesIInv, Bracket
  PROVE  FilesIInv'
<1>1. PICK acted \in BOOLEAN :
        /\ table' = IF HasRoom THEN Opened(Free) ELSE table
        /\ Returns("bracket", HasRoom /\ acted, "file")
  BY DEF Bracket, Shut
<1>2. UNCHANGED <<sockets, ranging, others, initialised, careful>>
  BY DEF Bracket
<1>3. Free \in Owner
  BY DEF Owner
<1>4. table' \in [Numbers -> Owner] /\ \A o \in Owner \ {Free} : KeepsNumbers(o)
  BY <1>1, <1>3, OpeningIsClean DEF FilesIInv
<1>5. FilesTypeOK' /\ ReaderInTime'
  BY <1>2, <1>4 DEF FilesIInv, FilesTypeOK, ReaderInTime, sockets, ranging, others
<1>6. DescriptorsOwn'
  BY <1>1 DEF DescriptorsOwn, OwnNumbers, GpioComesBack, OwnerOfCall, Returns
<1>7. AllHeld => AllHeld'
  BY <1>2, <1>4, HeldOn DEF FilesIInv, AllHeld, sockets, ranging, others, Owner, Free
<1> QED
  BY <1>2, <1>5, <1>6, <1>7 DEF FilesIInv

(* A process starts with nothing open and knows it.                        *)
LEMMA StartKeeps ==
  ASSUME Start
  PROVE  FilesIInv'
<1>1. /\ table' = [n \in Numbers |-> IF n = 0 THEN "stdin" ELSE Free]
      /\ tcp' = 0 /\ udp' = 0 /\ sock' = -1 /\ image' = "none"
      /\ sensor_fd' = -1 /\ thread_running' = FALSE /\ reader' = "none" /\ stopping' = FALSE
      /\ echo' = 0 /\ gpio' = -1
      /\ result' = [op |-> "start", ok |-> TRUE, on |-> Free]
      /\ initialised' = {} /\ careful' = TRUE
  BY DEF Start
<1>2. table' \in [Numbers -> Owner]
  BY <1>1 DEF Owner
<1>3. FilesTypeOK' /\ ReaderInTime'
  <2>1. 0 \in Numbers
    BY DescriptorsAssumption DEF Numbers
  <2>2. FilesTypeOK'
    BY <1>1, <1>2, <2>1 DEF FilesTypeOK
  <2>3. ReaderInTime'
    BY <1>1 DEF ReaderInTime
  <2> QED
    BY <2>2, <2>3
<1>4. DescriptorsOwn'
  BY <1>1 DEF DescriptorsOwn, OwnNumbers, GpioComesBack, OwnerOfCall
<1>5. AllHeld'
  BY <1>1 DEF AllHeld, TcpHeld, UdpHeld, ImageHeld, SensorHeld, EchoHeld, GpioHeld
<1> QED
  BY <1>3, <1>4, <1>5 DEF FilesIInv

(* So does the first process.                                              *)
LEMMA FilesBegin == FilesInit => FilesIInv
<1> SUFFICES ASSUME FilesInit PROVE FilesIInv
  OBVIOUS
<1>1. /\ table = [n \in Numbers |-> IF n = 0 THEN "stdin" ELSE Free]
      /\ tcp = 0 /\ udp = 0 /\ sock = -1 /\ image = "none"
      /\ sensor_fd = -1 /\ thread_running = FALSE /\ reader = "none" /\ stopping = FALSE
      /\ echo = 0 /\ gpio = -1
      /\ result = [op |-> "start", ok |-> TRUE, on |-> Free]
      /\ initialised = {} /\ careful = TRUE
  BY DEF FilesInit
<1>2. table \in [Numbers -> Owner]
  BY <1>1 DEF Owner
<1>3. FilesTypeOK /\ ReaderInTime
  <2>1. 0 \in Numbers
    BY DescriptorsAssumption DEF Numbers
  <2>2. FilesTypeOK
    BY <1>1, <1>2, <2>1 DEF FilesTypeOK
  <2>3. ReaderInTime
    BY <1>1 DEF ReaderInTime
  <2> QED
    BY <2>2, <2>3
<1>4. DescriptorsOwn
  BY <1>1 DEF DescriptorsOwn, OwnNumbers, GpioComesBack, OwnerOfCall
<1>5. AllHeld
  BY <1>1 DEF AllHeld, TcpHeld, UdpHeld, ImageHeld, SensorHeld, EchoHeld, GpioHeld
<1> QED
  BY <1>3, <1>4, <1>5 DEF FilesIInv

(* Every step keeps the invariant.                                         *)
LEMMA FilesStep == FilesIInv /\ [FilesNext]_filesVars => FilesIInv'
<1> SUFFICES ASSUME FilesIInv, [FilesNext]_filesVars
             PROVE  FilesIInv'
  OBVIOUS
<1>1. CASE UNCHANGED filesVars
  BY <1>1 DEF filesVars, sockets, ranging, others, FilesIInv, FilesTypeOK, ReaderInTime,
    DescriptorsOwn, OwnNumbers, GpioComesBack, OwnerOfCall, AllHeld, TcpHeld, UdpHeld,
    ImageHeld, SensorHeld, EchoHeld, GpioHeld, OwnerOf
<1>2. CASE Call
  <2>1. ~stopping
    BY <1>2 DEF Call
  <2> QED
    BY <1>2, <2>1, SocketsOpened, NumbersUsed, ImageKeeps, SensorKeeps, EchoKeeps, GpioKeeps,
      BracketKeeps DEF Call
<1>3. CASE VlStopClose \/ ReaderTest
  <2>1. VlInit \/ VlStop => ~stopping
    BY <1>3 DEF VlInit, VlStop, VlStopClose, ReaderTest
  <2> QED
    BY <1>3, <2>1, SensorKeeps
<1>4. CASE ReaderMeasure
  BY <1>4, NumbersUsed
<1>5. CASE Restart
  BY <1>5, StartKeeps DEF Restart
<1> QED
  BY <1>1, <1>2, <1>3, <1>4, <1>5 DEF FilesNext, Reader

(* A careful program's drivers keep to their own files: for any number of  *)
(* descriptors and any drivers used together, through failures, restarts   *)
(* and numbers that are given out again.                                   *)
THEOREM DriversKeepToTheirFiles == FilesSpec => []DescriptorsOwn
<1>1. FilesInit => FilesIInv
  BY FilesBegin
<1>2. FilesIInv /\ [FilesNext]_filesVars => FilesIInv'
  BY FilesStep
<1>3. FilesIInv => DescriptorsOwn
  BY DEF FilesIInv
<1> QED
  BY <1>1, <1>2, <1>3, PTL DEF FilesSpec

(* A call that fails, and one that needs its file for its own time only,   *)
(* leaves no descriptor open that was not open before.                     *)
THEOREM FailuresGiveBack == FilesSpec => NothingLeaks
<1> DEFINE Leakless == ~result'.ok \/ result'.op = "bracket"
                         => \A n \in Numbers : table'[n] # Free => table[n] = table'[n]
<1>1. FilesIInv /\ [FilesNext]_filesVars => [Leakless]_filesVars
  <2> SUFFICES ASSUME FilesIInv, FilesNext, ~result'.ok \/ result'.op = "bracket",
                      NEW n \in Numbers, table'[n] # Free
               PROVE  table[n] = table'[n]
    OBVIOUS
  <2>1. table \in [Numbers -> Owner]
    BY DEF FilesIInv, FilesTypeOK
  <2>2. \A o : Opened(o)[n] = IF n = Lowest THEN o ELSE table[n]
    BY <2>1 DEF Opened
  <2>3. \A m : Closed(m)[n] = IF n = m THEN Free ELSE table[n]
    BY DEF Closed
  <2>4. CASE TcpInit \/ UdpInit \/ ImageMake \/ EchoInit \/ Bracket
    BY <2>2, <2>4 DEF TcpInit, UdpInit, ImageMake, EchoInit, Bracket, Returns, Shut
  <2>5. CASE VlInit
    <3>1. PICK ok \in BOOLEAN :
            /\ table' = IF HasRoom THEN Opened(Shut("sensor", ok)) ELSE table
            /\ Returns("sensor_init", ok, "sensor")
      BY <2>5 DEF VlInit
    <3>2. ~ok
      BY <3>1 DEF Returns
    <3> QED
      BY <2>2, <3>1, <3>2 DEF Shut
  <2>6. CASE GpioMake
    BY <2>2, <2>6 DEF GpioMake, Returns
  <2>7. CASE ServerConfig \/ ImageDestroy \/ VlStopClose \/ GpioDestroy
    BY <2>3, <2>7 DEF ServerConfig, ImageDestroy, VlStopClose, GpioDestroy
  <2>8. CASE TcpUse \/ UdpUse \/ ImageSend \/ VlStop \/ EchoSend \/ GpioUse \/ ReaderTest
             \/ ReaderMeasure
    BY <2>8 DEF TcpUse, UdpUse, ImageSend, VlStop, EchoSend, GpioUse, ReaderTest, ReaderMeasure
  <2>9. CASE Restart
    BY <2>9 DEF Restart, Start
  <2> QED
    BY <2>4, <2>5, <2>6, <2>7, <2>8, <2>9 DEF FilesNext, Call, Reader
<1>2. FilesInit => FilesIInv
  BY FilesBegin
<1>3. FilesIInv /\ [FilesNext]_filesVars => FilesIInv'
  BY FilesStep
<1> QED
  BY <1>1, <1>2, <1>3, PTL DEF FilesSpec, NothingLeaks

-----------------------------------------------------------------------------
(* The assistant's receiving.                                              *)

(* A frame starts here: all of it is there.                                *)
WholeAt(s, i) == /\ i + 3 <= Len(s)
                 /\ \E m \in Messages : \A j \in 1 .. FrameLen : s[i + j - 1] = Frame(m)[j]
StartsWhole(s) == \A i \in 1 .. Len(s) : s[i].start => WholeAt(s, i)

(* From element k on, s is the frames of the messages ms and no more.      *)
FramesAfter(s, k, ms) ==
  /\ Len(s) = k + FrameLen * Len(ms)
  /\ \A i \in 1 .. Len(ms), j \in 1 .. FrameLen :
       s[k + FrameLen * (i - 1) + j] = Frame(ms[i])[j]

(* What of the FIFO has been judged and is still to be discarded.          *)
Judged == IF pc = "discard" THEN read_length ELSE 0

(* What data_analysis knows of the FIFO where it stands.                   *)
WhereItStands ==
  /\ pc = "receive" => Len(queue) < FrameLen
  /\ pc = "judge" => Len(queue) >= FrameLen /\ fifo_out.data = SubSeq(queue, 1, FrameLen)
  /\ Judged <= Len(queue)

AssistantIInv ==
  /\ AssistantTypeOK
  /\ WhereItStands
  /\ ~chunk_lost => StartsWhole(queue \o wire)
  /\ Intact => ~stray /\ FramesAfter(queue \o wire, Judged, due)

(* The check sum is filled in last.                                        *)
LEMMA ThirdReplaced ==
  ASSUME NEW a, NEW b, NEW c, NEW d, NEW e
  PROVE  [<<a, b, c, d>> EXCEPT ![3] = e] = <<a, b, e, d>>
<1> DEFINE S == {a, b, c, d, e}
           s == [<<a, b, c, d>> EXCEPT ![3] = e]
           t == <<a, b, e, d>>
<1>1. s \in Seq(S) /\ Len(s) = 4 /\ t \in Seq(S) /\ Len(t) = 4
  OBVIOUS
<1>2. \A i \in 1 .. 4 : s[i] = t[i]
  OBVIOUS
<1> HIDE DEF s, t
<1> QED
  BY <1>1, <1>2

(* A frame as the four bytes it is made of; it passes its own test.        *)
LEMMA FrameShape ==
  ASSUME NEW m \in Messages
  PROVE  /\ Frame(m) \in Seq(Elem) /\ Len(Frame(m)) = FrameLen
         /\ Frame(m)[1].start
         /\ \A j \in 2 .. FrameLen : ~Frame(m)[j].start
         /\ Frame(m)[2].byte = m.channel /\ Frame(m)[4].byte = m.data
         /\ IsFrame(Frame(m))
<1> DEFINE plain(b) == [byte |-> b, start |-> FALSE]
           head == [byte |-> HeadByte, start |-> TRUE]
           w == <<head, plain(m.channel), plain(0), plain(m.data)>>
           sum == Sum(w)
           f == <<head, plain(m.channel), plain(sum), plain(m.data)>>
<1>1. m.channel \in 1 .. Channels /\ m.data \in 0 .. ByteMod - 1
  BY AssistantAssumption
<1>2. ByteMod \in Nat \ {0} /\ HeadByte \in 0 .. ByteMod - 1 /\ Channels \in Nat /\ Channels < ByteMod
  BY AssistantAssumption
<1>3. sum = (HeadByte + m.channel + m.data) % ByteMod
  BY DEF Sum
<1>4. sum \in 0 .. ByteMod - 1
  <2>1. HeadByte + m.channel + m.data \in Int
    BY <1>1, <1>2
  <2> HIDE DEF sum
  <2> QED
    BY <2>1, <1>2, <1>3
<1>5. Frame(m) = f
  <2>1. Frame(m) = [w EXCEPT ![3] = plain(sum)]
    BY DEF Frame
  <2> HIDE DEF sum, head, plain
  <2> QED
    BY <2>1, ThirdReplaced
<1>6. head \in Elem /\ plain(m.channel) \in Elem /\ plain(sum) \in Elem /\ plain(m.data) \in Elem
  <2> HIDE DEF sum
  <2> QED
    BY <1>1, <1>2, <1>4 DEF Elem
<1>7. Sum(f) = sum
  <2>1. Sum(f) = (HeadByte + m.channel + m.data) % ByteMod
    BY DEF Sum
  <2> QED
    BY <2>1, <1>3
<1>8. IsFrame(f)
  BY <1>7 DEF IsFrame, SumAgrees
<1>9. f \in Seq(Elem) /\ Len(f) = FrameLen
  <2> HIDE DEF sum, head, plain
  <2> QED
    BY <1>6 DEF FrameLen
<1> HIDE DEF sum
<1>10. f[1].start /\ f[2].byte = m.channel /\ f[4].byte = m.data
  OBVIOUS
<1>11. \A j \in 2 .. FrameLen : ~f[j].start
  BY DEF FrameLen
<1> HIDE DEF f
<1> QED
  BY <1>5, <1>8, <1>9, <1>10, <1>11

(* A message sent is a frame more.                                         *)
LEMMA FrameBehind ==
  ASSUME NEW s \in Seq(Elem), NEW m \in Messages
  PROVE  /\ StartsWhole(s) => StartsWhole(s \o Frame(m))
         /\ \A k \in Nat, ms \in Seq(Messages) :
              FramesAfter(s, k, ms) => FramesAfter(s \o Frame(m), k, Append(ms, m))
<1> DEFINE f == Frame(m)
           t == s \o f
<1>1. /\ f \in Seq(Elem) /\ Len(f) = 4 /\ \A j \in 2 .. 4 : ~f[j].start
  BY FrameShape DEF FrameLen
<1> HIDE DEF f
<1>2. /\ t \in Seq(Elem) /\ Len(t) = Len(s) + 4
      /\ \A i \in 1 .. Len(s) : t[i] = s[i]
      /\ \A j \in 1 .. 4 : t[Len(s) + j] = f[j]
  <2>1. /\ t \in Seq(Elem) /\ Len(t) = Len(s) + Len(f)
        /\ \A i \in 1 .. Len(s) + Len(f) : t[i] = IF i <= Len(s) THEN s[i] ELSE f[i - Len(s)]
    BY <1>1, ConcatProperties, Zenon
  <2> HIDE DEF t
  <2>2. ASSUME NEW j \in 1 .. 4
        PROVE  t[Len(s) + j] = f[j]
    <3>1. Len(s) + j \in 1 .. Len(s) + 4 /\ ~(Len(s) + j <= Len(s)) /\ Len(s) + j - Len(s) = j
      OBVIOUS
    <3> QED
      BY <2>1, <3>1, <1>1
  <2> QED
    BY <2>1, <2>2, <1>1
<1> HIDE DEF t
<1>3. ASSUME StartsWhole(s), NEW i \in 1 .. Len(t), t[i].start
      PROVE  WholeAt(t, i)
  <2>1. CASE i <= Len(s)
    <3>1. i \in 1 .. Len(s) /\ s[i].start
      BY <2>1, <1>2, <1>3
    <3>2. i + 3 <= Len(s)
      BY <3>1, <1>3 DEF StartsWhole, WholeAt
    <3>3. PICK n \in Messages : \A j \in 1 .. FrameLen : s[i + j - 1] = Frame(n)[j]
      BY <3>1, <1>3 DEF StartsWhole, WholeAt
    <3>4. ASSUME NEW j \in 1 .. FrameLen
          PROVE  t[i + j - 1] = Frame(n)[j]
      <4>1. i + j - 1 \in 1 .. Len(s)
        BY <3>1, <3>2 DEF FrameLen
      <4> QED
        BY <4>1, <3>3, <1>2
    <3>5. i + 3 <= Len(t)
      BY <3>2, <1>2
    <3> QED
      BY <3>4, <3>5 DEF WholeAt
  <2>2. CASE i > Len(s)
    <3>1. i = Len(s) + 1
      <4>1. i - Len(s) \in 1 .. 4 /\ t[Len(s) + (i - Len(s))] = f[i - Len(s)]
        BY <2>2, <1>2
      <4>2. t[i] = f[i - Len(s)]
        BY <4>1, <1>2
      <4> QED
        BY <4>1, <4>2, <1>1, <1>3
    <3>2. \A j \in 1 .. FrameLen : t[i + j - 1] = Frame(m)[j]
      BY <3>1, <1>2 DEF FrameLen, f
    <3>3. i + 3 <= Len(t)
      BY <3>1, <1>2
    <3> QED
      BY <3>2, <3>3 DEF WholeAt
  <2> QED
    BY <2>1, <2>2, <1>2
<1>4. ASSUME NEW k \in Nat, NEW ms \in Seq(Messages), FramesAfter(s, k, ms)
      PROVE  FramesAfter(t, k, Append(ms, m))
  <2> DEFINE ns == Append(ms, m)
  <2>1. /\ Len(ns) = Len(ms) + 1 /\ ns[Len(ms) + 1] = m
        /\ \A i \in 1 .. Len(ms) : ns[i] = ms[i]
    OBVIOUS
  <2> HIDE DEF ns
  <2>2. Len(s) = k + 4 * Len(ms) /\ Len(ms) \in Nat
    BY <1>4 DEF FramesAfter, FrameLen
  <2>3. ASSUME NEW i \in 1 .. Len(ns), NEW j \in 1 .. FrameLen
        PROVE  t[k + FrameLen * (i - 1) + j] = Frame(ns[i])[j]
    <3>1. CASE i <= Len(ms)
      <4>1. i \in 1 .. Len(ms) /\ s[k + FrameLen * (i - 1) + j] = Frame(ms[i])[j]
        BY <3>1, <2>1, <2>2, <1>4 DEF FramesAfter
      <4>2. k + FrameLen * (i - 1) + j \in 1 .. Len(s)
        BY <4>1, <2>2 DEF FrameLen
      <4> QED
        BY <4>1, <4>2, <1>2, <2>1
    <3>2. CASE i = Len(ms) + 1
      <4>1. k + FrameLen * (i - 1) + j = Len(s) + j
        BY <3>2, <2>2 DEF FrameLen
      <4> QED
        BY <4>1, <3>2, <2>1, <1>2 DEF FrameLen, f
    <3> QED
      BY <3>1, <3>2, <2>1, <2>2
  <2>4. Len(t) = k + FrameLen * Len(ns)
    BY <2>1, <2>2, <1>2 DEF FrameLen
  <2> QED
    BY <2>3, <2>4 DEF FramesAfter, ns
<1> QED
  BY <1>3, <1>4 DEF StartsWhole, t, f

(* Noise starts no frame, and cuts none.                                   *)
LEMMA NoiseBehind ==
  ASSUME NEW s \in Seq(Elem), NEW e \in Elem, ~e.start, StartsWhole(s)
  PROVE  StartsWhole(Append(s, e))
<1> DEFINE t == Append(s, e)
<1>1. /\ Len(t) = Len(s) + 1 /\ t[Len(s) + 1] = e
      /\ \A i \in 1 .. Len(s) : t[i] = s[i]
  OBVIOUS
<1> HIDE DEF t
<1>2. ASSUME NEW i \in 1 .. Len(t), t[i].start
      PROVE  WholeAt(t, i)
  <2>1. i \in 1 .. Len(s) /\ s[i].start
    BY <1>1, <1>2
  <2>2. i + 3 <= Len(s)
    BY <2>1 DEF StartsWhole, WholeAt
  <2>3. PICK n \in Messages : \A j \in 1 .. FrameLen : s[i + j - 1] = Frame(n)[j]
    BY <2>1 DEF StartsWhole, WholeAt
  <2>4. ASSUME NEW j \in 1 .. FrameLen
        PROVE  t[i + j - 1] = Frame(n)[j]
    <3>1. i + j - 1 \in 1 .. Len(s)
      BY <2>1, <2>2 DEF FrameLen
    <3> QED
      BY <3>1, <2>3, <1>1
  <2>5. i + 3 <= Len(t)
    BY <2>2, <1>1
  <2> QED
    BY <2>4, <2>5 DEF WholeAt
<1> QED
  BY <1>2 DEF StartsWhole, t

(* What is discarded takes no part of a later frame with it.               *)
LEMMA FramesBehind ==
  ASSUME NEW s \in Seq(Elem), NEW n \in 0 .. Len(s)
  PROVE  /\ StartsWhole(s) => StartsWhole(SubSeq(s, n + 1, Len(s)))
         /\ \A ms \in Seq(Messages) :
              FramesAfter(s, n, ms) => FramesAfter(SubSeq(s, n + 1, Len(s)), 0, ms)
<1> DEFINE t == SubSeq(s, n + 1, Len(s))
<1>1. Len(t) = Len(s) - n /\ \A i \in 1 .. Len(s) - n : t[i] = s[n + i]
  OBVIOUS
<1> HIDE DEF t
<1>2. ASSUME StartsWhole(s), NEW i \in 1 .. Len(t), t[i].start
      PROVE  WholeAt(t, i)
  <2>1. n + i \in 1 .. Len(s) /\ s[n + i].start
    BY <1>1, <1>2
  <2>2. n + i + 3 <= Len(s)
    BY <2>1, <1>2 DEF StartsWhole, WholeAt
  <2>3. PICK m \in Messages : \A j \in 1 .. FrameLen : s[n + i + j - 1] = Frame(m)[j]
    BY <2>1, <1>2 DEF StartsWhole, WholeAt
  <2>4. ASSUME NEW j \in 1 .. FrameLen
        PROVE  t[i + j - 1] = Frame(m)[j]
    <3>1. i + j - 1 \in 1 .. Len(s) - n /\ n + (i + j - 1) = n + i + j - 1
      BY <1>1, <2>1, <2>2 DEF FrameLen
    <3> QED
      BY <3>1, <2>3, <1>1
  <2>5. i + 3 <= Len(t)
    BY <2>2, <1>1
  <2> QED
    BY <2>4, <2>5 DEF WholeAt
<1>3. ASSUME NEW ms \in Seq(Messages), FramesAfter(s, n, ms)
      PROVE  FramesAfter(t, 0, ms)
  <2>1. Len(s) = n + 4 * Len(ms) /\ Len(ms) \in Nat
    BY <1>3 DEF FramesAfter, FrameLen
  <2>2. ASSUME NEW i \in 1 .. Len(ms), NEW j \in 1 .. FrameLen
        PROVE  t[0 + FrameLen * (i - 1) + j] = Frame(ms[i])[j]
    <3>1. s[n + FrameLen * (i - 1) + j] = Frame(ms[i])[j]
      BY <1>3 DEF FramesAfter
    <3>2. /\ 0 + FrameLen * (i - 1) + j \in 1 .. Len(s) - n
          /\ n + (0 + FrameLen * (i - 1) + j) = n + FrameLen * (i - 1) + j
      BY <2>1 DEF FrameLen
    <3> QED
      BY <3>1, <3>2, <1>1
  <2>3. Len(t) = 0 + FrameLen * Len(ms)
    BY <2>1, <1>1 DEF FrameLen
  <2> QED
    BY <2>2, <2>3 DEF FramesAfter
<1> QED
  BY <1>2, <1>3 DEF StartsWhole, t

(* A whole frame at the front of frames alone is the oldest message's.     *)
LEMMA FirstFrame ==
  ASSUME NEW s \in Seq(Elem), NEW ms \in Seq(Messages),
         FramesAfter(s, 0, ms), Len(s) >= FrameLen
  PROVE  /\ ms # << >> /\ ms[1] \in Messages /\ Tail(ms) \in Seq(Messages)
         /\ \A j \in 1 .. FrameLen : s[j] = Frame(ms[1])[j]
         /\ FramesAfter(s, FrameLen, Tail(ms))
<1>1. Len(s) = 4 * Len(ms) /\ Len(ms) \in Nat /\ Len(s) >= 4
  BY DEF FramesAfter, FrameLen
<1>2. /\ 1 \in 1 .. Len(ms) /\ ms # << >> /\ ms[1] \in Messages
      /\ Tail(ms) \in Seq(Messages) /\ Len(Tail(ms)) = Len(ms) - 1
      /\ \A i \in 1 .. Len(ms) - 1 : Tail(ms)[i] = ms[i + 1]
  BY <1>1
<1>3. ASSUME NEW j \in 1 .. FrameLen
      PROVE  s[j] = Frame(ms[1])[j]
  <2>1. s[0 + FrameLen * (1 - 1) + j] = Frame(ms[1])[j]
    BY <1>2 DEF FramesAfter
  <2>2. 0 + FrameLen * (1 - 1) + j = j
    BY DEF FrameLen
  <2> QED
    BY <2>1, <2>2
<1>4. ASSUME NEW i \in 1 .. Len(Tail(ms)), NEW j \in 1 .. FrameLen
      PROVE  s[FrameLen + FrameLen * (i - 1) + j] = Frame(Tail(ms)[i])[j]
  <2>1. i + 1 \in 1 .. Len(ms) /\ Tail(ms)[i] = ms[i + 1]
    BY <1>1, <1>2
  <2>2. s[0 + FrameLen * ((i + 1) - 1) + j] = Frame(ms[i + 1])[j]
    BY <2>1 DEF FramesAfter
  <2>3. FrameLen + FrameLen * (i - 1) + j = 0 + FrameLen * ((i + 1) - 1) + j
    BY DEF FrameLen
  <2> QED
    BY <2>1, <2>2, <2>3
<1>5. Len(s) = FrameLen + FrameLen * Len(Tail(ms))
  BY <1>1, <1>2 DEF FrameLen
<1> QED
  BY <1>2, <1>3, <1>4, <1>5 DEF FramesAfter

(* Only the first four bytes of what is read decide.                       *)
LEMMA SameFrame ==
  ASSUME NEW v, NEW w, \A j \in 1 .. FrameLen : v[j] = w[j]
  PROVE  IsFrame(v) <=> IsFrame(w)
<1>1. v[1] = w[1] /\ v[2] = w[2] /\ v[3] = w[3] /\ v[4] = w[4]
  BY DEF FrameLen
<1> QED
  BY <1>1 DEF IsFrame, SumAgrees, Sum

(* Where a frame starts, one is found.                                     *)
LEMMA StartIsFound ==
  ASSUME NEW s \in Seq(Elem), StartsWhole(s), Len(s) >= FrameLen, s[1].start,
         NEW w, \A j \in 1 .. FrameLen : w[j] = s[j]
  PROVE  IsFrame(w)
<1>1. WholeAt(s, 1)
  BY DEF StartsWhole, FrameLen
<1>2. PICK m \in Messages : \A j \in 1 .. FrameLen : s[1 + j - 1] = Frame(m)[j]
  BY <1>1 DEF WholeAt
<1>3. ASSUME NEW j \in 1 .. FrameLen
      PROVE  w[j] = Frame(m)[j]
  <2>1. 1 + j - 1 = j
    BY DEF FrameLen
  <2> QED
    BY <1>2, <2>1
<1> QED
  BY <1>3, FrameShape, SameFrame

(* What the FIFO and the stream hold together is the same after a chunk    *)
(* has moved from one to the other.                                        *)
LEMMA ChunkMoves ==
  ASSUME NEW q \in Seq(Elem), NEW w \in Seq(Elem), NEW k \in 1 .. Len(w)
  PROVE  /\ SubSeq(w, 1, k) \in Seq(Elem) /\ Len(SubSeq(w, 1, k)) = k
         /\ SubSeq(w, k + 1, Len(w)) \in Seq(Elem)
         /\ Len(SubSeq(w, k + 1, Len(w))) = Len(w) - k
         /\ (q \o SubSeq(w, 1, k)) \o SubSeq(w, k + 1, Len(w)) = q \o w
<1> DEFINE a == SubSeq(w, 1, k)
           b == SubSeq(w, k + 1, Len(w))
<1>1. a \in Seq(Elem) /\ Len(a) = k /\ b \in Seq(Elem) /\ Len(b) = Len(w) - k
  OBVIOUS
<1>2. a \o b = w
  <2>1. SubSeq(w, 1, Len(w)) = w
    OBVIOUS
  <2>2. 1 \in 1 .. Len(w) + 1 /\ k \in 1 - 1 .. Len(w) /\ Len(w) \in k .. Len(w)
    OBVIOUS
  <2> QED
    BY <2>1, <2>2, ConcatAdjacentSubSeq
<1> HIDE DEF a, b
<1>3. (q \o a) \o b = q \o w
  <2>1. \A s, t, u \in Seq(Elem) : (s \o t) \o u = s \o (t \o u)
    OBVIOUS
  <2>2. (q \o a) \o b = q \o (a \o b)
    BY <1>1, <2>1
  <2> QED
    BY <2>2, <1>2
<1> QED
  BY <1>1, <1>3 DEF a, b

(* The same when a part leaves the front of the FIFO.                      *)
LEMMA FrontLeaves ==
  ASSUME NEW q \in Seq(Elem), NEW w \in Seq(Elem), NEW n \in 0 .. Len(q)
  PROVE  /\ SubSeq(q, n + 1, Len(q)) \in Seq(Elem)
         /\ Len(SubSeq(q, n + 1, Len(q))) = Len(q) - n
         /\ SubSeq(q, n + 1, Len(q)) \o w = SubSeq(q \o w, n + 1, Len(q \o w))
<1> DEFINE a == SubSeq(q, n + 1, Len(q))
           s == q \o w
           b == SubSeq(s, n + 1, Len(s))
           c == a \o w
<1>1. a \in Seq(Elem) /\ Len(a) = Len(q) - n /\ \A i \in 1 .. Len(q) - n : a[i] = q[n + i]
  OBVIOUS
<1>2. /\ s \in Seq(Elem) /\ Len(s) = Len(q) + Len(w)
      /\ \A i \in 1 .. Len(q) + Len(w) : s[i] = IF i <= Len(q) THEN q[i] ELSE w[i - Len(q)]
  BY ConcatProperties, Zenon
<1> HIDE DEF s
<1>3. b \in Seq(Elem) /\ Len(b) = Len(s) - n /\ \A i \in 1 .. Len(s) - n : b[i] = s[n + i]
  BY <1>2
<1> HIDE DEF a, b
<1>4. /\ c \in Seq(Elem) /\ Len(c) = Len(a) + Len(w)
      /\ \A i \in 1 .. Len(a) + Len(w) : c[i] = IF i <= Len(a) THEN a[i] ELSE w[i - Len(a)]
  BY <1>1, ConcatProperties, Zenon
<1> HIDE DEF c
<1>5. ASSUME NEW i \in 1 .. Len(c)
      PROVE  c[i] = b[i]
  <2>1. i \in 1 .. Len(a) + Len(w) /\ i \in 1 .. Len(s) - n /\ n + i \in 1 .. Len(q) + Len(w)
    BY <1>1, <1>2, <1>4
  <2>2. CASE i <= Len(a)
    <3>1. i \in 1 .. Len(q) - n /\ n + i <= Len(q)
      BY <2>1, <2>2, <1>1
    <3> QED
      BY <2>1, <2>2, <3>1, <1>1, <1>2, <1>3, <1>4
  <2>3. CASE ~(i <= Len(a))
    <3>1. ~(n + i <= Len(q)) /\ n + i - Len(q) = i - Len(a)
      BY <2>1, <2>3, <1>1
    <3>2. c[i] = w[i - Len(a)] /\ b[i] = s[n + i]
      BY <2>1, <2>3, <1>3, <1>4
    <3>3. s[n + i] = w[n + i - Len(q)]
      BY <2>1, <3>1, <1>2
    <3> QED
      BY <3>1, <3>2, <3>3
  <2> QED
    BY <2>2, <2>3
<1>6. Len(c) = Len(b)
  BY <1>1, <1>2, <1>3, <1>4
<1>7. c = b
  BY <1>3, <1>4, <1>5, <1>6
<1> QED
  BY <1>1, <1>7 DEF a, b, c, s

(* A frame fits into the FIFO.                                             *)
LEMMA FrameFits ==
  FrameLen = 4 /\ Capacity \in Nat /\ FrameLen <= Capacity
BY AssistantAssumption DEF FrameLen

(* The upper computer sends: the FIFO and data_analysis are as before.     *)
LEMMA SendingKeeps ==
  ASSUME AssistantIInv, (\E m \in Messages : SendFrame(m)) \/ (\E b \in Noise : SendNoise(b))
  PROVE  AssistantIInv'
<1>1. wire \in Seq(Elem) /\ queue \in Seq(Elem) /\ due \in Seq(Messages) /\ Judged \in Nat
  BY DEF AssistantIInv, AssistantTypeOK, Judged
<1>2. CASE \E m \in Messages : SendFrame(m)
  <2>1. PICK m \in Messages : SendFrame(m)
    BY <1>2
  <2>2. /\ wire' = wire \o Frame(m) /\ due' = Append(due, m)
        /\ UNCHANGED <<queue, fifo_out, pc, read_length, parameter, update_flag, stray, noisy, chunk_lost>>
    BY <2>1 DEF SendFrame, fifo
  <2>3. Frame(m) \in Seq(Elem)
    BY FrameShape
  <2>4. /\ queue \o wire \in Seq(Elem)
        /\ (queue \o wire)' = (queue \o wire) \o Frame(m)
    <3>1. \A s, t, u \in Seq(Elem) : (s \o t) \o u = s \o (t \o u)
      OBVIOUS
    <3>2. queue \o wire \in Seq(Elem)
      BY <1>1
    <3> QED
      BY <3>1, <3>2, <1>1, <2>2, <2>3
  <2>5. AssistantTypeOK'
    BY <1>1, <2>2, <2>3 DEF AssistantIInv, AssistantTypeOK
  <2>6. WhereItStands' /\ Judged' = Judged
    BY <2>2 DEF AssistantIInv, WhereItStands, Judged
  <2>7. ~chunk_lost' => StartsWhole((queue \o wire)')
    BY <2>2, <2>4, FrameBehind DEF AssistantIInv
  <2>8. Intact' => ~stray' /\ FramesAfter((queue \o wire)', Judged', due')
    <3> SUFFICES ASSUME Intact'
                 PROVE  ~stray' /\ FramesAfter((queue \o wire)', Judged', due')
      OBVIOUS
    <3>1. ~stray /\ FramesAfter(queue \o wire, Judged, due)
      BY <2>2 DEF AssistantIInv, Intact
    <3>2. FramesAfter((queue \o wire) \o Frame(m), Judged, Append(due, m))
      BY <1>1, <2>4, <3>1, FrameBehind
    <3> QED
      BY <2>2, <2>4, <2>6, <3>1, <3>2
  <2> QED
    BY <2>5, <2>6, <2>7, <2>8 DEF AssistantIInv
<1>3. CASE \E b \in Noise : SendNoise(b)
  <2> DEFINE e(b) == [byte |-> b, start |-> FALSE]
  <2>1. PICK b \in Noise : SendNoise(b)
    BY <1>3
  <2>2. /\ wire' = Append(wire, e(b)) /\ noisy' = TRUE
        /\ UNCHANGED <<queue, fifo_out, pc, read_length, parameter, update_flag, stray, due, chunk_lost>>
    BY <2>1 DEF SendNoise, fifo
  <2>3. e(b) \in Elem /\ ~e(b).start
    BY AssistantAssumption DEF Elem
  <2> HIDE DEF e
  <2>4. /\ queue \o wire \in Seq(Elem)
        /\ (queue \o wire)' = Append(queue \o wire, e(b))
    <3>1. \A s, t \in Seq(Elem), x \in Elem : s \o Append(t, x) = Append(s \o t, x)
      OBVIOUS
    <3> QED
      BY <3>1, <1>1, <2>2, <2>3
  <2>5. AssistantTypeOK'
    BY <1>1, <2>2, <2>3 DEF AssistantIInv, AssistantTypeOK
  <2>6. WhereItStands'
    BY <2>2 DEF AssistantIInv, WhereItStands, Judged
  <2>7. ~chunk_lost' => StartsWhole((queue \o wire)')
    BY <2>2, <2>3, <2>4, NoiseBehind DEF AssistantIInv
  <2>8. ~Intact'
    BY <2>2 DEF Intact
  <2> QED
    BY <2>5, <2>6, <2>7, <2>8 DEF AssistantIInv
<1> QED
  BY <1>2, <1>3

(* A chunk moves from the stream into the FIFO, or is lost.                *)
LEMMA ReceiveChunkKeeps ==
  ASSUME AssistantIInv, ReceiveChunk
  PROVE  AssistantIInv'
<1> DEFINE moved(k) == SubSeq(wire, 1, k)
           stays(k) == SubSeq(wire, k + 1, Len(wire))
<1>1. wire \in Seq(Elem) /\ queue \in Seq(Elem) /\ Len(queue) <= Capacity
  BY DEF AssistantIInv, AssistantTypeOK
<1>2. PICK k \in 1 .. Capacity : k <= Len(wire) /\ Queue!Write(moved(k)) /\ wire' = stays(k)
  BY DEF ReceiveChunk
<1>3. k \in 1 .. Len(wire)
  BY <1>1, <1>2, FrameFits
<1>4. /\ pc = "receive" /\ pc' = "scan"
      /\ chunk_lost' = (chunk_lost \/ fifo_out'.state # "FIFO_SUCCESS")
      /\ UNCHANGED <<read_length, parameter, update_flag, stray, due, noisy>>
  BY DEF ReceiveChunk, Local
<1>5. /\ moved(k) \in Seq(Elem) /\ stays(k) \in Seq(Elem)
      /\ (queue \o moved(k)) \o stays(k) = queue \o wire
  BY <1>1, <1>3, ChunkMoves
<1>6. \/ /\ Len(queue) + Len(moved(k)) <= Capacity
         /\ queue' = queue \o moved(k) /\ fifo_out'.state = "FIFO_SUCCESS"
      \/ UNCHANGED queue /\ fifo_out'.state # "FIFO_SUCCESS"
  BY <1>2 DEF Queue!Write, Queue!Result
<1> HIDE DEF moved, stays
<1>7. queue' \in Seq(Elem) /\ Len(queue') <= Capacity
  <2>1. queue \o moved(k) \in Seq(Elem) /\ Len(queue \o moved(k)) = Len(queue) + Len(moved(k))
    BY <1>1, <1>5
  <2> QED
    BY <1>1, <1>6, <2>1
<1>8. AssistantTypeOK'
  BY <1>2, <1>4, <1>5, <1>7 DEF AssistantIInv, AssistantTypeOK
<1>9. WhereItStands' /\ Judged' = 0 /\ Judged = 0
  BY <1>4, <1>7 DEF WhereItStands, Judged
<1>10. ~chunk_lost' => ~chunk_lost /\ (queue \o wire)' = queue \o wire
  BY <1>2, <1>4, <1>5, <1>6
<1>11. Intact' => Intact
  BY <1>4, <1>10 DEF Intact
<1>12. ~chunk_lost' => StartsWhole((queue \o wire)')
  BY <1>10 DEF AssistantIInv
<1>13. Intact' => ~stray' /\ FramesAfter((queue \o wire)', Judged', due')
  BY <1>4, <1>9, <1>10, <1>11 DEF AssistantIInv, Intact
<1> QED
  BY <1>8, <1>9, <1>12, <1>13 DEF AssistantIInv

(* Nothing has come in, an error, a look at the FIFO, the end of a call.   *)
LEMMA LookingKeeps ==
  ASSUME AssistantIInv, ReceiveNothing \/ ReceiveError \/ Peek \/ Return
  PROVE  AssistantIInv'
<1>1. UNCHANGED <<wire, queue, read_length, parameter, update_flag, stray, due, noisy, chunk_lost>>
  <2>1. CASE Peek
    BY <2>1 DEF Peek, Local, ghost, Queue!Read, Queue!Peek, Queue!Clean
  <2> QED
    BY <2>1 DEF ReceiveNothing, ReceiveError, Return, fifo, Local, ghost
<1>2. /\ pc # "discard" /\ pc' # "discard"
      /\ pc' \in {"receive", "scan", "judge"}
  BY DEF ReceiveNothing, ReceiveError, Peek, Return
<1>3. queue \in Seq(Elem)
  BY DEF AssistantIInv, AssistantTypeOK
<1>4. AssistantTypeOK'
  BY <1>1, <1>2 DEF AssistantIInv, AssistantTypeOK
<1>5. Judged = 0 /\ Judged' = 0
  BY <1>2 DEF Judged
<1>6. pc' = "receive" => Len(queue') < FrameLen
  <2>1. pc' = "receive" => Return
    BY DEF ReceiveNothing, ReceiveError, Peek
  <2> QED
    BY <1>1, <1>3, <2>1, FrameFits DEF Return, Enough
<1>7. ASSUME pc' = "judge"
      PROVE  Len(queue') >= FrameLen /\ fifo_out'.data = SubSeq(queue', 1, FrameLen)
  <2>1. Peek
    BY <1>7 DEF ReceiveNothing, ReceiveError, Return
  <2>2. FrameLen <= Len(queue) /\ Len(queue) \in Nat
    BY <2>1, <1>3 DEF Peek, Enough
  <2>3. Queue!Granted(FrameLen) = FrameLen
    BY <2>2, FrameFits DEF Queue!Granted
  <2>4. fifo_out' = Queue!Result("read", <<FrameLen, Queue!Peek>>, Queue!ReadState(FrameLen), SubSeq(queue, 1, FrameLen))
    BY <2>1, <2>3 DEF Peek, Queue!Read
  <2> QED
    BY <2>2, <2>4, <1>1, FrameFits DEF Queue!Result
<1>8. WhereItStands'
  BY <1>1, <1>3, <1>5, <1>6, <1>7 DEF WhereItStands
<1>9. ~chunk_lost' => StartsWhole((queue \o wire)')
  BY <1>1 DEF AssistantIInv
<1>10. Intact' => ~stray' /\ FramesAfter((queue \o wire)', Judged', due')
  BY <1>1, <1>5 DEF AssistantIInv, Intact
<1> QED
  BY <1>4, <1>8, <1>9, <1>10 DEF AssistantIInv

(* What data_analysis sees when it judges: undisturbed it is the frame of  *)
(* the oldest message due, and it is never blind to a frame that starts    *)
(* there.                                                                  *)
LEMMA WhatIsJudged ==
  ASSUME AssistantIInv, pc = "judge"
  PROVE  /\ \A j \in 1 .. FrameLen : fifo_out.data[j] = queue[j] /\ fifo_out.data[j] \in Elem
         /\ Intact => /\ IsFrame(fifo_out.data)
                      /\ due # << >> /\ due[1] \in Messages
                      /\ fifo_out.data[2].byte = due[1].channel
                      /\ fifo_out.data[4].byte = due[1].data
                      /\ FramesAfter(queue \o wire, FrameLen, Tail(due))
         /\ ~chunk_lost /\ ~IsFrame(fifo_out.data) => ~queue[1].start
<1> DEFINE w == fifo_out.data
           s == queue \o wire
<1>1. wire \in Seq(Elem) /\ queue \in Seq(Elem) /\ due \in Seq(Messages) /\ Judged = 0
  BY DEF AssistantIInv, AssistantTypeOK, Judged
<1>2. Len(queue) >= FrameLen /\ w = SubSeq(queue, 1, FrameLen)
  BY DEF AssistantIInv, WhereItStands
<1>3. \A j \in 1 .. FrameLen : w[j] = queue[j] /\ w[j] \in Elem
  BY <1>1, <1>2, FrameFits
<1> HIDE DEF w
<1>4. /\ s \in Seq(Elem) /\ Len(s) >= FrameLen
      /\ \A j \in 1 .. FrameLen : s[j] = queue[j]
  <2>1. /\ s \in Seq(Elem) /\ Len(s) = Len(queue) + Len(wire)
        /\ \A i \in 1 .. Len(queue) + Len(wire) : s[i] = IF i <= Len(queue) THEN queue[i] ELSE wire[i - Len(queue)]
    BY <1>1, ConcatProperties, Zenon
  <2> HIDE DEF s
  <2>2. Len(queue) \in Nat /\ Len(wire) \in Nat
    BY <1>1
  <2>3. \A j \in 1 .. FrameLen : j \in 1 .. Len(queue) + Len(wire) /\ j <= Len(queue)
    BY <1>2, <2>2, FrameFits
  <2> QED
    BY <1>2, <2>1, <2>2, <2>3, FrameFits
<1> HIDE DEF s
<1>5. ASSUME Intact
      PROVE  /\ IsFrame(w) /\ due # << >> /\ due[1] \in Messages
             /\ w[2].byte = due[1].channel /\ w[4].byte = due[1].data
             /\ FramesAfter(s, FrameLen, Tail(due))
  <2>1. FramesAfter(s, 0, due)
    BY <1>1, <1>5 DEF AssistantIInv, s
  <2>2. /\ due # << >> /\ due[1] \in Messages /\ FramesAfter(s, FrameLen, Tail(due))
        /\ \A j \in 1 .. FrameLen : s[j] = Frame(due[1])[j]
    BY <1>1, <1>4, <2>1, FirstFrame
  <2>3. \A j \in 1 .. FrameLen : w[j] = Frame(due[1])[j]
    BY <1>3, <1>4, <2>2
  <2>4. IsFrame(w)
    BY <2>2, <2>3, FrameShape, SameFrame
  <2>5. 2 \in 1 .. FrameLen /\ 4 \in 1 .. FrameLen
    BY FrameFits
  <2> QED
    BY <2>2, <2>3, <2>4, <2>5, FrameShape
<1>6. ASSUME ~chunk_lost, ~IsFrame(w)
      PROVE  ~queue[1].start
  <2>1. StartsWhole(s)
    BY <1>6 DEF AssistantIInv, s
  <2>2. s[1] = queue[1]
    BY <1>4, FrameFits
  <2>3. \A j \in 1 .. FrameLen : w[j] = s[j]
    BY <1>3, <1>4
  <2> QED
    BY <1>4, <1>6, <2>1, <2>2, <2>3, StartIsFound
<1> QED
  BY <1>3, <1>5, <1>6 DEF w, s

(* A frame is taken, or one byte is skipped.                               *)
LEMMA JudgeKeeps ==
  ASSUME AssistantIInv, Judge
  PROVE  AssistantIInv'
<1> DEFINE w == fifo_out.data
           c == w[2].byte
<1>1. pc = "judge" /\ pc' = "discard" /\ UNCHANGED <<wire, queue, fifo_out, noisy, chunk_lost>>
  BY DEF Judge, fifo
<1>2. /\ queue \in Seq(Elem) /\ due \in Seq(Messages) /\ Len(queue) >= FrameLen
      /\ parameter \in [1 .. Channels -> 0 .. ByteMod - 1]
      /\ update_flag \in [1 .. Channels -> 0 .. 1]
  BY <1>1 DEF AssistantIInv, AssistantTypeOK, WhereItStands
<1>3. w[4].byte \in 0 .. ByteMod - 1
  BY <1>1, WhatIsJudged, FrameFits DEF Elem
<1>4. \/ /\ IsFrame(w) /\ read_length' = FrameLen
         /\ due' = IF due = << >> THEN due ELSE Tail(due)
         /\ \/ c \in 1 .. Channels /\ Stored(c, w[4].byte) /\ UNCHANGED stray
            \/ c \notin 1 .. Channels /\ stray' = TRUE /\ UNCHANGED <<parameter, update_flag>>
      \/ ~IsFrame(w) /\ read_length' = 1 /\ UNCHANGED <<parameter, update_flag, stray, due>>
  BY DEF Judge, Taken, Skipped
<1> HIDE DEF w, c
<1>5. /\ read_length' \in 1 .. Capacity /\ read_length' <= Len(queue)
      /\ due' \in Seq(Messages)
  <2>1. Len(queue) \in Nat
    BY <1>2
  <2>2. read_length' = FrameLen \/ read_length' = 1
    BY <1>4
  <2>3. read_length' \in 1 .. Capacity /\ read_length' <= Len(queue)
    BY <1>2, <2>1, <2>2, FrameFits
  <2>4. due' \in {due, Tail(due)} /\ (due = << >> => due' = due)
    BY <1>4
  <2>5. due' \in Seq(Messages)
    BY <1>2, <2>4
  <2> QED
    BY <2>3, <2>5
<1>6. /\ parameter' \in [1 .. Channels -> 0 .. ByteMod - 1]
      /\ update_flag' \in [1 .. Channels -> 0 .. 1]
  <2>1. CASE Stored(c, w[4].byte)
    <3>1. ASSUME NEW d \in 0 .. ByteMod - 1, Stored(c, d)
          PROVE  /\ parameter' \in [1 .. Channels -> 0 .. ByteMod - 1]
                 /\ update_flag' \in [1 .. Channels -> 0 .. 1]
      <4>1. parameter' = [parameter EXCEPT ![c] = d] /\ update_flag' = [update_flag EXCEPT ![c] = 1]
        BY <3>1 DEF Stored
      <4>2. \A S, T, f, a, b : f \in [S -> T] /\ b \in T => [f EXCEPT ![a] = b] \in [S -> T]
        OBVIOUS
      <4>3. parameter' \in [1 .. Channels -> 0 .. ByteMod - 1]
        BY <4>1, <4>2, <1>2, Zenon
      <4>4. 1 \in 0 .. 1
        OBVIOUS
      <4> QED
        BY <4>1, <4>2, <4>3, <4>4, <1>2, Zenon
    <3> QED
      BY <2>1, <1>3, <3>1
  <2> QED
    BY <2>1, <1>2, <1>4
<1>7. stray' \in BOOLEAN
  BY <1>4 DEF AssistantIInv, AssistantTypeOK
<1>8. AssistantTypeOK'
  BY <1>1, <1>5, <1>6, <1>7 DEF AssistantIInv, AssistantTypeOK
<1>9. WhereItStands' /\ Judged' = read_length'
  BY <1>1, <1>5 DEF WhereItStands, Judged
<1>10. ~chunk_lost' => StartsWhole((queue \o wire)')
  BY <1>1 DEF AssistantIInv
<1>11. ASSUME Intact'
       PROVE  ~stray' /\ FramesAfter((queue \o wire)', Judged', due')
  <2>1. Intact
    BY <1>1, <1>11 DEF Intact
  <2>2. /\ IsFrame(w) /\ due # << >> /\ due[1] \in Messages /\ c = due[1].channel
        /\ FramesAfter(queue \o wire, FrameLen, Tail(due))
    BY <1>1, <2>1, WhatIsJudged DEF w, c
  <2>3. c \in 1 .. Channels
    BY <2>2, AssistantAssumption
  <2>4. ~stray
    BY <2>1 DEF AssistantIInv
  <2>5. ~stray' /\ read_length' = FrameLen /\ due' = Tail(due)
    BY <1>4, <2>2, <2>3, <2>4
  <2> QED
    BY <1>1, <1>9, <2>2, <2>5
<1> QED
  BY <1>8, <1>9, <1>10, <1>11 DEF AssistantIInv

(* What was judged leaves the FIFO.                                        *)
LEMMA DiscardKeeps ==
  ASSUME AssistantIInv, Discard
  PROVE  AssistantIInv'
<1>1. /\ wire \in Seq(Elem) /\ queue \in Seq(Elem) /\ Len(queue) <= Capacity
      /\ due \in Seq(Messages) /\ Capacity \in Nat
  BY FrameFits DEF AssistantIInv, AssistantTypeOK
<1>2. pc = "discard" /\ read_length \in 1 .. Capacity /\ read_length <= Len(queue) /\ Judged = read_length
  BY DEF Discard, AssistantIInv, AssistantTypeOK, WhereItStands, Judged
<1>3. /\ pc' = "scan"
      /\ UNCHANGED <<wire, read_length, parameter, update_flag, stray, due, noisy, chunk_lost>>
  BY DEF Discard, Local, ghost
<1>4. queue' = SubSeq(queue, read_length + 1, Len(queue))
  <2>1. Queue!Granted(read_length) = read_length
    BY <1>1, <1>2 DEF Queue!Granted
  <2>2. queue' = SubSeq(queue, Queue!Granted(read_length) + 1, Len(queue))
    BY DEF Discard, Queue!Read
  <2> QED
    BY <2>1, <2>2
<1>5. read_length \in 0 .. Len(queue)
  BY <1>1, <1>2
<1>6. /\ queue' \in Seq(Elem) /\ Len(queue') = Len(queue) - read_length
      /\ (queue \o wire)' = SubSeq(queue \o wire, read_length + 1, Len(queue \o wire))
  BY <1>1, <1>3, <1>4, <1>5, FrontLeaves
<1>7. queue \o wire \in Seq(Elem) /\ read_length \in 0 .. Len(queue \o wire)
  BY <1>1, <1>5
<1>8. AssistantTypeOK'
  BY <1>1, <1>3, <1>5, <1>6 DEF AssistantIInv, AssistantTypeOK
<1>9. WhereItStands' /\ Judged' = 0
  BY <1>3, <1>6 DEF WhereItStands, Judged
<1>10. ~chunk_lost' => StartsWhole((queue \o wire)')
  BY <1>3, <1>6, <1>7, FramesBehind DEF AssistantIInv
<1>11. ASSUME Intact'
       PROVE  ~stray' /\ FramesAfter((queue \o wire)', Judged', due')
  <2>1. ~stray /\ FramesAfter(queue \o wire, read_length, due)
    BY <1>2, <1>3, <1>11 DEF AssistantIInv, Intact
  <2>2. FramesAfter((queue \o wire)', 0, due)
    BY <1>1, <1>6, <1>7, <2>1, FramesBehind
  <2> QED
    BY <1>3, <1>9, <2>1, <2>2
<1> QED
  BY <1>8, <1>9, <1>10, <1>11 DEF AssistantIInv

(* At the beginning nothing has been sent.                                 *)
LEMMA AssistantBegins == AssistantInit => AssistantIInv
<1> SUFFICES ASSUME AssistantInit
             PROVE  AssistantIInv
  OBVIOUS
<1>1. /\ wire = << >> /\ queue = << >> /\ due = << >> /\ pc = "receive" /\ read_length = 1
      /\ ~stray /\ stray = FALSE /\ noisy = FALSE /\ chunk_lost = FALSE
  BY DEF AssistantInit, Queue!Init
<1>2. AssistantTypeOK
  <2>1. /\ parameter \in [1 .. Channels -> 0 .. ByteMod - 1]
        /\ update_flag \in [1 .. Channels -> 0 .. 1]
    BY AssistantAssumption DEF AssistantInit
  <2>2. wire \in Seq(Elem) /\ queue \in Seq(Elem) /\ due \in Seq(Messages) /\ Len(queue) = 0
    BY <1>1
  <2>3. read_length \in 1 .. Capacity /\ Len(queue) <= Capacity
    BY <1>1, <2>2, FrameFits
  <2>4. {stray, noisy, chunk_lost} \subseteq BOOLEAN
    BY <1>1
  <2> QED
    BY <1>1, <2>1, <2>2, <2>3, <2>4 DEF AssistantTypeOK
<1>3. Judged = 0 /\ WhereItStands
  BY <1>1, FrameFits DEF Judged, WhereItStands
<1>4. queue \o wire = << >>
  BY <1>1
<1>5. StartsWhole(<< >>)
  BY DEF StartsWhole
<1>6. FramesAfter(<< >>, 0, << >>)
  BY DEF FramesAfter, FrameLen
<1> QED
  BY <1>1, <1>2, <1>3, <1>4, <1>5, <1>6 DEF AssistantIInv

(* Every step keeps the invariant.                                         *)
LEMMA AssistantStep == AssistantIInv /\ [AssistantNext]_assistantVars => AssistantIInv'
<1> SUFFICES ASSUME AssistantIInv, [AssistantNext]_assistantVars
             PROVE  AssistantIInv'
  OBVIOUS
<1>1. CASE AssistantNext
  BY <1>1, SendingKeeps, ReceiveChunkKeeps, LookingKeeps, JudgeKeeps, DiscardKeeps
     DEF AssistantNext, Analysis
<1>2. CASE UNCHANGED assistantVars
  BY <1>2 DEF assistantVars, fifo, ghost, AssistantIInv, AssistantTypeOK, WhereItStands, Judged, Intact
<1> QED
  BY <1>1, <1>2

(* A parameter is written only where the oldest message due wants it.      *)
LEMMA AssistantStores ==
  ASSUME AssistantIInv, [AssistantNext]_assistantVars, Intact,
         <<parameter, update_flag>>' # <<parameter, update_flag>>
  PROVE  /\ due # << >>
         /\ due' = Tail(due)
         /\ parameter' = [parameter EXCEPT ![due[1].channel] = due[1].data]
         /\ update_flag' = [update_flag EXCEPT ![due[1].channel] = 1]
<1>1. Judge
  BY DEF AssistantNext, Analysis, SendFrame, SendNoise, ReceiveChunk, ReceiveNothing, ReceiveError,
         Peek, Return, Discard, Local, assistantVars
<1>2. /\ IsFrame(fifo_out.data) /\ due # << >>
      /\ fifo_out.data[2].byte = due[1].channel
      /\ fifo_out.data[4].byte = due[1].data
  BY <1>1, WhatIsJudged DEF Judge
<1>3. /\ due' = Tail(due)
      /\ \/ Stored(fifo_out.data[2].byte, fifo_out.data[4].byte)
         \/ UNCHANGED <<parameter, update_flag>>
  BY <1>1, <1>2 DEF Judge
<1>4. Stored(due[1].channel, due[1].data)
  BY <1>2, <1>3
<1> QED
  BY <1>2, <1>3, <1>4 DEF Stored

(* What is skipped is no start of a frame.                                 *)
LEMMA AssistantSkips ==
  ASSUME AssistantIInv, [AssistantNext]_assistantVars,
         pc = "judge", pc' = "discard", ~IsFrame(fifo_out.data), ~chunk_lost
  PROVE  \A i \in 1 .. read_length' : ~queue[i].start
<1>1. Judge
  BY DEF AssistantNext, Analysis, SendFrame, SendNoise, ReceiveChunk, ReceiveNothing, ReceiveError,
         Peek, Return, Discard, assistantVars
<1>2. read_length' = 1
  BY <1>1 DEF Judge, Skipped
<1>3. ~queue[1].start
  BY WhatIsJudged
<1> QED
  BY <1>2, <1>3

(* What is lost did not fit beside less than a frame.                      *)
LEMMA AssistantLoses ==
  ASSUME AssistantIInv, [AssistantNext]_assistantVars, ~chunk_lost, chunk_lost'
  PROVE  Len(wire) - Len(wire') > Capacity - FrameLen + 1
<1>1. ReceiveChunk
  BY DEF AssistantNext, Analysis, SendFrame, SendNoise, ReceiveNothing, ReceiveError,
         Peek, Return, Judge, Discard, ghost, assistantVars
<1>2. PICK k \in 1 .. Capacity :
        /\ k <= Len(wire) /\ Queue!Write(SubSeq(wire, 1, k))
        /\ wire' = SubSeq(wire, k + 1, Len(wire))
  BY <1>1 DEF ReceiveChunk
<1>3. wire \in Seq(Elem) /\ queue \in Seq(Elem) /\ Len(queue) < FrameLen
  BY <1>1 DEF AssistantIInv, AssistantTypeOK, WhereItStands, ReceiveChunk
<1>4. k \in 1 .. Len(wire)
  BY <1>2, <1>3, FrameFits
<1>5. Len(SubSeq(wire, 1, k)) = k /\ Len(wire') = Len(wire) - k
  BY <1>2, <1>3, <1>4, ChunkMoves
<1>6. Len(queue) + k > Capacity
  <2>1. fifo_out'.state # "FIFO_SUCCESS"
    BY <1>1 DEF ReceiveChunk
  <2>2. ~(Len(queue) + Len(SubSeq(wire, 1, k)) <= Capacity)
    BY <1>2, <2>1 DEF Queue!Write, Queue!Result
  <2>3. Len(queue) \in Nat
    BY <1>3
  <2> QED
    BY <2>2, <2>3, <1>4, <1>5, FrameFits
<1>7. Len(queue) \in Nat /\ Len(wire) \in Nat /\ k \in Nat
  BY <1>3, <1>4
<1> QED
  BY <1>3, <1>5, <1>6, <1>7, FrameFits

(* What is received is what was sent, however the stream is cut into       *)
(* chunks, for any capacity and any set of messages.                       *)
THEOREM StoresWhatWasSent == AssistantSpec => ReceivedAsSent
<1>1. AssistantInit => AssistantIInv
  BY AssistantBegins
<1>2. AssistantIInv /\ [AssistantNext]_assistantVars => AssistantIInv'
  BY AssistantStep
<1>3. AssistantIInv => StrayNeedsDamage
  BY DEF AssistantIInv, StrayNeedsDamage
<1>4. AssistantIInv /\ [AssistantNext]_assistantVars
        => (Intact /\ <<parameter, update_flag>>' # <<parameter, update_flag>>
              => /\ due # << >>
                 /\ due' = Tail(due)
                 /\ parameter' = [parameter EXCEPT ![due[1].channel] = due[1].data]
                 /\ update_flag' = [update_flag EXCEPT ![due[1].channel] = 1])
  BY AssistantStores
<1>5. AssistantIInv /\ [AssistantNext]_assistantVars
        => (pc = "judge" /\ pc' = "discard" /\ ~IsFrame(fifo_out.data) /\ ~chunk_lost
              => \A i \in 1 .. read_length' : ~queue[i].start)
  BY AssistantSkips
<1>6. AssistantIInv /\ [AssistantNext]_assistantVars
        => (~chunk_lost /\ chunk_lost' => Len(wire) - Len(wire') > Capacity - FrameLen + 1)
  BY AssistantLoses
<1> QED
  BY <1>1, <1>2, <1>3, <1>4, <1>5, <1>6, PTL
     DEF AssistantSpec, ReceivedAsSent, StoredInOrder, StartsKept, OnlyLongChunksLost


-----------------------------------------------------------------------------
(* The image client.                                                       *)

Entry == [is : {"number", "byte"}, v : Int]

ImageTypeOK ==
  /\ img_buffer \in Nat /\ total_sent \in Nat
  /\ place \in {"idle", "pieces"}
  /\ stream \in Seq(Entry)

(* All that was announced is there; or all but what follows the last       *)
(* length, of which the bytes sent are there.                              *)
WholeBut(s, p) ==
  \A i \in DOMAIN s : i # p /\ s[i].is = "number" => i + Announces(s[i]) <= Len(s)
BeingSent(s, p) ==
  /\ total_sent <= img_buffer /\ p \in DOMAIN s
  /\ s[p] = Number(img_buffer)
  /\ WholeBut(s, p)

ImageIInv ==
  /\ ImageTypeOK
  /\ ~failed => /\ Readable(stream)
                /\ place = "idle" => WholeBut(stream, 0)
                /\ place = "pieces" => BeingSent(stream, Len(stream) - total_sent)

(* A length is a number.                                                   *)
LEMMA AnnouncesInt ==
  ASSUME NEW s \in Seq(Entry), NEW i \in DOMAIN s
  PROVE  Announces(s[i]) \in Int
<1>1. s[i] \in Entry
  <2>1. i \in 1 .. Len(s)
    OBVIOUS
  <2> QED
    BY <2>1, ElementOfSeq
<1>2. s[i].v \in Int
  BY <1>1 DEF Entry
<1> QED
  BY <1>2 DEF Announces

(* A number behind whole pictures is read as one.                          *)
LEMMA NumberBehind ==
  ASSUME NEW s \in Seq(Entry), NEW n \in Int, Readable(s), WholeBut(s, 0)
  PROVE  /\ Append(s, Number(n)) \in Seq(Entry)
         /\ Readable(Append(s, Number(n)))
         /\ WholeBut(Append(s, Number(n)), Len(s) + 1)
<1> DEFINE x == Number(n)
           t == Append(s, x)
<1>1. x \in Entry /\ x.is = "number"
  BY DEF Number, Entry
<1> HIDE DEF x
<1>2. /\ t \in Seq(Entry) /\ DOMAIN t = 1 .. Len(s) + 1 /\ Len(t) = Len(s) + 1
      /\ t[Len(s) + 1] = x /\ \A i \in DOMAIN s : t[i] = s[i]
      /\ DOMAIN s = 1 .. Len(s) /\ Len(s) \in Nat
  BY <1>1
<1> HIDE DEF t
<1>3. ASSUME NEW i \in DOMAIN s, s[i].is = "number"
      PROVE  i + Announces(t[i]) <= Len(s) /\ Announces(t[i]) = Announces(s[i])
  BY <1>2, <1>3 DEF WholeBut
<1>4. \A i \in DOMAIN s : s[i].is = "number" => Announces(s[i]) \in Int
  BY AnnouncesInt
<1>5. ASSUME NEW i \in DOMAIN t
      PROVE  \/ /\ t[i].is = "number"
                /\ \A j \in 1 .. Announces(t[i]) : i + j \in DOMAIN t => t[i + j] = Byte(j)
             \/ /\ t[i].is = "byte"
                /\ \E k \in 1 .. i - 1 :
                     t[i] = Byte(k) /\ t[i - k].is = "number" /\ k <= Announces(t[i - k])
  <2>1. CASE i = Len(s) + 1
    BY <2>1, <1>1, <1>2
  <2>2. CASE i \in DOMAIN s /\ s[i].is = "number"
    <3>1. ASSUME NEW j \in 1 .. Announces(t[i])
          PROVE  t[i + j] = Byte(j)
      <4>1. i + j \in DOMAIN s /\ j \in 1 .. Announces(s[i])
        BY <1>2, <1>3, <1>4, <2>2
      <4>2. s[i + j] = Byte(j)
        BY <2>2, <4>1 DEF Readable
      <4> QED
        BY <1>2, <4>1, <4>2
    <3> QED
      BY <3>1, <2>2, <1>2
  <2>3. CASE i \in DOMAIN s /\ s[i].is # "number"
    <3>1. PICK k \in 1 .. i - 1 : s[i] = Byte(k) /\ s[i - k].is = "number" /\ k <= Announces(s[i - k])
      BY <2>3 DEF Readable
    <3>2. i - k \in DOMAIN s /\ s[i].is = "byte"
      BY <3>1, <2>3, <1>2 DEF Byte
    <3>3. t[i] = Byte(k) /\ t[i - k].is = "number" /\ k <= Announces(t[i - k])
      BY <3>1, <3>2, <2>3, <1>2
    <3> QED
      BY <3>2, <3>3, <2>3, <1>2
  <2> QED
    BY <2>1, <2>2, <2>3, <1>2
<1>6. WholeBut(t, Len(s) + 1)
  <2> SUFFICES ASSUME NEW i \in DOMAIN t, i # Len(s) + 1, t[i].is = "number"
               PROVE  i + Announces(t[i]) <= Len(t)
    BY DEF WholeBut
  <2>1. i \in DOMAIN s /\ s[i].is = "number"
    BY <1>2
  <2>2. i + Announces(t[i]) <= Len(s) /\ Announces(t[i]) \in Int
    BY <2>1, <1>3, <1>4
  <2> QED
    BY <2>1, <2>2, <1>2
<1> QED
  BY <1>2, <1>5, <1>6 DEF Readable, t, x

(* A piece goes on where the last one ended.                               *)
LEMMA PieceBehind ==
  ASSUME NEW s \in Seq(Entry), NEW n \in Nat, ImageTypeOK, Readable(s),
         BeingSent(s, Len(s) - total_sent), total_sent + n <= img_buffer
  PROVE  /\ s \o Piece(n) \in Seq(Entry) /\ Len(s \o Piece(n)) = Len(s) + n
         /\ Readable(s \o Piece(n))
         /\ (s \o Piece(n))[Len(s) - total_sent] = Number(img_buffer)
         /\ WholeBut(s \o Piece(n), Len(s) - total_sent)
<1> DEFINE b == Piece(n)
           t == s \o b
           p == Len(s) - total_sent
<1>1. img_buffer \in Nat /\ total_sent \in Nat
  BY DEF ImageTypeOK
<1>2. b \in Seq(Entry) /\ Len(b) = n /\ \A i \in 1 .. n : b[i] = Byte(total_sent + i)
  <2>1. \A i \in 1 .. n : Byte(total_sent + i) \in Entry
    BY <1>1 DEF Byte, Entry
  <2> QED
    BY <2>1 DEF Piece
<1> HIDE DEF b
<1>3. /\ t \in Seq(Entry) /\ Len(t) = Len(s) + Len(b)
      /\ \A i \in 1 .. Len(s) + Len(b) : t[i] = IF i <= Len(s) THEN s[i] ELSE b[i - Len(s)]
  BY <1>2, ConcatProperties, Zenon
<1> HIDE DEF t
<1>4. /\ DOMAIN s = 1 .. Len(s) /\ Len(s) \in Nat
      /\ DOMAIN t = 1 .. Len(s) + n
      /\ \A i \in 1 .. Len(s) : t[i] = s[i]
  BY <1>2, <1>3
<1>5. \A i \in 1 .. n : t[Len(s) + i] = Byte(total_sent + i)
  <2> SUFFICES ASSUME NEW i \in 1 .. n
               PROVE  t[Len(s) + i] = Byte(total_sent + i)
    OBVIOUS
  <2>1. /\ Len(s) + i \in 1 .. Len(s) + Len(b) /\ ~(Len(s) + i <= Len(s))
        /\ Len(s) + i - Len(s) = i
    BY <1>2, <1>4
  <2> QED
    BY <2>1, <1>2, <1>3
<1>6. /\ p \in DOMAIN s /\ s[p] = Number(img_buffer) /\ t[p] = Number(img_buffer)
      /\ p \in 1 .. Len(s) /\ Len(s) = p + total_sent
  BY <1>1, <1>4 DEF BeingSent
<1>7. s[p].is = "number" /\ Announces(s[p]) = img_buffer
  BY <1>1, <1>6 DEF Number, Announces
<1> HIDE DEF p
<1>8. \A i \in DOMAIN s : Announces(s[i]) \in Int
  BY AnnouncesInt
<1>9. ASSUME NEW i \in 1 .. Len(s), s[i].is = "number", NEW j \in 1 .. Announces(s[i]), i + j \in DOMAIN t
      PROVE  t[i + j] = Byte(j)
  <2>1. CASE i + j <= Len(s)
    <3>1. i + j \in DOMAIN s
      BY <2>1, <1>4, <1>8
    <3>2. s[i + j] = Byte(j)
      BY <3>1, <1>4, <1>9 DEF Readable
    <3> QED
      BY <3>1, <3>2, <1>4
  <2>2. CASE i + j > Len(s)
    <3>1. i = p
      <4>1. i # p => i + Announces(s[i]) <= Len(s)
        BY <1>4, <1>9 DEF BeingSent, WholeBut, p
      <4> QED
        BY <4>1, <2>2, <1>4, <1>8, <1>9
    <3>2. j - total_sent \in 1 .. n /\ i + j = Len(s) + (j - total_sent)
          /\ total_sent + (j - total_sent) = j
      BY <3>1, <2>2, <1>1, <1>4, <1>6, <1>7, <1>9
    <3> QED
      BY <3>2, <1>5
  <2> QED
    BY <2>1, <2>2, <1>4, <1>8
<1>10. ASSUME NEW i \in DOMAIN t
       PROVE  \/ /\ t[i].is = "number"
                 /\ \A j \in 1 .. Announces(t[i]) : i + j \in DOMAIN t => t[i + j] = Byte(j)
              \/ /\ t[i].is = "byte"
                 /\ \E k \in 1 .. i - 1 :
                      t[i] = Byte(k) /\ t[i - k].is = "number" /\ k <= Announces(t[i - k])
  <2>1. CASE i \in 1 .. Len(s) /\ s[i].is = "number"
    BY <2>1, <1>4, <1>9
  <2>2. CASE i \in 1 .. Len(s) /\ s[i].is # "number"
    <3>1. PICK k \in 1 .. i - 1 : s[i] = Byte(k) /\ s[i - k].is = "number" /\ k <= Announces(s[i - k])
      BY <2>2, <1>4 DEF Readable
    <3>2. i - k \in 1 .. Len(s) /\ s[i].is = "byte"
      BY <3>1, <2>2, <1>4 DEF Byte
    <3>3. t[i] = Byte(k) /\ t[i - k].is = "number" /\ k <= Announces(t[i - k])
      BY <3>1, <3>2, <2>2, <1>4
    <3> QED
      BY <3>2, <3>3, <2>2, <1>4
  <2>3. CASE i \notin 1 .. Len(s)
    <3>1. i - Len(s) \in 1 .. n /\ Len(s) + (i - Len(s)) = i
      BY <2>3, <1>4
    <3>2. t[i] = Byte(total_sent + (i - Len(s)))
      BY <3>1, <1>5
    <3>3. total_sent + (i - Len(s)) = i - p /\ i - p \in 1 .. i - 1 /\ i - (i - p) = p /\ i - p <= img_buffer
      <4>1. i \in Int /\ p \in Int /\ Len(s) \in Int /\ total_sent \in Int /\ p >= 1 /\ i > Len(s)
        BY <3>1, <1>1, <1>4, <1>6
      <4>2. i - Len(s) <= n /\ total_sent + n <= img_buffer /\ n \in Int /\ img_buffer \in Int
        BY <3>1, <1>1
      <4>3. Len(s) = p + total_sent
        BY <1>6
      <4>4. total_sent >= 0
        BY <1>1
      <4> QED
        BY <4>1, <4>2, <4>3, <4>4
    <3>4. t[i].is = "byte" /\ t[i] = Byte(i - p)
      BY <3>2, <3>3 DEF Byte
    <3>5. t[p] = s[p]
      BY <1>4, <1>6
    <3>6. t[i - (i - p)].is = "number" /\ i - p <= Announces(t[i - (i - p)])
      BY <3>3, <3>5, <1>7
    <3> QED
      BY <3>3, <3>4, <3>6
  <2> QED
    BY <2>1, <2>2, <2>3
<1>11. WholeBut(t, p)
  <2> SUFFICES ASSUME NEW i \in DOMAIN t, i # p, t[i].is = "number"
               PROVE  i + Announces(t[i]) <= Len(t)
    BY DEF WholeBut
  <2>1. i \in 1 .. Len(s)
    <3> SUFFICES ASSUME i \notin 1 .. Len(s)
                 PROVE  FALSE
      OBVIOUS
    <3>1. i - Len(s) \in 1 .. n /\ Len(s) + (i - Len(s)) = i
      BY <1>4
    <3>2. t[i] = Byte(total_sent + (i - Len(s)))
      BY <3>1, <1>5
    <3> QED
      BY <3>2 DEF Byte
  <2>2. t[i] = s[i]
    BY <2>1, <1>4
  <2>3. i + Announces(s[i]) <= Len(s) /\ Announces(s[i]) \in Int
    BY <2>1, <2>2, <1>4, <1>8 DEF BeingSent, WholeBut, p
  <2> QED
    BY <2>1, <2>2, <2>3, <1>2, <1>3, <1>4
<1> QED
  BY <1>2, <1>3, <1>6, <1>10, <1>11 DEF Readable, t, b, p

(* Once the last picture is whole as well, all of them are.                *)
LEMMA WholeAfterLast ==
  ASSUME NEW s \in Seq(Entry), NEW p \in DOMAIN s, WholeBut(s, p), p + Announces(s[p]) <= Len(s)
  PROVE  WholeBut(s, 0)
BY DEF WholeBut
(* One step of the client: what is behind the last length grows, and what *)
(* is before it stays as it was.                                           *)
LEMMA ImageStep == ImageIInv /\ [ImageNext]_imageVars => ImageIInv'
<1> SUFFICES ASSUME ImageIInv, [ImageNext]_imageVars
             PROVE  ImageIInv'
  OBVIOUS
<1>1. /\ img_buffer \in Nat /\ total_sent \in Nat /\ stream \in Seq(Entry)
      /\ place \in {"idle", "pieces"}
  BY DEF ImageIInv, ImageTypeOK
<1>2. Len(stream) \in Nat
  BY <1>1
<1>3. CASE Imencode
  <2>1. /\ img_buffer' \in Nat /\ place = "idle"
        /\ UNCHANGED <<place, total_sent, stream, failed>>
    BY <1>3, ImageAssumption DEF Imencode, Begin
  <2> QED
    BY <2>1, <1>1 DEF ImageIInv, ImageTypeOK
<1>4. CASE SendInt
  <2>1. PICK ok \in BOOLEAN :
          /\ stream' = IF ok THEN Append(stream, Number(-1)) ELSE stream
          /\ failed' = (failed \/ ~ok)
    BY <1>4 DEF SendInt
  <2>2. place = "idle" /\ UNCHANGED <<img_buffer, place, total_sent>>
    BY <1>4 DEF SendInt, Begin
  <2>3. Number(-1) \in Entry /\ Announces(Number(-1)) = 0
    BY DEF Number, Entry, Announces
  <2>4. stream' \in Seq(Entry)
    BY <1>1, <2>1, <2>3
  <2>5. ASSUME ~failed'
        PROVE  Readable(stream') /\ WholeBut(stream', 0)
    <3>1. ok /\ ~failed /\ stream' = Append(stream, Number(-1))
      BY <2>1, <2>5
    <3>2. Readable(stream) /\ WholeBut(stream, 0)
      BY <2>2, <3>1 DEF ImageIInv
    <3>3. Readable(stream') /\ WholeBut(stream', Len(stream) + 1)
      BY <1>1, <3>1, <3>2, NumberBehind
    <3>4. /\ Len(stream) + 1 \in DOMAIN stream' /\ Len(stream') = Len(stream) + 1
          /\ stream'[Len(stream) + 1] = Number(-1)
      BY <1>1, <2>3, <3>1
    <3>5. WholeBut(stream', 0)
      BY <1>2, <2>3, <2>4, <3>3, <3>4, WholeAfterLast
    <3> QED
      BY <3>3, <3>5
  <2> QED
    BY <1>1, <2>2, <2>4, <2>5 DEF ImageIInv, ImageTypeOK
<1>5. CASE SendLength
  <2>1. PICK ok \in BOOLEAN :
          /\ stream' = IF ok THEN Append(stream, Number(img_buffer)) ELSE stream
          /\ failed' = (failed \/ ~ok)
          /\ place' = IF ok THEN "pieces" ELSE "idle"
    BY <1>5 DEF SendLength
  <2>2. place = "idle" /\ total_sent' = 0 /\ UNCHANGED img_buffer
    BY <1>5 DEF SendLength, Begin
  <2>3. Number(img_buffer) \in Entry
    BY <1>1 DEF Number, Entry
  <2>4. stream' \in Seq(Entry) /\ place' \in {"idle", "pieces"}
    BY <1>1, <2>1, <2>3
  <2>5. ASSUME ~failed'
        PROVE  Readable(stream') /\ BeingSent(stream, Len(stream) - total_sent)' /\ place' = "pieces"
    <3>1. ok /\ ~failed /\ stream' = Append(stream, Number(img_buffer)) /\ place' = "pieces"
      BY <2>1, <2>5
    <3>2. Readable(stream) /\ WholeBut(stream, 0)
      BY <2>2, <3>1 DEF ImageIInv
    <3>3. Readable(stream') /\ WholeBut(stream', Len(stream) + 1)
      BY <1>1, <3>1, <3>2, NumberBehind
    <3>4. /\ Len(stream) + 1 \in DOMAIN stream' /\ Len(stream') = Len(stream) + 1
          /\ stream'[Len(stream) + 1] = Number(img_buffer)
      BY <1>1, <2>3, <3>1
    <3>5. Len(stream') - total_sent' = Len(stream) + 1
      BY <1>2, <2>2, <3>4
    <3> QED
      BY <1>1, <2>2, <3>1, <3>3, <3>4, <3>5 DEF BeingSent
  <2> QED
    BY <1>1, <2>2, <2>4, <2>5 DEF ImageIInv, ImageTypeOK
<1>6. CASE SendPiece
  <2>1. PICK n \in 0 .. img_buffer - total_sent :
          /\ stream' = stream \o Piece(n)
          /\ total_sent' = total_sent + n
          /\ failed' = (failed \/ n = 0)
          /\ place' = IF n = 0 THEN "idle" ELSE place
    BY <1>6 DEF SendPiece
  <2>2. place = "pieces" /\ UNCHANGED img_buffer /\ total_sent < img_buffer
    BY <1>6 DEF SendPiece
  <2>3. n \in Nat /\ total_sent + n <= img_buffer
    BY <1>1, <2>1, <2>2
  <2>4. Piece(n) \in Seq(Entry)
    <3>1. \A i \in 1 .. n : Byte(total_sent + i) \in Entry
      BY <1>1, <2>3 DEF Byte, Entry
    <3> QED
      BY <2>3, <3>1 DEF Piece
  <2>5. ImageTypeOK'
    BY <1>1, <2>1, <2>2, <2>3, <2>4 DEF ImageTypeOK
  <2>6. ASSUME ~failed'
        PROVE  Readable(stream') /\ place' = "pieces" /\ BeingSent(stream, Len(stream) - total_sent)'
    <3>1. ~failed /\ place' = "pieces"
      BY <2>1, <2>2, <2>6
    <3>2. Readable(stream) /\ BeingSent(stream, Len(stream) - total_sent) /\ ImageTypeOK
      BY <2>2, <3>1 DEF ImageIInv
    <3>3. /\ Len(stream') = Len(stream) + n
          /\ Readable(stream')
          /\ stream'[Len(stream) - total_sent] = Number(img_buffer)
          /\ WholeBut(stream', Len(stream) - total_sent)
          /\ stream' \in Seq(Entry)
      BY <1>1, <2>1, <2>3, <3>2, PieceBehind
    <3>4. Len(stream') - total_sent' = Len(stream) - total_sent
      BY <1>1, <1>2, <2>1, <2>3, <3>3
    <3>5. Len(stream) - total_sent \in DOMAIN stream'
      <4>1. Len(stream) - total_sent \in 1 .. Len(stream)
        BY <1>1, <3>2 DEF BeingSent
      <4> QED
        BY <4>1, <1>1, <1>2, <2>3, <3>3
    <3>6. total_sent' <= img_buffer'
      BY <2>1, <2>2, <2>3
    <3> QED
      BY <2>2, <3>1, <3>3, <3>4, <3>5, <3>6 DEF BeingSent
  <2> QED
    BY <2>5, <2>6 DEF ImageIInv
<1>7. CASE SendReturns
  <2>1. /\ place = "pieces" /\ place' = "idle" /\ total_sent >= img_buffer
        /\ UNCHANGED <<img_buffer, total_sent, stream, failed>>
    BY <1>7 DEF SendReturns, LoopOver
  <2>2. ASSUME ~failed
        PROVE  WholeBut(stream, 0)
    <3> DEFINE p == Len(stream) - total_sent
    <3>1. BeingSent(stream, p)
      BY <2>1, <2>2 DEF ImageIInv
    <3>2. p \in DOMAIN stream /\ WholeBut(stream, p) /\ stream[p] = Number(img_buffer) /\ total_sent = img_buffer
      BY <1>1, <2>1, <3>1 DEF BeingSent
    <3>3. Announces(stream[p]) = img_buffer
      BY <1>1, <3>2 DEF Number, Announces
    <3>4. p + img_buffer = Len(stream)
      BY <1>1, <1>2, <3>2
    <3> HIDE DEF p
    <3> QED
      BY <1>1, <1>2, <3>2, <3>3, <3>4, WholeAfterLast
  <2> QED
    BY <1>1, <2>1, <2>2 DEF ImageIInv, ImageTypeOK
<1>8. CASE UNCHANGED imageVars
  BY <1>8 DEF imageVars, ImageIInv, ImageTypeOK, BeingSent
<1> QED
  BY <1>3, <1>4, <1>5, <1>6, <1>7, <1>8 DEF ImageNext

(* The receiver finds each picture whole and in order behind its length,   *)
(* for pictures of any size, sent in pieces of any sizes.                  *)
THEOREM PicturesWhole == ImageSpec => []PicturesArriveWhole
<1>1. ImageInit => ImageIInv
  <2> SUFFICES ASSUME ImageInit
               PROVE  ImageIInv
    OBVIOUS
  <2>1. img_buffer = 0 /\ place = "idle" /\ total_sent = 0 /\ stream = << >>
    BY DEF ImageInit
  <2>2. Readable(<< >>) /\ WholeBut(<< >>, 0)
    BY DEF Readable, WholeBut
  <2> QED
    BY <2>1, <2>2 DEF ImageIInv, ImageTypeOK
<1>2. ImageIInv /\ [ImageNext]_imageVars => ImageIInv'
  BY ImageStep
<1>3. ImageIInv => PicturesArriveWhole
  BY DEF ImageIInv, PicturesArriveWhole
<1> QED
  BY <1>1, <1>2, <1>3, PTL DEF ImageSpec
-----------------------------------------------------------------------------
(* AssistantSend.                                                          *)

(* The sum of n values: the sums of the first of them, one after the other.*)
Sums(f, n, g) ==
  g \in [0 .. n -> Int] /\ g[0] = 0 /\ \A k \in 1 .. n : g[k] = g[k - 1] + f[k]

(* There are such sums, by induction over their number.                    *)
LEMMA SumsExist ==
  ASSUME NEW n \in Nat, NEW f, \A k \in 1 .. n : f[k] \in Int
  PROVE  \E g : Sums(f, n, g)
<1> DEFINE Without == {m \in 0 .. n : ~\E g : Sums(f, m, g)}
<1>1. ASSUME Without # {}
      PROVE  FALSE
  <2>1. Without \subseteq Nat
    OBVIOUS
  <2> HIDE DEF Without
  <2>2. PICK m \in Without : \A k \in Without : ~(<<k, m>> \in OpToRel(<, Nat))
    BY <2>1, <1>1, WFMin, NatLessThanWellFounded, Zenon
  <2>3. \A k \in Without : ~(k < m)
    BY <2>1, <2>2 DEF OpToRel
  <2>4. m \in 0 .. n /\ ~\E g : Sums(f, m, g)
    BY <2>2 DEF Without
  <2>5. CASE m = 0
    <3> DEFINE g == [k \in 0 .. 0 |-> 0]
    <3>1. Sums(f, 0, g)
      BY DEF Sums
    <3> QED
      BY <3>1, <2>4, <2>5
  <2>6. CASE m # 0
    <3>1. m - 1 \in 0 .. n /\ m - 1 \notin Without /\ m \in 1 .. n
      BY <2>3, <2>4, <2>6
    <3>2. PICK h : Sums(f, m - 1, h)
      BY <3>1 DEF Without
    <3> DEFINE g == [k \in 0 .. m |-> IF k = m THEN h[m - 1] + f[m] ELSE h[k]]
    <3>3. h \in [0 .. m - 1 -> Int] /\ h[0] = 0 /\ \A k \in 1 .. m - 1 : h[k] = h[k - 1] + f[k]
      BY <3>2 DEF Sums
    <3>4. g \in [0 .. m -> Int]
      BY <3>1, <3>3
    <3>5. g[0] = 0
      BY <3>1, <3>3
    <3>6. \A k \in 1 .. m : g[k] = g[k - 1] + f[k]
      BY <3>1, <3>3
    <3>7. Sums(f, m, g)
      BY <3>4, <3>5, <3>6 DEF Sums
    <3> QED
      BY <3>7, <2>4
  <2> QED
    BY <2>5, <2>6
<1> QED
  BY <1>1

(* Total is the last of them.                                              *)
LEMMA TotalIs ==
  ASSUME NEW n \in Nat, NEW f, \A k \in 1 .. n : f[k] \in Int
  PROVE  \E g : Sums(f, n, g) /\ Total(f, n) = g[n]
<1> DEFINE Rule(g) == g = [k \in 0 .. n |-> IF k = 0 THEN 0 ELSE g[k - 1] + f[k]]
           c == CHOOSE g : Rule(g)
<1>1. Total(f, n) = c[n]
  BY DEF Total
<1>2. PICK g : Sums(f, n, g)
  BY SumsExist
<1>3. g \in [0 .. n -> Int] /\ g[0] = 0 /\ \A k \in 1 .. n : g[k] = g[k - 1] + f[k]
  BY <1>2 DEF Sums
<1>4. Rule(g)
  BY <1>3
<1>5. Rule(c)
  <2> HIDE DEF Rule
  <2> QED
    BY <1>4
<1> HIDE DEF c
<1>6. /\ c = [k \in 0 .. n |-> c[k]] /\ c[0] = 0
      /\ \A k \in 1 .. n : c[k] = c[k - 1] + f[k]
  BY <1>5
<1> DEFINE Other == {k \in 0 .. n : c[k] # g[k]}
<1>7. ASSUME Other # {}
      PROVE  FALSE
  <2>1. Other \subseteq Nat
    OBVIOUS
  <2> HIDE DEF Other
  <2>2. PICK m \in Other : \A k \in Other : ~(<<k, m>> \in OpToRel(<, Nat))
    BY <2>1, <1>7, WFMin, NatLessThanWellFounded, Zenon
  <2>3. \A k \in Other : ~(k < m)
    BY <2>1, <2>2 DEF OpToRel
  <2>4. m \in 0 .. n /\ c[m] # g[m]
    BY <2>2 DEF Other
  <2>5. m # 0
    BY <2>4, <1>3, <1>6
  <2>6. m - 1 \in 0 .. n /\ m \in 1 .. n /\ m - 1 \notin Other
    BY <2>3, <2>4, <2>5
  <2>7. c[m - 1] = g[m - 1]
    BY <2>6 DEF Other
  <2> QED
    BY <2>4, <2>6, <2>7, <1>3, <1>6
<1>8. n \in 0 .. n
  OBVIOUS
<1> QED
  BY <1>1, <1>2, <1>7, <1>8

(* From p on, all values are the same.                                     *)
LEMMA SumsEven ==
  ASSUME NEW n \in Nat, NEW p \in 0 .. n, NEW b \in Int, NEW g \in [0 .. n -> Int],
         \A k \in p + 1 .. n : g[k] = g[k - 1] + b
  PROVE  g[n] = g[p] + (n - p) * b
<1> DEFINE off == {k \in p .. n : g[k] # g[p] + (k - p) * b}
<1>1. ASSUME off # {}
      PROVE  FALSE
  <2>1. off \subseteq Nat
    OBVIOUS
  <2> HIDE DEF off
  <2>2. PICK m \in off : \A k \in off : ~(<<k, m>> \in OpToRel(<, Nat))
    BY <2>1, <1>1, WFMin, NatLessThanWellFounded, Zenon
  <2>3. \A k \in off : ~(k < m)
    BY <2>1, <2>2 DEF OpToRel
  <2>4. m \in p .. n /\ g[m] # g[p] + (m - p) * b
    BY <2>2 DEF off
  <2>5. m # p
    <3>1. (p - p) * b = 0 /\ g[p] \in Int
      OBVIOUS
    <3> QED
      BY <3>1, <2>4
  <2>6. m - 1 \in p .. n /\ m \in p + 1 .. n /\ m - 1 \notin off
    BY <2>3, <2>4, <2>5
  <2>7. g[m - 1] = g[p] + ((m - 1) - p) * b
    BY <2>6 DEF off
  <2>8. ((m - 1) - p) * b = (m - p) * b - b /\ (m - p) * b \in Int
    BY <2>6
  <2>9. g[m] = g[m - 1] + b /\ g[m] \in Int /\ g[m - 1] \in Int /\ g[p] \in Int
    BY <2>6
  <2> QED
    BY <2>4, <2>7, <2>8, <2>9
<1>2. n \in p .. n
  OBVIOUS
<1> QED
  BY <1>1, <1>2
(* What is assumed of the constants.                                       *)
LEMMA SendConstants ==
  /\ \A s \in Sizes : s[1] \in Nat /\ s[2] \in Nat
  /\ \A n \in DotNums : n \in Nat
  /\ Samples \subseteq Int
  /\ SumMod \in Nat /\ SumMod > 0 /\ MaxChannels \in 1 .. 8
<1>1. \A s \in Sizes : s[1] \in Nat /\ s[2] \in Nat
  BY SendAssumption
<1>2. \A n \in DotNums : n \in Nat
  BY SendAssumption
<1>3. Samples \subseteq Int /\ SumMod \in Nat /\ SumMod > 0
  BY SendAssumption
<1>4. MaxChannels \in 1 .. 8
  BY SendAssumption
<1> QED
  BY <1>1, <1>2, <1>3, <1>4, Zenon

(* The pieces of a picture, and what they hold.                            *)
Things ==
  {[camera |-> camera, num |-> dot.num], dot, camera.addr}
    \cup {boundary_x[i] : i \in Slot} \cup {boundary_y[i] : i \in Slot}
Blocks == [is : {"camera", "image", "dots", "array"}, content : Things, bytes : Nat]

(* A packet of the oscilloscope is valid from the moment it is handed over.*)
Scopes ==
  [function : {0, 1}, channels : 1 .. MaxChannels, check_sum : 0 .. SumMod - 1, length : Nat,
   data : [1 .. MaxChannels -> Int]]
ScopeValid(s) ==
  /\ s.check_sum = SumOf([s EXCEPT !.check_sum = 0])
  /\ s.length = PacketSize(s.channels) /\ s.function = 1
ScopeBlocks == {p \in [is : {"scope"}, content : Scopes, bytes : Nat] : ScopeValid(p.content)}
AnyBlocks == Blocks \cup ScopeBlocks

SendTypes ==
  /\ transfer \in {"none", "tcp", "udp"}
  /\ camera.width \in Nat /\ camera.height \in Nat
  /\ dot.num \in Nat /\ dot.dot_num \in Nat /\ dot.wide \in BOOLEAN
  /\ configs \in Nat /\ whole \in BOOLEAN
  /\ scope \in Scopes
  /\ taken \in Seq(AnyBlocks) /\ to_send \in Seq(AnyBlocks)

(* The arrays in the eight slots.                                          *)
Kept1(v) == IF v = NULL THEN 0 ELSE 1
Arrays(i) == Kept1(boundary_x[i]) + Kept1(boundary_y[i])
AllArrays ==
  Arrays(0) + Arrays(1) + Arrays(2) + Arrays(3) + Arrays(4) + Arrays(5) + Arrays(6) + Arrays(7)

(* The coordinates of a slot: as many pieces as there are arrays in it.    *)
DotPieces(s, n) == s \in Seq(Blocks) /\ Len(s) = n /\ \A k \in 1 .. n : s[k].bytes = DotBytes

(* Pieces of coordinates one behind the other are pieces of coordinates.   *)
LEMMA DotsTogether ==
  ASSUME NEW s, NEW t, NEW n \in Nat, NEW m \in Nat, DotPieces(s, n), DotPieces(t, m)
  PROVE  DotPieces(s \o t, n + m)
<1>1. s \in Seq(Blocks) /\ t \in Seq(Blocks) /\ Len(s) = n /\ Len(t) = m
  BY DEF DotPieces
<1>2. /\ s \o t \in Seq(Blocks) /\ Len(s \o t) = Len(s) + Len(t)
      /\ \A i \in 1 .. Len(s) + Len(t) : (s \o t)[i] = IF i <= Len(s) THEN s[i] ELSE t[i - Len(s)]
  BY <1>1, ConcatProperties, Zenon
<1>3. \A i \in 1 .. n + m : (s \o t)[i].bytes = DotBytes
  <2> TAKE i \in 1 .. n + m
  <2>1. CASE i <= n
    BY <2>1, <1>1, <1>2 DEF DotPieces
  <2>2. CASE ~(i <= n)
    <3>1. i - n \in 1 .. m
      BY <2>2
    <3> QED
      BY <2>2, <3>1, <1>1, <1>2 DEF DotPieces
  <2> QED
    BY <2>1, <2>2
<1> QED
  BY <1>1, <1>2, <1>3 DEF DotPieces

(* The bytes of an array: one or two for each of its points.               *)
LEMMA DotBytesIs ==
  ASSUME SendTypes
  PROVE  DotBytes \in Nat /\ DotBytes = dot.dot_num * (IF dot.wide THEN 2 ELSE 1)
BY DEF DotBytes, SendTypes

(* A slot gives a piece for each of the two arrays that is kept in it.     *)
LEMMA DotsOfSlot ==
  ASSUME SendTypes, NEW i \in Slot
  PROVE  Arrays(i) \in Nat /\ DotPieces(DotsOf(i), Arrays(i))
<1> DEFINE One(v) == IF v = NULL THEN <<>> ELSE <<Block("array", v, DotBytes)>>
<1>1. ASSUME NEW v \in Things
      PROVE  Kept1(v) \in Nat /\ DotPieces(One(v), Kept1(v))
  <2>1. Block("array", v, DotBytes) \in Blocks /\ Block("array", v, DotBytes).bytes = DotBytes
    BY DotBytesIs, <1>1 DEF Block, Blocks
  <2> QED
    BY <2>1 DEF Kept1, DotPieces
<1>2. boundary_x[i] \in Things /\ boundary_y[i] \in Things
  BY DEF Things
<1>3. DotsOf(i) = One(boundary_x[i]) \o One(boundary_y[i])
  BY DEF DotsOf
<1> HIDE DEF One
<1> QED
  BY <1>1, <1>2, <1>3, DotsTogether DEF Arrays

(* The eight slots together give a piece for every array that is kept.     *)
LEMMA DotsOfAll ==
  ASSUME SendTypes
  PROVE  /\ AllArrays \in Nat
         /\ DotPieces(Coordinates, AllArrays)
<1>1. \A i \in Slot : Arrays(i) \in Nat /\ DotPieces(DotsOf(i), Arrays(i))
  BY DotsOfSlot
<1>2. \A i \in 0 .. 7 : Arrays(i) \in Nat /\ DotPieces(DotsOf(i), Arrays(i))
  BY <1>1 DEF Slot
<1>3. DotPieces(DotsOf(0) \o DotsOf(1), Arrays(0) + Arrays(1)) /\ Arrays(0) + Arrays(1) \in Nat
  BY <1>2, DotsTogether
<1>4. /\ DotPieces(DotsOf(0) \o DotsOf(1) \o DotsOf(2), Arrays(0) + Arrays(1) + Arrays(2))
      /\ Arrays(0) + Arrays(1) + Arrays(2) \in Nat
  BY <1>2, <1>3, DotsTogether
<1>5. /\ DotPieces(DotsOf(0) \o DotsOf(1) \o DotsOf(2) \o DotsOf(3),
                   Arrays(0) + Arrays(1) + Arrays(2) + Arrays(3))
      /\ Arrays(0) + Arrays(1) + Arrays(2) + Arrays(3) \in Nat
  BY <1>2, <1>4, DotsTogether
<1>6. /\ DotPieces(DotsOf(0) \o DotsOf(1) \o DotsOf(2) \o DotsOf(3) \o DotsOf(4),
                   Arrays(0) + Arrays(1) + Arrays(2) + Arrays(3) + Arrays(4))
      /\ Arrays(0) + Arrays(1) + Arrays(2) + Arrays(3) + Arrays(4) \in Nat
  BY <1>2, <1>5, DotsTogether
<1>7. /\ DotPieces(DotsOf(0) \o DotsOf(1) \o DotsOf(2) \o DotsOf(3) \o DotsOf(4) \o DotsOf(5),
                   Arrays(0) + Arrays(1) + Arrays(2) + Arrays(3) + Arrays(4) + Arrays(5))
      /\ Arrays(0) + Arrays(1) + Arrays(2) + Arrays(3) + Arrays(4) + Arrays(5) \in Nat
  BY <1>2, <1>6, DotsTogether
<1>8. /\ DotPieces(DotsOf(0) \o DotsOf(1) \o DotsOf(2) \o DotsOf(3) \o DotsOf(4) \o DotsOf(5) \o DotsOf(6),
                   Arrays(0) + Arrays(1) + Arrays(2) + Arrays(3) + Arrays(4) + Arrays(5) + Arrays(6))
      /\ Arrays(0) + Arrays(1) + Arrays(2) + Arrays(3) + Arrays(4) + Arrays(5) + Arrays(6) \in Nat
  BY <1>2, <1>7, DotsTogether
<1> QED
  BY <1>2, <1>8, DotsTogether DEF AllArrays, Coordinates

(* What camera_send hands over: the header, the picture if there is one,   *)
(* and, where arrays are announced, their header and the arrays.           *)
HeadBlocks == IF camera.addr = NULL THEN 1 ELSE 2

(* A picture has no negative number of bytes, whatever its type.           *)
LEMMA ImageSizeIsNat == SendTypes => ImageSize(camera) \in Nat
<1> SUFFICES ASSUME SendTypes
             PROVE  ImageSize(camera) \in Nat
  OBVIOUS
<1>1. \A a, b \in Nat : a * b \in Nat
  OBVIOUS
<1>2. \A a \in Nat : a \div 8 \in Nat /\ a * 2 \in Nat
  OBVIOUS
<1>3. camera.width * camera.height \in Nat
  BY <1>1 DEF SendTypes
<1>4. (camera.width * camera.height) \div 8 \in Nat /\ camera.width * camera.height * 2 \in Nat
  BY <1>2, <1>3
<1> QED
  BY <1>3, <1>4 DEF ImageSize

(* The first pieces: the header with the camera's settings, and the        *)
(* picture's bytes if an address is configured.                            *)
LEMMA CameraDataIs ==
  ASSUME SendTypes
  PROVE  /\ CameraData \in Seq(Blocks) /\ Len(CameraData) = HeadBlocks
         /\ CameraData[1].is = "camera" /\ CameraData[1].content = [camera |-> camera, num |-> dot.num]
         /\ HeadBlocks = 2 => CameraData[2].bytes = ImageSize(camera)
<1> DEFINE head == Block("camera", [camera |-> camera, num |-> dot.num], CameraHeader)
           shown == Block("image", camera.addr, ImageSize(camera))
<1>1. head \in Blocks /\ head.is = "camera" /\ head.content = [camera |-> camera, num |-> dot.num]
  BY DEF Block, Blocks, Things, CameraHeader
<1>2. shown \in Blocks /\ shown.bytes = ImageSize(camera)
  BY ImageSizeIsNat DEF Block, Blocks, Things
<1>3. CameraData = <<head>> \o (IF camera.addr = NULL THEN <<>> ELSE <<shown>>)
  BY DEF CameraData
<1> HIDE DEF head, shown
<1>4. CASE camera.addr = NULL
  BY <1>1, <1>3, <1>4 DEF HeadBlocks
<1>5. CASE camera.addr # NULL
  BY <1>1, <1>2, <1>3, <1>5 DEF HeadBlocks
<1> QED
  BY <1>4, <1>5

(* The whole picture: these, and the header of the boundaries with the     *)
(* coordinates when at least one array was counted.                        *)
LEMMA PictureIs ==
  ASSUME SendTypes
  PROVE  /\ Picture \in Seq(Blocks)
         /\ Len(Picture) = HeadBlocks + (IF dot.num = 0 THEN 0 ELSE 1 + AllArrays)
         /\ Picture[1].is = "camera" /\ Picture[1].content = [camera |-> camera, num |-> dot.num]
         /\ HeadBlocks = 2 => Picture[2].bytes = ImageSize(camera)
         /\ dot.num # 0 => /\ Picture[HeadBlocks + 1].bytes = DotHeader
                           /\ \A k \in HeadBlocks + 2 .. Len(Picture) : Picture[k].bytes = DotBytes
<1>1. /\ CameraData \in Seq(Blocks) /\ Len(CameraData) = HeadBlocks /\ HeadBlocks \in {1, 2}
      /\ CameraData[1].is = "camera" /\ CameraData[1].content = [camera |-> camera, num |-> dot.num]
      /\ HeadBlocks = 2 => CameraData[2].bytes = ImageSize(camera)
  BY CameraDataIs DEF HeadBlocks
<1>2. CASE dot.num = 0
  <2>1. Picture = CameraData \o <<>>
    BY <1>2 DEF Picture
  <2>2. Picture = CameraData
    BY <2>1, <1>1
  <2> QED
    BY <2>2, <1>1, <1>2
<1>3. CASE dot.num # 0
  <2> DEFINE head == Block("dots", dot, DotHeader)
             rest == Coordinates
             dots == <<head>> \o rest
  <2>1. head \in Blocks /\ head.bytes = DotHeader
    BY DEF Block, Blocks, Things, DotHeader
  <2>2. AllArrays \in Nat /\ DotPieces(rest, AllArrays)
    BY DotsOfAll
  <2>3. CameraDots = dots
    BY DEF CameraDots
  <2> HIDE DEF head, rest
  <2>4. rest \in Seq(Blocks) /\ Len(rest) = AllArrays /\ \A k \in 1 .. AllArrays : rest[k].bytes = DotBytes
    BY <2>2 DEF DotPieces
  <2>5. /\ <<head>> \in Seq(Blocks) /\ Len(<<head>>) = 1
    BY <2>1
  <2>6. /\ dots \in Seq(Blocks) /\ Len(dots) = 1 + AllArrays
        /\ \A i \in 1 .. 1 + AllArrays : dots[i] = IF i <= 1 THEN <<head>>[i] ELSE rest[i - 1]
    <3>1. /\ dots \in Seq(Blocks) /\ Len(dots) = Len(<<head>>) + Len(rest)
          /\ \A i \in 1 .. Len(<<head>>) + Len(rest) :
               dots[i] = IF i <= Len(<<head>>) THEN <<head>>[i] ELSE rest[i - Len(<<head>>)]
      BY <2>4, <2>5, ConcatProperties, Zenon
    <3> QED
      BY <3>1, <2>4, <2>5
  <2> HIDE DEF dots
  <2>7. dots[1].bytes = DotHeader
    BY <2>1, <2>2, <2>6
  <2>8. \A k \in 2 .. 1 + AllArrays : dots[k].bytes = DotBytes
    <3> TAKE k \in 2 .. 1 + AllArrays
    <3>1. k - 1 \in 1 .. AllArrays /\ k \in 1 .. 1 + AllArrays /\ ~(k <= 1)
      BY <2>2
    <3> QED
      BY <3>1, <2>4, <2>6
  <2>9. /\ Picture \in Seq(Blocks) /\ Len(Picture) = HeadBlocks + 1 + AllArrays
        /\ \A i \in 1 .. HeadBlocks + 1 + AllArrays :
             Picture[i] = IF i <= HeadBlocks THEN CameraData[i] ELSE dots[i - HeadBlocks]
    <3>1. Picture = CameraData \o dots
      BY <1>3, <2>3 DEF Picture
    <3>2. /\ Picture \in Seq(Blocks) /\ Len(Picture) = Len(CameraData) + Len(dots)
          /\ \A i \in 1 .. Len(CameraData) + Len(dots) :
               Picture[i] = IF i <= Len(CameraData) THEN CameraData[i] ELSE dots[i - Len(CameraData)]
      BY <3>1, <1>1, <2>6, ConcatProperties, Zenon
    <3> QED
      BY <3>2, <1>1, <2>2, <2>6
  <2>10. Picture[1] = CameraData[1] /\ (HeadBlocks = 2 => Picture[2] = CameraData[2])
         /\ Picture[HeadBlocks + 1] = dots[1]
    BY <2>2, <2>9, <1>1
  <2>11. \A k \in HeadBlocks + 2 .. Len(Picture) : Picture[k].bytes = DotBytes
    <3> TAKE k \in HeadBlocks + 2 .. Len(Picture)
    <3>1. k - HeadBlocks \in 2 .. 1 + AllArrays /\ k \in 1 .. HeadBlocks + 1 + AllArrays /\ ~(k <= HeadBlocks)
      BY <2>2, <2>9, <1>1
    <3> QED
      BY <3>1, <2>8, <2>9
  <2>12. Len(Picture) = HeadBlocks + (1 + AllArrays)
    BY <2>2, <2>9, <1>1
  <2> QED
    BY <1>1, <1>3, <2>7, <2>9, <2>10, <2>11, <2>12
<1> QED
  BY <1>2, <1>3
(* The arrays a caller gives, in order: one for each pair that is used.    *)
Ones(used) == (IF 1 \in used THEN 1 ELSE 0) + (IF 2 \in used THEN 1 ELSE 0) + (IF 3 \in used THEN 1 ELSE 0)

(* They are as many, and none is given that is not used.                   *)
LEMMA ArraysOfAre ==
  ASSUME NEW a, NEW used, NEW V, \A j \in used : a[j] \in V
  PROVE  Ones(used) \in 0 .. 3 /\ ArraysOf(a, used) \in Seq(V) /\ Len(ArraysOf(a, used)) = Ones(used)
<1> DEFINE Only(j) == IF j \in used THEN 1 ELSE 0
<1>1. ASSUME NEW j
      PROVE  ArrayOf(a, used, j) \in Seq(V) /\ Len(ArrayOf(a, used, j)) = Only(j)
  <2>1. CASE j \in used
    <3>1. ArrayOf(a, used, j) = <<a[j]>> /\ a[j] \in V
      BY <2>1 DEF ArrayOf
    <3> QED
      BY <3>1, <2>1
  <2>2. CASE j \notin used
    <3>1. ArrayOf(a, used, j) = <<>>
      BY <2>2 DEF ArrayOf
    <3>2. ArrayOf(a, used, j) \in Seq(V) /\ Len(ArrayOf(a, used, j)) = 0
      BY <3>1
    <3> QED
      BY <3>2, <2>2
  <2> QED
    BY <2>1, <2>2
<1>2. Only(1) \in 0 .. 1 /\ Only(2) \in 0 .. 1 /\ Only(3) \in 0 .. 1
      /\ Ones(used) = Only(1) + Only(2) + Only(3)
  BY DEF Ones
<1> DEFINE p == ArrayOf(a, used, 1)
           q == ArrayOf(a, used, 2)
           r == ArrayOf(a, used, 3)
<1>3. p \in Seq(V) /\ Len(p) = Only(1) /\ q \in Seq(V) /\ Len(q) = Only(2)
      /\ r \in Seq(V) /\ Len(r) = Only(3)
  BY <1>1
<1>4. ArraysOf(a, used) = (p \o q) \o r
  BY DEF ArraysOf
<1> HIDE DEF p, q, r, Only
<1>5. p \o q \in Seq(V) /\ Len(p \o q) = Len(p) + Len(q)
  BY <1>3, ConcatProperties, Zenon
<1>6. (p \o q) \o r \in Seq(V) /\ Len((p \o q) \o r) = Len(p \o q) + Len(r)
  BY <1>3, <1>5, ConcatProperties, Zenon
<1> QED
  BY <1>2, <1>3, <1>4, <1>5, <1>6

(* Slots that were empty hold what is given from the fourth on.            *)
LEMMA KeptAre ==
  ASSUME NEW slots, NEW s, NEW n \in 0 .. 3, NEW i \in Slot,
         slots[i] = NULL, DOMAIN s = 1 .. n, \A k \in 1 .. n : s[k] # NULL
  PROVE  Kept1(Kept(slots, s)[i]) = IF 3 <= i /\ i <= n + 2 THEN 1 ELSE 0
<1>1. Kept(slots, s)[i] = IF i - 2 \in 1 .. n THEN s[i - 2] ELSE NULL
  <2>1. i \in 0 .. 7
    BY DEF Slot
  <2>2. Kept(slots, s)[i] = IF i - 3 + 1 \in DOMAIN s THEN s[i - 3 + 1]
                            ELSE IF i < 3 THEN NULL ELSE slots[i]
    BY DEF Kept, Cleared, FirstSlot
  <2>3. i - 3 + 1 = i - 2
    BY <2>1
  <2> QED
    BY <2>2, <2>3
<1>2. i \in 0 .. 7 /\ (i - 2 \in 1 .. n <=> (3 <= i /\ i <= n + 2))
  BY DEF Slot
<1> HIDE DEF Kept
<1> QED
  BY <1>1, <1>2 DEF Kept1

(* What holds between the calls and within them: as long as the boundaries *)
(* were configured once at most, as many arrays are kept as announced.     *)
SlotsAgree ==
  /\ configs = 0 => dot.num = 0 /\ \A i \in Slot : boundary_x[i] = NULL /\ boundary_y[i] = NULL
  /\ configs = 1 => AllArrays = Lines(dot)

(* The first boundary_config counts one kind of arrays and keeps both: in  *)
(* an XY configuration twice as many as are counted, as the lines are.     *)
LEMMA ConfigKeepsSlots ==
  ASSUME SendTypes, SlotsAgree, BoundaryConfig
  PROVE  SlotsAgree' /\ dot'.num \in Nat /\ dot'.dot_num \in Nat /\ dot'.wide \in BOOLEAN
<1>1. PICK b \in Boundaries, n \in DotNums :
        LET used == Used(b.kind, b.x, b.y)
            xs == IF b.kind = "Y_BOUNDARY" THEN <<>> ELSE ArraysOf(b.x, used)
            ys == IF b.kind = "X_BOUNDARY" THEN <<>> ELSE ArraysOf(b.y, used)
        IN  /\ dot' = [kind |-> b.kind, wide |-> Wide(b.kind),
                       num |-> Len(IF xs = <<>> THEN ys ELSE xs), dot_num |-> n]
            /\ boundary_x' = Kept(boundary_x, xs)
            /\ boundary_y' = Kept(boundary_y, ys)
  BY DEF BoundaryConfig
<1> DEFINE used == Used(b.kind, b.x, b.y)
           xs == IF b.kind = "Y_BOUNDARY" THEN <<>> ELSE ArraysOf(b.x, used)
           ys == IF b.kind = "X_BOUNDARY" THEN <<>> ELSE ArraysOf(b.y, used)
           nx == IF b.kind = "Y_BOUNDARY" THEN 0 ELSE Ones(used)
           ny == IF b.kind = "X_BOUNDARY" THEN 0 ELSE Ones(used)
<1>2. /\ dot' = [kind |-> b.kind, wide |-> Wide(b.kind),
                 num |-> Len(IF xs = <<>> THEN ys ELSE xs), dot_num |-> n]
      /\ boundary_x' = Kept(boundary_x, xs) /\ boundary_y' = Kept(boundary_y, ys)
  BY <1>1
<1>3. configs' = configs + 1 /\ configs \in Nat
  BY DEF BoundaryConfig, SendTypes
<1>4. used \subseteq {1, 2, 3}
  BY DEF Used
<1>5. /\ \A k \in used : b.kind # "Y_BOUNDARY" => b.x[k] # NULL
      /\ \A k \in used : b.kind # "X_BOUNDARY" => b.y[k] # NULL
      /\ ~(b.kind \in {"X_BOUNDARY", "Y_BOUNDARY", "XY_BOUNDARY"}) => used = {}
  BY DEF Used
<1> HIDE DEF used
<1> DEFINE Given == {v \in {b.x[k] : k \in used} \cup {b.y[k] : k \in used} : v # NULL}
<1>6. nx \in 0 .. 3 /\ Len(xs) = nx /\ xs \in Seq(Given)
  <2>1. CASE b.kind = "Y_BOUNDARY"
    BY <2>1
  <2>2. CASE b.kind # "Y_BOUNDARY"
    <3>1. \A k \in used : b.x[k] \in Given
      BY <2>2, <1>5
    <3> HIDE DEF Given
    <3>2. Ones(used) \in 0 .. 3 /\ ArraysOf(b.x, used) \in Seq(Given) /\ Len(ArraysOf(b.x, used)) = Ones(used)
      BY <3>1, ArraysOfAre
    <3> QED
      BY <2>2, <3>2
  <2> QED
    BY <2>1, <2>2
<1>7. ny \in 0 .. 3 /\ Len(ys) = ny /\ ys \in Seq(Given)
  <2>1. CASE b.kind = "X_BOUNDARY"
    BY <2>1
  <2>2. CASE b.kind # "X_BOUNDARY"
    <3>1. \A k \in used : b.y[k] \in Given
      BY <2>2, <1>5
    <3> HIDE DEF Given
    <3>2. Ones(used) \in 0 .. 3 /\ ArraysOf(b.y, used) \in Seq(Given) /\ Len(ArraysOf(b.y, used)) = Ones(used)
      BY <3>1, ArraysOfAre
    <3> QED
      BY <2>2, <3>2
  <2> QED
    BY <2>1, <2>2
<1>16. \A v \in Given : v # NULL
  OBVIOUS
<1>17. /\ DOMAIN xs = 1 .. nx /\ \A k \in 1 .. nx : xs[k] # NULL
       /\ DOMAIN ys = 1 .. ny /\ \A k \in 1 .. ny : ys[k] # NULL
  <2> HIDE DEF xs, ys, nx, ny, Given
  <2>1. DOMAIN xs = 1 .. nx /\ DOMAIN ys = 1 .. ny
    BY <1>6, <1>7
  <2>2. \A k \in 1 .. nx : xs[k] \in Given
    BY <1>6, ElementOfSeq
  <2>3. \A k \in 1 .. ny : ys[k] \in Given
    BY <1>7, ElementOfSeq
  <2> QED
    BY <2>1, <2>2, <2>3, <1>16
<1>8. Ones({}) = 0
  BY DEF Ones
<1>9. Len(IF xs = <<>> THEN ys ELSE xs) = IF nx = 0 THEN ny ELSE nx
  <2> HIDE DEF xs, ys, nx, ny, Given
  <2>1. xs = <<>> <=> nx = 0
    BY <1>6, EmptySeq
  <2> QED
    BY <2>1, <1>6, <1>7
<1>10. /\ nx + ny = (IF nx = 0 THEN ny ELSE nx) * (IF b.kind = "XY_BOUNDARY" THEN 2 ELSE 1)
  <2>1. Ones(used) \in 0 .. 3
    BY DEF Ones
  <2>2. ~(b.kind \in {"X_BOUNDARY", "Y_BOUNDARY", "XY_BOUNDARY"}) => Ones(used) = 0
    BY <1>5, <1>8
  <2> QED
    BY <2>1, <2>2
<1> HIDE DEF xs, ys, nx, ny, Given
<1>11. /\ dot'.num = (IF nx = 0 THEN ny ELSE nx) /\ dot'.kind = b.kind
       /\ dot'.dot_num = n /\ dot'.wide = Wide(b.kind)
  BY <1>2, <1>9
<1>12. dot'.num \in Nat /\ dot'.dot_num \in Nat /\ dot'.wide \in BOOLEAN
  <2>1. dot'.num \in Nat
    BY <1>6, <1>7, <1>11
  <2>2. dot'.dot_num \in Nat
    BY <1>11, SendConstants
  <2>3. Wide(b.kind) \in BOOLEAN
    BY Zenon DEF Wide
  <2> QED
    BY <1>11, <2>1, <2>2, <2>3
<1>13. ASSUME configs = 0
       PROVE  AllArrays' = Lines(dot')
  <2>1. \A i \in Slot : /\ Kept1(boundary_x'[i]) = IF 3 <= i /\ i <= nx + 2 THEN 1 ELSE 0
                        /\ Kept1(boundary_y'[i]) = IF 3 <= i /\ i <= ny + 2 THEN 1 ELSE 0
    <3> TAKE i \in Slot
    <3>1. boundary_x[i] = NULL /\ boundary_y[i] = NULL
      BY <1>13 DEF SlotsAgree
    <3>2. Kept1(Kept(boundary_x, xs)[i]) = IF 3 <= i /\ i <= nx + 2 THEN 1 ELSE 0
      BY <3>1, <1>6, <1>17, KeptAre
    <3>3. Kept1(Kept(boundary_y, ys)[i]) = IF 3 <= i /\ i <= ny + 2 THEN 1 ELSE 0
      BY <3>1, <1>7, <1>17, KeptAre
    <3> QED
      BY <3>2, <3>3, <1>2
  <2>2. \A i \in 0 .. 7 : /\ Kept1(boundary_x'[i]) = IF 3 <= i /\ i <= nx + 2 THEN 1 ELSE 0
                          /\ Kept1(boundary_y'[i]) = IF 3 <= i /\ i <= ny + 2 THEN 1 ELSE 0
    BY <2>1 DEF Slot
  <2>3. /\ Kept1(boundary_x'[0]) = 0 /\ Kept1(boundary_x'[1]) = 0 /\ Kept1(boundary_x'[2]) = 0
        /\ Kept1(boundary_x'[6]) = 0 /\ Kept1(boundary_x'[7]) = 0
        /\ Kept1(boundary_x'[3]) = (IF 1 <= nx THEN 1 ELSE 0)
        /\ Kept1(boundary_x'[4]) = (IF 2 <= nx THEN 1 ELSE 0)
        /\ Kept1(boundary_x'[5]) = (IF 3 <= nx THEN 1 ELSE 0)
        /\ Kept1(boundary_y'[0]) = 0 /\ Kept1(boundary_y'[1]) = 0 /\ Kept1(boundary_y'[2]) = 0
        /\ Kept1(boundary_y'[6]) = 0 /\ Kept1(boundary_y'[7]) = 0
        /\ Kept1(boundary_y'[3]) = (IF 1 <= ny THEN 1 ELSE 0)
        /\ Kept1(boundary_y'[4]) = (IF 2 <= ny THEN 1 ELSE 0)
        /\ Kept1(boundary_y'[5]) = (IF 3 <= ny THEN 1 ELSE 0)
    BY <2>2, <1>6, <1>7
  <2>4. AllArrays' = nx + ny
    BY <2>3, <1>6, <1>7 DEF AllArrays, Arrays
  <2>5. Lines(dot') = (IF nx = 0 THEN ny ELSE nx) * (IF b.kind = "XY_BOUNDARY" THEN 2 ELSE 1)
    BY <1>11 DEF Lines
  <2> QED
    BY <2>4, <2>5, <1>10
<1>14. configs' # 0 /\ (configs' = 1 => configs = 0)
  BY <1>3
<1>15. SlotsAgree'
  BY <1>13, <1>14 DEF SlotsAgree
<1> QED
  BY <1>12, <1>15
(* A scope structure that is checked carries its own sum.                  *)
LEMMA ScopeChecked ==
  ASSUME NEW s \in Scopes
  PROVE  Prepared(s) \in Scopes /\ ScopeValid(Prepared(s)) /\ PacketSize(s.channels) \in Nat
<1> DEFINE t == [s EXCEPT !.function = 1, !.length = PacketSize(s.channels)]
<1>1. PacketSize(s.channels) \in Nat
  <2>1. s.channels \in Nat
    BY DEF Scopes
  <2> QED
    BY <2>1 DEF PacketSize
<1>2. t \in Scopes /\ t.length = PacketSize(t.channels) /\ t.function = 1
  BY <1>1 DEF Scopes
<1>3. Prepared(s) = Checked(t)
  BY DEF Prepared
<1> HIDE DEF t
<1> DEFINE u == [t EXCEPT !.check_sum = 0]
           sum == SumOf(u)
<1>4. sum \in 0 .. SumMod - 1
  <2>1. /\ u.function \in {0, 1} /\ u.channels \in Nat /\ u.channels \in 1 .. MaxChannels
        /\ u.length \in Nat /\ u.check_sum = 0
        /\ u.data \in [1 .. MaxChannels -> Int]
    BY <1>2 DEF Scopes
  <2> HIDE DEF u
  <2>2. \A k \in 1 .. u.channels : u.data[k] \in Int
    <3>1. \A k \in 1 .. u.channels : k \in 1 .. MaxChannels
      BY <2>1, SendConstants
    <3> QED
      BY <3>1, <2>1
  <2>3. PICK g : Sums(u.data, u.channels, g) /\ Total(u.data, u.channels) = g[u.channels]
    BY <2>1, <2>2, TotalIs
  <2>4. Total(u.data, u.channels) \in Int
    <3>1. u.channels \in 0 .. u.channels
      BY <2>1
    <3> QED
      BY <3>1, <2>3 DEF Sums
  <2> DEFINE all == 170 + u.function * 16 + u.channels + u.check_sum + u.length
                      + Total(u.data, u.channels)
  <2>5. all \in Int
    BY <2>1, <2>4
  <2>6. sum = all % SumMod
    BY DEF SumOf
  <2>7. SumMod \in Nat /\ SumMod > 0
    BY SendConstants
  <2> HIDE DEF all, sum
  <2> QED
    BY <2>5, <2>6, <2>7
<1>5. Checked(t) = [t EXCEPT !.check_sum = sum]
  BY DEF Checked
<1> HIDE DEF sum
<1>6. [[t EXCEPT !.check_sum = sum] EXCEPT !.check_sum = 0] = u
  BY <1>2 DEF Scopes
<1>7. /\ Checked(t) \in Scopes /\ Checked(t).check_sum = sum
      /\ Checked(t).length = t.length /\ Checked(t).channels = t.channels
      /\ Checked(t).function = t.function
  BY <1>2, <1>4, <1>5 DEF Scopes
<1>8. [Checked(t) EXCEPT !.check_sum = 0] = u
  BY <1>5, <1>6
<1>9. sum = SumOf(u)
  BY DEF sum
<1>10. ScopeValid(Checked(t))
  BY <1>2, <1>7, <1>8, <1>9 DEF ScopeValid
<1> QED
  BY <1>1, <1>3, <1>7, <1>10

(* How far a call is: nothing of it is left, it is the oscilloscope's only *)
(* packet, or the first pieces of the picture are with the transport and   *)
(* the others still to come.                                               *)
NoneSent == taken = <<>> /\ to_send = <<>>

ScopeSent ==
  /\ \A k \in 1 .. Len(taken) : taken[k].is = "scope"
  /\ \A k \in 1 .. Len(to_send) : to_send[k].is = "scope"

PictureSent ==
  /\ Len(taken) + Len(to_send) = Len(Picture)
  /\ \A k \in 1 .. Len(taken) :
       /\ taken[k].is = Picture[k].is /\ taken[k].content = Picture[k].content
       /\ whole => taken[k].bytes = Picture[k].bytes
  /\ \A k \in 1 .. Len(to_send) : to_send[k] = Picture[Len(taken) + k]

Progress == NoneSent \/ ScopeSent \/ PictureSent

SendIInv == SendTypes /\ SlotsAgree /\ Progress

(* At the start nothing was sent.                                          *)
LEMMA SendInitially == SendInit => SendIInv
<1> SUFFICES ASSUME SendInit
             PROVE  SendIInv
  OBVIOUS
<1>1. scope \in Scopes
  <2>1. MaxChannels \in 1 .. 8 /\ SumMod \in Nat /\ SumMod > 0
    BY SendConstants
  <2>2. 1 \in 1 .. MaxChannels /\ 0 \in 0 .. SumMod - 1 /\ [i \in 1 .. MaxChannels |-> 0] \in [1 .. MaxChannels -> Int]
    BY <2>1
  <2> QED
    BY <2>2 DEF SendInit, Scopes
<1>2. taken = <<>> /\ to_send = <<>> /\ whole \in BOOLEAN /\ transfer \in {"none", "tcp", "udp"}
  BY DEF SendInit
<1>3. SendTypes
  <2>1. taken \in Seq(AnyBlocks) /\ to_send \in Seq(AnyBlocks)
    BY <1>2
  <2>2. camera.width \in Nat /\ camera.height \in Nat /\ dot.num \in Nat /\ dot.dot_num \in Nat
        /\ dot.wide \in BOOLEAN /\ configs \in Nat
    BY DEF SendInit
  <2> QED
    BY <1>1, <1>2, <2>1, <2>2, Zenon DEF SendTypes
<1>4. SlotsAgree
  BY DEF SendInit, SlotsAgree
<1> QED
  BY <1>2, <1>3, <1>4 DEF SendIInv, Progress, NoneSent

(* What the transport takes of a piece, the next one comes behind it.      *)
LEMMA TransferSteps ==
  ASSUME SendIInv, Transfer
  PROVE  SendIInv'
<1> DEFINE p == Head(to_send)
<1>1. /\ to_send \in Seq(AnyBlocks) /\ taken \in Seq(AnyBlocks) /\ whole \in BOOLEAN
      /\ transfer \in {"none", "tcp", "udp"} /\ to_send # <<>>
  BY DEF SendIInv, SendTypes, Transfer, SendIdle
<1>2. p \in AnyBlocks /\ p = to_send[1] /\ Len(to_send) >= 1 /\ Len(to_send) \in Nat /\ Len(taken) \in Nat
  BY <1>1
<1>3. PICK n \in Accepted(p) : /\ taken' = Append(taken, [p EXCEPT !.bytes = n])
                               /\ whole' = (whole /\ n = p.bytes)
  BY DEF Transfer
<1> HIDE DEF p
<1> DEFINE q == [p EXCEPT !.bytes = n]
<1>4. n \in Nat
  <2>1. p.bytes \in Nat
    BY <1>2 DEF AnyBlocks, Blocks, ScopeBlocks
  <2>2. p.bytes \div 2 \in Nat
    BY <2>1
  <2> QED
    BY <1>1, <1>3, <2>1, <2>2 DEF Accepted
<1>5. q \in AnyBlocks /\ q.is = p.is /\ q.content = p.content /\ q.bytes = n
  <2>1. CASE p \in Blocks
    BY <2>1, <1>4 DEF AnyBlocks, Blocks
  <2>2. CASE p \in ScopeBlocks
    BY <2>2, <1>4 DEF AnyBlocks, ScopeBlocks
  <2> QED
    BY <2>1, <2>2, <1>2 DEF AnyBlocks
<1> HIDE DEF q
<1>6. UNCHANGED <<transfer, camera, dot, boundary_x, boundary_y, given, configs, scope>>
  BY DEF Transfer, settings
<1>7. AnyBlocks' = AnyBlocks /\ Blocks' = Blocks
  BY <1>6 DEF AnyBlocks, Blocks, ScopeBlocks, Things
<1>8. to_send' = Tail(to_send)
  BY DEF Transfer
<1>9. taken' = Append(taken, q)
  BY <1>3 DEF q
<1>10. /\ taken' \in Seq(AnyBlocks) /\ Len(taken') = Len(taken) + 1
       /\ \A k \in 1 .. Len(taken) : taken'[k] = taken[k]
       /\ taken'[Len(taken) + 1] = q
  BY <1>1, <1>5, <1>9
<1>11. /\ to_send' \in Seq(AnyBlocks) /\ Len(to_send') = Len(to_send) - 1
       /\ \A k \in 1 .. Len(to_send) - 1 : to_send'[k] = to_send[k + 1]
  BY <1>1, <1>8
<1>12. whole' \in BOOLEAN /\ (whole' => whole /\ n = p.bytes)
  BY <1>3, Zenon
<1>13. SendTypes'
  <2>1. taken' \in Seq(AnyBlocks') /\ to_send' \in Seq(AnyBlocks')
    BY <1>7, <1>10, <1>11
  <2>2. scope' \in Scopes
    BY <1>6 DEF SendIInv, SendTypes
  <2>3. /\ camera'.width \in Nat /\ camera'.height \in Nat
        /\ dot'.num \in Nat /\ dot'.dot_num \in Nat /\ dot'.wide \in BOOLEAN
        /\ configs' \in Nat /\ transfer' \in {"none", "tcp", "udp"}
    BY <1>6 DEF SendIInv, SendTypes
  <2> QED
    BY <1>12, <2>1, <2>2, <2>3, Zenon DEF SendTypes
<1>14. SlotsAgree'
  BY <1>6 DEF SendIInv, SlotsAgree, AllArrays, Arrays, Lines
<1>15. ASSUME ScopeSent
       PROVE  ScopeSent'
  <2>1. \A k \in 1 .. Len(taken') : taken'[k].is = "scope"
    <3> TAKE k \in 1 .. Len(taken')
    <3>1. CASE k \in 1 .. Len(taken)
      BY <3>1, <1>10, <1>15 DEF ScopeSent
    <3>2. CASE k = Len(taken) + 1
      <4>1. p.is = "scope"
        BY <1>2, <1>15 DEF ScopeSent
      <4> QED
        BY <4>1, <3>2, <1>5, <1>10
    <3>3. k \in 1 .. Len(taken) \/ k = Len(taken) + 1
      BY <1>2, <1>10
    <3> QED
      BY <3>1, <3>2, <3>3
  <2>2. \A k \in 1 .. Len(to_send') : to_send'[k].is = "scope"
    <3> TAKE k \in 1 .. Len(to_send')
    <3>1. k \in 1 .. Len(to_send) - 1 /\ k + 1 \in 1 .. Len(to_send)
      BY <1>2, <1>11
    <3> QED
      BY <3>1, <1>11, <1>15 DEF ScopeSent
  <2> QED
    BY <2>1, <2>2 DEF ScopeSent
<1>16. ASSUME PictureSent
       PROVE  PictureSent'
  <2>1. Picture' = Picture
    BY <1>6 DEF Picture, CameraData, CameraDots, Coordinates, DotsOf, DotBytes
  <2>2. Len(taken') + Len(to_send') = Len(Picture)
    <3>1. Len(taken') + Len(to_send') = Len(taken) + Len(to_send)
      BY <1>2, <1>10, <1>11
    <3> QED
      BY <3>1, <1>16 DEF PictureSent
  <2>3. p = Picture[Len(taken) + 1]
    BY <1>2, <1>16 DEF PictureSent
  <2>4. ASSUME NEW k \in 1 .. Len(taken')
        PROVE  /\ taken'[k].is = Picture[k].is /\ taken'[k].content = Picture[k].content
               /\ whole' => taken'[k].bytes = Picture[k].bytes
    <3>1. CASE k \in 1 .. Len(taken)
      <4>1. /\ taken[k].is = Picture[k].is /\ taken[k].content = Picture[k].content
            /\ whole => taken[k].bytes = Picture[k].bytes
        BY <3>1, <1>16 DEF PictureSent
      <4>2. taken'[k] = taken[k]
        BY <3>1, <1>10
      <4> QED
        BY <4>1, <4>2, <1>12, Zenon
    <3>2. CASE k = Len(taken) + 1
      <4>1. taken'[k] = q /\ Picture[k] = p
        BY <3>2, <1>10, <2>3
      <4> QED
        BY <4>1, <1>5, <1>12, Zenon
    <3>3. k \in 1 .. Len(taken) \/ k = Len(taken) + 1
      BY <1>2, <1>10
    <3> QED
      BY <3>1, <3>2, <3>3
  <2>5. ASSUME NEW k \in 1 .. Len(to_send')
        PROVE  to_send'[k] = Picture[Len(taken') + k]
    <3>1. k \in 1 .. Len(to_send) - 1 /\ k + 1 \in 1 .. Len(to_send)
          /\ Len(taken') + k = Len(taken) + (k + 1)
      BY <1>2, <1>10, <1>11
    <3> QED
      BY <3>1, <1>11, <1>16 DEF PictureSent
  <2> QED
    BY <2>1, <2>2, <2>4, <2>5 DEF PictureSent
<1>17. ASSUME NoneSent
       PROVE  FALSE
  BY <1>1, <1>17 DEF NoneSent
<1> QED
  BY <1>13, <1>14, <1>15, <1>16, <1>17 DEF SendIInv, Progress
(* A call finds nothing left to send, and forgets what was sent.           *)
LEMMA StartsSteps ==
  ASSUME SendIInv, InterfaceInit \/ InformationConfig \/ BoundaryConfig \/ CameraSend
                   \/ OscilloscopeSend \/ FillScope
  PROVE  SendIInv'
<1>1. taken' = <<>> /\ whole' = TRUE /\ to_send = <<>>
  BY DEF InterfaceInit, InformationConfig, BoundaryConfig, CameraSend, OscilloscopeSend, FillScope,
         SendBegins, SendIdle
<1>2. /\ transfer \in {"none", "tcp", "udp"} /\ camera.width \in Nat /\ camera.height \in Nat
      /\ dot.num \in Nat /\ dot.dot_num \in Nat /\ dot.wide \in BOOLEAN /\ configs \in Nat
      /\ scope \in Scopes
  BY DEF SendIInv, SendTypes
<1>3. taken' \in Seq(AnyBlocks') /\ whole' \in BOOLEAN
  BY <1>1
<1>4. ASSUME to_send' = <<>>
      PROVE  to_send' \in Seq(AnyBlocks') /\ Progress'
  BY <1>1, <1>4 DEF Progress, NoneSent
<1>5. ASSUME UNCHANGED <<dot, boundary_x, boundary_y, configs>>
      PROVE  SlotsAgree' /\ dot'.num \in Nat /\ dot'.dot_num \in Nat /\ dot'.wide \in BOOLEAN
             /\ configs' \in Nat
  BY <1>2, <1>5 DEF SendIInv, SlotsAgree, AllArrays, Arrays, Lines
<1>6. CASE InterfaceInit
  <2>1. /\ UNCHANGED <<camera, dot, boundary_x, boundary_y, configs, scope>> /\ to_send' = <<>>
        /\ transfer' \in {"none", "tcp", "udp"}
    BY <1>1, <1>6 DEF InterfaceInit, settings
  <2>2. scope' \in Scopes /\ camera'.width \in Nat /\ camera'.height \in Nat
    BY <1>2, <2>1
  <2> QED
    BY <1>3, <1>4, <1>5, <2>1, <2>2, Zenon DEF SendIInv, SendTypes
<1>7. CASE InformationConfig
  <2>1. UNCHANGED <<transfer, dot, boundary_x, boundary_y, configs, scope>> /\ to_send' = <<>>
    BY <1>1, <1>7 DEF InformationConfig
  <2>2. camera'.width \in Nat /\ camera'.height \in Nat
    BY <1>7, SendConstants DEF InformationConfig
  <2>3. scope' \in Scopes /\ transfer' \in {"none", "tcp", "udp"}
    BY <1>2, <2>1
  <2> QED
    BY <1>3, <1>4, <1>5, <2>1, <2>2, <2>3, Zenon DEF SendIInv, SendTypes
<1>8. CASE BoundaryConfig
  <2>1. UNCHANGED <<transfer, camera, scope>> /\ to_send' = <<>> /\ configs' = configs + 1
    BY <1>1, <1>8 DEF BoundaryConfig
  <2>2. SlotsAgree' /\ dot'.num \in Nat /\ dot'.dot_num \in Nat /\ dot'.wide \in BOOLEAN
    BY <1>8, ConfigKeepsSlots DEF SendIInv
  <2>3. /\ camera'.width \in Nat /\ camera'.height \in Nat /\ configs' \in Nat
        /\ scope' \in Scopes /\ transfer' \in {"none", "tcp", "udp"}
    BY <1>2, <2>1
  <2> QED
    BY <1>3, <1>4, <2>1, <2>2, <2>3, Zenon DEF SendIInv, SendTypes
<1>9. CASE CameraSend
  <2>1. UNCHANGED <<transfer, camera, dot, boundary_x, boundary_y, configs, scope>> /\ to_send' = Picture
    BY <1>9 DEF CameraSend, settings
  <2>2. Picture' = Picture /\ AnyBlocks' = AnyBlocks
    <3>1. Picture' = Picture
      <4>1. CameraData' = CameraData
        BY <2>1 DEF CameraData
      <4>2. Coordinates' = Coordinates
        BY <2>1 DEF Coordinates, DotsOf, DotBytes
      <4>3. CameraDots' = CameraDots
        BY <2>1, <4>2 DEF CameraDots
      <4> QED
        BY <2>1, <4>1, <4>3 DEF Picture
    <3>2. AnyBlocks' = AnyBlocks
      BY <2>1 DEF AnyBlocks, Blocks, ScopeBlocks, Things
    <3> QED
      BY <3>1, <3>2
  <2>3. Picture \in Seq(AnyBlocks)
    <3>1. Picture \in Seq(Blocks)
      BY PictureIs DEF SendIInv
    <3> QED
      BY <3>1 DEF AnyBlocks
  <2>4. PictureSent'
    <3>1. Len(taken') = 0 /\ Len(Picture) \in Nat
      BY <1>1, <2>3
    <3>2. Len(taken') + Len(to_send') = Len(Picture)
      BY <3>1, <2>1
    <3>3. \A k \in 1 .. Len(to_send') : Len(taken') + k = k
      BY <3>1
    <3>4. \A k \in 1 .. Len(to_send') : to_send'[k] = Picture[Len(taken') + k]
      BY <3>3, <2>1
    <3>5. 1 .. Len(taken') = {}
      BY <3>1
    <3> QED
      BY <2>2, <3>2, <3>4, <3>5 DEF PictureSent
  <2>5. /\ camera'.width \in Nat /\ camera'.height \in Nat
        /\ scope' \in Scopes /\ transfer' \in {"none", "tcp", "udp"}
    BY <1>2, <2>1
  <2>6. to_send' \in Seq(AnyBlocks')
    BY <2>1, <2>2, <2>3
  <2> QED
    BY <1>3, <1>5, <2>1, <2>4, <2>5, <2>6, Zenon DEF SendIInv, SendTypes, Progress
<1>10. CASE OscilloscopeSend
  <2> DEFINE p == Block("scope", scope', PacketSize(scope.channels))
  <2>1. /\ UNCHANGED <<transfer, camera, dot, boundary_x, boundary_y, configs>>
        /\ scope' = Prepared(scope) /\ to_send' = <<p>>
    BY <1>10 DEF OscilloscopeSend, settings
  <2>2. scope' \in Scopes /\ ScopeValid(scope') /\ PacketSize(scope.channels) \in Nat
    BY <1>2, <2>1, ScopeChecked
  <2>3. p \in ScopeBlocks /\ p.is = "scope"
    BY <2>2 DEF ScopeBlocks, Block
  <2>4. ScopeBlocks' = ScopeBlocks
    BY DEF ScopeBlocks
  <2>5. p \in AnyBlocks'
    BY <2>3, <2>4 DEF AnyBlocks
  <2> HIDE DEF p
  <2>6. to_send' \in Seq(AnyBlocks')
    BY <2>1, <2>5
  <2>7. Len(taken') = 0 /\ Len(to_send') = 1 /\ to_send'[1] = p
    BY <1>1, <2>1
  <2>8. ScopeSent'
    BY <2>3, <2>7 DEF ScopeSent
  <2>9. camera'.width \in Nat /\ camera'.height \in Nat /\ transfer' \in {"none", "tcp", "udp"}
    BY <1>2, <2>1
  <2> QED
    BY <1>3, <1>5, <2>1, <2>2, <2>6, <2>8, <2>9, Zenon DEF SendIInv, SendTypes, Progress
<1>11. CASE FillScope
  <2>1. UNCHANGED <<transfer, camera, dot, boundary_x, boundary_y, configs>> /\ to_send' = <<>>
    BY <1>1, <1>11 DEF FillScope, settings
  <2>2. PICK n \in 1 .. MaxChannels, d \in [1 .. MaxChannels -> Samples] :
          scope' = [scope EXCEPT !.function = 0, !.channels = n, !.data = d]
    BY <1>11 DEF FillScope
  <2>3. d \in [1 .. MaxChannels -> Int]
    BY SendConstants
  <2>4. scope' \in Scopes
    BY <1>2, <2>2, <2>3 DEF Scopes
  <2>5. camera'.width \in Nat /\ camera'.height \in Nat /\ transfer' \in {"none", "tcp", "udp"}
    BY <1>2, <2>1
  <2> QED
    BY <1>3, <1>4, <1>5, <2>1, <2>4, <2>5, Zenon DEF SendIInv, SendTypes
<1> QED
  BY <1>6, <1>7, <1>8, <1>9, <1>10, <1>11

(* Nothing that is said depends on anything but the assistant's state.     *)
LEMMA SendUnchanged ==
  ASSUME SendIInv, UNCHANGED sendVars
  PROVE  SendIInv'
<1>1. UNCHANGED <<transfer, camera, dot, boundary_x, boundary_y, configs, scope, to_send, taken, whole>>
  BY DEF sendVars, settings
<1>2. Picture' = Picture /\ AnyBlocks' = AnyBlocks
  BY <1>1 DEF Picture, CameraData, CameraDots, Coordinates, DotsOf, DotBytes,
              AnyBlocks, Blocks, ScopeBlocks, Things
<1>3. SendTypes'
  BY <1>1, <1>2 DEF SendIInv, SendTypes
<1>4. SlotsAgree'
  BY <1>1 DEF SendIInv, SlotsAgree, AllArrays, Arrays, Lines
<1>5. Progress'
  BY <1>1, <1>2 DEF SendIInv, Progress, NoneSent, ScopeSent, PictureSent
<1> QED
  BY <1>3, <1>4, <1>5 DEF SendIInv

(* Between the calls a picture that was taken whole has the announced size.*)
LEMMA PictureAddsUp ==
  ASSUME SendTypes, SlotsAgree, PictureSent, SendIdle, whole, configs <= 1
  PROVE  Bytes(Tail(taken)) = Announced
<1> DEFINE n == Len(Picture)
           s == Tail(taken)
           f == [k \in DOMAIN s |-> s[k].bytes]
           shown == IF camera.addr = NULL THEN 0 ELSE ImageSize(camera)
           more == IF dot.num = 0 THEN 0 ELSE 1 + AllArrays
<1>1. /\ Picture \in Seq(Blocks) /\ n = HeadBlocks + more
      /\ Picture[1].is = "camera" /\ Picture[1].content = [camera |-> camera, num |-> dot.num]
      /\ HeadBlocks = 2 => Picture[2].bytes = ImageSize(camera)
      /\ dot.num # 0 => /\ Picture[HeadBlocks + 1].bytes = DotHeader
                        /\ \A k \in HeadBlocks + 2 .. Len(Picture) : Picture[k].bytes = DotBytes
  BY PictureIs
<1>2. AllArrays \in Nat /\ HeadBlocks \in {1, 2} /\ dot.num \in Nat
  BY DotsOfAll DEF HeadBlocks, SendTypes
<1>3. more \in Nat /\ n \in Nat /\ n >= 1
  BY <1>1, <1>2
<1>4. Len(to_send) = 0
  BY DEF SendIdle
<1>5. taken \in Seq(AnyBlocks) /\ Len(taken) = n
  <2>1. taken \in Seq(AnyBlocks) /\ Len(taken) \in Nat /\ Len(taken) + Len(to_send) = n
    BY DEF SendTypes, PictureSent
  <2> QED
    BY <2>1, <1>4
<1>6. \A k \in 1 .. n : /\ taken[k].content = Picture[k].content
                        /\ taken[k].bytes = Picture[k].bytes /\ Picture[k].bytes \in Nat
  <2>1. \A k \in 1 .. n : Picture[k] \in Blocks
    BY <1>1, ElementOfSeq
  <2>2. \A k \in 1 .. n : Picture[k].bytes \in Nat
    BY <2>1 DEF Blocks
  <2>3. \A k \in 1 .. n : taken[k].content = Picture[k].content /\ taken[k].bytes = Picture[k].bytes
    BY <1>5 DEF PictureSent
  <2> QED
    BY <2>2, <2>3
<1> HIDE DEF n, more
<1>7. Len(s) = n - 1 /\ DOMAIN s = 1 .. n - 1 /\ n - 1 \in Nat /\ \A k \in 1 .. n - 1 : s[k] = taken[k + 1]
  <2>1. taken # <<>>
    BY <1>3, <1>5
  <2>2. s \in Seq(AnyBlocks) /\ Len(s) = n - 1 /\ \A k \in 1 .. n - 1 : s[k] = taken[k + 1]
    BY <2>1, <1>3, <1>5
  <2> QED
    BY <2>2, <1>3
<1> HIDE DEF s
<1>8. \A k \in 1 .. n - 1 : f[k] = Picture[k + 1].bytes /\ f[k] \in Int
  <2> TAKE k \in 1 .. n - 1
  <2>1. k + 1 \in 1 .. n
    BY <1>3
  <2>2. f[k] = s[k].bytes /\ s[k] = taken[k + 1]
    BY <1>7
  <2> QED
    BY <2>1, <2>2, <1>6
<1>9. Bytes(s) = Total(f, n - 1)
  BY <1>7 DEF Bytes
<1> HIDE DEF f
<1>10. PICK g : Sums(f, n - 1, g) /\ Total(f, n - 1) = g[n - 1]
  BY <1>7, <1>8, TotalIs
<1>11. g \in [0 .. n - 1 -> Int] /\ g[0] = 0 /\ \A k \in 1 .. n - 1 : g[k] = g[k - 1] + Picture[k + 1].bytes
  BY <1>8, <1>10 DEF Sums
<1>12. g[HeadBlocks - 1] = shown
  <2>1. CASE camera.addr = NULL
    BY <2>1, <1>11 DEF HeadBlocks
  <2>2. CASE camera.addr # NULL
    <3>1. HeadBlocks = 2 /\ 1 \in 1 .. n - 1 /\ Picture[2].bytes = ImageSize(camera)
      BY <2>2, <1>1, <1>2, <1>3 DEF HeadBlocks
    <3>2. g[1] = g[0] + Picture[1 + 1].bytes
      BY <3>1, <1>11
    <3>3. ImageSize(camera) \in Nat
      BY ImageSizeIsNat
    <3> QED
      BY <2>2, <3>1, <3>2, <3>3, <1>11
  <2> QED
    BY <2>1, <2>2
<1>13. taken[1].content = [camera |-> camera, num |-> dot.num]
  BY <1>1, <1>3, <1>6
<1>14. taken[1].content.camera = camera /\ taken[1].content.num = dot.num
  BY <1>13
<1>15. shown \in Nat
  BY ImageSizeIsNat
<1> HIDE DEF shown
<1>16. Announced = IF dot.num = 0 THEN shown
                   ELSE shown + DotHeader + Lines(dot) * dot.dot_num * (IF dot.wide THEN 2 ELSE 1)
  BY <1>14 DEF Announced, shown
<1>17. CASE dot.num = 0
  <2>1. n - 1 = HeadBlocks - 1
    BY <1>17, <1>1, <1>2 DEF more
  <2> QED
    BY <2>1, <1>9, <1>10, <1>12, <1>16, <1>17 DEF s
<1>18. CASE dot.num # 0
  <2>1. n - 1 = HeadBlocks + AllArrays /\ HeadBlocks \in 1 .. n - 1
    BY <1>18, <1>1, <1>2 DEF more
  <2>2. g[HeadBlocks] = shown + DotHeader
    <3>1. g[HeadBlocks] = g[HeadBlocks - 1] + Picture[HeadBlocks + 1].bytes
      BY <2>1, <1>11
    <3> QED
      BY <3>1, <1>1, <1>12, <1>18
  <2>3. \A k \in HeadBlocks + 1 .. n - 1 : g[k] = g[k - 1] + DotBytes
    <3> TAKE k \in HeadBlocks + 1 .. n - 1
    <3>1. k \in 1 .. n - 1 /\ k + 1 \in HeadBlocks + 2 .. n
      BY <1>2, <1>3
    <3> QED
      BY <3>1, <1>1, <1>11, <1>18 DEF n
  <2>4. DotBytes \in Nat /\ DotBytes = dot.dot_num * (IF dot.wide THEN 2 ELSE 1)
    BY DotBytesIs
  <2>5. g[n - 1] = g[HeadBlocks] + ((n - 1) - HeadBlocks) * DotBytes
    <3>1. n - 1 \in Nat /\ HeadBlocks \in 0 .. n - 1 /\ DotBytes \in Int /\ g \in [0 .. n - 1 -> Int]
      BY <1>2, <1>3, <1>11, <2>1, <2>4
    <3> QED
      BY <3>1, <2>3, SumsEven
  <2>6. (n - 1) - HeadBlocks = AllArrays
    BY <2>1, <1>2
  <2>7. AllArrays = Lines(dot)
    <3>1. configs = 1
      BY <1>18 DEF SlotsAgree, SendTypes
    <3> QED
      BY <3>1 DEF SlotsAgree
  <2>8. \A a, b, c \in Int : a * (b * c) = a * b * c
    OBVIOUS
  <2>9. /\ dot.dot_num \in Int /\ (IF dot.wide THEN 2 ELSE 1) \in Int
    BY DEF SendTypes
  <2>10. Lines(dot) * dot.dot_num * (IF dot.wide THEN 2 ELSE 1) = AllArrays * DotBytes
    <3> DEFINE w == IF dot.wide THEN 2 ELSE 1
    <3>1. w \in Int /\ DotBytes = dot.dot_num * w
      BY <2>4, <2>9
    <3> HIDE DEF w
    <3>2. AllArrays \in Int /\ dot.dot_num \in Int
      BY <1>2, <2>9
    <3>3. AllArrays * (dot.dot_num * w) = AllArrays * dot.dot_num * w
      BY <2>8, <3>1, <3>2
    <3>4. Lines(dot) * dot.dot_num * w = AllArrays * DotBytes
      BY <2>7, <3>1, <3>3, Zenon
    <3> QED
      BY <3>4 DEF w
  <2>11. g[n - 1] = shown + DotHeader + AllArrays * DotBytes
    BY <2>2, <2>5, <2>6
  <2> QED
    BY <2>10, <2>11, <1>9, <1>10, <1>16, <1>18 DEF s
<1> QED
  BY <1>17, <1>18

(* Whatever the transport takes, what the assistant sends is what its      *)
(* headers announce: a picture that was taken whole has as many bytes as   *)
(* they say, as long as the boundaries were configured once only, and an   *)
(* oscilloscope packet carries the sum of its bytes and its length.        *)
THEOREM SendsWhatItAnnounces == SendSpec => []SentAsAnnounced
<1>1. SendInit => SendIInv
  BY SendInitially
<1>2. SendIInv /\ [SendNext]_sendVars => SendIInv'
  <2> SUFFICES ASSUME SendIInv, [SendNext]_sendVars
               PROVE  SendIInv'
    OBVIOUS
  <2> QED
    BY StartsSteps, TransferSteps, SendUnchanged DEF SendNext
<1>3. SendIInv => SentAsAnnounced
  <2> SUFFICES ASSUME SendIInv
               PROVE  SentAsAnnounced
    OBVIOUS
  <2>1. SendTypes /\ SlotsAgree /\ Progress
    BY DEF SendIInv
  <2>2. PictureMatchesHeaders
    <3> SUFFICES ASSUME SendIdle, whole, CameraOnWire, configs <= 1
                 PROVE  Bytes(Tail(taken)) = Announced
      BY DEF PictureMatchesHeaders
    <3>1. taken # <<>> /\ taken[1].is = "camera" /\ taken \in Seq(AnyBlocks)
      BY <2>1 DEF CameraOnWire, SendTypes
    <3>2. 1 \in 1 .. Len(taken)
      BY <3>1
    <3>3. PictureSent
      BY <2>1, <3>1, <3>2 DEF Progress, NoneSent, ScopeSent
    <3> QED
      BY <2>1, <3>3, PictureAddsUp
  <2>3. ScopePacketValid
    <3> SUFFICES ASSUME NEW i \in DOMAIN taken, taken[i].is = "scope"
                 PROVE  ScopeValid(taken[i].content)
      BY DEF ScopePacketValid, ScopeValid
    <3>1. taken \in Seq(AnyBlocks)
      BY <2>1 DEF SendTypes
    <3>2. taken[i] \in AnyBlocks
      BY <3>1
    <3> QED
      BY <3>2 DEF AnyBlocks, Blocks, ScopeBlocks
  <2> QED
    BY <2>2, <2>3 DEF SentAsAnnounced
<1> QED
  BY <1>1, <1>2, <1>3, PTL DEF SendSpec
=============================================================================
