---------------------------- MODULE Descriptors ----------------------------
(***************************************************************************)
(* Who holds which file descriptor.  The drivers keep descriptor numbers   *)
(* in static variables and objects: TCP client, UDP, image client, range   *)
(* finder (with the thread that reads it), voice module, a GPIO pin.  The  *)
(* kernel gives the lowest free number to whoever opens next, so a number  *)
(* kept after its close may come to mean another component's file.         *)
(*                                                                         *)
(* One thread makes the calls; each is one step, except vl53l0xStop, which *)
(* waits for the read thread.  What is read and sent is left out.          *)
(* A definition X_Y is a wrong form of X, used to show that a property     *)
(* depends on X.                                                           *)
(***************************************************************************)
EXTENDS Integers, FiniteSets

CONSTANTS
  Highest,      \* the highest number a descriptor can have (bound)
  Programs      \* the sets of drivers that are used together (bound)

ASSUME DescriptorsAssumption == Highest \in Nat

VARIABLES
  drivers,      \* the drivers that are used
  table,        \* whose file each number is
  tcp, udp,     \* tcp_client_socket, udp_client_socket
  sock, image,  \* Socket_Tcp: its number, and how far it is set up
  sensor_fd, thread_running, reader,   \* of the range finder; reader is the thread's place
  stopping,     \* is vl53l0xStop waiting for the thread?
  echo,         \* wonderEcho_fd
  gpio, exported,   \* the pin's number (-1 when there is no object); does the kernel export it?
  result,       \* the last call: what it was, did it succeed, and whose file it acted on
  initialised,  \* of "tcp" and "udp": those whose last initialisation succeeded
  careful       \* has every call so far respected the results of those before?

sockets == <<tcp, udp, sock, image>>
ranging == <<sensor_fd, thread_running, reader, stopping>>
others  == <<echo, gpio, exported>>
filesVars == <<drivers, table, sockets, ranging, others, result, initialised, careful>>

Free == "free"
Numbers == 0 .. Highest
Owner == {Free, "stdin", "file", "tcp", "udp", "image", "sensor", "echo", "gpio"}

-----------------------------------------------------------------------------
(* The kernel (external): open takes the lowest free number.               *)
HasRoom == \E n \in Numbers : table[n] = Free
Lowest == CHOOSE n \in Numbers : table[n] = Free /\ \A m \in 0 .. n - 1 : table[m] # Free
OwnerOf(n) == IF n \in Numbers THEN table[n] ELSE Free
Opened(owner) == [table EXCEPT ![Lowest] = owner]
Closed(n) == [m \in Numbers |-> IF m = n THEN Free ELSE table[m]]

(* The call that opened a descriptor closes it when a later step fails.    *)
Shut_OnlyInTheEnd(owner, ok) == owner
Shut(owner, ok) == IF ok THEN owner ELSE Free

Listed(driver, ok) == IF ok THEN initialised \cup {driver} ELSE initialised \ {driver}
Returns(op, ok, on) == result' = [op |-> op, ok |-> ok, on |-> on]

-----------------------------------------------------------------------------
(* tcp_client_init: the number stays behind when connect or                *)
(* set_nonblocking fails and the socket is closed.                         *)
TcpInit ==
  /\ tcp' = IF HasRoom THEN Lowest ELSE -1
  /\ \E connected \in BOOLEAN :
       /\ table' = IF HasRoom THEN Opened(Shut("tcp", connected)) ELSE table
       /\ initialised' = Listed("tcp", HasRoom /\ connected)
       /\ Returns("tcp_init", HasRoom /\ connected, "tcp")
  /\ UNCHANGED <<udp, sock, image, ranging, others, careful>>

(* tcp_client_read_data and tcp_client_send_data.  A caller is careful if  *)
(* the last initialisation succeeded.                                      *)
TcpUse ==
  /\ Returns("tcp_use", OwnerOf(tcp) = "tcp", OwnerOf(tcp))
  /\ careful' = (careful /\ "tcp" \in initialised)
  /\ UNCHANGED <<table, sockets, ranging, others, initialised>>

UdpInit ==
  /\ udp' = IF HasRoom THEN Lowest ELSE -1
  /\ table' = IF HasRoom THEN Opened("udp") ELSE table
  /\ initialised' = Listed("udp", HasRoom)
  /\ Returns("udp_init", HasRoom, "udp")
  /\ UNCHANGED <<tcp, sock, image, ranging, others, careful>>

(* udp_send_data and udp_read_data.                                        *)
UdpUse ==
  /\ Returns("udp_use", OwnerOf(udp) = "udp", OwnerOf(udp))
  /\ careful' = (careful /\ "udp" \in initialised)
  /\ UNCHANGED <<table, sockets, ranging, others, initialised>>

-----------------------------------------------------------------------------
(* Socket_Tcp: constructor, server_config, send_img and send_int,          *)
(* destructor.  server_config closes the socket when it fails and keeps    *)
(* the number, and may be called again: after it has failed, when the      *)
(* number may be another's, and after it has succeeded, when connect       *)
(* refuses the socket for being connected.  A UDP socket is connected      *)
(* whatever it was before.                                                 *)
ImageMake ==
  /\ image = "none"
  /\ sock' = IF HasRoom THEN Lowest ELSE -1
  /\ table' = IF HasRoom THEN Opened("image") ELSE table
  /\ image' = "made"
  /\ Returns("image_make", HasRoom, "image")
  /\ UNCHANGED <<tcp, udp, ranging, others, initialised, careful>>

OnImage == IF sock = -1 THEN "image" ELSE OwnerOf(sock)

ServerConfig ==
  /\ image # "none"
  /\ \E connected \in BOOLEAN :
       /\ connected => image # "connected" /\ OwnerOf(sock) \in {"image", "udp"}
       /\ table' = IF connected THEN table ELSE Closed(sock)
       /\ image' = IF connected THEN "connected" ELSE "refused"
       /\ Returns("image_config", connected, OnImage)
  /\ careful' = (careful /\ image # "refused")
  /\ UNCHANGED <<tcp, udp, sock, ranging, others, initialised>>

ImageSend ==
  /\ image # "none"
  /\ Returns("image_send", OwnerOf(sock) = "image", OnImage)
  /\ careful' = (careful /\ image # "refused")
  /\ UNCHANGED <<table, sockets, ranging, others, initialised>>

ImageDestroy ==
  /\ image # "none"
  /\ table' = IF sock = -1 THEN table ELSE Closed(sock)
  /\ image' = "none"
  /\ Returns("image_end", TRUE, OnImage)
  /\ careful' = (careful /\ image # "refused")
  /\ UNCHANGED <<tcp, udp, sock, ranging, others, initialised>>

-----------------------------------------------------------------------------
(* vl53l0xInit: STOP, two parameters and INIT may each be refused, and     *)
(* close the device; so does a thread that cannot be created, but then     *)
(* sensor_fd has been set.  The number 0 counts as a failed open, and is   *)
(* not closed: it is taken here, as in every process that has a stdin.     *)
VlInit ==
  /\ ~thread_running     \* a second read thread is not modelled
  /\ \E outcome \in {"refused", "no_thread", "started"} :
       /\ outcome = "started" => HasRoom
       /\ outcome = "no_thread" => HasRoom
       /\ sensor_fd' = IF outcome = "refused" THEN sensor_fd ELSE Lowest
       /\ table' = IF HasRoom THEN Opened(Shut("sensor", outcome = "started")) ELSE table
       /\ thread_running' = (outcome = "started")
       /\ reader' = IF outcome = "started" THEN "test" ELSE reader
       /\ Returns("sensor_init", outcome = "started", "sensor")
  /\ UNCHANGED <<sockets, stopping, others, initialised, careful>>

(* vl53l0xStop: the flag and the join, then STOP and close.                *)
VlStop ==
  /\ stopping' = TRUE
  /\ thread_running' = FALSE
  /\ careful' = (careful /\ thread_running)
  /\ Returns("sensor_stop", TRUE, "sensor")
  /\ UNCHANGED <<table, sockets, sensor_fd, reader, others, initialised>>

VlStopClose_NoJoin ==
  /\ stopping
  /\ stopping' = FALSE
  /\ table' = Closed(sensor_fd)
  /\ Returns("sensor_close", OwnerOf(sensor_fd) = "sensor", OwnerOf(sensor_fd))
  /\ UNCHANGED <<sockets, sensor_fd, thread_running, reader, others, initialised, careful>>

VlStopClose ==
  /\ stopping
  /\ reader = "none"
  /\ stopping' = FALSE
  /\ table' = Closed(sensor_fd)
  /\ Returns("sensor_close", OwnerOf(sensor_fd) = "sensor", OwnerOf(sensor_fd))
  /\ UNCHANGED <<sockets, sensor_fd, thread_running, reader, others, initialised, careful>>

(* read_thread_func: the test of the flag; vl53l0xGetData and the store.   *)
ReaderTest ==
  /\ reader = "test"
  /\ reader' = IF thread_running THEN "measure" ELSE "none"
  /\ UNCHANGED <<table, sockets, sensor_fd, thread_running, stopping,
                 others, result, initialised, careful>>

ReaderMeasure ==
  /\ reader = "measure"
  /\ reader' = "test"
  /\ Returns("sensor_read", OwnerOf(sensor_fd) = "sensor", OwnerOf(sensor_fd))
  /\ UNCHANGED <<table, sockets, sensor_fd, thread_running, stopping, others, initialised, careful>>

Reader == ReaderTest \/ ReaderMeasure

-----------------------------------------------------------------------------
(* wonderEchoInit: a second one overwrites the number of the first.        *)
EchoInit ==
  /\ \E addressed \in BOOLEAN :
       LET ok == HasRoom /\ addressed
       IN  /\ echo' = IF ok THEN Lowest ELSE echo
           /\ table' = IF HasRoom THEN Opened(Shut("echo", ok)) ELSE table
           /\ Returns("echo_init", ok, "echo")
  /\ UNCHANGED <<sockets, ranging, gpio, exported, initialised, careful>>

(* wonderEchoSend with a first byte it accepts; under i2c_mutex.  It       *)
(* returns 0 whether the write succeeds or not.                            *)
EchoSend ==
  /\ Returns("echo_use", TRUE, OwnerOf(echo))
  /\ careful' = (careful /\ echo # 0)
  /\ UNCHANGED <<table, sockets, ranging, others, initialised>>

(* GPIO::GPIO.  The number is written through a buffered stream: that the  *)
(* kernel refuses it, because the pin is exported already, shows when the  *)
(* stream is closed, after the result was taken.                           *)
WriteReported == TRUE

GpioMake ==
  /\ gpio = -1
  /\ \E opens \in BOOLEAN :
       LET ok == HasRoom /\ opens /\ WriteReported
       IN  /\ exported' = (exported \/ HasRoom)
           /\ gpio' = IF ok THEN Lowest ELSE -1
           /\ table' = IF ok THEN Opened("gpio") ELSE table
           /\ Returns(IF HasRoom /\ opens THEN "gpio_make" ELSE "gpio_fault", ok, "gpio")
  /\ UNCHANGED <<sockets, ranging, echo, initialised, careful>>

GpioUse ==
  /\ gpio # -1
  /\ Returns("gpio_use", OwnerOf(gpio) = "gpio", OwnerOf(gpio))
  /\ UNCHANGED <<table, sockets, ranging, others, initialised, careful>>

GpioDestroy ==
  /\ gpio # -1
  /\ table' = Closed(gpio)
  /\ gpio' = -1
  /\ Returns("gpio_end", TRUE, OwnerOf(gpio))
  /\ UNCHANGED <<sockets, ranging, echo, exported, initialised, careful>>

(* map_register, file_io_operation, file_read_string, file_write_string    *)
(* and the two writeToFile open, act and close within a call; map_register *)
(* ends the process when it fails, which Restart does.                     *)
Bracket ==
  /\ \E acted \in BOOLEAN :
       /\ table' = IF HasRoom THEN Opened(Shut("file", FALSE)) ELSE table
       /\ Returns("bracket", HasRoom /\ acted, "file")
  /\ UNCHANGED <<sockets, ranging, others, initialised, careful>>

(* The process ends, whatever it was doing, and is started again: its      *)
(* descriptors are closed, the pin stays exported.                         *)
Start ==
  /\ table' = [n \in Numbers |-> IF n = 0 THEN "stdin" ELSE Free]
  /\ tcp' = 0 /\ udp' = 0
  /\ sock' = -1 /\ image' = "none"
  /\ sensor_fd' = -1 /\ thread_running' = FALSE /\ reader' = "none" /\ stopping' = FALSE
  /\ echo' = 0 /\ gpio' = -1
  /\ result' = [op |-> "start", ok |-> TRUE, on |-> Free]
  /\ initialised' = {} /\ careful' = TRUE

Restart == Start /\ UNCHANGED exported

FilesInit ==
  /\ drivers \in Programs
  /\ table = [n \in Numbers |-> IF n = 0 THEN "stdin" ELSE Free]
  /\ tcp = 0 /\ udp = 0
  /\ sock = -1 /\ image = "none"
  /\ sensor_fd = -1 /\ thread_running = FALSE /\ reader = "none" /\ stopping = FALSE
  /\ echo = 0 /\ gpio = -1 /\ exported = FALSE
  /\ result = [op |-> "start", ok |-> TRUE, on |-> Free]
  /\ initialised = {} /\ careful = TRUE

(* While vl53l0xStop waits, its caller makes no other call.                *)
Call ==
  /\ ~stopping
  /\ \/ "tcp" \in drivers /\ (TcpInit \/ TcpUse)
     \/ "udp" \in drivers /\ (UdpInit \/ UdpUse)
     \/ "image" \in drivers /\ (ImageMake \/ ServerConfig \/ ImageSend \/ ImageDestroy)
     \/ "sensor" \in drivers /\ (VlInit \/ VlStop)
     \/ "echo" \in drivers /\ (EchoInit \/ EchoSend)
     \/ "gpio" \in drivers /\ (GpioMake \/ GpioUse \/ GpioDestroy)
     \/ Bracket
  /\ UNCHANGED drivers

FilesNext ==
  \/ Call
  \/ (VlStopClose \/ Reader \/ Restart) /\ UNCHANGED drivers

(* The read thread runs on, and when it has ended the call that waits for  *)
(* it.                                                                     *)
FilesFairness == WF_filesVars((Reader \/ VlStopClose) /\ UNCHANGED drivers)
FilesSpec == FilesInit /\ [][FilesNext]_filesVars /\ FilesFairness
-----------------------------------------------------------------------------
(* A call that fails gives back every descriptor it has opened, however    *)
(* far it came; so does one that needs its file for its own time only.     *)
NothingLeaks ==
  [][~result'.ok \/ result'.op = "bracket"
       => \A n \in Numbers : table'[n] # Free => table[n] = table'[n]]_filesVars

(* The driver whose file the last call should have acted on.               *)
OwnerOfCall ==
  CASE result.op \in {"tcp_init", "tcp_use"} -> "tcp"
    [] result.op \in {"udp_init", "udp_use"} -> "udp"
    [] result.op \in {"image_make", "image_config", "image_send", "image_end"} -> "image"
    [] result.op \in {"sensor_init", "sensor_stop", "sensor_close", "sensor_read"} -> "sensor"
    [] result.op \in {"echo_init", "echo_use"} -> "echo"
    [] result.op \in {"gpio_make", "gpio_fault", "gpio_use", "gpio_end"} -> "gpio"
    [] OTHER -> result.on

OwnNumbers == careful => result.on = OwnerOfCall
GpioComesBack == result.op = "gpio_make" => result.ok

(* Numbers given back are given out again, but no driver reads, writes or  *)
(* closes a file of another through one it has kept, as long as its caller *)
(* goes by the results: it uses and stops what was initialised, and makes  *)
(* no call of a Socket_Tcp whose server_config has failed, neither         *)
(* server_config again nor the destructor.  (Those that do so are the      *)
(* careless ones.)  A pin that an earlier run of the program, or an        *)
(* earlier object, has exported can be made again.                         *)
DescriptorsOwn == OwnNumbers /\ GpioComesBack

(* vl53l0xStop returns: the read thread sees the flag.                     *)
StopReturns == stopping ~> ~stopping
=============================================================================
