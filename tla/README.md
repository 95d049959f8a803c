# TLA+ model of the robot program

The program drives a two-wheel line-following robot on a Loongson board: a
motion thread closes the speed loop of both wheels every 5 ms, a vision thread
grabs camera frames, and a library layer (registers, PWM, GPIO, FIFO, TCP, UDP,
range finder, voice module, display, conversions) sits below. `src/robot/Robot/`
is the program, `src/robot/libraries/` the drivers it uses. There are no tests;
what the code promises is in its comments, two notes on PID tuning and
`config.txt`.

All paths below are relative to `src/robot/`.

## Inventory

| component | state | operations | interacts with |
|---|---|---|---|
| process runtime (`Robot/user/main.cpp`, `Robot/control/keyboard_control.cpp`) | `system_running`, `stop_flag`, `emergency_stop` (atomics), the places of four threads, `last_stop`, `tick` | thread loops, SIGINT handler, `atexit(cleanup)`, static destructors, key handling | motor registers, speed loop |
| motors (`Robot/control/motor.cpp`) | duty register and direction pin of each wheel | `motor_init`, `motor_set_duty` (clamp), `motor_stop` (duty 1), forward, backward | `PWM_GTIM`, `GPIO` |
| speed loop (`Robot/control/PID.cpp`, `machine.cpp`, `sensor.cpp`, `encoder.cpp`) | `prev_error`, `prev2_error`, `output` of each wheel, measured speeds | `calculate`, `reset`, `setPID`, `sensor_encoder_get` | motors, configuration |
| configuration (`Robot/control/config.cpp`, `config.txt`) | `g_config` and globals | `config_load`, `config_get_float/int` | everything that should read it |
| steering (`Robot/control/servo.cpp`, `PWMController.cpp`, `machine_angPD`) | angle state, servo middle, the kernel's PWM files | `servo_init`, `servo_set`, `machine_angPD` | sysfs |
| line extraction (`Robot/image/gl_handle_img.cpp`, `gl_get_corners.cpp`, `gl_img_process.cpp`) | point arrays and their counts | border followers, filter, resampling, angles, maxima, middle lines, corner search | course elements, tracking |
| tracking (`Robot/image/gl_tracking.cpp`, `RunCross`) | `track_type`, `state_type`, aim, counts of the lines | choice of the line, aim, angle | steering |
| course elements (`Robot/image/gl_cross.cpp`, `gl_zebra.cpp`, `gl_barrier.cpp`, `Robot/control/timer.cpp`) | crossing, zebra and barrier state, their time stamps, `timeStamp` | `Check*`, `Run*`, `ElementJudge`, `ElementRun`, the 10 ms timer callback | motors, range finder, voice module, line extraction |
| FIFO (`libraries/zf_common/zf_common_fifo.cpp`) | `execution` flags, `head`, `end`, `size`, buffer | write, read, read and clean, tail read, clear; may be nested by interrupts | upper-computer assistant |
| upper-computer assistant (`libraries/zf_components/seekfree_assistant*.cpp`) | receive FIFO, parameters and update flags, camera and boundary descriptors | frame parser, oscilloscope and camera senders | FIFO, TCP client, UDP |
| TCP, UDP and image client (`zf_driver_tcp_client.cpp`, `zf_driver_udp.cpp`, `Robot/control/Socket_Tcp.cpp`) | sockets | connect, send in pieces, read | assistant, camera |
| periodic timer (`zf_driver_pit.cpp`) | `running`, thread, `g_pit_timer` | start, loop, stop in the destructor | course elements |
| range finder (`robot_source/vl53l0x.cpp`) | `sensor_fd`, `thread_running`, `latest_range_mm` | init, read thread, get, stop | barrier |
| voice module (`robot_source/wonderEcho.cpp`) | i2c descriptor under a mutex | init, send | zebra |
| timers' registers (`robot_source/pwm_gtim.cpp`, `pwm_atim.cpp`, `GPIO.cpp`, `register.cpp`) | mapped registers shared by channels and by successive runs | read-modify-write of mux, mode, enable and polarity bits, period, duty | motors, encoders |
| common functions (`zf_common_function.cpp`) | none | gcd, delay, number/text conversions, `zf_sprintf` | display, assistant |
| display (`zf_device_ips200_fb.cpp`) | frame buffer | points, lines, characters, strings, numbers, images | user code |
| thin drivers (`zf_driver_file/gpio/pwm/encoder/adc/delay.cpp`), IMU, camera | file descriptors | one system call each | user code |
| tables (`zf_common_font.cpp`, `gl_transform_table.cpp`), build files | none | none | not logic |

What is hard in this code: the exit paths (a handler that calls `exit` while a
real-time thread drives the wheels), flags that are set and never read, FIFO
calls nested by interrupts, wrap-around of indices and of the 10 ms time
stamp, arrays of one frame that are read in the next, everything written twice
for left and right, partial sends, failure paths that keep a closed descriptor,
and hardware and kernel state that outlives the program. `PROJECT.json` lists
each at its line.

## What makes each component correct

- **Runtime.** Whichever thread asks for the stop, and wherever the others are,
  the wheels end at the stop duty; a request to stop ends the process.
- **Speed loop.** The duty stays in its range; the increments are those of a
  positional controller with the same gains; no reading and no configuration
  leaves a wheel without power for ever.
- **Steering.** The kernel holds the pulse that was asked for, also after a run
  that was killed; an element that ends does not kick the steering.
- **Line extraction.** The follower keeps to the border and inside the image
  and comes to an end; samples are equidistant; left and right are alike; a
  loop that breaks off early has missed no corner.
- **Tracking.** What is steered by belongs to this frame; a crossing's aim does
  not outlive it.
- **Course elements.** One element at a time; each ends; dead times and stop
  times hold on a time stamp that wraps; what one element sets does not outlive it.
- **FIFO.** It behaves as a bounded queue, and nested calls do not spoil each
  other's copies or accounts.
- **Assistant, image client.** What is stored is what was sent, in that order,
  whatever way the stream is cut; damage costs no more than it must; what
  follows a header is what the header announces; each call returns.
- **Descriptors.** No driver acts on a number that has come to mean another's
  file; a call that fails gives back what it opened.
- **Registers.** No write of one channel disturbs a bit of another; an object
  works as asked whatever an earlier run left behind.
- **Timer.** No callback after the destructor; until then it keeps calling.
- **Conversions, display.** What is written reads back; two functions that do
  the same agree; a field replaces what was there and nothing beside it.

## Modules

| module | models | built on | checked by | proofs |
|---|---|---|---|---|
| `RobotRuntime` | main, its threads, SIGINT, exit | | `MCRobotRuntime` | `RobotRuntime_proofs` |
| `IncrementalPID` | class `IncrementalPID` | | by the next two | |
| `PIDHistory` | its calls with a record of what they add up to | extends `IncrementalPID` | `MCDevices` | `Devices_proofs` |
| `SpeedLoop` | one wheel from `config_load` to the duty | extends `IncrementalPID` | `MCSpeedLoop`, `MCControl` | `Devices_proofs` |
| `Steering` | servo, kernel PWM files, angle controller | | `MCControl` | `Control_proofs` |
| `WallFollower` | the two border followers on a gray image | | `MCControl` | `Control_proofs` |
| `RoadSides` | the two borders, `clip` | | by the next three | |
| `BorderLine` | filter, resampling, angles, maxima, middle lines | extends `RoadSides` | `MCControl` | `Control_proofs` |
| `Corners` | corner search, far corners, barrier corners | extends `RoadSides` | `MCControl` | `Control_proofs` |
| `Tracking` | crossing, choice of the line, aim | extends `RoadSides` | `MCControl` | `Control_proofs` |
| `CourseElements` | crossing, zebra stop, barrier, `timeStamp` | | `MCCourseElements` | `CourseElements_proofs` |
| `FifoQueue` | abstract: a bounded queue | | as a property of `Fifo` | |
| `Fifo` | every FIFO call, one at a time | implements `FifoQueue` | `MCFifo`, `MCDevices` | `Fifo_proofs` |
| `FifoNested` | FIFO calls nested by an interrupt | | `MCFifoNested` | `FifoNested_proofs` |
| `Assistant` | receiving parameters | `FifoQueue` and a stream | `MCLibraries` | `Libraries_proofs` |
| `AssistantSend` | camera, boundary and oscilloscope senders | | `MCLibraries`, `MCAssistantSend` | `Libraries_proofs` |
| `Conversions` | number and text conversions, as operators | | by the next two | |
| `ConversionCalls` | calls of them, loops, `zf_sprintf` | extends `Conversions` | `MCLibraries` | `Conversions_proofs` |
| `Display` | the frame buffer driver | extends `Conversions` | `MCDevices` | `Conversions_proofs` |
| `Registers` | PWM_GTIM, PWM_ATIM, ENCODER, motors | | `MCDevices` | `Devices_proofs` |
| `Descriptors` | who holds which file descriptor | | `MCLibraries` | `Libraries_proofs` |
| `PeriodicTimer` | timer threads, start and stop | | `MCLibraries` | `Libraries_proofs` |
| `ImageClient` | sending pictures in pieces | | `MCLibraries` | `Libraries_proofs` |

Names are the code's where TLA+ allows it, and `PROJECT.json` maps every
definition to its lines. A definition `X_Y` is a wrong form of `X`: put in the
place of `X` it breaks a property, which shows that the property depends on
that code.

Three MC modules are unions: `MCControl`, `MCDevices` and `MCLibraries` hold
several components that share no state. A behaviour belongs to one of them,
named by `part`; the others stay as they begin. A union asks what its parts
would ask one by one. It extends its parts, so that TLC evaluates their
assumptions and checks the same definitions that the proofs use. The modules of proofs follow the unions:
`Control_proofs` is about parts of `MCControl`, `Devices_proofs` of `MCDevices`
(and `SpeedLoop`, which shares the controller with `PIDHistory`),
`Libraries_proofs` of `MCLibraries`; `Conversions_proofs` is about the numbers,
their texts and the screen that shows them. What one component hands to the next (a corner found, a
line's length, a chunk from a socket) is an input of the next module and ranges
over every value that the first can give it.

### RobotRuntime

A step is one access to what threads share: one atomic flag, or the duty
register of one wheel. The two loads of `system_running && !stop_flag` are two
steps, and so are the two writes of `motor_stop`. The variable `pc` says where
each thread is; `duty` is what the timer hardware holds and keeps when the
process is gone. The static destructors of the motors' `PWM_GTIM` objects
change nothing: they pass the address of a register, which is not that of a
page, to `munmap`, which refuses it. `SpeedLoop` in this module stands for one
closed-loop call and takes any value of `Pwm` from the controller. The counters
`tick` (modulo `ControlTicks`) and `late` (up to `LateCap`) are finite. Main is
followed through its camera test, the thread starts, its loop, the joins,
`cleanup` and the destructors.

In the build as it is, the keyboard thread is commented out (`main.cpp:179`):
SIGINT is then the only request to stop, its handler calls `exit`, and main's
joins are never reached. `KeyboardEnabled = TRUE` is the program as written
for the keyboard. A second SIGINT during `exit` is not modelled.

### IncrementalPID, PIDHistory, SpeedLoop

A real is an integer number of 1/`Unit`; rounding is left out here. What is kept is
the value that is not finite: an encoder register of 0 makes the reading
infinite, two calls remember it, 0 times infinity is not a number, and such an
output passes every comparison of `PID.cpp` and `motor.cpp` (variable `lost`).
`Increment` says which histories the upper limit of the increment makes finite
again. `PIDHistory` adds the sum of the errors since the controller last left
its linear form. `SpeedLoop` is one wheel: `ConfigLoad` (good file, missing
keys, missing file), `Measure` and `ZeroRegister` (a control pass), `Turns` and
`Coast` (the wheel, external). The duty for an output that is not a number is
undefined behaviour (a conversion to `uint32_t`, `motor.cpp:27`) and is any
value of `LostDuties`.

### Steering

Times are counted in 1/90 ms, so that an angle x takes 45 + x. The object of
`PwmController` is a record with the kernel's four files (exported, period,
duty, enable), and every write goes through `Stored`, which is the kernel: it
refuses a duty above the period, a period below the duty and to enable without
a period, and `writeToFile` does not notice. `ServoInit` is the sequence of
writes as the code orders it. `ServoExit` and `ServoKilled` end a run, with and
without the destructor; the files stay for the next. `AngPD` is the angle
controller in its five modes; the gains of the code are 0 so far (comments say
they wait for the hardware), the model takes any.

### WallFollower, BorderLine, Corners, Tracking

`WallFollower` has one action per path through the loop of
`SearchLineAdaptive_Left/Right` (turn away, step along the border, step round a
corner, stop) and the scan that finds the point to begin from; the threshold is
the mean of the window, less the offset, as in the code. `BorderLine` reduces
the borders to one column, so that a point is its row in 1/12 pixel, and keeps
what the arrays hold from earlier frames; the loops that sample and that drop
points go one point a step, as in the code, and the filter has the kernel of
three that `FILTER_KERNELSIZE` asks for. The points are those of the left
border. Angles, maxima and middle lines are computed for lines in the plane
whose lengths are whole numbers. `Corners` has
the loops of `get_corners` and of the second half of `cross_farline`, one pass
a step, with angles as classes between the thresholds. The angle of the piece
behind a barrier's corner is a number of degrees on each side (`heading`), from
the rightward direction as `calculate_vector_angle` measures it: the left
border tests it for less than 85, the right one for more than 100, which is not
the mirror image, 95. Between them the sides differ, and `CornersMirror` says
how. `Tracking` keeps the
numbers of points and which array they belong to, not the places of the points.
Nothing calls `RunCross`, `tracking` and `MidLineTrack` in the shipped program:
its vision thread grabs frames and leaves a place for it. A frame is taken to
call them in the order of their data.

### CourseElements

A frame is `Judge` and then `ElementRun`; the timer thread's `Tick` falls
between them. `ElementJudge` is one action with everything it calls
(`CheckBarrier`, `CheckCross`, `CheckZebra`, the order in which they override
each other); `ElementRun` is the first of `RunBarrier`, `RunCross`, `RunZebra`
whose element is under way. What the image shows is chosen anew for each frame.
`crossAge` and `stopAge` are the time that has really passed, against which
the properties measure what the code computes from `timeStamp`. The two loads
of the range in `gl_barrier.cpp:33` may see two ranges: the outcome of the
test is an input of the frame, so either result occurs.

### Fifo, FifoQueue, FifoNested

`Fifo` has the fields of `fifo_struct` and one action per call. Its refinement
mapping takes `Contents`, the elements from `end` on, for the queue. A tail
read promises less in `FifoQueue` than its comment does, because of the copy
from below the buffer, which is `Junk`. `FifoNested` splits write, read, read
and clean, and clear at each access an interrupt can fall between; the
interrupt runs to its end, as an interrupt does. A context's calls are its
`program`. The header's remark that `head` always points at an empty cell is
not true of a full buffer, and nothing relies on it. In this program only the
assistant uses a FIFO, from one thread; `FifoNested` is about what the header
offers.

### Assistant, AssistantSend, ImageClient

In `Assistant`, `data_analysis` is split where its calls of the FIFO are. A
byte carries a mark that says whether a frame that was sent starts with it: the
code does not see the mark, the properties do. `ReceiveChunk` cuts the stream
anywhere, `ReceiveNothing` and `ReceiveError` are the other results of
`tcp_client_read_data`. The environment sends frames and, between frames,
noise. `AssistantSend` turns a call into the pieces it hands to its transport
(the weak default, TCP or UDP), each of which may be taken whole, in part or
not at all; `to_send` is what the running call has left, `taken` what was taken. `ImageClient` is the same for
`Socket_Tcp::send_img`, with the loop over partial sends; its `Readable` is the
receiver (external), which takes a number for the length of what follows it, -1
for nothing. Nothing in `Robot/` calls the assistant.

### Registers, Descriptors

`Registers`: a call is the sequence of its register writes, so that a program
can end between any two of them and the next one finds the registers so. A bit
register is the set of its bits that are 1 and may hold `Garbage` at the start.
A read, modify and write of a register is one step and the calls follow each
other: what two threads inside such a write would lose is not covered.
`Descriptors`: the kernel gives the lowest free number to whoever opens next;
`table` says whose file each number is, and each driver keeps its own copy of a
number. One thread makes the calls; only `vl53l0xStop` is split, because it
waits for the read thread. `server_config` may be called at any time, also
again: a failing one closes the socket and keeps its number (`image` is then
"refused"). `careful` falls when a caller uses, or stops, what was not
initialised, and when it calls `server_config`, a send or the destructor of a
`Socket_Tcp` that was refused: the properties of ownership are about careful
callers, because a second `vl53l0xStop` and these calls do reach a number that
may be another's by then. Only the examples in comments of `Socket_Tcp.cpp`
call `server_config`; they return when it fails, and the destructor then closes
the number a second time, with nothing opened in between. `initialised` is what such a caller remembers of the
results of `tcp_client_init` and `udp_init`; it is history and guards no call.

### PeriodicTimer, Conversions, Display

`PeriodicTimer` has the thread's two tests of `running`, the sleep and the
callback as steps, and the destructor as store and join. `Conversions` are pure
operators in the shape of the loops of `zf_common_function.cpp`, with integers
from `-Half` to `Half - 1` and reals as integers of 1/`Scale`; a loop is a
recursive function of the number of its passes. A float or double that does not
hold such a real exactly (`HeldExactly`) lies beside it, above or below; this
shows where a whole number is cut from it, and then the decimals are those of
the next real nearer to zero (`CutDecimals`, `under`): 1.15 is printed as
1.149999. `ConversionCalls` runs them in calls that write a number and read it
back; an `int` is written from `MinInt` to `MaxInt`, a `uint32` up to
`MaxUint`. `func_float_to_str` is given what its buffer for the integer part
has room for (`FitsFloat`: `data_temp[8]`), and both functions of reals what
their type tells apart to the last decimal asked for (`Resolved`). The letters
of a format come as items with their arguments. A `%p` copies eight characters
whatever the number has (`PrintPointer`): in front of a shorter one stand bytes
nobody wrote (`zf_common_function.cpp:868-875`), and nothing is claimed of it. In `Display`, `lit` is the set
of the indices of the frame buffer that are not of the background's colour; an
index is `y * width + x`, as in the code, so that a point beyond the right edge
lands in the next row. A call draws `Stamp`s, one over the other, each with the
points that get the pen's colour and those that get the background's; fonts,
sizes of cells and screen are constants. A line follows its slope in float: where
that is no fraction a float holds, the product may fall just below a whole
number and is cut to the one before it (`MayFallShort`, any subset of these
points), so that the line from (0, 0) to (41, 1) may end at (41, 0). `Pass` is one pass of the loop that
places the characters of a mixed string, `Places` the whole loop.

## Runs

| run | what it shows | bounds |
|---|---|---|
| `runtime` | wheels are stopped once the control thread has returned; an exit without SIGINT leaves them stopped; a stop request lets each wheel be driven once more at most, and ends the process | all interleavings; `Pwm` below, in and above the clamped range; 2 ticks per pass are enough to tell a pass from a tick without one |
| `runtime_sigint_exit` (violated) | after SIGINT the process can end with a driven wheel, against `main.cpp:28` | the build as it is |
| `runtime_emergency_stop` (violated) | the next control pass drives the wheels again, against `keyboard_control.cpp:61` | keyboard thread started |
| `speed_loop_max_duty` (violated) | `MAX_MOTOR_DUTY` of `config.txt` has no effect, against `config.txt:3` | a file that says 30 |
| `control_chain` | borders followed, lines resampled and alike on both sides, corners found (and the sides alike but for the headings between their thresholds), steering by this frame only, servo pulses as asked, no kick behind an element, every wheel driven again and again | all clear images of 6 by 7 with 9 free pixels, and dim and white ones; borders of up to 5 points; up to 4 points per side for corners, headings on, between and beside the thresholds 80, 85, 95 and 100; real gains and times of the speed loop and the servo; wrong and missing configuration |
| `course` | one element at a time, gains and stops that go back, dead times and stop times across the wrap, every element that fits in before the wrap ends | times in the order of the code's; `timeStamp` modulo 9 wraps many times; up to two ticks a frame |
| `fifo_tail_read` (violated) | a wrapped tail read copies from outside the buffer, against `zf_common_fifo.cpp:438` | 3 cells |
| `fifo_nested` | nested calls copy the right elements, and the accounts are right when all have returned | 3 cells, 5 elements, two programs |
| `fifo_nested_clean` (violated) | a nested read and clean frees what is being copied, against `zf_common_fifo.h:59` | an interrupt that frees |
| `devices` | `Fifo` implements `FifoQueue`; PID increments add up to the positional form; motors, PWM channels and encoders work as asked and keep to their bits; number fields and strings are drawn in place, and lines, up to points that fall one short | 3 cells and calls of 0 to 4 elements: each wrap, partial and refused call occurs; readings either side of the setpoint; three sets of objects, two runs, registers that hold nothing or all ones; a screen of 14 by 6 with characters of 2 by 2: a field at the edge, strings that wrap and that reach the last row, every line with every choice of the points that may fall short |
| `libraries` | parameters are stored in order through noise and loss; pictures and packets agree with their headers; the image client's pictures arrive whole in whatever pieces; conversions read back, up to what a float cuts off, and `zf_sprintf` agrees with them; drivers keep to their own descriptors and give them back; no callback after a timer's end; calls return | frames of 4 bytes of 4 values and a FIFO of two; 4 calls of the senders; 12-bit integers, thousandths; float and double, with one and with any number of digits before the point, one of the reals held exactly; 4 descriptors, two drivers at a time; two timers; pictures of up to 3 bytes |
| `assistant_stale_boundary` (violated) | boundary arrays of an earlier configuration are still sent, against `seekfree_assistant.cpp:245` | two configurations |

The bounds are the smallest at which every guard goes both ways: a FIFO of 3
wraps between, before and after a call's elements; 9 free pixels make roads
with both kinds of corner, dead ends, and bright islands; a second run is
enough because all that outlives a run is in the first one's registers, files
or descriptors.

The second context's programs in `fifo_nested` leave out the one combination
that fails: a read and clean between the load and the store of a write's
`size` loses its update, and the flags do not stop it.

`StopLasts` does not say that every zebra crossing stops the robot: a stop
interrupted by a barrier leaves `time_begin` set, and the next one within 500
ticks is shorter. `ElementsEnd` is about elements that end before `timeStamp`
wraps; of the others the comparison `timeStamp - begun >= hold` is false until
the stamp has come back to where it was, which in the code takes nearly three
hours. No comment promises more, so this is listed as a hazard.

`PictureMatchesHeaders` is about pictures whose every byte was taken: the code
does not notice a send that took a part, and the next header then lies where
the receiver does not look.

## Fairness

- `RobotRuntime`: weak fairness of each thread. Each loop sleeps or blocks in
  every iteration, on a 1 ms timer, a camera or `usleep`, so each thread gets
  its turn; nothing is assumed of keys and signals.
- `SpeedLoop`: passes go on, and a register that is not 0 is read again and
  again (strong fairness of `Measure`, since an enabled pass may read 0 any
  number of times); a wheel that is not driven slows down.
- `CourseElements`: the timer thread and the frames go on.
- `Assistant`: `data_analysis` is called again and again (weak), and a
  connection that is up delivers what was sent, between errors and empty
  results (strong fairness of `ReceiveChunk`).
- `WallFollower`, `ConversionCalls`: the loop of a call that runs goes on.
- `Descriptors`: the range finder's read thread goes on, and `join` returns
  once it has ended. `PeriodicTimer`: the same for each timer's thread.
- `ImageClient`: a blocking send returns, with a part or a failure.

No fairness is assumed of a caller: whether a call is made, and which, is open.

## Proved

TLAPS checks the following for every value of the constants that satisfies the
module's assumption.

- **RobotRuntime** (`RuntimeAssumption`). `TypeCorrect`; `Inductive`: `IInv`;
  from it `MotionDoneStopsWheels`, `OrderlyExit`, `LateDrive`. None of the
  three is inductive: that the wheels are stopped when the process is gone
  needs to know, at each place of main, which threads can still run
  (`ThreadsFollowMain`), what the registers hold half-way through a
  `motor_stop` (`RegistersFollowThreads`), and that a pass begun after
  `stop_flag` is impossible (`LatePassFollowsFlag`).
- **Fifo** (a buffer of one cell or more). `IndicesTheorem`: `head` is always
  the used cells behind `end`. `Refinement`: `Spec => Queue!Spec`, for a buffer
  of any length. The lemmas say what the copies do to `Contents`: a write
  appends, a read returns a prefix and the clean half drops it, over the wrap
  as well; the index arithmetic rests on two facts about `i % Max` within two
  buffer lengths.
- **FifoNested** (any length, any number of elements). `OldestRead` and
  `QuietAccounts`, under `SoundPrograms`: in every program the interrupt only
  peeks, or neither context frees or clears. The theorems carry that as an
  assumption because `fifo_nested_clean` refutes them without it. The
  invariant says what flags a context's place implies (and that a nested call
  has always put back, or not touched, the flag of the one below it), which
  part of an interrupted copy is already made, and how `head`, `end` and `size`
  relate half-way through each call.
- **PIDHistory** (`PIDAssumption`). `Positional`: types, the cap, and the
  telescoping of the increments, for any gains, setpoints and readings; the
  invariant is inductive once products are distributed by a lemma.
- **CourseElements** (`CourseAssumption`: the dead time is no longer than the
  wrap). `Inductive`: `IInv`, with `StampsAgree`, which relates the stamps to
  the time passed modulo the wrap; from it `ElementsExclude`, `FlagsTheorem`,
  `StampsTheorem` and the action properties `DeadTime` and `StopTime`.
- **WallFollower** (`WallAssumption`: sizes, and rows inside the image).
  `BorderFollowed`: `WallFollowed`, for an image of any size and content; the
  parts about the border ask for a clear image, whose dark and bright values
  are far enough apart that a window with both has its threshold between them
  (`Clear`). The argument is the hand on the wall: the pixel beside
  the follower is dark, so each of the three moves lands on a bright pixel and
  has a dark one at hand again; the threshold lemma makes "above the mean less
  the offset" mean "bright" in a clear image.
- **Steering** (`SteeringAssumption`: pulses of every middle fit into the
  period, the period into a word). `PulseAsSet`: `ServoFollows`, after any
  number of runs that ended or were killed. `ServoFollows` is not inductive:
  that the set-up gets through needs `files.duty <= files.period` of whatever
  earlier runs left, and that the object's period is the kernel's.
  `AngleWithoutKick`: the action property `NoKick`.
- **Tracking** (`TrackAssumption`: the numbers of points are natural numbers).
  `ThisFrameSteers`: `SteersByThisFrame`; `CrossingLeavesNothing`:
  `CrossingForgotten`. The invariant `TrackIInv` adds what the properties leave
  out between the calls of a frame: that the middle lines are as long as the
  borders they are made of, also after a crossing has cut them, and that the
  aim is set as soon as the state of the line is.
- **Corners** (`CornersAssumption`: which classes and rows there are).
  `CornersAsThereAre`: `CornersFound`, for borders of any length. `CornersIInv`
  says at each point of a loop what its flags know of the points passed
  (`CornersSeen`, `BarrierSeen`, `FarSeen`): the corner kept is the first of
  them, and a border counts as straight as long as none of them is bent. That
  left and right are judged alike follows when both loops are done, because
  each knows the same of the same points; whether a corner leads into the
  barrier is judged of two headings that are mirror images, and they agree but
  for the ones between the two thresholds.
- **BorderLine** (`LineAssumption`: there is room for every border, and the
  sample distance is at least 1). `BorderResampled`: `LineResampled`, for
  borders, arrays and distances of any size. `BorderIInv` adds what the loop
  relies on: the last sample is always nearer than `Dist` to `x0`, so that the
  weights never divide 0 by 0 and the new point falls on the piece
  (`NewSample`), and on a line that runs one way the last sample, `x0` and `x1`
  lie in this order. `BordersTreatedAlike`: `BordersAlike`, with
  `WholeAssumption` (chords of whole length, normals of whole parts, so that
  the square root and the divisions are exact). That the chords of a line
  without a bend have one direction is an induction over its points
  (`UnbentIsEven`); that they have one normal, whatever their lengths, follows
  from the squares (`NormalsAlike`).
- **Registers** (`RegistersAssumption`: no two channels of a program share a pin
  or a channel of a timer, the motors have plain channels).
  `NobodyElsesBits`: the action property `OthersKeepTheirBits`, for any number
  of channels and encoders. The invariant `CallsConfined` says that everything
  still to be written is confined to what its caller owns; a step is then the
  first of these writes. `ObjectsDoAsAsked`: `ObjectsWorkAsAsked`, which holds
  between the calls only. Its invariant `PromisesKept` is about every moment: of
  each cell an object relies on it says what the cell *will* hold when the
  writes still to come are done (`Ends`: it is right and no write spoils it, or
  the last write that touches it puts it right). A write keeps each such promise
  (`WriteKeepsPromises`); a call makes those of its own object
  (`SetUpPromises`, `UsePromises`, `EncoderPromises`, `MotorPromises`) and
  spares the cells of all others (`OthersSpared`).
- **Descriptors** (`DescriptorsAssumption`: there is a highest number).
  `DriversKeepToTheirFiles`: `DescriptorsOwn`; `FailuresGiveBack`: the action
  property `NothingLeaks`. `FilesIInv` ties each driver's number to its entry in
  `table` as long as the caller is careful (`AllHeld`), and says that the read
  thread is there while the range finder runs or stops (`ReaderInTime`), so that
  the number it reads from is closed only after its end. A `Socket_Tcp` that is
  not refused holds its number, so that `server_config` closes its own, also
  when it is called again.
- **SpeedLoop** (`SpeedAssumption`: a file holds gains and a limit, an encoder
  can read 0). `FiniteDuty`: `DutyFollowsOutput`, for any file, gains and
  readings. As long as the output is finite the wheel gets the output itself,
  or nothing when it is below zero: the controller's cap is what `motor.cpp:23`
  limits to, so that the second limit takes nothing off the first. Of an output
  that is not finite nothing is claimed: all its comparisons are false, nothing
  in the code keeps the duty in range then, and `LostDuties` is any set of
  numbers.
- **Assistant** (`AssistantAssumption`: the FIFO holds a frame, channels are
  bytes). `StoresWhatWasSent`: `ReceivedAsSent`, for any bytes, messages, noise,
  FIFO length and cuts. The invariant `AssistantIInv` puts the FIFO and the
  stream one behind the other: without noise and loss they are the frames of
  the messages still due, behind the frame that is judged already but not yet
  discarded (`FramesAfter`, `Judged`); with noise, every start of a frame has
  the whole frame behind it (`StartsWhole`), so that a search by single bytes
  meets it; and when a call ends less than a frame is left (`WhereItStands`),
  which is why only a chunk that nearly fills the FIFO can be lost.
- **AssistantSend** (`SendAssumption`: sizes and numbers of points are natural
  numbers, samples integers). `SendsWhatItAnnounces`: `SentAsAnnounced`, for
  pictures, boundaries and samples of any size over every transport. `SendIInv`
  says how far a call is (`Progress`): taken and remaining pieces are, one
  behind the other, the pieces of `Picture`. That these have the announced
  bytes needs that as many arrays are kept as are counted, once for one
  configuration (`SlotsAgree`); with a second one it fails, which is the finding
  `OnlyGivenArraysSent`. `Total` is a recursive function; that it is the sum of
  its values is an induction over their number (`TotalIs`, `SumsEven`).
- **ImageClient** (`ImageAssumption`). `PicturesWhole`: `PicturesArriveWhole`,
  for pictures of any size in pieces of any sizes. The property says nothing of
  what is still missing; `ImageIInv` adds that every length but the last has all
  its bytes behind it (`WholeBut`), and that the last stands just as far from
  the end as `total_sent` says (`BeingSent`).
- **PeriodicTimer**. `DestroyedCallsNoMore`: `NoCallAfterEnd`, for any number of
  timers; a thread that is anywhere has an object that is alive or stopping.

- **Display** (`ScreenAssumption`, `ConversionsAssumption`: integers have at
  most `MaxDigits` digits, the screen is two cells wide, a space lights
  nothing). `FieldsShown`: `FieldsReplaced`, for any numbers, fonts and screen.
  That a number fits into its field goes back to the loop that divides by ten:
  `n` is below `Tens[num]`, so `num` passes leave nothing of it (`DigitsFew`,
  `IntShort`, `RealShort`). The stamps of a string are then a row of cells side
  by side (`Columns`), their indices meet no other point of the screen
  (`OwnIndices`), and what is lit in them is the last stamp's pen
  (`StringLit`). `DrawnWhereAsked`: `DrawnInPlace`. For the strings, `PassFits`
  is the loop's invariant: behind every character there is still room for a
  wide one, and the scaled string has room for a row below or has ended. For
  the lines, `FollowFacts` brackets the quotient: it begins and ends where it
  should, stays between, and a step of the longer direction moves the other by
  at most one, because the slope is at most one. A point that falls short lies
  where the quotient is whole (`WholePlace`), and there the step before has
  left room for it (`Shortened`, `JoinsLeads`): the line stays connected
  whichever points fall short (`BothJoin`), and only its last one may miss.
- **ConversionCalls** (`CallsAssumption`: what is written fits into its type and
  is told apart by it, the scale is the power of ten of as many decimals as a
  `%f` has, an integer has room for it; a text that is read by two functions
  holds an integer that fits an `int32`). `ConversionsRight`: `ResultsRight`, for integers of any
  width, and any numbers, texts, formats and pairs of numbers. `ConvertIInv`
  says of a running call which text was written of which number, how far a
  format is done, and that two positive numbers have the divisors they began
  with (`Subtracted`); the run `libraries` was checked with it before it was
  proved. The rest is about the operators. All functions that write a natural
  number write the same text, its numeral (`UintText`, `IntText`, `HexText`,
  `AsciiText`), and `Spells` says what a numeral is without naming its digits:
  each character is the digit that makes one number of the one before it, as
  the loop that divides leaves them. Reading is then an induction along these
  numbers (`SpelledRead`), in every base, with a sign before (`SignedRead`) or
  zeros before the decimals (`DecimalsSpelled`, `PaddedSpelled`). What a real
  loses is what the division of its decimals drops (`Shares`, `PartsBack`),
  less than one unit of the last decimal written and nothing where all are, and
  that one unit more where the decimals are cut from a float just below them
  (`CutFacts`): this happens only where the division drops nothing, so that the
  loss is at most the unit (`CutLoss`).

Only model-checked: all liveness (`StopEndsProcess`, `LoopNoDeadWheel`,
`ElementsEnd`, `FollowEnds`, `LibraryCallsReturn`, `AllTaken`, `KeepsCalling`),
which is beyond the prover. The library's induction theorems have operator arguments that
the installed provers do not instantiate; where an induction over a number is
needed, as in `UnbentIsEven`, `TotalIs` and for the loops of `Conversions`, a
least counterexample does instead (`LeastOne`, `AllNumbers`).

## Not modelled

- Floating-point rounding in the image chain, the steering and the controllers;
  in the conversions and the lines of the screen only what it does to a number
  that is cut to a whole one is modelled, and floats that do not tell the last
  decimal apart are left out. `atan2f` and `acos`; the values of the
  perspective tables, the fonts and the colours.
- Integer parts of more than 8 digits in `func_float_to_str`, which overflow
  its buffer (`zf_common_function.cpp:306`); the bytes in front of a short `%p`.
- Two threads inside the read, modify and write of one register.
- Thin drivers (adc, pwm, encoder, gpio files, delay), the IMU drivers, the
  camera: one system call or register read each and no state. That a camera
  frame may fail to come is in `RobotRuntime`, that files are closed in
  `Descriptors`.
- `config_get_float`'s search for a key (`config.cpp:83`): whether a key is
  found is an input of `SpeedLoop`. The terminal settings of the keyboard
  thread.
- Code without a caller that computes and keeps nothing:
  `machine_speed_change`, `ackermann_calc_speed` (which divides 0 by 0 for a
  `WHEEL_BASE` of 0), `is_curve`, `leastSquaresSlope`.
- `RunBarrier`'s own steering; the right border's test of a valid point, which
  differs from the left one's by a column and a row.
- Display: opening and mapping the frame buffer, `ips200_full`, the colour
  image, and the branch of the scaled character that draws no background.
- That `udp_read_data` overwrites the server's address with the sender's; a
  second `vl53l0xInit` while the read thread runs; a second SIGINT.
- Generated build files and OpenCV are not part of the program's logic.

## Plan

Done, in this order: runtime, because a driven wheel after the exit is what
matters most; speed loop; course elements; FIFO and the assistant on top of it;
then the image chain and the steering; the drivers' registers and descriptors;
the timer, senders, conversions and display.

Every safety invariant and action property of a passing run is proved; what
is left is liveness, for a prover that has it.

What is left to model: the search for a key in `config.cpp`, over texts as
sequences of tokens, and the branch of the scaled character that leaves the
background alone.
