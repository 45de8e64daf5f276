# TLA+ models of himbeere

himbeere is the autopilot of a tricopter: a C++ program (`app/brainware`) on a
single-core Raspberry Pi, with one thread per sensor or link, and an Arduino
(`sketchbook/firmware`, the "FCCI") between the pilot's receiver, the Pi and the
servos.  This directory holds TLA+ specifications of the parts where threads and
lossy lines meet, the TLC runs that check them and TLAPS proofs about them.
`PROJECT.json` lists the components, the runs, the hazards, and for every
definition the lines of source it models.

## 1. The system

| Part | Source | State | Operations | Talks to |
|---|---|---|---|---|
| Serial port | `src/linux/HardwareSerial` | ring of 256 bytes, head, tail, fd, `thread_running` | `begin`, `receive_loop`/`store_char` (own thread), `available`, `read`, `end` | FCCI reader and GPS driver poll it at 50 and 10 Hz |
| Log | `src/linux/Logging` | two strings, active pointer, file, prescale counter | `begin`, `data`/`write_buffer` (caller's thread), `loop` (own thread), `end` | every module owns one and calls `data` from its thread |
| Channel frames | firmware `cDropbox`; `src/linux/cServochannels`, `fcci_module` | frame buffer; parser step, counter, message, errors, channels | `send_message`; `process_byte`, `get_channels`, `reset_errors` | UART, serial port, log, controller |
| CRC | `src/crc16` | none | `crcFast` | both ends of the frames |
| IMU driver | `src/linux/Drotek10dof`, `imu_module` | samples, state of the barometer conversion, magnetometer extremes and offsets | `loop` at 100 Hz (own thread), calibration timer (own thread), `end` | callbacks to log and sensor fusion |
| Sensor fusion | `BackgroundAction`, `SensorFusion`, `ecf_module`, `src/cECF` | inputs and state of the filter, `G_Dt` | `imu_update`, `mag_update` (IMU thread), filter (own thread) | woken by `notify_all` |
| Ground link | `src/linux/DataLink`, `datalink_module` | socket, message and buffer, thread flags | `connect`, `disconnect`, heartbeat, receive and send threads | parameters, sensors, fusion |
| Chip drivers | `src/linux/I2Cdev`, `src/i2cdevlib` | `MPU6050::buffer`, `m_d1`, `m_d2`; the chip's register pointer and converter | register reads and writes, conversions | IMU driver, from several threads |
| Parameters | `src/cParameter` | vector of named pointers | `set`, `exist`, `set_value` | controller, calibration, link |
| Controller | `ctrl_module`, `src/linux/ControlSystem` | gains, integrated error, outputs | `update` at 50 Hz (own thread), `getControl` | channels, fusion, FCCI |
| GPS | `src/AP_GPS`, `gps_module` | parser state, fix, status | `update`, `read`, `_detect` at 10 Hz | serial port |
| Firmware | `sketchbook/firmware` | mode, pulse widths, interrupt flags, 8-byte parser | `loop`, two pin change interrupts, `serialEvent` | receiver, servos, Pi |
| Start, shutdown | `app/brainware/main.cpp` | global objects | constructors, `trap`, destructors | all |
| Ground tools | `sdl_joystick`, `ServoInterface`, loggers | - | - | not flown |

What makes this hard: threads share plain variables and rely on priorities
(SCHED_FIFO: IMU 50, controller 20, FCCI, GPS and link 5, log writer lowest) or on
a single producer and a single consumer; wakeups use condition variables without a
predicate; destructors clear flags of threads they do not join; the UART loses
bytes and the frames are found again by two synchronisation bytes; nobody reports
a failed `begin`.  What makes each part correct:

- serial port: bytes come out in order, once; loss only when the ring is full;
  every byte is found by polling; nothing is left after `end`;
- log: no record lost, doubled or torn; `end` returns and has written the backlog;
- frames: what is accepted was sent, as a whole; errors are counted for real losses
  only; after losses the parser gets in step again;
- fusion: the filter has used the newest sample, of one instant, when it waits;
- IMU driver: a sample, and a pressure with its temperature, is of one instant;
  pressures are computed from finished conversions; neither ever stops;
- link, parameters: whole datagrams, heartbeats that go on, one entry per name;
- firmware: the widths measured are those of the pulses, and the switch goes where the
  pulse of the mode's pin says;
- controller: outputs within limits for every error; GPS: fixes only from good
  checksums;
- start and shutdown: nobody uses what is not built yet or is gone already.

## 2. The modules

| Module | Models | Kind |
|---|---|---|
| `ByteFifo` | what a serial port promises | abstract specification |
| `SerialRing` | receiver, reader and `begin`/`end` on the ring | detailed; implements `ByteFifo` |
| `SerialRingProofs` | theorems about `SerialRing` | TLAPS |
| `RecordLog` | what a log promises those who write to it | abstract specification |
| `LogBuffer` | writer, background thread, `begin`/`end` of the log | detailed; implements `RecordLog` |
| `LogBufferProofs` | theorems about `LogBuffer` | TLAPS |
| `ServoFrames` | sender, lossy line, `cParser`, taking of the channels | detailed |
| `MCServoFrames` | `crcFast` with its table, payloads | for TLC |
| `ServoFramesProofs` | theorems about `ServoFrames` | TLAPS |
| `GpsDriver` | receiver, faulty line, `read`, `update` and the 10 Hz loop | detailed |
| `MCGpsDriver` | the sums, payloads | for TLC |
| `GpsDriverProofs` | theorems about `GpsDriver` | TLAPS |
| `FusionTrigger` | IMU thread, filter thread and its destructor | detailed |
| `FusionTriggerProofs` | theorems about `FusionTrigger` | TLAPS |
| `PilotSwitch` | pulses, interrupts, the firmware's `loop` up to the switch | detailed |
| `MCPilotSwitch` | which pin has which interrupt, widths | for TLC |
| `PilotSwitchProofs` | theorems about `PilotSwitch` | TLAPS |
| `SampleRegister` | what the getters of a sensor driver promise their callers | abstract specification |
| `ImuLoop` | sampling loop, barometer, the getters of two threads | detailed; implements `SampleRegister` |
| `ImuLoopProofs` | theorems about `ImuLoop` | TLAPS |
| `ImuBus` | reads of the MPU6050's registers by several threads | detailed |
| `MCImuBus` | which thread reads what | for TLC |
| `GroundLink` | send loop, heartbeats, receivers, the second `connect` | detailed |
| `MCGroundLink` | the messages, their order and lengths | for TLC |
| `GroundLinkProofs` | theorems about `GroundLink` | TLAPS |

`FusionTrigger` begins where `ImuLoop` runs the handlers (`place["imu"] = "signal"`),
and `GroundLink`'s loop is the thread `link` of `ImuLoop` and of `ImuBus`: each of
these modules looks at one kind of shared state.  `ServoFrames` takes the loss of a
byte from `SerialRing`'s `StoreDrop`.

Definitions written *Mutant of X* model a plausible mistake in X (a missing wrap, a
lost reset); nothing uses them.  They show that a property can fail: with
X replaced by its mutant TLC finds the property violated.

### SerialRing

One action is one access to a shared variable.  `store_char` is `StoreIndex` (load
head), `StoreRoom`/`StoreDrop` (compare with tail), `StoreWrite`, `StorePublish`;
`read` is `ReadTest`/`ReadEmpty`, `ReadLoad`, `ReadAdvance`; `available` is one
action, because head and tail are each written by one thread and the reader owns one
of them: its count is the count at the moment it loads head.  `end` is four: the
flag, the load of tail, the store of head, the close.  Stores of a thread take effect
in program order: head and tail are volatile and there is one core.  (`buffer` is
not volatile, so that the order of a slot and of head is the compiler's in theory;
this is assumed.)  A `::read` blocked while `end` closes the descriptor may return
bytes or fail.

### LogBuffer

`data` counts the prescale down; `write_buffer` is `Deref` (the active pointer),
`Copy` and `Extend` (the append, which can be interrupted), `Trigger`.  `loop` is one
action per line.  A notification wakes only a waiting loop; the loop may also wake
with no notification.  `fwrite` gets the text as it is at the call; if the string
has changed before the write ends, the result may be `Torn`.
`RealTime = TRUE` is the schedule the code asks for: one core, the writer's
thread above the loop, main last.  `RealTime = FALSE` is the program on several
cores or without the right to set priorities, which it survives with a message.
With the priorities in force the module implements `RecordLog`: what is pending there is
the buffer being flushed and the other one behind it, `LoopWritten` is its `Write`, `Extend`
its `Keep`, `Begin` its `Open`, `BeginFails` its `OpenFails`, and the return of `end` its
`Close`; records that are still pending then are lost with the memory.
After `end` the callers go on logging: their threads are not joined.

### ServoFrames

The line carries one frame at a time, byte by byte; any byte may be lost (a full
ring, an overrun).  The parser's `switch` is `Hunt`, `Sync`, `Collect`, and `Accept`
or `Reject` for the last byte; `payload_counter` is the length of what is
collected.  `TakeChannels` is the end of a turn of `fcci_module::loop`, which may
come after any number of bytes: it copies the channels (the copy then has four, not
six) and, through the log, resets the error count.  The port may be opened in the
middle of a frame.

### GpsDriver

`turn = "read"` is one call of `update`: first any number of `ReadByte` and
`ReadNoise`, each the whole `switch` for one byte (`Preamble` for the steps 0 to 2
with the `goto restart`, `Payload`, `ChecksumA`, `Accept` or `Reject`), then
`GotMessage`, `NoMessageYet` or `TimedOut`.  `parsed` is the local variable of
`read`.  `BeginTurn` is the end of the sleep: in time or late (`WakeUp`), or with no
time passed because the loop is behind its timer (`CatchUp`).  `idle` counts turns of
100 ms.  Of a message's numbers only `fix` is kept, the one that decides something.
The port may be opened in the middle of a message; faults are lost bytes and bytes of
other messages.  `CkA` and `CkB` are constants that hold the sums of every prefix of a
payload; `SumsUp` says what they are.

### FusionTrigger

The inputs of the filter are three variables, each the number of the sample it is
from; one action is one store of `imu_update` (`SetAccel`, `SetGyro`, `SetDt`, then
`Notify`) or one read of `ECFClass::update` (`ReadGyro` and `ReadDt` in
`Matrix_update`, `ReadAccel` in `Drift_correction`).  The threads interleave in any
way: the filter may be cut by the IMU thread at any place, and the IMU thread, which
reads the scales from the device, by the filter.  `notify_all` wakes only a waiting
thread; `LoopWakesAlone` is a wakeup with no notification.  The destructor is
`EndFlag`, `EndNotify`, `EndJoin`.  The model ends when it has returned: the IMU
thread, whose object is built before and destroyed after, then calls an object that
is gone.

### PilotSwitch

A receiver's channel is the width of a pulse on one pin.  `Rise` and `Fall` are the
edges, each with the interrupt routine: it stores the time in `current_irq_micros`
and sets the flag of the pin's port.  `loop` runs through `Cycle` or `NoCycle` (every
20 ms: the switch), then for each of the two ports `Flagged` or `NotFlagged`,
`TestHigh` and `TestLow` (the two `digitalRead` of each pin), `StoreRise`,
`StoreWidth`, and `ClearFlag`.  Interrupts may come between any two of these.

Times are written as ages, the time since then, so that the state space is finite and a
width is a difference of ages, modulo 65536 as in the code.  The stamp has several
bytes and is loaded one by one: `StoreRise` and `StoreWidth` take any value near the old
or the new time when an interrupt comes during the load (`seen` is the stamp when the
load began).  Such a stamp is torn.  The history variables `torn_in` and `torn` count the
torn stamps of a width; no action tests them, the properties do.

What a measured width may be off by is `Error`: two turns of `loop`, by which an edge may be
seen late (a time with interrupts disabled counts as part of a turn), and, for each of its two
stamps that was torn, `Byte - 1`, which is 255 us.  The load of a stamp is four
instructions long, so that torn stamps are rare; but they happen, and nothing in the code
prevents or notices them.  So the properties of the switch say two things.  Without a torn
stamp each pulse further from 1500 us than two turns counts as what it is: with turns of
100 us, all up to 1300 us and all above 1700 us.  After one torn stamp this is so for pulses
further from 1500 us than 255 us and two turns, after two than 510 us and two turns,
which no pulse of a receiver is: one of 1900 us can then be measured as 1390 us and less, and
the switch goes to the computer until the next pulse is measured.
Nothing is claimed for these.

`PilotAssumption` asks that a pulse and the pause after it be longer than the largest
`Error`, `Tolerance`, so that no width wraps.  For the receiver's pulses, of 900 us or more,
this means turns below 195 us, which nothing in the code ensures: `loop` reports its load to the
computer and has a note to "indicate overload" (`firmware.ino:170`).

Other things of `loop` that touch this state are part of the actions: `set_channels`
takes the channels by value, and the destructor of the copy frees the array of the
original, so that the heap may write into the first channel (the rudder): the model writes 0 for whatever
that is, and the properties leave the rudder out.  Of the branch for the computer
the model has only the switch: `channel_raspi = parser.get_channels()` (`firmware.ino:155`)
runs when a message has come from the computer, which never sends one (section 5).
If one came, `operator=` would copy 32 bytes into a block of 8 (`c_servochannels.cpp:19-20`),
and might overwrite what the heap has behind it, `channel_pilot` included: nothing here holds
for a firmware that gets channels.  A pulse in progress when the firmware starts is left
out.  When the receiver falls silent the switch stays where the last pulse has put it:
`firmware.ino:255` has a place for a test of this, which is empty.

### ImuLoop

The thread `imu` is `Drotek10dof::loop`: `BeginLoop` (lock), `AssignAccel`,
`AssignGyro`, `UnlockSample`, then the handlers of `signal_imudata`, which call
`getScaledIMU`, then one task of the barometer (`StartPressure`, `ReadPressure`,
`StartTemperature`, `ReadTemperature` with `LockValues` to `UnlockValues`, or
`StillWaiting`).  The thread `link` calls `getScaledIMU` and `getScaledBaro` from
`send_messages`.  Of a sample only its two halves are kept, each as the parity of its
number, which tells neighbours apart.  `adc` is the converter of the barometer: it is
ready within `Delay`, while the driver waits `Delay` of the time of day; `SetClock` sets
that.  A transfer may fail; the start of a conversion is then not noticed by anyone and a
read brings 0, since `readConversion` takes the -1 of a failure for true
(`MS561101BA.cpp:312`), so that the "-1 in case of error" of `MS561101BA.cpp:252` is never
returned and `getValues` never finds a negative reading.

The getters implement `SampleRegister`, in which a sample is replaced, and an answer given,
in one step: setting `gx` is its `TakeSample`, setting `temp` its `TakeMeasure`, the way
into a getter its `Call`, the copy of the second value its `Answer`, the unlock its `Return`.
What a getter returns is thus not only of one sample, but of the one that is current during
the call.

### ImuBus

`getScaledIMU` asks the chip for its ranges before it takes the mutex.  One read is
`Begin` (`memset`), `WriteReg` (the system call that sets the register pointer), `ReadReg`
(the one that reads), for a range `StoreByte` (into the buffer of the class) and
`Return`.  The kernel does one system call after another, but two calls of two threads may
mix.  A transfer that fails leaves what `memset` has put there.

### GroundLink

A message is packed by `PutPayload`, `PutId`, `Finalize` (length and checksum) and
`ToSendBuffer`, and sent by `SendMessage`; a receiver packs its answer into a message of
its own and copies it to the shared buffer (`Answer`, `SendAnswer`).  Of a message the
model keeps its id, whose bytes its payload holds, its length and for which kind its
checksum is right: each kind has a constant of its own in the sum, so that the bytes of
one kind never pass for another.  A copy or a sum that is interrupted half way makes a
datagram the station drops, and is not told apart.  The loop has SCHED_FIFO priority 5 and
the other threads none; on one core they run only while it sleeps or waits between two
messages (`RealTime`).

The constructor has connected before `main` does so again: `Disconnect` clears both flags,
`ConnectHeartbeat` and `ConnectReceive` set them and start a second thread of each kind.
A thread of the first generation that wakes in between ends (`End`), one that sleeps over it
goes on; the old `boost::thread` is detached by the assignment.  A request that is lost
between two receivers, which share the state of the parser, is not received in the model
either.  `at(param_index)` with an index out of range throws and ends the program, also
for the -1 by which the protocol asks for a parameter by name; the model has only
requests for parameters that exist.

## 3. The runs

| Run | Question | Bounds | Result |
|---|---|---|---|
| `serial_ring` | is the ring a queue, without a lock? | 3 slots, 2 values, reads of up to 2 bytes | 182,659 states, holds |
| `log_buffer` | a queue before a file, no wakeup of `end` lost, `end` returns, with the priorities | prescale 2, wakeup above 1 record, 8 calls | 10,576 states, holds |
| `log_race` | nothing lost, without the priorities | 2 calls | violated |
| `log_end` | `end` returns, without the priorities | 1 call | violated |
| `servo_frames` | in step, whole frames and only those, channels taken again | 3 payloads, 2 losses, errors counted to 1 | 102,382 states, holds |
| `gps_driver` | in step, only payloads sent, honest status, recovery | 3 payloads, 1 fault, timeout of 1 turn | 150,240 states, holds |
| `fusion_trigger` | newest sample used, filter goes on, join ends | 3 sample numbers | 13,050 states, holds |
| `pilot_switch` | edges in time, widths true but for torn stamps, the switch obeys pulses clear of the threshold | 2 pins, an interrupt each, widths 5 and 10, threshold 7, a byte of 2 values | 1,239,965 states, holds |
| `pilot_shared` | true widths of pins that share an interrupt | 3 pins, stamps not torn | violated |
| `imu_loop` | are the getters a register? measured pressures, both go on | delay 2, 1 fault, 1 setting of the clock | 64,441 states, holds |
| `imu_range` | is a range read what the register holds? | 2 threads, no faults | violated |
| `ground_link` | whole messages, true datagrams, heartbeats go on | 2 + 2 threads and the loop, 3 messages, 2 parameters | 275,023 states, holds |

*Bounds.*  Three slots give an empty, a half full and a full ring and every wrap; a
chunk of two crosses a full ring; the proofs cover every size.  Eight calls with a
prescale of two give four records, enough to fill both buffers, to swap twice and to
end with either one active.  Two losses are enough to lose a synchronisation byte and
then another byte of the frame found by mistake.  `parse_errors` is saturated at 1,
because only zero and non-zero matter.  The payloads: two ordinary ones, and one that
contains FF FE and whose CRC ends in FF.  `GpsDriver` has one fault besides a port opened
anywhere in a message, which together take the parser out of step and disturb it
again.  Its payloads: one with a fix, one without, and one that holds a whole D0 DD 20;
the first byte of the first is the first sum of what a parser collects from that false start, so
that only the second sum saves it.  A timeout of one turn makes messages longer than
the timeout common.  In `FusionTrigger` two numbers would do to tell neighbours apart;
with three a run of the filter can also meet a sample and the next but one.  The proof
covers every count.  `pilot_switch` has the program in units of 200 us: pulses of 1000 and 2000 us, which
are five and ten units, the threshold of 1500 us, above seven, a turn of one unit, so that an
edge can come at every place of `loop`, and a byte of two values, so that a torn stamp is
wrong by one unit either way.  As in the program, both pulses are clear of the threshold
by two turns, and neither is by two turns and a torn stamp: the properties of the switch are
checked for widths of which no stamp was torn, those of the widths for all.  With `Error`
without its second part TLC finds `WidthIsTrue` violated.  `Wrap` is what the longest
pulse nearly reaches; the proofs cover the real numbers.  In `imu_loop` one fault can hit the start or the read of either conversion, and
one setting of the clock can end a wait at once or double it.  `ground_link` has one thread
of each generation, the longest, the first and the last of the loop's messages, and one
parameter more than a single answer needs.

*Fairness.*  `SerialRing` assumes that the reader's polling loop is scheduled; nothing
of the line, the receiver or `end`.  `LogBuffer` assumes that a thread that can run
does, and that the disk answers; no call of `data` or `end` and no spurious wakeup is
assumed.  `ServoFrames` assumes that the firmware's cycle and the polling loop go on;
a loss need never happen.  `GpsDriver` assumes that `update` ends, that the loop does not
stay behind its timer for ever (strong fairness of `WakeUp`: `CatchUp` may come in between) and
that, of the turns in which bytes wait, infinitely many read some (strong, because every
turn ends its own `read`).  That the receiver sends is a premise of `Recovers`, not
assumed.  `FusionTrigger` assumes that the IMU thread takes its samples, that it leaves
time for the filter (at 100 Hz it sleeps most of each period), and that the destructor
goes on; no spurious wakeup and no exit.  `PilotSwitch` assumes that time passes, that the
processor runs `loop`, and that a pulse ends; no pulse need begin.  `ImuLoop` assumes that
the IMU thread runs, that it gets the mutex when it is free infinitely often (strong: it
has priority 50 against the link's 5, on one core, and the link sleeps without the mutex),
that the link ends a call it has begun, and time.  `GroundLink` assumes that the loop goes
on and that `main` and the heartbeats, which have no priority, run some of the infinitely
many times they can (strong, because the loop's turns come in between; it sleeps most of its
100 ms).  Nothing is assumed of requests.

*Where deadlock is not checked.*  `SerialRing`, `LogBuffer` and `FusionTrigger`
may really stop: port closed and threads gone; log ended and no calls left; the filter
destroyed.  The others check it; that there is none in `ImuLoop` includes its mutex.

*The premise of `KeepsTaking`.*  With sticks that do not move, a frame
that contains FF FE, or whose CRC ends in FF, can hold a parser that is out of step
there for ever: it starts at the wrong FF FE, collects fourteen bytes, rejects them
within the next frame and finds the same false start again; and of FF FF FE it drops
the second FF and with it the true start.  TLC finds such a loop for `Glitch`.
`KeepsTaking` therefore says: if from some time on the frames sent do not do this
(`Imitates`), channels are taken infinitely often.

`Recovers` excludes payloads with a D0 DD 20 for the same reason: from there to the
same place in the next message are exactly the 37 bytes that a false start takes.

### What the violated properties show

- `NothingLost` in `log_race`: `Logging.cpp:151` says that a mutex is "not required
  because of buffer switching".  It is not required only while the priorities are in
  force, as `log_buffer` shows.
- `EndReturns` in `log_end`: the flag and the notification of `end` can fall between
  the loop's test and its wait.  `join` then waits for ever.  The fix is to set the
  flag under the mutex.
- `EveryWidthIsTrue`: `firmware.ino:180-181` describes two steps, "first remember time of
  rising edge, then calc. channels pulse width after detecting falling edge".  Of pins
  that share an interrupt the second can be missed: an edge after its pin has been
  read and before the flag is cleared (line 216) is forgotten, and the pulse ends, for
  the firmware, with the next edge of another pin.  The mode's pin shares its interrupt
  with `in_5_tbd` only, which is not connected; `WidthIsTrue` is about such a pin.
  Clearing the flag before the pins are read would do.
- `RangeIsCurrent`: `MPU6050.cpp:259` promises the "Current full-scale gyroscope range
  setting", and the property is about the calls of `getFullScaleGyroRange` only.  In TLC's
  trace the link has read the register, and before it returns `buffer[0]` the IMU thread's
  `getMotion6` clears the buffer; what comes back may also be a byte of a sample, or of the
  other range.  A
  sample is then scaled by another of the four factors, or by the one left in the
  variable.  The reads should be under the mutex.

Disagreements that are plain from reading, which no run shows: `HardwareSerial.cpp:254`
says of `end` "clear any received data", but the receiver, which is not joined, may publish a
head computed before the clear.  `messageparser_tests.cpp:61` expects a message with eight
bytes of payload to be complete; the parser was changed to twelve.  `GPS.h:60` promises a
message "within the last 500ms"; the timer that takes the status back is one of 1200 ms.
And of heartbeats `AcceptedIsTrue` says nothing because the loop may come between the payload
and the id of one: the station then accepts a heartbeat with the mode and the type read
from the bytes of an attitude.

## 4. The proofs

All for every value of the constants, under the named assumption of the module
(`RingAssumption`, `LogAssumption`, `FramesAssumption`, `GpsAssumption`,
`FusionAssumption`, `PilotAssumption`, `ImuAssumption`, `LinkAssumption`).

`SerialRingProofs`.  The inductive invariant is `RingInv`: types, and, until `end`
writes head, `RingFacts` - what each thread has tested stays true until it uses it.
It is needed because `store_char` compares with a tail that may have moved since, and
`read` uses a batch size that is out of date: the facts say that the other thread
can only move its index in the favourable direction.  The lemmas about the distance of two
indices modulo N come first, then one step per action.
`NeverDry` follows from `numc <= Count`; `LossNeedsFullRing`, which no run checks because
`ImplementsFifo` contains it, from the index arithmetic; `RingImplementsFifo` maps the slots between tail and head to the queue,
`RxRead` to `Arrive`, `StorePublish` to `Put`, `StoreDrop` to `Refuse`, `ReadAdvance` to
`Get`, `EndClear` to `Close`, and every other step to a stutter: the bytes of the
line come out in their order, once, and one is refused only when N - 1 wait.

`ServoFramesProofs`.  `FrameInv` adds to `TypeOK` that what is on the line is a frame.
`ParserTypeCorrect`: `process_byte` never writes outside of `rx_message`.  `SyncKept`
and `WholeFramesAccepted`: from a state in step the bytes collected are the frame's, so that
the message completed is a payload with its CRC, and `Accept` sets the channels to those of
that payload.  No property of the CRC is used, and none of the payloads.

`GpsDriverProofs`.  `StatusInv` adds to `TypeOK` that until a message of this turn is
complete the status is that of the last one; `GotMessage` then sets both.
`DriverKeepsStep` and `DriverAcceptsWhole` go byte by byte: `Collected(n)` - the bytes
and both sums are those of the first n of the payload - grows to `Collected(n + 1)` with
each byte in step, and `Collected(32)` makes the receiver's sums match.  The sums enter
as `SumsUp`, since what a recursive definition computes cannot be proved here; TLC
checks that the recursive ones of `MCGpsDriver` satisfy it.

`FusionTriggerProofs`.  `FusionInv` adds to `TypeOK` which
inputs are of which sample at each place of the IMU thread (`InputsInv`), and what the
filter has read by each of its own while the inputs rest and no notification is lost
(`UsedInv`).  `NewestIsFiltered` is not inductive: it speaks of a waiting filter only,
and the invariant follows the run that leads there.

`LogBufferProofs`.  `LogTypeCorrect` holds under any schedule.  `RecordsAreKept` assumes
`RealTime`.  `LogInv` adds what each thread knows at each of its places: the counter and
the number of calls (`CounterInv`); that while the writer appends its target is the active
buffer and what it read of it is still there (`WriterInv`); which buffer the loop has
taken, that it is no longer the active one, and what of it is in the file (`LoopInv`).
`NothingLost` compares file, flushed buffer and active buffer with the records due; the
steps of the loop move a prefix of that from one to the next.
`LogIsAQueue` maps every step to a step of `RecordLog` or a stutter.  It needs what
`NothingLost` does not say: that a record goes to the end of what is pending, whichever
buffer is active (`ExtendQueues`), that a write takes a prefix of it (`WrittenIsWrite`), and
that the loop has left its last round when `end` returns (`JoinInv`).  `EndIsNotMissed` has an invariant of its own (`EndInv`): with `main` below the
loop, `end` runs only while the loop is blocked, so that the loop is between the test and the
wait in no state in which `end` can notify.  It is the safety core of `EndReturns`, and what
`log_end` shows to fail without the priorities.

`PilotSwitchProofs`.  `PilotInv` adds to `TypeOK` where `loop` is (`LoopInv`), that an edge
which has not been handled still has its flag set and is at most two turns old (`FlagInv`),
and that `time_in` of an active pin is the time of its last rise, within two turns and the slack of
`torn_in` (`ValueInv`).  The last two need the pin to have its interrupt for itself: with another on
the same flag `ClearFlag` would break `FlagInv`.  `EdgesAreHandledInTime` and
`SwitchFollowsPulse` follow: an edge older than two turns is no longer waiting, and a width that is
off by no more than `Error` falls on the side of the threshold on which a pulse is that is clear of
it by more, so that `Cycle`, which tests nothing else, sets the switch as the pulse says.  `Slack`
is used only through what it is of 0, 1 and 2 (`SlackSum`), because the solver does not multiply.

`ImuLoopProofs`.  `ImuInv` adds who holds the mutex at which place (`MutexInv`), that the two
halves agree unless the IMU thread is between them (`SampleInv`), the same for what a getter
has copied, that this is of the current one (`CopyInv`), and, for the barometer, that while the history is clean what is left of
`time_baro` is at least what is left of the conversion (`BaroInv`).
`GettersReadARegister` maps each step to one of `SampleRegister` or a stutter.  The second copy
is the one that matters: the getter holds the mutex there, so that the IMU thread is not between
the halves of a sample, and the first copy, taken before, is of the sample that still is the
current one.

`GroundLinkProofs`.  `LinkInv` adds that a message with a right checksum, other than a
heartbeat's, is that message (`True`), how far the loop's own message has come (`LoopInv`), and
that a receiver which answers has an answer left (`AnswersInv`).  With `RealTime` no step of
another thread falls between two of the loop; a heartbeat that goes on after it can only set
the checksum to a heartbeat's or spoil it.  `LinkTypeCorrect` does not need `RealTime`, nor
does `SecondConnectHolds`: `SecondGoesOn` is inductive with the types and says that a flag
set by the second `connect` stays set and that no thread which it has started ends.  It is the
safety core of `HeartbeatsGoOn`.

*Model-checked only.*  Liveness (`EveryByteIsRead`, `EndReturns`, `EndWritesBacklog`,
`KeepsTaking`, `SilenceIsNoticed`, `Recovers`, `FilterGoesOn`, `PilotTakesOver`,
`SamplesGoOn`, `PressureGoesOn`, `HeartbeatsGoOn`), which is out of the prover's reach.
`OnlyWholeFrames`: it depends on the CRC of the payloads sent, and with sixteen bits it
cannot hold for all of them; a theorem would have to assume that no two payloads collide in
the way at issue, which is what it would prove.  `OnlyPayloads`, likewise, of the sums.
That `crcFast`, and the sums of the GPS, are what their recursive definitions in the MC modules
say is used by the runs and by no proof.

## 5. What is not modelled

Reordering of stores by a compiler or by several cores; the heap (use after free,
the two channels written behind the array of four); the text of log lines; device
input and output; floating point arithmetic.  The firmware's `valid()` returns the
opposite of its name, so that channels are passed on only when one is out of range;
`ServoFrames` lets the payload be any one or the last.  The hand-over from
controller to FCCI never runs: the default constructor of `ctrl_module` sets the
global `m_sf` to NULL after `main.cpp:42` has set it; and `signal_mag_calibration` is
connected to nothing, so that the calibration of the magnetometer never runs.  Of the
ground link: the socket, its descriptor (the first `connect` closes descriptor 0, and a failed
`bind` leaves a number that is closed again later), the address that `recvfrom` overwrites, and the
destructor.  Of the firmware: the channels from the computer and the servos.  Of the IMU
driver: the magnetometer and `end`, which does not join.  SDL2, MAVLink's generated code,
MultiWii, the Arduino library and Simulink's output, which are most of the repository's
lines, are not this project's logic.  Components not yet modelled
are in the plan.  `GpsDriver` takes the wall
clock to run forward; if it is set, the idle timer expires early or late.  `_detect` of
the GPS driver is never called.  When a notification is lost, the interval of its
sample is not integrated, and after a wakeup without one an interval is integrated
twice: `imu_update` measures from its last call, whether the filter has run or not.
Nothing in the repository promises more, so `FusionTrigger` states what does hold: the
newest sample is used unless its own notification was lost.

## 6. The plan

Done and proved: `SerialRing` with `ByteFifo`, `LogBuffer` with `RecordLog`, `ServoFrames`,
`GpsDriver`, `FusionTrigger`, `PilotSwitch`, `ImuLoop` with `SampleRegister`, `GroundLink`;
done, for TLC only: `ImuBus`.
Next, in this order:

1. `Brainware`: construction and destruction of the global objects with their threads, and
   which thread uses what is gone; the destructors of `fcci_module`, `Drotek10dof` and
   `datalink_module` do not join.
2. `ServoFrames` and `GpsDriver` composed with `SerialRing`, whose `StoreDrop` is the loss
   of the line.
3. `ParamRegistry`: `insert` in place of replacing, with a registry of one entry per name as
   the abstract specification; `PARAM_SET` against the controller's reads.
4. The firmware's 8-byte parser and its servos, with the inverted `valid`.
5. `LinkSocket`: the descriptor over `connect` and `disconnect`, and the transfers that open
   descriptors beside it.
6. `Crc`: `crcFast` against the remainder of a polynomial, for TLC; `crcverify`.
7. `Pid`: bounds of `getControl` in fixed point, proved.
8. The magnetometer in `ImuLoop` and its input in `FusionTrigger`.
