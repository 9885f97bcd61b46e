# Formal model of CwKeyer

CwKeyer turns paddle, keyboard and straight-key events into Morse elements on
a sound card, serial lines and a remote transceiver.  This directory holds TLA+
specifications of the parts of `src/App` in which threads meet, the instances
TLC checks, and the proofs TLAPS checks.  `PROJECT.json` lists, for every
definition that models code, the lines it models.

## The system

| Part | State it keeps | Operations | Talks to |
|---|---|---|---|
| `keyer/Keyer` | paddle flags, last pressed, last queued, queue, mode, worker thread | `onDit`, `onDah`, `onStraight`, `enqueue`, `keyerCall`, `playDitDah`, `initKeyer`, `stopKeyer` | called by the input threads and the GUI; calls every `IKeyerCW` output |
| `usb/UsbDevice` | known and connected device, reading thread, last paddle report | `connectDevice`, `disconnectDevice`, `detectDevice`, transfer callback | calls `onDit` / `onDah` of keyer and `Keyboard` |
| `keyboard/KeyboardListener`, `Keyboard` | key hook, key heard for each paddle; keys typed | `setEnabled`, `setDitPressed`, `pressDit` | the listener calls `onDit` / `onDah`; `Keyboard` types keys for the USB paddle |
| `remote/RemoteClient` | socket, MOX state and its release deadline, timer thread | `start`, `stop`, `runCW`, `startRunCw`, `stopRunCw`, timer loop | an output of the keyer; a WebSocket server |
| `serial/SerialComm` | port, DTR line, pulse threads (Linux) or a queue worker (Windows) | `start`, `stop`, `runCW`, `startRunCw`, `stopRunCw` | an output of the keyer |
| `serial/N1MMProxy` | the port's DSR monitor thread | `start`, `stop`, `dsrMonitorLoop` | calls `onStraight` |
| `sound/Sound`, `CwGenerator` | audio sink, PCM cache, push timer | `onPlayRequested`, `onStartCwRequested`, `onStopCwRequested` | an output of the keyer; queued signals to the GUI thread |
| `cwdecoder/CwDecoder` | current symbol sequence, time of the last element, polling thread | `start`, `stop`, `runCW`, `timeoutLoop` | an output of the keyer; text to the GUI |
| `gui/GuiConnector`, `configuration/Configuration` | settings, the objects above, the configuration file | setters, `loadConfiguration`, `quit` | owns everything |

Hard behaviour: the paddles' threads enter the keyer without its mutex; the
keyer's worker is detached, so stopping, re-initialising and deleting the keyer
race with it; a condition variable is notified outside its mutex; the remote
client is started and stopped by the GUI while the keyer's worker and the DSR
monitor send through it, and its timer must release the transmitter neither
early nor never; the connection can fail at any send; sound and serial outputs
run pulses of their own.  Descriptors of a closed port are reused while an
element thread still holds them; a USB device goes away under its transfer; keys
typed for the USB paddle come back through the hook; the file of the settings is
truncated before it is written.

What makes the parts correct:

* Keyer: one element at a time; at most one element waits; a squeeze
  alternates; at most one element after the paddles are let go; silence in the
  end; nothing queued is forgotten.
* RemoteClient: keying only with MOX on; no element cut off by a release delay; MOX
  released after
  the delay, not before and not never; `stop` ends and leaves MOX off.
* SerialComm: the line is up only for an element or a straight key, every element
  ends, elements are played in order, and the output can always be restarted.
* Sound: one source at a time, no tone without a key, no clicks, the sink shut down.
* N1MMProxy: a key-up of the logger reaches the output; the output is not affected
  by what the proxy leaves open.
* CwDecoder: the text decoded is the text sent, by the spacing of the keying
  standard (three units between letters, seven between words); silence after a stop.
* UsbDevice: what the paddle does while its device listens reaches the keyer;
  disconnecting returns; connecting again never ends the process.
* KeyboardListener, Keyboard: no paddle and no typed key is left down.
* GuiConnector, Configuration: Farnsworth speed at most wpm, in memory and
  after a restart; the file says what the parts run with; a write keeps the rest;
  shutdown in an order that leaves no thread in a freed object.

## Modules

| Module | Models | Status |
|---|---|---|
| `IambicKeyer` | what an operator expects of the keyer | abstract |
| `Keyer` | `keyer/Keyer.cpp` | checked; proved in `KeyerProofs`; implements `IambicKeyer` |
| `RemoteClient` | `remote/RemoteClient.cpp`, `RemoteClient_linux.cpp` | checked; proved in `RemoteProofs` |
| `CwDecoder` | `cwdecoder/CwDecoder.cpp` | checked; proved in `CwDecoderProofs` |
| `KeyedLine` | what an output that keys a line promises (`IKeyerCW`) | abstract |
| `SerialLinux` | `serial/SerialComm_linux.cpp` composed with `serial/N1MMProxy_linux.cpp` | checked; proved in `SerialLinuxProofs`; implements `KeyedLine` |
| `SerialWindows` | `serial/SerialComm_win.cpp` composed with `serial/N1MMProxy_win.cpp` | checked; proved in `SerialWindowsProofs`; implements `KeyedLine` |
| `Sound` | `sound/Sound.cpp`, `CwGenerator.cpp` | checked; proved in `SoundProofs` |
| `UsbDevice` | `usb/UsbDevice.cpp` and the device buttons of `GuiConnector` | checked; proved in `PaddleProofs` |
| `KeyboardListener` | `keyboard/KeyboardListener*.cpp`, `Keyboard_*.cpp` | checked; proved in `PaddleProofs` |
| `GuiConnector` | settings of `gui/GuiConnector.cpp`, `configuration/Configuration.cpp` | checked; proved in `GuiProofs` |
| `MC…` of each | instances for TLC | |

### IambicKeyer and Keyer

`IambicKeyer` is the keyer without threads, mutex and condition variable.  The
operator's half is `Down` (a paddle goes down), `Note` (it is the one pressed last),
`Offer` (its element goes to the memory, which holds one and keeps the one it has)
and `Up`.  The keyer's half is `Begin` (an element is taken from the memory), `Sound`,
then `Choose` and `Add` (the keyer adds an element by itself) or `Rest` (it adds
none).  The two paddles are looked at one after the other, because they move in the
meantime: a squeeze is DIT down at `Begin` and DAH down at `Sound`, and `Rest` with a
paddle down is allowed only if a press of it is still on its way or an element waits
(`Pending`).  What a squeeze adds in an iambic mode matters only while the memory is
empty, for the memory refuses it otherwise.

In `Keyer`, `Sources` are the threads that report paddle edges, `Workers` a pool of
`keyerCall` threads.  `m_ditPressed` and `m_dahPressed` are the set `pressed`;
`queue`, `lastPressed`, `lastQueued`, `mode`, `started` are the members of those
names; `mutex` is the owner of `m_mutex`, `pc` says where each thread is.  A
press is `Press`, `SetLastPressed`, then `enqueue` in three steps
(`EnqueueSize`, `EnqueueSetLast`, `EnqueuePush`); the worker runs the same three
steps when `keyerCall` calls `enqueue`, then with `m_mutex`.  One iteration of
`keyerCall` is `WhileStarted`, `Lock`, then `Take` (predicate, pop, first operand
of `squeeze`), `StartPlay` (second operand), `EndPlay` and one of the `Decide`
actions, or `NothingToPlay`, or `PredicateFalse` and `Block`.  A lock is a step
of its own, and so is every read or write that another thread can interleave
with.  The test of the wait predicate and the wait itself are two steps,
because `enqueue` notifies without the mutex.  Two pushes that collide lose one
element (`PushCollide`): `std::queue::push` is unsynchronised there and its
effect undefined; loss of one is the outcome modelled.

`initKeyer` is `StopKeyer("init")` and `InitKeyer`, `~Keyer` is
`StopKeyer("destroy")` and `Destroy`; a detached thread is not joinable, so
neither waits for a worker.  After `Destroy` the members are gone and no step of
theirs is described.

The refinement is `Op` and `KeyerIsIambic`.  A press is how far its source is
(`Call`, `Asked`); the memory is the queue and whatever a thread has in `enqueue` past
the test of the size, so an element is in the memory from that test on; the keyer's stage is where the
owner of `m_mutex` stands (`Stage`, `Element`, `Squeeze`).  Locks, waits, wakeups, the
start and the end of workers and the two later steps of `enqueue` are not seen.
`KeyerIsIambic` asks for it until two calls of `enqueue` overlap, after which the
queue may hold two elements and the code promises nothing.  A second worker left
behind by `initKeyer` does not matter to it: one owner of `m_mutex` is the keyer.

`overlapped` and `trailing` are history variables for the properties:
`overlapped` records that two threads were inside `enqueue` at once (nothing is
promised about the data then), `trailing` counts elements taken since all
paddles are up and saturates at `TrailingCap` (2).

The worker reads `m_ditPressed` and `m_dahPressed` in separate steps, and the
reads may come before or after any write of a source.  Single reads and writes of the
`bool` and enum members are taken to be atomic and in program order, as the x86
builds make them.

### RemoteClient

`Paddles` send timed elements and sleep through them (the keyer's worker);
`Straights` send key down and key up (`N1MMProxy`'s monitor).  `mox` holds the
members under `m_moxMutex`, with the deadline as the ticks that remain (`due`)
and the token compared as `current`: "the timer's copy is still the value of
`m_moxScheduleToken`".  `conn` is the socket: none, connected but not upgraded,
upgraded, or dropped by the peer.  A keyer command is `Call`, `Enter` (lock,
checks, cancelling of a pending release), `SendTrx` unless MOX is active,
`SendKey`, and `SendOff` when no delay is configured; the GUI can act between
any two.  `stop` is seven steps, one per locked section, test or assignment:
`StopSnapshot`, `StopJoin`, `StopRelease`, `StopReleaseLocked`, `StopReset`,
`StopClear`, `StopClose`; `start` adds `StartOpen`, `StartHandshake`, `StartArm`,
`StartRun`.  The timer thread is `TimerParks`, `TimerPlans`, `TimerInterrupted`,
`TimerExpires` and `TimerStops`.  `m_sendMutex` is taken only inside
`m_moxMutex` and adds nothing.  The validation of address and port at the head
of `start` returns before any change and is left out; so are the bytes of
frames and handshake.  A frame sent on a connection that the peer has dropped
is either accepted and lost or refused.

The server is what its frames make of it: `trx` (MOX), `down` (key held),
`sounding` (ticks left of the last timed element).

### CwDecoder

`Call` is a `runCW` that has passed its test of `m_started`; the rest of it holds
`m_mutex` and is `Measure` (the pause), `Decode` and `PrintChar` (`flushLetter` up to
its table look-up, and from its callback), `PrintWordSpace` and `Accumulate`.
`stop` and `start` do not take the mutex, so they are steps between any two of
these: `Stop`, `Join`, `Clear` are `stop()` and `Start` what `start()` does after
it.  `WhileRunning` and `Poll` are `timeoutLoop`; a poll may come late, since sleeping
threads do, but not into a call, and it is one step: the join of a `stop` that it
races comes before the clear.  The sequence is a string that a call and a stop touch unsynchronised;
either order of the two accesses is taken, and nothing else.  `MaxCall` bounds the ticks
that pass inside a call.  `since` counts the ticks from
`m_lastSignalTime`, `unit` is `m_interElementSpace`, and the word space is seven
units.  `m_letterSpace` is computed and never read, so it is no variable.  A
letter is its sequence of elements and `Known` the sequences the Morse table
has.  Callbacks print to `output`, a text: its letters, each with whether a space
stands before it, and whether a space comes after the last.  The code prints two
spaces for one pause and one before the first letter; several are as one there,
and a leading one is none.

`copy` and `letter` are what an operator copies from the same keying by what the
repository says of it (`IKeyerCW.h:35`, `README.md:648`): `ReadElement` goes on with
the letter after one unit of silence, ends it after three and ends the word after seven.
Between one and three nothing is documented; there the operator reads what the code does,
which ends a letter after more than two.  A pause that the code takes for a word's
is one of eight units or more: it subtracts the length of the element and one unit more.
So `TextIsFaithful` asks for the same letters, in order, and for no space that was not
keyed; that the spaces of seven units are there too is `WordsAreFaithful`, which
`DecoderWords.cfg` refutes.  `sounded` is the length of the last element,
which the polling thread resets in `m_lastDuration`.  `late` counts the letters
that come out when `stop()` has returned: one at the most (`OneLateLetter`), where
the documented mutex would allow none (`StoppedIsSilent`, refuted by `DecoderStop.cfg`).
`MaxElements` bounds the elements
keyed; from `Horizon` on every comparison of the silence gives the same answer.

### KeyedLine, SerialLinux and SerialWindows

`KeyedLine` is the promise of a keyed line: `key` is up only while something in
`causes` (elements, the straight key) has raised it, a cause gives the line back
once, a stop cuts it, and every element ends.  Whether the line stays up for
another cause when one ends is left open, because an element of `SerialComm` drops
DTR whoever else holds it.

`SerialLinux` has two `SerialComm` objects in one process, the keyer's output
(`out`) and the proxy (`in`), with the descriptors they share: `port` maps each
descriptor to its port, `Start` opens the port that is selected (`OutPorts`, `InPorts`;
the window lets both select the same) on the lowest free one, the last close of a
port drops its DTR (`Lower`).  `left` is history: the ports whose line was up at a close that
was not the last, with no element thread left that would drop it.  An element is a detached thread `pulse[e]` that is born with
the descriptor of that moment (`RunCW`), raises DTR (`RaiseDtr`), sleeps, and
drops it (`DropDtr`), on whatever the descriptor is by then.  `dsrMonitorLoop` is
`MonitorTop`, `MonitorReads`, `MonitorBreaks` and `OnStraight`, which is
`Keyer::onStraight` calling the output.  `N1MMProxy::stop` is `StopProxy`,
`TellMonitor`, `JoinMonitor`: by then `m_running` is FALSE, so `SerialComm::stop`
returns early and the descriptor stays open; `MaxFd` bounds how many are lost.
A read of the modem lines followed by a write of DTR is one step, since every writer
writes DTR alone.

`SerialWindows` has the queue worker in the steps of its mutex and condition
variable (`WorkerTop`, `WorkerLock`, `PredicateFalse`, `Block`, `NothingToPlay`,
`Pop`, `EndElement`), `runCW` as `RunCW` and `Push`, which waits for the mutex that
the worker keeps through an element, the event-driven monitor, and `stop` as
`Stop`, `NotifyWorker`, `JoinWorker`, or `Stop`, `TellMonitor`, `JoinMonitor` for
the proxy.  The proxy's stop leaves its worker joinable; `StartTerminates` is the
`std::terminate` of the next start.  Elements are numbered (`sent`,
`lastPlayed`), which is what `InOrder` compares.

The refinements are `PortsKeyALine` (every port of Linux, with the causes read
from the threads and from `held`, as long as no close has left its line up) and `OutputKeysALine`.  `held` records who
called `startRunCw` last.

### Sound

`runCW`, `startRunCw` and `stopRunCw` post to the event loop (`Post`); `Deliver`
runs one slot (`OnPlay`, `OnStartCw`, `OnStopCw`), `Tick` the push timer, between
them `SetEnabled` and `ResetSound` from the GUI.  `sink` says what `m_sink`
plays, `gen` is `CwGenerator` with its counters stopped where the samples no
longer change.  A sample is the level of its envelope times `Attack * Release`,
so that both ramps are integers.  `Slope` is the steepest step of a ramp; the
amplitude and the sine, which multiply the envelope, are left out, and so is the
cache, since equal lengths give equal buffers.  `key` and `onset` are history:
the last edge delivered, and whether `startStream` was called since the last chunk,
`"clean"` from a silent stream or `"cut"` while the stream still sounded: the index of
the generator goes back to zero and the level with it.  `NoClicks` names that one jump;
`SmoothTone`, which does not, is refuted by `SoundClicks.cfg`.

### UsbDevice

`connectDevice` is `InitConnector` or `Connect` up to its sleep of 500 ms, and
`Slept` after it; the thread is `TaskClaims` or `TaskFails`, then `CbInterrupt`,
`CbInterruptFails` and `TaskEnds`.  `task` keeps whether `m_threadTask` is still
joinable, which decides between a second thread and `std::terminate` (`process`
becomes `dead`).  `detectDevice` is `Detect` and `Detected` around its ten
seconds.  The buttons have the guards of `Main.ui.qml`: `shown` is what
`deviceUpdated` told last.  A paddle reports changes only and to whoever polls
it: `news` is a report on its way, `missed` a change that nobody took.  A report is
the three bytes that `cbInterrupt` looks at (`Buffer`, `Decode`): the buttons in byte 0,
or one contact in byte 2 and the other in byte 3 (`InBytes`).  Reports that end before
byte 2 (`Short`) leave there what the buffer, which comes from `malloc`, happened to hold (`junk`).
A transfer may end with any status at any time, the device plugged in or not, and every
`libusb_submit_transfer` may fail unnoticed; then `transfer` is `"ended"` and nobody
submits another.
`faulted` is history: a claim failed or took longer than the sleep.

### KeyboardListener

`OnPaddle` is a report of the USB device to the keyer and to `Keyboard`, which
posts a signal; `PressKey` types the key; `AdapterKey` is a key of the adapter,
repeats included.  While the listener is hooked each of these is an event, which
`HandleEvent` gives to `setDitPressed` / `setDahPressed` (`SetPressed`); `key` is
the first key that moved the paddle, the only one heard from then on.  `cut`,
`lost` and `untyped` record that a switch came at the wrong moment: the listener
was disabled with the paddle down, events went by while it was off, the output
was off at the paddle's last edge.  It is assumed that the hook and the uinput
device can be opened.

### GuiConnector

A setter changes memory and parts in one step (they run on one thread) and
leaves in `todo` the values it puts; `Truncate` and `Fill` are the two halves of
one `writeFullJson`, with `writing` and `root` for what is in hand between them,
and `End` may come between any two.  Settings that depend
on nothing are `Plain`, with the part that each resets; the speeds, the sound and
the remote flag have actions of their own.  `loadConfiguration` is `Loaded`,
`SavedSpeed` and `Puts`: a missing value is given its default and put (`Defaulted`), except
where the code takes zero for a value.  Device and ports are positions in a list
(`Indexed`), and the lists are those of the day (`listed`, chosen at each start): a
saved position that is not in its list is neither taken nor overwritten.  `NonZero` are settings
that cannot become zero: the setter refuses it, or the modes are numbered from one.
`torn` is history: a process ended between the two puts of the speeds and its file has
them in the wrong order; a setter of a speed ends it.
The outcome of starting the remote client is open, and `RemoteFails` is its later
death, of which nobody is told.

## Runs

Every run is a `.cfg` beside its MC module.  TLC has no error to report in any but
`remote_stop`.

| Run | Instance | Shows |
|---|---|---|
| `keyer_paddles` | 2 sources, 1 worker, ULTIMATIC and IAMBIC_B | one trailing element, alternation of a squeeze, one iambic keyer (`IambicKeyer`) until calls of `enqueue` overlap |
| `keyer_restart` | 1 source, 2 workers, IAMBIC_B, fair | one element at a time across `initKeyer`, the inductive invariant, silence after release, an awake worker takes what is queued |
| `remote_elements` | the keyer, lengths 1 and 3, delays 0 and 2, failing peer | elements complete if the delay is above zero, releases reach the server |
| `remote_two` | keyer and straight key, length 1, delays 0 and 1, failing peer, fair | keying only under MOX, the inductive invariant of the proofs, never an early release, MOX is let go, `stop` completes |
| `remote_stop` | keyer | violated: connection closed with MOX on |
| `decoder_text` | 3 elements, a dit of 1 tick against units of 1 and 2, a stop between any two steps of a call, fair | the inductive invariant, letters printed as keyed and no space inside a word, one letter at most after a stop, the last letter is printed |
| `serial_linux` | one port or two, 2 overlapping elements, straight key, 3 descriptors, fair | every port implements `KeyedLine` until a close leaves its line up; the output never loses its descriptor; a key-up of the logger reaches the output |
| `serial_windows` | 2 elements, straight key, fair | the output implements `KeyedLine`; order of elements; nothing queued is missed; a stop that is heard returns; the output can be restarted |
| `sound` | attack 3, release 4, chunk 2, elements of 7 and 9 samples, 3 posted signals, fair | one source, no tone without key, no clicks but at a key-down that cuts a tone, fading elements, the sink is shut down |
| `usb_device` | 2 devices, one of each layout, short reports, fair | keyer and paddle in step, reports arrive while a transfer is there, no death without a faulted claim, no echo, the device is stored, disconnect returns |
| `keyboard` | 1 paddle with 2 keys, 3 signals, 3 events | no paddle left down, one key heard, no typed key left down |
| `settings` | a setting of each part and a port, lists of 0 to 2 ports, speeds 1 to 3 with default 2 | the file is current, what is selected exists, speeds in order, the remote's flag, writes keep the rest |

`remote_stop` checks one property, which says what a comment of the repository says;
it is listed under "findings" with the line quoted.

Ten more configurations are of the same kind.  Each checks one property that a doc or a
comment states and the code does not keep, on an instance small enough to read the
counterexample; `tlc -config <configuration> <MC module>` prints it.  They are not among
the runs: each only shows the disagreement, and the property of the run beside it says
what holds in its place.

| Configuration | Module | Property | Instance | Counterexample | What holds |
|---|---|---|---|---|---|
| `KeyerWakeup.cfg` | `MCKeyer` | `QueuedIsTaken` | 1 source, 1 worker, IAMBIC_B, fair | an element is queued and no worker ever takes it | `AwakeWorkerTakes` |
| `DecoderWords.cfg` | `MCCwDecoder` | `WordsAreFaithful` | 2 elements | a pause of seven units prints no space | `TextIsFaithful` |
| `DecoderStop.cfg` | `MCCwDecoder` | `StoppedIsSilent` | 2 elements | a letter is printed after `stop()` has returned | `OneLateLetter` |
| `SerialLinuxStop.cfg` | `MCSerialLinux` | `StopClearsDtr` | one port or two, 1 element | the stop of the output leaves DTR up on a port that the proxy has open too | `PortsKeyALine` |
| `SerialWindowsStop.cfg` | `MCSerialWindows` | `StopEnds` | 1 element, fair | a stop that the worker does not hear never returns | `StopReturns` |
| `SoundClicks.cfg` | `MCSound` | `SmoothTone` | the ramps of `sound`, elements of 7 samples, 1 posted signal | a key-down while the stream sounds drops the level to zero | `NoClicks` |
| `UsbListening.cfg` | `MCUsbDevice` | `KeepsListening` | 2 devices | a device that is connected and plugged in has no transfer | `PaddleIsReported` |
| `UsbRelease.cfg` | `MCUsbDevice` | `ReleaseIsCalled` | 2 devices | a paddle that is up stays down in the keyer | `PaddleInStep` |
| `SettingsZero.cfg` | `MCGuiConnector` | `SavedIsTaken` | the instance of `settings`, fair | an amplitude of zero is saved and not taken over | `Inv` |
| `SettingsSpeeds.cfg` | `MCGuiConnector` | `SpeedsAlwaysInOrder` | the instance of `settings` | Farnsworth above wpm after a crash between two puts | `SpeedsInOrder` |

In `decoder_text`, `serial_linux`, `serial_windows`, `sound`, `usb_device`, `keyboard`
and `settings` `Inv` is the module's invariant, and it is the inductive one of the proofs: the type
invariant, the promises of the module that are no property of their own, and the
parts that stand under "Why they hold" at its end.  `IInv` is the same for `Keyer`
and `RemoteClient`.  `QueueHoldsOne` is part of the keyer's `IInv` and has no place
in a run of its own.

Bounds.  Two sources are the most the program has (USB pump and keyboard hook).
Two workers are one more than there should be: a third only repeats the second.
IAMBIC_A runs the same branch as IAMBIC_B; IAMBIC_B and ULTIMATIC cover both.
Element lengths 1 and 3 are dit and dah in dit units; delays below, between and
above them and the delay 0 reach each path of the release.  Three decoded elements
make up to three letters with a pause between any two, or one letter that a
poll could split, and codes that are in the table and that are not; the element after a
stop has found a call inside is the second or third.  One tick inside a call is enough to
let the polling thread find a silence in between.  Two elements overlap on a serial line, or follow each other
through a stop; three descriptors let the proxy lose one and an element thread
hold one that the other port gets.  Ramps longer than a chunk put key-ups into the
attack and key-downs into the release, also across chunks.  The two paddles of
the keyboard share only the order of two queues, so one of them is enough.  A list of no, one or two
ports loses the port that was saved, or the one before it.  Three
speeds with the default in the middle make a new speed lie above, at or below
the other one, and the other one above, at or below the default.

Deadlock is checked with every configuration but the two of `SerialWindows`: a paddle can always be
pressed and the GUI can always stop or start.  There a process that has terminated
does nothing more, which is the only state without a successor.

## Fairness

Keyer: each source's and worker's own steps are weakly fair, because threads
run; one of the workers that want `m_mutex` gets it; the GUI thread finishes
`initKeyer` and `~Keyer`.  Nothing is assumed of the operator, of the GUI's
user, or of spurious wakeups.

RemoteClient: time passes; a thread waiting for `m_moxMutex` gets it (strong
fairness), which the code justifies because holders keep it for the length of a
few sends and come back only after an element or an edge of the key.  A `send`
returns; the answer of the peer during the handshake is not assumed to come.

CwDecoder: time passes, the polling thread runs, a `runCW` goes on.

SerialLinux, SerialWindows: element threads, workers and monitors run, and the GUI
thread finishes a stop it began.  On Windows the worker and `runCW` compete for
`m_queueMutex`; strong fairness says that who waits gets it in the end, as the
worker frees it after every element.  Nobody has to start, stop or key anything.

Sound: the event loop delivers what is posted and fires its timer.  UsbDevice: the
reading thread claims or fails, handles a report, and looks at `m_connected` after
each event (transfers time out after a second, and libusb's own wait after sixty); the GUI
thread ends its sleep, its join and its search.  KeyboardListener states no liveness.
GuiConnector: a process that does not end goes on with the puts of its handler;
only `SettingsZero.cfg` uses it, to say that nothing is lost because the program stands still.

## Proofs

Every module that models code has its proofs in a module of their own;
`PaddleProofs` holds those of `KeyboardListener` and, through the instance `Usb`,
those of `UsbDevice`.  For each module there is a theorem `Invariance`, `Spec => []IInv` or
`Spec => []Inv` (`UsbInvariance` for the second one of `PaddleProofs`), with a lemma per
part of the invariant and a step per action under it; the other theorems follow from it.  They
hold for every value of the constants that the module's assumption allows.

| Theorem | States | Because |
|---|---|---|
| `KeyerProofs!MutualExclusion`, `QueueBound`, `OneMore`, `Alternation` | `OneElementAtATime`, `QueueHoldsOne`, `OneMoreElement`, `SqueezeAlternates` | see below |
| `KeyerProofs!RefinesIambicKeyer` | `KeyerIsIambic` | the refinement mapping, action by action, under the invariant |
| `CwDecoderProofs!PrintsWhatWasKeyed` | `TextIsFaithful` | the open letter is the operator's, or was printed after a word's silence; a call has still to print what is missing |
| `CwDecoderProofs!StopLetsOneLetterOut` | `OneLateLetter` | `m_started` lets no second call in, and no thread polls |
| `RemoteProofs!KeysOnlyUnderMox` | `KeysUnderMox` | who passed the test of `m_moxActive` still relies on it |
| `RemoteProofs!ForgetsWithFrame`, `TimerWaits` | `ReleaseReachesServer`, `NeverEarly` | `ReleaseEffect`: outside start and stop, only a frame on a live connection ends MOX, at the deadline |
| `RemoteProofs!NoElementCutOff` | `ElementsComplete`, for `Straights = {}` and delays above zero | the deadline scheduled is never before the end of the element |
| `SerialLinuxProofs!PortsRefineLine`, `SerialWindowsProofs!OutputRefinesLine` | every step of a port's users is a step of `KeyedLine` or leaves it alone; on Linux unless a close has left the line up | the refinement mapping, action by action |
| `SerialWindowsProofs!PlaysInOrder` | `InOrder` | the queue holds what was sent and not yet taken, in order |
| `SoundProofs!ToneHasNoClicks` | `NoClicks` | the envelope is continuous along a stream and across chunks, and a stream that begins clean follows silence |
| `PaddleProofs!PaddleIsInStep` | `PaddleInStep` | a report that was not taken is remembered |
| `PaddleProofs!ListenerInStep`, `TypedKeyInStep` | `KeyInStep`, `TypedKeyComesUp` | the last event of a key on its way tells where it is |
| `GuiProofs!SpeedsStayInOrder`, `RemoteStaysSaved`, `PutsLoseNothing` | `SpeedsInOrder`, `RemoteIsSaved`, `PutsKeepTheRest` | the puts still to do bring the file to what the program runs with |

### Assumptions

They say which constants are different things and which are numbers, and are what the
code gives: a thread is not the absent owner of a mutex, a device is not "none", an
element is not the straight key, a device that reports in bytes 2 and 3 has no short
reports, there are finitely many settings.  `GuiAssumption` asks of
the speeds that they are positive numbers, one of which is the default both speeds share
(`DEFAULT_WPM` and `DEFAULT_FARNSWORTH`).  `CwDecoderAssumption` asks that dits and
units are positive, that the table has no letter without elements, and that `Horizon`
is past the longest element and eight of the longest unit.  `UsbInvariance` takes
"none" to be no device.  Only two say more.  `SoundAssumption` takes
every element to be at least as long as its two ramps; at any speed the GUI offers it
is, since a ramp is a few milliseconds.  `NoElementCutOff` has the
hypothesis `Straights = {}`: with a straight key beside the keyer the later command
decides the deadline, and the property is false (see the last part of this file).  `Reliable` may
be either value, so that everything holds with and without a failing connection.

### IambicKeyer and Keyer

None of the properties is inductive alone.  `IInv` conjoins:

* `KnownInv`: whatever is on its way through `enqueue` is an element, because a
  press assigns `m_lastPressed` before anything can be taken.  Without it
  `TypeOK` is not kept by ULTIMATIC's `enqueue(m_lastPressed)`.
* `MutexInv`: a worker is at a critical point exactly when it owns `m_mutex`.
* `QueueInv`: without overlap, whoever is past `size()` is alone there and the
  queue is still empty, so its push leaves one element.
* `LastQueuedInv`: `m_lastQueued` is the waiting element or, when nothing is
  being queued, the one being played.  `Quiet` says when the second case holds.
* `TrailingInv`: after a counted element the queue is empty and no worker is
  committed to another.
* `ElseInv`: a worker that has seen DIT up and looks at DAH is in no squeeze, and if
  DIT is down by now its press is on its way, in `enqueue` or in the queue.  The
  refinement needs it where the keyer adds nothing.

Parts with many actions that leave them alone have a frame lemma, and the effect of
a notification on the program counters is stated once (`WakeEffect` and its
consequences `PushEffect`, `CollideEffect`, `StopEffect`).

`RefinesIambicKeyer` is proved a step at a time: from `IInv` and `IInv'`, a step of
`Next` after which nothing has overlapped is a step of `IambicKeyer!Next` or leaves its variables
alone (`RefineStep`).  `StageIs` and `MemoryIs` replace the mapping by facts about
single threads (`StageFacts`: with `MutexInv`, who is where tells the stage;
`MemoryFacts`: with `QueueInv`, the memory is the queue or the one element inside
`enqueue`).  `StageFrame`, `HandsFrame` and `MemoryFrame` say which steps leave which
part of the mapping alone.  Then there is one lemma per visible action (`PressRefines`,
`NoteRefines`, `OfferRefines`, `TakeRefines` and so on) and `WaitUnseen`, `EnqueueUnseen`
and `GuiRefines` for the rest.  A collision of two pushes is an overlap.  That a squeeze
adds the opposite is `LastQueuedInv` again.

### CwDecoder

`TextIsFaithful` is not inductive: it does not say which of the two threads may
print, nor what `m_lastDuration` has to do with the last element, nor what a call that
is under way has still to print.  `CopyInv` does.  Its `Whole` has
four cases: nothing has been keyed; or the sequence is the
operator's open letter, the texts agree and `m_lastDuration` is the length of
the last element; or the polling thread has printed that letter, has set
`m_lastDuration` to 0, and the silence is already one that ends a word for the
operator too; or a call is inside and the texts agree once it has printed (`Ahead`).
In the third case the next element prints one more space, and no
letter, whichever of the two lengths the silence is measured with.  `Cut` is what
a stop leaves: what was printed is a prefix of what was keyed, with the letter
of the call it overtook.  `ThreadInv` is
about a decoder that stops: no thread polls.  `LateInv` says where the call is that
has printed late.  `SoundedInv` keeps `Horizon` beyond the thresholds.

### RemoteClient

* `MutexInv`: a caller is inside the mutex exactly when it owns it, and then
  nothing is scheduled.  Without it the timer could release MOX under a caller.
* `RelianceInv`: a caller past the activation has `m_moxActive`, and `m_moxActive`
  on a connection that is up has the server's MOX.  Between the handshake and
  `resetMoxStateLocked` it need not: a command that came after `stop`'s
  reset leaves the flag of the old connection, which only that call clears.
* `ConnInv`: a client that is left connected runs, and a start opens nothing twice.
* `TimerInv`: a timer that waits for the current token waits until the deadline.
* `CommandInv`: only the keyer sends elements, and nothing else.

`ElementInv` (the deadline is not before the end of the element that sounds) is added for
`NoElementCutOff` only.  With a delay of zero the property is false, and the
theorem does not speak of it: the code turns MOX off right after the command of the element.

### SerialLinux, SerialWindows

On Linux `LineInv` ties a line that is up to what holds it: the straight key, an
element whose descriptor still belongs to that port, or a close that has left it up.
Elements that hold a descriptor which was
closed and given to the other port are the reason for the second half.  `GuiInv` says
what a stop in progress has already cleared.  `PortsRefineLine` then takes every
action for every port, shared or not: `RaiseDtr` and the start of a straight key are
`Press`, `DropDtr` is `Release` or `Cut`, closing is `Cut`.  A port in `left` is the
exception: its line is up for nobody, as `SerialLinuxStop.cfg` shows, until somebody lowers it.

On Windows `OffInv` makes the output restartable (`OutputRestarts`): while it
is off and not in the middle of a stop it has neither port nor thread.  `QueueInv` is
what `PlaysInOrder` needs, `PlayInv` and `ThreadInv` what the refinement does.

The theorems `PortsRefineLine` and `OutputRefinesLine` are about `KeyedLine!Safety`, which is
the whole of `KeyedLine!Spec` but for `ElementsEnd`.

### Sound

`StreamInv` says at which level the last chunk ended and that the generator goes on
from there.  Arithmetic is in lemmas of its own: a ramp is monotonic and moves by
its slope (`RiseTyped`, `FallTyped`), the level of a sample and of the next one differ by at most
`Slope` (`LevelIsSmooth`), also where a key-up falls into the attack
(`LevelOf` takes the smaller of the two ramps), across chunks (`ChunkContinues`) and
in the buffer of an element (`ElementIsSmooth`).  `StreamInv` also says that a
stream which begins clean follows silence, so that only a cut can jump.

### UsbDevice, KeyboardListener

`ThreadInv` and `StoredInv` say when `m_threadTask` can be joinable and what of a
device is in the file; without them a connect cannot be shown to find nothing to join.
`PaddleIsInStep` decodes every report of both layouts and finds the two contacts in it.

For the keyboard the queues are the difficulty: `KeyInStep` speaks of empty ones.
`TypedInv`, `EventInv` and `HeardInv` generalise it to queues of any content: the last
signal, or event, of a paddle decides.  `FirstInv` is about the time before a key is chosen.

### GuiConnector

`FileIsCurrent`, `ToneFollowsFlag` and the second half of `RemoteIsSaved` speak of the
time between handlers, so they say nothing of the states in which something can go
wrong.  `SettleInv` does: for every key, the puts in `todo`, done one
after another on what is stored, end with a value that the program runs with.
`Ends` is what a queue of puts leaves of a key; that it survives an append, the end of
a put and the truncation in the middle of one are `EndsAppend`, `EndsTail` and
`EndsPut`.  `PutInv` says what is in hand while the file is
cut short.  `OrderInv` carries the order of the speeds through the end of a process and
its next start, where it is a fact about the file: an end that finds no speed among the
puts to do finds the speeds of the program in the file, by `SettleInv`.  `SelectStep`
keeps what is selected inside the lists.  `Listed` shows that the
defaults which a start puts are each put once.

### Only model-checked

* Liveness, which is outside the prover: `Silence`, `AwakeWorkerTakes`,
  `MoxIsReleased`, `StopCompletes`, `LastLetterIsPrinted`, `StraightIsReleased`,
  `QueueIsPlayed`, `StopReturns`, `SinkShutsDown`, `PaddleIsReported`,
  `DisconnectReturns`, and `ElementsEnd` in the two refinements.
* That `IambicKeyer` and `KeyedLine` themselves are what an operator wants: they are
  short enough to be read.

## Where the code differs from what is written about it

TLC shows these, each as the violation of one property by a run or by one of the
further configurations:

* `remote_stop`: `RemoteClient::stop` can close the connection with MOX on
  (`RemoteClient.cpp:121`).
* `KeyerWakeup.cfg`: a press that notifies between the worker's predicate and its wait
  (`Keyer.cpp:88`) wakes nobody, and neither does any later press, since `enqueue`
  returns early while the queue is full.  `AwakeWorkerTakes` is what holds.
* `DecoderWords.cfg`: a word space of seven units prints no space; the code wants eight
  (`CwDecoder.cpp:106`, against `IKeyerCW.h:37` and `README.md:295`).
* `DecoderStop.cfg`: a letter is printed after `stop()` has returned (`CwDecoder.cpp:37`).
* `SerialLinuxStop.cfg`: on Linux a stop of the output can leave DTR up when the proxy has
  the same port open (`SerialComm_linux.cpp:75`).
* `SerialWindowsStop.cfg`: a stop whose notification falls between the worker's
  predicate and its wait never returns (`SerialComm_win.cpp:75`).
* `SoundClicks.cfg`: a key-down while the tone of the last one sounds starts at zero from
  whatever level it had (`CwGenerator.cpp:20`).
* `UsbListening.cfg`: a transfer that ends with any status but completed and timed
  out, or that cannot be submitted, leaves a connected device with nobody reading it
  (`UsbDevice.cpp:323`).
* `UsbRelease.cfg`: a disconnect, an unplug or a failed transfer leaves a paddle that was down
  set in the keyer (`UsbDevice.cpp:57`); `missed` in `PaddleInStep`.
* `SettingsZero.cfg`: an amplitude of zero is saved and not loaded (`GuiConnector.cpp:81`).
* `SettingsSpeeds.cfg`: a crash between the two puts of `setWpm` leaves a Farnsworth speed
  above wpm for the next start (`GuiConnector.cpp:264`).

The models describe these too, and properties are stated so that they hold beside
them:

* IAMBIC_A behaves as IAMBIC_B (`Keyer.cpp:131`, against `README.md:667`).
* A worker can survive `initKeyer` (`Keyer.cpp:46`) and the Keyer itself, as it is
  detached.  `m_mutex` does not protect `m_queue` although `Keyer.h:62` says so.
* With a release delay of zero MOX is released right after the command of an element,
  while it still sounds (`RemoteClient.cpp:197`).
* MOX is released under a straight key that is held longer than the delay
  (`RemoteClient.cpp:202`), and a sender that passed `sendLine`'s check may write to
  the next connection before its upgrade.
* `m_letterSpace`, three units at the speed of the keyer, is computed and never read
  (`CwDecoder.cpp`, against `README.md:294`): a letter ends after more than two units.
* The decoder prints two spaces for one pause between words (`CwDecoder.cpp:116`).
* On Linux every stop of the proxy loses a descriptor (`N1MMProxy_linux.cpp:39`):
  its port stays open with DTR as it is.
* On Windows the second start of the proxy ends the process (`StartTerminates`,
  from `N1MMProxy_win.cpp:34`).
* DSR that is on when the monitor stops leaves the output keyed until the output is
  stopped (`N1MMProxy_linux.cpp:70`).
* A listener that is disabled leaves a paddle that is down set in the keyer (`cut`).
* A claim that fails leaves `m_threadTask` joinable: the next connect ends the
  process.  A claim that comes after the 500 ms leaves listener and device both on.
* A report that is shorter than three bytes is read with whatever the buffer held
  before it (`UsbDevice.cpp:312`).
* A crash inside a put loses the whole file (`Configuration.cpp:28`).
* `m_remoteMoxDelayMs` is 0 and not 250 when the file has no value
  (`GuiConnector.cpp:147`).
* A saved device or port that is past the end of today's list is not used and stays in
  the file (`GuiConnector.cpp:122`).

## Not modelled

QML, drawing and the sine of the tone, enumeration of serial and audio ports,
logging, HID reports beyond the three bytes that are looked at, and vendored libraries: they
keep no state that another part depends on.  The order in which `quit` deletes the
objects and what threads do in freed memory, what Xlib does with a display closed
under a thread, `SIGPIPE`, and a list read at index -1: the outcome is undefined, and
the state machine ends there.  The switch of the decoder's callback and the lists
shown in the window.  The rounding of the PARIS formula: element lengths are whole
dits.

## Plan

What the first plan named is modelled, checked and proved.  Left for later is the order
in which `GuiConnector::quit` deletes the objects, as far as it can be told without
describing what threads do in freed memory.
