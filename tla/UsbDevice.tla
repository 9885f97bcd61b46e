------------------------------ MODULE UsbDevice ------------------------------
(***************************************************************************)
(* src/App/usb and the device operations of GuiConnector: a USB paddle     *)
(* that reports like a mouse is searched, stored, connected and read by a  *)
(* thread with libusb transfers; GuiConnector switches the keyboard        *)
(* listener and output along with it.  The buttons are guarded as          *)
(* Main.ui.qml guards them: by what the last deviceUpdated has shown.      *)
(***************************************************************************)
EXTENDS Naturals

CONSTANTS
    Devices,
    InBytes,    \* those that report dit in byte 2 and dah in byte 3, not in byte 0
    Short,      \* those whose reports end before byte 2
    None

ASSUME UsbAssumption ==
    None \notin Devices /\ InBytes \cup Short \subseteq Devices /\ InBytes \cap Short = {}

VARIABLES
    process,    \* off, on, or dead after std::terminate or a crash
    config,     \* the entry device-usb of the file
    detected,   \* m_detectedDevice
    known,      \* detectDevice's local: what was plugged in when it began
    connected,  \* m_connected
    task,       \* taskRunnable; m_threadTask is joinable unless it is "none"
    claimed, transfer,        \* the device it reads, the interrupt transfer
    junk,       \* which of bytes 2 and 3 of its buffer, if no report writes them
                \* and nothing else has, happen not to be 0
    reported,   \* m_dit and m_dah, which is what the keyer was told
    plugged,    \* the devices on the bus
    contact, news,            \* the paddle in use; news: a report it has not sent
    missed,     \* history: a change that no transfer was there to take, or that
                \* was read together with junk
    faulted,    \* history: a claim has failed or was later than the 500 ms
    listener, keyboard,       \* both m_enabled
    shown, zadig,             \* QML: txt_device.connected, enabledZadig
    gui         \* what the GUI thread is doing

device == <<config, detected, known>>
thread == <<task, claimed, transfer, junk>>
paddle == <<plugged, contact, news, missed>>
switch == <<listener, keyboard>>
screen == <<shown, zadig>>
vars   == <<process, device, connected, thread, reported, paddle,
            faulted, switch, screen, gui>>

Paddles == {"dit", "dah"}
Up == [p \in Paddles |-> FALSE]

\* Every variable has its type.
TypeOK ==
    /\ process \in {"off", "on", "dead"}
    /\ task \in {"none", "born", "loop", "ended"}
    /\ transfer \in {"none", "pending", "gone", "ended"} /\ junk \subseteq Paddles
    /\ gui \in {"idle", "sleep", "join", "detect"}
    /\ {config, detected, claimed} \subseteq Devices \cup {None}
    /\ known \subseteq Devices /\ plugged \subseteq Devices
    /\ {reported, contact} \subseteq [Paddles -> BOOLEAN]
    /\ {connected, news, missed, faulted, listener, keyboard, shown, zadig}
         \subseteq BOOLEAN

Reset ==
    /\ detected' = None /\ known' = {} /\ connected' = FALSE
    /\ task' = "none" /\ claimed' = None /\ transfer' = "none" /\ junk' = {}
    /\ reported' = Up /\ news' = FALSE /\ missed' = (contact # Up)
    /\ faulted' = FALSE
    /\ listener' = FALSE /\ keyboard' = FALSE
    /\ shown' = TRUE /\ zadig' = FALSE
    /\ gui' = "idle"

Init ==
    /\ process = "off"
    /\ config \in Devices \cup {None}
    /\ plugged \in SUBSET Devices /\ contact = Up /\ news = FALSE /\ missed = FALSE
    /\ detected = None /\ known = {} /\ connected = FALSE
    /\ task = "none" /\ claimed = None /\ transfer = "none" /\ junk = {}
    /\ reported = Up
    /\ faulted = FALSE
    /\ listener = FALSE /\ keyboard = FALSE
    /\ shown = TRUE /\ zadig = FALSE
    /\ gui = "idle"

----------------------------------------------------------------------------
(* GuiConnector                                                            *)

\* sendDeviceUpdated; QML reads enabledZadig from the device itself.
SendDeviceUpdated ==
    /\ shown' = IF detected' # None THEN connected' ELSE listener'
    /\ zadig' = connected'

\* UsbDevice::connectDevice up to its sleep, and what its callers do when it
\* returns at once.
ConnectDevice ==
    /\ detected' = IF detected = None THEN config ELSE detected
    /\ UNCHANGED <<known, connected, claimed, transfer, junk, reported, paddle, faulted,
                  keyboard>>
    /\ IF detected' = None
         THEN /\ config' = None
              /\ listener' = TRUE
              /\ SendDeviceUpdated
              /\ process' = "on" /\ UNCHANGED <<task, gui>>
         ELSE /\ UNCHANGED <<config, listener>>
              /\ IF connected
                   THEN SendDeviceUpdated /\ process' = "on" /\ UNCHANGED <<task, gui>>
                   ELSE /\ UNCHANGED screen
                        /\ IF task # "none"  \* assigned to a joinable thread
                             THEN process' = "dead" /\ UNCHANGED <<task, gui>>
                             ELSE process' = "on" /\ task' = "born" /\ gui' = "sleep"

\* The window is created: initConnector.
InitConnector == process = "off" /\ ConnectDevice

\* The button reads Connect.
Connect == process = "on" /\ gui = "idle" /\ ~shown /\ ConnectDevice

\* The 500 ms are over: a device that is not connected by now is forgotten by
\* the file, but its pointer is returned, and its thread may still connect.
Slept ==
    /\ gui = "sleep" /\ process = "on"
    /\ gui' = "idle"
    /\ config' = IF connected THEN config ELSE None
    /\ faulted' = (faulted \/ ~connected)
    /\ UNCHANGED <<process, detected, known, connected, thread, reported, paddle, switch>>
    /\ SendDeviceUpdated

\* The button reads Disconnect: UsbDevice::disconnectDevice clears m_connected
\* and joins; without a connection only the listener is switched off.
Disconnect ==
    /\ process = "on" /\ gui = "idle" /\ shown
    /\ connected' = FALSE
    /\ UNCHANGED <<process, device, thread, reported, paddle, faulted>>
    /\ IF connected
         THEN gui' = "join" /\ UNCHANGED <<switch, screen>>
         ELSE listener' = FALSE /\ SendDeviceUpdated /\ UNCHANGED <<keyboard, gui>>

\* Variant: the thread is not joined when it has ended.
JoinForgets ==
    /\ gui = "join" /\ process = "on" /\ task = "ended"
    /\ gui' = "idle"
    /\ listener' = FALSE
    /\ UNCHANGED <<process, device, connected, thread, reported, paddle,
                   faulted, keyboard>>
    /\ SendDeviceUpdated

\* m_dit and m_dah stay as they are.
Join ==
    /\ gui = "join" /\ process = "on" /\ task = "ended"
    /\ gui' = "idle"
    /\ task' = "none"
    /\ listener' = FALSE
    /\ claimed' = None
    /\ UNCHANGED <<process, device, connected, transfer, junk, reported, paddle,
                   faulted, keyboard>>
    /\ SendDeviceUpdated

\* tryToRead: a device sends something while its endpoint is tried, or not.
TryToRead == SUBSET plugged

\* The first endpoint that was readable gives the device its interface.
SearchDeviceInterfaceAvailable(dn, readable) == dn \in readable

\* What is on the bus, or the device dn if it has an interface.
ManageDevices(dn, readable) ==
    IF dn = None THEN plugged
    ELSE {d \in plugged \cap {dn} : SearchDeviceInterfaceAvailable(d, readable)}

\* detectDevice lists what is plugged in and forgets the device it knew, also
\* one that is connected ...
Detect ==
    /\ process = "on" /\ gui = "idle"
    /\ known' = ManageDevices(None, {})
    /\ detected' = None
    /\ gui' = "detect"
    /\ UNCHANGED <<process, config, connected, thread, reported, paddle, faulted,
                   switch, screen>>

\* ... then, within ten seconds, finds one that was not there and answers, or not.
Detected ==
    /\ gui = "detect" /\ process = "on"
    /\ gui' = "idle"
    /\ \E readable \in TryToRead :
         LET found == UNION {ManageDevices(dn, readable) : dn \in plugged \ known}
         IN detected' \in IF found = {} THEN {None} ELSE found
    /\ config' = IF detected' = None THEN config ELSE detected'
    /\ known' = {}
    /\ UNCHANGED <<process, connected, thread, reported, paddle, faulted, switch>>
    /\ SendDeviceUpdated

\* The check box, which a connected device enables; setEnabledKeyboard returns
\* early when the listener is on and the box is checked, or the reverse.
SetEnabledKeyboard ==
    /\ process = "on" /\ gui = "idle" /\ zadig
    /\ keyboard' \in BOOLEAN \ {listener}
    /\ UNCHANGED <<process, device, connected, thread, reported, paddle,
                   faulted, listener, screen, gui>>

\* quit, or the user restarts a program that died.
Quit ==
    /\ process = "dead" \/ (process = "on" /\ gui = "idle")
    /\ process' = "off"
    /\ Reset
    /\ UNCHANGED <<config, plugged, contact>>

----------------------------------------------------------------------------
(* taskRunnable and cbInterrupt                                            *)

\* The interface is claimed and the first transfer submitted, whatever that
\* returns; what the device did while nobody listened it may still have to tell.
TaskClaims ==
    /\ task = "born" /\ process = "on" /\ detected \in plugged
    /\ task' = "loop" /\ claimed' = detected /\ connected' = TRUE
    /\ transfer' \in {"pending", "ended"}
    /\ junk' \in SUBSET Paddles /\ (detected \notin Short => junk' = {})
    /\ news' \in BOOLEAN /\ (news' => missed /\ transfer' = "pending")
    /\ UNCHANGED <<process, device, reported, plugged, contact, missed, faulted,
                   switch, screen, gui>>

\* There is no device any more, or another process has it; libusb is handed a
\* null handle if it is unplugged, and may not survive that.
TaskFails ==
    /\ task = "born" /\ process = "on"
    /\ task' = "ended"
    /\ faulted' = TRUE
    /\ process' \in {"on"} \cup IF detected \in plugged \cup {None} THEN {} ELSE {"dead"}
    /\ UNCHANGED <<device, connected, claimed, transfer, junk, reported, paddle,
                   switch, screen, gui>>

Bit(b) == IF b THEN 1 ELSE 0

\* The bytes that cbInterrupt looks at, with a report of the device in the buffer.
Buffer ==
    IF claimed \in InBytes
      THEN [b0 |-> 0, b2 |-> Bit(contact["dit"]), b3 |-> Bit(contact["dah"])]
      ELSE [b0 |-> Bit(contact["dit"]) + 2 * Bit(contact["dah"]),
            b2 |-> Bit("dit" \in junk), b3 |-> Bit("dah" \in junk)]

\* Variant: both contacts are looked for in byte 0 only.
DecodeButtons(b) ==
    LET both  == b.b0 = 3
        left  == b.b0 = 1 \/ b.b2 > 0
        right == b.b0 = 2 \/ b.b3 > 0
    IN [p \in Paddles |-> both \/ IF p = "dit" THEN left ELSE right /\ ~left]

\* cbInterrupt's chain: both, else the left one, else the right one, else none.
Decode(b) ==
    LET both  == b.b0 = 3 \/ (b.b2 > 0 /\ b.b3 > 0)
        left  == b.b0 = 1 \/ b.b2 > 0
        right == b.b0 = 2 \/ b.b3 > 0
    IN [p \in Paddles |-> both \/ IF p = "dit" THEN left ELSE right /\ ~left]

Listening == process = "on" /\ task = "loop" /\ transfer = "pending"

\* What differs from m_dit and m_dah is passed on, to the keyer and the output.
SendDitDah == reported' = Decode(Buffer)

\* Variant: a report without a button is taken for no report.
CbInterruptPresses ==
    /\ Listening /\ news
    /\ reported' = IF Decode(Buffer) = Up THEN reported ELSE Decode(Buffer)
    /\ news' = FALSE /\ missed' = (junk # {})
    /\ transfer' \in {"pending", "ended"}
    /\ UNCHANGED <<process, device, connected, task, claimed, junk, plugged, contact,
                   faulted, switch, screen, gui>>

\* A transfer completes and is submitted again, which may fail unnoticed.
CbInterrupt ==
    /\ Listening /\ news
    /\ SendDitDah
    /\ news' = FALSE /\ missed' = (junk # {})
    /\ transfer' \in {"pending", "ended"}
    /\ UNCHANGED <<process, device, connected, task, claimed, junk, plugged, contact,
                   faulted, switch, screen, gui>>

\* The transfer ends otherwise: cancelled, stalled, overflown or with its device
\* gone it is freed; timed out it is submitted again, which may fail unnoticed.
\* m_connected stays, and what the device had to tell nobody takes.
CbInterruptFails ==
    /\ process = "on" /\ task = "loop" /\ transfer \in {"pending", "gone"}
    /\ transfer' = "ended"
    /\ news' = FALSE /\ missed' = (missed \/ news)
    /\ UNCHANGED <<process, device, connected, task, claimed, junk, reported, plugged,
                   contact, faulted, switch, screen, gui>>

\* Variant: libusb_handle_events is left only by a report.
TaskEndsOnReport ==
    /\ process = "on" /\ task = "loop" /\ ~connected /\ news
    /\ task' = "ended" /\ transfer' = "none"
    /\ news' = FALSE /\ missed' = TRUE
    /\ UNCHANGED <<process, device, connected, claimed, junk, reported, plugged,
                   contact, faulted, switch, screen, gui>>

\* libusb_handle_events returns, at the latest by a timeout, and the loop ends.
TaskEnds ==
    /\ process = "on" /\ task = "loop" /\ ~connected
    /\ task' = "ended" /\ transfer' = "none"
    /\ news' = FALSE /\ missed' = (missed \/ news)
    /\ UNCHANGED <<process, device, connected, claimed, junk, reported, plugged,
                   contact, faulted, switch, screen, gui>>

----------------------------------------------------------------------------
(* The paddle: it reports changes only, to whoever polls it                *)

Squeeze(p) ==
    /\ contact' = [contact EXCEPT ![p] = ~@]
    /\ news' = Listening
    /\ missed' = (missed \/ ~Listening)
    /\ UNCHANGED <<process, device, connected, thread, reported, plugged,
                   faulted, switch, screen, gui>>

\* A device that is pulled takes its transfer with it, also if it comes back.
Plug(d) ==
    /\ plugged' = IF d \in plugged THEN plugged \ {d} ELSE plugged \cup {d}
    /\ transfer' = IF d = claimed /\ transfer = "pending" THEN "gone" ELSE transfer
    /\ news' = (news /\ d # claimed) /\ missed' = (missed \/ (news /\ d = claimed))
    /\ UNCHANGED <<process, device, connected, task, claimed, junk, reported, contact,
                   faulted, switch, screen, gui>>

TaskStep == TaskClaims \/ TaskFails \/ CbInterrupt \/ CbInterruptFails \/ TaskEnds

GuiStep == Slept \/ Join \/ Detected

Next ==
    \/ InitConnector \/ Connect \/ Disconnect \/ Detect \/ SetEnabledKeyboard \/ Quit
    \/ GuiStep
    \/ TaskStep
    \/ \E d \in Devices : Plug(d)
    \/ \E p \in Paddles : Squeeze(p)

\* The reading thread handles a report and looks at m_connected after each one,
\* and the GUI thread finishes what it began.
Fairness ==
    /\ WF_vars(TaskClaims \/ TaskFails) /\ WF_vars(CbInterrupt) /\ WF_vars(TaskEnds)
    /\ WF_vars(GuiStep)

Spec == Init /\ [][Next]_vars
FairSpec == Spec /\ Fairness

----------------------------------------------------------------------------
\* The keyer has a wrong idea of a paddle only while its report is on its way,
\* when it changed while no transfer was there to take the report (the device
\* unplugged, disconnected, not started, its transfer failed), or when a report
\* that ends before byte 2 was read with what the buffer held before it.
PaddleInStep == process = "on" /\ ~news /\ ~missed => reported = contact

\* What a paddle does while a transfer is there to take it reaches the keyer,
\* unless the transfer fails or the device is disconnected before.
PaddleIsReported ==
    \A p \in Paddles :
        (Listening /\ news /\ junk = {} /\ contact[p] # reported[p])
            ~> (contact[p] = reported[p] \/ ~connected \/ ~Listening)

\* "Re-submit the transfer to keep listening" (UsbDevice.cpp:322): a device that
\* is connected and plugged in is listened to.  It is not: a submission that
\* fails is not noticed and any other status of a transfer frees the only one.
KeepsListening ==
    process = "on" /\ task = "loop" /\ connected /\ claimed \in plugged
        => transfer = "pending"

\* "Called when the dit paddle is pressed/released" (README.md:205): the keyer
\* holds no paddle down that is up.  It does: nothing is released when a device is
\* disconnected, unplugged or fails while its paddle is down.
ReleaseIsCalled ==
    process = "on" /\ ~news => \A p \in Paddles : reported[p] => contact[p]

\* A device may be disconnected and connected any number of times; only after a
\* claim that failed or came late does the program die of it.
Reconnects == process = "dead" => faulted

\* Keys that the output injects are not read back by the listener, or a claim
\* has failed or come late.
NoEcho == process = "on" /\ connected /\ keyboard /\ listener => faulted

\* A device that was connected in time is in the file for the next start.
DeviceIsStored == process = "on" /\ connected /\ gui # "sleep" => config # None \/ faulted

\* Disconnect returns, with a device that is silent or gone.
DisconnectReturns == (gui = "join") ~> (gui = "idle")

----------------------------------------------------------------------------
(* Why they hold                                                           *)

\* A thread that is joinable is connected, or its connect or disconnect is still
\* going on: what the GUI may start again has nothing to join.
ThreadInv ==
    /\ process = "off" => task = "none" /\ gui = "idle"
    /\ gui \in {"idle", "detect"} /\ task # "none" /\ ~connected => faulted

\* Whatever there is of a device, it is in the file; only a connect that finds
\* none there switches the listener on.
StoredInv ==
    /\ connected \/ keyboard \/ zadig \/ detected # None => config # None \/ faulted
    /\ gui = "sleep" => detected # None
    /\ keyboard /\ listener => faulted

\* The module's invariant, which is inductive.
Inv == TypeOK /\ Reconnects /\ NoEcho /\ DeviceIsStored /\ ThreadInv /\ StoredInv
=============================================================================
