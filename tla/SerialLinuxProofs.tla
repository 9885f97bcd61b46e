--------------------------- MODULE SerialLinuxProofs ---------------------------
(***************************************************************************)
(* Proofs about SerialLinux, for every number of elements and descriptors  *)
(* and whichever ports output and proxy are given.                         *)
(***************************************************************************)
EXTENDS SerialLinux, TLAPS

\* A line that is lowered falls, and only that one.
LEMMA LowerEffect ==
    ASSUME TypeOK, NEW q \in Ports, Lower(q)
    PROVE  /\ dtr' \in [Ports -> BOOLEAN] /\ left' = left \ {q}
           /\ ~dtr'[q]
           /\ \A p \in Ports \ {q} : dtr'[p] = dtr[p]
BY DEF TypeOK, Lower

\* An ioctl sets the line of the port that the descriptor is open on, if it is.
LEMMA SetDtrEffect ==
    ASSUME TypeOK, NEW f \in 0 .. MaxFd, NEW on \in BOOLEAN, SetDtr(f, on)
    PROVE  /\ dtr' \in [Ports -> BOOLEAN] /\ left' \subseteq left
           /\ \A p \in Ports : p # PortOf(f) =>
                dtr'[p] = dtr[p] /\ (p \in left => p \in left')
           /\ \A p \in Ports : p = PortOf(f) =>
                (dtr'[p] <=> on) /\ (p \in left' => on)
<1> USE SerialLinuxAssumption DEF TypeOK
<1>1. CASE PortOf(f) = None
  BY <1>1 DEF SetDtr, line
<1>2. CASE PortOf(f) # None
  <2>1. PortOf(f) = port[f] /\ port[f] \in Ports
    BY <1>2 DEF PortOf
  <2>2. CASE on = TRUE
    <3>1. dtr' = [dtr EXCEPT ![port[f]] = TRUE] /\ left' = left
      BY <1>2, <2>2 DEF SetDtr
    <3> QED BY <2>1, <2>2, <3>1
  <2>3. CASE on = FALSE
    <3>1. dtr' = [dtr EXCEPT ![port[f]] = FALSE] /\ left' = left \ {port[f]}
      BY <1>2, <2>3 DEF SetDtr, Lower
    <3> QED BY <2>1, <2>3, <3>1
  <2> QED BY <2>2, <2>3
<1> QED BY <1>1, <1>2

\* What SerialComm::stop does before its close.
LEMMA CommStopEffect ==
    ASSUME TypeOK, NEW c \in Comms, CommStop(c)
    PROVE  /\ dtr' \in [Ports -> BOOLEAN] /\ left' \subseteq left /\ held' \subseteq held
           /\ gui' = Idle \/ (running[c] /\ gui' = [to |-> "close", c |-> c])
           /\ \A p \in Ports : \/ ~dtr'[p] /\ p \notin left'
                               \/ /\ dtr'[p] = dtr[p]
                                  /\ p \in left => p \in left'
                                  /\ p \in held => p \in held'
<1>1. CASE hSerial[c] # 0 /\ running[c]
  <2>1. SetDtr(hSerial[c], FALSE) /\ hSerial[c] \in 0 .. MaxFd
    BY <1>1 DEF CommStop, TypeOK
  <2>2. held' = held \ {PortOf(hSerial[c])} /\ gui' = [to |-> "close", c |-> c]
    BY <1>1 DEF CommStop
  <2> QED BY <1>1, <2>1, <2>2, SetDtrEffect
<1>2. CASE ~(hSerial[c] # 0 /\ running[c])
  <2>1. gui' = Idle /\ UNCHANGED <<line, held>>
    BY <1>2 DEF CommStop
  <2> QED BY <2>1 DEF TypeOK, line
<1> QED BY <1>1, <1>2

\* What the user may select is a port.
LEMMA SelectableIsPort == ASSUME NEW c \in Comms PROVE Selectable(c) \subseteq Ports
BY DEF Selectable, Ports

\* Every variable keeps its type along every step.
LEMMA TypeStep ==
    TypeOK /\ OutputNeverLeaks /\ OwnerInv /\ GuiInv /\ [Next]_vars => TypeOK'
<1> SUFFICES ASSUME TypeOK, OutputNeverLeaks, OwnerInv, GuiInv, [Next]_vars PROVE TypeOK'
    OBVIOUS
<1>0. running["out"] => hSerial["out"] \in Fds /\ port[hSerial["out"]] \in Ports
  BY SerialLinuxAssumption DEF TypeOK, OutputNeverLeaks, OwnerInv, Comms
<1>1. ASSUME NEW c \in Comms, NEW p \in Ports, Start(c, p) PROVE TypeOK'
  <2>1. PICK f \in Free : /\ port' = [port EXCEPT ![f] = p]
                          /\ owner' = [owner EXCEPT ![f] = c]
                          /\ hSerial' = [hSerial EXCEPT ![c] = f]
    BY <1>1 DEF Start
  <2>2. /\ port' \in [Fds -> Ports \cup {None}] /\ owner' \in [Fds -> Comms \cup {None}]
        /\ hSerial' \in [Comms -> 0 .. MaxFd]
    BY <2>1, SerialLinuxAssumption DEF TypeOK, Free, Fds
  <2>3. dtr' \in [Ports -> BOOLEAN] /\ left' \subseteq Ports
    BY <1>1, LowerEffect DEF TypeOK, Start
  <2>4. running' \in [Comms -> BOOLEAN] /\ held' \subseteq Ports
    BY <1>1 DEF TypeOK, Start
  <2> QED BY <1>1, <2>2, <2>3, <2>4 DEF TypeOK, Start, proxy
<1>2. ASSUME NEW c \in Comms, NEW p \in Ports, StartFails(c, p) PROVE TypeOK'
  <2>1. hSerial' \in [Comms -> 0 .. MaxFd]
    BY <1>2, SerialLinuxAssumption DEF TypeOK, StartFails
  <2>2. dtr' \in [Ports -> BOOLEAN] /\ left' \subseteq Ports
    BY <1>2, LowerEffect DEF TypeOK, StartFails, line
  <2> QED BY <1>2, <2>1, <2>2 DEF TypeOK, StartFails, proxy, files
<1>3. ASSUME NEW c \in Comms, CommStop(c)
      PROVE  /\ dtr' \in [Ports -> BOOLEAN] /\ left' \subseteq Ports /\ held' \subseteq Ports
             /\ gui' \in [to : {"idle", "close", "tell", "join"}, c : Comms]
  BY <1>3, CommStopEffect DEF TypeOK, Idle, Comms
<1>4. CASE StopOut
  BY <1>3, <1>4 DEF TypeOK, StopOut, comm, proxy, files, Comms
<1>5. ASSUME NEW c \in Comms, Close(c) PROVE TypeOK'
  <2>1. CloseFd(hSerial[c]) /\ UNCHANGED <<dsr, pulse, proxy>>
    BY <1>5 DEF Close
  <2>2. hSerial[c] \in Fds => port[hSerial[c]] \in Ports \cup {None}
    BY DEF TypeOK
  <2>3. dtr' \in [Ports -> BOOLEAN] /\ left' \subseteq Ports
    <3>1. CASE Lower(port[hSerial[c]])
      BY <3>1 DEF TypeOK, Lower
    <3>2. CASE UNCHANGED dtr /\ dtr[port[hSerial[c]]]
               /\ left' = left \cup {port[hSerial[c]]}
               /\ \E g \in Fds \ {hSerial[c]} : port[g] = port[hSerial[c]]
      <4>1. hSerial[c] \in Fds /\ port[hSerial[c]] \in Ports
        BY <1>0, <1>5 DEF Close, GuiInv
      <4> QED BY <3>2, <4>1 DEF TypeOK
    <3>3. CASE UNCHANGED <<dtr, left>>
      BY <3>3 DEF TypeOK
    <3> QED BY <2>1, <3>1, <3>2, <3>3 DEF CloseFd
  <2>4. gui' \in [to : {"idle", "close", "tell", "join"}, c : Comms]
    BY <1>5 DEF Close, Idle, Comms
  <2>5. hSerial' \in [Comms -> 0 .. MaxFd] /\ running' \in [Comms -> BOOLEAN]
    BY <1>5, SerialLinuxAssumption DEF TypeOK, Close
  <2>6. /\ port' \in [Fds -> Ports \cup {None}] /\ owner' \in [Fds -> Comms \cup {None}]
        /\ held' \subseteq Ports
    BY <2>1 DEF TypeOK, CloseFd
  <2> QED BY <2>1, <2>3, <2>4, <2>5, <2>6 DEF TypeOK, proxy
<1>6. CASE StopProxy
  <2>1. gui' \in [to : {"idle", "close", "tell", "join"}, c : Comms]
    BY <1>6 DEF StopProxy, Comms
  <2>2. running' \in [Comms -> BOOLEAN]
    BY <1>6 DEF TypeOK, StopProxy
  <2> QED BY <1>6, <2>1, <2>2 DEF TypeOK, StopProxy, proxy, files, line
<1>7. CASE TellMonitor
  <2>1. gui' \in [to : {"idle", "close", "tell", "join"}, c : Comms]
    BY <1>7 DEF TellMonitor, Comms
  <2> QED BY <1>7, <2>1 DEF TypeOK, TellMonitor, comm, files, line
<1>8. CASE JoinMonitor
  BY <1>3, <1>8 DEF TypeOK, JoinMonitor, comm, files, Comms
<1>9. ASSUME NEW e \in Elements, RunCW(e) PROVE TypeOK'
  BY <1>9, SerialLinuxAssumption DEF TypeOK, RunCW, comm, proxy, files, line, Fds, Comms
<1>10. ASSUME NEW e \in Elements, RaiseDtr(e) \/ DropDtr(e)
       PROVE  dtr' \in [Ports -> BOOLEAN] /\ left' \subseteq Ports
  <2>1. pulse[e].fd \in 0 .. MaxFd
    BY SerialLinuxAssumption DEF TypeOK, NoPulse, Fds
  <2> QED BY <1>10, <2>1, SetDtrEffect DEF RaiseDtr, DropDtr, TypeOK
<1>11. ASSUME NEW e \in Elements, RaiseDtr(e) PROVE TypeOK'
  <2>1. pulse[e] \in [at : {"born", "sleep"}, fd : Fds, on : Ports \cup {None}]
    BY <1>11 DEF TypeOK, RaiseDtr, NoPulse
  <2>2. pulse' \in [Elements -> {NoPulse} \cup
                     [at : {"born", "sleep"}, fd : Fds, on : Ports \cup {None}]]
    BY <1>11, <2>1 DEF TypeOK, RaiseDtr, PortOf
  <2> QED BY <1>10, <1>11, <2>2 DEF TypeOK, RaiseDtr, comm, proxy, files
<1>12. ASSUME NEW e \in Elements, DropDtr(e) PROVE TypeOK'
  BY <1>10, <1>12 DEF TypeOK, DropDtr, comm, proxy, files
<1>13. CASE ToggleDsr
  BY <1>13 DEF TypeOK, ToggleDsr, comm, proxy, files, line
<1>14. CASE MonitorBreaks \/ MonitorReads
  BY <1>14 DEF TypeOK, MonitorBreaks, MonitorReads, Monitor, Loop, Now, comm, files, line
<1>15. CASE OnStraight
  <2>1. dtr' \in [Ports -> BOOLEAN] /\ left' \subseteq Ports
    BY <1>15, SetDtrEffect DEF TypeOK, OnStraight, line, Comms
  <2>2. held' \subseteq Ports
    BY <1>0, <1>15 DEF TypeOK, OnStraight, PortOf
  <2> QED BY <1>15, <2>1, <2>2 DEF TypeOK, OnStraight, Monitor, Loop, comm, files
<1>16. CASE UNCHANGED vars
  BY <1>16 DEF TypeOK, vars, comm, proxy, files, line
<1> QED
  BY <1>1, <1>2, <1>4, <1>5, <1>6, <1>7, <1>8, <1>9, <1>11, <1>12, <1>13, <1>14,
     <1>15, <1>16, SelectableIsPort DEF Next, StopStep, Pulse, MonitorStep

\* Starting and closing keep the descriptors that the output opened in its hands,
\* and a close leaves a line up only for the proxy's sake.
LEMMA LeakStep ==
    ASSUME TypeOK, OutputNeverLeaks, LeftByTheProxy, GuiInv, OwnerInv, [Next]_vars
    PROVE  OutputNeverLeaks' /\ LeftByTheProxy' /\ GuiInv' /\ OwnerInv'
<1> DEFINE Kept == OutputNeverLeaks' /\ LeftByTheProxy' /\ GuiInv' /\ OwnerInv'
<1> SUFFICES Kept
    OBVIOUS
<1> USE SerialLinuxAssumption
<1>1. ASSUME NEW c \in Comms, NEW p \in Ports, Start(c, p) PROVE Kept
  <2>1. PICK f \in Free : /\ port' = [port EXCEPT ![f] = p]
                          /\ owner' = [owner EXCEPT ![f] = c]
                          /\ hSerial' = [hSerial EXCEPT ![c] = f]
    BY <1>1 DEF Start
  <2>2. f \in Fds /\ port[f] = None /\ owner[f] = None
    BY DEF Free, OwnerInv
  <2>3. /\ running' = [running EXCEPT ![c] = TRUE]
        /\ gui' = gui /\ gui = Idle /\ ~running[c]
    BY <1>1 DEF Start
  <2>4. OutputNeverLeaks'
    <3>1. CASE c = "out"
      <4>1. \A g \in Fds : owner[g] # "out"
        BY <2>3, <3>1 DEF OutputNeverLeaks
      <4> QED BY <2>1, <2>2, <2>3, <3>1, <4>1 DEF OutputNeverLeaks, TypeOK, Comms
    <3>2. CASE c = "in"
      BY <2>1, <2>2, <2>3, <3>2 DEF OutputNeverLeaks, TypeOK, Comms
    <3> QED BY <3>1, <3>2 DEF Comms
  <2>5. OwnerInv'
    BY <2>1, <2>2 DEF OwnerInv, TypeOK
  <2>6. LeftByTheProxy'
    <3>1. left' = left \ {p} /\ \A q \in Ports \ {p} : dtr'[q] = dtr[q]
      BY <1>1, LowerEffect DEF Start
    <3>2. \A g \in Fds : port[g] # None => port'[g] = port[g] /\ owner'[g] = owner[g]
      BY <2>1, <2>2 DEF TypeOK
    <3> QED BY <3>1, <3>2 DEF LeftByTheProxy, TypeOK
  <2> QED BY <2>3, <2>4, <2>5, <2>6 DEF GuiInv, Idle
<1>2. ASSUME NEW c \in Comms, NEW p \in Ports, StartFails(c, p) PROVE Kept
  <2>1. /\ UNCHANGED <<files, running, gui>> /\ (c = "out" => ~running["out"])
        /\ hSerial' = [hSerial EXCEPT ![c] = 0]
    BY <1>2 DEF StartFails
  <2>2. OutputNeverLeaks' /\ OwnerInv' /\ GuiInv'
    BY <2>1 DEF OutputNeverLeaks, OwnerInv, GuiInv, files, TypeOK, Comms
  <2>3. left' \subseteq left /\ \A q \in left' : dtr'[q] = dtr[q]
    BY <1>2, LowerEffect DEF StartFails, line, TypeOK
  <2> QED BY <2>1, <2>2, <2>3 DEF LeftByTheProxy, files
<1>3. ASSUME NEW c \in Comms, CommStop(c), UNCHANGED <<files, comm>>,
             c = "out" \/ ~running[c]
      PROVE  Kept
  <2>1. LeftByTheProxy'
    <3>1. left' \subseteq left /\ \A q \in left' : dtr'[q] = dtr[q]
      BY <1>3, CommStopEffect DEF TypeOK
    <3> QED BY <1>3, <3>1 DEF LeftByTheProxy, files
  <2>2. GuiInv'
    BY <1>3, CommStopEffect DEF GuiInv, Idle, comm
  <2> QED BY <1>3, <2>1, <2>2 DEF OutputNeverLeaks, OwnerInv, files, comm
<1>4. ASSUME NEW c \in Comms, Close(c) PROVE Kept
  <2> DEFINE f == hSerial["out"]
  <2>1. c = "out" /\ running["out"] /\ f \in Fds /\ owner[f] = "out"
    BY <1>4 DEF Close, GuiInv, OutputNeverLeaks
  <2>2. \A g \in Fds \ {f} : owner[g] # "out"
    BY DEF OutputNeverLeaks
  <2>3. /\ port' = [port EXCEPT ![f] = None] /\ owner' = [owner EXCEPT ![f] = None]
        /\ hSerial' = [hSerial EXCEPT !["out"] = 0]
        /\ running' = [running EXCEPT !["out"] = FALSE]
        /\ gui' = Idle
    BY <1>4, <2>1 DEF Close, CloseFd
  <2>4. OutputNeverLeaks' /\ OwnerInv' /\ GuiInv'
    BY <2>1, <2>2, <2>3 DEF OutputNeverLeaks, OwnerInv, GuiInv, TypeOK, Idle, Comms
  <2>5. \A g \in Fds \ {f} : port'[g] = port[g] /\ owner'[g] = owner[g]
    BY <2>3 DEF TypeOK
  <2>6. port[f] \in Ports
    BY <2>1 DEF OwnerInv, TypeOK
  <2>7. CASE \E g \in Fds \ {f} : port[g] = port[f]
    <3>1. PICK g \in Fds \ {f} : port[g] = port[f]
      BY <2>7
    <3>2. owner[g] = "in"
      BY <2>2, <2>6, <3>1 DEF OwnerInv, TypeOK, Comms
    <3>3. dtr' = dtr /\ left' \subseteq left \cup {port[f]} /\ (port[f] \in left' \ left => dtr[port[f]])
      BY <1>4, <2>1, <2>7 DEF Close, CloseFd
    <3>4. \A q \in left : \E h \in Fds \ {f} : port[h] = q /\ owner[h] = "in"
      BY <2>1 DEF LeftByTheProxy
    <3>5. \A q \in left' : dtr'[q] /\ \E h \in Fds \ {f} : port[h] = q /\ owner[h] = "in"
      BY <3>1, <3>2, <3>3, <3>4 DEF LeftByTheProxy
    <3> QED BY <2>4, <2>5, <3>5 DEF LeftByTheProxy
  <2>8. CASE ~ \E g \in Fds \ {f} : port[g] = port[f]
    <3>1. Lower(port[f])
      BY <1>4, <2>1, <2>8 DEF Close, CloseFd
    <3>2. left' = left \ {port[f]} /\ \A q \in Ports \ {port[f]} : dtr'[q] = dtr[q]
      BY <2>6, <3>1, LowerEffect
    <3>3. \A q \in left : \E h \in Fds \ {f} : port[h] = q /\ owner[h] = "in"
      BY <2>1 DEF LeftByTheProxy
    <3>4. \A q \in left' : dtr'[q] /\ \E h \in Fds \ {f} : port[h] = q /\ owner[h] = "in"
      BY <3>2, <3>3 DEF LeftByTheProxy, TypeOK
    <3> QED BY <2>4, <2>5, <3>4 DEF LeftByTheProxy
  <2> QED BY <2>7, <2>8
<1>5. CASE StopProxy
  BY <1>5 DEF StopProxy, OutputNeverLeaks, LeftByTheProxy, GuiInv, OwnerInv, TypeOK,
     files, line, Comms
<1>6. CASE TellMonitor
  BY <1>6 DEF TellMonitor, OutputNeverLeaks, LeftByTheProxy, GuiInv, OwnerInv,
     files, line, comm
<1>7. ASSUME UNCHANGED <<files, comm, gui>>, left' \subseteq left,
             \A q \in left' : dtr[q] => dtr'[q]
      PROVE  Kept
  BY <1>7 DEF OutputNeverLeaks, LeftByTheProxy, GuiInv, OwnerInv, files, comm
<1>8. ASSUME NEW f \in 0 .. MaxFd, NEW on \in BOOLEAN, SetDtr(f, on),
             UNCHANGED <<files, comm, gui>>
      PROVE  Kept
  <2>1. left' \subseteq left /\ \A q \in left' : dtr[q] => dtr'[q]
    BY <1>8, SetDtrEffect DEF TypeOK
  <2> QED BY <1>7, <1>8, <2>1
<1>9. ASSUME NEW e \in Elements, Pulse(e) PROVE Kept
  <2>1. pulse[e].fd \in 0 .. MaxFd
    BY DEF TypeOK, NoPulse, Fds
  <2> QED BY <1>8, <1>9, <2>1 DEF Pulse, RaiseDtr, DropDtr
<1>10. CASE OnStraight
  <2>1. CASE running["out"] /\ hSerial["out"] # 0
    <3>1. /\ SetDtr(hSerial["out"], lastDsr = "on")
          /\ UNCHANGED <<files, comm, gui>>
      BY <1>10, <2>1 DEF OnStraight
    <3>2. hSerial["out"] \in 0 .. MaxFd /\ (lastDsr = "on") \in BOOLEAN
      BY DEF TypeOK, Comms
    <3> QED BY <1>8, <3>1, <3>2
  <2>2. CASE ~(running["out"] /\ hSerial["out"] # 0)
    BY <1>7, <1>10, <2>2 DEF OnStraight, line
  <2> QED BY <2>1, <2>2
<1>11. CASE UNCHANGED <<files, line, comm, gui>>
  BY <1>7, <1>11 DEF line
<1> HIDE DEF Kept
<1> QED
  BY <1>1, <1>2, <1>3, <1>4, <1>5, <1>6, <1>9, <1>10, <1>11, SelectableIsPort
     DEF Next, StopOut, StopStep, JoinMonitor, RunCW, ToggleDsr, MonitorStep,
     MonitorBreaks, MonitorReads, GuiInv, vars, Comms

\* A line that is up keeps a reason to be, on a descriptor of its own port.
LEMMA LineStep ==
    ASSUME TypeOK, OutputNeverLeaks, GuiInv, OwnerInv, LineInv, [Next]_vars
    PROVE  LineInv'
<1> USE SerialLinuxAssumption
<1> DEFINE Up(p) == dtr'[p] => p \in held' \cup left' \/ Owed(p, Fds)' # {}
<1>0. /\ \A e \in Elements : pulse[e].at # "sleep" => pulse[e].on = None
      /\ \A p \in Ports : dtr[p] => p \in held \cup left \/ Owed(p, Fds) # {}
  BY DEF LineInv
<1>1. ASSUME NEW c \in Comms, NEW q \in Ports, Start(c, q) PROVE LineInv'
  <2>1. PICK f \in Free : port' = [port EXCEPT ![f] = q]
    BY <1>1 DEF Start
  <2>2. \A g \in Fds : port[g] # None => port'[g] = port[g]
    BY <2>1 DEF Free, TypeOK
  <2>3. Lower(q) /\ held' = held \ {q} /\ pulse' = pulse
    BY <1>1 DEF Start
  <2>4. ASSUME NEW p \in Ports PROVE Up(p)
    <3>1. CASE p = q
      BY <2>3, <3>1, LowerEffect
    <3>2. CASE p # q
      <4>1. dtr'[p] = dtr[p] /\ (p \in left => p \in left') /\ (p \in held => p \in held')
        BY <2>3, <3>2, LowerEffect
      <4>2. Owed(p, Fds) \subseteq Owed(p, Fds)'
        BY <2>2, <2>3 DEF Owed
      <4> QED BY <1>0, <4>1, <4>2
    <3> QED BY <3>1, <3>2
  <2> QED BY <1>0, <2>3, <2>4 DEF LineInv
<1>2. ASSUME UNCHANGED <<port, pulse>>,
             \A p \in Ports : \/ ~dtr'[p]
                              \/ /\ dtr'[p] = dtr[p]
                                 /\ p \in left => p \in left'
                                 /\ p \in held => p \in held'
                              \/ p \in held'
      PROVE  LineInv'
  <2>1. \A p \in Ports : Owed(p, Fds)' = Owed(p, Fds)
    BY <1>2 DEF Owed
  <2>2. \A p \in Ports : Up(p)
    BY <1>0, <1>2, <2>1
  <2> QED BY <1>0, <1>2, <2>2 DEF LineInv
<1>3. ASSUME NEW c \in Comms, NEW q \in Ports, StartFails(c, q) PROVE LineInv'
  <2>1. UNCHANGED <<port, pulse, held>> /\ (UNCHANGED line \/ Lower(q))
    BY <1>3 DEF StartFails, files
  <2>2. CASE UNCHANGED line
    BY <1>2, <2>1, <2>2 DEF line
  <2>3. CASE Lower(q)
    BY <1>2, <2>1, <2>3, LowerEffect
  <2> QED BY <2>1, <2>2, <2>3
<1>4. ASSUME NEW c \in Comms, CommStop(c), UNCHANGED <<files, pulse>> PROVE LineInv'
  BY <1>2, <1>4, CommStopEffect DEF files
<1>5. ASSUME NEW c \in Comms, Close(c) PROVE LineInv'
  <2>0. PICK f, q : f = hSerial["out"] /\ q = port[f]
    OBVIOUS
  <2>1. c = "out" /\ f \in Fds /\ q \in Ports /\ q = port[f]
    BY <1>5, <2>0 DEF Close, GuiInv, OutputNeverLeaks, OwnerInv, TypeOK, Comms
  <2>2. CloseFd(f) /\ pulse' = pulse
    BY <1>5, <2>0, <2>1 DEF Close
  <2>3. port' = [port EXCEPT ![f] = None] /\ held' = held \ {q}
    BY <2>1, <2>2 DEF CloseFd
  <2>4. ASSUME NEW p \in Ports PROVE Owed(p, Fds)' = Owed(p, Fds \ {f})
    BY <2>1, <2>2, <2>3 DEF Owed, TypeOK
  <2>5. ASSUME NEW p \in Ports, p # q PROVE Up(p)
    <3>1. Owed(p, Fds \ {f}) = Owed(p, Fds)
      BY <2>1, <2>5 DEF Owed
    <3>2. dtr'[p] = dtr[p] /\ (p \in left => p \in left') /\ (p \in held => p \in held')
      BY <2>1, <2>2, <2>3, <2>5, LowerEffect DEF CloseFd
    <3> QED BY <1>0, <2>4, <3>1, <3>2
  <2>6. Up(q)
    <3>1. CASE \E g \in Fds \ {f} : port[g] = q
      <4>1. /\ left' = IF dtr[q] /\ Owed(q, Fds \ {f}) = {} THEN left \cup {q} ELSE left
            /\ dtr' = dtr
        BY <2>1, <2>2, <3>1 DEF CloseFd
      <4>2. Owed(q, Fds)' = Owed(q, Fds \ {f})
        BY <2>1, <2>4
      <4> QED BY <4>1, <4>2
    <3>2. CASE ~ \E g \in Fds \ {f} : port[g] = q
      BY <2>1, <2>2, <3>2, LowerEffect DEF CloseFd
    <3> QED BY <3>1, <3>2
  <2> HIDE DEF Up
  <2>7. \A p \in Ports : Up(p)
    BY <2>5, <2>6
  <2> USE DEF Up
  <2> QED BY <1>0, <2>2, <2>7 DEF LineInv
<1>6. ASSUME NEW e \in Elements, RunCW(e) PROVE LineInv'
  <2>1. /\ UNCHANGED <<files, line, held>> /\ pulse[e].at = "none"
        /\ pulse' = [pulse EXCEPT ![e] = [at |-> "born", fd |-> hSerial["out"], on |-> None]]
    BY <1>6 DEF RunCW
  <2>2. \A p \in Ports : Owed(p, Fds) \subseteq Owed(p, Fds)'
    BY <1>0, <2>1 DEF Owed, TypeOK, files
  <2>3. \A p \in Ports : Up(p)
    BY <1>0, <2>1, <2>2 DEF line
  <2> QED BY <1>0, <2>1, <2>3 DEF LineInv, TypeOK
<1>7. ASSUME NEW e \in Elements, RaiseDtr(e) PROVE LineInv'
  <2>1. /\ UNCHANGED <<files, held>> /\ pulse[e].at = "born"
        /\ pulse' = [pulse EXCEPT ![e].at = "sleep", ![e].on = PortOf(pulse[e].fd)]
        /\ SetDtr(pulse[e].fd, TRUE)
    BY <1>7 DEF RaiseDtr
  <2>2. pulse[e] \in [at : {"born", "sleep"}, fd : Fds, on : Ports \cup {None}]
    BY <2>1 DEF TypeOK, NoPulse
  <2>3. pulse'[e].at = "sleep" /\ pulse'[e].fd = pulse[e].fd /\ pulse'[e].on = PortOf(pulse[e].fd)
    BY <2>1, <2>2 DEF TypeOK
  <2>4. \A d \in Elements \ {e} : pulse'[d] = pulse[d]
    BY <2>1 DEF TypeOK
  <2>0. /\ \A r \in Ports : r # PortOf(pulse[e].fd) =>
             dtr'[r] = dtr[r] /\ (r \in left => r \in left')
        /\ PortOf(pulse[e].fd) \in Ports => dtr'[PortOf(pulse[e].fd)]
    <3>1. pulse[e].fd \in 0 .. MaxFd
      BY <2>2 DEF Fds
    <3> QED BY <2>1, <3>1, SetDtrEffect
  <2>5. ASSUME NEW p \in Ports PROVE Up(p)
    <3>1. CASE p = PortOf(pulse[e].fd)
      <4>1. e \in Owed(p, Fds)'
        BY <2>1, <2>2, <2>3, <3>1 DEF Owed, PortOf, files
      <4> QED BY <4>1
    <3>2. CASE p # PortOf(pulse[e].fd)
      <4>1. dtr'[p] = dtr[p] /\ (p \in left => p \in left')
        BY <2>0, <3>2
      <4>2. Owed(p, Fds) \subseteq Owed(p, Fds)'
        BY <1>0, <2>1, <2>4 DEF Owed, files
      <4> QED BY <1>0, <2>1, <4>1, <4>2
    <3> QED BY <3>1, <3>2
  <2> QED BY <1>0, <2>3, <2>4, <2>5 DEF LineInv
<1>8. ASSUME NEW e \in Elements, DropDtr(e) PROVE LineInv'
  <2>1. /\ UNCHANGED <<files, held>> /\ pulse' = [pulse EXCEPT ![e] = NoPulse]
        /\ SetDtr(pulse[e].fd, FALSE) /\ pulse[e].at = "sleep"
    BY <1>8 DEF DropDtr
  <2>2. pulse[e].fd \in Fds
    BY <2>1 DEF TypeOK, NoPulse
  <2>3. pulse'[e] = NoPulse /\ \A d \in Elements \ {e} : pulse'[d] = pulse[d]
    BY <2>1 DEF TypeOK
  <2>0. /\ \A r \in Ports : r # PortOf(pulse[e].fd) =>
             dtr'[r] = dtr[r] /\ (r \in left => r \in left')
        /\ PortOf(pulse[e].fd) \in Ports => ~dtr'[PortOf(pulse[e].fd)]
    <3>1. pulse[e].fd \in 0 .. MaxFd
      BY <2>2 DEF Fds
    <3> QED BY <2>1, <3>1, SetDtrEffect
  <2>4. ASSUME NEW p \in Ports PROVE Up(p)
    <3>1. CASE p = PortOf(pulse[e].fd)
      BY <2>0, <3>1
    <3>2. CASE p # PortOf(pulse[e].fd)
      <4>1. dtr'[p] = dtr[p] /\ (p \in left => p \in left')
        BY <2>0, <3>2
      <4>2. e \notin Owed(p, Fds)
        BY <2>2, <3>2 DEF Owed, PortOf
      <4>3. Owed(p, Fds) \subseteq Owed(p, Fds)'
        BY <2>1, <2>3, <4>2 DEF Owed, files
      <4> QED BY <1>0, <2>1, <4>1, <4>3
    <3> QED BY <3>1, <3>2
  <2> QED BY <1>0, <2>3, <2>4 DEF LineInv, NoPulse
<1>9. CASE OnStraight
  <2>1. UNCHANGED <<port, pulse>>
    BY <1>9 DEF OnStraight, files
  <2>2. CASE running["out"] /\ hSerial["out"] # 0
    <3> DEFINE on == lastDsr = "on"
    <3>1. /\ SetDtr(hSerial["out"], on) /\ hSerial["out"] \in 0 .. MaxFd /\ on \in BOOLEAN
          /\ held' = IF on THEN held \cup {PortOf(hSerial["out"])}
                           ELSE held \ {PortOf(hSerial["out"])}
      BY <1>9, <2>2 DEF OnStraight, TypeOK, Comms
    <3> HIDE DEF on
    <3> QED BY <1>2, <2>1, <3>1, SetDtrEffect
  <2>3. CASE ~(running["out"] /\ hSerial["out"] # 0)
    <3>1. UNCHANGED <<line, held>>
      BY <1>9, <2>3 DEF OnStraight
    <3> QED BY <1>2, <2>1, <3>1 DEF line
  <2> QED BY <2>2, <2>3
<1>10. CASE UNCHANGED <<files, line, pulse, held>>
  BY <1>2, <1>10 DEF files, line
<1> QED
  BY <1>1, <1>3, <1>4, <1>5, <1>6, <1>7, <1>8, <1>9, <1>10, SelectableIsPort
     DEF Next, StopOut, StopProxy, StopStep, TellMonitor, JoinMonitor, Pulse, ToggleDsr,
     MonitorStep, MonitorBreaks, MonitorReads, vars, Comms

\* The module's invariant: the output never loses a descriptor, also when it shares
\* a port with the proxy, and a line is left up only on a port of the proxy's.
THEOREM Invariance == Spec => []Inv
<1>1. Init => Inv
  <2> SUFFICES ASSUME Init PROVE Inv
      OBVIOUS
  <2> USE SerialLinuxAssumption DEF Init, Idle, NoPulse
  <2>1. TypeOK
    <3>1. /\ port \in [Fds -> Ports \cup {None}] /\ owner \in [Fds -> Comms \cup {None}]
          /\ dtr \in [Ports -> BOOLEAN]
          /\ running \in [Comms -> BOOLEAN]
      OBVIOUS
    <3>2. hSerial \in [Comms -> 0 .. MaxFd]
      OBVIOUS
    <3>3. pulse \in [Elements -> {NoPulse} \cup
                       [at : {"born", "sleep"}, fd : Fds, on : Ports \cup {None}]]
      OBVIOUS
    <3> QED BY <3>1, <3>2, <3>3 DEF TypeOK, Comms
  <2>2. OutputNeverLeaks /\ LeftByTheProxy /\ OwnerInv
    BY DEF OutputNeverLeaks, LeftByTheProxy, OwnerInv, Comms
  <2>3. GuiInv /\ LineInv
    BY DEF GuiInv, LineInv
  <2> QED BY <2>1, <2>2, <2>3 DEF Inv
<1>2. Inv /\ [Next]_vars => Inv'
  BY TypeStep, LeakStep, LineStep DEF Inv
<1> QED BY <1>1, <1>2, PTL DEF Spec

----------------------------------------------------------------------------
(* The refinement                                                          *)

\* What KeyedLine allows the line of port p to do in a step.
LineAllows(p) ==
    \/ UNCHANGED <<dtr[p], Causes(p)>>
    \/ ~dtr'[p] /\ Causes(p)' \subseteq Causes(p)
    \/ \E c \in Elements \cup {Straight} : dtr'[p] /\ Causes(p)' = Causes(p) \cup {c}
    \/ \E c \in Causes(p) :
         /\ Causes(p)' = Causes(p) \ {c}
         /\ dtr'[p] => dtr[p] /\ Causes(p)' # {}

\* Every step of the ports' users is one of KeyedLine for each port, or leaves
\* the line alone, unless the line is left up after it.
LEMMA PortStep ==
    ASSUME Inv, [Next]_vars, NEW p \in Ports, p \notin left'
    PROVE  LineAllows(p)
<1> USE SerialLinuxAssumption
<1>0. /\ TypeOK /\ GuiInv /\ OwnerInv /\ OutputNeverLeaks
      /\ \A e \in Elements : pulse[e].at # "sleep" => pulse[e].on = None
      /\ dtr[p] => p \in held \cup left \/ Owed(p, Fds) # {}
  BY DEF Inv, LineInv
<1>1. ASSUME pulse' = pulse,
             \/ ~dtr'[p] /\ (p \in held' => p \in held)
             \/ dtr'[p] = dtr[p] /\ (p \in held' <=> p \in held)
             \/ dtr'[p] /\ p \in held'
      PROVE  LineAllows(p)
  <2>1. CASE ~dtr'[p] /\ (p \in held' => p \in held)
    BY <1>1, <2>1 DEF LineAllows, Causes
  <2>2. CASE dtr'[p] = dtr[p] /\ (p \in held' <=> p \in held)
    BY <1>1, <2>2 DEF LineAllows, Causes
  <2>3. CASE dtr'[p] /\ p \in held'
    <3>1. Causes(p)' = Causes(p) \cup {Straight}
      BY <1>1, <2>3 DEF Causes
    <3> QED BY <2>3, <3>1 DEF LineAllows
  <2> QED BY <1>1, <2>1, <2>2, <2>3
<1>2. ASSUME NEW c \in Comms, NEW q \in Ports, Start(c, q) PROVE LineAllows(p)
  <2>1. Lower(q) /\ held' = held \ {q} /\ pulse' = pulse
    BY <1>2 DEF Start
  <2> QED BY <1>0, <1>1, <2>1, LowerEffect
<1>3. ASSUME NEW c \in Comms, NEW q \in Ports, StartFails(c, q) PROVE LineAllows(p)
  <2>1. UNCHANGED <<pulse, held>> /\ (UNCHANGED line \/ Lower(q))
    BY <1>3 DEF StartFails
  <2> QED BY <1>0, <1>1, <2>1, LowerEffect DEF line
<1>4. ASSUME NEW c \in Comms, CommStop(c), pulse' = pulse PROVE LineAllows(p)
  BY <1>0, <1>1, <1>4, CommStopEffect
<1>5. ASSUME NEW c \in Comms, Close(c) PROVE LineAllows(p)
  <2> DEFINE f == hSerial["out"]
  <2> DEFINE q == port[f]
  <2>1. c = "out" /\ f \in Fds /\ q \in Ports
    BY <1>0, <1>5 DEF Close, GuiInv, OutputNeverLeaks, OwnerInv, TypeOK, Comms
  <2>2. CloseFd(f) /\ pulse' = pulse
    BY <1>5, <2>1 DEF Close
  <2>3. held' = held \ {q}
    BY <2>2 DEF CloseFd
  <2>4. CASE p # q
    <3>1. dtr'[p] = dtr[p]
      BY <1>0, <2>1, <2>2, <2>4, LowerEffect DEF CloseFd
    <3> QED BY <1>1, <2>2, <2>3, <2>4, <3>1
  <2>5. CASE p = q /\ \E g \in Fds \ {f} : port[g] = q
    <3>1. dtr' = dtr /\ (dtr[p] => Owed(p, Fds \ {f}) # {})
      BY <2>2, <2>5 DEF CloseFd
    <3>2. CASE p \in held
      <4>1. Causes(p)' = Causes(p) \ {Straight} /\ Straight \in Causes(p)
        BY <2>2, <2>3, <2>5, <3>2 DEF Causes
      <4>2. dtr[p] => Causes(p)' # {}
        BY <2>2, <3>1 DEF Owed, Causes
      <4> QED BY <3>1, <4>1, <4>2 DEF LineAllows
    <3>3. CASE p \notin held
      BY <1>1, <2>2, <2>3, <3>1, <3>3
    <3> QED BY <3>2, <3>3
  <2>6. CASE p = q /\ ~ \E g \in Fds \ {f} : port[g] = q
    <3>1. ~dtr'[p]
      BY <1>0, <2>1, <2>2, <2>6, LowerEffect DEF CloseFd
    <3> QED BY <1>1, <2>2, <2>3, <3>1
  <2> QED BY <2>4, <2>5, <2>6
<1>6. ASSUME NEW e \in Elements, RunCW(e) PROVE LineAllows(p)
  <2>1. /\ UNCHANGED <<line, held>> /\ pulse[e].at = "none"
        /\ pulse' = [pulse EXCEPT ![e] = [at |-> "born", fd |-> hSerial["out"], on |-> None]]
    BY <1>6 DEF RunCW
  <2>2. Causes(p)' = Causes(p)
    BY <1>0, <2>1 DEF Causes, TypeOK
  <2> QED BY <2>1, <2>2 DEF LineAllows, line
<1>7. ASSUME NEW e \in Elements, RaiseDtr(e) PROVE LineAllows(p)
  <2>1. /\ UNCHANGED held /\ pulse[e].at = "born" /\ pulse[e].on = None
        /\ pulse' = [pulse EXCEPT ![e].at = "sleep", ![e].on = PortOf(pulse[e].fd)]
        /\ SetDtr(pulse[e].fd, TRUE)
    BY <1>0, <1>7 DEF RaiseDtr
  <2>2. pulse[e] \in [at : {"born", "sleep"}, fd : Fds, on : Ports \cup {None}]
    BY <1>0, <2>1 DEF TypeOK, NoPulse
  <2>3. /\ pulse'[e].on = PortOf(pulse[e].fd)
        /\ \A d \in Elements \ {e} : pulse'[d] = pulse[d]
    BY <1>0, <2>1, <2>2 DEF TypeOK
  <2>0. /\ \A r \in Ports : r # PortOf(pulse[e].fd) =>
             dtr'[r] = dtr[r] /\ (r \in left => r \in left')
        /\ PortOf(pulse[e].fd) \in Ports => dtr'[PortOf(pulse[e].fd)]
    <3>1. pulse[e].fd \in 0 .. MaxFd
      BY <2>2 DEF Fds
    <3> QED BY <1>0, <2>1, <3>1, SetDtrEffect
  <2>4. CASE PortOf(pulse[e].fd) = p
    <3>1. Causes(p)' = Causes(p) \cup {e}
      BY <2>1, <2>3, <2>4 DEF Causes
    <3>2. dtr'[p]
      BY <2>0, <2>4
    <3> QED BY <3>1, <3>2 DEF LineAllows
  <2>5. CASE PortOf(pulse[e].fd) # p
    <3>1. Causes(p)' = Causes(p)
      BY <2>1, <2>3, <2>5 DEF Causes
    <3>2. dtr'[p] = dtr[p]
      BY <2>0, <2>5
    <3> QED BY <3>1, <3>2 DEF LineAllows
  <2> QED BY <2>4, <2>5
<1>8. ASSUME NEW e \in Elements, DropDtr(e) PROVE LineAllows(p)
  <2>1. /\ UNCHANGED held /\ pulse' = [pulse EXCEPT ![e] = NoPulse]
        /\ SetDtr(pulse[e].fd, FALSE) /\ pulse[e].at = "sleep"
    BY <1>8 DEF DropDtr
  <2>2. pulse[e].fd \in Fds
    BY <1>0, <2>1 DEF TypeOK, NoPulse
  <2>3. pulse'[e].on = None /\ \A d \in Elements \ {e} : pulse'[d] = pulse[d]
    BY <1>0, <2>1 DEF TypeOK, NoPulse
  <2>0. /\ \A r \in Ports : r # PortOf(pulse[e].fd) =>
             dtr'[r] = dtr[r] /\ (r \in left => r \in left')
        /\ PortOf(pulse[e].fd) \in Ports => ~dtr'[PortOf(pulse[e].fd)]
    <3>1. pulse[e].fd \in 0 .. MaxFd
      BY <2>2 DEF Fds
    <3> QED BY <1>0, <2>1, <3>1, SetDtrEffect
  <2>4. Causes(p)' = Causes(p) \ {e}
    BY <2>1, <2>3 DEF Causes
  <2>5. CASE PortOf(pulse[e].fd) = p
    <3>1. ~dtr'[p]
      BY <2>0, <2>5
    <3> QED BY <2>4, <3>1 DEF LineAllows
  <2>6. CASE PortOf(pulse[e].fd) # p
    <3>1. dtr'[p] = dtr[p] /\ p \notin left
      BY <2>0, <2>6
    <3>2. e \notin Owed(p, Fds)
      BY <2>2, <2>6 DEF Owed, PortOf
    <3>3. dtr[p] => Causes(p)' # {}
      BY <1>0, <2>4, <3>1, <3>2 DEF Owed, Causes
    <3>4. CASE e \in Causes(p)
      BY <2>4, <3>1, <3>3, <3>4 DEF LineAllows
    <3>5. CASE e \notin Causes(p)
      BY <2>4, <3>1, <3>5 DEF LineAllows
    <3> QED BY <3>4, <3>5
  <2> QED BY <2>5, <2>6
<1>9. CASE OnStraight
  <2>1. pulse' = pulse
    BY <1>9 DEF OnStraight
  <2>2. CASE running["out"] /\ hSerial["out"] # 0
    <3> DEFINE on == lastDsr = "on"
    <3>1. /\ SetDtr(hSerial["out"], on) /\ hSerial["out"] \in 0 .. MaxFd /\ on \in BOOLEAN
          /\ held' = IF on THEN held \cup {PortOf(hSerial["out"])}
                           ELSE held \ {PortOf(hSerial["out"])}
      BY <1>0, <1>9, <2>2 DEF OnStraight, TypeOK, Comms
    <3> HIDE DEF on
    <3> QED BY <1>0, <1>1, <2>1, <3>1, SetDtrEffect
  <2>3. CASE ~(running["out"] /\ hSerial["out"] # 0)
    <3>1. UNCHANGED <<line, held>>
      BY <1>9, <2>3 DEF OnStraight
    <3> QED BY <1>1, <2>1, <3>1 DEF line
  <2> QED BY <2>2, <2>3
<1>10. CASE UNCHANGED <<line, pulse, held>>
  BY <1>1, <1>10 DEF line
<1> QED
  BY <1>2, <1>3, <1>4, <1>5, <1>6, <1>7, <1>8, <1>9, <1>10, SelectableIsPort
     DEF Next, StopOut, StopProxy, StopStep, TellMonitor, JoinMonitor, Pulse, ToggleDsr,
     MonitorStep, MonitorBreaks, MonitorReads, vars, Comms

\* Each port keeps the promise of an output as far as it is one of safety, and
\* unless a close has left its line up: for any number of overlapping elements, of
\* descriptors that are lost, closed and reused, and of ports that are shared.
THEOREM PortsRefineLine == Spec => PortsAreSafe
<1>1. Init => \A p \in Ports : Line(p)!Init
  BY SerialLinuxAssumption DEF Init, Line!Init, Causes, NoPulse
<1>2. Inv /\ [Next]_vars =>
        [\A p \in Ports :
           p \notin left' => [Line(p)!Next]_<<dtr[p], Causes(p)>>]_vars
  <2> SUFFICES ASSUME Inv, [Next]_vars, NEW p \in Ports, p \notin left'
               PROVE  [Line(p)!Next]_<<dtr[p], Causes(p)>>
      OBVIOUS
  <2>1. LineAllows(p)
    BY PortStep
  <2>2. dtr[p] \in BOOLEAN /\ dtr'[p] \in BOOLEAN
    BY TypeStep DEF Inv, TypeOK
  <2>3. Causes(p) \subseteq Elements \cup {Straight}
    BY DEF Causes
  <2>4. ASSUME NEW c \in Elements \cup {Straight}, dtr'[p],
               Causes(p)' = Causes(p) \cup {c}
        PROVE  Line(p)!Next
    BY <2>2, <2>4 DEF Line!Press, Line!Next
  <2>5. ASSUME NEW c \in Causes(p), Causes(p)' = Causes(p) \ {c},
               dtr'[p] => dtr[p] /\ Causes(p)' # {}
        PROVE  Line(p)!Next
    <3>1. Line(p)!Release(c)
      BY <2>2, <2>5 DEF Line!Release
    <3> QED BY <2>3, <3>1 DEF Line!Next
  <2> QED BY <2>1, <2>2, <2>4, <2>5 DEF LineAllows, Line!Next, Line!Cut
<1> QED BY Invariance, <1>1, <1>2, PTL DEF Spec, PortsAreSafe
=============================================================================
