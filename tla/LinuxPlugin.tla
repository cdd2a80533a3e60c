----------------------------- MODULE LinuxPlugin -----------------------------
(***************************************************************************)
(* Received bytes on Linux, from the tty to the application: the plugin of *)
(* linux/platform_serial_plugin.cc, which serves method calls and pumps    *)
(* one port every 25 ms, both on the GTK main thread; the channels; and    *)
(* the SerialPort objects of lib/, one for each port, which subscribe to   *)
(* the single event channel.                                               *)
(*                                                                         *)
(* A handler of the main thread is one step, also when it waits in poll(2):*)
(* nothing else runs on that thread meanwhile, so the step is taken when   *)
(* the wait ends.                                                          *)
(***************************************************************************)
EXTENDS Integers, Sequences, SequencesExt

CONSTANTS
    Ports,      \* port names, each with its SerialPort object
    MaxBytes,   \* bound: bytes that arrive on each port
    MaxOpens,   \* bound: open() calls
    MaxLate,    \* bound: reads given up on one port whose answers are still to come
    Together,   \* may two ports be in use at the same time?
    None        \* nullptr, null

ASSUME NoneAssumption == None \notin Ports
ASSUME BoundAssumption == {MaxBytes, MaxOpens, MaxLate} \subseteq Nat /\ Together \in BOOLEAN

VARIABLES
    phase,      \* phase[p]: how far open() or close() of p is
    handler,    \* whose subscription handles the event channel's messages
    reader,     \* reader[p]: the read in progress on p
    line,       \* line[p]: the buffer of readUntil on p
    stream,     \* stream[p]: what p's data stream and the reads in progress got since p is open
    lost,       \* lost[p]: bytes of events that reached Dart and nobody
    abandoned,  \* abandoned[p]: reads that timed out and whose answers are still to come
    missed,     \* missed[p]: bytes in the answers of such reads
    kept,       \* the event kept for the next message handler, at most one
    opens,      \* open() calls so far
    toPlugin,   \* messages to the plugin
    toDart,     \* its answers and events
    opened,     \* the ports in the manager's table
    active,     \* active_stream_port
    source,     \* active_stream_source_id, 0 for none
    sources,    \* the timers that GLib runs
    issued,     \* the last source id GLib gave out
    tty,        \* tty[p]: received bytes nobody has read
    arrived,    \* arrived[p]: bytes the device has sent
    gone        \* ports whose open descriptor is hung up

lateVars == <<abandoned, missed>>
dartVars == <<phase, handler, reader, line, stream, lost, kept, opens, lateVars>>
pluginVars == <<opened, active, source, sources, issued>>
deviceVars == <<tty, arrived, gone>>

vars == <<dartVars, toPlugin, toDart, pluginVars, deviceVars>>

Phases == {"closed", "opening", "open", "cancelling", "closing"}

(* read(n) is one call; readUntil repeats one-byte calls with 10 ms pauses.*)
Readers == {"none", "read", "until", "pause"}

Bytes == 1 .. MaxBytes

Requests == [kind : {"open", "listen", "cancel", "close", "read", "readByte"}, port : Ports]

Messages ==
         [kind : {"opened", "openFailed", "listening", "cancelled", "closed", "readFailed",
                  "listenFailed", "error"}, port : Ports]
    \cup [kind : {"bytes", "event"}, port : Ports, data : Seq(Bytes)]

Init ==
    /\ phase = [p \in Ports |-> "closed"]
    /\ handler = None
    /\ reader = [p \in Ports |-> "none"]
    /\ line = [p \in Ports |-> <<>>]
    /\ stream = [p \in Ports |-> <<>>]
    /\ lost = [p \in Ports |-> {}]
    /\ abandoned = [p \in Ports |-> 0]
    /\ missed = [p \in Ports |-> {}]
    /\ kept = <<>>
    /\ opens = 0
    /\ toPlugin = <<>>
    /\ toDart = <<>>
    /\ opened = {}
    /\ active = None
    /\ source = 0
    /\ sources = {}
    /\ issued = 0
    /\ tty = [p \in Ports |-> <<>>]
    /\ arrived = [p \in Ports |-> 0]
    /\ gone = {}

Send(kind, p) == toPlugin' = Append(toPlugin, [kind |-> kind, port |-> p])

Become(p, s) == phase' = [phase EXCEPT ![p] = s]

-----------------------------------------------------------------------------
(* The application, through SerialPort.                                    *)
Open(p) ==
    /\ phase[p] = "closed"
    /\ Together \/ \A q \in Ports : phase[q] = "closed"
    /\ opens < MaxOpens
    /\ opens' = opens + 1
    /\ Become(p, "opening")
    /\ Send("open", p)
    /\ UNCHANGED <<handler, reader, line, stream, lost, kept, lateVars, toDart, pluginVars,
                   deviceVars>>

(* close() cancels the subscription before it closes the port: the event   *)
(* channel stops having a message handler, and the plugin is told.         *)
Close(p) ==
    /\ phase[p] = "open"
    /\ Become(p, "cancelling")
    /\ handler' = None
    /\ Send("cancel", p)
    /\ UNCHANGED <<reader, line, stream, lost, kept, opens, lateVars, toDart, pluginVars,
                   deviceVars>>

IsOpen(p) == phase[p] \in {"open", "cancelling", "closing"}

Read(p) ==
    /\ IsOpen(p)
    /\ reader[p] = "none"
    /\ reader' = [reader EXCEPT ![p] = "read"]
    /\ Send("read", p)
    /\ UNCHANGED <<phase, handler, line, stream, lost, kept, opens, lateVars, toDart, pluginVars,
                   deviceVars>>

(* The future of a read has a timeout; the plugin goes on with the call.    *)
ReadTimesOut(p) ==
    /\ reader[p] = "read"
    /\ abandoned[p] < MaxLate
    /\ reader' = [reader EXCEPT ![p] = "none"]
    /\ abandoned' = [abandoned EXCEPT ![p] = @ + 1]
    /\ UNCHANGED <<phase, handler, line, stream, lost, kept, opens, missed, toPlugin, toDart,
                   pluginVars, deviceVars>>

ReadUntil(p) ==
    /\ IsOpen(p)
    /\ reader[p] = "none"
    /\ reader' = [reader EXCEPT ![p] = "until"]
    /\ line' = [line EXCEPT ![p] = <<>>]
    /\ Send("readByte", p)
    /\ UNCHANGED <<phase, handler, stream, lost, kept, opens, lateVars, toDart, pluginVars,
                   deviceVars>>

(* The pause is over: the next byte, or the error of a closed port.        *)
ReadUntilGoesOn(p) ==
    /\ reader[p] = "pause"
    /\ IF IsOpen(p)
       THEN Send("readByte", p) /\ reader' = [reader EXCEPT ![p] = "until"]
       ELSE UNCHANGED toPlugin /\ reader' = [reader EXCEPT ![p] = "none"]
    /\ UNCHANGED <<phase, handler, line, stream, lost, kept, opens, lateVars, toDart, pluginVars,
                   deviceVars>>

ReadUntilTimesOut(p) ==
    /\ reader[p] = "pause"
    /\ reader' = [reader EXCEPT ![p] = "none"]
    /\ UNCHANGED <<phase, handler, line, stream, lost, kept, opens, lateVars, toPlugin, toDart,
                   pluginVars,
                   deviceVars>>

-----------------------------------------------------------------------------
(* The plugin, on the GTK main thread.                                     *)
Message(kind, p) == [kind |-> kind, port |-> p]

Receives(kind, p) ==
    /\ toPlugin # <<>>
    /\ Head(toPlugin) = Message(kind, p)
    /\ toPlugin' = Tail(toPlugin)

Tells(m) == toDart' = Append(toDart, m)

(* openPort of a port in the table fails, and so may the device.           *)
HandleOpen(p) ==
    /\ Receives("open", p)
    /\ \/ /\ p \notin opened
          /\ opened' = opened \cup {p}
          /\ Tells(Message("opened", p))
       \/ UNCHANGED opened /\ Tells(Message("openFailed", p))
    /\ UNCHANGED <<dartVars, active, source, sources, issued, deviceVars>>

(* closePort: what the kernel holds for the descriptor goes with it.       *)
HandleClose(p) ==
    /\ Receives("close", p)
    /\ opened' = opened \ {p}
    /\ tty' = [tty EXCEPT ![p] = <<>>]
    /\ gone' = gone \ {p}
    /\ Tells(Message("closed", p))
    /\ UNCHANGED <<dartVars, active, source, sources, issued, arrived>>

(* readData waits for a byte or for the read timeout, or finds the port    *)
(* closed or hung up.  With a timeout of 0, or when another process took   *)
(* the byte, its answer is empty.                                          *)
Reply(p, n) ==
    LET count == IF n < Len(tty[p]) THEN n ELSE Len(tty[p])
    IN  \/ /\ p \in opened \ gone
           /\ Tells([kind |-> "bytes", port |-> p, data |-> SubSeq(tty[p], 1, count)])
           /\ tty' = [tty EXCEPT ![p] = SubSeq(@, count + 1, Len(@))]
        \/ /\ p \in opened \ gone => tty[p] = <<>>
           /\ Tells(Message("readFailed", p))
           /\ UNCHANGED tty

HandleRead(p) ==
    /\ \/ Receives("read", p) /\ Reply(p, MaxBytes)
       \/ Receives("readByte", p) /\ Reply(p, 1)
    /\ UNCHANGED <<dartVars, pluginVars, arrived, gone>>

(* event_listen_cb: the stream moves to this port.                         *)
(* Mutant: the timer is not started when a port was streamed before.       *)
HandleListenOnce(p) ==
    /\ Receives("listen", p)
    /\ IF p \in opened
       THEN /\ active' = p
            /\ issued' = issued + 1
            /\ IF issued = 0
               THEN source' = issued' /\ sources' = {issued'}
               ELSE UNCHANGED <<source, sources>>
            /\ Tells(Message("listening", p))
       ELSE Tells(Message("listenFailed", p)) /\ UNCHANGED <<active, source, sources, issued>>
    /\ UNCHANGED <<dartVars, opened, deviceVars>>

HandleListen(p) ==
    /\ Receives("listen", p)
    /\ IF p \in opened
       THEN /\ active' = p
            /\ issued' = issued + 1
            /\ source' = issued'
            /\ sources' = (sources \ {source}) \cup {issued'}
            /\ Tells(Message("listening", p))
       ELSE Tells(Message("listenFailed", p)) /\ UNCHANGED <<active, source, sources, issued>>
    /\ UNCHANGED <<dartVars, opened, deviceVars>>

(* event_cancel_cb, whichever port the message is about.                   *)
(* Mutant: the id is forgotten and the timer stays.                        *)
HandleCancelLeaks(p) ==
    /\ Receives("cancel", p)
    /\ active' = None
    /\ source' = 0
    /\ UNCHANGED sources
    /\ Tells(Message("cancelled", p))
    /\ UNCHANGED <<dartVars, opened, issued, deviceVars>>

HandleCancel(p) ==
    /\ Receives("cancel", p)
    /\ active' = None
    /\ source' = 0
    /\ sources' = sources \ {source}
    /\ Tells(Message("cancelled", p))
    /\ UNCHANGED <<dartVars, opened, issued, deviceVars>>

(* emit_read_event, called by timer s: it ends with an error event when    *)
(* the port is not in the table or its descriptor is hung up.              *)
(* Mutant: the timer of a port in trouble goes on, and nobody is told.     *)
PumpSilent(s) ==
    /\ s \in sources
    /\ active \in opened \ gone
    /\ tty[active] # <<>>
    /\ Tells([kind |-> "event", port |-> active, data |-> tty[active]])
    /\ tty' = [tty EXCEPT ![active] = <<>>]
    /\ UNCHANGED <<dartVars, toPlugin, pluginVars, arrived, gone>>

(* Mutant: the id of the removed timer is overwritten with -1.             *)
PumpMarksSource(s) ==
    /\ s \in sources
    /\ active \in Ports \ (opened \ gone)
    /\ Tells(Message("error", active))
    /\ source' = -1
    /\ sources' = sources \ {s}
    /\ UNCHANGED <<dartVars, toPlugin, opened, active, issued, deviceVars>>

(* Mutant: the event is a copy of bytes that stay where they are.          *)
PumpPeeks(s) ==
    /\ s \in sources
    /\ active \in opened \ gone
    /\ tty[active] # <<>>
    /\ Tells([kind |-> "event", port |-> active, data |-> tty[active]])
    /\ UNCHANGED <<dartVars, toPlugin, pluginVars, deviceVars>>

Pump(s) ==
    /\ s \in sources
    /\ \/ /\ active = None
          /\ sources' = sources \ {s}
          /\ UNCHANGED <<toDart, source, tty>>
       \/ /\ active \in Ports \ (opened \ gone)
          /\ Tells(Message("error", active))
          /\ source' = 0
          /\ sources' = sources \ {s}
          /\ UNCHANGED tty
       \/ /\ active \in opened \ gone
          /\ tty[active] # <<>>
          /\ Tells([kind |-> "event", port |-> active, data |-> tty[active]])
          /\ tty' = [tty EXCEPT ![active] = <<>>]
          /\ UNCHANGED <<source, sources>>
    /\ UNCHANGED <<dartVars, toPlugin, opened, active, issued, arrived, gone>>

-----------------------------------------------------------------------------
(* Dart takes the next message of the plugin.                              *)
Incoming == Head(toDart)

Takes(kinds) ==
    /\ toDart # <<>>
    /\ Incoming.kind \in kinds
    /\ toDart' = Tail(toDart)

(* An open port listens: the channel's message handler is now its own, and *)
(* gets the event the channel kept.                                        *)
Opened ==
    /\ toDart # <<>>
    /\ Incoming.kind = "opened"
    /\ Become(Incoming.port, "open")
    /\ stream' = [stream EXCEPT ![Incoming.port] = <<>>]
    /\ handler' = Incoming.port
    /\ toDart' = kept \o Tail(toDart)
    /\ kept' = <<>>
    /\ Send("listen", Incoming.port)
    /\ UNCHANGED <<reader, line, lost, opens, lateVars, pluginVars, deviceVars>>

OpenFailed ==
    /\ Takes({"openFailed"})
    /\ Become(Incoming.port, "closed")
    /\ UNCHANGED <<handler, reader, line, stream, lost, kept, opens, lateVars, toPlugin,
                   pluginVars, deviceVars>>

Cancelled ==
    /\ Takes({"cancelled"})
    /\ Become(Incoming.port, "closing")
    /\ Send("close", Incoming.port)
    /\ UNCHANGED <<handler, reader, line, stream, lost, kept, opens, lateVars, pluginVars,
                   deviceVars>>

Closed ==
    /\ Takes({"closed"})
    /\ Become(Incoming.port, "closed")
    /\ UNCHANGED <<handler, reader, line, stream, lost, kept, opens, lateVars, toPlugin,
                   pluginVars, deviceVars>>

(* Answers come in the order of the calls: those of the reads that timed   *)
(* out first.  Nobody waits for them any more.                             *)
LateAnswer ==
    /\ Takes({"bytes", "readFailed"})
    /\ LET p == Incoming.port IN
         /\ abandoned[p] > 0
         /\ abandoned' = [abandoned EXCEPT ![p] = @ - 1]
         /\ missed' = IF Incoming.kind = "bytes"
                      THEN [missed EXCEPT ![p] = @ \cup ToSet(Incoming.data)] ELSE missed
    /\ UNCHANGED <<phase, handler, reader, line, stream, lost, kept, opens, toPlugin, pluginVars,
                   deviceVars>>

(* The answer of readData.  A byte ends readUntil or leads to its pause,   *)
(* an empty answer leads to it.                                            *)
BytesRead ==
    /\ Takes({"bytes"})
    /\ abandoned[Incoming.port] = 0
    /\ LET p == Incoming.port IN
         /\ stream' = [stream EXCEPT ![p] = @ \o Incoming.data]
         /\ IF reader[p] = "read"
            THEN UNCHANGED line /\ reader' = [reader EXCEPT ![p] = "none"]
            ELSE /\ line' = [line EXCEPT ![p] = @ \o Incoming.data]
                 /\ \E r \in {"none", "pause"} :
                       /\ Incoming.data = <<>> => r = "pause"
                       /\ reader' = [reader EXCEPT ![p] = r]
    /\ UNCHANGED <<phase, handler, lost, kept, opens, lateVars, toPlugin, pluginVars, deviceVars>>

ReadFailed ==
    /\ Takes({"readFailed"})
    /\ abandoned[Incoming.port] = 0
    /\ reader' = [reader EXCEPT ![Incoming.port] = "none"]
    /\ UNCHANGED <<phase, handler, line, stream, lost, kept, opens, lateVars, toPlugin, pluginVars,
                   deviceVars>>

(* An event without a message handler is kept in the place of an older one;*)
(* the listener of _startEventListener drops what another port received.   *)
Data(m) == IF m.kind = "event" THEN ToSet(m.data) ELSE {}

EventIsKept ==
    /\ handler = None
    /\ Takes({"event", "error"})
    /\ kept' = <<Incoming>>
    /\ lost' = [p \in Ports |->
                  lost[p] \cup UNION {Data(m) : m \in {k \in ToSet(kept) : k.port = p}}]
    /\ UNCHANGED <<phase, handler, reader, line, stream, opens, lateVars, toPlugin, pluginVars,
                   deviceVars>>

EventArrives ==
    /\ handler # None
    /\ Takes({"event"})
    /\ LET p == Incoming.port IN
         IF handler = p
         THEN stream' = [stream EXCEPT ![p] = @ \o Incoming.data] /\ UNCHANGED lost
         ELSE lost' = [lost EXCEPT ![p] = @ \cup Data(Incoming)] /\ UNCHANGED stream
    /\ UNCHANGED <<phase, handler, reader, line, kept, opens, lateVars, toPlugin, pluginVars,
                   deviceVars>>

(* An error event goes to errorStream; the answer of listen is not used.   *)
ErrorArrives ==
    /\ handler # None
    /\ Takes({"error"})
    /\ UNCHANGED <<dartVars, toPlugin, pluginVars, deviceVars>>

ListenAnswered ==
    /\ Takes({"listening", "listenFailed"})
    /\ UNCHANGED <<dartVars, toPlugin, pluginVars, deviceVars>>

-----------------------------------------------------------------------------
(* The device sends a byte, or is unplugged.                               *)
ByteArrives(p) ==
    /\ p \in opened \ gone
    /\ arrived[p] < MaxBytes
    /\ arrived' = [arrived EXCEPT ![p] = @ + 1]
    /\ tty' = [tty EXCEPT ![p] = Append(@, arrived'[p])]
    /\ UNCHANGED <<dartVars, toPlugin, toDart, pluginVars, gone>>

HangUp(p) ==
    /\ p \in opened \ gone
    /\ gone' = gone \cup {p}
    /\ UNCHANGED <<dartVars, toPlugin, toDart, pluginVars, tty, arrived>>

-----------------------------------------------------------------------------
Application(p) == Open(p) \/ Close(p) \/ Read(p) \/ ReadTimesOut(p) \/ ReadUntil(p)

MainThread ==
    \E p \in Ports :
        HandleOpen(p) \/ HandleClose(p) \/ HandleRead(p) \/ HandleListen(p) \/ HandleCancel(p)

Timers == \E s \in sources : Pump(s)

Isolate ==
    Opened \/ OpenFailed \/ Cancelled \/ Closed \/ LateAnswer \/ BytesRead \/ ReadFailed
    \/ EventIsKept \/ EventArrives \/ ErrorArrives \/ ListenAnswered

Pause(p) == ReadUntilGoesOn(p) \/ ReadUntilTimesOut(p)

Next ==
    \/ MainThread \/ Timers \/ Isolate
    \/ \E p \in Ports : Application(p) \/ Pause(p) \/ ByteArrives(p) \/ HangUp(p)

Spec == Init /\ [][Next]_vars

(* The main loop handles messages and timers, the isolate its messages and *)
(* its own timers; the application and the device owe nothing.             *)
FairSpec ==
    /\ Spec
    /\ WF_vars(MainThread)
    /\ WF_vars(Timers)
    /\ WF_vars(Isolate)
    /\ \A p \in Ports : WF_vars(Pause(p))

-----------------------------------------------------------------------------
TypeOK ==
    /\ phase \in [Ports -> Phases]
    /\ handler \in Ports \cup {None}
    /\ reader \in [Ports -> Readers]
    /\ line \in [Ports -> Seq(Bytes)]
    /\ stream \in [Ports -> Seq(Bytes)]
    /\ lost \in [Ports -> SUBSET Bytes]
    /\ abandoned \in [Ports -> 0 .. MaxLate]
    /\ missed \in [Ports -> SUBSET Bytes]
    /\ kept \in Seq(Messages) /\ Len(kept) <= 1
    /\ opens \in 0 .. MaxOpens
    /\ toPlugin \in Seq(Requests)
    /\ toDart \in Seq(Messages)
    /\ opened \subseteq Ports
    /\ active \in Ports \cup {None}
    /\ source \in Nat
    /\ sources \subseteq Nat
    /\ issued \in Nat
    /\ tty \in [Ports -> Seq(Bytes)]
    /\ arrived \in [Ports -> 0 .. MaxBytes]
    /\ gone \subseteq opened

(* At most one timer runs, it is the one the plugin remembers, and it      *)
(* streams a port: g_source_remove is never called for a timer that is     *)
(* gone, and no timer is left that nothing stops.                          *)
OneTimer ==
    /\ sources = {source} \ {0}
    /\ source # 0 => active # None

(* However the pump, read and readUntil share a port, the application gets *)
(* its bytes, since it opened the port, in the order they came and none    *)
(* twice.                                                                  *)
BytesInOrder ==
    \A p \in Ports : \A i, j \in DOMAIN stream[p] : i < j => stream[p][i] < stream[p][j]

(* An event that carries bytes of a port is not dropped while the port is  *)
(* open.                                                                   *)
EventsReachTheirPort ==
    [][\A p \in Ports : phase[p] = "open" => lost'[p] = lost[p]]_vars

(* Every byte received on an open port gets to the data stream or to a     *)
(* read in progress (readUntil keeps it until it finds its terminator or   *)
(* gives up), unless the port is closed or hung up first.  Excepted is     *)
(* what a read takes that the application gave up: the answer of the       *)
(* plugin, bytes and all, is dropped.                                      *)
BytesReachTheApplication ==
    \A p \in Ports : \A b \in Bytes :
        b \in ToSet(tty[p]) ~>
            b \in ToSet(stream[p]) \cup missed[p] \/ phase[p] # "open" \/ p \in gone

(* An open port whose device is unplugged while it is streamed is told so  *)
(* through its error stream.                                               *)
HangUpIsReported ==
    \A p \in Ports :
        p \in gone /\ phase[p] = "open" /\ active = p /\ source # 0 ~>
            \/ phase[p] # "open"
            \/ handler = p /\ toDart # <<>> /\ Incoming = Message("error", p)

(* serial_port_interface.dart, "Reads until the terminator string is       *)
(* found.": what readUntil collects is what the device sent, with nothing  *)
(* left out.                                                               *)
ReadUntilSeesEveryByte ==
    \A p \in Ports : \A i \in 1 .. Len(line[p]) - 1 : line[p][i + 1] = line[p][i] + 1

-----------------------------------------------------------------------------
(* The inductive invariant.                                                *)

(* The bytes on their way to Dart, in the order Dart comes to them: the    *)
(* channel gives what it kept first.                                       *)
Coming == kept \o toDart

Carried(m) == IF m.kind \in {"bytes", "event"} THEN m.data ELSE <<>>

Increasing(s) == \A i, j \in DOMAIN s : i < j => s[i] < s[j]

Before(s, t) == \A i \in DOMAIN s, j \in DOMAIN t : s[i] < t[j]

UpTo(s, n) == \A i \in DOMAIN s : s[i] <= n

(* What waits at the device is later than what was taken from it.          *)
DeviceShape ==
    \A p \in Ports :
        /\ Increasing(tty[p]) /\ UpTo(tty[p], arrived[p])
        /\ UpTo(stream[p], arrived[p]) /\ Before(stream[p], tty[p])

MessageShape ==
    /\ \A i \in DOMAIN Coming :
          LET m == Coming[i]
          IN  /\ Increasing(Carried(m)) /\ UpTo(Carried(m), arrived[m.port])
              /\ Before(Carried(m), tty[m.port])
    /\ \A i, j \in DOMAIN Coming :
          i < j /\ Coming[i].port = Coming[j].port =>
              Before(Carried(Coming[i]), Carried(Coming[j]))

(* What the application will get is later than what it has.  An event it   *)
(* will not get, since another port is listened to, may be older.          *)
StreamShape ==
    \A i \in DOMAIN toDart :
        LET m == toDart[i]
        IN  m.kind = "bytes" \/ handler = m.port => Before(stream[m.port], Carried(m))

(* Only events are kept, while nobody listens.                             *)
KeptShape ==
    /\ \A i \in DOMAIN kept : kept[i].kind \in {"event", "error"}
    /\ kept # <<>> => handler = None

(* An open() or close() has one request or answer on its way.              *)
Expected(s) ==
    CASE s = "opening"    -> {"open", "opened", "openFailed"}
      [] s = "cancelling" -> {"cancel", "cancelled"}
      [] s = "closing"    -> {"close", "closed"}
      [] OTHER            -> {}

Steers(m) == m.kind \in {"open", "opened", "openFailed", "cancel", "cancelled", "close", "closed"}

PhaseShape ==
    /\ \A i \in DOMAIN toPlugin :
          Steers(toPlugin[i]) => toPlugin[i].kind \in Expected(phase[toPlugin[i].port])
    /\ \A i \in DOMAIN toDart :
          Steers(toDart[i]) => toDart[i].kind \in Expected(phase[toDart[i].port])
    /\ \A i, j \in DOMAIN toPlugin :
          i # j /\ Steers(toPlugin[i]) /\ Steers(toPlugin[j]) => toPlugin[i].port # toPlugin[j].port
    /\ \A i, j \in DOMAIN toDart :
          i # j /\ Steers(toDart[i]) /\ Steers(toDart[j]) => toDart[i].port # toDart[j].port
    /\ \A i \in DOMAIN toPlugin, j \in DOMAIN toDart :
          Steers(toPlugin[i]) /\ Steers(toDart[j]) => toPlugin[i].port # toDart[j].port

(* With one port in use at a time, an open port is the one listened to.    *)
ListenShape ==
    ~Together =>
        /\ \A p, q \in Ports : phase[p] # "closed" /\ phase[q] # "closed" => p = q
        /\ \A p \in Ports : phase[p] = "open" => handler = p

IInv ==
    /\ TypeOK /\ OneTimer
    /\ DeviceShape /\ MessageShape /\ StreamShape /\ KeptShape /\ BytesInOrder
    /\ PhaseShape /\ ListenShape

=============================================================================
