--------------------------- MODULE LinuxPluginProofs --------------------------
(***************************************************************************)
(* What LinuxPlugin guarantees for every set of ports, also when several   *)
(* are in use, and every number of bytes and of open() calls.              *)
(***************************************************************************)
EXTENDS LinuxPlugin, SequenceTheorems, TLAPS

-----------------------------------------------------------------------------
(* Who changes what.                                                       *)

(* Received bytes come from the device and go to a read or to the pump.    *)
LEMMA WhoReads == [Next]_vars =>
    \/ UNCHANGED <<tty, arrived>>
    \/ \E p \in Ports : HandleClose(p) \/ HandleRead(p) \/ ByteArrives(p)
    \/ \E s \in sources : Pump(s)
  BY DEF Next, MainThread, Timers, Isolate, Application, Pause, vars, dartVars, lateVars, pluginVars, deviceVars,
         HandleOpen, HandleListen, HandleCancel, Opened, OpenFailed, Cancelled,
         Closed, BytesRead, LateAnswer, ReadFailed, EventIsKept, EventArrives, ErrorArrives,
         ListenAnswered, Open, Close, Read, ReadUntil, ReadUntilGoesOn,
         ReadTimesOut, ReadUntilTimesOut, HangUp

(* The application gets bytes from an answer or an event.                  *)
LEMMA WhoStreams == [Next]_vars =>
    \/ UNCHANGED <<stream, handler>>
    \/ Opened \/ BytesRead \/ EventArrives
    \/ \E p \in Ports : Close(p)
  BY DEF Next, MainThread, Timers, Isolate, Application, Pause, vars, dartVars, lateVars, pluginVars, deviceVars,
         HandleOpen, HandleClose, HandleRead, HandleListen, HandleCancel, Pump,
         OpenFailed, Cancelled, Closed, LateAnswer, ReadFailed, EventIsKept, ErrorArrives,
         ListenAnswered, Open, Read, ReadUntil, ReadUntilGoesOn, ReadTimesOut, ReadUntilTimesOut,
         ByteArrives, HangUp

(* The main thread answers, the isolate takes the answers.                 *)
LEMMA WhoTells == [Next]_vars =>
    \/ UNCHANGED <<toDart, kept>>
    \/ \E p \in Ports : HandleOpen(p) \/ HandleClose(p) \/ HandleRead(p) \/ HandleListen(p) \/ HandleCancel(p)
    \/ \E s \in sources : Pump(s)
    \/ Isolate
  BY DEF Next, MainThread, Timers, Application, Pause, vars, dartVars, lateVars, pluginVars, deviceVars,
         Open, Close, Read, ReadUntil, ReadUntilGoesOn, ReadTimesOut, ReadUntilTimesOut,
         ByteArrives, HangUp

(* The application asks, and the isolate when an answer has come.          *)
LEMMA WhoAsks == [Next]_vars =>
    \/ UNCHANGED toPlugin
    \/ \E p \in Ports : HandleOpen(p) \/ HandleClose(p) \/ HandleRead(p) \/ HandleListen(p) \/ HandleCancel(p)
    \/ \E p \in Ports : Open(p) \/ Close(p) \/ Read(p) \/ ReadUntil(p) \/ ReadUntilGoesOn(p)
    \/ Opened \/ Cancelled
  BY DEF Next, MainThread, Timers, Isolate, Application, Pause, vars, dartVars, lateVars, pluginVars, deviceVars,
         Pump, OpenFailed, Closed, BytesRead, LateAnswer, ReadFailed, EventIsKept, EventArrives,
         ErrorArrives, ListenAnswered, ReadTimesOut, ReadUntilTimesOut, ByteArrives, HangUp

(* open() and close() go on with their own steps.                          *)
LEMMA WhoMovesPhases == [Next]_vars =>
    \/ UNCHANGED phase
    \/ \E p \in Ports : Open(p) \/ Close(p)
    \/ Opened \/ OpenFailed \/ Cancelled \/ Closed
  BY DEF Next, MainThread, Timers, Isolate, Application, Pause, vars, dartVars, lateVars, pluginVars, deviceVars,
         HandleOpen, HandleClose, HandleRead, HandleListen, HandleCancel, Pump,
         BytesRead, LateAnswer, ReadFailed, EventIsKept, EventArrives, ErrorArrives,
         ListenAnswered, Read, ReadUntil, ReadUntilGoesOn, ReadTimesOut, ReadUntilTimesOut,
         ByteArrives, HangUp

(* Timers are started by listen and stopped by cancel, or stop by themselves. *)
LEMMA WhoHasTimers == [Next]_vars =>
    \/ UNCHANGED <<active, source, sources, issued>>
    \/ \E p \in Ports : HandleListen(p) \/ HandleCancel(p)
    \/ \E s \in sources : Pump(s)
  BY DEF Next, MainThread, Timers, Isolate, Application, Pause, vars, dartVars, lateVars, pluginVars, deviceVars,
         HandleOpen, HandleClose, HandleRead, Opened, OpenFailed, Cancelled, Closed,
         BytesRead, LateAnswer, ReadFailed, EventIsKept, EventArrives, ErrorArrives,
         ListenAnswered, Open, Close, Read, ReadUntil, ReadUntilGoesOn,
         ReadTimesOut, ReadUntilTimesOut, ByteArrives, HangUp

(* Bytes are lost where an event has no listener.                          *)
LEMMA WhoLoses == [Next]_vars =>
    \/ UNCHANGED lost
    \/ EventIsKept \/ EventArrives
  BY DEF Next, MainThread, Timers, Isolate, Application, Pause, vars, dartVars, lateVars, pluginVars, deviceVars,
         HandleOpen, HandleClose, HandleRead, HandleListen, HandleCancel, Pump,
         Opened, OpenFailed, Cancelled, Closed, BytesRead, LateAnswer, ReadFailed, ErrorArrives,
         ListenAnswered, Open, Close, Read, ReadUntil, ReadUntilGoesOn,
         ReadTimesOut, ReadUntilTimesOut, ByteArrives, HangUp

(* readUntil collects the bytes it reads.                                  *)
LEMMA WhoCollects == [Next]_vars =>
    \/ UNCHANGED line
    \/ \E p \in Ports : ReadUntil(p)
    \/ BytesRead
  BY DEF Next, MainThread, Timers, Isolate, Application, Pause, vars, dartVars, lateVars, pluginVars, deviceVars,
         HandleOpen, HandleClose, HandleRead, HandleListen, HandleCancel, Pump,
         Opened, OpenFailed, Cancelled, Closed, LateAnswer, ReadFailed, EventIsKept, EventArrives,
         ErrorArrives, ListenAnswered, Open, Close, Read, ReadUntilGoesOn,
         ReadTimesOut, ReadUntilTimesOut, ByteArrives, HangUp

(* A read is given up when it times out, and its answer is dropped.        *)
LEMMA WhoGivesUp == [Next]_vars =>
    \/ UNCHANGED lateVars
    \/ LateAnswer
    \/ \E p \in Ports : ReadTimesOut(p)
  BY DEF Next, MainThread, Timers, Isolate, Application, Pause, vars, dartVars, pluginVars, deviceVars,
         HandleOpen, HandleClose, HandleRead, HandleListen, HandleCancel, Pump,
         Opened, OpenFailed, Cancelled, Closed, BytesRead, ReadFailed, EventIsKept, EventArrives,
         ErrorArrives, ListenAnswered, Open, Close, Read, ReadUntil, ReadUntilGoesOn,
         ReadTimesOut, ReadUntilTimesOut, ByteArrives, HangUp

-----------------------------------------------------------------------------
(* Messages and sequences.                                                 *)

(* An answer without data, and one with data.                              *)
LEMMA PlainMessage ==
    ASSUME NEW p \in Ports,
           NEW k \in {"opened", "openFailed", "listening", "cancelled", "closed", "readFailed",
                      "listenFailed", "error"}
    PROVE  /\ Message(k, p) \in Messages /\ Message(k, p).port = p /\ Message(k, p).kind = k
           /\ Carried(Message(k, p)) = <<>>
  BY DEF Message, Messages, Carried

(* A message with data is well typed and carries them.                     *)
LEMMA DataMessage ==
    ASSUME NEW p \in Ports, NEW k \in {"bytes", "event"}, NEW d \in Seq(Bytes)
    PROVE  LET m == [kind |-> k, port |-> p, data |-> d]
           IN  m \in Messages /\ m.port = p /\ m.kind = k /\ Carried(m) = d
  BY DEF Messages, Carried

(* What is in a message.                                                   *)
LEMMA MessageParts ==
    ASSUME NEW m \in Messages
    PROVE  m.port \in Ports /\ Carried(m) \in Seq(Bytes)
  BY DEF Messages, Carried

(* What such a message carries is its data.                                *)
LEMMA CarriedData ==
    ASSUME NEW m \in Messages, m.kind \in {"bytes", "event"}
    PROVE  m.data = Carried(m) /\ m.data \in Seq(Bytes)
  BY DEF Messages, Carried

(* The isolate takes the first message.                                    *)
LEMMA FirstMessage ==
    ASSUME TypeOK, toDart # <<>>
    PROVE  /\ Incoming = toDart[1] /\ Incoming \in Messages /\ Incoming.port \in Ports
           /\ Tail(toDart) \in Seq(Messages)
<1>1. toDart \in Seq(Messages) /\ 1 \in 1 .. Len(toDart)
  BY DEF TypeOK
<1> QED BY <1>1, MessageParts DEF Incoming

(* The isolate takes a message, and opening aside only drops it.           *)
LEMMA IsolateTakes ==
    ASSUME Isolate
    PROVE  toDart # <<>> /\ (~Opened => toDart' = Tail(toDart))
  BY DEF Isolate, Opened, OpenFailed, Cancelled, Closed, BytesRead, LateAnswer, ReadFailed, EventIsKept, EventArrives,
     ErrorArrives, ListenAnswered, Takes

-----------------------------------------------------------------------------
(* Types, in parts.                                                        *)
CallTypes ==
    /\ phase \in [Ports -> Phases]
    /\ handler \in Ports \cup {None}
    /\ reader \in [Ports -> Readers]
    /\ opens \in 0 .. MaxOpens

PumpTypes ==
    /\ opened \subseteq Ports
    /\ active \in Ports \cup {None}
    /\ source \in Nat
    /\ sources \subseteq Nat
    /\ issued \in Nat
    /\ gone \subseteq opened

DartTypes ==
    /\ line \in [Ports -> Seq(Bytes)]
    /\ stream \in [Ports -> Seq(Bytes)]
    /\ lost \in [Ports -> SUBSET Bytes]

LateTypes ==
    /\ abandoned \in [Ports -> 0 .. MaxLate]
    /\ missed \in [Ports -> SUBSET Bytes]

DeviceTypes ==
    /\ tty \in [Ports -> Seq(Bytes)]
    /\ arrived \in [Ports -> 0 .. MaxBytes]

MessageTypes ==
    /\ kept \in Seq(Messages) /\ Len(kept) <= 1
    /\ toDart \in Seq(Messages)

RequestTypes == toPlugin \in Seq(Requests)

(* The type invariant in its parts.                                        *)
LEMMA TypeParts ==
    TypeOK <=> /\ CallTypes /\ PumpTypes /\ DartTypes /\ LateTypes
               /\ DeviceTypes /\ MessageTypes /\ RequestTypes
  BY DEF TypeOK, CallTypes, PumpTypes, DartTypes, LateTypes, DeviceTypes, MessageTypes, RequestTypes

(* Who takes a message has its port.                                       *)
LEMMA CallTypesStep == IInv /\ [Next]_vars => CallTypes'
<1> SUFFICES ASSUME IInv, [Next]_vars PROVE CallTypes'
  OBVIOUS
<1>0. TypeOK /\ CallTypes
  BY TypeParts DEF IInv
<1> USE DEF Become, Phases, Readers, dartVars, lateVars, pluginVars, deviceVars
<1>1. ASSUME NEW p \in Ports, HandleOpen(p) PROVE CallTypes'
  BY <1>0, <1>1 DEF HandleOpen, CallTypes
<1>2. ASSUME NEW p \in Ports, HandleClose(p) PROVE CallTypes'
  BY <1>0, <1>2 DEF HandleClose, CallTypes
<1>3. ASSUME NEW p \in Ports, HandleRead(p) PROVE CallTypes'
  BY <1>0, <1>3 DEF HandleRead, CallTypes
<1>4. ASSUME NEW p \in Ports, HandleListen(p) PROVE CallTypes'
  BY <1>0, <1>4 DEF HandleListen, CallTypes
<1>5. ASSUME NEW p \in Ports, HandleCancel(p) PROVE CallTypes'
  BY <1>0, <1>5 DEF HandleCancel, CallTypes
<1>6. ASSUME NEW s \in sources, Pump(s) PROVE CallTypes'
  BY <1>0, <1>6 DEF Pump, CallTypes
<1>7. CASE Opened
  BY <1>0, <1>7, FirstMessage DEF Opened, Takes, CallTypes
<1>8. CASE OpenFailed
  BY <1>0, <1>8, FirstMessage DEF OpenFailed, Takes, CallTypes
<1>9. CASE Cancelled
  BY <1>0, <1>9, FirstMessage DEF Cancelled, Takes, CallTypes
<1>10. CASE Closed
  BY <1>0, <1>10, FirstMessage DEF Closed, Takes, CallTypes
<1>11. CASE BytesRead
  <2>1. PICK r \in Readers : reader' = [reader EXCEPT ![Incoming.port] = r]
    BY <1>11 DEF BytesRead, Readers
  <2>2. UNCHANGED <<phase, handler, opens>>
    BY <1>11 DEF BytesRead
  <2> QED BY <1>0, <2>1, <2>2 DEF CallTypes
<1>12. CASE ReadFailed
  BY <1>0, <1>12, FirstMessage DEF LateAnswer, ReadFailed, Takes, CallTypes
<1>13. CASE EventIsKept
  BY <1>0, <1>13, FirstMessage DEF EventIsKept, Takes, CallTypes
<1>14. CASE EventArrives
  BY <1>0, <1>14, FirstMessage DEF EventArrives, Takes, CallTypes
<1>15. CASE ErrorArrives
  BY <1>0, <1>15, FirstMessage DEF ErrorArrives, Takes, CallTypes
<1>16. CASE ListenAnswered
  BY <1>0, <1>16, FirstMessage DEF ListenAnswered, Takes, CallTypes
<1>17. ASSUME NEW p \in Ports, Open(p) PROVE CallTypes'
  BY <1>0, <1>17, BoundAssumption DEF Open, CallTypes
<1>18. ASSUME NEW p \in Ports, Close(p) PROVE CallTypes'
  BY <1>0, <1>18 DEF Close, CallTypes
<1>19. ASSUME NEW p \in Ports, Read(p) PROVE CallTypes'
  BY <1>0, <1>19 DEF Read, CallTypes
<1>20. ASSUME NEW p \in Ports, ReadUntil(p) PROVE CallTypes'
  BY <1>0, <1>20 DEF ReadUntil, CallTypes
<1>21. ASSUME NEW p \in Ports, ReadUntilGoesOn(p) PROVE CallTypes'
  BY <1>0, <1>21 DEF ReadUntilGoesOn, CallTypes
<1>22. ASSUME NEW p \in Ports, ReadUntilTimesOut(p) PROVE CallTypes'
  BY <1>0, <1>22 DEF ReadTimesOut, ReadUntilTimesOut, CallTypes
<1>23. ASSUME NEW p \in Ports, ByteArrives(p) PROVE CallTypes'
  BY <1>0, <1>23 DEF ByteArrives, CallTypes
<1>24. ASSUME NEW p \in Ports, HangUp(p) PROVE CallTypes'
  BY <1>0, <1>24 DEF HangUp, CallTypes
<1>25. CASE UNCHANGED vars
  BY <1>0, <1>25 DEF vars, CallTypes
<1>26. CASE LateAnswer
  BY <1>0, <1>26, FirstMessage DEF LateAnswer, Takes, CallTypes
<1>27. ASSUME NEW p \in Ports, ReadTimesOut(p) PROVE CallTypes'
  BY <1>0, <1>27 DEF ReadTimesOut, CallTypes
<1> QED
  BY <1>1, <1>2, <1>3, <1>4, <1>5, <1>6, <1>7, <1>8, <1>9, <1>10, <1>11, <1>12, <1>13, <1>14,
     <1>15, <1>16, <1>17, <1>18, <1>19, <1>20, <1>21, <1>22, <1>23, <1>24, <1>25, <1>26, <1>27
  DEF Next, MainThread, Timers, Isolate, Application, Pause

(* The plugin, and the device.                                             *)
LEMMA PumpTypesStep == IInv /\ [Next]_vars => PumpTypes'
<1> SUFFICES ASSUME IInv, [Next]_vars PROVE PumpTypes'
  OBVIOUS
<1>0. PumpTypes
  BY TypeParts DEF IInv
<1> USE DEF dartVars, lateVars, pluginVars, deviceVars
<1>1. ASSUME NEW p \in Ports, HandleOpen(p) PROVE PumpTypes'
  BY <1>0, <1>1 DEF HandleOpen, PumpTypes
<1>2. ASSUME NEW p \in Ports, HandleClose(p) PROVE PumpTypes'
  BY <1>0, <1>2 DEF HandleClose, PumpTypes
<1>3. ASSUME NEW p \in Ports, HandleRead(p) PROVE PumpTypes'
  BY <1>0, <1>3 DEF HandleRead, PumpTypes
<1>4. ASSUME NEW p \in Ports, HandleListen(p) PROVE PumpTypes'
  <2>1. CASE p \in opened
    <3>1. /\ active' = p /\ issued' = issued + 1 /\ source' = issued + 1
          /\ sources' = (sources \ {source}) \cup {issued + 1}
          /\ UNCHANGED <<opened, gone>>
      BY <1>4, <2>1 DEF HandleListen
    <3>2. issued + 1 \in Nat
      BY <1>0 DEF PumpTypes
    <3> QED BY <1>0, <3>1, <3>2 DEF PumpTypes
  <2>2. CASE p \notin opened
    BY <1>0, <1>4, <2>2 DEF HandleListen, PumpTypes
  <2> QED BY <2>1, <2>2
<1>5. ASSUME NEW p \in Ports, HandleCancel(p) PROVE PumpTypes'
  BY <1>0, <1>5 DEF HandleCancel, PumpTypes
<1>6. ASSUME NEW s \in sources, Pump(s) PROVE PumpTypes'
  <2>1. /\ UNCHANGED <<opened, active, issued, gone>>
        /\ source' \in {source, 0} /\ sources' \subseteq sources
    BY <1>6 DEF Pump
  <2> QED BY <1>0, <2>1 DEF PumpTypes
<1>7. CASE Opened
  BY <1>0, <1>7 DEF Opened, PumpTypes
<1>8. CASE OpenFailed
  BY <1>0, <1>8 DEF OpenFailed, PumpTypes
<1>9. CASE Cancelled
  BY <1>0, <1>9 DEF Cancelled, PumpTypes
<1>10. CASE Closed
  BY <1>0, <1>10 DEF Closed, PumpTypes
<1>11. CASE BytesRead
  BY <1>0, <1>11 DEF BytesRead, PumpTypes
<1>12. CASE ReadFailed
  BY <1>0, <1>12 DEF LateAnswer, ReadFailed, PumpTypes
<1>13. CASE EventIsKept
  BY <1>0, <1>13 DEF EventIsKept, PumpTypes
<1>14. CASE EventArrives
  BY <1>0, <1>14 DEF EventArrives, PumpTypes
<1>15. CASE ErrorArrives
  BY <1>0, <1>15 DEF ErrorArrives, PumpTypes
<1>16. CASE ListenAnswered
  BY <1>0, <1>16 DEF ListenAnswered, PumpTypes
<1>17. ASSUME NEW p \in Ports, Open(p) PROVE PumpTypes'
  BY <1>0, <1>17 DEF Open, PumpTypes
<1>18. ASSUME NEW p \in Ports, Close(p) PROVE PumpTypes'
  BY <1>0, <1>18 DEF Close, PumpTypes
<1>19. ASSUME NEW p \in Ports, Read(p) PROVE PumpTypes'
  BY <1>0, <1>19 DEF Read, PumpTypes
<1>20. ASSUME NEW p \in Ports, ReadUntil(p) PROVE PumpTypes'
  BY <1>0, <1>20 DEF ReadUntil, PumpTypes
<1>21. ASSUME NEW p \in Ports, ReadUntilGoesOn(p) PROVE PumpTypes'
  BY <1>0, <1>21 DEF ReadUntilGoesOn, PumpTypes
<1>22. ASSUME NEW p \in Ports, ReadUntilTimesOut(p) PROVE PumpTypes'
  BY <1>0, <1>22 DEF ReadTimesOut, ReadUntilTimesOut, PumpTypes
<1>23. ASSUME NEW p \in Ports, ByteArrives(p) PROVE PumpTypes'
  BY <1>0, <1>23 DEF ByteArrives, PumpTypes
<1>24. ASSUME NEW p \in Ports, HangUp(p) PROVE PumpTypes'
  BY <1>0, <1>24 DEF HangUp, PumpTypes
<1>25. CASE UNCHANGED vars
  BY <1>0, <1>25 DEF vars, PumpTypes
<1>26. CASE LateAnswer
  BY <1>0, <1>26 DEF LateAnswer, PumpTypes
<1>27. ASSUME NEW p \in Ports, ReadTimesOut(p) PROVE PumpTypes'
  BY <1>0, <1>27 DEF ReadTimesOut, PumpTypes
<1> QED
  BY <1>1, <1>2, <1>3, <1>4, <1>5, <1>6, <1>7, <1>8, <1>9, <1>10, <1>11, <1>12, <1>13, <1>14,
     <1>15, <1>16, <1>17, <1>18, <1>19, <1>20, <1>21, <1>22, <1>23, <1>24, <1>25, <1>26, <1>27
  DEF Next, MainThread, Timers, Isolate, Application, Pause

(* At most one timer runs, it is the one the plugin remembers, and it      *)
(* streams a port.                                                         *)
LEMMA OneTimerStep == IInv /\ [Next]_vars => OneTimer'
<1> SUFFICES ASSUME IInv, [Next]_vars PROVE OneTimer'
  OBVIOUS
<1>1. PumpTypes /\ OneTimer /\ None \notin Ports
  BY TypeParts, NoneAssumption DEF IInv
<1>2. ASSUME NEW p \in Ports, HandleListen(p) PROVE OneTimer'
  <2>1. CASE p \in opened
    <3>1. active' = p /\ source' = issued + 1 /\ sources' = (sources \ {source}) \cup {issued + 1}
      BY <1>2, <2>1 DEF HandleListen
    <3>2. sources' = {issued + 1} /\ issued + 1 # 0
      BY <1>1, <3>1 DEF OneTimer, PumpTypes
    <3> QED BY <1>1, <3>1, <3>2 DEF OneTimer
  <2>2. CASE p \notin opened
    BY <1>1, <1>2, <2>2 DEF HandleListen, OneTimer
  <2> QED BY <2>1, <2>2
<1>3. ASSUME NEW p \in Ports, HandleCancel(p) PROVE OneTimer'
  BY <1>1, <1>3 DEF HandleCancel, OneTimer
<1>4. ASSUME NEW s \in sources, Pump(s) PROVE OneTimer'
  <2>1. s = source /\ source # 0 /\ active # None
    BY <1>1, <1>4 DEF OneTimer
  <2> QED BY <1>1, <1>4, <2>1 DEF Pump, OneTimer
<1>5. CASE UNCHANGED <<active, source, sources, issued>>
  BY <1>1, <1>5 DEF OneTimer
<1> QED BY <1>2, <1>3, <1>4, <1>5, WhoHasTimers

-----------------------------------------------------------------------------
(* The bytes that are taken from the device, and those that stay.          *)
LEMMA SplitBytes ==
    ASSUME NEW s \in Seq(Bytes), NEW n \in 1 .. Len(s)
    PROVE  /\ SubSeq(s, 1, n) \in Seq(Bytes) /\ Len(SubSeq(s, 1, n)) = n
           /\ \A i \in 1 .. n : SubSeq(s, 1, n)[i] = s[i]
           /\ SubSeq(s, n + 1, Len(s)) \in Seq(Bytes) /\ Len(SubSeq(s, n + 1, Len(s))) = Len(s) - n
           /\ \A i \in 1 .. Len(s) - n : SubSeq(s, n + 1, Len(s))[i] = s[i + n]
<1>1. Len(s) \in Nat /\ n \in 1 .. Len(s)
  OBVIOUS
<1>2. SubSeq(s, 1, n) \in Seq(Bytes) /\ Len(SubSeq(s, 1, n)) = n
  BY <1>1
<1>3. SubSeq(s, n + 1, Len(s)) \in Seq(Bytes) /\ Len(SubSeq(s, n + 1, Len(s))) = Len(s) - n
  BY <1>1
<1>4. \A i \in 1 .. n : SubSeq(s, 1, n)[i] = s[i]
  BY <1>1
<1>5. \A i \in 1 .. Len(s) - n : SubSeq(s, n + 1, Len(s))[i] = s[i + n]
  BY <1>1
<1> QED BY <1>2, <1>3, <1>4, <1>5

(* A message of the main thread carries nothing, or the first bytes that   *)
(* wait at its port, which the others follow.                              *)
TakenFrom(m, p, n) ==
    /\ m.port = p
    /\ Carried(m) = SubSeq(tty[p], 1, n)
    /\ tty' = [tty EXCEPT ![p] = SubSeq(@, n + 1, Len(@))]

Told(m) ==
    /\ m \in Messages
    /\ toDart' = Append(toDart, m)
    /\ UNCHANGED kept
    /\ \/ /\ Carried(m) = <<>>
          /\ tty' \in [Ports -> Seq(Bytes)] /\ \A p \in Ports : tty'[p] \in {tty[p], <<>>}
       \/ \E p \in Ports : \E n \in 1 .. Len(tty[p]) : TakenFrom(m, p, n)

(* A reply to a read is one message, with what it takes.                   *)
LEMMA ReplyTells ==
    ASSUME DeviceTypes, NEW p \in Ports, NEW k \in Nat, k # 0 \/ tty[p] = <<>>, Reply(p, k), UNCHANGED kept
    PROVE  \E m : Told(m)
<1>1. CASE p \in opened \ gone /\ tty[p] # <<>>
  <2> DEFINE n == IF k < Len(tty[p]) THEN k ELSE Len(tty[p])
             m == [kind |-> "bytes", port |-> p, data |-> SubSeq(tty[p], 1, n)]
  <2>1. tty[p] \in Seq(Bytes) /\ n \in 1 .. Len(tty[p])
    BY <1>1 DEF DeviceTypes
  <2>2. SubSeq(tty[p], 1, n) \in Seq(Bytes)
    BY <2>1, SplitBytes
  <2>3. m \in Messages /\ m.port = p /\ Carried(m) = SubSeq(tty[p], 1, n)
    BY <2>2, DataMessage
  <2>4. /\ toDart' = Append(toDart, m)
        /\ tty' = [tty EXCEPT ![p] = SubSeq(@, n + 1, Len(@))]
    BY <1>1 DEF Reply, Tells
  <2> HIDE DEF n, m
  <2>5. TakenFrom(m, p, n)
    BY <2>3, <2>4 DEF TakenFrom
  <2> QED BY <2>1, <2>3, <2>4, <2>5 DEF Told
<1>2. CASE tty[p] = <<>>
  <2>1. SubSeq(tty[p], 1, 0) = <<>> /\ Len(tty[p]) = 0 /\ SubSeq(tty[p], 1, Len(tty[p])) = <<>>
    BY <1>2
  <2>2. \/ toDart' = Append(toDart, Message("readFailed", p)) /\ UNCHANGED tty
        \/ /\ toDart' = Append(toDart, [kind |-> "bytes", port |-> p, data |-> <<>>])
           /\ tty' = [tty EXCEPT ![p] = <<>>]
    BY <1>2, <2>1 DEF Reply, Tells
  <2>3. tty' \in [Ports -> Seq(Bytes)] /\ \A q \in Ports : tty'[q] \in {tty[q], <<>>}
    BY <1>2, <2>2 DEF DeviceTypes
  <2>4. <<>> \in Seq(Bytes)
    OBVIOUS
  <2> QED BY <2>2, <2>3, <2>4, PlainMessage, DataMessage DEF Told
<1>3. CASE ~(p \in opened \ gone) /\ tty[p] # <<>>
  <2>1. toDart' = Append(toDart, Message("readFailed", p)) /\ UNCHANGED tty
    BY <1>3 DEF Reply, Tells
  <2> QED BY <2>1, PlainMessage DEF Told, DeviceTypes
<1> QED BY <1>1, <1>2, <1>3

(* The main thread answers every request with one message.                 *)
LEMMA MainThreadTells ==
    ASSUME TypeOK, NEW p \in Ports,
           HandleOpen(p) \/ HandleClose(p) \/ HandleRead(p) \/ HandleListen(p) \/ HandleCancel(p)
    PROVE  \E m : Told(m)
<1>0. DeviceTypes
  BY TypeParts
<1>1. CASE HandleOpen(p)
  <2>1. PICK k \in {"opened", "openFailed"} : toDart' = Append(toDart, Message(k, p))
    BY <1>1 DEF HandleOpen, Tells
  <2>2. UNCHANGED <<tty, kept>>
    BY <1>1 DEF HandleOpen, deviceVars, dartVars, lateVars
  <2> QED BY <1>0, <2>1, <2>2, PlainMessage DEF Told, DeviceTypes
<1>2. CASE HandleClose(p)
  <2>1. toDart' = Append(toDart, Message("closed", p)) /\ UNCHANGED kept
    BY <1>2 DEF HandleClose, Tells, dartVars, lateVars
  <2>2. tty' \in [Ports -> Seq(Bytes)] /\ \A q \in Ports : tty'[q] \in {tty[q], <<>>}
    BY <1>0, <1>2 DEF HandleClose, DeviceTypes
  <2> QED BY <1>0, <2>1, <2>2, PlainMessage DEF Told, DeviceTypes
<1>3. CASE HandleRead(p)
  <2>1. CASE MaxBytes # 0
    <3>1. MaxBytes \in Nat \ {0} /\ 1 \in Nat \ {0}
      BY <2>1, BoundAssumption
    <3>2. (Reply(p, MaxBytes) \/ Reply(p, 1)) /\ UNCHANGED kept
      BY <1>3 DEF HandleRead, dartVars, lateVars
    <3> QED BY <1>0, <3>1, <3>2, ReplyTells
  <2>2. CASE MaxBytes = 0
    <3>1. Bytes = {}
      BY <2>2 DEF Bytes
    <3>2. tty[p] = <<>>
      BY <1>0, <3>1 DEF DeviceTypes
    <3>3. \E k \in Nat : Reply(p, k)
      BY <1>3, BoundAssumption DEF HandleRead
    <3>4. UNCHANGED kept
      BY <1>3 DEF HandleRead, dartVars
    <3> QED BY <1>0, <3>2, <3>3, <3>4, ReplyTells
  <2> QED BY <2>1, <2>2
<1>4. CASE HandleListen(p)
  <2>1. PICK k \in {"listening", "listenFailed"} : toDart' = Append(toDart, Message(k, p))
    BY <1>4 DEF HandleListen, Tells
  <2>2. UNCHANGED <<tty, kept>>
    BY <1>4 DEF HandleListen, deviceVars, dartVars, lateVars
  <2> QED BY <1>0, <2>1, <2>2, PlainMessage DEF Told, DeviceTypes
<1>5. CASE HandleCancel(p)
  <2>1. toDart' = Append(toDart, Message("cancelled", p)) /\ UNCHANGED <<tty, kept>>
    BY <1>5 DEF HandleCancel, Tells, deviceVars, dartVars, lateVars
  <2> QED BY <1>0, <2>1, PlainMessage DEF Told, DeviceTypes
<1> QED BY <1>1, <1>2, <1>3, <1>4, <1>5

(* A timer's callback sends one message, or nothing.                       *)
LEMMA PumpTells ==
    ASSUME TypeOK, NEW s \in sources, Pump(s)
    PROVE  UNCHANGED <<toDart, kept, tty>> \/ (\E m : Told(m))
<1>0. DeviceTypes /\ opened \subseteq Ports
  BY TypeParts DEF PumpTypes
<1>1. CASE active = None /\ UNCHANGED <<toDart, tty>>
  BY <1>1 DEF Pump, dartVars, lateVars
<1>2. CASE active \in Ports /\ Tells(Message("error", active)) /\ UNCHANGED tty
  <2>1. toDart' = Append(toDart, Message("error", active)) /\ UNCHANGED <<tty, kept>>
    BY <1>2 DEF Pump, Tells, dartVars, lateVars
  <2> QED BY <1>0, <1>2, <2>1, PlainMessage DEF Told, DeviceTypes
<1>3. CASE /\ active \in opened /\ tty[active] # <<>>
           /\ Tells([kind |-> "event", port |-> active, data |-> tty[active]])
           /\ tty' = [tty EXCEPT ![active] = <<>>]
  <2> DEFINE m == [kind |-> "event", port |-> active, data |-> tty[active]]
             n == Len(tty[active])
  <2>1. active \in Ports /\ tty[active] \in Seq(Bytes) /\ n \in 1 .. Len(tty[active])
    BY <1>0, <1>3 DEF DeviceTypes
  <2>2. m \in Messages /\ m.port = active /\ Carried(m) = tty[active]
    BY <2>1, DataMessage
  <2>3. /\ tty[active] = SubSeq(tty[active], 1, n)
        /\ <<>> = SubSeq(tty[active], n + 1, Len(tty[active]))
    <3>1. n + 1 \in Int /\ Len(tty[active]) \in Int /\ Len(tty[active]) < n + 1
      BY <2>1
    <3> HIDE DEF n
    <3> QED BY <2>1, <3>1, SubSeqFull, SubSeqEmpty
  <2>4. toDart' = Append(toDart, m) /\ UNCHANGED kept
    BY <1>3 DEF Pump, Tells, dartVars, lateVars
  <2>5. TakenFrom(m, active, n)
    BY <1>3, <2>2, <2>3 DEF TakenFrom
  <2> HIDE DEF n, m
  <2> QED BY <2>1, <2>2, <2>4, <2>5 DEF Told
<1> QED BY <1>1, <1>2, <1>3 DEF Pump

-----------------------------------------------------------------------------
(* The types of what Dart collected, of what waits at the devices and of   *)
(* the two queues.                                                         *)
LEMMA DartTypesStep == IInv /\ [Next]_vars => DartTypes'
<1> SUFFICES ASSUME IInv, [Next]_vars PROVE DartTypes'
  OBVIOUS
<1>0. TypeOK /\ DartTypes
  BY TypeParts DEF IInv
<1>1. line' \in [Ports -> Seq(Bytes)]
  <2>1. ASSUME NEW p \in Ports, ReadUntil(p) PROVE line' \in [Ports -> Seq(Bytes)]
    BY <1>0, <2>1 DEF ReadUntil, DartTypes
  <2>2. CASE BytesRead
    <3>1. Incoming.port \in Ports /\ Incoming.data \in Seq(Bytes)
      BY <1>0, <2>2, FirstMessage, CarriedData DEF BytesRead, Takes
    <3>2. line' \in {line, [line EXCEPT ![Incoming.port] = @ \o Incoming.data]}
      BY <2>2 DEF BytesRead
    <3>3. line[Incoming.port] \o Incoming.data \in Seq(Bytes)
      BY <1>0, <3>1, ConcatProperties DEF DartTypes
    <3> QED BY <1>0, <3>1, <3>2, <3>3 DEF DartTypes
  <2> QED BY <1>0, <2>1, <2>2, WhoCollects DEF DartTypes
<1>2. stream' \in [Ports -> Seq(Bytes)]
  <2>1. CASE Opened
    BY <1>0, <2>1, FirstMessage DEF Opened, DartTypes
  <2>2. CASE BytesRead \/ EventArrives
    <3>1. Incoming.port \in Ports /\ Incoming.data \in Seq(Bytes)
      BY <1>0, <2>2, FirstMessage, CarriedData DEF BytesRead, EventArrives, Takes
    <3>2. stream' \in {stream, [stream EXCEPT ![Incoming.port] = @ \o Incoming.data]}
      BY <2>2 DEF BytesRead, EventArrives
    <3>3. stream[Incoming.port] \o Incoming.data \in Seq(Bytes)
      BY <1>0, <3>1, ConcatProperties DEF DartTypes
    <3> QED BY <1>0, <3>1, <3>2, <3>3 DEF DartTypes
  <2>3. ASSUME NEW p \in Ports, Close(p) PROVE stream' = stream
    BY <2>3 DEF Close
  <2> QED BY <1>0, <2>1, <2>2, <2>3, WhoStreams DEF DartTypes
<1>3. lost' \in [Ports -> SUBSET Bytes]
  <2>1. ASSUME NEW m \in Messages PROVE Data(m) \subseteq Bytes
    <3>1. CASE m.kind = "event"
      <4>1. m.data \in Seq(Bytes)
        BY <3>1, CarriedData
      <4> QED BY <3>1, <4>1 DEF Data, ToSet
    <3> QED BY <3>1 DEF Data
  <2>2. CASE EventIsKept
    <3>1. \A m \in ToSet(kept) : Data(m) \subseteq Bytes
      BY <1>0, <2>1 DEF TypeOK, ToSet
    <3> DEFINE Old(p) == UNION {Data(m) : m \in {k \in ToSet(kept) : k.port = p}}
    <3>2. \A p \in Ports : Old(p) \subseteq Bytes
      BY <3>1
    <3>3. lost' = [p \in Ports |-> lost[p] \cup Old(p)]
      BY <2>2 DEF EventIsKept
    <3> HIDE DEF Old
    <3> QED BY <1>0, <3>2, <3>3 DEF DartTypes
  <2>3. CASE EventArrives
    <3>1. Incoming.port \in Ports /\ Data(Incoming) \subseteq Bytes
      BY <1>0, <2>1, <2>3, FirstMessage DEF EventArrives, Takes
    <3>2. lost' \in {lost, [lost EXCEPT ![Incoming.port] = @ \cup Data(Incoming)]}
      BY <2>3 DEF EventArrives
    <3> QED BY <1>0, <3>1, <3>2 DEF DartTypes
  <2> QED BY <1>0, <2>2, <2>3, WhoLoses DEF DartTypes
<1> QED BY <1>1, <1>2, <1>3 DEF DartTypes

(* What is left at a device when a message was made from what was there.   *)
Stays(p, k) ==
    /\ Len(tty'[p]) = Len(tty[p]) - k
    /\ \A i \in 1 .. Len(tty[p]) - k : tty'[p][i] = tty[p][i + k]

(* A message takes its bytes from the head of the device's queue.          *)
LEMMA ToldLeaves ==
    ASSUME DeviceTypes, NEW m, Told(m)
    PROVE  /\ tty' \in [Ports -> Seq(Bytes)]
           /\ \A p \in Ports : \E k \in 0 .. Len(tty[p]) : Stays(p, k)
<1>0. \A p \in Ports : Len(tty[p]) \in Nat /\ tty[p] \in Seq(Bytes)
  BY DEF DeviceTypes
<1>1. CASE tty' \in [Ports -> Seq(Bytes)] /\ \A p \in Ports : tty'[p] \in {tty[p], <<>>}
  <2> SUFFICES ASSUME NEW p \in Ports PROVE \E k \in 0 .. Len(tty[p]) : Stays(p, k)
    BY <1>1
  <2>1. CASE tty'[p] = tty[p]
    <3>1. Stays(p, 0) /\ 0 \in 0 .. Len(tty[p])
      BY <1>0, <2>1 DEF Stays
    <3> QED BY <3>1
  <2>2. CASE tty'[p] = <<>>
    <3>1. Stays(p, Len(tty[p])) /\ Len(tty[p]) \in 0 .. Len(tty[p])
      BY <1>0, <2>2 DEF Stays
    <3> QED BY <3>1
  <2> QED BY <1>1, <2>1, <2>2
<1>2. ASSUME NEW q \in Ports, NEW n \in 1 .. Len(tty[q]), TakenFrom(m, q, n)
      PROVE  /\ tty' \in [Ports -> Seq(Bytes)]
             /\ \A p \in Ports : \E k \in 0 .. Len(tty[p]) : Stays(p, k)
  <2>1. tty' = [tty EXCEPT ![q] = SubSeq(tty[q], n + 1, Len(tty[q]))]
    BY <1>2 DEF TakenFrom
  <2>2. /\ SubSeq(tty[q], n + 1, Len(tty[q])) \in Seq(Bytes)
        /\ Len(SubSeq(tty[q], n + 1, Len(tty[q]))) = Len(tty[q]) - n
        /\ \A i \in 1 .. Len(tty[q]) - n : SubSeq(tty[q], n + 1, Len(tty[q]))[i] = tty[q][i + n]
    BY <1>0, SplitBytes
  <2>3. Stays(q, n) /\ n \in 0 .. Len(tty[q])
    BY <1>0, <2>1, <2>2 DEF Stays, DeviceTypes
  <2>4. ASSUME NEW p \in Ports, p # q PROVE Stays(p, 0) /\ 0 \in 0 .. Len(tty[p])
    BY <1>0, <2>1, <2>4 DEF Stays, DeviceTypes
  <2>5. tty' \in [Ports -> Seq(Bytes)]
    BY <2>1, <2>2 DEF DeviceTypes
  <2> QED BY <2>3, <2>4, <2>5
<1> QED BY <1>1, <1>2 DEF Told

(* Unless a byte arrives or a handler answers, the bytes at the devices    *)
(* stay.                                                                   *)
LEMMA DevicesMove ==
    ASSUME TypeOK, [Next]_vars
    PROVE  \/ UNCHANGED <<tty, arrived>>
           \/ UNCHANGED <<arrived, stream, handler>> /\ (\E m : Told(m))
           \/ \E p \in Ports : ByteArrives(p)
<1>1. ASSUME NEW p \in Ports, HandleClose(p) \/ HandleRead(p)
      PROVE  UNCHANGED <<arrived, stream, handler>>
  BY <1>1 DEF HandleClose, HandleRead, dartVars, lateVars
<1>2. ASSUME NEW s \in sources, Pump(s) PROVE UNCHANGED <<arrived, stream, handler>>
  BY <1>2 DEF Pump, dartVars, lateVars
<1>3. ASSUME NEW p \in Ports, HandleClose(p) \/ HandleRead(p) PROVE \E m : Told(m)
  BY <1>3, MainThreadTells
<1>4. ASSUME NEW s \in sources, Pump(s) PROVE UNCHANGED tty \/ (\E m : Told(m))
  BY <1>4, PumpTells
<1> QED BY <1>1, <1>2, <1>3, <1>4, WhoReads

(* A step keeps the types of the devices.                                  *)
LEMMA DeviceTypesStep == IInv /\ [Next]_vars => DeviceTypes'
<1> SUFFICES ASSUME IInv, [Next]_vars PROVE DeviceTypes'
  OBVIOUS
<1>0. TypeOK /\ DeviceTypes
  BY TypeParts DEF IInv
<1>1. ASSUME NEW m, Told(m), UNCHANGED arrived PROVE DeviceTypes'
  BY <1>0, <1>1, ToldLeaves DEF DeviceTypes
<1>2. ASSUME NEW p \in Ports, ByteArrives(p) PROVE DeviceTypes'
  <2>1. arrived[p] + 1 \in Bytes
    BY <1>0, <1>2, BoundAssumption DEF ByteArrives, DeviceTypes, Bytes
  <2>2. /\ arrived' = [arrived EXCEPT ![p] = arrived[p] + 1]
        /\ tty' = [tty EXCEPT ![p] = Append(@, arrived[p] + 1)]
    BY <1>0, <1>2 DEF ByteArrives, DeviceTypes
  <2>3. Append(tty[p], arrived[p] + 1) \in Seq(Bytes)
    BY <1>0, <2>1 DEF DeviceTypes
  <2>4. arrived[p] + 1 \in 0 .. MaxBytes
    BY <2>1 DEF Bytes
  <2> QED BY <1>0, <2>2, <2>3, <2>4 DEF DeviceTypes
<1>3. CASE UNCHANGED <<tty, arrived>>
  BY <1>0, <1>3 DEF DeviceTypes
<1> QED BY <1>0, <1>1, <1>2, <1>3, DevicesMove

(* What is on its way to Dart: an answer or an event is added at the end,  *)
(* or one message is taken out.                                            *)
Drops(d) ==
    /\ Len(Coming') = Len(Coming) - 1
    /\ \A i \in 1 .. Len(Coming) - 1 : Coming'[i] = Coming[IF i < d THEN i ELSE i + 1]

(* Two sequences of messages, one after the other.                         *)
LEMMA Joined ==
    ASSUME NEW a \in Seq(Messages), NEW b \in Seq(Messages)
    PROVE  /\ a \o b \in Seq(Messages) /\ Len(a \o b) = Len(a) + Len(b)
           /\ Len(a) \in Nat /\ Len(b) \in Nat
           /\ \A i \in 1 .. Len(a) : (a \o b)[i] = a[i]
           /\ \A i \in 1 .. Len(b) : (a \o b)[Len(a) + i] = b[i]
<1>1. /\ a \o b \in Seq(Messages) /\ Len(a \o b) = Len(a) + Len(b)
      /\ \A i \in 1 .. Len(a) + Len(b) : (a \o b)[i] = IF i <= Len(a) THEN a[i] ELSE b[i - Len(a)]
  BY ConcatProperties
<1>2. Len(a) \in Nat /\ Len(b) \in Nat
  OBVIOUS
<1>3. ASSUME NEW i \in 1 .. Len(b) PROVE (a \o b)[Len(a) + i] = b[i]
  <2>1. Len(a) + i \in 1 .. Len(a) + Len(b) /\ ~(Len(a) + i <= Len(a)) /\ Len(a) + i - Len(a) = i
    BY <1>2
  <2> QED BY <1>1, <2>1
<1> QED BY <1>1, <1>2, <1>3

(* The messages still to be handled are the kept one, then the queue.      *)
LEMMA ComingParts ==
    ASSUME MessageTypes
    PROVE  /\ Coming \in Seq(Messages) /\ Len(Coming) = Len(kept) + Len(toDart)
           /\ Len(kept) \in {0, 1} /\ Len(toDart) \in Nat
           /\ \A i \in 1 .. Len(kept) : Coming[i] = kept[i]
           /\ \A i \in 1 .. Len(toDart) : Coming[Len(kept) + i] = toDart[i]
<1>1. kept \in Seq(Messages) /\ toDart \in Seq(Messages) /\ Len(kept) <= 1
  BY DEF MessageTypes
<1>2. Len(kept) \in {0, 1}
  <2>1. Len(kept) \in Nat
    BY <1>1
  <2>2. \A n \in Nat : n <= 1 => n \in {0, 1}
    OBVIOUS
  <2> QED BY <1>1, <2>1, <2>2
<1> QED BY <1>1, <1>2, Joined DEF Coming

(* A message that is sent is the last to be handled.                       *)
LEMMA ToldComes ==
    ASSUME MessageTypes, NEW m, Told(m)
    PROVE  /\ MessageTypes'
           /\ Len(Coming') = Len(Coming) + 1
           /\ Coming'[Len(Coming) + 1] = m /\ \A i \in 1 .. Len(Coming) : Coming'[i] = Coming[i]
<1>1. /\ toDart' \in Seq(Messages) /\ Len(toDart') = Len(toDart) + 1 /\ kept' = kept
      /\ toDart'[Len(toDart) + 1] = m /\ \A i \in 1 .. Len(toDart) : toDart'[i] = toDart[i]
  BY DEF Told, MessageTypes
<1>2. MessageTypes'
  BY <1>1 DEF MessageTypes
<1>3. /\ Len(Coming') = Len(kept) + Len(toDart')
      /\ \A i \in 1 .. Len(kept) : Coming'[i] = kept[i]
      /\ \A i \in 1 .. Len(toDart') : Coming'[Len(kept) + i] = toDart'[i]
  <2>1. kept \in Seq(Messages) /\ toDart' \in Seq(Messages) /\ Coming' = kept \o toDart'
    BY <1>1 DEF Coming, MessageTypes
  <2> QED BY <2>1, Joined
<1>4. ASSUME NEW i \in 1 .. Len(Coming) PROVE Coming'[i] = Coming[i]
  <2>1. CASE i <= Len(kept)
    BY <1>3, <2>1, ComingParts
  <2>2. CASE i > Len(kept)
    <3> DEFINE j == i - Len(kept)
    <3>1. j \in 1 .. Len(toDart) /\ i = Len(kept) + j /\ j \in 1 .. Len(toDart')
      BY <1>1, <2>2, ComingParts
    <3> HIDE DEF j
    <3>2. Coming'[i] = toDart'[j] /\ Coming[i] = toDart[j] /\ toDart'[j] = toDart[j]
      BY <1>1, <1>3, <3>1, ComingParts
    <3> QED BY <3>2
  <2> QED BY <2>1, <2>2, ComingParts
<1>5. Len(Coming') = Len(Coming) + 1 /\ Len(toDart') \in 1 .. Len(toDart')
  <2>1. Len(kept) \in Nat /\ Len(toDart) \in Nat /\ Len(Coming) = Len(kept) + Len(toDart)
    BY ComingParts
  <2> QED BY <1>1, <1>3, <2>1
<1>6. Coming'[Len(Coming) + 1] = m
  BY <1>1, <1>3, <1>5, ComingParts
<1> QED BY <1>2, <1>4, <1>5, <1>6

(* The isolate takes one of the messages to be handled, at most.           *)
LEMMA IsolateDrops ==
    ASSUME TypeOK, Isolate
    PROVE  MessageTypes' /\ (Coming' = Coming \/ (\E d \in 1 .. Len(Coming) : Drops(d)))
<1>0. /\ MessageTypes /\ toDart # <<>> /\ Incoming = toDart[1] /\ Incoming \in Messages
      /\ toDart \in Seq(Messages) /\ kept \in Seq(Messages) /\ Len(toDart) \in Nat \ {0}
  BY TypeParts, FirstMessage, IsolateTakes DEF MessageTypes
<1>1. /\ Tail(toDart) \in Seq(Messages) /\ Len(Tail(toDart)) = Len(toDart) - 1
      /\ \A i \in 1 .. Len(toDart) - 1 : Tail(toDart)[i] = toDart[i + 1]
  BY <1>0
<1>2. ASSUME Coming' = kept \o Tail(toDart) PROVE \E d \in 1 .. Len(Coming) : Drops(d)
  <2> DEFINE d == Len(kept) + 1
  <2>1. /\ Len(Coming') = Len(kept) + Len(toDart) - 1
        /\ \A i \in 1 .. Len(kept) : Coming'[i] = kept[i]
        /\ \A i \in 1 .. Len(toDart) - 1 : Coming'[Len(kept) + i] = toDart[i + 1]
    BY <1>0, <1>1, <1>2, Joined, ComingParts
  <2>2. d \in 1 .. Len(Coming)
    BY <1>0, ComingParts
  <2>3. ASSUME NEW i \in 1 .. Len(Coming) - 1 PROVE Coming'[i] = Coming[IF i < d THEN i ELSE i + 1]
    <3>1. CASE i < d
      BY <1>0, <2>1, <3>1, ComingParts
    <3>2. CASE ~(i < d)
      <4> DEFINE j == i - Len(kept)
      <4>1. j \in 1 .. Len(toDart) - 1 /\ i = Len(kept) + j /\ j + 1 \in 1 .. Len(toDart)
        BY <1>0, <3>2, ComingParts
      <4>2. i + 1 = Len(kept) + (j + 1)
        BY <1>0, <4>1, ComingParts
      <4> HIDE DEF j
      <4>3. Coming'[i] = toDart[j + 1]
        BY <2>1, <4>1
      <4>4. Coming[i + 1] = toDart[j + 1]
        BY <1>0, <4>1, <4>2, ComingParts
      <4> QED BY <3>2, <4>3, <4>4
    <3> QED BY <3>1, <3>2
  <2>4. Len(Coming') = Len(Coming) - 1
    BY <1>0, <2>1, ComingParts
  <2> HIDE DEF d
  <2>5. Drops(d)
    BY <2>3, <2>4 DEF Drops
  <2> QED BY <2>2, <2>5
<1>3. ASSUME kept' = <<Incoming>>, toDart' = Tail(toDart)
      PROVE  Coming' = Coming \/ (\E d \in 1 .. Len(Coming) : Drops(d))
  <2>1. kept' \in Seq(Messages) /\ Len(kept') = 1 /\ kept'[1] = toDart[1]
    BY <1>0, <1>3
  <2>2. Coming' = kept' \o Tail(toDart)
    BY <1>3 DEF Coming
  <2>3. /\ Coming' \in Seq(Messages) /\ Len(Coming') = Len(toDart) /\ Coming'[1] = toDart[1]
        /\ \A i \in 1 .. Len(toDart) - 1 : Coming'[1 + i] = toDart[i + 1]
    <3>1. /\ Coming' \in Seq(Messages) /\ Len(Coming') = Len(kept') + Len(Tail(toDart))
          /\ \A i \in 1 .. Len(kept') : Coming'[i] = kept'[i]
          /\ \A i \in 1 .. Len(Tail(toDart)) : Coming'[Len(kept') + i] = Tail(toDart)[i]
      BY <1>1, <2>1, <2>2, Joined
    <3>2. 1 \in 1 .. Len(kept') /\ 1 + (Len(toDart) - 1) = Len(toDart)
      BY <1>0, <2>1
    <3> QED BY <1>1, <2>1, <3>1, <3>2
  <2>4. ASSUME NEW i \in 1 .. Len(toDart) PROVE Coming'[i] = toDart[i]
    <3>1. CASE i = 1
      BY <2>3, <3>1
    <3>2. CASE i # 1
      <4>1. i - 1 \in 1 .. Len(toDart) - 1 /\ 1 + (i - 1) = i /\ (i - 1) + 1 = i
        BY <1>0, <3>2
      <4> QED BY <2>3, <4>1
    <3> QED BY <3>1, <3>2
  <2>6. CASE Len(kept) = 0
    <3>1. kept = <<>>
      BY <1>0, <2>6
    <3>2. Len(Coming) = Len(toDart) /\ Coming = toDart
      BY <1>0, <3>1, ConcatEmptySeq DEF Coming
    <3>3. Coming' = Coming
      BY <1>0, <2>3, <2>4, <3>2, SeqEqual
    <3> QED BY <3>3
  <2>7. CASE Len(kept) = 1
    <3>1. Len(Coming) = Len(toDart) + 1 /\ \A i \in 1 .. Len(toDart) : Coming[1 + i] = toDart[i]
      BY <1>0, <2>7, ComingParts
    <3>2. \A i \in 1 .. Len(toDart) : Coming'[i] = Coming[i + 1]
      BY <1>0, <2>4, <3>1
    <3>3. Drops(1) /\ 1 \in 1 .. Len(Coming)
      BY <1>0, <2>3, <3>1, <3>2 DEF Drops
    <3> QED BY <3>3
  <2> QED BY <1>0, <2>6, <2>7, ComingParts
<1>4. CASE Opened
  <2>1. kept' = <<>> /\ toDart' = kept \o Tail(toDart)
    BY <1>4 DEF Opened
  <2>2. toDart' \in Seq(Messages)
    BY <1>0, <1>1, <2>1, ConcatProperties
  <2>3. Coming' = toDart' /\ MessageTypes'
    BY <2>1, <2>2, ConcatEmptySeq DEF Coming, MessageTypes
  <2> QED BY <1>2, <2>1, <2>3
<1>5. CASE EventIsKept
  <2>1. kept' = <<Incoming>> /\ toDart' = Tail(toDart)
    BY <1>5 DEF EventIsKept, Takes
  <2>2. MessageTypes'
    BY <1>0, <1>1, <2>1 DEF MessageTypes
  <2> QED BY <1>3, <2>1, <2>2
<1>6. CASE ~Opened /\ ~EventIsKept
  <2>1. kept' = kept /\ toDart' = Tail(toDart)
    BY <1>6, IsolateTakes DEF Isolate, OpenFailed, Cancelled, Closed, BytesRead, LateAnswer, ReadFailed, EventArrives,
       ErrorArrives, ListenAnswered, dartVars, lateVars
  <2>2. Coming' = kept \o Tail(toDart) /\ MessageTypes'
    BY <1>0, <1>1, <2>1 DEF Coming, MessageTypes
  <2> QED BY <1>2, <2>2
<1> QED BY <1>4, <1>5, <1>6

(* Every step leaves the messages that are on their way alone, adds one at *)
(* the end, or takes one out.                                              *)
LEMMA ComingMoves ==
    ASSUME TypeOK, [Next]_vars
    PROVE  \/ UNCHANGED <<toDart, kept>>
           \/ (UNCHANGED <<stream, handler>> /\ (\E m : Told(m)))
           \/ Isolate
<1>1. ASSUME NEW p \in Ports,
             HandleOpen(p) \/ HandleClose(p) \/ HandleRead(p) \/ HandleListen(p) \/ HandleCancel(p)
      PROVE  (UNCHANGED <<stream, handler>> /\ (\E m : Told(m)))
  <2>1. \E m : Told(m)
    BY <1>1, MainThreadTells
  <2>2. UNCHANGED <<stream, handler>>
    BY <1>1 DEF HandleOpen, HandleClose, HandleRead, HandleListen, HandleCancel, dartVars, lateVars
  <2> QED BY <2>1, <2>2
<1>2. ASSUME NEW s \in sources, Pump(s)
      PROVE  UNCHANGED <<toDart, kept>> \/ (UNCHANGED <<stream, handler>> /\ (\E m : Told(m)))
  <2>1. UNCHANGED <<stream, handler>>
    BY <1>2 DEF Pump, dartVars, lateVars
  <2> QED BY <1>2, <2>1, PumpTells
<1> QED BY <1>1, <1>2, WhoTells

(* A step keeps the types of the messages to Dart.                         *)
LEMMA MessageTypesStep == IInv /\ [Next]_vars => MessageTypes'
<1> SUFFICES ASSUME IInv, [Next]_vars PROVE MessageTypes'
  OBVIOUS
<1>0. TypeOK /\ MessageTypes
  BY TypeParts DEF IInv
<1>1. CASE UNCHANGED <<toDart, kept>>
  BY <1>0, <1>1 DEF MessageTypes
<1> QED BY <1>0, <1>1, ComingMoves, ToldComes, IsolateDrops

(* What is asked of the plugin: its first request is answered, or one is   *)
(* added at the end.                                                       *)
LEMMA RequestsMove ==
    ASSUME TypeOK, [Next]_vars
    PROVE  \/ UNCHANGED toPlugin
           \/ \E r \in Requests : toPlugin' = Append(toPlugin, r)
           \/ toPlugin # <<>> /\ toPlugin' = Tail(toPlugin)
<1>1. ASSUME NEW p \in Ports,
             HandleOpen(p) \/ HandleClose(p) \/ HandleRead(p) \/ HandleListen(p) \/ HandleCancel(p)
      PROVE  toPlugin # <<>> /\ toPlugin' = Tail(toPlugin)
  BY <1>1 DEF HandleOpen, HandleClose, HandleRead, HandleListen, HandleCancel, Receives
<1>2. ASSUME NEW p \in Ports, NEW k \in {"open", "listen", "cancel", "close", "read", "readByte"}, Send(k, p)
      PROVE  \E r \in Requests : toPlugin' = Append(toPlugin, r)
  <2>1. [kind |-> k, port |-> p] \in Requests
    BY DEF Requests
  <2> QED BY <1>2, <2>1 DEF Send
<1>3. ASSUME NEW p \in Ports, Open(p) \/ Close(p) \/ Read(p) \/ ReadUntil(p)
      PROVE  \E r \in Requests : toPlugin' = Append(toPlugin, r)
  BY <1>2, <1>3 DEF Open, Close, Read, ReadUntil
<1>4. ASSUME NEW p \in Ports, ReadUntilGoesOn(p)
      PROVE  UNCHANGED toPlugin \/ (\E r \in Requests : toPlugin' = Append(toPlugin, r))
  BY <1>2, <1>4 DEF ReadUntilGoesOn
<1>5. CASE Opened \/ Cancelled
  <2>1. Incoming.port \in Ports
    BY <1>5, FirstMessage DEF Opened, Cancelled, Takes
  <2> QED BY <1>2, <1>5, <2>1 DEF Opened, Cancelled
<1> QED BY <1>1, <1>3, <1>4, <1>5, WhoAsks

(* Reads that timed out, and what their answers bring.                     *)
LEMMA LateTypesStep == IInv /\ [Next]_vars => LateTypes'
<1> SUFFICES ASSUME IInv, [Next]_vars PROVE LateTypes'
  OBVIOUS
<1>0. TypeOK /\ LateTypes
  BY TypeParts DEF IInv
<1>1. CASE UNCHANGED lateVars
  BY <1>0, <1>1 DEF LateTypes, lateVars
<1>2. CASE LateAnswer
  <2>1. Incoming \in Messages /\ Incoming.port \in Ports
    BY <1>0, <1>2, FirstMessage DEF LateAnswer, Takes
  <2>2. abandoned' \in [Ports -> 0 .. MaxLate]
    BY <1>0, <1>2, <2>1, BoundAssumption DEF LateAnswer, LateTypes
  <2>3. CASE Incoming.kind = "bytes"
    <3>1. Incoming.data \in Seq(Bytes)
      BY <2>1, <2>3, CarriedData
    <3>2. ToSet(Incoming.data) \subseteq Bytes
      BY <3>1 DEF ToSet
    <3>3. missed' = [missed EXCEPT ![Incoming.port] = @ \cup ToSet(Incoming.data)]
      BY <1>2, <2>3 DEF LateAnswer
    <3> QED BY <1>0, <2>1, <2>2, <3>2, <3>3 DEF LateTypes
  <2>4. CASE Incoming.kind # "bytes"
    BY <1>0, <1>2, <2>2, <2>4 DEF LateAnswer, LateTypes
  <2> QED BY <2>3, <2>4
<1>3. ASSUME NEW p \in Ports, ReadTimesOut(p) PROVE LateTypes'
  BY <1>0, <1>3, BoundAssumption DEF ReadTimesOut, LateTypes
<1> QED BY <1>1, <1>2, <1>3, WhoGivesUp

(* A step keeps the types.                                                 *)
LEMMA TypeOKStep == IInv /\ [Next]_vars => TypeOK'
<1> SUFFICES ASSUME IInv, [Next]_vars PROVE TypeOK'
  OBVIOUS
<1>1. TypeOK /\ RequestTypes
  BY TypeParts DEF IInv
<1>2. RequestTypes'
  BY <1>1, RequestsMove DEF RequestTypes
<1>3. CallTypes' /\ PumpTypes' /\ DartTypes' /\ LateTypes' /\ DeviceTypes' /\ MessageTypes'
  BY CallTypesStep, PumpTypesStep, DartTypesStep, LateTypesStep, DeviceTypesStep, MessageTypesStep
<1> QED
  BY <1>2, <1>3
  DEF TypeOK, CallTypes, PumpTypes, DartTypes, LateTypes, DeviceTypes, MessageTypes, RequestTypes

-----------------------------------------------------------------------------
(* The order of the bytes.                                                 *)
LEMMA InBytes ==
    ASSUME NEW s \in Seq(Bytes)
    PROVE  /\ Len(s) \in Nat /\ DOMAIN s = 1 .. Len(s)
           /\ \A i \in DOMAIN s : s[i] \in Nat
<1>1. Len(s) \in Nat /\ DOMAIN s = 1 .. Len(s)
  OBVIOUS
<1>2. Bytes \subseteq Nat
  BY BoundAssumption DEF Bytes
<1>3. \A i \in 1 .. Len(s) : s[i] \in Bytes
  OBVIOUS
<1> QED BY <1>1, <1>2, <1>3

(* What remains of a sequence when some are taken from its front.          *)
LEMMA Remains ==
    ASSUME NEW s \in Seq(Bytes), NEW t \in Seq(Bytes), NEW k \in 0 .. Len(s), NEW n \in Nat,
           Len(t) = Len(s) - k, \A i \in 1 .. Len(s) - k : t[i] = s[i + k],
           Increasing(s), UpTo(s, n)
    PROVE  /\ Increasing(t) /\ UpTo(t, n)
           /\ \A j \in DOMAIN t : \E i \in DOMAIN s : t[j] = s[i]
<1>1. /\ Len(s) \in Nat /\ DOMAIN s = 1 .. Len(s) /\ DOMAIN t = 1 .. Len(s) - k
      /\ \A i \in DOMAIN s : s[i] \in Nat
  BY InBytes
<1>2. \A i \in DOMAIN t : i + k \in DOMAIN s /\ t[i] = s[i + k]
  BY <1>1
<1>3. Increasing(t)
  <2> SUFFICES ASSUME NEW i \in DOMAIN t, NEW j \in DOMAIN t, i < j PROVE t[i] < t[j]
    BY DEF Increasing
  <2>1. i + k < j + k
    BY <1>1
  <2> QED BY <1>2, <2>1 DEF Increasing
<1>4. UpTo(t, n)
  BY <1>2 DEF UpTo
<1> QED BY <1>2, <1>3, <1>4

(* A byte that arrives is numbered after all that came before it.          *)
LEMMA Arrives ==
    ASSUME NEW s \in Seq(Bytes), NEW t \in Seq(Bytes), NEW n \in Nat,
           t = Append(s, n + 1), Increasing(s), UpTo(s, n)
    PROVE  /\ Increasing(t) /\ UpTo(t, n + 1)
           /\ \A j \in DOMAIN t : t[j] > n \/ (\E i \in DOMAIN s : t[j] = s[i])
<1>1. /\ Len(s) \in Nat /\ DOMAIN s = 1 .. Len(s) /\ \A i \in DOMAIN s : s[i] \in Nat
  BY InBytes
<1>2. /\ DOMAIN t = 1 .. Len(s) + 1 /\ t[Len(s) + 1] = n + 1
      /\ \A i \in 1 .. Len(s) : t[i] = s[i]
  BY <1>1
<1>3. \A i \in DOMAIN s : s[i] < n + 1
  BY <1>1 DEF UpTo
<1>4. Increasing(t)
  <2> SUFFICES ASSUME NEW i \in DOMAIN t, NEW j \in DOMAIN t, i < j PROVE t[i] < t[j]
    BY DEF Increasing
  <2>1. CASE j = Len(s) + 1
    BY <1>1, <1>2, <1>3, <2>1
  <2>2. CASE j # Len(s) + 1
    <3>1. i \in DOMAIN s /\ j \in DOMAIN s
      BY <1>1, <1>2, <2>2
    <3> QED BY <1>1, <1>2, <3>1 DEF Increasing
  <2> QED BY <2>1, <2>2
<1>5. UpTo(t, n + 1)
  BY <1>1, <1>2, <1>3 DEF UpTo
<1>6. ASSUME NEW j \in DOMAIN t PROVE t[j] > n \/ (\E i \in DOMAIN s : t[j] = s[i])
  <2>1. CASE j = Len(s) + 1
    BY <1>2, <2>1
  <2>2. CASE j # Len(s) + 1
    BY <1>1, <1>2, <2>2
  <2> QED BY <2>1, <2>2
<1> QED BY <1>4, <1>5, <1>6

(* Bytes that wait at a device waited there, or have just arrived, so what *)
(* was taken before is earlier.                                            *)
Follows(s, n, t) == \A j \in DOMAIN t : t[j] > n \/ (\E i \in DOMAIN s : t[j] = s[i])

Moves(p) ==
    /\ arrived[p] <= arrived'[p]
    /\ Increasing(tty'[p]) /\ UpTo(tty'[p], arrived'[p])
    /\ Follows(tty[p], arrived[p], tty'[p])

(* What a step does to a device's queue.                                   *)
LEMMA DeviceMoves ==
    ASSUME IInv, [Next]_vars
    PROVE  \A p \in Ports : Moves(p)
<1> SUFFICES ASSUME NEW p \in Ports PROVE Moves(p)
  OBVIOUS
<1>1. /\ TypeOK /\ DeviceTypes /\ DeviceTypes'
      /\ Increasing(tty[p]) /\ UpTo(tty[p], arrived[p])
  BY TypeParts, DeviceTypesStep DEF IInv, DeviceShape
<1>2. tty[p] \in Seq(Bytes) /\ tty'[p] \in Seq(Bytes) /\ arrived[p] \in Nat
  BY <1>1 DEF DeviceTypes
<1>3. CASE tty'[p] = tty[p] /\ arrived'[p] = arrived[p]
  BY <1>1, <1>2, <1>3 DEF Moves, Follows
<1>4. ASSUME NEW m, Told(m), UNCHANGED arrived PROVE Moves(p)
  <2>1. PICK k \in 0 .. Len(tty[p]) : Stays(p, k)
    BY <1>1, <1>4, ToldLeaves
  <2>2. /\ Increasing(tty'[p]) /\ UpTo(tty'[p], arrived[p])
        /\ \A j \in DOMAIN tty'[p] : \E i \in DOMAIN tty[p] : tty'[p][j] = tty[p][i]
    BY <1>1, <1>2, <2>1, Remains DEF Stays
  <2> QED BY <1>2, <1>4, <2>2 DEF Moves, Follows
<1>5. ASSUME NEW q \in Ports, ByteArrives(q) PROVE Moves(p)
  <2>1. CASE q = p
    <3>1. arrived'[p] = arrived[p] + 1 /\ tty'[p] = Append(tty[p], arrived[p] + 1)
      BY <1>1, <1>5, <2>1 DEF ByteArrives, DeviceTypes
    <3>2. /\ Increasing(tty'[p]) /\ UpTo(tty'[p], arrived[p] + 1)
          /\ \A j \in DOMAIN tty'[p] :
                tty'[p][j] > arrived[p] \/ (\E i \in DOMAIN tty[p] : tty'[p][j] = tty[p][i])
      BY <1>1, <1>2, <3>1, Arrives
    <3> QED BY <1>2, <3>1, <3>2 DEF Moves, Follows
  <2>2. CASE q # p
    <3>1. tty'[p] = tty[p] /\ arrived'[p] = arrived[p]
      BY <1>1, <1>5, <2>2 DEF ByteArrives, DeviceTypes
    <3> QED BY <1>3, <3>1
  <2> QED BY <2>1, <2>2
<1>6. CASE UNCHANGED <<tty, arrived>>
  BY <1>3, <1>6
<1> QED BY <1>1, <1>4, <1>5, <1>6, DevicesMove

(* What was taken from a device stays earlier than what waits there.       *)
LEMMA StaysEarlier ==
    ASSUME NEW s \in Seq(Bytes), NEW t \in Seq(Bytes), NEW u \in Seq(Bytes),
           NEW n \in Nat, NEW k \in Nat, n <= k,
           UpTo(s, n), Before(s, t), Follows(t, n, u)
    PROVE  UpTo(s, k) /\ Before(s, u)
<1>1. /\ \A i \in DOMAIN s : s[i] \in Nat
      /\ \A i \in DOMAIN t : t[i] \in Nat
      /\ \A i \in DOMAIN u : u[i] \in Nat
  BY InBytes
<1>2. UpTo(s, k)
  BY <1>1 DEF UpTo
<1>3. ASSUME NEW i \in DOMAIN s, NEW j \in DOMAIN u PROVE s[i] < u[j]
  <2>1. s[i] <= n /\ s[i] \in Nat /\ u[j] \in Nat
    BY <1>1 DEF UpTo
  <2>2. CASE u[j] > n
    BY <2>1, <2>2
  <2>3. ASSUME NEW l \in DOMAIN t, u[j] = t[l] PROVE s[i] < u[j]
    BY <2>3 DEF Before
  <2> QED BY <2>2, <2>3 DEF Follows
<1> QED BY <1>2, <1>3 DEF Before

(* What was taken from a device before its queue stays before it.          *)
LEMMA StaysEarlierHere ==
    ASSUME IInv, [Next]_vars, NEW p \in Ports, NEW s \in Seq(Bytes),
           UpTo(s, arrived[p]), Before(s, tty[p])
    PROVE  UpTo(s, arrived'[p]) /\ Before(s, tty'[p])
<1>1. DeviceTypes /\ DeviceTypes' /\ Moves(p)
  BY TypeParts, DeviceTypesStep, DeviceMoves DEF IInv
<1>2. /\ tty[p] \in Seq(Bytes) /\ tty'[p] \in Seq(Bytes) /\ arrived[p] \in Nat /\ arrived'[p] \in Nat
      /\ arrived[p] <= arrived'[p] /\ Follows(tty[p], arrived[p], tty'[p])
  BY <1>1 DEF DeviceTypes, Moves
<1> QED BY <1>2, StaysEarlier

(* Bytes put behind one another.                                           *)
LEMMA Chained ==
    ASSUME NEW a \in Seq(Bytes), NEW b \in Seq(Bytes)
    PROVE  /\ \A n : UpTo(a, n) /\ UpTo(b, n) => UpTo(a \o b, n)
           /\ \A t : Before(a, t) /\ Before(b, t) => Before(a \o b, t)
           /\ \A t : Before(t, a) /\ Before(t, b) => Before(t, a \o b)
           /\ Increasing(a) /\ Increasing(b) /\ Before(a, b) => Increasing(a \o b)
<1>0. /\ Len(a) \in Nat /\ Len(b) \in Nat /\ DOMAIN a = 1 .. Len(a) /\ DOMAIN b = 1 .. Len(b)
  BY InBytes
<1>1. /\ a \o b \in Seq(Bytes) /\ Len(a \o b) = Len(a) + Len(b)
      /\ \A i \in 1 .. Len(a) + Len(b) : (a \o b)[i] = IF i <= Len(a) THEN a[i] ELSE b[i - Len(a)]
  BY ConcatProperties
<1>2. DOMAIN (a \o b) = 1 .. Len(a) + Len(b)
  BY <1>1
<1>3. ASSUME NEW i \in DOMAIN (a \o b)
      PROVE  \/ i \in DOMAIN a /\ (a \o b)[i] = a[i]
             \/ i > Len(a) /\ i - Len(a) \in DOMAIN b /\ (a \o b)[i] = b[i - Len(a)]
  <2>1. CASE i <= Len(a)
    BY <1>0, <1>1, <1>2, <2>1
  <2>2. CASE ~(i <= Len(a))
    BY <1>0, <1>1, <1>2, <2>2
  <2> QED BY <2>1, <2>2
<1> DEFINE c == a \o b
<1> HIDE DEF c
<1>4. /\ DOMAIN c = 1 .. Len(a) + Len(b)
      /\ \A i \in DOMAIN c : \/ i \in DOMAIN a /\ c[i] = a[i]
                             \/ i > Len(a) /\ i - Len(a) \in DOMAIN b /\ c[i] = b[i - Len(a)]
  BY <1>2, <1>3 DEF c
<1>5. ASSUME NEW n, UpTo(a, n), UpTo(b, n) PROVE UpTo(c, n)
  BY <1>4, <1>5 DEF UpTo
<1>6. ASSUME NEW t, Before(a, t), Before(b, t) PROVE Before(c, t)
  BY <1>4, <1>6 DEF Before
<1>7. ASSUME NEW t, Before(t, a), Before(t, b) PROVE Before(t, c)
  BY <1>4, <1>7 DEF Before
<1>8. ASSUME Increasing(a), Increasing(b), Before(a, b) PROVE Increasing(c)
  <2> SUFFICES ASSUME NEW i \in DOMAIN c, NEW j \in DOMAIN c, i < j PROVE c[i] < c[j]
    BY DEF Increasing
  <2>1. CASE i \in DOMAIN a /\ c[i] = a[i]
    <3>1. CASE j \in DOMAIN a /\ c[j] = a[j]
      BY <1>8, <2>1, <3>1 DEF Increasing
    <3>2. CASE j - Len(a) \in DOMAIN b /\ c[j] = b[j - Len(a)]
      BY <1>8, <2>1, <3>2 DEF Before
    <3> QED BY <1>4, <3>1, <3>2
  <2>2. CASE i > Len(a) /\ i - Len(a) \in DOMAIN b /\ c[i] = b[i - Len(a)]
    <3>1. j > Len(a)
      BY <1>0, <1>4, <2>2
    <3>2. j - Len(a) \in DOMAIN b /\ c[j] = b[j - Len(a)]
      BY <1>0, <1>4, <3>1
    <3>3. i - Len(a) < j - Len(a)
      BY <1>0, <1>4
    <3> QED BY <1>8, <2>2, <3>2, <3>3 DEF Increasing
  <2> QED BY <1>4, <2>1, <2>2
<1> QED BY <1>5, <1>6, <1>7, <1>8 DEF c

(* The message the isolate takes is one of those on their way.             *)
LEMMA IncomingComes ==
    ASSUME IInv, Isolate
    PROVE  /\ Incoming = toDart[1] /\ Incoming \in Messages /\ Incoming.port \in Ports
           /\ Carried(Incoming) \in Seq(Bytes) /\ Increasing(Carried(Incoming))
           /\ UpTo(Carried(Incoming), arrived[Incoming.port])
           /\ Before(Carried(Incoming), tty[Incoming.port])
<1>1. /\ MessageTypes /\ toDart # <<>> /\ Incoming = toDart[1] /\ Incoming \in Messages
  BY TypeParts, FirstMessage, IsolateTakes DEF IInv
<1>2. Len(toDart) \in Nat /\ 1 \in 1 .. Len(toDart)
  BY <1>1 DEF MessageTypes
<1>3. Coming[Len(kept) + 1] = Incoming /\ Len(kept) + 1 \in DOMAIN Coming
  BY <1>1, <1>2, ComingParts
<1> QED BY <1>1, <1>3, MessageParts DEF IInv, MessageShape

(* What the application has got of a port: no more than before, nothing    *)
(* yet, or the bytes of the message that is taken as well.                 *)
Gains(p) ==
    /\ Isolate /\ ~Opened /\ ~EventIsKept /\ p = Incoming.port
    /\ Incoming.kind = "bytes" \/ handler = p
    /\ stream'[p] = stream[p] \o Carried(Incoming)

(* A stream stays, ends, or gains what the isolate takes.                  *)
LEMMA StreamMoves ==
    ASSUME IInv, [Next]_vars, NEW p \in Ports
    PROVE  stream'[p] \in {stream[p], <<>>} \/ Gains(p)
<1>1. TypeOK /\ DartTypes
  BY TypeParts DEF IInv
<1>2. CASE Opened
  BY <1>1, <1>2, FirstMessage DEF Opened, DartTypes
<1>3. ASSUME BytesRead \/ EventArrives, stream'[p] # stream[p] PROVE Gains(p)
  <2>1. Isolate /\ ~Opened /\ ~EventIsKept
    BY <1>3 DEF Isolate, BytesRead, EventArrives, Opened, EventIsKept, Takes
  <2>2. /\ Incoming \in Messages /\ Incoming.port \in Ports /\ Incoming.kind \in {"bytes", "event"}
        /\ Incoming.data = Carried(Incoming)
    BY <1>1, <1>3, FirstMessage, CarriedData DEF BytesRead, EventArrives, Takes
  <2>3. /\ stream' = [stream EXCEPT ![Incoming.port] = @ \o Incoming.data]
        /\ Incoming.kind = "bytes" \/ handler = Incoming.port
    BY <1>3 DEF BytesRead, EventArrives, Takes
  <2> QED BY <1>1, <1>3, <2>1, <2>2, <2>3 DEF Gains, DartTypes
<1>4. ASSUME NEW q \in Ports, Close(q) PROVE stream' = stream
  BY <1>4 DEF Close
<1> QED BY <1>2, <1>3, <1>4, WhoStreams

(* What a stream gains comes after what it has.                            *)
LEMMA GainsInOrder ==
    ASSUME IInv, NEW p \in Ports, Gains(p)
    PROVE  /\ stream[p] \in Seq(Bytes) /\ Carried(Incoming) \in Seq(Bytes)
           /\ Before(stream[p], Carried(Incoming)) /\ Increasing(Carried(Incoming))
           /\ UpTo(Carried(Incoming), arrived[p]) /\ Before(Carried(Incoming), tty[p])
<1>1. /\ stream[p] \in Seq(Bytes) /\ Incoming = toDart[1] /\ toDart # <<>> /\ toDart \in Seq(Messages)
  BY TypeParts, FirstMessage, IsolateTakes DEF IInv, DartTypes, Gains, MessageTypes
<1>2. 1 \in DOMAIN toDart
  BY <1>1
<1>3. Before(stream[p], Carried(Incoming))
  BY <1>1, <1>2 DEF IInv, StreamShape, Gains
<1> QED BY <1>1, <1>3, IncomingComes DEF Gains

(* What waits at the device is later than what was taken from it.          *)
LEMMA DeviceShapeStep == IInv /\ [Next]_vars => DeviceShape'
<1> SUFFICES ASSUME IInv, [Next]_vars, NEW p \in Ports
             PROVE  /\ Increasing(tty'[p]) /\ UpTo(tty'[p], arrived'[p])
                    /\ UpTo(stream'[p], arrived'[p]) /\ Before(stream'[p], tty'[p])
  BY DEF DeviceShape
<1>0. stream[p] \in Seq(Bytes) /\ UpTo(stream[p], arrived[p]) /\ Before(stream[p], tty[p])
  BY TypeParts DEF IInv, DartTypes, DeviceShape
<1>1. Increasing(tty'[p]) /\ UpTo(tty'[p], arrived'[p])
  BY DeviceMoves DEF Moves
<1>2. CASE stream'[p] = stream[p]
  BY <1>0, <1>1, <1>2, StaysEarlierHere
<1>3. CASE stream'[p] = <<>>
  BY <1>1, <1>3 DEF UpTo, Before
<1>4. CASE Gains(p)
  <2> DEFINE s == stream[p] \o Carried(Incoming)
  <2>1. s \in Seq(Bytes) /\ UpTo(s, arrived[p]) /\ Before(s, tty[p])
    BY <1>0, <1>4, GainsInOrder, Chained
  <2>2. stream'[p] = s
    BY <1>4 DEF Gains
  <2> HIDE DEF s
  <2> QED BY <1>1, <2>1, <2>2, StaysEarlierHere
<1> QED BY <1>2, <1>3, <1>4, StreamMoves

(* The application gets the bytes in the order they came.                  *)
LEMMA BytesInOrderStep == IInv /\ [Next]_vars => BytesInOrder'
<1> SUFFICES ASSUME IInv, [Next]_vars, NEW p \in Ports PROVE Increasing(stream'[p])
  BY DEF BytesInOrder, Increasing
<1>1. Increasing(stream[p])
  BY DEF IInv, BytesInOrder, Increasing
<1>2. CASE stream'[p] = stream[p]
  BY <1>1, <1>2
<1>3. CASE stream'[p] = <<>>
  BY <1>3 DEF Increasing
<1>4. CASE Gains(p)
  BY <1>1, <1>4, GainsInOrder, Chained DEF Gains
<1> QED BY <1>2, <1>3, <1>4, StreamMoves

(* Messages that are on their way stay in order.                           *)
Fits(m) ==
    /\ Increasing(Carried(m)) /\ UpTo(Carried(m), arrived[m.port])
    /\ Before(Carried(m), tty[m.port])

(* A message that fits goes on fitting.                                    *)
LEMMA FitsStays ==
    ASSUME IInv, [Next]_vars, NEW m \in Messages, Fits(m)
    PROVE  /\ Increasing(Carried(m)) /\ UpTo(Carried(m), arrived'[m.port])
           /\ Before(Carried(m), tty'[m.port])
  BY MessageParts, StaysEarlierHere DEF Fits

(* A message that is made carries what comes after everything taken before.*)
LEMMA ToldFits ==
    ASSUME IInv, NEW m, Told(m)
    PROVE  /\ Increasing(Carried(m)) /\ UpTo(Carried(m), arrived[m.port])
           /\ Before(Carried(m), tty'[m.port])
           /\ \A s : Before(s, tty[m.port]) => Before(s, Carried(m))
<1>0. DeviceTypes /\ DeviceShape
  BY TypeParts DEF IInv
<1>1. CASE Carried(m) = <<>>
  BY <1>1 DEF Increasing, UpTo, Before
<1>2. ASSUME NEW p \in Ports, NEW n \in 1 .. Len(tty[p]), TakenFrom(m, p, n)
      PROVE  /\ Increasing(Carried(m)) /\ UpTo(Carried(m), arrived[m.port])
             /\ Before(Carried(m), tty'[m.port])
             /\ \A s : Before(s, tty[m.port]) => Before(s, Carried(m))
  <2> DEFINE c == SubSeq(tty[p], 1, n)
             r == SubSeq(tty[p], n + 1, Len(tty[p]))
  <2>1. tty[p] \in Seq(Bytes) /\ Increasing(tty[p]) /\ UpTo(tty[p], arrived[p])
    BY <1>0 DEF DeviceTypes, DeviceShape
  <2>2. /\ c \in Seq(Bytes) /\ Len(c) = n /\ \A i \in 1 .. n : c[i] = tty[p][i]
        /\ r \in Seq(Bytes) /\ Len(r) = Len(tty[p]) - n
        /\ \A i \in 1 .. Len(tty[p]) - n : r[i] = tty[p][i + n]
    BY <2>1, SplitBytes
  <2>3. m.port = p /\ Carried(m) = c /\ tty'[p] = r
    BY <1>0, <1>2 DEF TakenFrom, DeviceTypes
  <2> HIDE DEF c, r
  <2>4. /\ Len(tty[p]) \in Nat /\ DOMAIN tty[p] = 1 .. Len(tty[p]) /\ DOMAIN c = 1 .. n
        /\ DOMAIN r = 1 .. Len(tty[p]) - n
    BY <2>1, <2>2, InBytes
  <2>5. \A i \in DOMAIN c : i \in DOMAIN tty[p] /\ c[i] = tty[p][i]
    BY <2>2, <2>4
  <2>6. Increasing(c) /\ UpTo(c, arrived[p])
    BY <2>1, <2>5 DEF Increasing, UpTo
  <2>7. \A s : Before(s, tty[p]) => Before(s, c)
    BY <2>5 DEF Before
  <2>8. ASSUME NEW i \in DOMAIN c, NEW j \in DOMAIN r PROVE c[i] < r[j]
    <3>1. j + n \in DOMAIN tty[p] /\ r[j] = tty[p][j + n] /\ i < j + n
      BY <2>2, <2>4
    <3> QED BY <2>1, <2>5, <3>1 DEF Increasing
  <2> QED BY <2>3, <2>6, <2>7, <2>8 DEF Before
<1> QED BY <1>1, <1>2 DEF Told

(* A step keeps the messages to Dart in the order of their bytes.          *)
LEMMA MessageShapeStep == IInv /\ [Next]_vars => MessageShape'
<1> SUFFICES ASSUME IInv, [Next]_vars PROVE MessageShape'
  OBVIOUS
<1>0. /\ TypeOK /\ MessageTypes /\ Coming \in Seq(Messages)
      /\ Len(Coming) \in Nat /\ DOMAIN Coming = 1 .. Len(Coming)
      /\ \A i \in 1 .. Len(Coming) : Fits(Coming[i])
      /\ \A i, j \in 1 .. Len(Coming) :
            i < j /\ Coming[i].port = Coming[j].port => Before(Carried(Coming[i]), Carried(Coming[j]))
  <2>1. TypeOK /\ MessageTypes /\ Coming \in Seq(Messages) /\ MessageShape
    BY TypeParts, ComingParts DEF IInv
  <2> QED BY <2>1 DEF MessageShape, Fits
<1>1. MessageTypes' /\ Coming' \in Seq(Messages) /\ DOMAIN Coming' = 1 .. Len(Coming')
  <2>1. MessageTypes'
    BY MessageTypesStep
  <2>2. kept' \in Seq(Messages) /\ toDart' \in Seq(Messages)
    BY <2>1 DEF MessageTypes
  <2>3. Coming' \in Seq(Messages)
    BY <2>2, ConcatProperties DEF Coming
  <2> QED BY <2>1, <2>3
<1>2. ASSUME NEW i \in 1 .. Len(Coming)
      PROVE  /\ Increasing(Carried(Coming[i])) /\ UpTo(Carried(Coming[i]), arrived'[Coming[i].port])
             /\ Before(Carried(Coming[i]), tty'[Coming[i].port])
  <2>1. Coming[i] \in Messages /\ Fits(Coming[i])
    BY <1>0
  <2> QED BY <2>1, FitsStays
<1>3. CASE Coming' = Coming
  BY <1>0, <1>2, <1>3 DEF MessageShape
<1>4. ASSUME NEW d \in 1 .. Len(Coming), Drops(d) PROVE MessageShape'
  <2> DEFINE f(i) == IF i < d THEN i ELSE i + 1
  <2>1. \A i \in 1 .. Len(Coming) - 1 : f(i) \in 1 .. Len(Coming) /\ Coming'[i] = Coming[f(i)]
    BY <1>0, <1>4 DEF Drops
  <2>2. \A i, j \in 1 .. Len(Coming) - 1 : i < j => f(i) < f(j)
    BY <1>0
  <2>3. DOMAIN Coming' = 1 .. Len(Coming) - 1
    BY <1>1, <1>4 DEF Drops
  <2> HIDE DEF f
  <2>4. ASSUME NEW i \in DOMAIN Coming'
        PROVE  /\ Increasing(Carried(Coming'[i])) /\ UpTo(Carried(Coming'[i]), arrived'[Coming'[i].port])
               /\ Before(Carried(Coming'[i]), tty'[Coming'[i].port])
    BY <1>2, <2>1, <2>3
  <2>5. ASSUME NEW i \in DOMAIN Coming', NEW j \in DOMAIN Coming', i < j,
               Coming'[i].port = Coming'[j].port
        PROVE  Before(Carried(Coming'[i]), Carried(Coming'[j]))
    BY <1>0, <2>1, <2>2, <2>3, <2>5
  <2> QED BY <2>4, <2>5 DEF MessageShape
<1>5. ASSUME NEW m, Told(m) PROVE MessageShape'
  <2> DEFINE n == Len(Coming)
  <2>1. /\ Len(Coming') = n + 1 /\ Coming'[n + 1] = m
        /\ \A i \in 1 .. n : Coming'[i] = Coming[i]
    BY <1>0, <1>5, ToldComes
  <2>2. DOMAIN Coming' = 1 .. n + 1 /\ n \in Nat
    BY <1>0, <1>1, <2>1
  <2>3. m \in Messages /\ m.port \in Ports /\ arrived[m.port] <= arrived'[m.port]
    BY <1>5, MessageParts, DeviceMoves DEF Told, Moves
  <2>4. \A i \in DOMAIN Coming' : i \in 1 .. n \/ i = n + 1
    BY <2>2
  <2>5. /\ Increasing(Carried(m)) /\ UpTo(Carried(m), arrived[m.port]) /\ Before(Carried(m), tty'[m.port])
        /\ \A s : Before(s, tty[m.port]) => Before(s, Carried(m))
    BY <1>5, ToldFits
  <2>6. UpTo(Carried(m), arrived'[m.port])
    <3>1. /\ arrived[m.port] \in Nat /\ arrived'[m.port] \in Nat
          /\ \A i \in DOMAIN Carried(m) : Carried(m)[i] \in Nat
      BY <2>3, MessageParts, InBytes, TypeParts, DeviceTypesStep DEF IInv, DeviceTypes
    <3> QED BY <2>3, <2>5, <3>1 DEF UpTo
  <2> HIDE DEF n
  <2>7. ASSUME NEW i \in DOMAIN Coming'
        PROVE  /\ Increasing(Carried(Coming'[i])) /\ UpTo(Carried(Coming'[i]), arrived'[Coming'[i].port])
               /\ Before(Carried(Coming'[i]), tty'[Coming'[i].port])
    <3>1. CASE i \in 1 .. n
      BY <1>2, <2>1, <3>1 DEF n
    <3>2. CASE i = n + 1
      BY <2>1, <2>5, <2>6, <3>2
    <3> QED BY <2>4, <3>1, <3>2
  <2>8. ASSUME NEW i \in DOMAIN Coming', NEW j \in DOMAIN Coming', i < j,
               Coming'[i].port = Coming'[j].port
        PROVE  Before(Carried(Coming'[i]), Carried(Coming'[j]))
    <3>1. i \in 1 .. n
      BY <2>2, <2>4, <2>8
    <3>2. CASE j \in 1 .. n
      BY <1>0, <2>1, <2>8, <3>1, <3>2 DEF n
    <3>3. CASE j = n + 1
      <4>1. Coming[i].port = m.port /\ Coming'[i] = Coming[i] /\ Fits(Coming[i])
        BY <1>0, <2>1, <2>8, <3>1, <3>3 DEF n
      <4> QED BY <2>1, <2>5, <3>3, <4>1 DEF Fits
    <3> QED BY <2>4, <3>2, <3>3
  <2> QED BY <2>7, <2>8 DEF MessageShape
<1>6. CASE UNCHANGED <<toDart, kept>>
  BY <1>3, <1>6 DEF Coming
<1> QED BY <1>0, <1>3, <1>4, <1>5, <1>6, ComingMoves, IsolateDrops

(* Only events are kept, while nobody listens.                             *)
LEMMA KeptShapeStep == IInv /\ [Next]_vars => KeptShape'
<1> SUFFICES ASSUME IInv, [Next]_vars PROVE KeptShape'
  OBVIOUS
<1>0. KeptShape /\ TypeOK
  BY DEF IInv
<1>1. CASE UNCHANGED <<kept, handler>>
  BY <1>0, <1>1 DEF KeptShape
<1>2. CASE Opened
  BY <1>2 DEF Opened, KeptShape
<1>3. CASE EventIsKept
  BY <1>3 DEF EventIsKept, Takes, KeptShape
<1>4. ASSUME NEW p \in Ports, Close(p) PROVE KeptShape'
  BY <1>0, <1>4 DEF Close, KeptShape
<1>5. CASE Isolate /\ ~Opened /\ ~EventIsKept
  <2>1. UNCHANGED <<kept, handler>>
    BY <1>5 DEF Isolate, OpenFailed, Cancelled, Closed, BytesRead, LateAnswer, ReadFailed, EventArrives, ErrorArrives,
       ListenAnswered, dartVars, lateVars
  <2> QED BY <1>1, <2>1
<1>6. CASE UNCHANGED handler /\ \E m : Told(m)
  <2>1. UNCHANGED kept
    BY <1>6 DEF Told
  <2> QED BY <1>1, <1>6, <2>1
<1>7. CASE UNCHANGED <<toDart, kept>>
  <2>1. CASE UNCHANGED <<stream, handler>>
    BY <1>1, <1>7, <2>1
  <2>2. CASE BytesRead \/ EventArrives
    BY <1>1, <2>2 DEF BytesRead, EventArrives
  <2> QED BY <1>2, <1>4, <2>1, <2>2, WhoStreams
<1> QED BY <1>0, <1>2, <1>3, <1>5, <1>6, <1>7, ComingMoves

(* A message the application will get fits behind what it has.             *)
Heard(m) == m.kind = "bytes" \/ handler = m.port

(* A step keeps each stream before the messages still to come.             *)
LEMMA StreamShapeStep == IInv /\ [Next]_vars => StreamShape'
<1> SUFFICES ASSUME IInv, [Next]_vars PROVE StreamShape'
  OBVIOUS
<1>0. /\ TypeOK /\ DeviceShape /\ KeptShape /\ None \notin Ports
      /\ DartTypes /\ MessageTypes /\ toDart \in Seq(Messages) /\ Len(toDart) \in Nat
      /\ DOMAIN toDart = 1 .. Len(toDart)
      /\ \A i \in DOMAIN toDart :
            toDart[i] \in Messages /\ (Heard(toDart[i]) => Before(stream[toDart[i].port], Carried(toDart[i])))
  <2>1. /\ TypeOK /\ DeviceShape /\ KeptShape /\ None \notin Ports /\ StreamShape
        /\ DartTypes /\ MessageTypes /\ toDart \in Seq(Messages)
    BY TypeParts, NoneAssumption DEF IInv, MessageTypes
  <2> QED BY <2>1 DEF StreamShape, Heard
<1>1. CASE UNCHANGED <<toDart, stream, handler>>
  BY <1>0, <1>1 DEF StreamShape, Heard
<1>2. ASSUME NEW p \in Ports, Close(p) PROVE StreamShape'
  <2>1. handler' = None /\ UNCHANGED <<toDart, stream>>
    BY <1>2 DEF Close
  <2>2. \A i \in DOMAIN toDart : toDart[i].port \in Ports
    BY <1>0, MessageParts
  <2> QED BY <1>0, <2>1, <2>2 DEF StreamShape, Heard
<1>3. ASSUME NEW m, Told(m), UNCHANGED <<stream, handler>> PROVE StreamShape'
  <2>1. /\ DOMAIN toDart' = 1 .. Len(toDart) + 1 /\ toDart'[Len(toDart) + 1] = m
        /\ \A i \in 1 .. Len(toDart) : toDart'[i] = toDart[i]
    BY <1>0, <1>3 DEF Told
  <2>2. Before(stream[m.port], Carried(m))
    <3>1. m.port \in Ports /\ Before(stream[m.port], tty[m.port])
      BY <1>0, <1>3, MessageParts DEF Told, DeviceShape
    <3> QED BY <1>3, <3>1, ToldFits
  <2>3. ASSUME NEW i \in DOMAIN toDart', Heard(toDart'[i])
        PROVE  Before(stream[toDart'[i].port], Carried(toDart'[i]))
    <3>1. CASE i = Len(toDart) + 1
      BY <2>1, <2>2, <3>1
    <3>2. CASE i # Len(toDart) + 1
      <4>1. i \in DOMAIN toDart /\ toDart'[i] = toDart[i]
        BY <1>0, <2>1, <3>2
      <4> QED BY <1>0, <2>3, <4>1
    <3> QED BY <3>1, <3>2
  <2> QED BY <1>3, <2>3 DEF StreamShape, Heard
<1>4. ASSUME Isolate PROVE StreamShape'
  <2>1. toDart # <<>> /\ Incoming = toDart[1] /\ Incoming \in Messages /\ Incoming.port \in Ports
    BY <1>4, IsolateTakes, IncomingComes
  <2>2. /\ Tail(toDart) \in Seq(Messages) /\ DOMAIN Tail(toDart) = 1 .. Len(toDart) - 1
        /\ \A i \in 1 .. Len(toDart) - 1 : Tail(toDart)[i] = toDart[i + 1] /\ i + 1 \in DOMAIN toDart
    BY <1>0, <2>1
  <2>3. CASE Opened
    <3>1. /\ stream' = [stream EXCEPT ![Incoming.port] = <<>>] /\ handler' = Incoming.port
          /\ toDart' = kept \o Tail(toDart)
      BY <2>3 DEF Opened
    <3>2. ASSUME NEW i \in DOMAIN toDart', toDart'[i].kind = "bytes" \/ handler' = toDart'[i].port
          PROVE  Before(stream'[toDart'[i].port], Carried(toDart'[i]))
      <4>1. CASE toDart'[i].port = Incoming.port
        <5>1. stream'[toDart'[i].port] = <<>>
          BY <1>0, <2>1, <3>1, <4>1 DEF DartTypes
        <5> QED BY <5>1 DEF Before
      <4>2. CASE toDart'[i].port # Incoming.port
        <5>1. toDart'[i].kind = "bytes"
          BY <3>1, <3>2, <4>2
        <5>2. kept \in Seq(Messages) /\ Len(kept) \in Nat /\ DOMAIN kept = 1 .. Len(kept)
          BY <1>0 DEF MessageTypes
        <5>3. /\ toDart' \in Seq(Messages) /\ DOMAIN toDart' = 1 .. Len(kept) + (Len(toDart) - 1)
              /\ \A k \in 1 .. Len(kept) : toDart'[k] = kept[k]
              /\ \A k \in 1 .. Len(toDart) - 1 : toDart'[Len(kept) + k] = Tail(toDart)[k]
          <6>1. Len(Tail(toDart)) = Len(toDart) - 1
            BY <1>0, <2>1
          <6>2. toDart' \in Seq(Messages) /\ Len(toDart') = Len(kept) + (Len(toDart) - 1)
            BY <2>2, <3>1, <5>2, <6>1, Joined
          <6> QED BY <2>2, <3>1, <5>2, <6>1, <6>2, Joined
        <5>4. i \notin 1 .. Len(kept)
          BY <1>0, <5>1, <5>2, <5>3 DEF KeptShape
        <5>5. i - Len(kept) \in 1 .. Len(toDart) - 1 /\ Len(kept) + (i - Len(kept)) = i
          BY <1>0, <5>2, <5>3, <5>4
        <5>6. toDart'[i] = toDart[i - Len(kept) + 1] /\ i - Len(kept) + 1 \in DOMAIN toDart
          BY <2>2, <5>3, <5>5
        <5>7. Before(stream[toDart'[i].port], Carried(toDart'[i])) /\ toDart'[i].port \in Ports
          BY <1>0, <5>1, <5>6, MessageParts DEF Heard
        <5>8. stream'[toDart'[i].port] = stream[toDart'[i].port]
          BY <1>0, <2>1, <3>1, <4>2, <5>7 DEF DartTypes
        <5> QED BY <5>7, <5>8
      <4> QED BY <4>1, <4>2
    <3> QED BY <3>2 DEF StreamShape
  <2>4. CASE ~Opened
    <3>1. toDart' = Tail(toDart) /\ handler' = handler
      BY <1>4, <2>4, IsolateTakes DEF Isolate, OpenFailed, Cancelled, Closed, BytesRead, LateAnswer, ReadFailed,
         EventIsKept, EventArrives, ErrorArrives, ListenAnswered, dartVars, lateVars
    <3>2. ASSUME NEW i \in DOMAIN toDart', toDart'[i].kind = "bytes" \/ handler' = toDart'[i].port
          PROVE  Before(stream'[toDart'[i].port], Carried(toDart'[i]))
      <4> DEFINE m == toDart'[i]
      <4>1. m = toDart[i + 1] /\ i + 1 \in DOMAIN toDart /\ i \in 1 .. Len(toDart) - 1
        BY <2>2, <3>1
      <4>2. m \in Messages /\ m.port \in Ports /\ Before(stream[m.port], Carried(m)) /\ Carried(m) \in Seq(Bytes)
        BY <1>0, <3>1, <3>2, <4>1, MessageParts DEF Heard
      <4>3. CASE Gains(m.port)
        <5>1. Coming[Len(kept) + 1] = Incoming /\ Coming[Len(kept) + (i + 1)] = m
          BY <1>0, <2>1, <4>1, ComingParts
        <5>2. Len(kept) + 1 \in DOMAIN Coming /\ Len(kept) + (i + 1) \in DOMAIN Coming
          BY <1>0, <4>1, ComingParts
        <5>3. Len(kept) + 1 < Len(kept) + (i + 1)
          BY <1>0, <4>1, ComingParts
        <5>4. Before(Carried(Incoming), Carried(m))
          <6> HIDE DEF m
          <6> QED BY <4>3, <5>1, <5>2, <5>3 DEF IInv, MessageShape, Gains
        <5>5. stream'[m.port] = stream[m.port] \o Carried(Incoming)
          BY <4>3 DEF Gains
        <5>6. stream[m.port] \in Seq(Bytes) /\ Carried(Incoming) \in Seq(Bytes)
          BY <4>2, <4>3, GainsInOrder
        <5> HIDE DEF m
        <5>7. Before(stream[m.port] \o Carried(Incoming), Carried(m))
          BY <4>2, <5>4, <5>6, Chained
        <5> QED BY <5>5, <5>7 DEF m
      <4>4. CASE stream'[m.port] = stream[m.port]
        BY <4>2, <4>4
      <4>5. CASE stream'[m.port] = <<>>
        BY <4>5 DEF Before
      <4> QED BY <4>2, <4>3, <4>4, <4>5, StreamMoves
    <3> QED BY <3>2 DEF StreamShape
  <2> QED BY <2>3, <2>4
<1>5. CASE UNCHANGED <<toDart, kept>>
  <2>1. CASE Opened \/ BytesRead \/ EventArrives
    BY <1>4, <2>1 DEF Isolate
  <2> QED BY <1>1, <1>2, <1>5, <2>1, WhoStreams
<1> QED BY <1>0, <1>3, <1>4, <1>5, ComingMoves

-----------------------------------------------------------------------------
(* The requests and answers that take a port from phase to phase.          *)
Clear(q, p) == \A i \in DOMAIN q : Steers(q[i]) => q[i].port # p

Once(q, p) ==
    \A i, j \in DOMAIN q :
        i # j /\ Steers(q[i]) /\ Steers(q[j]) /\ q[i].port = p => q[j].port # p

Kinds(q, p, K) == \A i \in DOMAIN q : Steers(q[i]) /\ q[i].port = p => q[i].kind \in K

Steered(p) ==
    /\ Kinds(toPlugin, p, Expected(phase[p])) /\ Kinds(toDart, p, Expected(phase[p]))
    /\ Once(toPlugin, p) /\ Once(toDart, p)
    /\ Clear(toPlugin, p) \/ Clear(toDart, p)

(* The phases of the ports, one port at a time.                            *)
LEMMA SteeredParts == PhaseShape => \A p \in Ports : Steered(p)
<1> SUFFICES ASSUME PhaseShape, NEW p \in Ports PROVE Steered(p)
  OBVIOUS
<1>1. Kinds(toPlugin, p, Expected(phase[p])) /\ Kinds(toDart, p, Expected(phase[p]))
  BY DEF PhaseShape, Kinds
<1>2. Once(toPlugin, p) /\ Once(toDart, p)
  BY DEF PhaseShape, Once
<1>3. Clear(toPlugin, p) \/ Clear(toDart, p)
  BY DEF PhaseShape, Clear
<1> QED BY <1>1, <1>2, <1>3 DEF Steered

(* The phases of all the ports, from each of them.                         *)
LEMMA SteeredWhole ==
    ASSUME toPlugin' \in Seq(Requests), toDart' \in Seq(Messages), \A p \in Ports : Steered(p)'
    PROVE  PhaseShape'
<1>1. /\ \A i \in DOMAIN toPlugin' : toPlugin'[i].port \in Ports
      /\ \A i \in DOMAIN toDart' : toDart'[i].port \in Ports
  <2>1. \A m \in Requests : m.port \in Ports
    BY DEF Requests
  <2>2. \A m \in Messages : m.port \in Ports
    BY MessageParts
  <2> QED BY <2>1, <2>2
<1>2. \A p \in Ports : /\ Kinds(toPlugin', p, Expected(phase'[p])) /\ Kinds(toDart', p, Expected(phase'[p]))
                       /\ Once(toPlugin', p) /\ Once(toDart', p)
                       /\ Clear(toPlugin', p) \/ Clear(toDart', p)
  BY DEF Steered
<1>3. /\ \A i \in DOMAIN toPlugin' :
            Steers(toPlugin'[i]) => toPlugin'[i].kind \in Expected(phase'[toPlugin'[i].port])
      /\ \A i \in DOMAIN toDart' :
            Steers(toDart'[i]) => toDart'[i].kind \in Expected(phase'[toDart'[i].port])
  BY <1>1, <1>2 DEF Kinds
<1>4. /\ \A i, j \in DOMAIN toPlugin' :
            i # j /\ Steers(toPlugin'[i]) /\ Steers(toPlugin'[j]) => toPlugin'[i].port # toPlugin'[j].port
      /\ \A i, j \in DOMAIN toDart' :
            i # j /\ Steers(toDart'[i]) /\ Steers(toDart'[j]) => toDart'[i].port # toDart'[j].port
  BY <1>1, <1>2 DEF Once
<1>5. \A i \in DOMAIN toPlugin', j \in DOMAIN toDart' :
          Steers(toPlugin'[i]) /\ Steers(toDart'[j]) => toPlugin'[i].port # toDart'[j].port
  BY <1>1, <1>2 DEF Clear
<1> QED BY <1>3, <1>4, <1>5 DEF PhaseShape

(* A queue r that steers p no more than the queue q did.                   *)
Adds(q, r, p) ==
    /\ \A K : Kinds(q, p, K) => Kinds(r, p, K)
    /\ Once(q, p) => Once(r, p)
    /\ Clear(q, p) => Clear(r, p)

(* A queue with no message that steers p.                                  *)
LEMMA ClearIsOnce ==
    ASSUME NEW q, NEW p, Clear(q, p)
    PROVE  Once(q, p) /\ \A K : Kinds(q, p, K)
  BY DEF Clear, Once, Kinds

(* A queue with nothing expected of a port has none of its messages.       *)
LEMMA NothingExpected ==
    ASSUME NEW q, NEW p, Kinds(q, p, {})
    PROVE  Clear(q, p)
  BY DEF Clear, Kinds

(* A message is added to the queue.                                        *)
LEMMA AppendSteers ==
    ASSUME NEW S, NEW q \in Seq(S), NEW m \in S, NEW p
    PROVE  /\ ~(Steers(m) /\ m.port = p) => Adds(q, Append(q, m), p)
           /\ Clear(q, p) =>
                /\ Once(Append(q, m), p)
                /\ \A K : m.kind \in K => Kinds(Append(q, m), p, K)
<1> DEFINE r == Append(q, m)
           n == Len(q)
<1>1. /\ n \in Nat /\ DOMAIN q = 1 .. n /\ DOMAIN r = 1 .. n + 1 /\ r[n + 1] = m
      /\ \A i \in 1 .. n : r[i] = q[i]
  OBVIOUS
<1>2. \A i \in DOMAIN r : (i \in DOMAIN q /\ r[i] = q[i]) \/ (i = n + 1 /\ r[i] = m)
  BY <1>1
<1> HIDE DEF r, n
<1>3. ASSUME ~(Steers(m) /\ m.port = p) PROVE Adds(q, r, p)
  <2>1. ASSUME NEW K, Kinds(q, p, K) PROVE Kinds(r, p, K)
    BY <1>2, <1>3, <2>1 DEF Kinds
  <2>2. ASSUME Once(q, p) PROVE Once(r, p)
    BY <1>2, <1>3, <2>2 DEF Once
  <2>3. ASSUME Clear(q, p) PROVE Clear(r, p)
    BY <1>2, <1>3, <2>3 DEF Clear
  <2> QED BY <2>1, <2>2, <2>3 DEF Adds
<1>4. ASSUME Clear(q, p) PROVE Once(r, p)
  BY <1>2, <1>4 DEF Clear, Once
<1>5. ASSUME Clear(q, p), NEW K, m.kind \in K PROVE Kinds(r, p, K)
  BY <1>2, <1>5 DEF Clear, Kinds
<1> QED BY <1>3, <1>4, <1>5 DEF r

(* The first message is taken from the queue.                              *)
LEMMA TailSteers ==
    ASSUME NEW S, NEW q \in Seq(S), q # <<>>, NEW p
    PROVE  /\ Adds(q, Tail(q), p)
           /\ Once(q, p) /\ Steers(q[1]) /\ q[1].port = p => Clear(Tail(q), p)
           /\ Steers(q[1]) /\ q[1].port = p => ~Clear(q, p)
           /\ \A K : Kinds(q, p, K) /\ Steers(q[1]) /\ q[1].port = p => q[1].kind \in K
<1> DEFINE r == Tail(q)
<1>1. /\ 1 \in DOMAIN q
      /\ \A i \in DOMAIN r : i \in Nat \ {0} /\ i + 1 \in DOMAIN q /\ r[i] = q[i + 1]
  OBVIOUS
<1>2. \A i, j \in DOMAIN r : i # j => i + 1 # j + 1
  BY <1>1
<1>3. \A i \in DOMAIN r : i + 1 # 1
  BY <1>1
<1> HIDE DEF r
<1>4. ASSUME NEW K, Kinds(q, p, K) PROVE Kinds(r, p, K)
  BY <1>1, <1>4 DEF Kinds
<1>5. ASSUME Once(q, p) PROVE Once(r, p)
  BY <1>1, <1>2, <1>5 DEF Once
<1>6. ASSUME Clear(q, p) PROVE Clear(r, p)
  BY <1>1, <1>6 DEF Clear
<1>7. ASSUME Once(q, p), Steers(q[1]), q[1].port = p PROVE Clear(r, p)
  BY <1>1, <1>3, <1>7 DEF Once, Clear
<1>8. ASSUME Steers(q[1]), q[1].port = p PROVE ~Clear(q, p) /\ \A K : Kinds(q, p, K) => q[1].kind \in K
  BY <1>1, <1>8 DEF Clear, Kinds
<1> QED BY <1>4, <1>5, <1>6, <1>7, <1>8 DEF r, Adds

(* What the channel kept does not steer.                                   *)
LEMMA KeptSteersNothing ==
    ASSUME NEW a \in Seq(Messages), NEW b \in Seq(Messages), NEW p,
           \A i \in DOMAIN a : ~Steers(a[i])
    PROVE  Adds(b, a \o b, p)
<1> DEFINE r == a \o b
           n == Len(a)
<1>1. /\ r \in Seq(Messages) /\ Len(r) = n + Len(b) /\ n \in Nat /\ Len(b) \in Nat
      /\ \A i \in 1 .. n : r[i] = a[i]
      /\ \A i \in 1 .. Len(b) : r[n + i] = b[i]
  BY Joined
<1>2. DOMAIN r = 1 .. n + Len(b) /\ DOMAIN a = 1 .. n /\ DOMAIN b = 1 .. Len(b)
  BY <1>1
<1> HIDE DEF r, n
<1>3. ASSUME NEW i \in DOMAIN r, Steers(r[i]) PROVE i \in Nat /\ i - n \in DOMAIN b /\ r[i] = b[i - n]
  <2>1. i \notin 1 .. n
    BY <1>1, <1>2, <1>3
  <2>2. i - n \in 1 .. Len(b) /\ n + (i - n) = i
    BY <1>1, <1>2, <2>1
  <2> QED BY <1>1, <1>2, <2>2
<1>4. \A i, j \in DOMAIN r : i # j => i - n # j - n
  BY <1>1, <1>2
<1>5. ASSUME NEW K, Kinds(b, p, K) PROVE Kinds(r, p, K)
  BY <1>3, <1>5 DEF Kinds
<1>6. ASSUME Once(b, p) PROVE Once(r, p)
  BY <1>3, <1>4, <1>6 DEF Once
<1>7. ASSUME Clear(b, p) PROVE Clear(r, p)
  BY <1>3, <1>7 DEF Clear
<1> QED BY <1>5, <1>6, <1>7 DEF r, Adds

(* Nothing new steers p.                                                   *)
LEMMA StaysSteered ==
    ASSUME NEW p \in Ports, Steered(p), phase'[p] = phase[p],
           Adds(toPlugin, toPlugin', p), Adds(toDart, toDart', p)
    PROVE  Steered(p)'
  BY DEF Steered, Adds

(* A queue that stays has nothing added.                                   *)
LEMMA NothingAdded == ASSUME NEW q, NEW p PROVE Adds(q, q, p)
  BY DEF Adds

(* A request is answered with m.                                           *)
LEMMA AnswerSteers ==
    ASSUME TypeOK, NEW p \in Ports, Steered(p), NEW q \in Ports, NEW k, NEW m \in Messages,
           Receives(k, q), Tells(m), phase' = phase,
           m.port = q,
           Steers(m) => /\ Steers(Message(k, q))
                        /\ \A s : k \in Expected(s) => m.kind \in Expected(s)
    PROVE  Steered(p)'
<1>1. /\ toPlugin \in Seq(Requests) /\ toDart \in Seq(Messages)
      /\ toPlugin # <<>> /\ toPlugin[1] = Message(k, q)
      /\ toPlugin' = Tail(toPlugin) /\ toDart' = Append(toDart, m)
  BY DEF TypeOK, Receives, Tells
<1>2. Message(k, q).port = q /\ Message(k, q).kind = k
  BY DEF Message
<1>3. CASE ~(Steers(m) /\ m.port = p)
  <2>1. Adds(toPlugin, toPlugin', p) /\ Adds(toDart, toDart', p)
    BY <1>1, <1>3, TailSteers, AppendSteers
  <2> QED BY <2>1, StaysSteered
<1>4. CASE Steers(m) /\ m.port = p
  <2>1. Steers(toPlugin[1]) /\ toPlugin[1].port = p /\ toPlugin[1].kind = k
    BY <1>1, <1>2, <1>4
  <2>2. Clear(toPlugin', p) /\ ~Clear(toPlugin, p) /\ k \in Expected(phase[p])
    BY <1>1, <2>1, TailSteers DEF Steered
  <2>3. Clear(toDart, p) /\ m.kind \in Expected(phase'[p])
    BY <1>4, <2>2 DEF Steered
  <2>4. Once(toDart', p) /\ Kinds(toDart', p, Expected(phase'[p]))
    BY <1>1, <2>3, AppendSteers
  <2>5. Once(toPlugin', p) /\ Kinds(toPlugin', p, Expected(phase'[p]))
    BY <2>2, ClearIsOnce
  <2> QED BY <2>2, <2>4, <2>5 DEF Steered
<1> QED BY <1>3, <1>4

(* A request is made: one that does not steer, or the first of its port.   *)
LEMMA RequestSteers ==
    ASSUME TypeOK, NEW p \in Ports, Steered(p), NEW q \in Ports,
           NEW k \in {"open", "listen", "cancel", "close", "read", "readByte"},
           Send(k, q), UNCHANGED toDart, p # q => phase'[p] = phase[p],
           \/ ~Steers(Message(k, q)) /\ phase'[p] = phase[p]
           \/ Expected(phase[q]) = {} /\ k \in Expected(phase'[q])
    PROVE  Steered(p)'
<1>1. /\ Message(k, q) \in Requests /\ Message(k, q).port = q /\ Message(k, q).kind = k
      /\ toPlugin \in Seq(Requests) /\ toPlugin' = Append(toPlugin, Message(k, q))
  BY DEF TypeOK, Send, Message, Requests
<1>2. CASE ~(Steers(Message(k, q)) /\ q = p) /\ phase'[p] = phase[p]
  <2>1. Adds(toPlugin, toPlugin', p)
    BY <1>1, <1>2, AppendSteers
  <2> QED BY <1>2, <2>1, StaysSteered, NothingAdded
<1>3. CASE q = p /\ Expected(phase[q]) = {} /\ k \in Expected(phase'[q])
  <2>1. Clear(toPlugin, p) /\ Clear(toDart, p)
    BY <1>3, NothingExpected DEF Steered
  <2>2. Once(toPlugin', p) /\ Kinds(toPlugin', p, Expected(phase'[p]))
    BY <1>1, <1>3, <2>1, AppendSteers
  <2>3. Clear(toDart', p) /\ Once(toDart', p) /\ Kinds(toDart', p, Expected(phase'[p]))
    BY <2>1, ClearIsOnce
  <2> QED BY <2>2, <2>3 DEF Steered
<1> QED BY <1>2, <1>3

(* An answer that steers its port was expected, and is the only one.       *)
LEMMA IncomingSteers ==
    ASSUME IInv, toDart # <<>>, Steers(Incoming), NEW p \in Ports, p = Incoming.port
    PROVE  /\ Incoming.kind \in Expected(phase[p])
           /\ Clear(toPlugin, p) /\ Clear(Tail(toDart), p)
<1>1. /\ toDart \in Seq(Messages) /\ Incoming = toDart[1] /\ Steered(p)
  BY FirstMessage, SteeredParts DEF IInv, TypeOK
<1>2. ~Clear(toDart, p) /\ Clear(Tail(toDart), p) /\ Incoming.kind \in Expected(phase[p])
  BY <1>1, TailSteers DEF Steered
<1> QED BY <1>1, <1>2 DEF Steered

(* The main thread keeps every port's phase with its messages.             *)
LEMMA MainThreadSteers ==
    ASSUME IInv, NEW p \in Ports, NEW q \in Ports,
           HandleOpen(q) \/ HandleClose(q) \/ HandleRead(q) \/ HandleListen(q) \/ HandleCancel(q)
    PROVE  Steered(p)'
<1>0. TypeOK /\ Steered(p)
  BY SteeredParts DEF IInv
<1>1. CASE HandleOpen(q)
  <2>1. PICK k \in {"opened", "openFailed"} : Tells(Message(k, q))
    BY <1>1 DEF HandleOpen
  <2>2. Receives("open", q) /\ phase' = phase
    BY <1>1 DEF HandleOpen, dartVars, lateVars
  <2>3. /\ Message(k, q) \in Messages /\ Message(k, q).port = q /\ Message(k, q).kind = k
        /\ Steers(Message("open", q))
    BY PlainMessage DEF Steers, Message
  <2>4. \A s : "open" \in Expected(s) => k \in Expected(s)
    BY DEF Expected
  <2> QED BY <1>0, <2>1, <2>2, <2>3, <2>4, AnswerSteers
<1>2. CASE HandleClose(q)
  <2>1. Receives("close", q) /\ Tells(Message("closed", q)) /\ phase' = phase
    BY <1>2 DEF HandleClose, dartVars, lateVars
  <2>2. /\ Message("closed", q) \in Messages /\ Message("closed", q).port = q
        /\ Message("closed", q).kind = "closed" /\ Steers(Message("close", q))
    BY PlainMessage DEF Steers, Message
  <2>3. \A s : "close" \in Expected(s) => "closed" \in Expected(s)
    BY DEF Expected
  <2> QED BY <1>0, <2>1, <2>2, <2>3, AnswerSteers
<1>3. CASE HandleCancel(q)
  <2>1. Receives("cancel", q) /\ Tells(Message("cancelled", q)) /\ phase' = phase
    BY <1>3 DEF HandleCancel, dartVars, lateVars
  <2>2. /\ Message("cancelled", q) \in Messages /\ Message("cancelled", q).port = q
        /\ Message("cancelled", q).kind = "cancelled" /\ Steers(Message("cancel", q))
    BY PlainMessage DEF Steers, Message
  <2>3. \A s : "cancel" \in Expected(s) => "cancelled" \in Expected(s)
    BY DEF Expected
  <2> QED BY <1>0, <2>1, <2>2, <2>3, AnswerSteers
<1>4. CASE HandleListen(q)
  <2>1. PICK k \in {"listening", "listenFailed"} : Tells(Message(k, q))
    BY <1>4 DEF HandleListen
  <2>2. Receives("listen", q) /\ phase' = phase
    BY <1>4 DEF HandleListen, dartVars, lateVars
  <2>3. /\ Message(k, q) \in Messages /\ Message(k, q).port = q /\ ~Steers(Message(k, q))
    BY PlainMessage DEF Steers
  <2> QED BY <1>0, <2>1, <2>2, <2>3, AnswerSteers
<1>5. CASE HandleRead(q)
  <2>1. PICK k \in {"read", "readByte"} : Receives(k, q)
    BY <1>5 DEF HandleRead
  <2>2. phase' = phase
    BY <1>5 DEF HandleRead, dartVars, lateVars
  <2>3. PICK m : Told(m)
    BY <1>0, <1>5, MainThreadTells
  <2>4. PICK n : Reply(q, n)
    BY <1>5 DEF HandleRead
  <2>5. toDart' = Append(toDart, m) /\ m \in Messages /\ toDart \in Seq(Messages)
    BY <1>0, <2>3 DEF Told, TypeOK
  <2>6. \E x : toDart' = Append(toDart, x) /\ x.port = q /\ ~Steers(x)
    BY <2>4 DEF Reply, Tells, Message, Steers
  <2>7. m.port = q /\ ~Steers(m)
    <3>1. PICK x : toDart' = Append(toDart, x) /\ x.port = q /\ ~Steers(x)
      BY <2>6
    <3>2. toDart \in Seq(Messages \cup {x}) /\ x \in Messages \cup {x} /\ m \in Messages \cup {x}
      BY <2>5, SeqMonotonic
    <3>3. x = m
      <4>1. Append(toDart, x) = Append(toDart, m)
        BY <2>5, <3>1
      <4>2. Append(toDart, x) = Append(toDart, m) <=> toDart = toDart /\ x = m
        BY <3>2, AppendInjective
      <4> QED BY <4>1, <4>2
    <3> QED BY <3>1, <3>3
  <2> QED BY <1>0, <2>1, <2>2, <2>5, <2>7, AnswerSteers DEF Tells
<1> QED BY <1>1, <1>2, <1>3, <1>4, <1>5

(* An application's call keeps every port's phase with its messages.       *)
LEMMA ApplicationSteers ==
    ASSUME IInv, NEW p \in Ports, NEW q \in Ports,
           Open(q) \/ Close(q) \/ Read(q) \/ ReadUntil(q) \/ ReadUntilGoesOn(q)
    PROVE  Steered(p)'
<1>0. TypeOK /\ Steered(p) /\ phase \in [Ports -> Phases]
  BY SteeredParts DEF IInv, TypeOK
<1>1. CASE Open(q)
  <2>1. phase[q] = "closed" /\ phase' = [phase EXCEPT ![q] = "opening"] /\ Send("open", q) /\ UNCHANGED toDart
    BY <1>1 DEF Open, Become
  <2>2. Expected(phase[q]) = {} /\ "open" \in Expected(phase'[q]) /\ (p # q => phase'[p] = phase[p])
    BY <1>0, <2>1 DEF Expected
  <2> QED BY <1>0, <2>1, <2>2, RequestSteers
<1>2. CASE Close(q)
  <2>1. phase[q] = "open" /\ phase' = [phase EXCEPT ![q] = "cancelling"] /\ Send("cancel", q) /\ UNCHANGED toDart
    BY <1>2 DEF Close, Become
  <2>2. Expected(phase[q]) = {} /\ "cancel" \in Expected(phase'[q]) /\ (p # q => phase'[p] = phase[p])
    BY <1>0, <2>1 DEF Expected
  <2> QED BY <1>0, <2>1, <2>2, RequestSteers
<1>3. CASE Read(q) \/ ReadUntil(q) \/ ReadUntilGoesOn(q)
  <2>1. UNCHANGED <<phase, toDart>>
    BY <1>3 DEF Read, ReadUntil, ReadUntilGoesOn
  <2>2. UNCHANGED toPlugin \/ Send("read", q) \/ Send("readByte", q)
    BY <1>3 DEF Read, ReadUntil, ReadUntilGoesOn
  <2>3. ~Steers(Message("read", q)) /\ ~Steers(Message("readByte", q))
    BY DEF Steers, Message
  <2>4. CASE UNCHANGED toPlugin
    BY <1>0, <2>1, <2>4, StaysSteered, NothingAdded
  <2> QED BY <1>0, <2>1, <2>2, <2>3, <2>4, RequestSteers
<1> QED BY <1>1, <1>2, <1>3

(* The isolate keeps every port's phase with its messages.                 *)
LEMMA IsolateSteers ==
    ASSUME IInv, NEW p \in Ports, Isolate
    PROVE  Steered(p)'
<1>0. /\ TypeOK /\ Steered(p) /\ KeptShape /\ phase \in [Ports -> Phases]
      /\ toDart \in Seq(Messages) /\ kept \in Seq(Messages) /\ toPlugin \in Seq(Requests)
  BY SteeredParts DEF IInv, TypeOK
<1>1. /\ toDart # <<>> /\ Incoming.port \in Ports /\ Tail(toDart) \in Seq(Messages)
      /\ Adds(toDart, Tail(toDart), p)
  BY <1>0, IsolateTakes, FirstMessage, TailSteers
<1>2. CASE Opened
  <2>1. /\ Incoming.kind = "opened" /\ toDart' = kept \o Tail(toDart)
        /\ phase' = [phase EXCEPT ![Incoming.port] = "open"] /\ Send("listen", Incoming.port)
    BY <1>2 DEF Opened, Become
  <2> DEFINE m == Message("listen", Incoming.port)
  <2>2. m \in Requests /\ ~Steers(m) /\ toPlugin' = Append(toPlugin, m)
    BY <1>1, <2>1 DEF Send, Message, Requests, Steers
  <2> HIDE DEF m
  <2>3. Adds(toPlugin, toPlugin', p)
    BY <1>0, <2>2, AppendSteers
  <2>4. Adds(Tail(toDart), toDart', p)
    <3>1. \A i \in DOMAIN kept : ~Steers(kept[i])
      BY <1>0 DEF KeptShape, Steers
    <3> QED BY <1>0, <1>1, <2>1, <3>1, KeptSteersNothing
  <2>5. CASE p # Incoming.port
    <3>1. phase'[p] = phase[p] /\ Adds(toDart, toDart', p)
      BY <1>0, <1>1, <2>1, <2>4, <2>5 DEF Adds
    <3> QED BY <1>0, <2>3, <3>1, StaysSteered
  <2>6. CASE p = Incoming.port
    <3>1. Clear(toPlugin, p) /\ Clear(Tail(toDart), p)
      BY <1>1, <2>1, <2>6, IncomingSteers DEF Steers
    <3>2. Clear(toPlugin', p) /\ Clear(toDart', p)
      BY <2>3, <2>4, <3>1 DEF Adds
    <3> QED BY <3>2, ClearIsOnce DEF Steered
  <2> QED BY <2>5, <2>6
<1>3. CASE OpenFailed \/ Closed
  <2>1. /\ Incoming.kind \in {"openFailed", "closed"} /\ toDart' = Tail(toDart)
        /\ phase' = [phase EXCEPT ![Incoming.port] = "closed"] /\ UNCHANGED toPlugin
    BY <1>3 DEF OpenFailed, Closed, Takes, Become
  <2>2. CASE p # Incoming.port
    <3>1. phase'[p] = phase[p]
      BY <1>0, <1>1, <2>1, <2>2
    <3> QED BY <1>0, <1>1, <2>1, <3>1, StaysSteered, NothingAdded
  <2>3. CASE p = Incoming.port
    <3>1. Clear(toPlugin', p) /\ Clear(toDart', p)
      BY <1>1, <2>1, <2>3, IncomingSteers DEF Steers
    <3> QED BY <3>1, ClearIsOnce DEF Steered
  <2> QED BY <2>2, <2>3
<1>4. CASE Cancelled
  <2>1. /\ Incoming.kind = "cancelled" /\ toDart' = Tail(toDart)
        /\ phase' = [phase EXCEPT ![Incoming.port] = "closing"] /\ Send("close", Incoming.port)
    BY <1>4 DEF Cancelled, Takes, Become
  <2> DEFINE m == Message("close", Incoming.port)
  <2>2. m \in Requests /\ m.port = Incoming.port /\ m.kind = "close" /\ toPlugin' = Append(toPlugin, m)
    BY <1>1, <2>1 DEF Send, Message, Requests
  <2> HIDE DEF m
  <2>3. CASE p # Incoming.port
    <3>1. phase'[p] = phase[p] /\ Adds(toPlugin, toPlugin', p)
      BY <1>0, <1>1, <2>1, <2>2, <2>3, AppendSteers
    <3> QED BY <1>0, <1>1, <2>1, <3>1, StaysSteered
  <2>4. CASE p = Incoming.port
    <3>1. Clear(toPlugin, p) /\ Clear(toDart', p)
      BY <1>1, <2>1, <2>4, IncomingSteers DEF Steers
    <3>2. phase'[p] = "closing" /\ m.kind \in Expected(phase'[p])
      BY <1>0, <2>1, <2>2, <2>4 DEF Expected
    <3>3. Once(toPlugin', p) /\ Kinds(toPlugin', p, Expected(phase'[p]))
      BY <1>0, <2>2, <3>1, <3>2, AppendSteers
    <3> QED BY <3>1, <3>3, ClearIsOnce DEF Steered
  <2> QED BY <2>3, <2>4
<1>5. CASE ~Opened /\ UNCHANGED <<phase, toPlugin>>
  BY <1>0, <1>1, <1>5, IsolateTakes, StaysSteered, NothingAdded
<1>6. LateAnswer \/ BytesRead \/ ReadFailed \/ EventIsKept \/ EventArrives \/ ErrorArrives \/ ListenAnswered
      => ~Opened /\ UNCHANGED <<phase, toPlugin>>
  BY DEF BytesRead, LateAnswer, ReadFailed, EventIsKept, EventArrives, ErrorArrives, ListenAnswered, Opened, Takes, dartVars, lateVars
<1> QED BY <1>2, <1>3, <1>4, <1>5, <1>6 DEF Isolate

(* An open() or close() has one request or answer on its way.              *)
LEMMA PhaseShapeStep == IInv /\ [Next]_vars => PhaseShape'
<1> SUFFICES ASSUME IInv, [Next]_vars PROVE PhaseShape'
  OBVIOUS
<1>0. TypeOK /\ TypeOK'
  BY TypeOKStep DEF IInv
<1> SUFFICES ASSUME NEW p \in Ports PROVE Steered(p)'
  BY <1>0, SteeredWhole DEF TypeOK
<1>1. Steered(p)
  BY SteeredParts DEF IInv
<1>2. ASSUME NEW s \in sources, Pump(s) PROVE Steered(p)'
  <2>1. UNCHANGED <<phase, toPlugin>>
    BY <1>2 DEF Pump, dartVars, lateVars
  <2>2. CASE UNCHANGED toDart
    BY <1>1, <2>1, <2>2, StaysSteered, NothingAdded
  <2>3. ASSUME NEW x, Tells(x), ~Steers(x) PROVE Steered(p)'
    <3>1. PICK m : toDart' = Append(toDart, m) /\ m = x
      BY <2>3 DEF Tells
    <3>2. toDart \in Seq(Messages \cup {m}) /\ m \in Messages \cup {m}
      BY <1>0, SeqMonotonic DEF TypeOK
    <3>3. Adds(toDart, toDart', p)
      BY <2>3, <3>1, <3>2, AppendSteers
    <3> QED BY <1>1, <2>1, <3>3, StaysSteered, NothingAdded
  <2>4. UNCHANGED toDart \/ Tells(Message("error", active))
        \/ Tells([kind |-> "event", port |-> active, data |-> tty[active]])
    BY <1>2 DEF Pump
  <2>5. ~Steers(Message("error", active)) /\ ~Steers([kind |-> "event", port |-> active, data |-> tty[active]])
    BY DEF Steers, Message
  <2> QED BY <2>2, <2>3, <2>4, <2>5
<1>3. ASSUME NEW q \in Ports, ReadTimesOut(q) \/ ReadUntilTimesOut(q) \/ ByteArrives(q) \/ HangUp(q)
      PROVE  Steered(p)'
  <2>1. UNCHANGED <<phase, toPlugin, toDart>>
    BY <1>3 DEF ReadTimesOut, ReadUntilTimesOut, ByteArrives, HangUp, dartVars, lateVars
  <2> QED BY <1>1, <2>1, StaysSteered, NothingAdded
<1>4. CASE UNCHANGED vars
  BY <1>1, <1>4, StaysSteered, NothingAdded DEF vars, dartVars, lateVars
<1> QED
  BY <1>2, <1>3, <1>4, MainThreadSteers, IsolateSteers, ApplicationSteers
  DEF Next, MainThread, Timers, Application, Pause

(* With one port in use at a time, an open port is the one listened to.    *)
LEMMA ListenShapeStep == IInv /\ [Next]_vars => ListenShape'
<1> SUFFICES ASSUME IInv, [Next]_vars, ~Together PROVE ListenShape'
  BY DEF ListenShape
<1>0. /\ \A p, q \in Ports : phase[p] # "closed" /\ phase[q] # "closed" => p = q
      /\ \A p \in Ports : phase[p] = "open" => handler = p
      /\ phase \in [Ports -> Phases]
  BY DEF IInv, ListenShape, TypeOK
<1>1. CASE UNCHANGED <<phase, handler>>
  BY <1>0, <1>1 DEF ListenShape
<1>2. ASSUME NEW p \in Ports, Open(p) PROVE ListenShape'
  <2>1. /\ \A q \in Ports : phase[q] = "closed"
        /\ phase' = [phase EXCEPT ![p] = "opening"]
    BY <1>2 DEF Open, Become
  <2> QED BY <1>0, <2>1 DEF ListenShape
<1>3. ASSUME NEW p \in Ports, Close(p) PROVE ListenShape'
  <2>1. phase[p] = "open" /\ phase' = [phase EXCEPT ![p] = "cancelling"]
    BY <1>3 DEF Close, Become
  <2> QED BY <1>0, <2>1 DEF ListenShape
<1>4. ASSUME Opened \/ OpenFailed \/ Cancelled \/ Closed PROVE ListenShape'
  <2> DEFINE p == Incoming.port
  <2>1. p \in Ports /\ toDart # <<>> /\ Steers(Incoming)
    BY <1>4, FirstMessage DEF IInv, Opened, OpenFailed, Cancelled, Closed, Takes, Steers
  <2>2. phase[p] # "closed"
    <3>1. Incoming.kind \in Expected(phase[p])
      BY <2>1, IncomingSteers
    <3> QED BY <3>1 DEF Expected
  <2>3. PICK s \in Phases : phase' = [phase EXCEPT ![p] = s] /\ (s = "open" => handler' = p)
    BY <1>4 DEF Opened, OpenFailed, Cancelled, Closed, Become, Phases
  <2> HIDE DEF p
  <2>4. \A q \in Ports : q # p => phase'[q] = "closed"
    BY <1>0, <2>1, <2>2, <2>3
  <2> QED BY <1>0, <2>1, <2>3, <2>4 DEF ListenShape
<1>5. CASE BytesRead \/ EventArrives
  BY <1>1, <1>5 DEF BytesRead, EventArrives
<1>6. CASE UNCHANGED phase
  BY <1>1, <1>3, <1>4, <1>5, <1>6, WhoStreams
<1> QED BY <1>2, <1>3, <1>4, <1>6, WhoMovesPhases

-----------------------------------------------------------------------------
(* The inductive invariant.                                                *)
LEMMA InitIInv == Init => IInv
<1> SUFFICES ASSUME Init PROVE IInv
  OBVIOUS
<1> USE DEF Init
<1>1. TypeOK
  BY BoundAssumption DEF TypeOK, Phases, Readers
<1>2. OneTimer /\ BytesInOrder /\ KeptShape /\ PhaseShape /\ ListenShape
  BY DEF OneTimer, BytesInOrder, KeptShape, PhaseShape, ListenShape
<1>3. Coming = <<>>
  BY DEF Coming
<1>4. DeviceShape /\ MessageShape /\ StreamShape
  BY <1>3 DEF DeviceShape, MessageShape, StreamShape, Increasing, UpTo, Before
<1> QED BY <1>1, <1>2, <1>4 DEF IInv

(* The inductive invariant holds in every reachable state of the plugin.   *)
THEOREM Invariance == Spec => []IInv
<1>1. IInv /\ [Next]_vars => IInv'
  BY TypeOKStep, OneTimerStep, DeviceShapeStep, MessageShapeStep, StreamShapeStep, KeptShapeStep,
     BytesInOrderStep, PhaseShapeStep, ListenShapeStep
  DEF IInv
<1> QED BY <1>1, InitIInv, PTL DEF Spec

(* Every state of the plugin, its queues and the isolate is well typed.    *)
THEOREM TypeCorrect == Spec => []TypeOK
<1>1. IInv => TypeOK
  BY DEF IInv
<1> QED BY <1>1, Invariance, PTL

(* The plugin has at most one timer, and it is the one it remembers, for   *)
(* any number of ports and of listen and cancel calls in any order.        *)
THEOREM TimersAreNotLeaked == Spec => []OneTimer
<1>1. IInv => OneTimer
  BY DEF IInv
<1> QED BY <1>1, Invariance, PTL

(* Reads and events never disorder or repeat the bytes of a port, also     *)
(* when several ports share the event channel.                             *)
THEOREM BytesKeepTheirOrder == Spec => []BytesInOrder
<1>1. IInv => BytesInOrder
  BY DEF IInv
<1> QED BY <1>1, Invariance, PTL

(* An application that uses one port at a time loses no event of an open   *)
(* port.                                                                   *)
THEOREM OnePortLosesNothing == ~Together /\ Spec => EventsReachTheirPort
<1>1. ASSUME IInv, [Next]_vars, ~Together, NEW p \in Ports, phase[p] = "open"
      PROVE  lost'[p] = lost[p]
  <2>1. handler = p /\ p # None
    BY <1>1, NoneAssumption DEF IInv, ListenShape
  <2>2. CASE EventArrives
    BY <1>1, <2>1, <2>2 DEF EventArrives, IInv, TypeOK
  <2>3. ~EventIsKept
    BY <2>1 DEF EventIsKept
  <2> QED BY <1>1, <2>2, <2>3, WhoLoses
<1>2. ~Together /\ IInv /\ [Next]_vars => [\A p \in Ports : phase[p] = "open" => lost'[p] = lost[p]]_vars
  BY <1>1
<1>3. CASE ~Together
  BY <1>2, <1>3, Invariance, PTL DEF Spec, EventsReachTheirPort
<1> QED BY <1>3

=============================================================================
