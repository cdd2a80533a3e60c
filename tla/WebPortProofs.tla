---------------------------- MODULE WebPortProofs ----------------------------
(***************************************************************************)
(* What WebPort guarantees for every set of applications, readers and      *)
(* writers, with overlapping calls as without, and every number of         *)
(* contexts and of chunks; and, when openPort and closePort are awaited,   *)
(* that no port is lost.                                                   *)
(***************************************************************************)
EXTENDS WebPort, TLAPS

(* The inductive invariant holds at the start.                             *)
LEMMA InitIInv == Init => IInv
<1> SUFFICES ASSUME Init PROVE IInv
  OBVIOUS
<1> USE BoundsAssumption DEF Init
<1>1. TypeOK
  BY DEF TypeOK
<1>2. CallerShape /\ LoopShape
  BY DEF CallerShape, LoopShape
<1>3. LoopEndsBeforeItsStream /\ NoMissedNotification
  BY DEF LoopEndsBeforeItsStream, NoMissedNotification, Callers
<1> QED BY <1>1, <1>2, <1>3 DEF IInv

(* A step keeps the types.                                                 *)
LEMMA TypeOKStep == IInv /\ [Next]_vars => TypeOK'
<1> SUFFICES ASSUME IInv, [Next]_vars PROVE TypeOK'
  OBVIOUS
<1> USE DEF IInv, TypeOK, CallerShape, contextVars, Become, Done, Callers
<1>1. ASSUME NEW a \in Apps, OpenPort(a) \/ OpenFails(a) PROVE TypeOK'
  BY <1>1 DEF OpenPort, OpenFails
<1>2. ASSUME NEW a \in Apps, Opened(a) PROVE TypeOK'
  <2>1. made + 1 \in Contexts /\ made' = made + 1
    BY <1>2, BoundsAssumption DEF Opened, Contexts
  <2>2. made' \in 0 .. MaxOpens /\ table' \in Contexts
    BY <1>2, <2>1, BoundsAssumption DEF Opened, Contexts
  <2>3. jsOpen' \in [Contexts -> BOOLEAN]
    BY <1>2, <2>1 DEF Opened
  <2>4. /\ reader' \in [Contexts -> {"none", "locked", "released"}]
        /\ task' \in [Contexts -> {"none", "reading", "over"}]
    BY <1>2, <2>1 DEF Opened
  <2>5. /\ pc' \in [Callers -> {"idle", "request", "cancel", "task", "close", "controller",
                               "test", "await", "write"}]
        /\ at' \in [Callers -> Contexts \cup {None}]
    BY <1>2 DEF Opened
  <2> QED BY <1>2, <2>2, <2>3, <2>4, <2>5 DEF Opened
<1>3. ASSUME NEW a \in Apps, ClosePort(a) PROVE TypeOK'
  <2>1. Notified(table) \in [Callers -> {"idle", "request", "cancel", "task", "close",
                                         "controller", "test", "await", "write"}]
    BY DEF Notified
  <2> QED BY <1>3, <2>1 DEF ClosePort
<1>4. ASSUME NEW a \in Apps, CancelSettled(a) \/ TaskOver(a) PROVE TypeOK'
  <2>1. at[a] \in Contexts \cup {None} /\ a \in Callers
    OBVIOUS
  <2>2. PICK l \in {"task", "close"} : Become(a, l, at[a])
    BY <1>4 DEF CancelSettled, TaskOver
  <2>3. /\ pc' \in [Callers -> {"idle", "request", "cancel", "task", "close", "controller",
                               "test", "await", "write"}]
        /\ at' \in [Callers -> Contexts \cup {None}]
    BY <2>1, <2>2
  <2>4. UNCHANGED <<made, table, contextVars>>
    BY <1>4 DEF CancelSettled, TaskOver
  <2> QED BY <2>3, <2>4
<1>5. ASSUME NEW a \in Apps, JsClose(a) PROVE TypeOK'
  <2>1. /\ pc' \in [Callers -> {"idle", "request", "cancel", "task", "close", "controller",
                               "test", "await", "write"}]
        /\ at' \in [Callers -> Contexts \cup {None}]
    BY <1>5 DEF JsClose
  <2>2. jsOpen' \in [Contexts -> BOOLEAN]
    BY <1>5 DEF JsClose
  <2>3. refused' \in [Contexts -> BOOLEAN]
    <3> DEFINE busy == writer[at[a]] # None
    <3>1. busy \in BOOLEAN
      OBVIOUS
    <3>2. UNCHANGED refused \/ refused' = [refused EXCEPT ![at[a]] = busy]
      BY <1>5 DEF JsClose
    <3> HIDE DEF busy
    <3> QED BY <3>1, <3>2
  <2>4. UNCHANGED <<made, table, reader, task, ending, closing, buffer, ended, writer>>
    BY <1>5 DEF JsClose
  <2> QED BY <2>1, <2>2, <2>3, <2>4
<1>6. ASSUME NEW a \in Apps, CloseController(a) PROVE TypeOK'
  BY <1>6 DEF CloseController
<1>7. ASSUME NEW c \in Contexts, Chunk(c) PROVE TypeOK'
  <2>1. Notified(c) \in [Callers -> {"idle", "request", "cancel", "task", "close",
                                     "controller", "test", "await", "write"}]
    BY DEF Notified
  <2>2. buffer[c] + 1 \in 0 .. MaxBytes
    BY <1>7, BoundsAssumption DEF Chunk
  <2> QED BY <1>7, <2>1, <2>2 DEF Chunk
<1>8. ASSUME NEW c \in Contexts, LoopEnds(c) PROVE TypeOK'
  BY <1>8 DEF LoopEnds
<1>9. ASSUME NEW r \in Readers, Read(r) \/ ReadWaits(r) PROVE TypeOK'
  BY <1>9 DEF Read, ReadWaits
<1>10. ASSUME NEW r \in Readers, ReadTakes(r) PROVE TypeOK'
  <2>1. at[r] \in Contexts
    BY <1>10 DEF ReadTakes
  <2>2. buffer' \in [Contexts -> 0 .. MaxBytes]
    <3>1. CASE buffer[at[r]] = 0
      BY <1>10, <3>1 DEF ReadTakes
    <3>2. CASE buffer[at[r]] # 0
      <4>1. PICK n \in 1 .. buffer[at[r]] : buffer' = [buffer EXCEPT ![at[r]] = @ - n]
        BY <1>10, <3>2 DEF ReadTakes
      <4>2. buffer[at[r]] - n \in 0 .. MaxBytes
        BY <2>1, BoundsAssumption
      <4> QED BY <4>1, <4>2
    <3> QED BY <3>1, <3>2
  <2> QED BY <1>10, <2>2 DEF ReadTakes
<1>11. CASE ResetBuffers
  BY <1>11, BoundsAssumption DEF ResetBuffers
<1>12. ASSUME NEW w \in Writers, Write(w) PROVE TypeOK'
  BY <1>12 DEF Write
<1>13. ASSUME NEW w \in Writers, WriteEnds(w) PROVE TypeOK'
  BY <1>13 DEF WriteEnds
<1>14. CASE UNCHANGED vars
  BY <1>14 DEF vars
<1> QED
  BY <1>1, <1>2, <1>3, <1>4, <1>5, <1>6, <1>7, <1>8, <1>9, <1>10, <1>11, <1>12, <1>13, <1>14
  DEF Next, Closing

(* Callers keep to the contexts that were made.                            *)
LEMMA CallerShapeStep == IInv /\ [Next]_vars => CallerShape'
<1> SUFFICES ASSUME IInv, [Next]_vars PROVE CallerShape'
  OBVIOUS
<1> USE DEF IInv, TypeOK, CallerShape, contextVars, Become, Done, Callers
<1>1. ASSUME NEW a \in Apps, OpenPort(a) \/ OpenFails(a) PROVE CallerShape'
  BY <1>1 DEF OpenPort, OpenFails
<1>2. ASSUME NEW a \in Apps, Opened(a) PROVE CallerShape'
  <2>1. made' = made + 1 /\ made \in Nat /\ table' = made + 1
    BY <1>2, BoundsAssumption DEF Opened
  <2>2. \A p \in Callers : at[p] # None => at[p] \in Nat
    BY DEF Contexts
  <2> QED BY <1>2, <2>1, <2>2 DEF Opened
<1>3. ASSUME NEW a \in Apps, ClosePort(a) PROVE CallerShape'
  <2>1. \A p \in Callers : Notified(table)[p] \in {"idle", "request"} <=> pc[p] \in {"idle", "request"}
    BY DEF Notified
  <2>2. \A p \in Callers : pc'[p] = IF p = a THEN "cancel" ELSE Notified(table)[p]
    BY <1>3 DEF ClosePort, Notified
  <2> QED BY <1>3, <2>1, <2>2, NoneAssumption DEF ClosePort
<1>4. ASSUME NEW a \in Apps, CancelSettled(a) \/ TaskOver(a) PROVE CallerShape'
  BY <1>4 DEF CancelSettled, TaskOver
<1>5. ASSUME NEW a \in Apps, JsClose(a) PROVE CallerShape'
  BY <1>5 DEF JsClose
<1>6. ASSUME NEW a \in Apps, CloseController(a) PROVE CallerShape'
  BY <1>6 DEF CloseController
<1>7. ASSUME NEW c \in Contexts, Chunk(c) PROVE CallerShape'
  <2>1. \A p \in Callers : Notified(c)[p] \in {"idle", "request"} <=> pc[p] \in {"idle", "request"}
    BY DEF Notified
  <2> QED BY <1>7, <2>1 DEF Chunk
<1>8. ASSUME NEW c \in Contexts, LoopEnds(c) PROVE CallerShape'
  BY <1>8 DEF LoopEnds
<1>9. ASSUME NEW r \in Readers, Read(r) \/ ReadWaits(r) PROVE CallerShape'
  BY <1>9 DEF Read, ReadWaits
<1>10. ASSUME NEW r \in Readers, ReadTakes(r) PROVE CallerShape'
  BY <1>10 DEF ReadTakes
<1>11. CASE ResetBuffers
  BY <1>11 DEF ResetBuffers
<1>12. ASSUME NEW w \in Writers, Write(w) PROVE CallerShape'
  BY <1>12 DEF Write
<1>13. ASSUME NEW w \in Writers, WriteEnds(w) PROVE CallerShape'
  BY <1>13 DEF WriteEnds
<1>14. CASE UNCHANGED vars
  BY <1>14 DEF vars
<1> QED
  BY <1>1, <1>2, <1>3, <1>4, <1>5, <1>6, <1>7, <1>8, <1>9, <1>10, <1>11, <1>12, <1>13, <1>14
  DEF Next, Closing

(* The lock of a reader goes with its loop.                                *)
LEMMA LoopShapeStep == IInv /\ [Next]_vars => LoopShape'
<1> SUFFICES ASSUME IInv, [Next]_vars PROVE LoopShape'
  OBVIOUS
<1> USE DEF IInv, TypeOK, CallerShape, LoopShape, contextVars, Become, Done, Callers
<1>1. ASSUME NEW a \in Apps, OpenPort(a) \/ OpenFails(a) PROVE LoopShape'
  BY <1>1 DEF OpenPort, OpenFails
<1>2. ASSUME NEW a \in Apps, Opened(a) PROVE LoopShape'
  <2>1. made' = made + 1 /\ made \in Nat /\ made + 1 \in Contexts
    BY <1>2, BoundsAssumption DEF Opened, Contexts
  <2>2. \A c \in Contexts : c \in Nat
    BY DEF Contexts
  <2>3. task[made + 1] = "none" /\ reader[made + 1] # "locked"
    BY <2>1
  <2>4. \A c \in Contexts : c # made + 1 => task'[c] = task[c] /\ reader'[c] = reader[c]
    BY <1>2, <2>1 DEF Opened
  <2>5. reader'[made + 1] = "locked" <=> task'[made + 1] = "reading"
    BY <1>2, <2>1, <2>3 DEF Opened
  <2>6. \A p \in Callers : pc'[p] \in {"close", "controller"} =>
            pc'[p] = pc[p] /\ at'[p] = at[p] /\ at[p] \in Contexts /\ at[p] # made + 1
    BY <1>2, <2>1 DEF Opened, Contexts
  <2> QED BY <2>1, <2>2, <2>3, <2>4, <2>5, <2>6
<1>3. ASSUME NEW a \in Apps, ClosePort(a) PROVE LoopShape'
  <2>1. \A p \in Callers : pc'[p] \in {"close", "controller"} => pc[p] = pc'[p] /\ at'[p] = at[p]
    BY <1>3 DEF ClosePort, Notified
  <2> QED BY <1>3, <2>1 DEF ClosePort
<1>4. ASSUME NEW a \in Apps, CancelSettled(a) \/ TaskOver(a) PROVE LoopShape'
  BY <1>4 DEF CancelSettled, TaskOver
<1>5. ASSUME NEW a \in Apps, JsClose(a) PROVE LoopShape'
  BY <1>5 DEF JsClose
<1>6. ASSUME NEW a \in Apps, CloseController(a) PROVE LoopShape'
  BY <1>6 DEF CloseController
<1>7. ASSUME NEW c \in Contexts, Chunk(c) PROVE LoopShape'
  <2>1. \A p \in Callers : pc'[p] \in {"close", "controller"} => pc[p] = pc'[p]
    BY <1>7 DEF Chunk, Notified
  <2>2. \A p \in Callers : pc[p] \in {"close", "controller"} => at[p] \in Contexts
    OBVIOUS
  <2> QED BY <1>7, <2>1, <2>2 DEF Chunk
<1>8. ASSUME NEW c \in Contexts, LoopEnds(c) PROVE LoopShape'
  <2>1. \A p \in Callers : pc[p] \in {"close", "controller"} => at[p] \in Contexts
    OBVIOUS
  <2> QED BY <1>8, <2>1 DEF LoopEnds
<1>9. ASSUME NEW r \in Readers, Read(r) \/ ReadWaits(r) PROVE LoopShape'
  BY <1>9 DEF Read, ReadWaits
<1>10. ASSUME NEW r \in Readers, ReadTakes(r) PROVE LoopShape'
  BY <1>10 DEF ReadTakes
<1>11. CASE ResetBuffers
  BY <1>11 DEF ResetBuffers
<1>12. ASSUME NEW w \in Writers, Write(w) PROVE LoopShape'
  BY <1>12 DEF Write
<1>13. ASSUME NEW w \in Writers, WriteEnds(w) PROVE LoopShape'
  BY <1>13 DEF WriteEnds
<1>14. CASE UNCHANGED vars
  BY <1>14 DEF vars
<1> QED
  BY <1>1, <1>2, <1>3, <1>4, <1>5, <1>6, <1>7, <1>8, <1>9, <1>10, <1>11, <1>12, <1>13, <1>14
  DEF Next, Closing

(* An open port is not lost.                                               *)
LEMMA PortShapeStep == ReachInv /\ [Next]_vars => PortShape'
<1> SUFFICES ASSUME ReachInv, [Next]_vars PROVE PortShape'
  OBVIOUS
<1> USE DEF ReachInv, IInv, TypeOK, PortShape, contextVars, Become, Done, Callers
<1>1. ASSUME NEW a \in Apps, OpenPort(a) \/ OpenFails(a) PROVE PortShape'
  BY <1>1 DEF OpenPort, OpenFails
<1>2. ASSUME NEW a \in Apps, Opened(a) PROVE PortShape'
  <2>1. made + 1 \in Contexts /\ table' = made + 1
    BY <1>2, BoundsAssumption DEF Opened, Contexts
  <2>2. table = None
    BY <1>2 DEF Opened, NameIsFree
  <2>3. /\ \A c \in Contexts : jsOpen'[c] => c = made + 1 \/ jsOpen[c]
        /\ UNCHANGED refused
    BY <1>2, <2>1 DEF Opened
  <2>4. \A p \in Callers : pc[p] \in {"cancel", "task", "close"} => pc'[p] = pc[p] /\ at'[p] = at[p]
    BY <1>2 DEF Opened
  <2> QED BY <2>1, <2>2, <2>3, <2>4, NoneAssumption
<1>3. ASSUME NEW a \in Apps, ClosePort(a) PROVE PortShape'
  <2>1. \A p \in Callers : p # a /\ pc[p] \in {"cancel", "task", "close"} =>
            pc'[p] = pc[p] /\ at'[p] = at[p]
    BY <1>3 DEF ClosePort, Notified
  <2>2. pc[a] = "idle" /\ pc'[a] = "cancel" /\ at'[a] = table /\ UNCHANGED <<jsOpen, refused>>
    BY <1>3 DEF ClosePort, Notified
  <2> QED BY <2>1, <2>2
<1>4. ASSUME NEW a \in Apps, CancelSettled(a) \/ TaskOver(a) PROVE PortShape'
  BY <1>4 DEF CancelSettled, TaskOver
<1>5. ASSUME NEW a \in Apps, JsClose(a) PROVE PortShape'
  <2>1. at[a] \in Contexts /\ reader[at[a]] # "locked" /\ pc[a] = "close"
    BY <1>5 DEF JsClose, CallerShape, LoopShape
  <2>2. jsOpen'[at[a]] => refused'[at[a]]
    BY <1>5, <2>1 DEF JsClose, Locked
  <2>3. \A c \in Contexts : c # at[a] => jsOpen'[c] = jsOpen[c] /\ refused'[c] = refused[c]
    BY <1>5, <2>1 DEF JsClose
  <2>4. \A p \in Apps : p # a => pc'[p] = pc[p] /\ at'[p] = at[p]
    BY <1>5 DEF JsClose
  <2>5. table' = table
    BY <1>5 DEF JsClose
  <2> QED BY <2>2, <2>3, <2>4, <2>5
<1>6. ASSUME NEW a \in Apps, CloseController(a) PROVE PortShape'
  BY <1>6 DEF CloseController
<1>7. ASSUME NEW c \in Contexts, Chunk(c) PROVE PortShape'
  <2>1. \A p \in Callers : pc[p] \in {"cancel", "task", "close"} => pc'[p] = pc[p]
    BY <1>7 DEF Chunk, Notified
  <2> QED BY <1>7, <2>1 DEF Chunk
<1>8. ASSUME NEW c \in Contexts, LoopEnds(c) PROVE PortShape'
  BY <1>8 DEF LoopEnds
<1>9. ASSUME NEW r \in Readers, Read(r) \/ ReadWaits(r) PROVE PortShape'
  BY <1>9 DEF Read, ReadWaits
<1>10. ASSUME NEW r \in Readers, ReadTakes(r) PROVE PortShape'
  BY <1>10 DEF ReadTakes
<1>11. CASE ResetBuffers
  BY <1>11 DEF ResetBuffers
<1>12. ASSUME NEW w \in Writers, Write(w) PROVE PortShape'
  BY <1>12 DEF Write
<1>13. ASSUME NEW w \in Writers, WriteEnds(w) PROVE PortShape'
  BY <1>13 DEF WriteEnds
<1>14. CASE UNCHANGED vars
  BY <1>14 DEF vars
<1> QED
  BY <1>1, <1>2, <1>3, <1>4, <1>5, <1>6, <1>7, <1>8, <1>9, <1>10, <1>11, <1>12, <1>13, <1>14
  DEF Next, Closing

(* A stream is closed when its loop is over, and no loop starts again.     *)
LEMMA LoopEndsStep == IInv /\ [Next]_vars => LoopEndsBeforeItsStream'
<1> SUFFICES ASSUME IInv, [Next]_vars PROVE LoopEndsBeforeItsStream'
  OBVIOUS
<1> USE DEF IInv, TypeOK, CallerShape, LoopShape, LoopEndsBeforeItsStream, contextVars, Callers
<1>1. ASSUME NEW a \in Apps, OpenPort(a) \/ OpenFails(a) PROVE LoopEndsBeforeItsStream'
  BY <1>1 DEF OpenPort, OpenFails
<1>2. ASSUME NEW a \in Apps, Opened(a) PROVE LoopEndsBeforeItsStream'
  <2>1. made + 1 \in Contexts /\ made \in Nat
    BY <1>2, BoundsAssumption DEF Opened, Contexts
  <2>2. ~ended[made + 1]
    BY <2>1
  <2> QED BY <1>2, <2>1, <2>2 DEF Opened
<1>3. ASSUME NEW a \in Apps, ClosePort(a) PROVE LoopEndsBeforeItsStream'
  BY <1>3 DEF ClosePort
<1>4. ASSUME NEW a \in Apps, CancelSettled(a) \/ TaskOver(a) PROVE LoopEndsBeforeItsStream'
  BY <1>4 DEF CancelSettled, TaskOver
<1>5. ASSUME NEW a \in Apps, JsClose(a) PROVE LoopEndsBeforeItsStream'
  BY <1>5 DEF JsClose
<1>6. ASSUME NEW a \in Apps, CloseController(a) PROVE LoopEndsBeforeItsStream'
  BY <1>6 DEF CloseController
<1>7. ASSUME NEW c \in Contexts, Chunk(c) PROVE LoopEndsBeforeItsStream'
  BY <1>7 DEF Chunk
<1>8. ASSUME NEW c \in Contexts, LoopEnds(c) PROVE LoopEndsBeforeItsStream'
  BY <1>8 DEF LoopEnds
<1>9. ASSUME NEW r \in Readers, Read(r) \/ ReadWaits(r) PROVE LoopEndsBeforeItsStream'
  BY <1>9 DEF Read, ReadWaits
<1>10. ASSUME NEW r \in Readers, ReadTakes(r) PROVE LoopEndsBeforeItsStream'
  BY <1>10 DEF ReadTakes
<1>11. CASE ResetBuffers
  BY <1>11 DEF ResetBuffers
<1>12. ASSUME NEW w \in Writers, Write(w) PROVE LoopEndsBeforeItsStream'
  BY <1>12 DEF Write
<1>13. ASSUME NEW w \in Writers, WriteEnds(w) PROVE LoopEndsBeforeItsStream'
  BY <1>13 DEF WriteEnds
<1>14. CASE UNCHANGED vars
  BY <1>14 DEF vars
<1> QED
  BY <1>1, <1>2, <1>3, <1>4, <1>5, <1>6, <1>7, <1>8, <1>9, <1>10, <1>11, <1>12, <1>13, <1>14
  DEF Next, Closing

(* Whoever waits was told of all there is.                                 *)
LEMMA NotificationStep == IInv /\ [Next]_vars => NoMissedNotification'
<1> SUFFICES ASSUME IInv, [Next]_vars PROVE NoMissedNotification'
  OBVIOUS
<1> USE DEF IInv, TypeOK, CallerShape, NoMissedNotification, contextVars, Become, Done, Callers
<1>1. ASSUME NEW a \in Apps, OpenPort(a) \/ OpenFails(a) PROVE NoMissedNotification'
  BY <1>1 DEF OpenPort, OpenFails
<1>2. ASSUME NEW a \in Apps, Opened(a) PROVE NoMissedNotification'
  BY <1>2 DEF Opened
<1>3. ASSUME NEW a \in Apps, ClosePort(a) PROVE NoMissedNotification'
  <2>1. \A p \in Callers : pc'[p] = "await" => pc[p] = "await" /\ at[p] # table /\ at'[p] = at[p]
    BY <1>3 DEF ClosePort, Notified
  <2>2. table \in Contexts /\ closing' = [closing EXCEPT ![table] = TRUE] /\ buffer' = buffer
    BY <1>3 DEF ClosePort
  <2> QED BY <2>1, <2>2
<1>4. ASSUME NEW a \in Apps, CancelSettled(a) \/ TaskOver(a) PROVE NoMissedNotification'
  BY <1>4 DEF CancelSettled, TaskOver
<1>5. ASSUME NEW a \in Apps, JsClose(a) PROVE NoMissedNotification'
  BY <1>5 DEF JsClose
<1>6. ASSUME NEW a \in Apps, CloseController(a) PROVE NoMissedNotification'
  BY <1>6 DEF CloseController
<1>7. ASSUME NEW c \in Contexts, Chunk(c) PROVE NoMissedNotification'
  <2>1. \A p \in Callers : pc'[p] = "await" => pc[p] = "await" /\ at[p] # c /\ at'[p] = at[p]
    BY <1>7 DEF Chunk, Notified
  <2> QED BY <1>7, <2>1 DEF Chunk
<1>8. ASSUME NEW c \in Contexts, LoopEnds(c) PROVE NoMissedNotification'
  BY <1>8 DEF LoopEnds
<1>9. ASSUME NEW r \in Readers, Read(r) \/ ReadWaits(r) PROVE NoMissedNotification'
  BY <1>9 DEF Read, ReadWaits
<1>10. ASSUME NEW r \in Readers, ReadTakes(r) PROVE NoMissedNotification'
  <2>1. at[r] \in Contexts
    BY <1>10 DEF ReadTakes
  <2>2. \A c \in Contexts : buffer[c] = 0 => buffer'[c] = 0
    <3>1. CASE buffer[at[r]] = 0
      BY <1>10, <3>1 DEF ReadTakes
    <3>2. CASE buffer[at[r]] # 0
      BY <1>10, <2>1, <3>2 DEF ReadTakes
    <3> QED BY <3>1, <3>2
  <2>3. \A p \in Callers : pc'[p] = "await" => pc[p] = "await" /\ at'[p] = at[p] /\ at[p] \in Contexts
    BY <1>10 DEF ReadTakes
  <2>4. closing' = closing
    BY <1>10 DEF ReadTakes
  <2> QED BY <2>2, <2>3, <2>4
<1>11. CASE ResetBuffers
  BY <1>11 DEF ResetBuffers
<1>12. ASSUME NEW w \in Writers, Write(w) PROVE NoMissedNotification'
  BY <1>12 DEF Write
<1>13. ASSUME NEW w \in Writers, WriteEnds(w) PROVE NoMissedNotification'
  BY <1>13 DEF WriteEnds
<1>14. CASE UNCHANGED vars
  BY <1>14 DEF vars
<1> QED
  BY <1>1, <1>2, <1>3, <1>4, <1>5, <1>6, <1>7, <1>8, <1>9, <1>10, <1>11, <1>12, <1>13, <1>14
  DEF Next, Closing

(* The inductive invariant holds in every state the port can reach.        *)
THEOREM Invariance == Spec => []IInv
<1>1. IInv /\ [Next]_vars => IInv'
  <2> SUFFICES ASSUME IInv, [Next]_vars PROVE IInv'
    OBVIOUS
  <2> QED
    BY TypeOKStep, CallerShapeStep, LoopShapeStep, LoopEndsStep, NotificationStep
    DEF IInv
<1> QED BY InitIInv, <1>1, PTL DEF Spec

(* The port's, the loop's and the callers' state keep their types.         *)
THEOREM TypeCorrect == Spec => []TypeOK
<1>1. IInv => TypeOK
  BY DEF IInv
<1> QED BY <1>1, Invariance, PTL

(* The read loop never adds to an event stream that was closed.            *)
THEOREM StreamsOutliveLoops == Spec => []LoopEndsBeforeItsStream
<1>1. IInv => LoopEndsBeforeItsStream
  BY DEF IInv
<1> QED BY <1>1, Invariance, PTL

(* No read waits beside a chunk, or for a port that is being closed.       *)
THEOREM ReadersAreTold == Spec => []NoMissedNotification
<1>1. IInv => NoMissedNotification
  BY DEF IInv
<1> QED BY <1>1, Invariance, PTL

-----------------------------------------------------------------------------
(* While the browser is asked, no other call of the app takes the name.    *)
LEMMA NameIsFreeStep == OneAtATime /\ IInv /\ NameIsFree /\ [Next]_vars => NameIsFree'
<1> SUFFICES ASSUME OneAtATime, IInv, NameIsFree, [Next]_vars, NEW a \in Apps, pc'[a] = "request"
             PROVE  table' = None
  BY DEF NameIsFree
<1> USE DEF IInv, TypeOK, contextVars, Become, Done, Callers
<1>1. ASSUME NEW b \in Apps, OpenPort(b) PROVE table' = None
  BY <1>1 DEF OpenPort
<1>2. ASSUME NEW b \in Apps, Opened(b) PROVE table' = None
  BY <1>2 DEF Opened, OneAtATime
<1>3. ASSUME NEW b \in Apps, ClosePort(b) PROVE table' = None
  BY <1>3 DEF ClosePort
<1>4. ASSUME NEW b \in Apps, OpenFails(b) \/ Closing(b) PROVE table' = None
  BY <1>4 DEF OpenFails, Closing, CancelSettled, TaskOver, JsClose, CloseController, NameIsFree
<1>5. ASSUME NEW c \in Contexts, Chunk(c) \/ LoopEnds(c) PROVE table' = None
  <2>1. UNCHANGED table /\ pc[a] = "request"
    BY <1>5 DEF Chunk, LoopEnds, Notified
  <2> QED BY <2>1 DEF NameIsFree
<1>6. ASSUME NEW r \in Readers, Read(r) \/ ReadWaits(r) \/ ReadTakes(r) PROVE table' = None
  <2>1. UNCHANGED table /\ pc[a] = "request"
    BY <1>6 DEF Read, ReadWaits, ReadTakes
  <2> QED BY <2>1 DEF NameIsFree
<1>7. CASE ResetBuffers
  BY <1>7 DEF ResetBuffers, NameIsFree
<1>8. ASSUME NEW w \in Writers, Write(w) \/ WriteEnds(w) PROVE table' = None
  <2>1. UNCHANGED table /\ pc[a] = "request"
    BY <1>8 DEF Write, WriteEnds
  <2> QED BY <2>1 DEF NameIsFree
<1>9. CASE UNCHANGED vars
  BY <1>9 DEF vars, NameIsFree
<1> QED BY <1>1, <1>2, <1>3, <1>4, <1>5, <1>6, <1>7, <1>8, <1>9 DEF Next

(* A port that the browser has open is in the table, being closed, or its  *)
(* close was refused because of a write, when the app awaits openPort and  *)
(* closePort: the name is looked up before the browser is asked, and not   *)
(* after.                                                                  *)
THEOREM PortsAreNotLost == OneAtATime /\ Spec => []NoLostPort
<1>1. Init => ReachInv
  BY InitIInv DEF Init, ReachInv, PortShape, NameIsFree, Callers
<1>2. ASSUME OneAtATime PROVE ReachInv /\ [Next]_vars => ReachInv'
  <2> SUFFICES ASSUME ReachInv, [Next]_vars PROVE ReachInv'
    OBVIOUS
  <2>1. IInv'
    BY TypeOKStep, CallerShapeStep, LoopShapeStep, LoopEndsStep, NotificationStep
    DEF ReachInv, IInv
  <2> QED BY <1>2, <2>1, PortShapeStep, NameIsFreeStep DEF ReachInv
<1>3. ReachInv => NoLostPort
  BY DEF ReachInv, PortShape, NoLostPort
<1>4. CASE OneAtATime
  BY <1>1, <1>2, <1>3, <1>4, PTL DEF Spec
<1> QED BY <1>4

=============================================================================
