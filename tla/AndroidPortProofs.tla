--------------------------- MODULE AndroidPortProofs --------------------------
(***************************************************************************)
(* What AndroidPort guarantees for every number of coroutines, SerialPort  *)
(* objects and chunks.                                                     *)
(***************************************************************************)
EXTENDS AndroidPort, TLAPS

-----------------------------------------------------------------------------
(* Who changes what.                                                       *)

(* Only those who work on the driver move in the queue of ioMutex.         *)
LEMMA WhoQueues == [Next]_vars =>
    \/ UNCHANGED io
    \/ \E p \in Closers \cup Users : Lock(p)
    \/ \E p \in Closers : CloseDriver(p)
    \/ \E u \in Users : UseDriver(u)
    \/ \E p \in InScope : WaitIsCancelled(p)
    \/ \E s \in Sessions : LoopChecks(s) \/ LoopIsCancelled(s) \/ LoopReads(s)
  BY DEF Next, Opening, Closing, Cancelling, Looping, Reading, Using, vars, managerVars, portVars, loopVars,
         CallIsCancelled, ScopeCancelled,
         OpenPort, Resolve, SessionOpenFails, SessionOpen, Insert, ClosePort, Drop,
         CloseBegins, CloseJoins, CloseNotifies, Detached, DetachFromEngine,
         PermissionResult, Read, ReadTakes, ReadFails, ReadWaits, ReadTimesOut, Use,
         ResetBuffers, LoopDelivers, LoopThrew, LoopCloseBegins, LoopCancelsItself,
         LoopCloses, LoopNotifies, Detach

(* Bytes come from the read loop and go to readers, or are cleared.        *)
LEMMA WhoBuffers == [Next]_vars =>
    \/ UNCHANGED buffer
    \/ \E p \in Closers : CloseNotifies(p)
    \/ \E r \in Readers : ReadTakes(r)
    \/ \E u \in Users : ResetBuffers(u)
    \/ \E s \in Sessions : LoopDelivers(s) \/ LoopNotifies(s)
  BY DEF Next, Opening, Closing, Cancelling, Looping, Reading, Using, vars, managerVars, portVars, loopVars,
         CallIsCancelled, WaitIsCancelled, ScopeCancelled,
         OpenPort, Resolve, SessionOpenFails, SessionOpen, Insert, ClosePort, Drop,
         CloseBegins, CloseJoins, Lock, CloseDriver, Detached, DetachFromEngine,
         PermissionResult, Read, ReadFails, ReadWaits, ReadTimesOut, Use, UseDriver,
         LoopChecks, LoopIsCancelled, LoopReads, LoopThrew, LoopCloseBegins,
         LoopCancelsItself, LoopCloses, Detach

(* A device is claimed by open and given back by close.                    *)
LEMMA WhoConnects == [Next]_vars =>
    \/ UNCHANGED <<connected, made>>
    \/ \E a \in Apps : SessionOpen(a)
    \/ \E p \in Closers : CloseDriver(p)
    \/ \E s \in Sessions : LoopCloses(s)
  BY DEF Next, Opening, Closing, Cancelling, Looping, Reading, Using, vars, managerVars, portVars, loopVars,
         CallIsCancelled, WaitIsCancelled, ScopeCancelled,
         OpenPort, Resolve, SessionOpenFails, Insert, ClosePort, Drop, CloseBegins,
         CloseJoins, Lock, CloseNotifies, Detached, DetachFromEngine,
         PermissionResult, Read, ReadTakes, ReadFails, ReadWaits, ReadTimesOut, Use,
         ResetBuffers, UseDriver, LoopChecks, LoopIsCancelled, LoopReads,
         LoopDelivers, LoopThrew, LoopCloseBegins, LoopCancelsItself, LoopNotifies,
         Detach

(* The job of a read loop goes when the loop is joined or cancels itself.  *)
LEMMA WhoHasJobs == [Next]_vars =>
    \/ UNCHANGED job
    \/ \E a \in Apps : SessionOpen(a)
    \/ \E p \in Closers : CloseJoins(p)
    \/ \E s \in Sessions : LoopCancelsItself(s)
  BY DEF Next, Opening, Closing, Cancelling, Looping, Reading, Using, vars, managerVars, portVars, loopVars,
         CallIsCancelled, WaitIsCancelled, ScopeCancelled,
         OpenPort, Resolve, SessionOpenFails, Insert, ClosePort, Drop, CloseBegins,
         Lock, CloseDriver, CloseNotifies, Detached, DetachFromEngine,
         PermissionResult, Read, ReadTakes, ReadFails, ReadWaits, ReadTimesOut, Use,
         ResetBuffers, UseDriver, LoopChecks, LoopIsCancelled, LoopReads,
         LoopDelivers, LoopThrew, LoopCloseBegins, LoopCloses, LoopNotifies, Detach

(* The read loop moves by itself, once open has started it.                *)
LEMMA WhoLoops == [Next]_vars =>
    \/ UNCHANGED loop
    \/ \E a \in Apps : SessionOpen(a)
    \/ \E s \in Sessions : Looping(s)
  BY DEF Next, Opening, Closing, Cancelling, Reading, Using, vars, managerVars, portVars, loopVars,
         CallIsCancelled, WaitIsCancelled, ScopeCancelled,
         OpenPort, Resolve, SessionOpenFails, Insert, ClosePort, Drop, CloseBegins,
         CloseJoins, Lock, CloseDriver, CloseNotifies, Detached, DetachFromEngine,
         PermissionResult, Read, ReadTakes, ReadFails, ReadWaits, ReadTimesOut, Use,
         ResetBuffers, UseDriver, Detach

(* Who closes a port says so.                                              *)
LEMMA WhoAnnounces == [Next]_vars =>
    \/ UNCHANGED announced
    \/ \E p \in Closers : CloseNotifies(p)
  BY DEF Next, Opening, Closing, Cancelling, Looping, Reading, Using, vars, managerVars, portVars, loopVars,
         CallIsCancelled, WaitIsCancelled, ScopeCancelled,
         OpenPort, Resolve, SessionOpenFails, SessionOpen, Insert, ClosePort, Drop,
         CloseBegins, CloseJoins, Lock, CloseDriver, Detached, DetachFromEngine,
         PermissionResult, Read, ReadTakes, ReadFails, ReadWaits, ReadTimesOut, Use,
         ResetBuffers, UseDriver, LoopChecks, LoopIsCancelled, LoopReads,
         LoopDelivers, LoopThrew, LoopCloseBegins, LoopCancelsItself, LoopCloses,
         LoopNotifies, Detach

(* The table changes at the end of openPort and at the start of a close.   *)
LEMMA WhoChangesTheTable == [Next]_vars =>
    \/ UNCHANGED table
    \/ \E a \in Apps : Insert(a) \/ ClosePort(a)
    \/ \E p \in Closers : Drop(p)
    \/ DetachFromEngine
  BY DEF Next, Opening, Closing, Cancelling, Looping, Reading, Using, vars, managerVars, portVars, loopVars,
         CallIsCancelled, WaitIsCancelled, ScopeCancelled,
         OpenPort, Resolve, SessionOpenFails, SessionOpen, CloseBegins, CloseJoins,
         Lock, CloseDriver, CloseNotifies, Detached, PermissionResult, Read,
         ReadTakes, ReadFails, ReadWaits, ReadTimesOut, Use, ResetBuffers, UseDriver,
         LoopChecks, LoopIsCancelled, LoopReads, LoopDelivers, LoopThrew,
         LoopCloseBegins, LoopCancelsItself, LoopCloses, LoopNotifies, Detach

(* Only the end of the plugin cancels the scope.                           *)
LEMMA WhoStops == [Next]_vars =>
    \/ UNCHANGED stopped
    \/ ended /\ stopped'
  BY DEF Next, Opening, Closing, Cancelling, Looping, Reading, Using, vars, managerVars, portVars, loopVars,
         CallIsCancelled, WaitIsCancelled, ScopeCancelled,
         OpenPort, Resolve, SessionOpenFails, SessionOpen, Insert, ClosePort, Drop,
         CloseBegins, CloseJoins, Lock, CloseDriver, CloseNotifies, Detached,
         DetachFromEngine, PermissionResult, Read, ReadTakes, ReadFails, ReadWaits,
         ReadTimesOut, Use, ResetBuffers, UseDriver, LoopChecks, LoopIsCancelled,
         LoopReads, LoopDelivers, LoopThrew, LoopCloseBegins, LoopCancelsItself,
         LoopCloses, LoopNotifies, Detach

(* A session is given up by a call that is cancelled.                      *)
LEMMA WhoStrands == [Next]_vars =>
    \/ UNCHANGED stranded
    \/ \E p \in InScope : Strands(p)
  BY DEF Next, Opening, Closing, Cancelling, Looping, Reading, Using, vars, managerVars, portVars, loopVars,
         CallIsCancelled, WaitIsCancelled, ScopeCancelled,
         OpenPort, Resolve, SessionOpenFails, SessionOpen, Insert, ClosePort, Drop,
         CloseBegins, CloseJoins, Lock, CloseDriver, CloseNotifies, Detached,
         DetachFromEngine, PermissionResult, Read, ReadTakes, ReadFails, ReadWaits,
         ReadTimesOut, Use, ResetBuffers, UseDriver, LoopChecks, LoopIsCancelled,
         LoopReads, LoopDelivers, LoopThrew, LoopCloseBegins, LoopCancelsItself,
         LoopCloses, LoopNotifies, Detach

-----------------------------------------------------------------------------
(* Types, in parts.                                                        *)
ManagerTypes ==
    /\ {attached, permission, requested, ended, stopped} \subseteq BOOLEAN
    /\ made \in 0 .. MaxOpens
    /\ table \in Sessions \cup {None}
    /\ loop \in [Sessions -> LoopPCs]

CallTypes ==
    /\ pc \in [Processes -> PCs]
    /\ at \in [Processes -> Sessions \cup {None}]

Flags == [Sessions -> BOOLEAN]

FlagTypes ==
    /\ opened \in Flags
    /\ connected \in Flags
    /\ job \in Flags
    /\ cancelled \in Flags
    /\ cut \in Flags
    /\ stranded \in Flags
    /\ announced \in Flags

BufferType == buffer \in [Sessions -> 0 .. MaxBytes]

QueueType == io \in [Sessions -> Seq(Processes \cup {Loop})]

(* The type invariant in its parts.                                        *)
LEMMA TypeParts ==
    TypeOK <=> ManagerTypes /\ CallTypes /\ FlagTypes /\ BufferType /\ QueueType
  BY DEF TypeOK, ManagerTypes, CallTypes, FlagTypes, Flags, BufferType, QueueType

(* A flag is raised or lowered.                                            *)
LEMMA OneFlag ==
    ASSUME NEW f \in Flags, NEW s, NEW b \in BOOLEAN
    PROVE  [f EXCEPT ![s] = b] \in Flags
  BY DEF Flags

(* A coroutine past its first look has a session.                          *)
LEMMA HasSession ==
    ASSUME TypeOK, CallerShape, NEW p \in Processes,
           pc[p] \notin {"idle", "resolve", "asking", "open"}
    PROVE  at[p] \in Sessions
  BY DEF TypeOK, CallerShape

(* open makes the next session.                                            *)
LEMMA NextSession ==
    ASSUME TypeOK, NEW a \in Apps, SessionOpen(a)
    PROVE  made + 1 \in Sessions /\ made' = made + 1 /\ made \in Nat
  BY BoundsAssumption DEF TypeOK, SessionOpen, Sessions

(* A coroutine that gives its mutex up, or leaves the queue, leaves a      *)
(* queue.                                                                  *)
LEMMA QueueTypeStep == IInv /\ [Next]_vars => QueueType'
<1> SUFFICES ASSUME IInv, [Next]_vars PROVE QueueType'
  OBVIOUS
<1>1. TypeOK /\ CallerShape /\ QueueType
  BY TypeParts DEF IInv
<1> USE DEF Queue, Release, Holds, Closers, Processes
<1>2. ASSUME NEW p \in Closers \cup Users, Lock(p) PROVE QueueType'
  <2>1. at[p] \in Sessions
    BY <1>1, <1>2, HasSession DEF Lock
  <2>2. Append(io[at[p]], p) \in Seq(Processes \cup {Loop})
    BY <1>1, <2>1 DEF QueueType
  <2> QED BY <1>1, <1>2, <2>1, <2>2 DEF Lock, QueueType
<1>3. ASSUME NEW p \in Closers \cup Users, CloseDriver(p) \/ UseDriver(p) PROVE QueueType'
  <2>1. at[p] \in Sessions
    BY <1>1, <1>3, HasSession DEF CloseDriver, UseDriver
  <2>2. io[at[p]] # <<>> /\ io[at[p]] \in Seq(Processes \cup {Loop})
    BY <1>1, <1>3, <2>1 DEF CloseDriver, UseDriver, QueueType
  <2>3. Tail(io[at[p]]) \in Seq(Processes \cup {Loop})
    BY <2>2
  <2>4. io' = [io EXCEPT ![at[p]] = Tail(@)]
    BY <1>3 DEF CloseDriver, UseDriver
  <2> QED BY <1>1, <2>1, <2>3, <2>4 DEF QueueType
<1>4. ASSUME NEW s \in Sessions, LoopChecks(s) PROVE QueueType'
  <2>1. Append(io[s], Loop) \in Seq(Processes \cup {Loop})
    BY <1>1 DEF QueueType
  <2>2. UNCHANGED io \/ io' = [io EXCEPT ![s] = Append(@, Loop)]
    BY <1>4 DEF LoopChecks
  <2> QED BY <1>1, <2>1, <2>2 DEF QueueType
<1>5. ASSUME NEW s \in Sessions, LoopIsCancelled(s) PROVE QueueType'
  <2>1. PICK i \in 1 .. Len(io[s]) : io' = [io EXCEPT ![s] = RemoveAt(@, i)]
    BY <1>5 DEF LoopIsCancelled
  <2>2. io[s] \in Seq(Processes \cup {Loop})
    BY <1>1 DEF QueueType
  <2>3. RemoveAt(io[s], i) \in Seq(Processes \cup {Loop})
    BY <2>2 DEF RemoveAt
  <2> QED BY <1>1, <2>1, <2>3 DEF QueueType
<1>6. ASSUME NEW s \in Sessions, LoopReads(s) PROVE QueueType'
  <2>1. io[s] # <<>> /\ io[s] \in Seq(Processes \cup {Loop})
    BY <1>1, <1>6 DEF LoopReads, QueueType
  <2>2. Tail(io[s]) \in Seq(Processes \cup {Loop})
    BY <2>1
  <2>3. io' = [io EXCEPT ![s] = Tail(@)]
    BY <1>6 DEF LoopReads
  <2> QED BY <1>1, <2>2, <2>3 DEF QueueType
<1>7. ASSUME NEW p \in InScope, WaitIsCancelled(p) PROVE QueueType'
  <2>1. at[p] \in Sessions
    BY <1>1, <1>7, HasSession DEF WaitIsCancelled, InScope
  <2>2. PICK i \in 1 .. Len(io[at[p]]) : io' = [io EXCEPT ![at[p]] = RemoveAt(@, i)]
    BY <1>7 DEF WaitIsCancelled
  <2>3. io[at[p]] \in Seq(Processes \cup {Loop})
    BY <1>1, <2>1 DEF QueueType
  <2>4. RemoveAt(io[at[p]], i) \in Seq(Processes \cup {Loop})
    BY <2>3 DEF RemoveAt
  <2> QED BY <1>1, <2>1, <2>2, <2>4 DEF QueueType
<1>8. CASE UNCHANGED io
  BY <1>1, <1>8 DEF QueueType
<1> QED BY <1>2, <1>3, <1>4, <1>5, <1>6, <1>7, <1>8, WhoQueues

(* The loop has room for what it got, and readers take what there is.      *)
LEMMA BufferTypeStep == IInv /\ [Next]_vars => BufferType'
<1> SUFFICES ASSUME IInv, [Next]_vars PROVE BufferType'
  OBVIOUS
<1>1. TypeOK /\ CallerShape /\ LoopShape /\ BufferType /\ MaxBytes \in Nat
  BY TypeParts, BoundsAssumption DEF IInv
<1> USE DEF Closers, Processes
<1>2. ASSUME NEW s \in Sessions, buffer' = [buffer EXCEPT ![s] = 0] PROVE BufferType'
  BY <1>1, <1>2 DEF BufferType
<1>3. ASSUME NEW p \in Closers, CloseNotifies(p) PROVE BufferType'
  <2>1. at[p] \in Sessions
    BY <1>1, <1>3, HasSession DEF CloseNotifies
  <2>2. buffer' = [buffer EXCEPT ![at[p]] = 0]
    BY <1>3 DEF CloseNotifies
  <2> QED BY <1>2, <2>1, <2>2
<1>4. ASSUME NEW r \in Readers, ReadTakes(r) PROVE BufferType'
  <2>1. at[r] \in Sessions
    BY <1>1, <1>4, HasSession DEF ReadTakes
  <2>2. PICK n \in 1 .. buffer[at[r]] : buffer' = [buffer EXCEPT ![at[r]] = @ - n]
    BY <1>4 DEF ReadTakes
  <2>3. buffer[at[r]] - n \in 0 .. MaxBytes
    BY <1>1, <2>1 DEF BufferType
  <2> QED BY <1>1, <2>1, <2>2, <2>3 DEF BufferType
<1>5. ASSUME NEW u \in Users, ResetBuffers(u) PROVE BufferType'
  <2>1. table \in Sessions
    BY <1>1, <1>5 DEF ResetBuffers, TypeOK
  <2>2. buffer' = [buffer EXCEPT ![table] = 0]
    BY <1>5 DEF ResetBuffers
  <2> QED BY <1>2, <2>1, <2>2
<1>6. ASSUME NEW s \in Sessions, LoopDelivers(s) PROVE BufferType'
  <2>1. buffer[s] + 1 \in 0 .. MaxBytes
    BY <1>1, <1>6 DEF LoopDelivers, LoopShape, BufferType
  <2> QED BY <1>1, <1>6, <2>1 DEF LoopDelivers, BufferType
<1>7. ASSUME NEW s \in Sessions, LoopNotifies(s) PROVE BufferType'
  <2>1. buffer' = [buffer EXCEPT ![s] = 0]
    BY <1>7 DEF LoopNotifies
  <2> QED BY <1>2, <2>1
<1>8. CASE UNCHANGED buffer
  BY <1>1, <1>8 DEF BufferType
<1> QED BY <1>3, <1>4, <1>5, <1>6, <1>7, <1>8, WhoBuffers

(* A step keeps the types of what the manager has.                         *)
LEMMA ManagerTypesStep == IInv /\ [Next]_vars => ManagerTypes'
<1> SUFFICES ASSUME IInv, [Next]_vars PROVE ManagerTypes'
  OBVIOUS
<1>0. TypeOK /\ CallerShape /\ ManagerTypes
  BY TypeParts DEF IInv
<1> USE DEF LoopPCs, managerVars, portVars, loopVars, Goto, GotoWith, Done, Closers, Processes
<1>1. ASSUME NEW a \in Apps, OpenPort(a) PROVE ManagerTypes'
  BY <1>0, <1>1 DEF OpenPort, ManagerTypes
<1>2. ASSUME NEW a \in Apps, Resolve(a) PROVE ManagerTypes'
  BY <1>0, <1>2 DEF Resolve, ManagerTypes, LoopGoto
<1>3. ASSUME NEW a \in Apps, SessionOpenFails(a) PROVE ManagerTypes'
  BY <1>0, <1>3 DEF SessionOpenFails, ManagerTypes, LoopGoto
<1>4. ASSUME NEW a \in Apps, SessionOpen(a) PROVE ManagerTypes'
  <2>1. made' \in 0 .. MaxOpens
    BY <1>0, <1>4, NextSession DEF Sessions
  <2> QED BY <1>0, <1>4, <2>1, NextSession DEF SessionOpen, ManagerTypes, LoopGoto
<1>5. ASSUME NEW a \in Apps, Insert(a) PROVE ManagerTypes'
  <2>1. at[a] \in Sessions
    BY <1>0, <1>5, HasSession DEF Insert
  <2> QED BY <1>0, <1>5, <2>1 DEF Insert, ManagerTypes
<1>6. ASSUME NEW a \in Apps, ClosePort(a) PROVE ManagerTypes'
  BY <1>0, <1>6 DEF ClosePort, ManagerTypes, LoopGoto
<1>7. ASSUME NEW p \in Closers, Drop(p) PROVE ManagerTypes'
  BY <1>0, <1>7 DEF Drop, ManagerTypes, LoopGoto
<1>8. ASSUME NEW p \in Closers, CloseBegins(p) PROVE ManagerTypes'
  BY <1>0, <1>8 DEF CloseBegins, ManagerTypes, LoopGoto
<1>9. ASSUME NEW p \in Closers, CloseJoins(p) PROVE ManagerTypes'
  BY <1>0, <1>9 DEF CloseJoins, ManagerTypes, LoopGoto
<1>10. ASSUME NEW p \in Closers \cup Users, Lock(p) PROVE ManagerTypes'
  BY <1>0, <1>10 DEF Lock, ManagerTypes, LoopGoto
<1>11. ASSUME NEW p \in Closers, CloseDriver(p) PROVE ManagerTypes'
  BY <1>0, <1>11 DEF CloseDriver, ManagerTypes, LoopGoto
<1>12. ASSUME NEW p \in Closers, CloseNotifies(p) PROVE ManagerTypes'
  BY <1>0, <1>12 DEF CloseNotifies, ManagerTypes, LoopGoto
<1>13. CASE Detached
  BY <1>0, <1>13 DEF Detached, ManagerTypes, LoopGoto
<1>14. CASE DetachFromEngine
  BY <1>0, <1>14 DEF DetachFromEngine, ManagerTypes, LoopGoto
<1>15. ASSUME NEW granted \in BOOLEAN, PermissionResult(granted) PROVE ManagerTypes'
  BY <1>0, <1>15 DEF PermissionResult, ManagerTypes, LoopGoto
<1>16. ASSUME NEW r \in Readers, Read(r) PROVE ManagerTypes'
  BY <1>0, <1>16 DEF Read, ManagerTypes, LoopGoto
<1>17. ASSUME NEW r \in Readers, ReadTakes(r) PROVE ManagerTypes'
  BY <1>0, <1>17 DEF ReadTakes, ManagerTypes, LoopGoto
<1>18. ASSUME NEW r \in Readers, ReadFails(r) \/ ReadWaits(r) \/ ReadTimesOut(r) PROVE ManagerTypes'
  BY <1>0, <1>18 DEF ReadFails, ReadWaits, ReadTimesOut, ManagerTypes, LoopGoto
<1>19. ASSUME NEW u \in Users, Use(u) PROVE ManagerTypes'
  BY <1>0, <1>19 DEF Use, ManagerTypes, LoopGoto
<1>20. ASSUME NEW u \in Users, ResetBuffers(u) PROVE ManagerTypes'
  BY <1>0, <1>20 DEF ResetBuffers, ManagerTypes, LoopGoto
<1>21. ASSUME NEW u \in Users, UseDriver(u) PROVE ManagerTypes'
  BY <1>0, <1>21 DEF UseDriver, ManagerTypes, LoopGoto
<1>22. ASSUME NEW s \in Sessions, LoopChecks(s) PROVE ManagerTypes'
  BY <1>0, <1>22 DEF LoopChecks, ManagerTypes, LoopGoto
<1>23. ASSUME NEW s \in Sessions, LoopIsCancelled(s) PROVE ManagerTypes'
  BY <1>0, <1>23 DEF LoopIsCancelled, ManagerTypes, LoopGoto
<1>24. ASSUME NEW s \in Sessions, LoopReads(s) PROVE ManagerTypes'
  BY <1>0, <1>24 DEF LoopReads, ManagerTypes, LoopGoto
<1>25. ASSUME NEW s \in Sessions, LoopDelivers(s) PROVE ManagerTypes'
  BY <1>0, <1>25 DEF LoopDelivers, ManagerTypes, LoopGoto
<1>26. ASSUME NEW s \in Sessions, LoopThrew(s) PROVE ManagerTypes'
  BY <1>0, <1>26 DEF LoopThrew, ManagerTypes, LoopGoto
<1>27. ASSUME NEW s \in Sessions, LoopCloseBegins(s) PROVE ManagerTypes'
  BY <1>0, <1>27 DEF LoopCloseBegins, ManagerTypes, LoopGoto
<1>28. ASSUME NEW s \in Sessions, LoopCancelsItself(s) PROVE ManagerTypes'
  BY <1>0, <1>28 DEF LoopCancelsItself, ManagerTypes, LoopGoto
<1>29. ASSUME NEW s \in Sessions, LoopCloses(s) PROVE ManagerTypes'
  BY <1>0, <1>29 DEF LoopCloses, ManagerTypes, LoopGoto
<1>30. ASSUME NEW s \in Sessions, LoopNotifies(s) PROVE ManagerTypes'
  BY <1>0, <1>30 DEF LoopNotifies, ManagerTypes, LoopGoto
<1>31. CASE Detach
  BY <1>0, <1>31 DEF Detach, ManagerTypes, LoopGoto
<1>32. CASE UNCHANGED vars
  BY <1>0, <1>32 DEF vars, ManagerTypes, LoopGoto
<1>33. ASSUME NEW p \in InScope, CallIsCancelled(p) PROVE ManagerTypes'
  BY <1>0, <1>33 DEF CallIsCancelled, ManagerTypes
<1>34. ASSUME NEW p \in InScope, WaitIsCancelled(p) PROVE ManagerTypes'
  BY <1>0, <1>34 DEF WaitIsCancelled, ManagerTypes
<1>35. CASE ScopeCancelled
  BY <1>0, <1>35 DEF ScopeCancelled, ManagerTypes
<1> QED
  BY <1>0, <1>1, <1>2, <1>3, <1>4, <1>5, <1>6, <1>7, <1>8, <1>9, <1>10, <1>11, <1>12, <1>13, <1>14, <1>15, <1>16,
     <1>17, <1>18, <1>19, <1>20, <1>21, <1>22, <1>23, <1>24, <1>25, <1>26, <1>27, <1>28, <1>29, <1>30, <1>31, <1>32,
     <1>33, <1>34, <1>35
  DEF Next, Opening, Closing, Cancelling, Looping, Reading, Using

(* A coroutine goes on.                                                    *)
LEMMA GoesOn ==
    ASSUME CallTypes, NEW p \in Processes, NEW l \in PCs, NEW s \in Sessions \cup {None},
           Goto(p, l) \/ GotoWith(p, l, s)
    PROVE  CallTypes'
  BY DEF CallTypes, Goto, GotoWith

(* Those who wait on the monitor are woken.                                *)
LEMMA Wakes ==
    ASSUME CallTypes, NEW s
    PROVE  NotifyAll(s) \in [Processes -> PCs]
  BY DEF CallTypes, NotifyAll, PCs

(* A step keeps the types of the calls.                                    *)
LEMMA CallTypesStep == IInv /\ [Next]_vars => CallTypes'
<1> SUFFICES ASSUME IInv, [Next]_vars PROVE CallTypes'
  OBVIOUS
<1>0. TypeOK /\ CallerShape /\ CallTypes
  BY TypeParts DEF IInv
<1> USE DEF Closers, Processes, PCs
<1>1. ASSUME NEW a \in Apps, OpenPort(a) PROVE CallTypes'
  BY <1>0, <1>1, GoesOn DEF OpenPort
<1>2. ASSUME NEW a \in Apps, Resolve(a) PROVE CallTypes'
  BY <1>0, <1>2, GoesOn DEF Resolve, Done
<1>3. ASSUME NEW a \in Apps, SessionOpenFails(a) PROVE CallTypes'
  BY <1>0, <1>3, GoesOn DEF SessionOpenFails, Done
<1>4. ASSUME NEW a \in Apps, SessionOpen(a) PROVE CallTypes'
  BY <1>0, <1>4, GoesOn, NextSession DEF SessionOpen
<1>5. ASSUME NEW a \in Apps, Insert(a) PROVE CallTypes'
  BY <1>0, <1>5, GoesOn DEF Insert, Done
<1>6. ASSUME NEW a \in Apps, ClosePort(a) PROVE CallTypes'
  BY <1>0, <1>6, GoesOn DEF ClosePort, TypeOK
<1>7. ASSUME NEW p \in Closers, Drop(p) PROVE CallTypes'
  BY <1>0, <1>7, GoesOn DEF Drop
<1>8. ASSUME NEW p \in Closers, CloseBegins(p) PROVE CallTypes'
  BY <1>0, <1>8, GoesOn DEF CloseBegins, CancelLoop
<1>9. ASSUME NEW p \in Closers, CloseJoins(p) PROVE CallTypes'
  BY <1>0, <1>9, GoesOn DEF CloseJoins
<1>10. ASSUME NEW p \in Closers \cup Users, Lock(p) PROVE CallTypes'
  BY <1>0, <1>10, GoesOn DEF Lock
<1>11. ASSUME NEW p \in Closers, CloseDriver(p) PROVE CallTypes'
  BY <1>0, <1>11, GoesOn DEF CloseDriver
<1>12. ASSUME NEW p \in Closers, CloseNotifies(p) PROVE CallTypes'
  BY <1>0, <1>12, Wakes DEF CloseNotifies, CallTypes
<1>13. CASE Detached
  BY <1>0, <1>13, GoesOn DEF Detached, TypeOK
<1>14. CASE DetachFromEngine
  BY <1>0, <1>14, GoesOn DEF DetachFromEngine, Done, TypeOK
<1>15. ASSUME NEW granted \in BOOLEAN, PermissionResult(granted) PROVE CallTypes'
  BY <1>0, <1>15 DEF PermissionResult, CallTypes
<1>16. ASSUME NEW r \in Readers, Read(r) PROVE CallTypes'
  BY <1>0, <1>16, GoesOn DEF Read, TypeOK
<1>17. ASSUME NEW r \in Readers, ReadTakes(r) PROVE CallTypes'
  BY <1>0, <1>17, GoesOn DEF ReadTakes, Done
<1>18. ASSUME NEW r \in Readers, ReadFails(r) \/ ReadWaits(r) \/ ReadTimesOut(r) PROVE CallTypes'
  BY <1>0, <1>18, GoesOn DEF ReadFails, ReadWaits, ReadTimesOut, Done
<1>19. ASSUME NEW u \in Users, Use(u) PROVE CallTypes'
  BY <1>0, <1>19, GoesOn DEF Use, TypeOK
<1>20. ASSUME NEW u \in Users, ResetBuffers(u) PROVE CallTypes'
  BY <1>0, <1>20, Wakes DEF ResetBuffers, CallTypes, TypeOK
<1>21. ASSUME NEW u \in Users, UseDriver(u) PROVE CallTypes'
  BY <1>0, <1>21, GoesOn DEF UseDriver, Done
<1>22. ASSUME NEW s \in Sessions, LoopChecks(s) PROVE CallTypes'
  BY <1>0, <1>22 DEF LoopChecks, CallTypes
<1>23. ASSUME NEW s \in Sessions, LoopIsCancelled(s) PROVE CallTypes'
  BY <1>0, <1>23 DEF LoopIsCancelled, CallTypes
<1>24. ASSUME NEW s \in Sessions, LoopReads(s) PROVE CallTypes'
  BY <1>0, <1>24 DEF LoopReads, CallTypes
<1>25. ASSUME NEW s \in Sessions, LoopDelivers(s) PROVE CallTypes'
  BY <1>0, <1>25, Wakes DEF LoopDelivers, CallTypes
<1>26. ASSUME NEW s \in Sessions, LoopThrew(s) PROVE CallTypes'
  BY <1>0, <1>26 DEF LoopThrew, CallTypes
<1>27. ASSUME NEW s \in Sessions, LoopCloseBegins(s) PROVE CallTypes'
  BY <1>0, <1>27 DEF LoopCloseBegins, CallTypes
<1>28. ASSUME NEW s \in Sessions, LoopCancelsItself(s) PROVE CallTypes'
  BY <1>0, <1>28 DEF LoopCancelsItself, CallTypes
<1>29. ASSUME NEW s \in Sessions, LoopCloses(s) PROVE CallTypes'
  BY <1>0, <1>29 DEF LoopCloses, CallTypes
<1>30. ASSUME NEW s \in Sessions, LoopNotifies(s) PROVE CallTypes'
  BY <1>0, <1>30, Wakes DEF LoopNotifies, CallTypes
<1>31. CASE Detach
  BY <1>0, <1>31 DEF Detach, CallTypes
<1>32. CASE UNCHANGED vars
  BY <1>0, <1>32 DEF vars, CallTypes
<1>33. ASSUME NEW p \in InScope, CallIsCancelled(p) PROVE CallTypes'
  BY <1>0, <1>33, GoesOn DEF CallIsCancelled, Done, InScope
<1>34. ASSUME NEW p \in InScope, WaitIsCancelled(p) PROVE CallTypes'
  BY <1>0, <1>34, GoesOn DEF WaitIsCancelled, Done, InScope
<1>35. CASE ScopeCancelled
  BY <1>0, <1>35 DEF ScopeCancelled, CallTypes
<1> QED
  BY <1>1, <1>2, <1>3, <1>4, <1>5, <1>6, <1>7, <1>8, <1>9, <1>10, <1>11, <1>12, <1>13, <1>14, <1>15, <1>16,
     <1>17, <1>18, <1>19, <1>20, <1>21, <1>22, <1>23, <1>24, <1>25, <1>26, <1>27, <1>28, <1>29, <1>30, <1>31, <1>32,
     <1>33, <1>34, <1>35
  DEF Next, Opening, Closing, Cancelling, Looping, Reading, Using

(* A step keeps the types of the flags.                                    *)
LEMMA FlagTypesStep == IInv /\ [Next]_vars => FlagTypes'
<1> SUFFICES ASSUME IInv, [Next]_vars PROVE FlagTypes'
  OBVIOUS
<1>0. TypeOK /\ CallerShape /\ FlagTypes
  BY TypeParts DEF IInv
<1> USE DEF managerVars, portVars, loopVars
<1>1. ASSUME NEW a \in Apps, OpenPort(a) PROVE FlagTypes'
  BY <1>0, <1>1 DEF OpenPort, FlagTypes
<1>2. ASSUME NEW a \in Apps, Resolve(a) PROVE FlagTypes'
  BY <1>0, <1>2 DEF Resolve, FlagTypes
<1>3. ASSUME NEW a \in Apps, SessionOpenFails(a) PROVE FlagTypes'
  BY <1>0, <1>3 DEF SessionOpenFails, FlagTypes
<1>4. ASSUME NEW a \in Apps, SessionOpen(a) PROVE FlagTypes'
  <2>1. /\ opened' = [opened EXCEPT ![made + 1] = TRUE]
        /\ connected' = [connected EXCEPT ![made + 1] = TRUE]
        /\ job' = [job EXCEPT ![made + 1] = TRUE]
        /\ UNCHANGED <<cancelled, cut, stranded, announced>>
    BY <1>4 DEF SessionOpen
  <2> QED BY <1>0, <2>1, OneFlag DEF FlagTypes
<1>5. ASSUME NEW a \in Apps, Insert(a) PROVE FlagTypes'
  BY <1>0, <1>5 DEF Insert, FlagTypes
<1>6. ASSUME NEW a \in Apps, ClosePort(a) PROVE FlagTypes'
  BY <1>0, <1>6 DEF ClosePort, FlagTypes
<1>7. ASSUME NEW p \in Closers, Drop(p) PROVE FlagTypes'
  BY <1>0, <1>7 DEF Drop, FlagTypes
<1>8. ASSUME NEW p \in Closers, CloseBegins(p) PROVE FlagTypes'
  <2> DEFINE told == cancelled[at[p]] \/ job[at[p]]
  <2>1. told \in BOOLEAN
    OBVIOUS
  <2>2. UNCHANGED cancelled \/ cancelled' = [cancelled EXCEPT ![at[p]] = told]
    BY <1>8 DEF CloseBegins, CancelLoop
  <2> HIDE DEF told
  <2>3. cancelled' \in Flags
    <3>1. cancelled \in Flags
      BY <1>0 DEF FlagTypes
    <3>2. [cancelled EXCEPT ![at[p]] = told] \in Flags
      BY <2>1, <3>1, OneFlag
    <3> QED BY <2>2, <3>1, <3>2
  <2>4. opened' = [opened EXCEPT ![at[p]] = FALSE] /\ UNCHANGED <<connected, job, cut, stranded, announced>>
    BY <1>8 DEF CloseBegins
  <2> QED BY <1>0, <2>3, <2>4, OneFlag DEF FlagTypes
<1>9. ASSUME NEW p \in Closers, CloseJoins(p) PROVE FlagTypes'
  BY <1>0, <1>9, OneFlag DEF CloseJoins, FlagTypes
<1>10. ASSUME NEW p \in Closers \cup Users, Lock(p) PROVE FlagTypes'
  BY <1>0, <1>10 DEF Lock, FlagTypes
<1>11. ASSUME NEW p \in Closers, CloseDriver(p) PROVE FlagTypes'
  BY <1>0, <1>11, OneFlag DEF CloseDriver, FlagTypes
<1>12. ASSUME NEW p \in Closers, CloseNotifies(p) PROVE FlagTypes'
  <2> DEFINE told == announced[at[p]] \/ (p # Engine /\ ~ended)
  <2>1. told \in BOOLEAN
    OBVIOUS
  <2>2. announced' = [announced EXCEPT ![at[p]] = told]
    BY <1>12 DEF CloseNotifies
  <2> HIDE DEF told
  <2>3. announced' \in Flags
    BY <1>0, <2>1, <2>2, OneFlag DEF FlagTypes
  <2> QED BY <1>0, <1>12, <2>3 DEF CloseNotifies, FlagTypes
<1>13. CASE Detached
  BY <1>0, <1>13 DEF Detached, FlagTypes
<1>14. CASE DetachFromEngine
  BY <1>0, <1>14 DEF DetachFromEngine, FlagTypes
<1>15. ASSUME NEW granted \in BOOLEAN, PermissionResult(granted) PROVE FlagTypes'
  BY <1>0, <1>15 DEF PermissionResult, FlagTypes
<1>16. ASSUME NEW r \in Readers, Read(r) PROVE FlagTypes'
  BY <1>0, <1>16 DEF Read, FlagTypes
<1>17. ASSUME NEW r \in Readers, ReadTakes(r) PROVE FlagTypes'
  BY <1>0, <1>17 DEF ReadTakes, FlagTypes
<1>18. ASSUME NEW r \in Readers, ReadFails(r) \/ ReadWaits(r) \/ ReadTimesOut(r) PROVE FlagTypes'
  BY <1>0, <1>18 DEF ReadFails, ReadWaits, ReadTimesOut, FlagTypes
<1>19. ASSUME NEW u \in Users, Use(u) PROVE FlagTypes'
  BY <1>0, <1>19 DEF Use, FlagTypes
<1>20. ASSUME NEW u \in Users, ResetBuffers(u) PROVE FlagTypes'
  BY <1>0, <1>20 DEF ResetBuffers, FlagTypes
<1>21. ASSUME NEW u \in Users, UseDriver(u) PROVE FlagTypes'
  BY <1>0, <1>21 DEF UseDriver, FlagTypes
<1>22. ASSUME NEW s \in Sessions, LoopChecks(s) PROVE FlagTypes'
  BY <1>0, <1>22 DEF LoopChecks, FlagTypes
<1>23. ASSUME NEW s \in Sessions, LoopIsCancelled(s) PROVE FlagTypes'
  BY <1>0, <1>23 DEF LoopIsCancelled, FlagTypes
<1>24. ASSUME NEW s \in Sessions, LoopReads(s) PROVE FlagTypes'
  BY <1>0, <1>24 DEF LoopReads, FlagTypes
<1>25. ASSUME NEW s \in Sessions, LoopDelivers(s) PROVE FlagTypes'
  BY <1>0, <1>25 DEF LoopDelivers, FlagTypes
<1>26. ASSUME NEW s \in Sessions, LoopThrew(s) PROVE FlagTypes'
  BY <1>0, <1>26 DEF LoopThrew, FlagTypes
<1>27. ASSUME NEW s \in Sessions, LoopCloseBegins(s) PROVE FlagTypes'
  BY <1>0, <1>27, OneFlag DEF LoopCloseBegins, FlagTypes
<1>28. ASSUME NEW s \in Sessions, LoopCancelsItself(s) PROVE FlagTypes'
  BY <1>0, <1>28, OneFlag DEF LoopCancelsItself, FlagTypes
<1>29. ASSUME NEW s \in Sessions, LoopCloses(s) PROVE FlagTypes'
  <2>1. /\ UNCHANGED connected \/ connected' = [connected EXCEPT ![s] = FALSE]
        /\ UNCHANGED cut \/ cut' = [cut EXCEPT ![s] = TRUE]
        /\ UNCHANGED <<opened, job, cancelled, stranded, announced>>
    BY <1>29 DEF LoopCloses
  <2>2. connected' \in Flags /\ cut' \in Flags
    BY <1>0, <2>1, OneFlag DEF FlagTypes
  <2> QED BY <1>0, <2>1, <2>2 DEF FlagTypes
<1>30. ASSUME NEW s \in Sessions, LoopNotifies(s) PROVE FlagTypes'
  BY <1>0, <1>30 DEF LoopNotifies, FlagTypes
<1>31. CASE Detach
  BY <1>0, <1>31 DEF Detach, FlagTypes
<1>32. CASE UNCHANGED vars
  BY <1>0, <1>32 DEF vars, FlagTypes
<1>33. ASSUME NEW p \in InScope, CallIsCancelled(p) PROVE FlagTypes'
  <2>1. UNCHANGED stranded \/ stranded' = [stranded EXCEPT ![at[p]] = TRUE]
    BY <1>33 DEF CallIsCancelled, Strands
  <2>2. stranded' \in Flags
    BY <1>0, <2>1, OneFlag DEF FlagTypes
  <2> QED BY <1>0, <1>33, <2>2 DEF CallIsCancelled, FlagTypes
<1>34. ASSUME NEW p \in InScope, WaitIsCancelled(p) PROVE FlagTypes'
  <2>1. UNCHANGED stranded \/ stranded' = [stranded EXCEPT ![at[p]] = TRUE]
    BY <1>34 DEF WaitIsCancelled, Strands
  <2>2. stranded' \in Flags
    BY <1>0, <2>1, OneFlag DEF FlagTypes
  <2> QED BY <1>0, <1>34, <2>2 DEF WaitIsCancelled, FlagTypes
<1>35. CASE ScopeCancelled
  BY <1>0, <1>35 DEF ScopeCancelled, FlagTypes
<1> QED
  BY <1>1, <1>2, <1>3, <1>4, <1>5, <1>6, <1>7, <1>8, <1>9, <1>10, <1>11, <1>12, <1>13, <1>14, <1>15, <1>16,
     <1>17, <1>18, <1>19, <1>20, <1>21, <1>22, <1>23, <1>24, <1>25, <1>26, <1>27, <1>28, <1>29, <1>30, <1>31, <1>32,
     <1>33, <1>34, <1>35
  DEF Next, Opening, Closing, Cancelling, Looping, Reading, Using

(* A step keeps the types.                                                 *)
LEMMA TypeOKStep == IInv /\ [Next]_vars => TypeOK'
<1> SUFFICES ASSUME IInv, [Next]_vars PROVE TypeOK'
  OBVIOUS
<1>1. ManagerTypes' /\ CallTypes' /\ FlagTypes' /\ BufferType' /\ QueueType'
  BY ManagerTypesStep, CallTypesStep, FlagTypesStep, BufferTypeStep, QueueTypeStep
<1> QED BY <1>1 DEF TypeOK, ManagerTypes, CallTypes, FlagTypes, Flags, BufferType, QueueType

-----------------------------------------------------------------------------
(* A coroutine has its session from its look at the table until it is done.*)
LEMMA CallerShapeStep == IInv /\ [Next]_vars => CallerShape'
<1> SUFFICES ASSUME IInv, [Next]_vars PROVE CallerShape'
  OBVIOUS
<1>0. TypeOK /\ CallerShape
  BY DEF IInv
<1> USE DEF TypeOK, CallerShape, NotifyAll, CancelLoop, managerVars, portVars, loopVars, Goto, GotoWith,
           Done, Closers, Processes
<1>1. ASSUME NEW a \in Apps, OpenPort(a) PROVE CallerShape'
  BY <1>0, <1>1 DEF OpenPort
<1>2. ASSUME NEW a \in Apps, Resolve(a) PROVE CallerShape'
  BY <1>0, <1>2 DEF Resolve
<1>3. ASSUME NEW a \in Apps, SessionOpenFails(a) PROVE CallerShape'
  BY <1>0, <1>3 DEF SessionOpenFails
<1>4. ASSUME NEW a \in Apps, SessionOpen(a) PROVE CallerShape'
  <2>1. made' = made + 1 /\ made \in Nat /\ table' = table
    BY <1>0, <1>4, NextSession DEF SessionOpen
  <2>2. /\ \A q \in Processes : q # a => pc'[q] = pc[q] /\ at'[q] = at[q]
        /\ pc'[a] = "insert" /\ at'[a] = made + 1
    BY <1>0, <1>4 DEF SessionOpen, TypeOK
  <2>3. /\ table # None => table \in Nat
        /\ \A q \in Processes : at[q] # None => at[q] \in Nat /\ at[q] <= made
    BY <1>0 DEF TypeOK, Sessions
  <2>4. made + 1 # None
    BY <1>0, <1>4, NextSession, ProcessesAssumption
  <2>5. table' # None => table' <= made'
    BY <1>0, <2>1, <2>3
  <2>6. \A q \in Processes : at'[q] # None => at'[q] <= made'
    BY <2>1, <2>2, <2>3
  <2>7. \A q \in Processes : at'[q] = None <=> pc'[q] \in {"idle", "resolve", "asking", "open"}
    BY <1>0, <2>2, <2>4
  <2>8. \A q \in Closers : pc'[q] \notin {"test", "wait", "late"}
    BY <1>0, <2>2
  <2> QED BY <2>5, <2>6, <2>7, <2>8
<1>5. ASSUME NEW a \in Apps, Insert(a) PROVE CallerShape'
  BY <1>0, <1>5 DEF Insert
<1>6. ASSUME NEW a \in Apps, ClosePort(a) PROVE CallerShape'
  BY <1>0, <1>6 DEF ClosePort
<1>7. ASSUME NEW p \in Closers, Drop(p) PROVE CallerShape'
  BY <1>0, <1>7 DEF Drop
<1>8. ASSUME NEW p \in Closers, CloseBegins(p) PROVE CallerShape'
  <2>1. PICK l \in {"notify", "join", "lock"} : pc' = [pc EXCEPT ![p] = l]
    BY <1>8 DEF CloseBegins
  <2>2. UNCHANGED <<table, made, at>> /\ pc[p] = "begin"
    BY <1>8 DEF CloseBegins
  <2> QED BY <1>0, <2>1, <2>2
<1>9. ASSUME NEW p \in Closers, CloseJoins(p) PROVE CallerShape'
  BY <1>0, <1>9 DEF CloseJoins
<1>10. ASSUME NEW p \in Closers \cup Users, Lock(p) PROVE CallerShape'
  BY <1>0, <1>10 DEF Lock
<1>11. ASSUME NEW p \in Closers, CloseDriver(p) PROVE CallerShape'
  BY <1>0, <1>11 DEF CloseDriver
<1>12. ASSUME NEW p \in Closers, CloseNotifies(p) PROVE CallerShape'
  BY <1>0, <1>12 DEF CloseNotifies
<1>13. CASE Detached
  BY <1>0, <1>13 DEF Detached
<1>14. CASE DetachFromEngine
  BY <1>0, <1>14 DEF DetachFromEngine
<1>15. ASSUME NEW granted \in BOOLEAN, PermissionResult(granted) PROVE CallerShape'
  BY <1>0, <1>15 DEF PermissionResult
<1>16. ASSUME NEW r \in Readers, Read(r) PROVE CallerShape'
  <2>1. r \notin Closers
    BY ProcessesAssumption
  <2>2. /\ \A q \in Processes : q # r => pc'[q] = pc[q] /\ at'[q] = at[q]
        /\ pc'[r] = "test" /\ at'[r] = table
        /\ UNCHANGED <<table, made>>
    BY <1>0, <1>16 DEF Read, TypeOK
  <2> QED BY <1>0, <1>16, <2>1, <2>2 DEF Read
<1>17. ASSUME NEW r \in Readers, ReadTakes(r) PROVE CallerShape'
  BY <1>0, <1>17 DEF ReadTakes
<1>18. ASSUME NEW r \in Readers, ReadFails(r) \/ ReadWaits(r) \/ ReadTimesOut(r) PROVE CallerShape'
  <2>1. r \notin Closers
    BY ProcessesAssumption
  <2>2. \A q \in Processes : q # r => pc'[q] = pc[q] /\ at'[q] = at[q]
    BY <1>0, <1>18 DEF ReadFails, ReadWaits, ReadTimesOut, TypeOK
  <2>3. \/ pc'[r] = "idle" /\ at'[r] = None
        \/ pc'[r] \in {"wait", "late"} /\ at'[r] = at[r] /\ pc[r] \in {"test", "wait"}
    BY <1>0, <1>18 DEF ReadFails, ReadWaits, ReadTimesOut, TypeOK
  <2>4. UNCHANGED <<table, made>>
    BY <1>18 DEF ReadFails, ReadWaits, ReadTimesOut
  <2> QED BY <1>0, <2>1, <2>2, <2>3, <2>4
<1>19. ASSUME NEW u \in Users, Use(u) PROVE CallerShape'
  BY <1>0, <1>19 DEF Use
<1>20. ASSUME NEW u \in Users, ResetBuffers(u) PROVE CallerShape'
  BY <1>0, <1>20 DEF ResetBuffers
<1>21. ASSUME NEW u \in Users, UseDriver(u) PROVE CallerShape'
  BY <1>0, <1>21 DEF UseDriver
<1>22. ASSUME NEW s \in Sessions, LoopChecks(s) PROVE CallerShape'
  BY <1>0, <1>22 DEF LoopChecks
<1>23. ASSUME NEW s \in Sessions, LoopIsCancelled(s) PROVE CallerShape'
  BY <1>0, <1>23 DEF LoopIsCancelled
<1>24. ASSUME NEW s \in Sessions, LoopReads(s) PROVE CallerShape'
  BY <1>0, <1>24 DEF LoopReads
<1>25. ASSUME NEW s \in Sessions, LoopDelivers(s) PROVE CallerShape'
  BY <1>0, <1>25 DEF LoopDelivers
<1>26. ASSUME NEW s \in Sessions, LoopThrew(s) PROVE CallerShape'
  BY <1>0, <1>26 DEF LoopThrew
<1>27. ASSUME NEW s \in Sessions, LoopCloseBegins(s) PROVE CallerShape'
  BY <1>0, <1>27 DEF LoopCloseBegins
<1>28. ASSUME NEW s \in Sessions, LoopCancelsItself(s) PROVE CallerShape'
  BY <1>0, <1>28 DEF LoopCancelsItself
<1>29. ASSUME NEW s \in Sessions, LoopCloses(s) PROVE CallerShape'
  BY <1>0, <1>29 DEF LoopCloses
<1>30. ASSUME NEW s \in Sessions, LoopNotifies(s) PROVE CallerShape'
  BY <1>0, <1>30 DEF LoopNotifies
<1>31. CASE Detach
  BY <1>0, <1>31 DEF Detach
<1>32. CASE UNCHANGED vars
  BY <1>0, <1>32 DEF vars
<1>33. ASSUME NEW p \in InScope, CallIsCancelled(p) PROVE CallerShape'
  <2>1. p \in Processes
    BY DEF InScope
  <2> QED BY <1>0, <1>33, <2>1 DEF CallIsCancelled
<1>34. ASSUME NEW p \in InScope, WaitIsCancelled(p) PROVE CallerShape'
  <2>1. p \in Processes
    BY DEF InScope
  <2> QED BY <1>0, <1>34, <2>1 DEF WaitIsCancelled
<1>35. CASE ScopeCancelled
  BY <1>0, <1>35 DEF ScopeCancelled
<1> QED
  BY <1>1, <1>2, <1>3, <1>4, <1>5, <1>6, <1>7, <1>8, <1>9, <1>10, <1>11, <1>12, <1>13, <1>14, <1>15, <1>16,
     <1>17, <1>18, <1>19, <1>20, <1>21, <1>22, <1>23, <1>24, <1>25, <1>26, <1>27, <1>28, <1>29, <1>30, <1>31, <1>32,
     <1>33, <1>34, <1>35
  DEF Next, Opening, Closing, Cancelling, Looping, Reading, Using

-----------------------------------------------------------------------------
(* Where a read loop does not read any more.                               *)
Past == {"close", "notify", "over"}

(* A loop that is past its last read stays there.                          *)
LEMMA PastForGood ==
    ASSUME IInv, [Next]_vars, NEW s \in Sessions, loop[s] \in Past
    PROVE  loop'[s] \in Past
<1>1. TypeOK /\ LoopShape
  BY DEF IInv
<1>2. ASSUME NEW a \in Apps, SessionOpen(a) PROVE loop'[s] \in Past
  <2>1. made + 1 > made /\ made + 1 \in Sessions
    BY <1>1, <1>2, NextSession
  <2>2. s # made + 1
    BY <1>1, <2>1 DEF LoopShape, Past
  <2> QED BY <1>1, <1>2, <2>2 DEF SessionOpen, LoopGoto, TypeOK
<1>3. ASSUME NEW q \in Sessions, Looping(q) PROVE loop'[s] \in Past
  <2>1. CASE q # s
    BY <1>1, <1>3, <2>1 DEF Looping, LoopChecks, LoopIsCancelled, LoopReads, LoopDelivers, LoopThrew,
       LoopCloseBegins, LoopCancelsItself, LoopCloses, LoopNotifies, LoopGoto, TypeOK
  <2>2. CASE q = s
    <3>1. LoopCloses(s) \/ LoopNotifies(s)
      BY <1>3, <2>2 DEF Looping, LoopChecks, LoopIsCancelled, LoopReads, LoopDelivers, LoopThrew,
         LoopCloseBegins, LoopCancelsItself, Past
    <3> QED BY <1>1, <3>1 DEF LoopCloses, LoopNotifies, LoopGoto, TypeOK, Past
  <2> QED BY <2>1, <2>2
<1> QED BY <1>2, <1>3, WhoLoops

(* Sessions are made one after the other.                                  *)
LEMMA MadeGrows ==
    ASSUME IInv, [Next]_vars
    PROVE  /\ made \in Nat
           /\ \/ UNCHANGED made
              \/ made' = made + 1 /\ \E a \in Apps : SessionOpen(a)
<1>1. TypeOK
  BY DEF IInv
<1>2. made \in Nat
  BY <1>1, BoundsAssumption DEF TypeOK
<1>3. ASSUME NEW a \in Apps, SessionOpen(a) PROVE made' = made + 1
  BY <1>1, <1>3, NextSession
<1>4. ASSUME NEW p \in Closers, CloseDriver(p) PROVE UNCHANGED made
  BY <1>4 DEF CloseDriver, managerVars
<1>5. ASSUME NEW s \in Sessions, LoopCloses(s) PROVE UNCHANGED made
  BY <1>5 DEF LoopCloses, managerVars
<1> QED BY <1>2, <1>3, <1>4, <1>5, WhoConnects

(* What a session that is not made yet does not have.                      *)
LEMMA FreshStep ==
    ASSUME IInv, [Next]_vars, NEW s \in Sessions, s > made'
    PROVE  loop'[s] = "none" /\ ~connected'[s] /\ ~job'[s] /\ ~announced'[s]
<1>1. TypeOK /\ CallerShape /\ LoopShape
  BY DEF IInv
<1>2. s \in Nat /\ s > made /\ made \in Nat
  BY MadeGrows DEF Sessions
<1>3. loop[s] = "none" /\ ~connected[s] /\ ~job[s] /\ ~announced[s]
  BY <1>1, <1>2 DEF LoopShape
<1>4. \A p \in Processes : at[p] # s
  BY <1>1, <1>2, ProcessesAssumption DEF CallerShape, TypeOK, Sessions
<1>5. ASSUME NEW a \in Apps, SessionOpen(a)
      PROVE  loop'[s] = loop[s] /\ connected'[s] = connected[s] /\ job'[s] = job[s]
  <2>1. s # made + 1
    BY <1>1, <1>2, <1>5, NextSession
  <2> QED BY <1>1, <1>5, <2>1 DEF SessionOpen, LoopGoto, TypeOK
<1>6. loop'[s] = loop[s]
  <2>1. ASSUME NEW q \in Sessions, Looping(q) PROVE loop'[s] = loop[s]
    <3>1. q # s
      BY <1>3, <2>1 DEF Looping, LoopChecks, LoopIsCancelled, LoopReads, LoopDelivers, LoopThrew,
         LoopCloseBegins, LoopCancelsItself, LoopCloses, LoopNotifies
    <3> QED BY <1>1, <2>1, <3>1 DEF Looping, LoopChecks, LoopIsCancelled, LoopReads, LoopDelivers,
         LoopThrew, LoopCloseBegins, LoopCancelsItself, LoopCloses, LoopNotifies, LoopGoto, TypeOK
  <2> QED BY <1>5, <2>1, WhoLoops
<1>7. ~connected'[s]
  <2>1. ASSUME NEW p \in Closers, CloseDriver(p) PROVE ~connected'[s]
    BY <1>1, <1>3, <2>1 DEF CloseDriver, TypeOK
  <2>2. ASSUME NEW q \in Sessions, LoopCloses(q) PROVE ~connected'[s]
    BY <1>1, <1>3, <2>2 DEF LoopCloses, TypeOK
  <2> QED BY <1>3, <1>5, <2>1, <2>2, WhoConnects
<1>8. ~job'[s]
  <2>1. ASSUME NEW p \in Closers, CloseJoins(p) PROVE ~job'[s]
    BY <1>1, <1>3, <2>1 DEF CloseJoins, TypeOK
  <2>2. ASSUME NEW q \in Sessions, LoopCancelsItself(q) PROVE ~job'[s]
    BY <1>1, <1>3, <2>2 DEF LoopCancelsItself, TypeOK
  <2> QED BY <1>3, <1>5, <2>1, <2>2, WhoHasJobs
<1>9. ~announced'[s]
  <2>1. ASSUME NEW p \in Closers, CloseNotifies(p) PROVE ~announced'[s]
    BY <1>1, <1>3, <1>4, <2>1 DEF CloseNotifies, TypeOK, Processes
  <2> QED BY <1>3, <2>1, WhoAnnounces
<1> QED BY <1>3, <1>6, <1>7, <1>8, <1>9

(* The loop asks for room before it reads.                                 *)
LEMMA RoomStep ==
    ASSUME IInv, [Next]_vars, NEW s \in Sessions, loop'[s] = "got"
    PROVE  buffer'[s] < MaxBytes
<1>1. TypeOK /\ CallerShape /\ LoopShape /\ MaxBytes \in Nat
  BY BoundsAssumption DEF IInv
<1>2. CASE loop[s] # "got"
  <2>1. ASSUME NEW a \in Apps, SessionOpen(a) PROVE FALSE
    BY <1>1, <1>2, <2>1 DEF SessionOpen, LoopGoto, TypeOK
  <2>2. PICK q \in Sessions : Looping(q)
    BY <1>2, <2>1, WhoLoops
  <2>3. LoopReads(s) /\ buffer[s] < MaxBytes
    BY <1>1, <1>2, <2>2 DEF Looping, LoopChecks, LoopIsCancelled, LoopReads, LoopDelivers, LoopThrew,
       LoopCloseBegins, LoopCancelsItself, LoopCloses, LoopNotifies, LoopGoto, TypeOK
  <2> QED BY <2>3 DEF LoopReads
<1>3. CASE loop[s] = "got"
  <2>1. buffer[s] < MaxBytes /\ buffer[s] \in Nat
    BY <1>1, <1>3 DEF LoopShape, TypeOK
  <2>2. 0 < MaxBytes
    BY <1>1, <2>1
  <2>3. ASSUME NEW q \in Sessions, LoopDelivers(q) \/ LoopNotifies(q) PROVE buffer'[s] = buffer[s]
    <3>1. q # s
      BY <1>1, <1>3, <2>3 DEF LoopDelivers, LoopNotifies, LoopGoto, TypeOK
    <3> QED BY <1>1, <2>3, <3>1 DEF LoopDelivers, LoopNotifies, TypeOK
  <2>4. ASSUME NEW r \in Readers, ReadTakes(r) PROVE buffer'[s] <= buffer[s]
    <3>1. PICK n \in 1 .. buffer[at[r]] : buffer' = [buffer EXCEPT ![at[r]] = @ - n]
      BY <2>4 DEF ReadTakes
    <3>2. buffer'[s] = buffer[s] \/ buffer'[s] = buffer[s] - n
      BY <1>1, <3>1 DEF TypeOK
    <3>3. at[r] \in Sessions
      BY <1>1, <2>4, HasSession DEF ReadTakes, Processes
    <3>4. n \in Nat
      BY <1>1, <3>3 DEF TypeOK
    <3> QED BY <2>1, <3>2, <3>4
  <2>5. ASSUME NEW p \in Closers, CloseNotifies(p) PROVE buffer'[s] = 0 \/ buffer'[s] = buffer[s]
    BY <1>1, <2>5 DEF CloseNotifies, TypeOK
  <2>6. ASSUME NEW u \in Users, ResetBuffers(u) PROVE buffer'[s] = 0 \/ buffer'[s] = buffer[s]
    BY <1>1, <2>6 DEF ResetBuffers, TypeOK
  <2>7. buffer'[s] = 0 \/ buffer'[s] = buffer[s] \/ buffer'[s] <= buffer[s]
    BY <2>3, <2>4, <2>5, <2>6, WhoBuffers
  <2>8. buffer'[s] \in Nat
    BY BufferTypeStep, <1>1 DEF BufferType
  <2> QED BY <1>1, <2>1, <2>2, <2>7, <2>8
<1> QED BY <1>2, <1>3

(* The device is given back for good.                                      *)
LEMMA GivenBackForGood ==
    ASSUME IInv, [Next]_vars, NEW s \in Sessions, connected'[s]
    PROVE  \/ connected[s] /\ s <= made
           \/ s = made + 1 /\ \E a \in Apps : SessionOpen(a)
<1>1. TypeOK /\ LoopShape /\ made \in Nat /\ s \in Nat
  BY MadeGrows DEF IInv, Sessions
<1>2. connected[s] => s <= made
  BY <1>1 DEF LoopShape
<1>3. ASSUME NEW a \in Apps, SessionOpen(a) PROVE s = made + 1 \/ connected[s]
  BY <1>1, <1>3 DEF SessionOpen, TypeOK
<1>4. ASSUME NEW p \in Closers, CloseDriver(p) PROVE connected[s]
  BY <1>1, <1>4 DEF CloseDriver, TypeOK
<1>5. ASSUME NEW q \in Sessions, LoopCloses(q) PROVE connected[s]
  BY <1>1, <1>5 DEF LoopCloses, TypeOK
<1>6. UNCHANGED connected => connected[s]
  OBVIOUS
<1> QED BY <1>2, <1>3, <1>4, <1>5, <1>6, WhoConnects

(* Without its job, or without the device, a loop is past its last read.   *)
LEMMA PastStep ==
    ASSUME IInv, [Next]_vars, NEW s \in Sessions, s <= made', ~job'[s] \/ ~connected'[s]
    PROVE  loop'[s] \in Past
<1>1. TypeOK /\ LoopShape /\ CloseShape /\ made \in Nat /\ s \in Nat
  BY MadeGrows DEF IInv, Sessions
<1>2. ASSUME NEW a \in Apps, SessionOpen(a), s = made + 1 PROVE FALSE
  BY <1>1, <1>2 DEF SessionOpen, TypeOK
<1>3. s <= made
  BY <1>1, <1>2, MadeGrows
<1>4. CASE ~job[s] \/ ~connected[s]
  <2>1. loop[s] \in Past
    BY <1>1, <1>3, <1>4 DEF LoopShape, Past
  <2> QED BY <2>1, PastForGood
<1>5. CASE job[s] /\ connected[s]
  <2>1. ASSUME NEW a \in Apps, SessionOpen(a) PROVE FALSE
    BY <1>1, <1>5, <2>1 DEF SessionOpen, TypeOK
  <2>2. ASSUME NEW p \in Closers, CloseJoins(p), job' # job PROVE loop[s] \in Past \/ job'[s]
    BY <1>1, <1>5, <2>2 DEF CloseJoins, TypeOK, Past
  <2>3. ASSUME NEW p \in Closers, CloseDriver(p) PROVE loop[s] \in Past \/ connected'[s]
    BY <1>1, <1>5, <2>3 DEF CloseDriver, CloseShape, TypeOK, Past
  <2>4. ASSUME NEW q \in Sessions, LoopCancelsItself(q) PROVE loop'[s] \in Past \/ job'[s]
    BY <1>1, <1>5, <2>4 DEF LoopCancelsItself, LoopGoto, TypeOK, Past
  <2>5. ASSUME NEW q \in Sessions, LoopCloses(q) PROVE loop'[s] \in Past \/ connected'[s]
    BY <1>1, <1>5, <2>5 DEF LoopCloses, LoopGoto, TypeOK, Past
  <2>6. job'[s] \/ loop[s] \in Past \/ loop'[s] \in Past
    BY <1>5, <2>1, <2>2, <2>4, WhoHasJobs
  <2>7. connected'[s] \/ loop[s] \in Past \/ loop'[s] \in Past
    BY <1>5, <2>1, <2>3, <2>5, WhoConnects
  <2> QED BY <2>6, <2>7, PastForGood
<1> QED BY <1>4, <1>5

(* A step keeps what is said of the read loops.                            *)
LEMMA LoopShapeStep == IInv /\ [Next]_vars => LoopShape'
<1> SUFFICES ASSUME IInv, [Next]_vars, NEW s \in Sessions
             PROVE  /\ s > made' => loop'[s] = "none" /\ ~connected'[s] /\ ~job'[s] /\ ~announced'[s]
                    /\ loop'[s] = "got" => buffer'[s] < MaxBytes
                    /\ s <= made' /\ (~job'[s] \/ ~connected'[s]) =>
                           loop'[s] \in {"close", "notify", "over"}
  BY DEF LoopShape
<1> QED BY FreshStep, RoomStep, PastStep DEF Past

-----------------------------------------------------------------------------
(* What one coroutine does leaves the others where they are.               *)
LEMMA OthersStay ==
    ASSUME TypeOK, NEW p \in Processes, NEW l, NEW s, Goto(p, l) \/ GotoWith(p, l, s),
           NEW c \in Processes, c # p
    PROVE  pc'[c] = pc[c] /\ at'[c] = at[c]
  BY DEF Goto, GotoWith, TypeOK

(* Who closes does not wait for bytes, and is not woken.                   *)
LEMMA NotWoken ==
    ASSUME TypeOK, CallerShape, NEW s, NEW c \in Closers
    PROVE  NotifyAll(s)[c] = pc[c]
  BY DEF NotifyAll, CallerShape, Processes

Stays(c) == pc'[c] = pc[c] /\ at'[c] = at[c]

Steps(c) ==
    \/ c \in Apps /\ (OpenPort(c) \/ Opening(c) \/ ClosePort(c))
    \/ Closing(c)
    \/ c = Receiver /\ Detached
    \/ c = Engine /\ DetachFromEngine
    \/ c \in InScope /\ Cancelling(c)

Answered(c) == pc[c] = "asking" /\ pc'[c] \in {"open", "idle"} /\ at'[c] = at[c]

(* Who closes moves by a step of its own, or is answered by the user.      *)
LEMMA WhoMoves ==
    ASSUME IInv, [Next]_vars, NEW c \in Closers
    PROVE  Stays(c) \/ Steps(c) \/ Answered(c)
<1> DEFINE Moves == Stays(c) \/ Steps(c) \/ Answered(c)
<1>0. TypeOK /\ CallerShape /\ c \in Processes /\ c \notin Readers /\ c \notin Users
  BY ProcessesAssumption DEF IInv, Processes
<1>1. ASSUME NEW a \in Apps, OpenPort(a) PROVE Moves
  BY <1>0, <1>1, OthersStay DEF OpenPort, Steps, Stays, Processes, Closers
<1>2. ASSUME NEW a \in Apps, Resolve(a) PROVE Moves
  BY <1>0, <1>2, OthersStay DEF Resolve, Done, Opening, Steps, Stays, Processes, Closers
<1>3. ASSUME NEW a \in Apps, SessionOpenFails(a) PROVE Moves
  BY <1>0, <1>3, OthersStay DEF SessionOpenFails, Done, Opening, Steps, Stays, Processes, Closers
<1>4. ASSUME NEW a \in Apps, SessionOpen(a) PROVE Moves
  BY <1>0, <1>4, OthersStay DEF SessionOpen, Done, Opening, Steps, Stays, Processes, Closers
<1>5. ASSUME NEW a \in Apps, Insert(a) PROVE Moves
  BY <1>0, <1>5, OthersStay DEF Insert, Done, Opening, Steps, Stays, Processes, Closers
<1>6. ASSUME NEW a \in Apps, ClosePort(a) PROVE Moves
  BY <1>0, <1>6, OthersStay DEF ClosePort, Steps, Stays, Processes, Closers
<1>7. ASSUME NEW p \in Closers, Drop(p) PROVE Moves
  BY <1>0, <1>7, OthersStay DEF Drop, CancelLoop, Closing, Steps, Stays, Processes, Closers
<1>8. ASSUME NEW p \in Closers, CloseBegins(p) PROVE Moves
  BY <1>0, <1>8, OthersStay DEF CloseBegins, CancelLoop, Closing, Steps, Stays, Processes, Closers
<1>9. ASSUME NEW p \in Closers, CloseJoins(p) PROVE Moves
  BY <1>0, <1>9, OthersStay DEF CloseJoins, CancelLoop, Closing, Steps, Stays, Processes, Closers
<1>10. ASSUME NEW p \in Closers \cup Users, Lock(p) PROVE Moves
  BY <1>0, <1>10, OthersStay DEF Lock, CancelLoop, Closing, Steps, Stays, Processes, Closers
<1>11. ASSUME NEW p \in Closers, CloseDriver(p) PROVE Moves
  BY <1>0, <1>11, OthersStay DEF CloseDriver, CancelLoop, Closing, Steps, Stays, Processes, Closers
<1>12. ASSUME NEW p \in Closers, CloseNotifies(p) PROVE Moves
  <2>1. CASE p = c
    BY <1>12, <2>1 DEF Closing, Steps
  <2>2. CASE p # c
    <3>1. pc'[c] = NotifyAll(at[p])[c] /\ at'[c] = at[c]
      BY <1>0, <1>12, <2>2 DEF CloseNotifies, NotifyAll, TypeOK
    <3> QED BY <1>0, <3>1, NotWoken DEF Stays
  <2> QED BY <2>1, <2>2
<1>13. CASE Detached
  BY <1>0, <1>13, OthersStay DEF Detached, Done, Steps, Stays, Processes, Closers
<1>14. CASE DetachFromEngine
  BY <1>0, <1>14, OthersStay DEF DetachFromEngine, Done, Steps, Stays, Processes, Closers
<1>15. ASSUME NEW granted \in BOOLEAN, PermissionResult(granted) PROVE Moves
  BY <1>0, <1>15 DEF PermissionResult, Stays, Answered
<1>16. ASSUME NEW r \in Readers, Read(r) PROVE Moves
  BY <1>0, <1>16, OthersStay DEF Read, Done, Stays, Processes
<1>17. ASSUME NEW r \in Readers, ReadTakes(r) PROVE Moves
  BY <1>0, <1>17, OthersStay DEF ReadTakes, Done, Stays, Processes
<1>18. ASSUME NEW r \in Readers, ReadFails(r) \/ ReadWaits(r) \/ ReadTimesOut(r) PROVE Moves
  <2>1. r \in Processes /\ r # c
    BY <1>0 DEF Processes
  <2> QED BY <1>0, <1>18, <2>1, OthersStay DEF ReadFails, ReadWaits, ReadTimesOut, Done, Stays
<1>19. ASSUME NEW u \in Users, Use(u) PROVE Moves
  BY <1>0, <1>19, OthersStay DEF Use, Done, Stays, Processes
<1>20. ASSUME NEW u \in Users, ResetBuffers(u) PROVE Moves
  BY <1>0, <1>20, NotWoken DEF ResetBuffers, Stays, NotifyAll, TypeOK
<1>21. ASSUME NEW u \in Users, UseDriver(u) PROVE Moves
  BY <1>0, <1>21, OthersStay DEF UseDriver, Done, Stays, Processes
<1>22. ASSUME NEW s \in Sessions, LoopChecks(s) PROVE Moves
  BY <1>22 DEF LoopChecks, Stays
<1>23. ASSUME NEW s \in Sessions, LoopIsCancelled(s) PROVE Moves
  BY <1>23 DEF LoopIsCancelled, Stays
<1>24. ASSUME NEW s \in Sessions, LoopReads(s) PROVE Moves
  BY <1>24 DEF LoopReads, Stays
<1>25. ASSUME NEW s \in Sessions, LoopDelivers(s) PROVE Moves
  BY <1>25, <1>0, NotWoken DEF LoopDelivers, Stays
<1>26. ASSUME NEW s \in Sessions, LoopThrew(s) PROVE Moves
  BY <1>26 DEF LoopThrew, Stays
<1>27. ASSUME NEW s \in Sessions, LoopCloseBegins(s) PROVE Moves
  BY <1>27 DEF LoopCloseBegins, Stays
<1>28. ASSUME NEW s \in Sessions, LoopCancelsItself(s) PROVE Moves
  BY <1>28 DEF LoopCancelsItself, Stays
<1>29. ASSUME NEW s \in Sessions, LoopCloses(s) PROVE Moves
  BY <1>29 DEF LoopCloses, Stays
<1>30. ASSUME NEW s \in Sessions, LoopNotifies(s) PROVE Moves
  BY <1>30, <1>0, NotWoken DEF LoopNotifies, Stays
<1>31. CASE Detach
  BY <1>31 DEF Detach, Stays
<1>32. CASE UNCHANGED vars
  BY <1>32 DEF vars, Stays
<1>33. ASSUME NEW p \in InScope, CallIsCancelled(p) PROVE Moves
  <2>1. p \in Processes /\ GotoWith(p, "idle", None)
    BY <1>33 DEF CallIsCancelled, Done, InScope, Processes, Closers
  <2> QED BY <1>0, <1>33, <2>1, OthersStay DEF Cancelling, Steps, Stays
<1>34. ASSUME NEW p \in InScope, WaitIsCancelled(p) PROVE Moves
  <2>1. p \in Processes /\ GotoWith(p, "idle", None)
    BY <1>34 DEF WaitIsCancelled, Done, InScope, Processes, Closers
  <2> QED BY <1>0, <1>34, <2>1, OthersStay DEF Cancelling, Steps, Stays
<1>35. CASE ScopeCancelled
  BY <1>35 DEF ScopeCancelled, Stays
<1> QED
  BY <1>1, <1>2, <1>3, <1>4, <1>5, <1>6, <1>7, <1>8, <1>9, <1>10, <1>11, <1>12, <1>13, <1>14, <1>15, <1>16,
     <1>17, <1>18, <1>19, <1>20, <1>21, <1>22, <1>23, <1>24, <1>25, <1>26, <1>27, <1>28, <1>29, <1>30, <1>31, <1>32,
     <1>33, <1>34, <1>35
  DEF Next, Opening, Closing, Cancelling, Looping, Reading, Using

(* What a cancelled call leaves behind.                                    *)
LEMMA CancelledEnds ==
    ASSUME TypeOK, NEW c \in InScope, Cancelling(c)
    PROVE  /\ pc'[c] = "idle"
           /\ stopped /\ stopped'
           /\ c \in Closers /\ at[c] # None => stranded' = [stranded EXCEPT ![at[c]] = TRUE]
<1>1. c \in Processes
  BY DEF InScope, Processes, Closers
<1>2. CASE CallIsCancelled(c)
  BY <1>1, <1>2 DEF CallIsCancelled, Strands, Done, GotoWith, TypeOK, managerVars
<1>3. CASE WaitIsCancelled(c)
  BY <1>1, <1>3 DEF WaitIsCancelled, Strands, Done, GotoWith, TypeOK, managerVars
<1> QED BY <1>2, <1>3 DEF Cancelling

(* How one who closes a port comes to the driver, and from there to the    *)
(* event.                                                                  *)
LEMMA CloserMoves ==
    ASSUME IInv, [Next]_vars, NEW c \in Closers, pc'[c] \in {"lock", "queued", "io", "notify"}
    PROVE  /\ at'[c] = at[c] /\ at[c] \in Sessions
           /\ \/ pc'[c] = pc[c]
              \/ pc[c] = "lock" /\ pc'[c] \in {"queued", "io"}
              \/ CloseBegins(c) \/ CloseJoins(c) \/ CloseDriver(c)
<1>1. TypeOK /\ CallerShape /\ c \in Processes
  BY DEF IInv, Processes
<1>2. CASE Stays(c)
  BY <1>1, <1>2, HasSession DEF Stays
<1>3. ~Answered(c)
  BY DEF Answered
<1>4. ASSUME OpenPort(c) \/ Opening(c) \/ ClosePort(c) PROVE FALSE
  BY <1>1, <1>4 DEF OpenPort, Opening, Resolve, SessionOpenFails, SessionOpen, Insert, ClosePort, Done,
     Goto, GotoWith, TypeOK
<1>5. ASSUME Drop(c) \/ CloseNotifies(c) PROVE FALSE
  BY <1>1, <1>5 DEF Drop, CloseNotifies, Goto, NotifyAll, TypeOK
<1>6. ASSUME (c = Receiver /\ Detached) \/ (c = Engine /\ DetachFromEngine) PROVE FALSE
  BY <1>1, <1>6 DEF Detached, DetachFromEngine, Done, GotoWith, TypeOK
<1>7. CASE Lock(c)
  BY <1>1, <1>7, HasSession DEF Lock, Goto, TypeOK
<1>8. CASE CloseBegins(c) \/ CloseJoins(c) \/ CloseDriver(c)
  <2>1. at'[c] = at[c]
    BY <1>8 DEF CloseBegins, CloseJoins, CloseDriver, CancelLoop, Goto
  <2>2. pc[c] \in {"begin", "join", "io", "queued"}
    BY <1>8 DEF CloseBegins, CloseJoins, CloseDriver
  <2> QED BY <1>1, <1>8, <2>1, <2>2, HasSession
<1>9. Steps(c) => Lock(c) \/ CloseBegins(c) \/ CloseJoins(c) \/ CloseDriver(c)
  <2> SUFFICES ASSUME Steps(c) PROVE Lock(c) \/ CloseBegins(c) \/ CloseJoins(c) \/ CloseDriver(c)
    OBVIOUS
  <2>1. CASE c \in Apps /\ (OpenPort(c) \/ Opening(c) \/ ClosePort(c))
    BY <1>4, <2>1
  <2>2. CASE Closing(c)
    BY <1>5, <2>2 DEF Closing
  <2>3. CASE (c = Receiver /\ Detached) \/ (c = Engine /\ DetachFromEngine)
    BY <1>6, <2>3
  <2>4. CASE c \in InScope /\ Cancelling(c)
    BY <1>1, <2>4, CancelledEnds
  <2> QED BY <2>1, <2>2, <2>3, <2>4 DEF Steps
<1> QED BY <1>2, <1>3, <1>7, <1>8, <1>9, WhoMoves

(* Who has announced that a port is closed has given the device back.      *)
LEMMA AnnouncedStep ==
    ASSUME IInv, [Next]_vars, NEW s \in Sessions, announced'[s]
    PROVE  ~connected'[s]
<1>1. TypeOK /\ CallerShape /\ LoopShape /\ CloseShape /\ made \in Nat /\ s \in Nat
  BY MadeGrows DEF IInv, Sessions
<1>2. CASE announced[s]
  <2>1. ~connected[s] /\ s <= made
    BY <1>1, <1>2 DEF CloseShape, LoopShape
  <2> QED BY <1>1, <2>1, GivenBackForGood
<1>3. CASE ~announced[s]
  <2>1. PICK p \in Closers : CloseNotifies(p)
    BY <1>3, WhoAnnounces
  <2>2. at[p] = s /\ pc[p] = "notify"
    BY <1>1, <1>3, <2>1 DEF CloseNotifies, TypeOK
  <2>3. ~connected[s] /\ s <= made
    BY <1>1, <2>2, ProcessesAssumption DEF CloseShape, CallerShape, Processes
  <2> QED BY <1>1, <2>3, GivenBackForGood
<1> QED BY <1>2, <1>3

(* A step keeps the order of closing.                                      *)
LEMMA CloseShapeStep == IInv /\ [Next]_vars => CloseShape'
<1> SUFFICES ASSUME IInv, [Next]_vars PROVE CloseShape'
  OBVIOUS
<1>1. TypeOK /\ CallerShape /\ LoopShape /\ CloseShape
  BY DEF IInv
<1>2. ASSUME NEW c \in Closers, pc'[c] \in {"lock", "queued", "io"} PROVE loop'[at'[c]] \in Past
  <2>1. at'[c] = at[c] /\ at[c] \in Sessions /\ at[c] <= made
    BY <1>1, <1>2, CloserMoves, ProcessesAssumption DEF CallerShape, Processes
  <2>2. CASE pc[c] \in {"lock", "queued", "io"}
    BY <1>1, <2>1, <2>2, PastForGood DEF CloseShape, Past
  <2>3. CASE CloseBegins(c) \/ CloseJoins(c)
    <3>1. ~job[at[c]] \/ loop[at[c]] \in Past
      BY <1>1, <1>2, <2>3 DEF CloseBegins, CloseJoins, CancelLoop, Goto, TypeOK, Past, Processes
    <3>2. loop[at[c]] \in Past
      BY <1>1, <2>1, <3>1 DEF LoopShape, Past
    <3> QED BY <2>1, <3>2, PastForGood
  <2>4. CASE CloseDriver(c)
    BY <1>1, <2>1, <2>4, PastForGood DEF CloseDriver, CloseShape, Past
  <2> QED BY <1>2, <2>2, <2>3, <2>4, CloserMoves
<1>3. ASSUME NEW c \in Closers, pc'[c] = "notify" PROVE ~connected'[at'[c]]
  <2>1. at'[c] = at[c] /\ at[c] \in Sessions /\ at[c] <= made /\ made \in Nat
    BY <1>1, <1>3, CloserMoves, MadeGrows, ProcessesAssumption DEF CallerShape, Processes
  <2>2. CASE ~connected[at[c]]
    BY <2>1, <2>2, GivenBackForGood DEF Sessions
  <2>3. CASE CloseDriver(c)
    BY <1>1, <2>1, <2>3 DEF CloseDriver, TypeOK
  <2>4. CASE CloseBegins(c)
    <3>1. ~connected[at[c]]
      BY <1>1, <1>3, <2>4 DEF CloseBegins, CancelLoop, Goto, IsClosed, TypeOK, Processes
    <3> QED BY <2>2, <3>1
  <2>5. CASE CloseJoins(c)
    BY <1>1, <1>3, <2>5 DEF CloseJoins, Goto, TypeOK, Processes
  <2>6. CASE pc[c] = "notify"
    BY <1>1, <2>2, <2>6 DEF CloseShape
  <2> QED BY <1>3, <2>3, <2>4, <2>5, <2>6, CloserMoves
<1> QED BY <1>2, <1>3, AnnouncedStep DEF CloseShape, Past

(* The inductive invariant.                                                *)
THEOREM Invariance == Spec => []IInv
<1>1. Init => IInv
  <2> SUFFICES ASSUME Init PROVE IInv
    OBVIOUS
  <2>1. ManagerTypes
    <3>1. {attached, permission, requested, ended, stopped} \subseteq BOOLEAN
      BY DEF Init
    <3>2. made \in 0 .. MaxOpens
      BY BoundsAssumption DEF Init
    <3>3. table = None /\ loop \in [Sessions -> LoopPCs]
      BY DEF Init, LoopPCs
    <3> QED BY <3>1, <3>2, <3>3 DEF ManagerTypes
  <2>2. CallTypes /\ FlagTypes
    BY DEF Init, CallTypes, FlagTypes, Flags, PCs
  <2>3. BufferType /\ QueueType
    BY BoundsAssumption DEF Init, BufferType, QueueType
  <2>4. CallerShape /\ CloseShape
    BY DEF Init, CallerShape, CloseShape, Closers, Processes
  <2>5. LoopShape
    BY DEF Init, LoopShape, Sessions
  <2> QED BY <2>1, <2>2, <2>3, <2>4, <2>5, TypeParts DEF IInv
<1>2. IInv /\ [Next]_vars => IInv'
  BY TypeOKStep, CallerShapeStep, LoopShapeStep, CloseShapeStep DEF IInv
<1> QED BY <1>1, <1>2, PTL DEF Spec

(* The types of every variable.                                            *)
THEOREM TypeCorrect == Spec => []TypeOK
<1>1. IInv => TypeOK
  BY DEF IInv
<1> QED BY <1>1, Invariance, PTL

(* No data follows the event that says the port is closed.                 *)
THEOREM NothingFollowsTheEnd == Spec => []NothingAfterClosed
<1>1. IInv => NothingAfterClosed
  <2> SUFFICES ASSUME IInv, NEW s \in Sessions, announced[s] PROVE loop[s] \notin {"lock", "got"}
    BY DEF NothingAfterClosed
  <2>1. made \in Nat /\ s \in Nat
    BY BoundsAssumption DEF IInv, TypeOK, Sessions
  <2>2. ~connected[s] /\ s <= made
    BY <2>1 DEF IInv, CloseShape, LoopShape
  <2> QED BY <2>2 DEF IInv, LoopShape
<1> QED BY <1>1, Invariance, PTL

-----------------------------------------------------------------------------
(* With the calls of the app one after the other, the table holds nothing  *)
(* while a port is opened.                                                 *)
LEMMA OpeningMoves ==
    ASSUME IInv, [Next]_vars, NEW a \in Apps, pc'[a] \in OpeningPCs
    PROVE  \/ pc[a] \in OpeningPCs /\ ~Insert(a)
           \/ OpenPort(a)
<1>1. TypeOK /\ a \in Closers /\ a \in Processes /\ a # Receiver /\ a # Engine
  BY ProcessesAssumption DEF IInv, Processes, Closers
<1>2. ASSUME Insert(a) \/ ClosePort(a) PROVE FALSE
  BY <1>1, <1>2 DEF Insert, ClosePort, Done, GotoWith, TypeOK, OpeningPCs
<1>3. ASSUME Closing(a) PROVE FALSE
  BY <1>1, <1>3 DEF Closing, Drop, CloseBegins, CloseJoins, Lock, CloseDriver, CloseNotifies, CancelLoop,
     NotifyAll, Goto, TypeOK, OpeningPCs
<1>4. CASE Stays(a) \/ Answered(a)
  BY <1>2, <1>4 DEF Stays, Answered, OpeningPCs
<1>5. CASE Opening(a)
  BY <1>2, <1>5 DEF Opening, Resolve, SessionOpenFails, SessionOpen, OpeningPCs
<1>6. ASSUME a \in InScope, Cancelling(a) PROVE FALSE
  BY <1>1, <1>6, CancelledEnds DEF OpeningPCs
<1> QED BY <1>1, <1>2, <1>3, <1>4, <1>5, <1>6, WhoMoves DEF Steps

(* So the table stays empty until the port is put there.                   *)
LEMMA NothingWhileOpening ==
    ASSUME OneAtATime, ReachInv, [Next]_vars, NEW a \in Apps, pc'[a] \in OpeningPCs
    PROVE  table' = None
<1>1. IInv /\ TableShape
  BY DEF ReachInv
<1>2. table = None /\ ~Insert(a)
  BY <1>1, OpeningMoves DEF TableShape, OpenPort, Insert
<1>3. ASSUME NEW b \in Apps, Insert(b) \/ ClosePort(b) PROVE table' = None
  BY <1>2, <1>3 DEF OneAtATime, ClosePort
<1> QED BY <1>2, <1>3, WhoChangesTheTable DEF Drop, DetachFromEngine

(* The receiver takes out what it has seen, or nothing: a device that is   *)
(* gone is not opened again.                                               *)
LEMMA DropStep ==
    ASSUME ReachInv, [Next]_vars, NEW p \in Closers, pc'[p] = "drop"
    PROVE  /\ p = Receiver
           /\ ~attached'
           /\ table' \in {None, at'[p]}
           /\ \A a \in Apps : pc'[a] # "insert"
<1>1. IInv /\ TypeOK /\ TableShape /\ p \in Processes
  BY DEF ReachInv, IInv, Processes
<1>2. ~attached => ~attached'
  BY DEF Next, Opening, Closing, Cancelling, Looping, Reading, Using, vars, managerVars,
         CallIsCancelled, WaitIsCancelled, ScopeCancelled,
         OpenPort, Resolve, SessionOpenFails, SessionOpen, Insert, ClosePort, Drop,
         CloseBegins, CloseJoins, Lock, CloseDriver, CloseNotifies, Detached,
         DetachFromEngine, PermissionResult, Read, ReadTakes, ReadFails, ReadWaits,
         ReadTimesOut, Use, ResetBuffers, UseDriver, LoopChecks, LoopIsCancelled,
         LoopReads, LoopDelivers, LoopThrew, LoopCloseBegins, LoopCancelsItself,
         LoopCloses, LoopNotifies, Detach
<1>3. CASE Detached
  <2>1. p = Receiver /\ table # None /\ ~attached /\ table' = table /\ at'[p] = table
    <3>1. p = Receiver
      BY <1>1, <1>3 DEF Detached, GotoWith, TypeOK, TableShape
    <3> QED BY <1>1, <1>3, <3>1 DEF Detached, GotoWith, TypeOK, managerVars
  <2>2. \A a \in Apps : pc'[a] = pc[a]
    BY <1>1, <1>3, ProcessesAssumption DEF Detached, GotoWith, TypeOK, Processes
  <2>3. \A a \in Apps : pc[a] # "insert"
    BY <1>1, <2>1 DEF TableShape, OpeningPCs
  <2> QED BY <1>2, <2>1, <2>2, <2>3
<1>4. CASE ~Detached
  <2>1. pc[p] = "drop" /\ at'[p] = at[p]
    <3>1. ASSUME OpenPort(p) \/ Opening(p) \/ ClosePort(p) PROVE FALSE
      BY <1>1, <3>1 DEF OpenPort, Opening, Resolve, SessionOpenFails, SessionOpen, Insert, ClosePort, Done,
         Goto, GotoWith, TypeOK
    <3>2. ASSUME Closing(p) PROVE FALSE
      BY <1>1, <3>2 DEF Closing, Drop, CloseBegins, CloseJoins, Lock, CloseDriver, CloseNotifies, CancelLoop,
         NotifyAll, Goto, TypeOK
    <3>3. ASSUME DetachFromEngine, p = Engine PROVE FALSE
      BY <1>1, <3>3 DEF DetachFromEngine, Done, GotoWith, TypeOK
    <3>4. ASSUME p \in InScope, Cancelling(p) PROVE FALSE
      BY <1>1, <3>4, CancelledEnds
    <3> QED BY <1>1, <1>4, <3>1, <3>2, <3>3, <3>4, WhoMoves DEF Steps, Stays, Answered
  <2>2. p = Receiver /\ ~attached /\ table \in {None, at[p]} /\ \A a \in Apps : pc[a] # "insert"
    BY <1>1, <2>1 DEF TableShape
  <2>3. ASSUME NEW a \in Apps, pc'[a] = "insert" PROVE FALSE
    <3>1. pc[a] # "insert" /\ pc[a] \in OpeningPCs /\ a \in Closers /\ a \in Processes
      BY <1>1, <2>2, <2>3, OpeningMoves DEF OpenPort, Goto, TypeOK, OpeningPCs, Processes, Closers
    <3>2. ~SessionOpen(a)
      BY <2>2 DEF SessionOpen
    <3>3. ASSUME Resolve(a) \/ SessionOpenFails(a) \/ Insert(a) \/ OpenPort(a) \/ ClosePort(a) PROVE FALSE
      BY <1>1, <2>3, <3>1, <3>3 DEF Resolve, SessionOpenFails, Insert, OpenPort, ClosePort, Done, Goto,
         GotoWith, TypeOK
    <3>4. ASSUME Closing(a) PROVE FALSE
      BY <3>1, <3>4 DEF Closing, Drop, CloseBegins, CloseJoins, Lock, CloseDriver, CloseNotifies, OpeningPCs
    <3>5. ASSUME a \in InScope, Cancelling(a) PROVE FALSE
      BY <1>1, <2>3, <3>5, CancelledEnds
    <3> QED BY <1>1, <2>3, <3>1, <3>2, <3>3, <3>4, <3>5, WhoMoves, ProcessesAssumption
            DEF Steps, Stays, Answered, Opening
  <2>4. table' \in {None, table}
    BY <2>2, WhoChangesTheTable DEF Insert, ClosePort, Drop, DetachFromEngine
  <2> QED BY <1>2, <2>1, <2>2, <2>3, <2>4
<1> QED BY <1>3, <1>4

(* The main thread closes all ports once, at the end.                      *)
LEMMA EngineStep ==
    ASSUME ReachInv, [Next]_vars, ~ended'
    PROVE  pc'[Engine] = "idle" /\ ~stopped'
<1>1. IInv /\ TypeOK /\ TableShape /\ Engine \in Closers /\ Engine \notin Apps /\ Engine # Receiver
     /\ Engine \notin InScope
  BY ProcessesAssumption DEF ReachInv, IInv, Closers, InScope
<1>2. ~ended /\ ~DetachFromEngine
  <2>1. ended => ended'
    BY DEF Next, Opening, Closing, Cancelling, Looping, Reading, Using, vars, managerVars,
         CallIsCancelled, WaitIsCancelled, ScopeCancelled,
           OpenPort, Resolve, SessionOpenFails, SessionOpen, Insert, ClosePort, Drop,
           CloseBegins, CloseJoins, Lock, CloseDriver, CloseNotifies, Detached,
           DetachFromEngine, PermissionResult, Read, ReadTakes, ReadFails, ReadWaits,
           ReadTimesOut, Use, ResetBuffers, UseDriver, LoopChecks, LoopIsCancelled,
           LoopReads, LoopDelivers, LoopThrew, LoopCloseBegins, LoopCancelsItself,
           LoopCloses, LoopNotifies, Detach
  <2> QED BY <2>1 DEF DetachFromEngine
<1>3. pc[Engine] = "idle"
  BY <1>1, <1>2 DEF TableShape
<1>4. ~Closing(Engine) /\ ~Answered(Engine)
  BY <1>3 DEF Closing, Drop, CloseBegins, CloseJoins, Lock, CloseDriver, CloseNotifies, Answered
<1>5. stopped' = stopped
  BY <1>2, WhoStops
<1> QED BY <1>1, <1>2, <1>3, <1>4, <1>5, WhoMoves DEF Steps, Stays, TableShape

(* A step keeps what is said of the table.                                 *)
LEMMA TableShapeStep == OneAtATime /\ ReachInv /\ [Next]_vars => TableShape'
  BY NothingWhileOpening, DropStep, EngineStep DEF TableShape

(* What a cancelled call has given up stays given up.                      *)
LEMMA StrandedForGood ==
    ASSUME TypeOK, [Next]_vars, NEW s \in Sessions, stranded[s], stopped
    PROVE  stranded'[s] /\ stopped'
<1>1. stopped'
  BY WhoStops
<1>2. ASSUME NEW p \in InScope, Strands(p) PROVE stranded'[s]
  BY <1>2 DEF Strands, TypeOK
<1> QED BY <1>1, <1>2, WhoStrands

(* What leaves the table is being closed; what is closed is given back.    *)
LEMMA WithinReach ==
    ASSUME OneAtATime, ReachInv, [Next]_vars
    PROVE  NoLostConnection'
<1> SUFFICES ASSUME NEW s \in Sessions, connected'[s]
             PROVE  \/ table' = s \/ \E p \in Closers : at'[p] = s
                    \/ stranded'[s] /\ stopped'
  BY DEF NoLostConnection
<1>1. IInv /\ TypeOK /\ CallerShape /\ CloseShape /\ TableShape /\ NoLostConnection /\ s # None
  BY ProcessesAssumption DEF ReachInv, IInv
<1>2. CASE ~connected[s]
  <2>1. PICK a \in Apps : SessionOpen(a) /\ s = made + 1
    BY <1>1, <1>2, GivenBackForGood
  <2> QED BY <1>1, <2>1 DEF SessionOpen, GotoWith, TypeOK, Processes, Closers
<1>3. CASE connected[s] /\ \E p \in Closers : at[p] = s
  <2>1. PICK p \in Closers : at[p] = s
    BY <1>3
  <2>2. pc[p] \notin {"idle", "resolve", "asking", "open"} /\ p \in Processes
    BY <1>1, <2>1 DEF CallerShape, Processes
  <2>3. pc[p] # "notify"
    BY <1>1, <1>3, <2>1 DEF CloseShape
  <2>4. CASE at'[p] = s
    BY <2>4
  <2>5. CASE Insert(p)
    BY <2>1, <2>5 DEF Insert
  <2>6. ~OpenPort(p) /\ ~ClosePort(p) /\ ~Resolve(p) /\ ~SessionOpen(p) /\ ~SessionOpenFails(p)
    BY <2>2 DEF OpenPort, ClosePort, Resolve, SessionOpen, SessionOpenFails
  <2>7. ASSUME Closing(p) PROVE at'[p] = s
    BY <2>1, <2>3, <2>7 DEF Closing, Drop, CloseBegins, CloseJoins, Lock, CloseDriver, CloseNotifies,
       CancelLoop, Goto
  <2>8. ~(p = Receiver /\ Detached) /\ ~(p = Engine /\ DetachFromEngine)
    BY <1>1, <2>2 DEF Detached, DetachFromEngine, TableShape
  <2>9. (Stays(p) \/ Answered(p)) => at'[p] = s
    BY <2>1 DEF Stays, Answered
  <2>10. ASSUME p \in InScope, Cancelling(p) PROVE stranded'[s] /\ stopped'
    <3>1. stopped' /\ stranded' = [stranded EXCEPT ![s] = TRUE]
      BY <1>1, <2>1, <2>10, CancelledEnds
    <3> QED BY <1>1, <3>1 DEF TypeOK
  <2> QED BY <1>1, <2>4, <2>5, <2>6, <2>7, <2>8, <2>9, <2>10, WhoMoves DEF Steps, Opening
<1>4. CASE connected[s] /\ table = s
  <2>1. ASSUME NEW a \in Apps, Insert(a) PROVE FALSE
    BY <1>1, <1>4, <2>1 DEF Insert, TableShape, OpeningPCs
  <2>2. ASSUME NEW a \in Apps, ClosePort(a) PROVE at'[a] = s /\ a \in Closers
    BY <1>1, <1>4, <2>2 DEF ClosePort, GotoWith, TypeOK, Processes, Closers
  <2>3. ASSUME NEW p \in Closers, Drop(p) PROVE at'[p] = s
    BY <1>1, <1>4, <2>3 DEF Drop, Goto, TableShape
  <2>4. ASSUME DetachFromEngine PROVE at'[Engine] = s /\ Engine \in Closers
    BY <1>1, <1>4, <2>4 DEF DetachFromEngine, GotoWith, TypeOK, Processes, Closers
  <2> QED BY <1>4, <2>1, <2>2, <2>3, <2>4, WhoChangesTheTable
<1>5. CASE stranded[s] /\ stopped
  BY <1>1, <1>5, StrandedForGood
<1> QED BY <1>1, <1>2, <1>3, <1>4, <1>5 DEF NoLostConnection

(* A session that holds the device is in the table, about to be put there, *)
(* or being closed, when the app awaits openPort and closePort; only the   *)
(* end of the plugin can lose it, by cancelling the call that has it.      *)
THEOREM ConnectionsStayWithinReach == OneAtATime /\ Spec => []NoLostConnection
<1> SUFFICES ASSUME OneAtATime PROVE Spec => []NoLostConnection
  OBVIOUS
<1>1. Init => TableShape /\ NoLostConnection
  BY DEF Init, TableShape, NoLostConnection, OpeningPCs, Closers, Processes
<1>2. IInv /\ IInv' /\ TableShape /\ NoLostConnection /\ [Next]_vars => TableShape' /\ NoLostConnection'
  BY TableShapeStep, WithinReach DEF ReachInv
<1> QED BY <1>1, <1>2, Invariance, PTL DEF Spec

=============================================================================
