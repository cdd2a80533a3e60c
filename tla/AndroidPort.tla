----------------------------- MODULE AndroidPort -----------------------------
(***************************************************************************)
(* android/.../SerialPortManager.kt and SerialPort.kt: the life of the     *)
(* port of one USB device.                                                 *)
(*                                                                         *)
(* Every method call is a coroutine on the I/O threads; so is the read     *)
(* loop of an open port, and so is what the receiver starts when the       *)
(* device is detached.  openPortsMutex protects the table and is held for  *)
(* single look-ups only.  ioMutex of a port is held while the driver       *)
(* works; it is fair, so it is a queue whose head holds it.  bufferLock is *)
(* the monitor of pendingBytes, on which reads wait.                       *)
(*                                                                         *)
(* When the plugin leaves the engine it closes the ports of the table and  *)
(* then cancels the scope of the calls: one in progress ends with an       *)
(* exception where it is suspended, and what it had still to do is not     *)
(* done.                                                                   *)
(*                                                                         *)
(* A device that is attached again gets a new identifier, so the one       *)
(* modelled comes back at most under another name.                         *)
(***************************************************************************)
EXTENDS Integers, Sequences, SequencesExt

CONSTANTS
    Apps,       \* coroutines of openPort and closePort; one when the app awaits them
    Readers,    \* coroutines of readData
    Users,      \* coroutines of writeData, flush and resetBuffers
    Receiver,   \* the coroutine of closePortsForDevice
    Engine,     \* the main thread in closeAllBlocking
    Loop,       \* the read loop of a port, as a user of its ioMutex
    None,
    MaxOpens,   \* bounds: the SerialPort objects made,
    MaxBytes    \* and the chunks of bytes that wait to be read

Closers == Apps \cup {Receiver, Engine}
Processes == Closers \cup Readers \cup Users
Sessions == 1 .. MaxOpens

ASSUME ProcessesAssumption ==
    /\ Loop \notin Processes
    /\ None \notin Processes \cup {Loop} \cup Sessions
    /\ Closers \cap (Readers \cup Users) = {}
    /\ Receiver # Engine /\ {Receiver, Engine} \cap Apps = {}
ASSUME BoundsAssumption == MaxOpens \in Nat /\ MaxBytes \in Nat

VARIABLES
    attached,   \* the device is there
    permission, \* hasPermission
    requested,  \* permissionRequests has an entry for the device
    ended,      \* the plugin left the engine: no more calls
    stopped,    \* pluginScope is cancelled
    made,       \* SerialPort objects made so far
    table,      \* openPorts: the session under the name, or None
    opened,     \* opened[s]
    connected,  \* connected[s]: connection is not null; the device is claimed
    buffer,     \* buffer[s]: the chunks in pendingBytes
    io,         \* io[s]: ioMutex, its holder first
    job,        \* job[s]: readLoopJob is not null
    cancelled,  \* cancelled[s]: the job of the read loop was cancelled
    loop,       \* loop[s]: where the read loop is
    cut,        \* cut[s]: the read loop could not finish closing the port (history)
    stranded,   \* stranded[s]: a cancelled call could not finish with it (history)
    announced,  \* announced[s]: portClosed or deviceDetached was emitted (history)
    pc,         \* pc[p]: where a process is
    at          \* at[p]: the session it works on

managerVars == <<attached, permission, requested, ended, stopped, made, table>>
portVars    == <<opened, connected, job>>
loopVars    == <<cancelled, loop, cut>>
vars == <<managerVars, portVars, loopVars, stranded, buffer, io, announced, pc, at>>

LoopPCs == {"none", "check", "lock", "got", "threw", "begin", "cancel", "close",
            "notify", "over"}

PCs == {"idle", "resolve", "asking", "open", "insert", "drop", "begin", "join",
        "lock", "queued", "io", "notify", "test", "wait", "late"}

Init ==
    /\ attached = TRUE
    /\ permission = FALSE
    /\ requested = FALSE
    /\ ended = FALSE
    /\ stopped = FALSE
    /\ made = 0
    /\ table = None
    /\ opened = [s \in Sessions |-> FALSE]
    /\ connected = [s \in Sessions |-> FALSE]
    /\ buffer = [s \in Sessions |-> 0]
    /\ io = [s \in Sessions |-> <<>>]
    /\ job = [s \in Sessions |-> FALSE]
    /\ cancelled = [s \in Sessions |-> FALSE]
    /\ loop = [s \in Sessions |-> "none"]
    /\ cut = [s \in Sessions |-> FALSE]
    /\ stranded = [s \in Sessions |-> FALSE]
    /\ announced = [s \in Sessions |-> FALSE]
    /\ pc = [p \in Processes |-> "idle"]
    /\ at = [p \in Processes |-> None]

Goto(p, l) == pc' = [pc EXCEPT ![p] = l] /\ UNCHANGED at

GotoWith(p, l, s) == pc' = [pc EXCEPT ![p] = l] /\ at' = [at EXCEPT ![p] = s]

Done(p) == GotoWith(p, "idle", None)

LoopGoto(s, l) == loop' = [loop EXCEPT ![s] = l]

Queue(s, who) == io' = [io EXCEPT ![s] = Append(@, who)]

Holds(s, who) == io[s] # <<>> /\ Head(io[s]) = who

Release(s) == io' = [io EXCEPT ![s] = Tail(@)]

(* pc after bufferLock.notifyAll() of s.                                   *)
NotifyAll(s) ==
    [r \in Processes |-> IF pc[r] = "wait" /\ at[r] = s THEN "test" ELSE pc[r]]

-----------------------------------------------------------------------------
(* SerialPortManager.openPort.                                             *)
(* Mutant: nothing looks whether the name is open.                         *)
OpenPortUnchecked(a) ==
    /\ pc[a] = "idle" /\ ~ended
    /\ made < MaxOpens
    /\ Goto(a, "resolve")
    /\ UNCHANGED <<managerVars, portVars, loopVars, stranded, buffer, io, announced>>

OpenPort(a) ==
    /\ pc[a] = "idle" /\ ~ended
    /\ made < MaxOpens
    /\ table = None
    /\ Goto(a, "resolve")
    /\ UNCHANGED <<managerVars, portVars, loopVars, stranded, buffer, io, announced>>

(* resolveDescriptor, and the first half of ensurePermission: the one who  *)
(* finds no request in permissionRequests asks the user.                   *)
Resolve(a) ==
    /\ pc[a] = "resolve"
    /\ IF ~attached THEN Done(a) /\ UNCHANGED requested
       ELSE IF permission THEN Goto(a, "open") /\ UNCHANGED requested
       ELSE Goto(a, "asking") /\ requested' = TRUE
    /\ UNCHANGED <<attached, permission, ended, stopped, made, table, portVars, loopVars, stranded, buffer,
                   io, announced>>

(* handlePermissionResult, while the receiver is registered; the second    *)
(* half of ensurePermission.                                               *)
PermissionResult(granted) ==
    /\ requested /\ ~ended
    /\ requested' = FALSE
    /\ permission' = granted
    /\ pc' = [p \in Processes |->
                 IF pc[p] = "asking" THEN IF granted THEN "open" ELSE "idle" ELSE pc[p]]
    /\ UNCHANGED <<attached, ended, stopped, made, table, portVars, loopVars, stranded, buffer, io,
                   announced, at>>

(* SerialPort.open fails: the device is gone or refuses; what was opened   *)
(* is closed again.                                                        *)
SessionOpenFails(a) ==
    /\ pc[a] = "open"
    /\ Done(a)
    /\ UNCHANGED <<managerVars, portVars, loopVars, stranded, buffer, io, announced>>

SessionOpen(a) ==
    /\ pc[a] = "open"
    /\ attached
    /\ made < MaxOpens
    /\ LET s == made + 1 IN
          /\ made' = s
          /\ opened' = [opened EXCEPT ![s] = TRUE]
          /\ connected' = [connected EXCEPT ![s] = TRUE]
          /\ job' = [job EXCEPT ![s] = TRUE]
          /\ LoopGoto(s, "check")
          /\ GotoWith(a, "insert", s)
    /\ UNCHANGED <<attached, permission, requested, ended, stopped, table, cancelled, cut, stranded,
                   buffer, io, announced>>

(* It is not looked again whether the name is open.                        *)
Insert(a) ==
    /\ pc[a] = "insert"
    /\ table' = at[a]
    /\ Done(a)
    /\ UNCHANGED <<attached, permission, requested, ended, stopped, made, portVars, loopVars, stranded, buffer, io, announced>>

-----------------------------------------------------------------------------
(* closePort, closePortsForDevice and closeAll take the port out of the    *)
(* table.                                                                  *)
ClosePort(a) ==
    /\ pc[a] = "idle" /\ ~ended
    /\ table # None
    /\ table' = None
    /\ GotoWith(a, "begin", table)
    /\ UNCHANGED <<attached, permission, requested, ended, stopped, made, portVars, loopVars, stranded, buffer, io, announced>>

(* The receiver hears of it some time after the device is gone.  It looks  *)
(* and removes without openPortsMutex: what it removes may not be what it  *)
(* saw.                                                                    *)
Detached ==
    /\ ~attached /\ ~ended
    /\ pc[Receiver] = "idle"
    /\ table # None
    /\ GotoWith(Receiver, "drop", table)
    /\ UNCHANGED <<managerVars, portVars, loopVars, stranded, buffer, io, announced>>

Drop(p) ==
    /\ pc[p] = "drop"
    /\ table' = None
    /\ Goto(p, "begin")
    /\ UNCHANGED <<attached, permission, requested, ended, stopped, made, portVars, loopVars, stranded, buffer, io, announced>>

(* onDetachedFromEngine, to the table and the snapshot of closeAll; the    *)
(* main thread goes on when the ports are closed.                          *)
DetachFromEngine ==
    /\ ~ended
    /\ ended' = TRUE
    /\ table' = None
    /\ IF table = None THEN Done(Engine) ELSE GotoWith(Engine, "begin", table)
    /\ UNCHANGED <<attached, permission, requested, stopped, made, portVars, loopVars, stranded,
                   buffer, io, announced>>

ScopeCancelled ==
    /\ ended /\ pc[Engine] = "idle"
    /\ ~stopped
    /\ stopped' = TRUE
    /\ UNCHANGED <<attached, permission, requested, ended, made, table, portVars, loopVars,
                   stranded, buffer, io, announced, pc, at>>

-----------------------------------------------------------------------------
(* SerialPort.closeInternal(waitForReadLoop = true).                       *)
IsClosed(s) == ~opened[s] /\ ~connected[s]

(* readLoopJob?.cancelAndJoin()                                            *)
CancelLoop(p, next) ==
    /\ cancelled' = [cancelled EXCEPT ![at[p]] = @ \/ job[at[p]]]
    /\ Goto(p, IF job[at[p]] THEN next ELSE "lock")

(* Mutant: a port that is not opened counts as closed.                     *)
CloseBeginsOnOpened(p) ==
    /\ pc[p] = "begin"
    /\ opened' = [opened EXCEPT ![at[p]] = FALSE]
    /\ IF ~opened[at[p]]
       THEN Goto(p, "notify") /\ UNCHANGED cancelled
       ELSE CancelLoop(p, "join")
    /\ UNCHANGED <<managerVars, connected, job, loop, cut, stranded, buffer, io, announced>>

(* Mutant: the read loop is cancelled and not waited for.                  *)
CloseBeginsNoJoin(p) ==
    /\ pc[p] = "begin"
    /\ opened' = [opened EXCEPT ![at[p]] = FALSE]
    /\ IF IsClosed(at[p])
       THEN Goto(p, "notify") /\ UNCHANGED cancelled
       ELSE CancelLoop(p, "lock")
    /\ UNCHANGED <<managerVars, connected, job, loop, cut, stranded, buffer, io, announced>>

CloseBegins(p) ==
    /\ pc[p] = "begin"
    /\ opened' = [opened EXCEPT ![at[p]] = FALSE]
    /\ IF IsClosed(at[p])
       THEN Goto(p, "notify") /\ UNCHANGED cancelled
       ELSE CancelLoop(p, "join")
    /\ UNCHANGED <<managerVars, connected, job, loop, cut, stranded, buffer, io, announced>>

CloseJoins(p) ==
    /\ pc[p] = "join"
    /\ loop[at[p]] = "over"
    /\ job' = [job EXCEPT ![at[p]] = FALSE]
    /\ Goto(p, "lock")
    /\ UNCHANGED <<managerVars, opened, connected, loopVars, stranded, buffer, io,
                   announced>>

(* ioMutex is taken at once when it is free, and waited for when it is     *)
(* not.                                                                    *)
Lock(p) ==
    /\ pc[p] = "lock"
    /\ Queue(at[p], p)
    /\ Goto(p, IF io[at[p]] = <<>> THEN "io" ELSE "queued")
    /\ UNCHANGED <<managerVars, portVars, loopVars, stranded, buffer, announced>>

CloseDriver(p) ==
    /\ p \in Closers
    /\ pc[p] \in {"io", "queued"} /\ Holds(at[p], p)
    /\ connected' = [connected EXCEPT ![at[p]] = FALSE]
    /\ Release(at[p])
    /\ Goto(p, "notify")
    /\ UNCHANGED <<managerVars, opened, job, loopVars, stranded, buffer, announced>>

(* Mutant: the waiting readers are not woken.                              *)
CloseNotifiesNobody(p) ==
    /\ pc[p] = "notify"
    /\ buffer' = [buffer EXCEPT ![at[p]] = 0]
    /\ announced' = [announced EXCEPT ![at[p]] = @ \/ (p # Engine /\ ~ended)]
    /\ Done(p)
    /\ UNCHANGED <<managerVars, portVars, loopVars, stranded, io>>

(* The buffer is cleared, and portClosed or deviceDetached emitted;        *)
(* closeAll emits nothing, and there is no sink once the plugin has left.  *)
CloseNotifies(p) ==
    /\ pc[p] = "notify"
    /\ buffer' = [buffer EXCEPT ![at[p]] = 0]
    /\ announced' = [announced EXCEPT ![at[p]] = @ \/ (p # Engine /\ ~ended)]
    /\ pc' = [NotifyAll(at[p]) EXCEPT ![p] = "idle"]
    /\ at' = [at EXCEPT ![p] = None]
    /\ UNCHANGED <<managerVars, portVars, loopVars, stranded, io>>

-----------------------------------------------------------------------------
(* The scope of the calls is cancelled: a call ends where it is suspended, *)
(* or where it would be.  closeAll runs outside of the scope, and a read   *)
(* that waits on bufferLock is not suspended.                              *)
InScope == Apps \cup {Receiver} \cup Users

Strands(p) ==
    stranded' = IF p \in Closers /\ at[p] # None THEN [stranded EXCEPT ![at[p]] = TRUE]
                ELSE stranded

(* Somebody else is inside lifecycleMutex.                                 *)
Contended(p) ==
    \/ loop[at[p]] = "begin"
    \/ \E q \in Closers \ {p} : pc[q] = "begin" /\ at[q] = at[p]

(* Before it runs, at ensurePermission's await, at openPortsMutex with     *)
(* another call inside, at the join of the read loop, at lifecycleMutex.   *)
CallIsCancelled(p) ==
    /\ stopped /\ p \in InScope
    /\ \/ pc[p] \in {"resolve", "asking", "insert", "join"}
       \/ p \in Users /\ pc[p] = "lock"
       \/ pc[p] = "begin" /\ Contended(p)
    /\ Strands(p)
    /\ Done(p)
    /\ UNCHANGED <<managerVars, portVars, loopVars, buffer, io, announced>>

(* In the queue of ioMutex, also when its turn has come and it has not     *)
(* run yet.                                                                *)
WaitIsCancelled(p) ==
    /\ stopped /\ p \in InScope
    /\ pc[p] = "queued"
    /\ \E i \in 1 .. Len(io[at[p]]) :
         io[at[p]][i] = p /\ io' = [io EXCEPT ![at[p]] = RemoveAt(@, i)]
    /\ Strands(p)
    /\ Done(p)
    /\ UNCHANGED <<managerVars, portVars, loopVars, buffer, announced>>

-----------------------------------------------------------------------------
(* The read loop.                                                          *)
LoopChecks(s) ==
    /\ loop[s] = "check"
    /\ IF ~cancelled[s] /\ opened[s]
       THEN Queue(s, Loop) /\ LoopGoto(s, "lock")
       ELSE LoopGoto(s, "over") /\ UNCHANGED io
    /\ UNCHANGED <<managerVars, portVars, cancelled, cut, stranded, buffer, announced, pc, at>>

(* Cancelled while it waits for ioMutex: it leaves the queue and throws.   *)
LoopIsCancelled(s) ==
    /\ loop[s] = "lock"
    /\ cancelled[s] /\ ~Holds(s, Loop)
    /\ \E i \in 1 .. Len(io[s]) : io[s][i] = Loop /\ io' = [io EXCEPT ![s] = RemoveAt(@, i)]
    /\ LoopGoto(s, "threw")
    /\ UNCHANGED <<managerVars, portVars, cancelled, cut, stranded, buffer, announced, pc, at>>

LoopReads(s) ==
    /\ loop[s] = "lock"
    /\ Holds(s, Loop)
    /\ Release(s)
    /\ \/ LoopGoto(s, "check")
       \/ attached /\ buffer[s] < MaxBytes /\ LoopGoto(s, "got")
       \/ LoopGoto(s, "threw")
    /\ UNCHANGED <<managerVars, portVars, cancelled, cut, stranded, buffer, announced, pc, at>>

(* Into the buffer, and out as an event.                                   *)
LoopDelivers(s) ==
    /\ loop[s] = "got"
    /\ buffer' = [buffer EXCEPT ![s] = @ + 1]
    /\ pc' = NotifyAll(s)
    /\ LoopGoto(s, "check")
    /\ UNCHANGED <<managerVars, portVars, cancelled, cut, stranded, io, announced, at>>

(* The error is reported, and the port closed, unless somebody does it.    *)
LoopThrew(s) ==
    /\ loop[s] = "threw"
    /\ LoopGoto(s, IF opened[s] THEN "begin" ELSE "over")
    /\ UNCHANGED <<managerVars, portVars, cancelled, cut, stranded, buffer, io, announced, pc, at>>

(* closeInternal(waitForReadLoop = false).  Somebody may have begun to     *)
(* close the port since, or be done with it.                               *)
LoopCloseBegins(s) ==
    /\ loop[s] = "begin"
    /\ opened' = [opened EXCEPT ![s] = FALSE]
    /\ LoopGoto(s, IF IsClosed(s) THEN "notify" ELSE "cancel")
    /\ UNCHANGED <<managerVars, connected, job, cancelled, cut, stranded, buffer, io, announced, pc, at>>

LoopCancelsItself(s) ==
    /\ loop[s] = "cancel"
    /\ cancelled' = [cancelled EXCEPT ![s] = TRUE]
    /\ job' = [job EXCEPT ![s] = FALSE]
    /\ LoopGoto(s, "close")
    /\ UNCHANGED <<managerVars, opened, connected, cut, stranded, buffer, io, announced,
                   pc, at>>

(* ioMutex when it is free.  Otherwise the coroutine would have to wait,   *)
(* and a cancelled one cannot: closeInternal ends there.                   *)
LoopCloses(s) ==
    /\ loop[s] = "close"
    /\ IF io[s] = <<>>
       THEN /\ connected' = [connected EXCEPT ![s] = FALSE]
            /\ LoopGoto(s, "notify")
            /\ UNCHANGED cut
       ELSE /\ cut' = [cut EXCEPT ![s] = TRUE]
            /\ LoopGoto(s, "over")
            /\ UNCHANGED connected
    /\ UNCHANGED <<managerVars, opened, job, cancelled, stranded, buffer, io, announced,
                   pc, at>>

LoopNotifies(s) ==
    /\ loop[s] = "notify"
    /\ buffer' = [buffer EXCEPT ![s] = 0]
    /\ pc' = NotifyAll(s)
    /\ LoopGoto(s, "over")
    /\ UNCHANGED <<managerVars, portVars, cancelled, cut, stranded, io, announced, at>>

-----------------------------------------------------------------------------
(* requireOpenPort finds the port.                                         *)
Read(r) ==
    /\ pc[r] = "idle" /\ ~ended
    /\ table # None
    /\ GotoWith(r, "test", table)
    /\ UNCHANGED <<managerVars, portVars, loopVars, stranded, buffer, io, announced>>

(* waitForIncomingBytes, from one wait to the next.                        *)
(* Mutant: as many as asked for are taken.                                 *)
ReadTakesRequested(r) ==
    /\ pc[r] \in {"test", "late"}
    /\ buffer[at[r]] > 0
    /\ \E n \in 1 .. MaxBytes + 1 : buffer' = [buffer EXCEPT ![at[r]] = @ - n]
    /\ Done(r)
    /\ UNCHANGED <<managerVars, portVars, loopVars, stranded, io, announced>>

ReadTakes(r) ==
    /\ pc[r] \in {"test", "late"}
    /\ buffer[at[r]] > 0
    /\ \E n \in 1 .. buffer[at[r]] : buffer' = [buffer EXCEPT ![at[r]] = @ - n]
    /\ Done(r)
    /\ UNCHANGED <<managerVars, portVars, loopVars, stranded, io, announced>>

(* The port is closed, or there is no time left.                           *)
ReadFails(r) ==
    /\ pc[r] \in {"test", "late"}
    /\ buffer[at[r]] = 0
    /\ ~opened[at[r]] \/ pc[r] = "late"
    /\ Done(r)
    /\ UNCHANGED <<managerVars, portVars, loopVars, stranded, buffer, io, announced>>

ReadWaits(r) ==
    /\ pc[r] = "test"
    /\ buffer[at[r]] = 0
    /\ opened[at[r]]
    /\ Goto(r, "wait")
    /\ UNCHANGED <<managerVars, portVars, loopVars, stranded, buffer, io, announced>>

(* With a readTimeout; nothing obliges a wait without one to end.          *)
ReadTimesOut(r) ==
    /\ pc[r] = "wait"
    /\ Goto(r, "late")
    /\ UNCHANGED <<managerVars, portVars, loopVars, stranded, buffer, io, announced>>

(* write, flush and resetBuffers find the port and see that it is open;    *)
(* the last clears the buffer.  All go on to the driver.                   *)
Use(u) ==
    /\ pc[u] = "idle" /\ ~ended
    /\ table # None
    /\ opened[table]
    /\ GotoWith(u, "lock", table)
    /\ UNCHANGED <<managerVars, portVars, loopVars, stranded, buffer, io, announced>>

ResetBuffers(u) ==
    /\ pc[u] = "idle" /\ ~ended
    /\ table # None
    /\ opened[table]
    /\ buffer' = [buffer EXCEPT ![table] = 0]
    /\ pc' = [NotifyAll(table) EXCEPT ![u] = "lock"]
    /\ at' = [at EXCEPT ![u] = table]
    /\ UNCHANGED <<managerVars, portVars, loopVars, stranded, io, announced>>

(* Mutant: ioMutex is not released when the driver throws.                 *)
UseDriverKeepsLock(u) ==
    /\ u \in Users
    /\ pc[u] \in {"io", "queued"} /\ Holds(at[u], u)
    /\ IF connected[at[u]] THEN Release(at[u]) ELSE UNCHANGED io
    /\ Done(u)
    /\ UNCHANGED <<managerVars, portVars, loopVars, stranded, buffer, announced>>

(* The driver works, or throws when its port is closed or fails.           *)
UseDriver(u) ==
    /\ u \in Users
    /\ pc[u] \in {"io", "queued"} /\ Holds(at[u], u)
    /\ Release(at[u])
    /\ Done(u)
    /\ UNCHANGED <<managerVars, portVars, loopVars, stranded, buffer, announced>>

Detach ==
    /\ attached
    /\ attached' = FALSE
    /\ UNCHANGED <<permission, requested, ended, stopped, made, table, portVars, loopVars, stranded, buffer,
                   io, announced, pc, at>>

-----------------------------------------------------------------------------
Opening(a) ==
    \/ Resolve(a) \/ SessionOpenFails(a) \/ SessionOpen(a) \/ Insert(a)

Cancelling(p) == CallIsCancelled(p) \/ WaitIsCancelled(p)

Closing(p) ==
    \/ Drop(p) \/ CloseBegins(p) \/ CloseJoins(p) \/ Lock(p)
    \/ CloseDriver(p) \/ CloseNotifies(p)

Looping(s) ==
    \/ LoopChecks(s) \/ LoopIsCancelled(s) \/ LoopReads(s) \/ LoopDelivers(s)
    \/ LoopThrew(s) \/ LoopCloseBegins(s) \/ LoopCancelsItself(s) \/ LoopCloses(s)
    \/ LoopNotifies(s)

Reading(r) == ReadTakes(r) \/ ReadFails(r) \/ ReadWaits(r)

Using(u) == Lock(u) \/ UseDriver(u)

Next ==
    \/ \E a \in Apps : OpenPort(a) \/ Opening(a) \/ ClosePort(a)
    \/ \E p \in Closers : Closing(p)
    \/ \E p \in InScope : Cancelling(p)
    \/ Detached \/ DetachFromEngine \/ ScopeCancelled
    \/ \E granted \in BOOLEAN : PermissionResult(granted)
    \/ \E r \in Readers : Read(r) \/ Reading(r) \/ ReadTimesOut(r)
    \/ \E u \in Users : Use(u) \/ ResetBuffers(u) \/ Using(u)
    \/ \E s \in Sessions : Looping(s)
    \/ Detach

Spec == Init /\ [][Next]_vars

(* What runs goes on; calls of the driver return.  The user may leave the  *)
(* question about the permission unanswered, and nobody need call.         *)
FairSpec ==
    /\ Spec
    /\ \A a \in Apps : WF_vars(Opening(a))
    /\ \A p \in Closers : WF_vars(Closing(p))
    /\ \A r \in Readers : WF_vars(Reading(r))
    /\ \A u \in Users : WF_vars(Using(u))
    /\ \A s \in Sessions : WF_vars(Looping(s))

-----------------------------------------------------------------------------
(* Types.                                                                  *)
TypeOK ==
    /\ {attached, permission, requested, ended, stopped} \subseteq BOOLEAN
    /\ made \in 0 .. MaxOpens
    /\ table \in Sessions \cup {None}
    /\ {opened, connected, job, cancelled, cut, stranded, announced}
           \subseteq [Sessions -> BOOLEAN]
    /\ buffer \in [Sessions -> 0 .. MaxBytes]
    /\ io \in [Sessions -> Seq(Processes \cup {Loop})]
    /\ loop \in [Sessions -> LoopPCs]
    /\ pc \in [Processes -> PCs]
    /\ at \in [Processes -> Sessions \cup {None}]

(* A session that holds the device can be reached: it is in the table,     *)
(* about to be put there, or somebody is closing it.  Only the end of the  *)
(* plugin can lose it, when it cancels the call that has it.               *)
NoLostConnection ==
    \A s \in Sessions : connected[s] =>
        \/ table = s
        \/ \E p \in Closers : at[p] = s
        \/ stranded[s] /\ stopped

(* No data follows the event that says the port is closed, nor gets into   *)
(* its buffer, and the driver of a closed port is not read.                *)
NothingAfterClosed ==
    \A s \in Sessions : announced[s] => loop[s] \notin {"lock", "got"}

OfClosedPort(r) == at[r] # None /\ ~opened[at[r]]

Abandoned(s) == (cut[s] \/ stranded[s]) /\ connected[s]

(* No read stays with a port that is closed, also none without a timeout   *)
(* that had begun to wait; except while the read loop, or a call that the end   *)
(* of the plugin cancelled, could not finish closing the port and nobody   *)
(* closes it.                                                              *)
ReadersOfClosedPortsReturn ==
    \A r \in Readers : []<>(OfClosedPort(r) => Abandoned(at[r]))

(* Every process comes back to idle, again and again: opening ends unless  *)
(* the user is asked, closing and writing end.                             *)
EveryCallReturns ==
    \A p \in Closers \cup Users : []<>(pc[p] \in {"idle", "asking"})

-----------------------------------------------------------------------------
(* The inductive invariant.                                                *)
OpeningPCs == {"resolve", "asking", "open", "insert"}

(* A coroutine has a session, one of those made, when it has found or made *)
(* it.                                                                     *)
CallerShape ==
    /\ table # None => table <= made
    /\ \A p \in Processes :
          /\ at[p] = None <=> pc[p] \in {"idle", "resolve", "asking", "open"}
          /\ at[p] # None => at[p] <= made
    /\ \A p \in Closers : pc[p] \notin {"test", "wait", "late"}

(* What the read loop of a session may be doing: it has room for what it   *)
(* got, and is past its last read once its job is gone or the device is    *)
(* given back.                                                             *)
LoopShape ==
    \A s \in Sessions :
        /\ s > made => loop[s] = "none" /\ ~connected[s] /\ ~job[s] /\ ~announced[s]
        /\ loop[s] = "got" => buffer[s] < MaxBytes
        /\ s <= made /\ (~job[s] \/ ~connected[s]) => loop[s] \in {"close", "notify", "over"}

(* Who closes a session goes to the driver only after the last read, and   *)
(* announces only what is given back.                                      *)
CloseShape ==
    /\ \A p \in Closers :
          /\ pc[p] \in {"lock", "queued", "io"} => loop[at[p]] \in {"close", "notify", "over"}
          /\ pc[p] = "notify" => ~connected[at[p]]
    /\ \A s \in Sessions : announced[s] => ~connected[s]

IInv == TypeOK /\ CallerShape /\ LoopShape /\ CloseShape

(* The app awaits openPort and closePort: one at a time.                   *)
OneAtATime == \A a, b \in Apps : a = b

(* With one at a time, nothing is in the table while a port is opened, and *)
(* the receiver takes out what it has seen, or nothing.                    *)
TableShape ==
    /\ \A a \in Apps : pc[a] \in OpeningPCs => table = None
    /\ \A p \in Closers : pc[p] = "drop" =>
          /\ p = Receiver
          /\ ~attached
          /\ table \in {None, at[p]}
          /\ \A a \in Apps : pc[a] # "insert"
    /\ ~ended => pc[Engine] = "idle" /\ ~stopped

ReachInv == IInv /\ TableShape /\ NoLostConnection

=============================================================================
