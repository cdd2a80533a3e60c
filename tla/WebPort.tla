------------------------------- MODULE WebPort -------------------------------
(***************************************************************************)
(* lib/src/platform/web_impl.dart: one name, and the Web Serial ports the  *)
(* user selects for it, one for each openPort.                             *)
(*                                                                         *)
(* Dart runs one piece of code at a time, from one await to the next; a    *)
(* step is such a piece.  Promises of the browser settle in between.  A    *)
(* stream of the browser has one reader or writer at a time (a lock), and  *)
(* a port with a locked stream refuses to close.                           *)
(***************************************************************************)
EXTENDS Integers

CONSTANTS
    Apps,       \* callers of openPort and closePort; one when the app awaits them
    Readers,    \* callers of readData
    Writers,    \* callers of writeData
    None,
    MaxOpens,   \* bounds: the contexts made,
    MaxBytes    \* and the chunks in a buffer

Contexts == 1 .. MaxOpens
Callers  == Apps \cup Readers \cup Writers

ASSUME NoneAssumption == None \notin Contexts
ASSUME BoundsAssumption == MaxOpens \in Nat /\ MaxBytes \in Nat

VARIABLES
    made,       \* contexts made so far
    table,      \* _ports: the context under the name, or None
    jsOpen,     \* jsOpen[c]: the browser's port of c was opened for c and is open
    reader,     \* reader[c]: _reader: "none", "locked", or "released" (and still set)
    task,       \* task[c]: _runReadLoop: "none", "reading" or "over"
    ending,     \* ending[c]: the readable stream was cancelled
    closing,    \* closing[c]: _closing
    buffer,     \* buffer[c]: chunks in _buffer
    ended,      \* ended[c]: _eventController is closed
    writer,     \* writer[c]: who has the lock of the writable stream, or None
    refused,    \* refused[c]: the browser would not close the port during a write (history)
    pc,         \* pc[p]: the await a caller is at
    at          \* at[p]: its context

contextVars == <<jsOpen, reader, task, ending, closing, buffer, ended, writer, refused>>
vars == <<made, table, contextVars, pc, at>>

Init ==
    /\ made = 0
    /\ table = None
    /\ jsOpen  = [c \in Contexts |-> FALSE]
    /\ reader  = [c \in Contexts |-> "none"]
    /\ task    = [c \in Contexts |-> "none"]
    /\ ending  = [c \in Contexts |-> FALSE]
    /\ closing = [c \in Contexts |-> FALSE]
    /\ buffer  = [c \in Contexts |-> 0]
    /\ ended   = [c \in Contexts |-> FALSE]
    /\ writer  = [c \in Contexts |-> None]
    /\ refused = [c \in Contexts |-> FALSE]
    /\ pc = [p \in Callers |-> "idle"]
    /\ at = [p \in Callers |-> None]

Become(p, l, c) == pc' = [pc EXCEPT ![p] = l] /\ at' = [at EXCEPT ![p] = c]

Done(p) == Become(p, "idle", None)

(* pc after _readNotifier.complete(): all who wait for it look again.      *)
Notified(c) == [p \in Callers |-> IF pc[p] = "await" /\ at[p] = c THEN "test" ELSE pc[p]]

-----------------------------------------------------------------------------
(* openPort: the user selects a port, the browser opens it.                *)
OpenPort(a) ==
    /\ pc[a] = "idle"
    /\ table = None
    /\ Become(a, "request", None)
    /\ UNCHANGED <<made, table, contextVars>>

OpenFails(a) ==
    /\ pc[a] = "request"
    /\ Done(a)
    /\ UNCHANGED <<made, table, contextVars>>

(* The browser opens the port when it is not open.  The read loop runs to  *)
(* its first await, or finds no readable stream and ends.                  *)
Opened(a) ==
    /\ pc[a] = "request"
    /\ made < MaxOpens
    /\ LET c == made + 1 IN
          /\ made' = c
          /\ table' = c
          /\ jsOpen' = [jsOpen EXCEPT ![c] = TRUE]
          /\ \/ /\ reader' = [reader EXCEPT ![c] = "locked"]
                /\ task' = [task EXCEPT ![c] = "reading"]
             \/ task' = [task EXCEPT ![c] = "over"] /\ UNCHANGED reader
    /\ Done(a)
    /\ UNCHANGED <<ending, closing, buffer, ended, writer, refused>>

-----------------------------------------------------------------------------
(* closePort and close().                                                  *)
(* Mutant: an error of cancel() ends close().                              *)
ClosePortGivesUp(a) ==
    /\ pc[a] = "idle"
    /\ table # None
    /\ table' = None
    /\ closing' = [closing EXCEPT ![table] = TRUE]
    /\ ending' = [ending EXCEPT ![table] = @ \/ reader[table] = "locked"]
    /\ pc' = [Notified(table) EXCEPT
                 ![a] = IF reader[table] = "released" THEN "idle" ELSE "cancel"]
    /\ at' = [at EXCEPT ![a] = IF reader[table] = "released" THEN None ELSE table]
    /\ UNCHANGED <<made, jsOpen, reader, task, buffer, ended, writer, refused>>

(* Mutant: waiting reads are not completed.                                *)
ClosePortSilently(a) ==
    /\ pc[a] = "idle"
    /\ table # None
    /\ table' = None
    /\ closing' = [closing EXCEPT ![table] = TRUE]
    /\ ending' = [ending EXCEPT ![table] = @ \/ reader[table] = "locked"]
    /\ Become(a, "cancel", table)
    /\ UNCHANGED <<made, jsOpen, reader, task, buffer, ended, writer, refused>>

(* Mutant: the read loop is waited for, and cancelled after that.          *)
ClosePortWaitsFirst(a) ==
    /\ pc[a] = "idle"
    /\ table # None
    /\ table' = None
    /\ closing' = [closing EXCEPT ![table] = TRUE]
    /\ pc' = [Notified(table) EXCEPT ![a] = "task"]
    /\ at' = [at EXCEPT ![a] = table]
    /\ UNCHANGED <<made, jsOpen, reader, task, ending, buffer, ended, writer, refused>>

(* cancel() on a reader that was released fails; the error is kept and     *)
(* closing goes on.                                                        *)
ClosePort(a) ==
    /\ pc[a] = "idle"
    /\ table # None
    /\ table' = None
    /\ closing' = [closing EXCEPT ![table] = TRUE]
    /\ ending' = [ending EXCEPT ![table] = @ \/ reader[table] = "locked"]
    /\ pc' = [Notified(table) EXCEPT ![a] = "cancel"]
    /\ at' = [at EXCEPT ![a] = table]
    /\ UNCHANGED <<made, jsOpen, reader, task, buffer, ended, writer, refused>>

(* Mutant: the read loop is not waited for.                                *)
CancelSettledNoWait(a) ==
    /\ pc[a] = "cancel"
    /\ Become(a, "close", at[a])
    /\ UNCHANGED <<made, table, contextVars>>

CancelSettled(a) ==
    /\ pc[a] = "cancel"
    /\ Become(a, "task", at[a])
    /\ UNCHANGED <<made, table, contextVars>>

TaskOver(a) ==
    /\ pc[a] = "task"
    /\ task[at[a]] = "over"
    /\ Become(a, "close", at[a])
    /\ UNCHANGED <<made, table, contextVars>>

(* port.close(), refused when a stream is locked: a write that is not over *)
(* has the writable one.                                                   *)
Locked(c) == reader[c] = "locked" \/ writer[c] # None

JsClose(a) ==
    /\ pc[a] = "close"
    /\ LET c == at[a] IN
          IF Locked(c)
          THEN refused' = [refused EXCEPT ![c] = writer[c] # None] /\ UNCHANGED jsOpen
          ELSE jsOpen' = [jsOpen EXCEPT ![c] = FALSE] /\ UNCHANGED refused
    /\ Become(a, "controller", at[a])
    /\ UNCHANGED <<made, table, reader, task, ending, closing, buffer, ended, writer>>

CloseController(a) ==
    /\ pc[a] = "controller"
    /\ ended' = [ended EXCEPT ![at[a]] = TRUE]
    /\ Done(a)
    /\ UNCHANGED <<made, table, jsOpen, reader, task, ending, closing, buffer, writer, refused>>

-----------------------------------------------------------------------------
(* _runReadLoop, from one read() of the browser to the next.               *)
(* Mutant: the reads are not told.                                         *)
ChunkUnnoticed(c) ==
    /\ task[c] = "reading"
    /\ buffer[c] < MaxBytes
    /\ buffer' = [buffer EXCEPT ![c] = @ + 1]
    /\ UNCHANGED <<pc, task, reader>>
    /\ UNCHANGED <<made, table, at, jsOpen, ending, closing, ended, writer, refused>>

(* A chunk may have been on its way when the stream was cancelled.         *)
Chunk(c) ==
    /\ task[c] = "reading"
    /\ buffer[c] < MaxBytes
    /\ buffer' = [buffer EXCEPT ![c] = @ + 1]
    /\ pc' = Notified(c)
    /\ IF closing[c]
       THEN task' = [task EXCEPT ![c] = "over"] /\ reader' = [reader EXCEPT ![c] = "released"]
       ELSE UNCHANGED <<task, reader>>
    /\ UNCHANGED <<made, table, at, jsOpen, ending, closing, ended, writer, refused>>

(* Mutant: the lock of the reader is not released.                         *)
LoopEndsLocked(c) ==
    /\ task[c] = "reading"
    /\ task' = [task EXCEPT ![c] = "over"]
    /\ UNCHANGED <<made, table, pc, at, jsOpen, reader, ending, closing, buffer, ended, writer,
                   refused>>

(* done, because it was cancelled, or an error, for instance when the      *)
(* device is gone.  Reads that wait are not told.                          *)
LoopEnds(c) ==
    /\ task[c] = "reading"
    /\ task' = [task EXCEPT ![c] = "over"]
    /\ reader' = [reader EXCEPT ![c] = "released"]
    /\ UNCHANGED <<made, table, pc, at, jsOpen, ending, closing, buffer, ended, writer, refused>>

-----------------------------------------------------------------------------
(* readData.                                                               *)
Read(r) ==
    /\ pc[r] = "idle"
    /\ table # None
    /\ Become(r, "test", table)
    /\ UNCHANGED <<made, table, contextVars>>

ReadWaits(r) ==
    /\ pc[r] = "test"
    /\ buffer[at[r]] = 0 /\ ~closing[at[r]]
    /\ Become(r, "await", at[r])
    /\ UNCHANGED <<made, table, contextVars>>

(* Mutant: a read that was told takes the first chunk without a look.      *)
ReadTakesUnlooked(r) ==
    /\ pc[r] = "test"
    /\ buffer' = [buffer EXCEPT ![at[r]] = @ - 1]
    /\ Done(r)
    /\ UNCHANGED <<made, table, jsOpen, reader, task, ending, closing, ended, writer, refused>>

(* What is there, nothing when the port is closing.                        *)
ReadTakes(r) ==
    /\ pc[r] = "test"
    /\ buffer[at[r]] > 0 \/ closing[at[r]]
    /\ IF buffer[at[r]] = 0
       THEN UNCHANGED buffer
       ELSE \E n \in 1 .. buffer[at[r]] : buffer' = [buffer EXCEPT ![at[r]] = @ - n]
    /\ Done(r)
    /\ UNCHANGED <<made, table, jsOpen, reader, task, ending, closing, ended, writer, refused>>

ResetBuffers ==
    /\ table # None
    /\ buffer' = [buffer EXCEPT ![table] = 0]
    /\ UNCHANGED <<made, table, pc, at, jsOpen, reader, task, ending, closing, ended, writer,
                   refused>>

(* writeData: getWriter fails when another write has the lock.             *)
Write(w) ==
    /\ pc[w] = "idle"
    /\ table # None
    /\ writer[table] = None
    /\ writer' = [writer EXCEPT ![table] = w]
    /\ Become(w, "write", table)
    /\ UNCHANGED <<made, table, jsOpen, reader, task, ending, closing, buffer, ended, refused>>

WriteEnds(w) ==
    /\ pc[w] = "write"
    /\ writer' = [writer EXCEPT ![at[w]] = None]
    /\ Done(w)
    /\ UNCHANGED <<made, table, jsOpen, reader, task, ending, closing, buffer, ended, refused>>

-----------------------------------------------------------------------------
Closing(a) == CancelSettled(a) \/ TaskOver(a) \/ JsClose(a) \/ CloseController(a)

Next ==
    \/ \E a \in Apps : OpenPort(a) \/ OpenFails(a) \/ Opened(a) \/ ClosePort(a) \/ Closing(a)
    \/ \E c \in Contexts : Chunk(c) \/ LoopEnds(c)
    \/ \E r \in Readers : Read(r) \/ ReadWaits(r) \/ ReadTakes(r)
    \/ ResetBuffers
    \/ \E w \in Writers : Write(w) \/ WriteEnds(w)

Spec == Init /\ [][Next]_vars

(* Dart goes on, and the browser ends a read that was cancelled.  A write  *)
(* need not end: the device may not take it.                               *)
FairSpec ==
    /\ Spec
    /\ \A a \in Apps : WF_vars(Closing(a))
    /\ \A c \in Contexts : WF_vars(ending[c] /\ LoopEnds(c))
    /\ \A r \in Readers : WF_vars(ReadWaits(r) \/ ReadTakes(r))

-----------------------------------------------------------------------------
(* Types.                                                                  *)
TypeOK ==
    /\ made \in 0 .. MaxOpens
    /\ table \in Contexts \cup {None}
    /\ reader \in [Contexts -> {"none", "locked", "released"}]
    /\ task \in [Contexts -> {"none", "reading", "over"}]
    /\ {jsOpen, ending, closing, ended, refused} \subseteq [Contexts -> BOOLEAN]
    /\ buffer \in [Contexts -> 0 .. MaxBytes]
    /\ writer \in [Contexts -> Writers \cup {None}]
    /\ pc \in [Callers -> {"idle", "request", "cancel", "task", "close", "controller",
                           "test", "await", "write"}]
    /\ at \in [Callers -> Contexts \cup {None}]

(* A port the browser has open can be closed: it is in the table or being  *)
(* closed.  The exception is a port closed during a write: the browser     *)
(* refuses, and nobody tries again.  For any other reason it never does.   *)
NoLostPort ==
    \A c \in Contexts : jsOpen[c] =>
        table = c \/ refused[c] \/ \E a \in Apps : at[a] = c

(* The read loop is over before its event stream is closed: it would add   *)
(* events to a closed stream.                                              *)
LoopEndsBeforeItsStream ==
    \A c \in Contexts : ended[c] => task[c] = "over"

(* No read waits while there is something to read, or when the port is     *)
(* closing: a reader that was not told would wait for the next chunk.      *)
NoMissedNotification ==
    \A r \in Readers : pc[r] = "await" => buffer[at[r]] = 0 /\ ~closing[at[r]]

(* closePort ends, whatever the read loop is doing.                        *)
EveryCloseReturns ==
    \A a \in Apps : at[a] # None ~> at[a] = None

-----------------------------------------------------------------------------
(* The inductive invariant.                                                *)

(* A caller has a context, one of those made, from its first look at the   *)
(* table on.                                                               *)
CallerShape ==
    /\ table # None => table <= made
    /\ \A p \in Callers :
          /\ at[p] = None <=> pc[p] \in {"idle", "request"}
          /\ at[p] # None => at[p] <= made

(* The reader's lock is held while the read loop runs; a close that has    *)
(* come to the port found the loop over.                                   *)
LoopShape ==
    /\ \A c \in Contexts : reader[c] = "locked" <=> task[c] = "reading"
    /\ \A c \in Contexts : c > made => task[c] = "none"
    /\ \A p \in Callers : pc[p] \in {"close", "controller"} => task[at[p]] = "over"

(* An open port is in the table, or a close has yet to come to it, or was  *)
(* refused.                                                                *)
PortShape ==
    \A c \in Contexts : jsOpen[c] =>
        \/ table = c
        \/ refused[c]
        \/ \E a \in Apps : at[a] = c /\ pc[a] \in {"cancel", "task", "close"}

IInv ==
    /\ TypeOK /\ CallerShape /\ LoopShape
    /\ LoopEndsBeforeItsStream /\ NoMissedNotification

(* The app awaits openPort and closePort: one at a time.                   *)
OneAtATime == \A a, b \in Apps : a = b

(* With one at a time, the name is still free when the browser has opened  *)
(* the port.                                                               *)
NameIsFree == \A a \in Apps : pc[a] = "request" => table = None

ReachInv == IInv /\ PortShape /\ NameIsFree

=============================================================================
