-------------------------- MODULE LinuxPortManager --------------------------
(***************************************************************************)
(* linux/serial_port_manager.c and the life of a descriptor in             *)
(* linux/serial_port.c: several threads call the flat C API of one         *)
(* manager.  One mutex protects the table of open ports; a port is opened  *)
(* and closed outside it, and used inside it.                              *)
(*                                                                         *)
(* A critical section that only touches the table is one step, taken when  *)
(* the mutex is free.  The one that blocks, a port operation run by        *)
(* serial_port_manager_with_port_locked, holds the mutex between two steps.*)
(***************************************************************************)
EXTENDS Integers, FiniteSets

CONSTANTS
    Threads,    \* the threads (isolates) calling the API
    Names,      \* device paths
    Fds,        \* the descriptors the kernel can hand out
    MaxCalls,   \* bound: calls each thread makes
    Nobody,     \* no thread holds the mutex
    Closed      \* the kernel does not have this descriptor open

ASSUME NobodyAssumption == Nobody \notin Threads
ASSUME ClosedAssumption == Closed \notin Names
ASSUME MaxCallsAssumption == MaxCalls \in Nat

VARIABLES
    mutex,      \* the thread in a blocking critical section, or Nobody
    table,      \* manager->ports: a set of [handle, name, fd] entries
    next_handle,
    kernel,     \* kernel[d]: the device descriptor d is open on, or Closed
    alive,      \* serial_port_manager_destroy has not run
    pc,         \* pc[t]: where thread t is in its call
    op,         \* op[t]: the call and its arguments
    held,       \* held[t]: the set of entries t points to, none or one
    ret,        \* ret[t]: the result t is going to return, "none" before
    out,        \* out[t]: *handle_out, 0 when not written
    budget      \* budget[t]: the calls t has left

vars == <<mutex, table, next_handle, kernel, alive, pc, op, held, ret, out, budget>>

Entry == [handle : Nat, name : Names, fd : Fds]

NoOperation == [kind |-> "none"]

Operations ==
         [kind : {"open", "close", "find"}, name : Names]
    \cup [kind : {"close", "use"}, handle : Nat]
    \cup [kind : {"list"}]

(* An entry that a port is being opened for has no handle yet.             *)
Unnumbered == 0

PCs == {"idle", "check", "device", "configure", "insert", "discard", "report",
        "detach", "closing", "enter", "in_port", "find", "list", "return"}

(* strcmp on the path, or the handle: how the table is searched.           *)
Matches(o, e) == IF "name" \in DOMAIN o THEN o.name = e.name ELSE o.handle = e.handle

Found(t) == {e \in table : Matches(op[t], e)}

MutexFree == mutex = Nobody

Goto(t, l) == pc' = [pc EXCEPT ![t] = l]

Answer(t, r) == ret' = [ret EXCEPT ![t] = r]

(* A thread owns what it points to, except an entry others can reach.      *)
Owning == {"configure", "insert", "discard", "closing"}

Owned(t) == IF pc[t] \in Owning THEN held[t] ELSE {}

(* The memory of an entry is live while it is in the table or a closing    *)
(* thread has not freed it yet.                                            *)
Live(e) == e \in table \/ \E u \in Threads : pc[u] = "closing" /\ e \in held[u]

Init ==
    /\ mutex = Nobody
    /\ table = {}
    /\ next_handle = 1
    /\ kernel = [d \in Fds |-> Closed]
    /\ alive = TRUE
    /\ pc = [t \in Threads |-> "idle"]
    /\ op = [t \in Threads |-> NoOperation]
    /\ held = [t \in Threads |-> {}]
    /\ ret = [t \in Threads |-> "none"]
    /\ out = [t \in Threads |-> 0]
    /\ budget = [t \in Threads |-> MaxCalls]

-----------------------------------------------------------------------------
(* A thread calls the API.  Handles come from earlier opens, so a caller   *)
(* may hold one that is closed, and none that was never issued.            *)
Entering(o) ==
    CASE o.kind = "open"  -> "check"
      [] o.kind = "close" -> "detach"
      [] o.kind = "use"   -> "enter"
      [] o.kind = "find"  -> "find"
      [] o.kind = "list"  -> "list"

Callable ==
         [kind : {"open", "close", "find"}, name : Names]
    \cup [kind : {"close", "use"}, handle : 1 .. next_handle - 1]
    \cup [kind : {"list"}]

Call(t) ==
    /\ alive
    /\ pc[t] = "idle"
    /\ budget[t] > 0
    /\ budget' = [budget EXCEPT ![t] = @ - 1]
    /\ \E o \in Callable :
         /\ op' = [op EXCEPT ![t] = o]
         /\ Goto(t, Entering(o))
    /\ UNCHANGED <<mutex, table, next_handle, kernel, alive, held, ret, out>>

Return(t) ==
    /\ pc[t] = "return"
    /\ Goto(t, "idle")
    /\ Answer(t, "none")
    /\ op' = [op EXCEPT ![t] = NoOperation]
    /\ held' = [held EXCEPT ![t] = {}]
    /\ out' = [out EXCEPT ![t] = 0]
    /\ UNCHANGED <<mutex, table, next_handle, kernel, alive, budget>>

-----------------------------------------------------------------------------
(* serial_port_manager_open: the name is checked, the device is opened     *)
(* without the mutex, and the name is checked again before the insertion.  *)
OpenCheck(t) ==
    /\ pc[t] = "check"
    /\ MutexFree
    /\ IF Found(t) = {}
       THEN Goto(t, "device") /\ UNCHANGED ret
       ELSE Goto(t, "return") /\ Answer(t, "already")
    /\ UNCHANGED <<mutex, table, next_handle, kernel, alive, op, held, out, budget>>

(* serial_port_create and open(2).  Nothing makes the device exclusive, so *)
(* a name another descriptor is open on can be opened again.               *)
OpenDevice(t) ==
    /\ pc[t] = "device"
    /\ \E d \in Fds :
         /\ kernel[d] = Closed
         /\ kernel' = [kernel EXCEPT ![d] = op[t].name]
         /\ held' = [held EXCEPT ![t] = {[handle |-> Unnumbered, name |-> op[t].name, fd |-> d]}]
    /\ Goto(t, "configure")
    /\ UNCHANGED <<mutex, table, next_handle, alive, op, ret, out, budget>>

(* The path is empty, memory is short, or open(2) fails.                   *)
OpenDeviceFails(t) ==
    /\ pc[t] = "device"
    /\ Goto(t, "return")
    /\ Answer(t, "failed")
    /\ UNCHANGED <<mutex, table, next_handle, kernel, alive, op, held, out, budget>>

(* The termios configuration is applied and the entry allocated.           *)
Configure(t) ==
    /\ pc[t] = "configure"
    /\ Goto(t, "insert")
    /\ UNCHANGED <<mutex, table, next_handle, kernel, alive, op, held, ret, out, budget>>

CloseHeld(t) ==
    kernel' = [d \in Fds |-> IF \E e \in held[t] : e.fd = d THEN Closed ELSE kernel[d]]

(* One of the two fails: the descriptor is closed with its port.           *)
ConfigureFails(t) ==
    /\ pc[t] = "configure"
    /\ CloseHeld(t)
    /\ held' = [held EXCEPT ![t] = {}]
    /\ Goto(t, "return")
    /\ Answer(t, "failed")
    /\ UNCHANGED <<mutex, table, next_handle, alive, op, out, budget>>

(* Mutant: the second look-up by name is dropped.                          *)
OpenInsertUnchecked(t) ==
    /\ pc[t] = "insert"
    /\ MutexFree
    /\ LET entries == {[e EXCEPT !.handle = next_handle] : e \in held[t]}
       IN  /\ table' = table \cup entries
           /\ held' = [held EXCEPT ![t] = entries]
    /\ next_handle' = next_handle + 1
    /\ Goto(t, "report")
    /\ Answer(t, "ok")
    /\ UNCHANGED <<mutex, kernel, alive, op, out, budget>>

(* Mutant: the handle is the entry's position, so a closed one comes back. *)
OpenInsertAtPosition(t) ==
    /\ pc[t] = "insert"
    /\ MutexFree
    /\ Found(t) = {}
    /\ LET entries == {[e EXCEPT !.handle = Cardinality(table) + 1] : e \in held[t]}
       IN  /\ table' = table \cup entries
           /\ held' = [held EXCEPT ![t] = entries]
    /\ next_handle' = Cardinality(table) + 2
    /\ Goto(t, "report")
    /\ Answer(t, "ok")
    /\ UNCHANGED <<mutex, kernel, alive, op, out, budget>>

OpenInsert(t) ==
    /\ pc[t] = "insert"
    /\ MutexFree
    /\ Found(t) = {}
    /\ LET entries == {[e EXCEPT !.handle = next_handle] : e \in held[t]}
       IN  /\ table' = table \cup entries
           /\ held' = [held EXCEPT ![t] = entries]
    /\ next_handle' = next_handle + 1
    /\ Goto(t, "report")
    /\ Answer(t, "ok")
    /\ UNCHANGED <<mutex, kernel, alive, op, out, budget>>

OpenLosesRace(t) ==
    /\ pc[t] = "insert"
    /\ MutexFree
    /\ Found(t) # {}
    /\ Goto(t, "discard")
    /\ Answer(t, "already")
    /\ UNCHANGED <<mutex, table, next_handle, kernel, alive, op, held, out, budget>>

(* Mutant: the entry is freed and the port that lost the race is not.      *)
DiscardEntryOnly(t) ==
    /\ pc[t] = "discard"
    /\ held' = [held EXCEPT ![t] = {}]
    /\ Goto(t, "return")
    /\ UNCHANGED <<mutex, table, next_handle, kernel, alive, op, ret, out, budget>>

DiscardPort(t) ==
    /\ pc[t] = "discard"
    /\ CloseHeld(t)
    /\ held' = [held EXCEPT ![t] = {}]
    /\ Goto(t, "return")
    /\ UNCHANGED <<mutex, table, next_handle, alive, op, ret, out, budget>>

(* *handle_out = entry->handle, after the mutex is released: a freed entry *)
(* reads as any handle-sized value.                                        *)
ReportHandle(t) ==
    /\ pc[t] = "report"
    /\ \E h \in 0 .. next_handle :
         /\ \A e \in held[t] : Live(e) => h = e.handle
         /\ out' = [out EXCEPT ![t] = h]
    /\ Goto(t, "return")
    /\ UNCHANGED <<mutex, table, next_handle, kernel, alive, op, held, ret, budget>>

-----------------------------------------------------------------------------
(* serial_port_manager_close and close_by_name: the entry leaves the table *)
(* under the mutex, its port is closed and freed outside it.               *)
CloseDetach(t) ==
    /\ pc[t] = "detach"
    /\ MutexFree
    /\ table' = table \ Found(t)
    /\ held' = [held EXCEPT ![t] = Found(t)]
    /\ IF Found(t) = {}
       THEN Goto(t, "return") /\ Answer(t, "noent")
       ELSE Goto(t, "closing") /\ Answer(t, "ok")
    /\ UNCHANGED <<mutex, next_handle, kernel, alive, op, out, budget>>

(* serial_port_close, serial_port_destroy and free.                        *)
CloseDescriptor(t) ==
    /\ pc[t] = "closing"
    /\ CloseHeld(t)
    /\ held' = [held EXCEPT ![t] = {}]
    /\ Goto(t, "return")
    /\ UNCHANGED <<mutex, table, next_handle, alive, op, ret, out, budget>>

-----------------------------------------------------------------------------
(* serial_port_manager_with_port_locked: read, write, flush and the rest   *)
(* look the handle up and run with the mutex held.                         *)
(* Mutant: the mutex is released after the look-up, before the operation.  *)
EnterPortUnlocked(t) ==
    /\ pc[t] = "enter"
    /\ MutexFree
    /\ IF Found(t) = {}
       THEN Goto(t, "return") /\ Answer(t, "noent") /\ UNCHANGED held
       ELSE /\ Goto(t, "in_port")
            /\ Answer(t, "ok")
            /\ held' = [held EXCEPT ![t] = Found(t)]
    /\ UNCHANGED <<mutex, table, next_handle, kernel, alive, op, out, budget>>

(* Mutant: the -ENOENT return does not release the mutex.                  *)
EnterPortKeepsMutex(t) ==
    /\ pc[t] = "enter"
    /\ MutexFree
    /\ mutex' = t
    /\ IF Found(t) = {}
       THEN Goto(t, "return") /\ Answer(t, "noent") /\ UNCHANGED held
       ELSE /\ Goto(t, "in_port")
            /\ Answer(t, "ok")
            /\ held' = [held EXCEPT ![t] = Found(t)]
    /\ UNCHANGED <<table, next_handle, kernel, alive, op, out, budget>>

EnterPort(t) ==
    /\ pc[t] = "enter"
    /\ MutexFree
    /\ IF Found(t) = {}
       THEN /\ Goto(t, "return")
            /\ Answer(t, "noent")
            /\ UNCHANGED <<mutex, held>>
       ELSE /\ Goto(t, "in_port")
            /\ Answer(t, "ok")
            /\ mutex' = t
            /\ held' = [held EXCEPT ![t] = Found(t)]
    /\ UNCHANGED <<table, next_handle, kernel, alive, op, out, budget>>

LeavePort(t) ==
    /\ pc[t] = "in_port"
    /\ mutex' = Nobody
    /\ held' = [held EXCEPT ![t] = {}]
    /\ Goto(t, "return")
    /\ UNCHANGED <<table, next_handle, kernel, alive, op, ret, out, budget>>

(* Mutant: a failed look-up stores -ENOENT in *handle_out.                 *)
FindHandleStoresError(t) ==
    /\ pc[t] = "find"
    /\ MutexFree
    /\ IF Found(t) = {}
       THEN Answer(t, "noent") /\ out' = [out EXCEPT ![t] = -2]
       ELSE /\ Answer(t, "ok")
            /\ \E e \in Found(t) : out' = [out EXCEPT ![t] = e.handle]
    /\ Goto(t, "return")
    /\ UNCHANGED <<mutex, table, next_handle, kernel, alive, op, held, budget>>

FindHandle(t) ==
    /\ pc[t] = "find"
    /\ MutexFree
    /\ IF Found(t) = {}
       THEN Answer(t, "noent") /\ UNCHANGED out
       ELSE /\ Answer(t, "ok")
            /\ \E e \in Found(t) : out' = [out EXCEPT ![t] = e.handle]
    /\ Goto(t, "return")
    /\ UNCHANGED <<mutex, table, next_handle, kernel, alive, op, held, budget>>

(* One glob(3) may fail: the listing ends there.                           *)
ListPorts(t) ==
    /\ pc[t] = "list"
    /\ MutexFree
    /\ Answer(t, "ok") \/ Answer(t, "failed")
    /\ Goto(t, "return")
    /\ UNCHANGED <<mutex, table, next_handle, kernel, alive, op, held, out, budget>>

(* serial_port_manager_destroy: the owner calls it when nobody is inside.  *)
Destroy ==
    /\ alive
    /\ \A t \in Threads : pc[t] = "idle"
    /\ alive' = FALSE
    /\ table' = {}
    /\ kernel' = [d \in Fds |-> IF \E e \in table : e.fd = d THEN Closed ELSE kernel[d]]
    /\ UNCHANGED <<mutex, next_handle, pc, op, held, ret, out, budget>>

-----------------------------------------------------------------------------
OpenStep(t) ==
    \/ OpenCheck(t) \/ OpenDevice(t) \/ OpenDeviceFails(t) \/ Configure(t)
    \/ ConfigureFails(t) \/ OpenInsert(t) \/ OpenLosesRace(t) \/ DiscardPort(t)
    \/ ReportHandle(t)

Step(t) ==
    \/ OpenStep(t) \/ CloseDetach(t) \/ CloseDescriptor(t) \/ EnterPort(t)
    \/ LeavePort(t) \/ FindHandle(t) \/ ListPorts(t) \/ Return(t)

(* The manager is gone: nothing is left to do.                             *)
Terminated == ~alive /\ UNCHANGED vars

Next == (\E t \in Threads : Call(t) \/ Step(t)) \/ Destroy \/ Terminated

Spec == Init /\ [][Next]_vars

(* A thread inside a call keeps running, and a port operation ends: every  *)
(* wait of serial_port.c has a timeout (tcdrain ends when the line drains).*)
FairSpec == Spec /\ \A t \in Threads : WF_vars(Step(t))

-----------------------------------------------------------------------------
(* Types of the manager's state.                                           *)
TypeOK ==
    /\ mutex \in Threads \cup {Nobody}
    /\ table \subseteq Entry
    /\ next_handle \in Nat \ {0}
    /\ kernel \in [Fds -> Names \cup {Closed}]
    /\ alive \in BOOLEAN
    /\ pc \in [Threads -> PCs]
    /\ op \in [Threads -> Operations \cup {NoOperation}]
    /\ held \in [Threads -> SUBSET Entry]
    /\ ret \in [Threads -> {"none", "ok", "already", "noent", "failed"}]
    /\ out \in [Threads -> Nat]
    /\ budget \in [Threads -> Nat]

(* A device path is in the table at most once, although two threads can    *)
(* both find it absent and both open the device (the re-check of           *)
(* serial_port_manager_open).                                              *)
OnePortPerName == \A e, f \in table : e.name = f.name => e = f

(* Every descriptor the kernel holds open belongs to exactly one table     *)
(* entry or one thread that will close or publish it, and every port that  *)
(* can be used stands on an open descriptor of its own device: no path of  *)
(* open, close or destroy leaks a descriptor or closes one twice.          *)
DescriptorsAccounted ==
    /\ \A d \in Fds : kernel[d] # Closed =>
         \/ \E e \in table : e.fd = d
         \/ \E t \in Threads : \E e \in Owned(t) : e.fd = d
    /\ \A e \in table : kernel[e.fd] = e.name
    /\ \A t \in Threads : \A e \in Owned(t) : kernel[e.fd] = e.name
    /\ \A e, f \in table : e.fd = f.fd => e = f
    /\ \A t \in Threads : \A e \in Owned(t), f \in table : e.fd # f.fd
    /\ \A t, u \in Threads : \A e \in Owned(t), f \in Owned(u) : e.fd = f.fd => t = u

(* The comment of serial_port_manager_with_port_locked: while an operation *)
(* runs on a port, the port stays in the table, under the handle the       *)
(* caller asked for, with its descriptor open.                             *)
ConsistentLifetime ==
    \A t \in Threads : pc[t] = "in_port" =>
        /\ held[t] # {}
        /\ \A e \in held[t] :
             e \in table /\ e.handle = op[t].handle /\ kernel[e.fd] = e.name

(* What a thread's position says of its call: the strengthening that makes *)
(* the invariants above inductive.                                         *)
Opening == {"check", "device", "configure", "insert", "discard", "report"}

Undecided == {"idle", "check", "device", "configure", "insert", "detach", "enter", "find", "list"}

CallShape ==
    \A t \in Threads :
        /\ pc[t] \in Opening => op[t] \in [kind : {"open"}, name : Names]
        /\ pc[t] = "detach" => op[t].kind = "close"
        /\ pc[t] \in {"enter", "in_port"} => op[t] \in [kind : {"use"}, handle : Nat]
        /\ pc[t] = "find" => op[t].kind = "find"
        /\ pc[t] = "list" => op[t].kind = "list"
        /\ pc[t] = "idle" => op[t] = NoOperation
        /\ ret[t] = "none" <=> pc[t] \in Undecided
        /\ pc[t] \in {"configure", "insert", "discard"} =>
             \E e \in held[t] : held[t] = {e} /\ e.name = op[t].name
        /\ pc[t] = "in_port" => mutex = t
        /\ mutex = t => pc[t] = "in_port"

HandlesIssued == \A e \in table : e.handle \in 1 .. next_handle - 1

IInv ==
    /\ TypeOK
    /\ CallShape
    /\ HandlesIssued
    /\ OnePortPerName
    /\ DescriptorsAccounted
    /\ ConsistentLifetime

(* An open that succeeds tells its caller the handle the port was          *)
(* published under.                                                        *)
OpenReportsItsHandle ==
    \A t \in Threads :
        pc[t] = "return" /\ op[t].kind = "open" /\ ret[t] = "ok" =>
            held[t] # {} /\ \A e \in held[t] : out[t] = e.handle

(* Every call of the API returns: the mutex is never left locked and no    *)
(* two threads wait for each other.                                        *)
EveryCallReturns == \A t \in Threads : (pc[t] # "idle") ~> (pc[t] = "idle")

(* What the registry sees of the table and of the calls.                   *)
OpenPorts == {[handle |-> e.handle, name |-> e.name] : e \in table}

CallState(t) ==
    IF pc[t] = "idle" THEN "idle" ELSE IF ret[t] = "none" THEN "pending" ELSE ret[t]

Calls == [t \in Threads |-> [op |-> op[t], state |-> CallState(t)]]

Registry == INSTANCE PortRegistry WITH
    registry <- OpenPorts, issued <- 1 .. next_handle - 1, call <- Calls

(* The calls are atomic: each takes effect on the registry of open ports   *)
(* in one step between its invocation and its return.                      *)
CallsAreAtomic == Registry!RegistrySpec

=============================================================================
