-------------------------- MODULE WindowsPortManager --------------------------
(***************************************************************************)
(* windows/serial_port_manager.cpp, windows/serial_port.cpp and the flat C *)
(* API of windows/platform_serial_plugin.cpp: several threads (isolates)   *)
(* call one manager.                                                       *)
(*                                                                         *)
(* There are two levels of locks.  The manager's mutex_ protects ports_;   *)
(* each SerialPort has a mutex_ that an operation on it holds while the    *)
(* device works.  A port is shared between ports_ and the calls that       *)
(* looked it up, so it can be closed while another call is about to use it.*)
(* A critical section that cannot block is one step.                       *)
(***************************************************************************)
EXTENDS Integers, FiniteSets

CONSTANTS
    Threads,    \* the threads calling the API
    Devices,    \* the devices, COM1 ...
    Ports,      \* SerialPort objects: a bound on those alive at a time
    MaxCalls,   \* bound: calls the threads make in all
    Nobody,     \* no thread holds a mutex
    Invalid     \* INVALID_HANDLE_VALUE

ASSUME NobodyAssumption == Nobody \notin Threads
ASSUME InvalidAssumption == Invalid \notin Devices
ASSUME MaxCallsAssumption == MaxCalls \in Nat

VARIABLES
    mutex,          \* the thread that holds SerialPortManager::mutex_ across steps
    table,          \* ports_: a set of [id, port, name] entries
    next_port_id,
    handle,         \* handle[p]: the device handle_ of p is open on, or Invalid
    busy,           \* busy[p]: the thread that holds mutex_ of p across steps
    pc,             \* pc[t]: where thread t is in its call
    op,             \* op[t]: the call and its arguments
    held,           \* held[t]: the shared_ptrs t has, as [port, name], none or one
    listing,        \* listing[t]: what EnumeratePorts of t has gathered
    ret,            \* ret[t]: the error code t is going to return
    out,            \* out[t]: *port_id, 0 when not written
    budget          \* the calls still to be made

vars == <<mutex, table, next_port_id, handle, busy, pc, op, held, listing, ret, out, budget>>

(* A port may be named with or without the \\.\ prefix.                    *)
Names == [device : Devices, prefixed : BOOLEAN]

(* Mutant: the name is the path as it is.                                  *)
DevicePathAsGiven(n) == n

(* SerialPort::DevicePath adds the prefix where it is missing.             *)
DevicePath(n) == n.device

Entry == [id : Nat, port : Ports, name : Names]

Reference == [port : Ports, name : Names]

NoOperation == [kind |-> "none"]

Operations ==
         [kind : {"open"}, name : Names]
    \cup [kind : {"close", "use"}, id : Nat]
    \cup [kind : {"list"}]

NoListing == [attached |-> {}, todo |-> {}, is_open |-> {}]

PCs == {"idle", "create", "setup", "publish", "erase", "closing", "lookup",
        "acquire", "in_port", "enumerate", "list", "probing", "return"}

ErrorCodes == {"none", "SUCCESS", "FILE_NOT_FOUND", "INVALID_HANDLE", "ACCESS_DENIED",
               "ALREADY_EXISTS", "TIMEOUT", "OTHER"}

(* StatusFromErrorCode: what the C API makes of an error code.             *)
StatusFromErrorCode(code) ==
    CASE code = "SUCCESS" -> "Success"
      [] code \in {"FILE_NOT_FOUND", "INVALID_HANDLE"} -> "PortNotFound"
      [] code \in {"ALREADY_EXISTS", "ACCESS_DENIED"} -> "PortAlreadyOpen"
      [] code = "TIMEOUT" -> "Timeout"
      [] OTHER -> "IoError"

Found(t) == {e \in table : e.id = op[t].id}

MutexFree == mutex = Nobody

(* A SerialPort lives while a shared_ptr to it does.                       *)
Referenced == {e.port : e \in table} \cup UNION {{r.port : r \in held[t]} : t \in Threads}

IsOpen(p) == handle[p] # Invalid

Goto(t, l) == pc' = [pc EXCEPT ![t] = l]

Answer(t, code) == ret' = [ret EXCEPT ![t] = code]

CloseHandles(ports) == handle' = [p \in Ports |-> IF p \in ports THEN Invalid ELSE handle[p]]

HeldPorts(t) == {r.port : r \in held[t]}

Init ==
    /\ mutex = Nobody
    /\ table = {}
    /\ next_port_id = 1
    /\ handle = [p \in Ports |-> Invalid]
    /\ busy = [p \in Ports |-> Nobody]
    /\ pc = [t \in Threads |-> "idle"]
    /\ op = [t \in Threads |-> NoOperation]
    /\ held = [t \in Threads |-> {}]
    /\ listing = [t \in Threads |-> NoListing]
    /\ ret = [t \in Threads |-> "none"]
    /\ out = [t \in Threads |-> 0]
    /\ budget = MaxCalls

-----------------------------------------------------------------------------
(* A thread calls the API.  Identifiers come from earlier opens; those of  *)
(* closed ports may be used again.                                         *)
Entering(o) ==
    CASE o.kind = "open"  -> "create"
      [] o.kind = "close" -> "erase"
      [] o.kind = "use"   -> "lookup"
      [] o.kind = "list"  -> "enumerate"

Callable ==
         [kind : {"open"}, name : Names]
    \cup [kind : {"close", "use"}, id : 1 .. next_port_id - 1]
    \cup [kind : {"list"}]

Call(t) ==
    /\ pc[t] = "idle"
    /\ budget > 0
    /\ budget' = budget - 1
    /\ \E o \in Callable :
         /\ op' = [op EXCEPT ![t] = o]
         /\ Goto(t, Entering(o))
    /\ UNCHANGED <<mutex, table, next_port_id, handle, busy, held, listing, ret, out>>

(* The call's shared_ptr goes; the last one closes what is still open.     *)
Return(t) ==
    /\ pc[t] = "return"
    /\ Goto(t, "idle")
    /\ Answer(t, "none")
    /\ op' = [op EXCEPT ![t] = NoOperation]
    /\ held' = [held EXCEPT ![t] = {}]
    /\ listing' = [listing EXCEPT ![t] = NoListing]
    /\ out' = [out EXCEPT ![t] = 0]
    /\ UNCHANGED <<mutex, table, next_port_id, busy, budget>>
    /\ CloseHandles(Ports \ Referenced')

-----------------------------------------------------------------------------
(* SerialPortManager::OpenPort opens the device before it looks whether    *)
(* the port is open: CreateFileW is asked for the device alone, and fails  *)
(* while any handle is open on it.                                         *)
(* Mutant: the share mode lets others open the device too.                 *)
CreateFileShared(t) ==
    /\ pc[t] = "create"
    /\ \E p \in Ports \ Referenced :
         /\ handle' = [handle EXCEPT ![p] = DevicePath(op[t].name)]
         /\ held' = [held EXCEPT ![t] = {[port |-> p, name |-> op[t].name]}]
    /\ Goto(t, "setup")
    /\ UNCHANGED <<mutex, table, next_port_id, busy, op, listing, ret, out, budget>>

CreateFile(t) ==
    /\ pc[t] = "create"
    /\ \A p \in Ports : handle[p] # DevicePath(op[t].name)
    /\ \E p \in Ports \ Referenced :
         /\ handle' = [handle EXCEPT ![p] = DevicePath(op[t].name)]
         /\ held' = [held EXCEPT ![t] = {[port |-> p, name |-> op[t].name]}]
    /\ Goto(t, "setup")
    /\ UNCHANGED <<mutex, table, next_port_id, busy, op, listing, ret, out, budget>>

CreateFileFails(t) ==
    /\ pc[t] = "create"
    /\ Goto(t, "return")
    /\ \E code \in {"FILE_NOT_FOUND", "ACCESS_DENIED", "OTHER"} : Answer(t, code)
    /\ UNCHANGED <<mutex, table, next_port_id, handle, busy, op, held, listing, out, budget>>

(* SetupComm, ApplyConfiguration, ApplyTimeouts and PurgeComm.             *)
Setup(t) ==
    /\ pc[t] = "setup"
    /\ Goto(t, "publish")
    /\ UNCHANGED <<mutex, table, next_port_id, handle, busy, op, held, listing, ret, out, budget>>

SetupFails(t) ==
    /\ pc[t] = "setup"
    /\ CloseHandles(HeldPorts(t))
    /\ Goto(t, "return")
    /\ Answer(t, "OTHER")
    /\ UNCHANGED <<mutex, table, next_port_id, busy, op, held, listing, out, budget>>

(* Entries of that name; IsOpen waits for the mutex of each.  The device   *)
(* was opened exclusively, so there is none, and Publish takes the manager *)
(* mutex only when it would not have to wait with it.                      *)
SameName(t) == {e \in table : e.name = op[t].name}

(* Mutant: the identifier is the size of the table, so it comes again.     *)
PublishAtSize(t) ==
    /\ pc[t] = "publish"
    /\ MutexFree
    /\ \A e \in SameName(t) : busy[e.port] = Nobody
    /\ \A e \in SameName(t) : ~IsOpen(e.port)
    /\ table' = table \cup {[id |-> Cardinality(table) + 1, port |-> r.port, name |-> r.name] : r \in held[t]}
    /\ out' = [out EXCEPT ![t] = Cardinality(table) + 1]
    /\ next_port_id' = Cardinality(table) + 2
    /\ Answer(t, "SUCCESS")
    /\ Goto(t, "return")
    /\ UNCHANGED <<mutex, busy, op, held, listing, budget, handle>>

Publish(t) ==
    /\ pc[t] = "publish"
    /\ MutexFree
    /\ \A e \in SameName(t) : busy[e.port] = Nobody
    /\ IF \E e \in SameName(t) : IsOpen(e.port)
       THEN /\ CloseHandles(HeldPorts(t))
            /\ Answer(t, "ALREADY_EXISTS")
            /\ UNCHANGED <<table, next_port_id, out>>
       ELSE /\ table' = table \cup {[id |-> next_port_id, port |-> r.port, name |-> r.name] : r \in held[t]}
            /\ out' = [out EXCEPT ![t] = next_port_id]
            /\ next_port_id' = next_port_id + 1
            /\ Answer(t, "SUCCESS")
            /\ UNCHANGED handle
    /\ Goto(t, "return")
    /\ UNCHANGED <<mutex, busy, op, held, listing, budget>>

-----------------------------------------------------------------------------
(* SerialPortManager::ClosePort: the entry leaves ports_ under the mutex,  *)
(* and the port is closed, under its own mutex, without it.                *)
ErasePort(t) ==
    /\ pc[t] = "erase"
    /\ MutexFree
    /\ table' = table \ Found(t)
    /\ held' = [held EXCEPT ![t] = {[port |-> e.port, name |-> e.name] : e \in Found(t)}]
    /\ IF Found(t) = {}
       THEN Goto(t, "return") /\ Answer(t, "FILE_NOT_FOUND")
       ELSE Goto(t, "closing") /\ UNCHANGED ret
    /\ UNCHANGED <<mutex, next_port_id, handle, busy, op, listing, out, budget>>

(* Mutant: Close does not take the port's mutex.                           *)
ClosePortUnlocked(t) ==
    /\ pc[t] = "closing"
    /\ CloseHandles(HeldPorts(t))
    /\ Answer(t, "SUCCESS")
    /\ Goto(t, "return")
    /\ UNCHANGED <<mutex, table, next_port_id, busy, op, held, listing, out, budget>>

ClosePort(t) ==
    /\ pc[t] = "closing"
    /\ \A p \in HeldPorts(t) : busy[p] = Nobody
    /\ CloseHandles(HeldPorts(t))
    /\ Answer(t, IF \A p \in HeldPorts(t) : IsOpen(p) THEN "SUCCESS" ELSE "INVALID_HANDLE")
    /\ Goto(t, "return")
    /\ UNCHANGED <<mutex, table, next_port_id, busy, op, held, listing, out, budget>>

-----------------------------------------------------------------------------
(* SerialPortManager::GetPort, and the operation on the port it returns.   *)
GetPort(t) ==
    /\ pc[t] = "lookup"
    /\ MutexFree
    /\ held' = [held EXCEPT ![t] = {[port |-> e.port, name |-> e.name] : e \in Found(t)}]
    /\ IF Found(t) = {}
       THEN Goto(t, "return") /\ Answer(t, "FILE_NOT_FOUND")
       ELSE Goto(t, "acquire") /\ UNCHANGED ret
    /\ UNCHANGED <<mutex, table, next_port_id, handle, busy, op, listing, out, budget>>

EnsureOpen(t) ==
    /\ pc[t] = "acquire"
    /\ \E p \in HeldPorts(t) :
         /\ busy[p] = Nobody
         /\ IF IsOpen(p)
            THEN /\ busy' = [busy EXCEPT ![p] = t]
                 /\ Goto(t, "in_port")
                 /\ UNCHANGED ret
            ELSE /\ Goto(t, "return")
                 /\ Answer(t, "INVALID_HANDLE")
                 /\ UNCHANGED busy
    /\ UNCHANGED <<mutex, table, next_port_id, handle, op, held, listing, out, budget>>

(* Done, failed (a device that was unplugged denies access, or is not      *)
(* found any more), or, for a read or a write with a timeout, without a    *)
(* byte.                                                                   *)
OperationResults == ErrorCodes \ {"none", "ALREADY_EXISTS"}

(* Mutant: an operation ends in the manager, with the port still locked.   *)
FinishInManager(t) ==
    /\ pc[t] = "in_port"
    /\ MutexFree
    /\ busy' = [p \in Ports |-> IF p \in HeldPorts(t) THEN Nobody ELSE busy[p]]
    /\ \E code \in OperationResults : Answer(t, code)
    /\ Goto(t, "return")
    /\ UNCHANGED <<mutex, table, next_port_id, handle, op, held, listing, out, budget>>

(* ReadFile, WriteFile and the rest end.                                   *)
FinishOperation(t) ==
    /\ pc[t] = "in_port"
    /\ busy' = [p \in Ports |-> IF p \in HeldPorts(t) THEN Nobody ELSE busy[p]]
    /\ \E code \in OperationResults : Answer(t, code)
    /\ Goto(t, "return")
    /\ UNCHANGED <<mutex, table, next_port_id, handle, op, held, listing, out, budget>>

-----------------------------------------------------------------------------
(* SerialPortManager::EnumeratePorts: the registry and the SetupAPI are    *)
(* read without the mutex; both name devices without the prefix.           *)
ReadAttached(t) ==
    /\ pc[t] = "enumerate"
    /\ \E attached \in SUBSET [device : Devices, prefixed : {FALSE}] :
         listing' = [listing EXCEPT ![t] = [NoListing EXCEPT !.attached = attached]]
    /\ Goto(t, "list")
    /\ UNCHANGED <<mutex, table, next_port_id, handle, busy, op, held, ret, out, budget>>

(* The mutex is taken and held while IsOpen is asked of each listed port,  *)
(* which waits for an operation on it.                                     *)
ToProbe(t) == {e \in table : e.name \in listing[t].attached}

(* Mutant: the shared_ptrs are copied, and probed without the mutex.       *)
BeginListingUnlocked(t) ==
    /\ pc[t] = "list"
    /\ MutexFree
    /\ listing' = [listing EXCEPT ![t].todo = ToProbe(t)]
    /\ held' = [held EXCEPT ![t] = {[port |-> e.port, name |-> e.name] : e \in ToProbe(t)}]
    /\ Goto(t, "probing")
    /\ UNCHANGED <<mutex, table, next_port_id, handle, busy, op, ret, out, budget>>

BeginListing(t) ==
    /\ pc[t] = "list"
    /\ MutexFree
    /\ mutex' = t
    /\ listing' = [listing EXCEPT ![t].todo = ToProbe(t)]
    /\ Goto(t, "probing")
    /\ UNCHANGED <<table, next_port_id, handle, busy, op, held, ret, out, budget>>

Probe(t) ==
    /\ pc[t] = "probing"
    /\ \E e \in listing[t].todo :
         /\ busy[e.port] = Nobody
         /\ listing' = [listing EXCEPT ![t].todo = @ \ {e},
                          ![t].is_open = IF IsOpen(e.port) THEN @ \cup {e.name} ELSE @]
    /\ UNCHANGED <<mutex, table, next_port_id, handle, busy, pc, op, held, ret, out, budget>>

EndListing(t) ==
    /\ pc[t] = "probing"
    /\ listing[t].todo = {}
    /\ mutex' = Nobody
    /\ Answer(t, "SUCCESS")
    /\ Goto(t, "return")
    /\ UNCHANGED <<table, next_port_id, handle, busy, op, held, listing, out, budget>>

-----------------------------------------------------------------------------
Step(t) ==
    \/ CreateFile(t) \/ CreateFileFails(t) \/ Setup(t) \/ SetupFails(t) \/ Publish(t)
    \/ ErasePort(t) \/ ClosePort(t) \/ GetPort(t) \/ EnsureOpen(t) \/ FinishOperation(t)
    \/ ReadAttached(t) \/ BeginListing(t) \/ Probe(t) \/ EndListing(t) \/ Return(t)

Next == \E t \in Threads : Call(t) \/ Step(t)

Spec == Init /\ [][Next]_vars

(* A thread inside a call keeps running, and a device operation ends: with *)
(* timeouts above zero ApplyTimeouts bounds every ReadFile and WriteFile.  *)
FairSpec == Spec /\ \A t \in Threads : WF_vars(Step(t))

-----------------------------------------------------------------------------
(* Types of the manager's and the ports' state.                            *)
TypeOK ==
    /\ mutex \in Threads \cup {Nobody}
    /\ table \subseteq Entry
    /\ next_port_id \in Nat \ {0}
    /\ handle \in [Ports -> Devices \cup {Invalid}]
    /\ busy \in [Ports -> Threads \cup {Nobody}]
    /\ pc \in [Threads -> PCs]
    /\ op \in [Threads -> Operations \cup {NoOperation}]
    /\ held \in [Threads -> SUBSET Reference]
    /\ listing \in [Threads -> [attached : SUBSET Names, todo : SUBSET Entry, is_open : SUBSET Names]]
    /\ ret \in [Threads -> ErrorCodes]
    /\ out \in [Threads -> Nat]
    /\ budget \in Nat

(* ports_ has each device once, under whichever of its names, and each of  *)
(* its ports is open on its device.  OpenPort looks for the name after it  *)
(* opened the device, and finds nothing: what keeps a device from being    *)
(* published twice is that a port leaves ports_ before its handle closes.  *)
OneOpenPortPerDevice ==
    /\ \A e \in table : handle[e.port] = DevicePath(e.name)
    /\ \A e, f \in table : DevicePath(e.name) = DevicePath(f.name) => e = f

(* While a device operation runs, the handle it runs on stays open on the  *)
(* device its caller opened, although another call may have taken the port *)
(* out of ports_ and be waiting to close it.                               *)
HandleOutlivesItsUse ==
    \A t \in Threads : pc[t] = "in_port" =>
        /\ held[t] # {}
        /\ \A r \in held[t] : busy[r.port] = t /\ handle[r.port] = DevicePath(r.name)

(* What EnumeratePorts says of a port it has looked at is still so when it *)
(* has looked at all of them: a listing is a snapshot.                     *)
ListingIsASnapshot ==
    \A t \in Threads : pc[t] = "probing" /\ listing[t].todo = {} =>
        listing[t].is_open = {e.name : e \in ToProbe(t)}

(* Every call returns: the two levels of locks are never waited for in a   *)
(* circle, although a listing waits for ports with the manager locked.     *)
EveryCallReturns == \A t \in Threads : (pc[t] # "idle") ~> (pc[t] = "idle")

(* What the registry sees: the ports of ports_, and those that a close has *)
(* taken out of it and not closed yet.                                     *)
Closing(t) == IF pc[t] = "closing" THEN held[t] ELSE {}

OpenPorts ==
         {[id |-> e.id, device |-> DevicePath(e.name)] : e \in table}
    \cup UNION {{[id |-> op[t].id, device |-> DevicePath(r.name)] : r \in Closing(t)} : t \in Threads}

ClosingIds == {op[t].id : t \in {u \in Threads : pc[u] = "closing"}}

Outcome(t) ==
    LET status == StatusFromErrorCode(ret[t])
    IN  CASE op[t].kind = "open" /\ status # "Success" -> "failed"
          [] op[t].kind \in {"close", "use"} /\ status = "PortNotFound" -> "no port"
          [] op[t].kind = "use" /\ status # "PortNotFound" -> "served"
          [] OTHER -> "ok"

CallState(t) ==
    CASE pc[t] = "idle" -> "idle"
      [] pc[t] = "closing" -> "closing"
      [] pc[t] = "in_port" -> "served"
      [] pc[t] = "return" -> Outcome(t)
      [] OTHER -> "pending"

RegistryOperation(t) ==
    IF op[t].kind = "open" THEN [kind |-> "open", device |-> DevicePath(op[t].name)] ELSE op[t]

Calls == [t \in Threads |-> [op |-> RegistryOperation(t), state |-> CallState(t)]]

Registry == INSTANCE SharedRegistry WITH
    registry <- OpenPorts, closing <- ClosingIds, issued <- 1 .. next_port_id - 1, call <- Calls

(* The manager and its ports implement the registry: an open or a refusal  *)
(* takes effect in one step, and a use is served before a close of its     *)
(* port begins, refused after one has ended, and either in between.        *)
CallsAreRegular == Registry!RegistrySpec

-----------------------------------------------------------------------------
(* The inductive invariant.                                                *)

(* Positions belong to one kind of call.                                   *)
CallShape ==
    \A t \in Threads :
        /\ pc[t] = "idle" => op[t] = NoOperation
        /\ pc[t] \in {"create", "setup", "publish"} => op[t] \in [kind : {"open"}, name : Names]
        /\ pc[t] \in {"erase", "closing"} => op[t] \in [kind : {"close"}, id : Nat]
        /\ pc[t] \in {"lookup", "acquire", "in_port"} => op[t] \in [kind : {"use"}, id : Nat]
        /\ pc[t] \in {"enumerate", "list", "probing"} => op[t] \in [kind : {"list"}]
        /\ pc[t] = "return" => op[t] \in Operations /\ ret[t] # "none"

(* What a thread has in its hands at each of its positions.                *)
HeldShape ==
    \A t \in Threads :
        /\ pc[t] \in {"idle", "create", "erase", "lookup", "enumerate", "list", "probing"} =>
               held[t] = {}
        /\ pc[t] \in {"setup", "publish", "closing", "acquire", "in_port"} =>
               \E r \in Reference : held[t] = {r}
        /\ pc[t] \in {"setup", "publish"} => \A r \in held[t] : r.name = op[t].name

(* A thread that makes or closes a port has it open, out of ports_, and is *)
(* the only one that does; one that makes it is the only one that refers   *)
(* to it.  One that uses a port has it open.  One that looked a port up   *)
(* finds it open on the device it was opened on, or closed: it is not made *)
(* anew while anybody refers to it.                                        *)
Owning(t) == pc[t] \in {"setup", "publish", "closing"}

HandsShape ==
    \A t \in Threads : \A r \in held[t] :
        /\ pc[t] = "acquire" => handle[r.port] \in {DevicePath(r.name), Invalid}
        /\ Owning(t) \/ pc[t] = "in_port" => handle[r.port] = DevicePath(r.name)
        /\ Owning(t) => \A e \in table : e.port # r.port
        /\ Owning(t) => \A u \in Threads : Owning(u) /\ r.port \in HeldPorts(u) => u = t
        /\ pc[t] \in {"setup", "publish"} => \A u \in Threads : r.port \in HeldPorts(u) => u = t

(* A device has one open handle; ports_ has one entry for an identifier    *)
(* and for a port, and its ports are open.                                 *)
TableShape ==
    /\ \A p, q \in Ports : handle[p] = handle[q] /\ IsOpen(p) => p = q
    /\ \A e, f \in table : e.id = f.id \/ e.port = f.port => e = f
    /\ \A e \in table : e.id \in 1 .. next_port_id - 1 /\ handle[e.port] = DevicePath(e.name)

(* Who holds which mutex.                                                  *)
LockShape ==
    /\ \A t \in Threads : mutex = t <=> pc[t] = "probing"
    /\ \A p \in Ports, t \in Threads :
           busy[p] = t <=> pc[t] = "in_port" /\ p \in HeldPorts(t)

(* The ports a listing found open and those it has yet to ask are the ones *)
(* it began with.                                                          *)
ListingShapeOf(t) ==
    /\ pc[t] = "list" => listing[t].is_open = {}
    /\ pc[t] = "probing" =>
          /\ listing[t].todo \subseteq table
          /\ \A n \in Names :
                 n \in listing[t].is_open \/ (\E e \in listing[t].todo : e.name = n)
                     <=> \E e \in ToProbe(t) : e.name = n

ListingShape == \A t \in Threads : ListingShapeOf(t)

(* An identifier that is being closed is in ports_ no more, and closed     *)
(* once.                                                                   *)
ClosingShapeOf(t) ==
    pc[t] = "closing" =>
        /\ op[t].id < next_port_id
        /\ \A e \in table : e.id # op[t].id
        /\ \A u \in Threads : pc[u] = "closing" /\ op[u].id = op[t].id => u = t

(* The port that a call looked up under an identifier is open only as long *)
(* as the identifier is in ports_ or being closed.                         *)
AcquireShapeOf(t) ==
    pc[t] = "acquire" => \A r \in held[t] :
        /\ op[t].id < next_port_id
        /\ \A e \in table : e.id = op[t].id => e.port = r.port
        /\ IsOpen(r.port) =>
               \/ \E e \in table : e.id = op[t].id
               \/ \E u \in Threads :
                     pc[u] = "closing" /\ op[u].id = op[t].id /\ r.port \in HeldPorts(u)

IdentifierShape == \A t \in Threads : ClosingShapeOf(t) /\ AcquireShapeOf(t)

IInv ==
    /\ TypeOK /\ CallShape /\ HeldShape /\ HandsShape /\ TableShape /\ LockShape
    /\ ListingShape /\ IdentifierShape
=============================================================================
