---------------------------- MODULE SharedRegistry ----------------------------
(***************************************************************************)
(* What a manager promises whose ports are shared with the calls that use  *)
(* them: a close takes effect in two steps, first on look-ups and then on  *)
(* the port itself.  A call that uses a port                               *)
(*   - is served when it ends before any close of the port begins,         *)
(*   - is refused when it begins after a close of the port has ended,      *)
(*   - may be either when it overlaps the close.                           *)
(* A device is open at most once, and identifiers are never issued twice.  *)
(***************************************************************************)
EXTENDS Naturals

CONSTANTS Threads, Devices

VARIABLES
    registry,   \* the open ports: [id, device] records
    closing,    \* the identifiers whose close has begun
    issued,     \* every identifier given out so far
    call        \* call[t]: the operation of thread t and how far it got

rvars == <<registry, closing, issued, call>>

NoOperation == [kind |-> "none"]

Operations ==
         [kind : {"open"}, device : Devices]
    \cup [kind : {"close", "use"}, id : Nat]
    \cup [kind : {"list"}]

Port(op) == {e \in registry : e.id = op.id}

RegistryInit ==
    /\ registry = {}
    /\ closing = {}
    /\ issued = {}
    /\ call = [t \in Threads |-> [op |-> NoOperation, state |-> "idle"]]

Settle(t, from, to) ==
    /\ call[t].state = from
    /\ call' = [call EXCEPT ![t].state = to]

Invoke(t) ==
    /\ call[t].state = "idle"
    /\ LET op == call'[t].op
       IN  /\ op \in Operations
           /\ call' = [call EXCEPT ![t] = [op |-> op, state |-> "pending"]]
    /\ UNCHANGED <<registry, closing, issued>>

OpenTakesEffect(t) ==
    /\ call[t].op.kind = "open"
    /\ \A e \in registry : e.device # call[t].op.device
    /\ Settle(t, "pending", "ok")
    /\ \E e \in registry' :
         /\ e = [id |-> e.id, device |-> call[t].op.device]
         /\ e.id \in Nat \ issued
         /\ registry' = registry \cup {e}
         /\ issued' = issued \cup {e.id}
    /\ UNCHANGED closing

(* The device may be in use, by this process or another, or be absent.     *)
OpenFails(t) ==
    /\ call[t].op.kind = "open"
    /\ Settle(t, "pending", "failed")
    /\ UNCHANGED <<registry, closing, issued>>

CloseBegins(t) ==
    /\ call[t].op.kind = "close"
    /\ Port(call[t].op) # {}
    /\ call[t].op.id \notin closing
    /\ Settle(t, "pending", "closing")
    /\ closing' = closing \cup {call[t].op.id}
    /\ UNCHANGED <<registry, issued>>

CloseEnds(t) ==
    /\ call[t].op.kind = "close"
    /\ Settle(t, "closing", "ok")
    /\ registry' = registry \ Port(call[t].op)
    /\ closing' = closing \ {call[t].op.id}
    /\ UNCHANGED issued

UseIsServed(t) ==
    /\ call[t].op.kind = "use"
    /\ Port(call[t].op) # {}
    /\ Settle(t, "pending", "served")
    /\ UNCHANGED <<registry, closing, issued>>

(* The device itself is gone: its caller is told the same as if the port   *)
(* was not there.                                                          *)
DeviceIsGone(t) ==
    /\ call[t].op.kind = "use"
    /\ Settle(t, "served", "no port")
    /\ UNCHANGED <<registry, closing, issued>>

NoSuchPort(t) ==
    /\ call[t].op.kind \in {"close", "use"}
    /\ Port(call[t].op) = {} \/ call[t].op.id \in closing
    /\ Settle(t, "pending", "no port")
    /\ UNCHANGED <<registry, closing, issued>>

Lists(t) ==
    /\ call[t].op.kind = "list"
    /\ Settle(t, "pending", "ok")
    /\ UNCHANGED <<registry, closing, issued>>

Finish(t) ==
    /\ call[t].state \in {"ok", "failed", "served", "no port"}
    /\ call' = [call EXCEPT ![t] = [op |-> NoOperation, state |-> "idle"]]
    /\ UNCHANGED <<registry, closing, issued>>

RegistryNext ==
    \E t \in Threads :
        \/ Invoke(t) \/ OpenTakesEffect(t) \/ OpenFails(t) \/ CloseBegins(t)
        \/ CloseEnds(t) \/ UseIsServed(t) \/ DeviceIsGone(t) \/ NoSuchPort(t) \/ Lists(t) \/ Finish(t)

RegistrySpec == RegistryInit /\ [][RegistryNext]_rvars
=============================================================================
