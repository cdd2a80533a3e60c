---------------------------- MODULE PortRegistry ----------------------------
(***************************************************************************)
(* What a native port manager promises its callers: a table of open ports  *)
(* in which every call takes effect in one indivisible step between its    *)
(* invocation and its return.  A name is open at most once, and a handle   *)
(* names one opening of one port for ever: it is never issued again.       *)
(* The managers of linux/ and windows/ are meant to implement this module. *)
(***************************************************************************)
EXTENDS Naturals

CONSTANTS
    Threads,    \* the callers
    Names       \* the port names they open

VARIABLES
    registry,   \* the open ports: a set of [handle, name] records
    issued,     \* the handles given out so far
    call        \* call[t]: the operation of caller t and how far it is

rvars == <<registry, issued, call>>

(***************************************************************************)
(* Operations.  Close, use and find name their port by handle or by name.  *)
(***************************************************************************)
Operations ==
         [kind : {"open", "close", "find"}, name : Names]
    \cup [kind : {"close", "use"}, handle : Nat]
    \cup [kind : {"list"}]

Results == {"ok", "already", "noent", "failed"}

NoOperation == [kind |-> "none"]

Matches(op, e) ==
    IF "name" \in DOMAIN op THEN op.name = e.name ELSE op.handle = e.handle

Found(op) == {e \in registry : Matches(op, e)}

RegistryInit ==
    /\ registry = {}
    /\ issued = {}
    /\ call = [t \in Threads |-> [op |-> NoOperation, state |-> "idle"]]

Settle(t, result) ==
    /\ call[t].state = "pending"
    /\ call' = [call EXCEPT ![t].state = result]

Invoke(t) ==
    /\ call[t].state = "idle"
    /\ LET op == call'[t].op
       IN  /\ op \in Operations
           /\ call' = [call EXCEPT ![t] = [op |-> op, state |-> "pending"]]
    /\ UNCHANGED <<registry, issued>>

OpenTakesEffect(t) ==
    /\ call[t].op.kind = "open"
    /\ Found(call[t].op) = {}
    /\ Settle(t, "ok")
    /\ \E e \in registry' :
         /\ e = [handle |-> e.handle, name |-> call[t].op.name]
         /\ e.handle \in Nat \ issued
         /\ registry' = registry \cup {e}
         /\ issued' = issued \cup {e.handle}

OpenRefused(t) ==
    /\ call[t].op.kind = "open"
    /\ Found(call[t].op) # {}
    /\ Settle(t, "already")
    /\ UNCHANGED <<registry, issued>>

OpenFails(t) ==
    /\ call[t].op.kind = "open"
    /\ Settle(t, "failed")
    /\ UNCHANGED <<registry, issued>>

(* The device files cannot be listed.                                      *)
ListFails(t) ==
    /\ call[t].op.kind = "list"
    /\ Settle(t, "failed")
    /\ UNCHANGED <<registry, issued>>

CloseTakesEffect(t) ==
    /\ call[t].op.kind = "close"
    /\ Found(call[t].op) # {}
    /\ Settle(t, "ok")
    /\ registry' = registry \ Found(call[t].op)
    /\ UNCHANGED issued

LookupTakesEffect(t) ==
    /\ \/ call[t].op.kind = "list"
       \/ call[t].op.kind \in {"use", "find"} /\ Found(call[t].op) # {}
    /\ Settle(t, "ok")
    /\ UNCHANGED <<registry, issued>>

NoSuchPort(t) ==
    /\ call[t].op.kind \in {"close", "use", "find"}
    /\ Found(call[t].op) = {}
    /\ Settle(t, "noent")
    /\ UNCHANGED <<registry, issued>>

Finish(t) ==
    /\ call[t].state \in Results
    /\ call' = [call EXCEPT ![t] = [op |-> NoOperation, state |-> "idle"]]
    /\ UNCHANGED <<registry, issued>>

(* The owner discards the whole manager when no call is in progress.       *)
Discard ==
    /\ \A t \in Threads : call[t].state = "idle"
    /\ registry' = {}
    /\ UNCHANGED <<issued, call>>

RegistryNext ==
    \/ \E t \in Threads :
         \/ Invoke(t) \/ OpenTakesEffect(t) \/ OpenRefused(t) \/ OpenFails(t) \/ ListFails(t)
         \/ CloseTakesEffect(t) \/ LookupTakesEffect(t) \/ NoSuchPort(t) \/ Finish(t)
    \/ Discard

RegistrySpec == RegistryInit /\ [][RegistryNext]_rvars
=============================================================================
